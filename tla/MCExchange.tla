----------------------------- MODULE MCExchange -----------------------------
(* An instance of Exchange: two requests to one Agent, which only their    *)
(* request-ids tell apart.                                                 *)
EXTENDS Exchange, TLC

CONSTANTS r1, r2, a1, a2

MCRequests == {r1, r2}
MCEndpoints == {a1, a2}
MCTarget == [r \in MCRequests |-> a1]
MCCommunityOf == [r \in MCRequests |-> "public"]
MCFamilyOf == (a1 :> "v4") @@ (a2 :> "v6")
=============================================================================
