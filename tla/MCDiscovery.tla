---------------------------- MODULE MCDiscovery -----------------------------
(* Small instances of Discovery for TLC. *)
EXTENDS Discovery, TLC

CONSTANTS r1, r2, a1, g1, g2

MCRequests == {r1, r2}
OneRequest == {r1}
OneTarget == [r \in MCRequests |-> a1]
LoneTarget == [r \in OneRequest |-> a1]
LoneAuth == [r \in OneRequest |-> "auth"]
BothAuth == [r \in MCRequests |-> "auth"]
OneAuth == r1 :> "noAuth" @@ r2 :> "auth"

\* No definition tells one Engine from another, or one request from another of its kind.
Symmetry == Permutations({g1, g2}) \union Permutations(MCRequests)
=============================================================================
