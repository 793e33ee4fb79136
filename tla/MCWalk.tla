------------------------------- MODULE MCWalk -------------------------------
(* Small instances of Walk for TLC. *)
EXTENDS Walk

\* The base, two instances beneath it of which one is a prefix of nothing else and
\* one has a child, and an OID on either side of the Subtree.
MCBase == <<1>>
MCOids == {<<0, 7>>, <<1>>, <<1, 0>>, <<1, 1>>, <<1, 1, 0>>, <<2>>}
=============================================================================
