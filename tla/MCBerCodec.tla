----------------------------- MODULE MCBerCodec -----------------------------
(* A scaled-down instance of BerCodec for TLC. *)
EXTENDS BerCodec

\* The ends of one, two and three groups, of the packed arcs, and of the range.
MCSubids == {0, 1, 2, 3, 4, 5, 9, 15, 16, 20, 21, 22, 31}
=============================================================================
