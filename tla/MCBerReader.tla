---------------------------- MODULE MCBerReader -----------------------------
(* A small instance of BerReader for TLC. *)
EXTENDS BerReader

\* SEQUENCE, INTEGER (also a length of two) and the high-tag escape; lengths of
\* none, one and three; the indefinite and the reserved length; long ones of one, two and
\* five octets.
MCOctets == {48, 2, 31, 0, 1, 3, 128, 255, 129, 130, 133}
MCExpected == {48, 2}
=============================================================================
