---------------------------- MODULE MCV3Message -----------------------------
(* A small instance of V3Message for TLC. *)
EXTENDS V3Message

\* With these the security parameters and the whole message end on either side of
\* 127 and of 255 octets.
MCEngineIds == {0, 12, 45}
MCUserNames == {0, 32}
MCScoped == {20, 45, 120}
MCWidths == {0, 12, 48}

\* Lengths and identifiers at the front, the flags, the digest, and the payload.
MCFlipped == {1, 2, 3, 6, 8, 20, 25, 26, 27, 28, 29, 30, 31, 32, 33, 40, 55, 60, 70, 80, 90, 100, 150}
=============================================================================
