----------------------------- MODULE BerLength ------------------------------
(***************************************************************************)
(* How ber::Writer puts an identifier and a definite length before a       *)
(* content.                                                                *)
(***************************************************************************)
LOCAL INSTANCE Integers
LOCAL INSTANCE Sequences

\* Mutant of LengthOctets: a content of 128 octets still gets the short form.
LengthOctetsShort(n) ==
    IF n <= 128 THEN 1 ELSE IF n < 256 THEN 2 ELSE IF n < 65536 THEN 3
    ELSE IF n < 16777216 THEN 4 ELSE 5

\* lengthOctets(): one octet for the short form, else the count and the significant
\* octets of the length.  (What takes more than four octets, 4 GiB, is left out.)
LengthOctets(n) ==
    IF n < 128 THEN 1 ELSE IF n < 256 THEN 2 ELSE IF n < 65536 THEN 3
    ELSE IF n < 16777216 THEN 4 ELSE 5

\* What an octet counts for, the j-th from the last.
Weight(j) == <<1, 256, 65536, 16777216>>[j]

\* The k octets of n, the most significant first.
SignificantOctets(n, k) == [i \in 1..k |-> (n \div Weight(k - i + 1)) % 256]

\* Writer::putLength().
PutLength(n) ==
    IF n < 128 THEN <<n>>
    ELSE LET significant == LengthOctets(n) - 1
         IN  <<128 + significant>> \o SignificantOctets(n, significant)

\* Writer::tlv(), and octetString() with it.
Tlv(t, content) == <<t>> \o PutLength(Len(content)) \o content
=============================================================================
