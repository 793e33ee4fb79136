------------------------------ MODULE BerCodec ------------------------------
(***************************************************************************)
(* What ber::Writer and ber::Reader make of the contents of INTEGERs,      *)
(* unsigned numbers and OBJECT IDENTIFIERs.  The radix and the widths are  *)
(* constants, so that every content and every name of a scaled-down        *)
(* instance can be enumerated.                                             *)
(***************************************************************************)
EXTENDS Integers, Sequences, SequencesExt

CONSTANTS
    Base,        \* how many values an octet has (256 in the code)
    IntOctets,   \* the octets of an Integer32 (4)
    WideOctets,  \* the octets of a Counter64 (8)
    Pack,        \* what the first arc of a name is multiplied with (40)
    MaxSubid,    \* the largest sub-identifier (2^32 - 1)
    MaxSubids,   \* Oid::maxSubids (128)
    Subids,      \* the sub-identifiers names are made of
    MaxContent   \* how long a content is at most (a bound of the model)

ASSUME BerCodecAssumption ==
    /\ Base \in Nat /\ Base > 2 /\ Base % 2 = 0
    /\ IntOctets \in Nat /\ WideOctets \in Nat /\ 0 < IntOctets /\ IntOctets <= WideOctets
    /\ Pack \in Nat \ {0}
    /\ MaxSubid \in Nat /\ MaxSubid > 2 * Pack
    /\ MaxSubids \in Nat /\ MaxSubids >= 2
    /\ Subids \subseteq 0..MaxSubid
    /\ MaxContent \in Nat

VARIABLES
    content,  \* the octets of a content received
    name      \* an Oid a caller put together

vars == <<content, name>>

Octets == 0..(Base - 1)

\* The top bit of an octet, and the radix of the groups of a sub-identifier.
Half == Base \div 2

Init ==
    /\ content = <<>>
    /\ name = <<>>

\* A content arrives octet by octet; whatever it is so far, it may be all of it.
Receive ==
    /\ name = <<>>
    /\ Len(content) < MaxContent
    /\ content' \in {Append(content, o) : o \in Octets}
    /\ UNCHANGED name

\* Oid::pushBack().  A caller may well put together a name that is too long.
PushBack ==
    /\ content = <<>>
    /\ Len(name) <= MaxSubids
    /\ name' \in {Append(name, s) : s \in Subids}
    /\ UNCHANGED content

Next == Receive \/ PushBack

Spec == Init /\ [][Next]_vars

\* What a reader or a writer ends with: a value, or an error.
Ok(v) == [error |-> "Ok", value |-> v]

Bad(e) == [error |-> e]

-----------------------------------------------------------------------------
(* Numbers.                                                                *)

\* The number its octets make, most significant first.
Number(c) == FoldLeft(LAMBDA n, o : n * Base + o, 0, c)

\* The last w octets of a number.
Digits(n, w) == [i \in 1..w |-> (n \div Base^(w - i)) % Base]

Negative(o) == o >= Half

\* What is left of c once the octets that only repeat the sign are dropped, all
\* but the last.
Unpadded(c, negative) ==
    LET pad == IF negative THEN Base - 1 ELSE 0
        IsPad(i) == c[i] = pad /\ Negative(c[i + 1]) = negative
        first == CHOOSE i \in 1..Len(c) :
                    /\ \A j \in 1..(i - 1) : IsPad(j)
                    /\ i < Len(c) => ~IsPad(i)
    IN  SubSeq(c, first, Len(c))

\* Reader::integer(): the octets are shifted into a word of IntOctets that starts as
\* all ones when the number is negative, and the word is taken as signed.
ReadInteger(c) ==
    IF c = <<>> THEN Bad("EmptyContent")
    ELSE LET limit == Base^IntOctets
             negative == Negative(c[1])
             rest == Unpadded(c, negative)
             word == FoldLeft(LAMBDA m, o : (m * Base + o) % limit,
                              IF negative THEN limit - 1 ELSE 0, rest)
         IN  IF Len(rest) > IntOctets THEN Bad("IntegerTooLarge")
             ELSE Ok(IF word >= limit \div 2 THEN word - limit ELSE word)

\* Reader::unsignedContent(): the leading zeros are dropped, all of them.
ReadUnsigned(c, maxSignificant) ==
    IF c = <<>> THEN Bad("EmptyContent")
    ELSE LET first == CHOOSE i \in 1..(Len(c) + 1) :
                         /\ \A j \in 1..(i - 1) : c[j] = 0
                         /\ i <= Len(c) => c[i] # 0
             rest == SubSeq(c, first, Len(c))
         IN  IF Len(rest) > maxSignificant THEN Bad("IntegerTooLarge") ELSE Ok(Number(rest))

\* Writer::integer().
WriteInteger(v) == Unpadded(Digits(v % Base^IntOctets, IntOctets), v < 0)

\* Mutant of WriteUnsigned: no room is made for the non-negative marker.
WriteUnsignedBare(v) == Unpadded(Digits(v, WideOctets), FALSE)

\* Writer::unsigned64(), and unsigned32() through it.
WriteUnsigned(v) == Unpadded(<<0>> \o Digits(v, WideOctets), FALSE)
-----------------------------------------------------------------------------
(* Object identifiers.                                                     *)

\* Mutant of IsEncodable: a second arc under arc 2 is taken at any size.
IsEncodableUnbounded(o) ==
    /\ Len(o) >= 2
    /\ Len(o) <= MaxSubids
    /\ o[1] <= 2
    /\ o[1] < 2 => o[2] < Pack

\* Oid::isEncodable().
IsEncodable(o) ==
    /\ Len(o) >= 2
    /\ Len(o) <= MaxSubids
    /\ o[1] <= 2
    /\ o[1] < 2 => o[2] < Pack
    /\ o[1] = 2 => o[2] <= MaxSubid - 2 * Pack

\* subidOctets(): how many groups a sub-identifier takes.
SubidOctets(v) == CHOOSE n \in 1..(v + 1) : v < Half^n /\ (n > 1 => v >= Half^(n - 1))

\* The lambda emit(): the groups, all but the last with the top bit set.
Emit(v) ==
    LET n == SubidOctets(v)
    IN  [i \in 1..n |-> ((v \div Half^(n - i)) % Half) + (IF i < n THEN Half ELSE 0)]

\* The sub-identifiers that are written: the first two arcs as one.
Packed(o) == <<o[1] * Pack + o[2]>> \o SubSeq(o, 3, Len(o))

\* Writer::objectIdentifier(), the content of it.
WriteOid(o) ==
    IF ~IsEncodable(o) THEN Bad("OidNotEncodable")
    ELSE Ok(FoldLeft(LAMBDA c, v : c \o Emit(v), <<>>, Packed(o)))

\* encodedOidSize(), the content's part of it.
OidSize(o) == FoldLeft(LAMBDA n, v : n + SubidOctets(v), 0, Packed(o))

\* The arcs that a sub-identifier read stands for, the first one or a later one.
Arcs(subid, isFirst) ==
    IF ~isFirst THEN <<subid>>
    ELSE IF subid < Pack THEN <<0, subid>>
    ELSE IF subid < 2 * Pack THEN <<1, subid - Pack>>
    ELSE <<2, subid - 2 * Pack>>

\* One octet of the loop of decodeOidContent().
OidStep(s, o) ==
    LET subid == (s.subid * Half) + (o % Half)
        oid == s.oid \o Arcs(subid, s.oid = <<>>)
    IN  IF s.error # "Ok" THEN s
        ELSE IF s.complete /\ o = Half THEN [s EXCEPT !.error = "OidNonMinimal"]
        ELSE IF subid > MaxSubid THEN [s EXCEPT !.error = "OidSubidOverflow"]
        ELSE IF o >= Half THEN [s EXCEPT !.subid = subid, !.complete = FALSE]
        ELSE [subid |-> 0, complete |-> TRUE, oid |-> oid,
              error |-> IF Len(oid) > MaxSubids THEN "OidTooLong" ELSE "Ok"]

\* decodeOidContent().
ReadOid(c) ==
    LET start == [subid |-> 0, complete |-> TRUE, oid |-> <<>>, error |-> "Ok"]
        last == FoldLeft(OidStep, start, c)
    IN  IF c = <<>> THEN Bad("OidEmpty")
        ELSE IF last.error # "Ok" THEN Bad(last.error)
        ELSE IF ~last.complete THEN Bad("OidTruncatedSubid")
        ELSE Ok(last.oid)

-----------------------------------------------------------------------------
(* Correctness.                                                            *)

\* The two's complement number a content is by X.690 8.3.
TwosComplement(c) == Number(c) - (IF Negative(c[1]) THEN Base^Len(c) ELSE 0)

\* Reader::integer() reads every content that is an Integer32 as that number, however
\* much sign padding it has, and refuses every other one; Writer::integer() writes it
\* so that it is read back, in no more octets than anyone could have used for it.
\* Reader::unsigned32() and unsigned64() take a number with the leading zero octet and
\* without it, and Writer::unsigned64() always writes one that is not negative as an
\* INTEGER.
NumbersReadBack ==
    content # <<>> =>
      LET n == TwosComplement(content)
          half == Base^IntOctets \div 2
          fits == n >= -half /\ n < half
      IN  /\ ReadInteger(content) = IF fits THEN Ok(n) ELSE Bad("IntegerTooLarge")
          /\ fits => /\ ReadInteger(WriteInteger(n)) = Ok(n)
                     /\ Len(WriteInteger(n)) <= Len(content)
          /\ \A w \in {IntOctets, WideOctets} :
               LET r == ReadUnsigned(content, w) IN
               IF Number(content) >= Base^w THEN r = Bad("IntegerTooLarge")
               ELSE /\ r = Ok(Number(content))
                    /\ ReadUnsigned(WriteUnsigned(r.value), w) = r
                    /\ TwosComplement(WriteUnsigned(r.value)) = r.value

\* Every name that decodeOidContent() accepts can be written, and is written as the
\* very octets it came in: a Walk asks for the name it was given last, and two
\* contents never stand for one name.  Every name Oid::isEncodable() admits is read
\* back as it was, in as many octets as encodedOidSize() says.
NamesReadBack ==
    /\ LET r == ReadOid(content) IN
       r.error = "Ok" => IsEncodable(r.value) /\ WriteOid(r.value) = Ok(content)
    /\ IsEncodable(name) =>
         LET c == WriteOid(name).value
         IN  ReadOid(c) = Ok(name) /\ Len(c) = OidSize(name)
=============================================================================
