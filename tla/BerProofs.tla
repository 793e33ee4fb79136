----------------------------- MODULE BerProofs ------------------------------
(***************************************************************************)
(* For every buffer and every sequence of reads: the cursor, the Scopes    *)
(* and what is handed out stay in bounds, the first error sticks, and      *)
(* elements are consumed in order.  For every sequence of writes and every *)
(* content: an open Scope of the Writer finds its placeholder where it     *)
(* left it.                                                                *)
(***************************************************************************)
EXTENDS BerReader, SequenceTheorems, TLAPS

-----------------------------------------------------------------------------
(* The Reader.                                                             *)

BufOK == buf \in Seq(0..255)

ReaderInv == BufOK /\ TypeOK /\ InBounds

\* The octets inside the bound are octets.
LEMMA AtIsOctet == BufOK => \A p \in Nat : p < Len(buf) => At(p) \in 0..255
<1> SUFFICES ASSUME BufOK, NEW p \in Nat, p < Len(buf)
             PROVE  At(p) \in 0..255
  BY SMTT(30)
<1>1. buf \in Seq(0..255) /\ p + 1 \in 1..Len(buf)
  BY DEF BufOK
<1>2. buf[p + 1] \in 0..255
  BY SMTT(30), <1>1, ElementOfSeq
<1> QED BY <1>2 DEF At

\* Octets put together base 256 make a natural number.
LEMMA OctetsMakeNat ==
    ASSUME NEW a \in Nat, NEW b \in 0..255
    PROVE  a * 256 + b \in Nat
<1>1. a * 256 \in Nat
  OBVIOUS
<1> QED BY <1>1

\* A header that is found right has its content inside the innermost element,
\* behind the two octets it takes itself at least.
LEMMA HeaderIsInside ==
    ASSUME ReaderInv, HeaderError = "none"
    PROVE  /\ ContentStart \in Nat
           /\ ContentEnd \in Nat
           /\ pos + 2 <= ContentStart
           /\ ContentStart <= ContentEnd
           /\ ContentEnd <= end
<1> DEFINE k == LengthOctets(At(pos + 1))
<1>1. /\ pos \in Nat /\ end \in Nat /\ Len(buf) \in Nat
      /\ pos + 2 <= end
      /\ end <= Len(buf)
  <2>1. pos \in Nat /\ end \in Nat /\ Len(buf) \in Nat /\ end <= Len(buf)
    BY LenProperties DEF ReaderInv, BufOK, TypeOK, InBounds
  <2>2. ~(end - pos < 2)
    BY DEF HeaderError
  <2> QED BY <2>1, <2>2
<1>2. At(pos + 1) \in 0..255
  <2>1. pos + 1 \in Nat /\ pos + 1 < Len(buf)
    BY <1>1
  <2> QED BY ZenonT(40), <2>1, AtIsOctet DEF ReaderInv
<1>3. /\ At(pos + 1) # 128
      /\ ~(k > 4)
      /\ ~(end < ContentStart)
      /\ ~(Length(pos + 1) > end - ContentStart)
  <2>1. At(pos + 1) # 128
    BY DEF HeaderError
  <2>2. ~(k > 4)
    BY DEF HeaderError
  <2>3. ~(end < ContentStart)
    BY DEF HeaderError
  <2>4. ~(Length(pos + 1) > end - ContentStart)
    BY DEF HeaderError
  <2> QED BY <2>1, <2>2, <2>3, <2>4
<1>4. k \in 0..4 /\ (At(pos + 1) >= 128 => k # 0)
  BY <1>2, <1>3 DEF LengthOctets
<1>5. ContentStart = pos + 2 + k
  BY DEF ContentStart
<1> HIDE DEF k
<1>6. \A i \in 1..4 : i <= k => At(pos + 1 + i) \in 0..255
  <2> SUFFICES ASSUME NEW i \in 1..4, i <= k
               PROVE  At(pos + 1 + i) \in 0..255
    OBVIOUS
  <2>1. pos + 1 + i \in Nat /\ pos + 1 + i < Len(buf)
    BY <1>1, <1>3, <1>4, <1>5
  <2> QED BY ZenonT(40), <2>1, AtIsOctet DEF ReaderInv
<1>7. Length(pos + 1) \in Nat
  <2>1. CASE At(pos + 1) < 128
    BY <2>1, <1>2 DEF Length
  <2>2. CASE ~(At(pos + 1) < 128)
    <3>1. k \in 1..4
      BY <1>2, <1>4, <2>2
    <3>2. LongLength(pos + 1) \in Nat
      <4>1. CASE k = 1
        <5>1. At(pos + 1 + 1) \in 0..255
          BY <1>6, <4>1
        <5> QED BY <4>1, <5>1 DEF LongLength, k
      <4>2. CASE k = 2
        <5>1. At(pos + 1 + 1) \in 0..255 /\ At(pos + 1 + 2) \in 0..255
          BY <1>6, <4>2
        <5>2. LongLength(pos + 1) = At(pos + 1 + 1) * 256 + At(pos + 1 + 2)
          BY <4>2 DEF LongLength, k
        <5>3. At(pos + 1 + 1) * 256 + At(pos + 1 + 2) \in Nat
          <6>1. At(pos + 1 + 1) \in Nat
            BY <5>1
          <6> QED BY <5>1, <6>1, OctetsMakeNat
        <5> QED BY <5>2, <5>3
      <4>3. CASE k = 3
        <5>1. At(pos + 1 + 1) \in 0..255 /\ At(pos + 1 + 2) \in 0..255 /\ At(pos + 1 + 3) \in 0..255
          BY <1>6, <4>3
        <5>2. LongLength(pos + 1) = (At(pos + 1 + 1) * 256 + At(pos + 1 + 2)) * 256 + At(pos + 1 + 3)
          BY <4>3 DEF LongLength, k
        <5>3. At(pos + 1 + 1) * 256 + At(pos + 1 + 2) \in Nat
          <6>1. At(pos + 1 + 1) \in Nat
            BY <5>1
          <6> QED BY <5>1, <6>1, OctetsMakeNat
        <5>4. (At(pos + 1 + 1) * 256 + At(pos + 1 + 2)) * 256 + At(pos + 1 + 3) \in Nat
          BY <5>1, <5>3, OctetsMakeNat
        <5> QED BY <5>2, <5>4
      <4>4. CASE k = 4
        <5>1. /\ At(pos + 1 + 1) \in 0..255 /\ At(pos + 1 + 2) \in 0..255
              /\ At(pos + 1 + 3) \in 0..255 /\ At(pos + 1 + 4) \in 0..255
          BY <1>6, <4>4
        <5>2. LongLength(pos + 1) = ((At(pos + 1 + 1) * 256 + At(pos + 1 + 2)) * 256 + At(pos + 1 + 3)) * 256
                                  + At(pos + 1 + 4)
          BY <4>4 DEF LongLength, k
        <5>3. At(pos + 1 + 1) * 256 + At(pos + 1 + 2) \in Nat
          <6>1. At(pos + 1 + 1) \in Nat
            BY <5>1
          <6> QED BY <5>1, <6>1, OctetsMakeNat
        <5>4. (At(pos + 1 + 1) * 256 + At(pos + 1 + 2)) * 256 + At(pos + 1 + 3) \in Nat
          BY <5>1, <5>3, OctetsMakeNat
        <5>5. ((At(pos + 1 + 1) * 256 + At(pos + 1 + 2)) * 256 + At(pos + 1 + 3)) * 256 + At(pos + 1 + 4) \in Nat
          BY <5>1, <5>4, OctetsMakeNat
        <5> QED BY <5>2, <5>5
      <4> QED BY <3>1, <4>1, <4>2, <4>3, <4>4
    <3> QED BY <2>2, <3>2 DEF Length
  <2> QED BY <2>1, <2>2
<1>8. ContentEnd = ContentStart + Length(pos + 1)
  BY DEF ContentEnd
<1> QED BY <1>1, <1>3, <1>4, <1>5, <1>7, <1>8

-----------------------------------------------------------------------------
(* The stack of Scopes.                                                    *)

ScopeSet == [savedEnd: Nat, contentEnd: Nat]

\* What InBounds says of the Scopes s, inside n octets, when the bound is e and the
\* error err.
Nested(s, e, err, n) ==
    /\ \A i \in 1..Len(s) :
          /\ s[i].contentEnd <= s[i].savedEnd
          /\ s[i].savedEnd <= n
          /\ e <= s[i].savedEnd
          /\ err = "none" => e <= s[i].contentEnd
    /\ \A i, j \in 1..Len(s) : i < j =>
          /\ s[j].savedEnd <= s[i].savedEnd
          /\ err = "none" => s[j].savedEnd <= s[i].contentEnd

\* A Scope opened inside the bound nests in those that are open.
LEMMA PushNests ==
    ASSUME NEW s \in Seq(ScopeSet), NEW e \in Nat, NEW n \in Nat, NEW err, NEW err2,
           NEW c \in Nat, NEW e2 \in Nat, Nested(s, e, err, n),
           e <= n, c <= e, e2 <= e, err2 = "none" => err = "none" /\ e2 <= c
    PROVE  LET t == Append(s, [savedEnd |-> e, contentEnd |-> c])
           IN  t \in Seq(ScopeSet) /\ Nested(t, e2, err2, n)
<1> DEFINE new == [savedEnd |-> e, contentEnd |-> c]
           t == Append(s, new)
<1>1. new \in ScopeSet /\ new.savedEnd = e /\ new.contentEnd = c
  BY DEF ScopeSet
<1>2. /\ t \in Seq(ScopeSet)
      /\ Len(t) = Len(s) + 1
      /\ \A i \in 1..Len(s) : t[i] = s[i]
      /\ t[Len(s) + 1] = new
  <2> HIDE DEF new
  <2> QED BY <1>1, AppendProperties
<1>3. Len(s) \in Nat /\ \A i \in 1..Len(s) : s[i].savedEnd \in Nat /\ s[i].contentEnd \in Nat
  <2>1. Len(s) \in Nat /\ \A i \in 1..Len(s) : s[i] \in ScopeSet
    BY LenProperties, ElementOfSeq
  <2> QED BY SMTT(30), <2>1 DEF ScopeSet
<1> HIDE DEF new, t
<1>4. ASSUME NEW i \in 1..Len(t)
      PROVE  /\ t[i].contentEnd <= t[i].savedEnd
             /\ t[i].savedEnd <= n
             /\ e2 <= t[i].savedEnd
             /\ err2 = "none" => e2 <= t[i].contentEnd
  <2>1. CASE i \in 1..Len(s)
    BY <2>1, <1>2, <1>3 DEF Nested
  <2>2. CASE i = Len(s) + 1
    BY <2>2, <1>1, <1>2
  <2> QED BY <1>2, <1>3, <2>1, <2>2
<1>5. ASSUME NEW i \in 1..Len(t), NEW j \in 1..Len(t), i < j
      PROVE  /\ t[j].savedEnd <= t[i].savedEnd
             /\ err2 = "none" => t[j].savedEnd <= t[i].contentEnd
  <2>1. CASE j \in 1..Len(s)
    <3>1. i \in 1..Len(s)
      BY <1>3, <1>5, <2>1
    <3> QED BY <1>2, <1>5, <2>1, <3>1 DEF Nested
  <2>2. CASE j = Len(s) + 1
    <3>1. i \in 1..Len(s)
      BY <1>2, <1>3, <1>5, <2>2
    <3> QED BY <1>1, <1>2, <2>2, <3>1 DEF Nested
  <2> QED BY <1>2, <1>3, <2>1, <2>2
<1>6. Nested(t, e2, err2, n)
  BY <1>4, <1>5 DEF Nested
<1> QED BY <1>2, <1>6 DEF t, new

\* What is left after the innermost Scope is closed nests, with the bound it saved.
LEMMA PopNests ==
    ASSUME NEW s \in Seq(ScopeSet), s # <<>>, NEW e \in Nat, NEW n \in Nat, NEW err, NEW err2,
           Nested(s, e, err, n), err2 = "none" => err = "none"
    PROVE  LET top == s[Len(s)]
               t == SubSeq(s, 1, Len(s) - 1)
           IN  /\ top \in ScopeSet
               /\ top.contentEnd <= top.savedEnd
               /\ top.savedEnd <= n
               /\ t \in Seq(ScopeSet)
               /\ Nested(t, top.savedEnd, err2, n)
<1> DEFINE top == s[Len(s)]
           t == SubSeq(s, 1, Len(s) - 1)
<1>1. Len(s) \in Nat \ {0} /\ \A i \in 1..Len(s) : s[i] \in ScopeSet
  BY EmptySeq, LenProperties, ElementOfSeq
<1>2. Len(s) \in 1..Len(s) /\ 1 \in Int /\ Len(s) - 1 \in Int
  BY <1>1
<1>3. /\ t \in Seq(ScopeSet)
      /\ Len(t) = Len(s) - 1
      /\ \A i \in 1..Len(t) : t[i] = s[i]
  <2>1. \A i \in 1..(Len(s) - 1) : s[i] \in ScopeSet
    BY <1>1
  <2>2. /\ t \in Seq(ScopeSet)
        /\ Len(t) = IF 1 <= Len(s) - 1 THEN Len(s) - 1 - 1 + 1 ELSE 0
        /\ \A i \in 1..(Len(s) - 1 - 1 + 1) : t[i] = s[1 + i - 1]
    <3>1. PICK q \in Int : q = Len(s) - 1
      BY <1>2
    <3>2. \A i \in 1..q : s[i] \in ScopeSet
      BY <2>1, <3>1
    <3>3. SubSeq(s, 1, q) \in Seq(ScopeSet)
      BY <1>2, <3>2, SubSeqProperties
    <3>4. Len(SubSeq(s, 1, q)) = IF 1 <= q THEN q - 1 + 1 ELSE 0
      BY <1>2, <3>2, SubSeqProperties
    <3>5. \A i \in 1..(q - 1 + 1) : SubSeq(s, 1, q)[i] = s[1 + i - 1]
      BY <1>2, <3>2, SubSeqProperties
    <3>6. t = SubSeq(s, 1, q)
      BY <3>1
    <3> HIDE DEF t
    <3> QED BY <3>1, <3>3, <3>4, <3>5, <3>6
  <2> HIDE DEF t
  <2>3. Len(t) = Len(s) - 1
    <3>1. PICK m \in Nat : m = Len(s) /\ m # 0
      BY <1>1
    <3>2. Len(t) = IF 1 <= m - 1 THEN m - 1 - 1 + 1 ELSE 0
      BY <2>2, <3>1
    <3>3. Len(t) = m - 1
      <4>1. CASE 1 <= m - 1
        <5>1. Len(t) = m - 1 - 1 + 1
          BY <3>2, <4>1
        <5> QED BY <5>1
      <4>2. CASE ~(1 <= m - 1)
        <5>1. Len(t) = 0 /\ m = 1
          BY <3>1, <3>2, <4>2
        <5> QED BY <5>1
      <4> QED BY <4>1, <4>2
    <3> QED BY <3>1, <3>3
  <2>4. ASSUME NEW i \in 1..Len(t) PROVE t[i] = s[i]
    <3>1. i \in 1..(Len(s) - 1 - 1 + 1) /\ 1 + i - 1 = i
      BY <1>1, <2>3
    <3> HIDE DEF t
    <3> QED BY <2>2, <3>1
  <2> QED BY <2>2, <2>3, <2>4
<1> HIDE DEF t
<1>4. top.contentEnd <= top.savedEnd /\ top.savedEnd <= n
  BY <1>2 DEF Nested
<1>5. Nested(t, top.savedEnd, err2, n)
  <2>1. ASSUME NEW i \in 1..Len(t)
        PROVE  i \in 1..Len(s) /\ i < Len(s) /\ t[i] = s[i]
    BY <1>1, <1>3
  <2> QED BY SMTT(30), <1>2, <2>1 DEF Nested
<1> QED BY <1>1, <1>2, <1>3, <1>4, <1>5 DEF t

-----------------------------------------------------------------------------
(* The invariant.                                                          *)

\* The facts of ReaderInv in the form the steps below use.
LEMMA InvParts ==
    ReaderInv <=> /\ buf \in Seq(0..255)
                  /\ pos \in Nat /\ end \in Nat /\ ec \in Errors \union {"none"}
                  /\ scopes \in Seq(ScopeSet) /\ read \in [from: Nat, to: Nat]
                  /\ pos <= end /\ end <= Len(buf)
                  /\ read.from <= read.to /\ read.to <= pos
                  /\ Nested(scopes, end, ec, Len(buf))
<1>1. scopes \in Seq(ScopeSet) => DOMAIN scopes = 1..Len(scopes)
  BY LenProperties
<1> QED BY <1>1, Zenon DEF ReaderInv, BufOK, TypeOK, InBounds, Nested, ScopeSet

\* What a header may be refused with.
LEMMA HeaderErrorType == HeaderError \in Errors \union {"none"}
BY DEF HeaderError, Errors

\* An empty reader over any buffer is in bounds.
LEMMA InitInv == Init => ReaderInv
<1> SUFFICES ASSUME Init PROVE ReaderInv
  OBVIOUS
<1>1. PICK n \in 0..MaxBuf : buf \in [1..n -> Octets]
  BY DEF Init
<1>2. n \in Nat /\ buf \in [1..n -> 0..255]
  <2>1. n \in Nat /\ Octets \subseteq 0..255
    BY BerReaderAssumption
  <2> QED BY ZenonT(40), <1>1, <2>1
<1>3. buf \in Seq(0..255) /\ Len(buf) \in Nat
  <2>1. buf \in Seq(0..255)
    BY <1>2
  <2> QED BY <2>1, LenProperties
<1>4. scopes = <<>> /\ scopes \in Seq(ScopeSet) /\ Len(scopes) = 0
  BY EmptySeq DEF Init
<1>5. Nested(scopes, end, ec, Len(buf))
  BY <1>4 DEF Nested
<1> QED BY <1>3, <1>4, <1>5, InvParts DEF Init, Nothing

\* Failing keeps the invariant, whatever the error: it only clamps the cursor.
LEMMA FailKeepsInv ==
    ASSUME ReaderInv, NEW e \in Errors, ec = "none", Fail(e), UNCHANGED <<buf, end, scopes>>
    PROVE  ReaderInv'
<1>1. /\ ec' = e /\ ec' # "none" /\ pos' = end /\ read' = Nothing
  BY DEF Fail, Errors
<1>2. Nested(scopes, end, ec', Len(buf))
  BY <1>1, InvParts DEF Nested
<1>3. (/\ buf \in Seq(0..255)
       /\ pos \in Nat /\ end \in Nat /\ ec \in Errors \union {"none"}
       /\ scopes \in Seq(ScopeSet) /\ read \in [from: Nat, to: Nat]
       /\ pos <= end /\ end <= Len(buf)
       /\ read.from <= read.to /\ read.to <= pos
       /\ Nested(scopes, end, ec, Len(buf)))'
  BY <1>1, <1>2, InvParts DEF Nothing
<1> QED BY <1>3, InvParts, PTL

\* Handing out an extent of the innermost element keeps the invariant.
LEMMA HandOutKeepsInv ==
    ASSUME ReaderInv, HeaderError = "none", NEW from \in {pos, ContentStart},
           pos' = ContentEnd, read' = [from |-> from, to |-> ContentEnd],
           UNCHANGED <<buf, end, scopes, ec>>
    PROVE  ReaderInv'
<1>1. /\ from \in Nat /\ ContentEnd \in Nat /\ from <= ContentEnd /\ ContentEnd <= end
  BY HeaderIsInside, InvParts
<1>2. (/\ buf \in Seq(0..255)
       /\ pos \in Nat /\ end \in Nat /\ ec \in Errors \union {"none"}
       /\ scopes \in Seq(ScopeSet) /\ read \in [from: Nat, to: Nat]
       /\ pos <= end /\ end <= Len(buf)
       /\ read.from <= read.to /\ read.to <= pos
       /\ Nested(scopes, end, ec, Len(buf)))'
  BY <1>1, InvParts
<1> QED BY <1>2, InvParts, PTL

\* Entering an element keeps the invariant, whether it is there, it is refused, or
\* an earlier error makes the Scope empty.
LEMMA EnterKeepsInv ==
    ASSUME ReaderInv, NEW t \in Expected, Enter(t)
    PROVE  ReaderInv'
<1> DEFINE error == IF pos >= end \/ ~IsConstructed(t) \/ At(pos) # t
                      THEN "UnexpectedTag" ELSE HeaderError
<1>1. error \in Errors \union {"none"} /\ (error = "none" => HeaderError = "none")
  <2>1. "UnexpectedTag" \in Errors
    BY DEF Errors
  <2> QED BY <2>1, HeaderErrorType
<1>2. PICK c : /\ scopes' = Append(scopes, [savedEnd |-> end, contentEnd |-> c])
               /\ c \in Nat /\ c <= end
               /\ end' \in Nat /\ end' <= end /\ pos' \in Nat /\ pos' <= end'
               /\ ec' \in Errors \union {"none"} /\ (ec' = "none" => ec = "none" /\ end' <= c)
               /\ read' \in {read, Nothing}
               /\ read' = read => pos' >= pos
  <2>1. CASE ec # "none"
    <3>1. /\ scopes' = Append(scopes, [savedEnd |-> end, contentEnd |-> pos])
          /\ pos' = pos /\ end' = end /\ ec' = ec /\ read' = read
      BY <2>1 DEF Enter
    <3> QED BY <2>1, <3>1, InvParts
  <2>2. CASE ec = "none" /\ error # "none"
    <3>1. /\ scopes' = Append(scopes, [savedEnd |-> end, contentEnd |-> end])
          /\ Fail(error) /\ end' = end
      BY <2>2 DEF Enter
    <3> HIDE DEF error
    <3>2. ec' = error /\ pos' = end /\ read' = Nothing
      BY <2>2, <3>1 DEF Fail
    <3> QED BY <1>1, <2>2, <3>1, <3>2, InvParts
  <2>3. CASE ec = "none" /\ error = "none"
    <3>1. /\ scopes' = Append(scopes, [savedEnd |-> end, contentEnd |-> ContentEnd])
          /\ pos' = ContentStart /\ end' = ContentEnd /\ read' = Nothing /\ ec' = ec
      BY <2>3 DEF Enter
    <3>2. /\ ContentStart \in Nat /\ ContentEnd \in Nat
          /\ pos + 2 <= ContentStart /\ ContentStart <= ContentEnd /\ ContentEnd <= end
      BY <1>1, <2>3, HeaderIsInside
    <3> HIDE DEF error
    <3>3. pos \in Nat /\ ContentStart >= pos /\ ec \in Errors \union {"none"}
      BY <3>2, InvParts
    <3>4. pos' >= pos /\ end' <= ContentEnd
      BY <3>1, <3>2, <3>3
    <3> WITNESS ContentEnd
    <3> QED BY <2>3, <3>1, <3>2, <3>3, <3>4
  <2> QED BY ZenonT(40), <2>1, <2>2, <2>3
<1> HIDE DEF error
<1>3. scopes' \in Seq(ScopeSet) /\ Nested(scopes', end', ec', Len(buf))
  <2>1. Len(buf) \in Nat
    BY LenProperties, InvParts
  <2> QED BY ZenonT(40), <1>2, <2>1, PushNests, InvParts
<1>4. read' \in [from: Nat, to: Nat] /\ read'.from <= read'.to /\ read'.to <= pos'
  BY SMTT(30), <1>2, InvParts DEF Nothing
<1>5. buf' = buf
  BY DEF Enter
<1>6. (/\ buf \in Seq(0..255)
       /\ pos \in Nat /\ end \in Nat /\ ec \in Errors \union {"none"}
       /\ scopes \in Seq(ScopeSet) /\ read \in [from: Nat, to: Nat]
       /\ pos <= end /\ end <= Len(buf)
       /\ read.from <= read.to /\ read.to <= pos
       /\ Nested(scopes, end, ec, Len(buf)))'
  BY SMTT(30), <1>2, <1>3, <1>4, <1>5, InvParts
<1> QED BY <1>6, InvParts, PTL

\* Leaving a Scope keeps the invariant, error or not.
LEMMA LeaveKeepsInv ==
    ASSUME ReaderInv, Leave
    PROVE  ReaderInv'
<1>1. PICK top : /\ top = scopes[Len(scopes)]
                 /\ scopes # <<>>
                 /\ ec' = IF ec = "none" /\ pos # top.contentEnd THEN "TrailingData" ELSE ec
                 /\ end' = top.savedEnd
                 /\ pos' = top.contentEnd
                 /\ scopes' = SubSeq(scopes, 1, Len(scopes) - 1)
                 /\ read' = Nothing
                 /\ buf' = buf
  BY DEF Leave
<1>2. ec' \in Errors \union {"none"} /\ (ec' = "none" => ec = "none")
  BY <1>1, InvParts DEF Errors
<1>3. /\ top \in ScopeSet
      /\ top.contentEnd <= top.savedEnd
      /\ top.savedEnd <= Len(buf)
      /\ scopes' \in Seq(ScopeSet)
      /\ Nested(scopes', top.savedEnd, ec', Len(buf))
  <2>1. Len(buf) \in Nat
    BY LenProperties, InvParts
  <2> QED BY ZenonT(40), <1>1, <1>2, <2>1, PopNests, InvParts
<1>4. top.contentEnd \in Nat /\ top.savedEnd \in Nat
  BY <1>3 DEF ScopeSet
<1>5. (/\ buf \in Seq(0..255)
       /\ pos \in Nat /\ end \in Nat /\ ec \in Errors \union {"none"}
       /\ scopes \in Seq(ScopeSet) /\ read \in [from: Nat, to: Nat]
       /\ pos <= end /\ end <= Len(buf)
       /\ read.from <= read.to /\ read.to <= pos
       /\ Nested(scopes, end, ec, Len(buf)))'
  BY <1>1, <1>2, <1>3, <1>4, InvParts DEF Nothing
<1> QED BY <1>5, InvParts, PTL

\* Every call keeps the invariant.
LEMMA NextInv == ReaderInv /\ [Next]_vars => ReaderInv'
<1> SUFFICES ASSUME ReaderInv, [Next]_vars PROVE ReaderInv'
  OBVIOUS
<1>0. /\ "Truncated" \in Errors /\ "UnexpectedTag" \in Errors
      /\ "TrailingData" \in Errors /\ "other" \in Errors
      /\ HeaderError # "none" => HeaderError \in Errors
  BY HeaderErrorType DEF Errors
<1>1. ASSUME NEW t \in Expected, Primitive(t) PROVE ReaderInv'
  <2>1. CASE HeaderError = "none" /\ pos' = ContentEnd /\ UNCHANGED <<buf, end, scopes, ec>>
             /\ read' = [from |-> ContentStart, to |-> ContentEnd]
    BY <2>1, HandOutKeepsInv
  <2>2. CASE \E e \in Errors : ec = "none" /\ Fail(e) /\ UNCHANGED <<buf, end, scopes>>
    BY <2>2, FailKeepsInv
  <2> QED BY <1>0, <1>1, <2>1, <2>2 DEF Primitive
<1>2. ASSUME NEW t \in Expected, Enter(t) PROVE ReaderInv'
  BY <1>2, EnterKeepsInv
<1>3. CASE SkipElement
  <2>1. CASE HeaderError = "none"
    BY <1>3, <2>1, HandOutKeepsInv DEF SkipElement
  <2>2. CASE HeaderError # "none"
    BY <1>0, <1>3, <2>2, FailKeepsInv DEF SkipElement
  <2> QED BY <2>1, <2>2
<1>4. CASE Reject
  BY <1>0, <1>4, FailKeepsInv DEF Reject
<1>5. CASE Leave
  BY <1>5, LeaveKeepsInv
<1>6. CASE Finish
  BY <1>0, <1>6, FailKeepsInv DEF Finish
<1>7. CASE UNCHANGED vars
  BY <1>7 DEF vars, ReaderInv, BufOK, TypeOK, InBounds
<1> QED BY <1>1, <1>2, <1>3, <1>4, <1>5, <1>6, <1>7 DEF Next

-----------------------------------------------------------------------------
(* The theorems.                                                           *)

\* After any sequence of reads of any buffer the state is well formed, the cursor
\* is inside the innermost element, the elements are nested inside the buffer, and
\* what ber::Reader hands out lies behind the cursor.
THEOREM ReaderStaysInBounds == Spec => [](TypeOK /\ InBounds)
<1>1. ReaderInv => TypeOK /\ InBounds
  BY DEF ReaderInv
<1> QED BY <1>1, InitInv, NextInv, PTL DEF Spec

\* The invariant holds of every behaviour of ber::Reader's cursor.
LEMMA InvHolds == Spec => []ReaderInv
BY InitInv, NextInv, PTL DEF Spec

\* A reader in error has handed out nothing.
Quiet == ec # "none" => read = Nothing

\* It stays so: every call of ber::Reader that fails hands out nothing.
LEMMA QuietHolds == Spec => []Quiet
<1>1. Init => Quiet
  BY DEF Init, Quiet
<1>2. Quiet /\ [Next]_vars => Quiet'
  <2> SUFFICES ASSUME Quiet, [Next]_vars PROVE Quiet'
    OBVIOUS
  <2>1. ASSUME NEW t \in Expected, Primitive(t) PROVE Quiet'
    BY <2>1 DEF Primitive, Fail, Quiet
  <2>2. ASSUME NEW t \in Expected, Enter(t) PROVE Quiet'
    BY <2>2 DEF Enter, Fail, Quiet
  <2>3. CASE SkipElement
    BY <2>3 DEF SkipElement, Fail, Quiet
  <2>4. CASE Reject \/ Leave \/ Finish
    BY <2>4 DEF Reject, Leave, Finish, Fail, Quiet
  <2>5. CASE UNCHANGED vars
    BY <2>5 DEF vars, Quiet
  <2> QED BY <2>1, <2>2, <2>3, <2>4, <2>5 DEF Next
<1> QED BY <1>1, <1>2, PTL DEF Spec

\* The first error of a ber::Reader is the one it keeps, and after it nothing is
\* handed out: a decoder may read on and look at the error once, at the end.
THEOREM FirstErrorSticks == Spec => ErrorSticks
<1>1. [Next]_vars => [ec # "none" => ec' = ec /\ (read' = read \/ read' = Nothing)]_vars
  <2> SUFFICES ASSUME Next, ec # "none"
               PROVE  ec' = ec /\ (read' = read \/ read' = Nothing)
    OBVIOUS
  <2>1. ASSUME NEW t \in Expected, Enter(t) PROVE ec' = ec /\ read' = read
    BY <2>1 DEF Enter
  <2>2. CASE Leave
    BY <2>2 DEF Leave
  <2> QED BY <2>1, <2>2 DEF Next, Primitive, SkipElement, Reject, Finish
<1> QED BY <1>1, PTL DEF Spec, ErrorSticks

\* What ber::Reader hands out is content of the innermost element that is open,
\* for every buffer: a length never reaches into what follows the element.
THEOREM ReadsStayInElement == Spec => ReadsItsElement
<1>1. ReaderInv /\ Quiet /\ [Next]_vars
        => [read' # Nothing => pos <= read'.from /\ read'.to <= end]_vars
  <2> SUFFICES ASSUME ReaderInv, Quiet, Next, read' # Nothing
               PROVE  pos <= read'.from /\ read'.to <= end
    OBVIOUS
  <2>1. ASSUME HeaderError = "none", NEW from \in {pos, ContentStart},
               read' = [from |-> from, to |-> ContentEnd]
        PROVE  pos <= read'.from /\ read'.to <= end
    <3>1. read'.from = from /\ read'.to = ContentEnd
      BY <2>1
    <3>2. pos <= from /\ ContentEnd <= end
      BY <2>1, HeaderIsInside, InvParts
    <3> QED BY <3>1, <3>2
  <2>2. ASSUME NEW t \in Expected, Primitive(t)
        PROVE  HeaderError = "none" /\ read' = [from |-> ContentStart, to |-> ContentEnd]
    BY <2>2 DEF Primitive, Fail
  <2>3. ASSUME NEW t \in Expected, Enter(t) PROVE FALSE
    BY <2>3 DEF Enter, Fail, Quiet
  <2>4. CASE SkipElement
    BY <2>1, <2>4 DEF SkipElement, Fail
  <2>5. ~Reject /\ ~Leave /\ ~Finish
    BY DEF Reject, Leave, Finish, Fail
  <2> QED BY <2>1, <2>2, <2>3, <2>4, <2>5 DEF Next
<1> QED BY <1>1, InvHolds, QuietHolds, PTL DEF Spec, ReadsItsElement

\* A read that succeeds moves the cursor of ber::Reader forward, past the two
\* octets of a header at least: no octet is handed out twice, and the loop of
\* varbindList() over the elements of a list ends.
THEOREM ReadsAdvance == Spec => Advances
<1>1. ReaderInv /\ [Next]_vars
        => [ec' = "none" => /\ pos' >= pos
                            /\ read' # read /\ read' # Nothing => pos' >= pos + 2]_vars
  <2> SUFFICES ASSUME ReaderInv, Next, ec' = "none"
               PROVE  pos' >= pos /\ (read' # read /\ read' # Nothing => pos' >= pos + 2)
    OBVIOUS
  <2>1. pos \in Nat
    BY InvParts
  <2>2. ASSUME NEW e \in Errors, Fail(e) PROVE FALSE
    BY <2>2 DEF Fail, Errors
  <2>3. "Truncated" \in Errors /\ "UnexpectedTag" \in Errors /\ "TrailingData" \in Errors
        /\ "other" \in Errors /\ (HeaderError # "none" => HeaderError \in Errors)
    BY HeaderErrorType DEF Errors
  <2>4. HeaderError = "none" =>
          /\ ContentStart \in Nat /\ ContentEnd \in Nat
          /\ ContentStart >= pos /\ ContentEnd >= pos /\ ContentEnd >= pos + 2
    BY <2>1, HeaderIsInside
  <2>5. ASSUME NEW t \in Expected, Primitive(t)
        PROVE  HeaderError = "none" /\ pos' = ContentEnd
    BY <2>2, <2>3, <2>5 DEF Primitive
  <2>6. ASSUME NEW t \in Expected, Enter(t)
        PROVE  pos' >= pos /\ (read' = read \/ read' = Nothing)
    <3>1. CASE ec # "none"
      BY <2>1, <2>6, <3>1 DEF Enter
    <3>2. CASE ec = "none"
      <4>1. HeaderError = "none" /\ pos' = ContentStart /\ read' = Nothing
        BY <2>2, <2>3, <2>6, <3>2 DEF Enter
      <4> QED BY <2>4, <4>1
    <3> QED BY <3>1, <3>2
  <2>7. CASE SkipElement
    <3>1. HeaderError = "none" /\ pos' = ContentEnd
      BY <2>2, <2>3, <2>7 DEF SkipElement
    <3> QED BY <2>4, <3>1
  <2>8. ~Reject /\ ~Finish
    BY <2>2, <2>3 DEF Reject, Finish
  <2>9. CASE Leave
    <3>1. pos' = pos /\ read' = Nothing
      BY <2>9 DEF Leave
    <3> QED BY <2>1, <3>1
  <2> QED BY <2>4, <2>5, <2>6, <2>7, <2>8, <2>9 DEF Next
<1> QED BY <1>1, InvHolds, PTL DEF Spec, Advances

-----------------------------------------------------------------------------
(* The Writer.                                                             *)

CONSTANT Elements

VARIABLES wbuf, wec, wopen

W == INSTANCE BerWriter WITH buf <- wbuf, ec <- wec, open <- wopen

Octet == 0..255

\* Scopes are in order, each behind the placeholder of every one around it: ~Scope()
\* moves what is behind its own placeholder, and that has to be no other's.
WriterInv ==
    /\ wbuf \in Seq(Octet)
    /\ wopen \in Seq(Nat)
    /\ \A i \in 1..Len(wopen) :
         /\ wopen[i] \in 1..(Len(wbuf) - 1)
         /\ wbuf[wopen[i] + 1] = 0
    /\ \A i, j \in 1..Len(wopen) : i < j => wopen[j] >= wopen[i] + 2

\* A length of up to four octets is a sequence of octets.
LEMMA LengthIsOctets ==
    ASSUME NEW n \in Nat
    PROVE  /\ W!LengthOctets(n) \in 1..5
           /\ W!LengthOctets(n) = 1 <=> n < 128
           /\ \A k \in 1..4 : W!SignificantOctets(n, k) \in Seq(Octet)
<1>1. W!LengthOctets(n) \in 1..5 /\ (W!LengthOctets(n) = 1 <=> n < 128)
  BY DEF W!LengthOctets
<1>2. ASSUME NEW k \in 1..4
      PROVE  W!SignificantOctets(n, k) \in Seq(Octet)
  <2>1. ASSUME NEW i \in 1..k
        PROVE  (n \div W!Weight(k - i + 1)) % 256 \in Octet
    <3>1. W!Weight(k - i + 1) \in Nat /\ W!Weight(k - i + 1) > 0
      BY SMTT(30) DEF W!Weight
    <3> QED BY SMTT(30), <3>1 DEF Octet
  <2> QED BY <2>1 DEF W!SignificantOctets
<1> QED BY <1>1, <1>2

\* What is behind the octet before the one given is all that appending changes.
LEMMA AppendingKeeps ==
    ASSUME NEW b \in Seq(Octet), NEW c \in Seq(Octet)
    PROVE  /\ b \o c \in Seq(Octet)
           /\ Len(b \o c) = Len(b) + Len(c)
           /\ \A p \in 1..Len(b) : (b \o c)[p] = b[p]
<1> QED BY ConcatProperties, LenProperties

\* An element is octets.
LEMMA TlvIsOctets ==
    ASSUME NEW t \in Octet, NEW c \in Seq(Octet)
    PROVE  W!Tlv(t, c) \in Seq(Octet)
<1> DEFINE n == Len(c)
<1>1. n \in Nat
  BY LenProperties
<1> HIDE DEF n
<1>2. W!PutLength(n) \in Seq(Octet)
  <2>1. CASE n < 128
    BY <1>1, <2>1 DEF W!PutLength, Octet
  <2>2. CASE ~(n < 128)
    <3> DEFINE k == W!LengthOctets(n) - 1
    <3>1. k \in 1..4
      BY <1>1, <2>2, LengthIsOctets
    <3> HIDE DEF k
    <3>2. W!SignificantOctets(n, k) \in Seq(Octet)
      BY ZenonT(40), <1>1, <3>1, LengthIsOctets
    <3>3. <<128 + k>> \in Seq(Octet)
      BY <3>1 DEF Octet
    <3>4. W!PutLength(n) = <<128 + k>> \o W!SignificantOctets(n, k)
      BY <2>2 DEF W!PutLength, k
    <3> QED BY <3>2, <3>3, <3>4, AppendingKeeps
  <2> QED BY <2>1, <2>2
<1>3. <<t>> \in Seq(Octet)
  OBVIOUS
<1>4. <<t>> \o W!PutLength(n) \in Seq(Octet)
  BY <1>2, <1>3, AppendingKeeps
<1>5. (<<t>> \o W!PutLength(n)) \o c \in Seq(Octet)
  BY <1>4, AppendingKeeps
<1> QED BY <1>5 DEF W!Tlv, n

\* Patching keeps everything in front of the placeholder, and leaves an octet in its
\* place.
LEMMA PatchingKeeps ==
    ASSUME NEW b \in Seq(Octet), NEW p \in 1..(Len(b) - 1)
    PROVE  /\ W!Patched(b, p) \in Seq(Octet)
           /\ Len(W!Patched(b, p)) >= p + 1
           /\ \A q \in 1..p : W!Patched(b, p)[q] = b[q]
<1> DEFINE front == SubSeq(b, 1, p)
           content == SubSeq(b, p + 2, Len(b))
           n == Len(content)
           needed == W!LengthOctets(n)
<1>1. Len(b) \in Nat /\ p \in Nat
  BY LenProperties
<1>2. /\ front \in Seq(Octet) /\ Len(front) = p
      /\ \A q \in 1..p : front[q] = b[q]
  BY <1>1, SubSeqProperties
<1>3. content \in Seq(Octet) /\ n \in Nat
  BY <1>1, SubSeqProperties, LenProperties
<1>4. needed \in 1..5 /\ (needed = 1 => n < 128)
  BY ZenonT(40), <1>3, LengthIsOctets
<1>5. W!Patched(b, p) = IF needed > 1
                      THEN front \o <<128 + needed - 1>>
                             \o W!SignificantOctets(n, needed - 1) \o content
                      ELSE front \o <<n>> \o content
  BY DEF W!Patched
<1> HIDE DEF front, content, n, needed
<1>6. ASSUME NEW l \in Octet
      PROVE  /\ front \o <<l>> \in Seq(Octet) /\ Len(front \o <<l>>) = p + 1
             /\ \A q \in 1..p : (front \o <<l>>)[q] = b[q]
  <2>1. <<l>> \in Seq(Octet) /\ Len(<<l>>) = 1
    OBVIOUS
  <2> QED BY <1>1, <1>2, <2>1, AppendingKeeps
<1>7. CASE needed > 1
  <2>1. needed - 1 \in 1..4 /\ 128 + needed - 1 \in Octet
    BY <1>4, <1>7 DEF Octet
  <2>2. W!SignificantOctets(n, needed - 1) \in Seq(Octet)
    BY ZenonT(40), <1>3, <2>1, LengthIsOctets
  <2> DEFINE l == 128 + needed - 1
             s == W!SignificantOctets(n, needed - 1)
             head == front \o <<l>>
  <2>3. W!Patched(b, p) = head \o s \o content
    BY <1>5, <1>7
  <2>4. l \in Octet /\ s \in Seq(Octet)
    BY <2>1, <2>2
  <2> HIDE DEF l, s
  <2>5. head \in Seq(Octet) /\ Len(head) = p + 1 /\ \A q \in 1..p : head[q] = b[q]
    BY <1>6, <2>4
  <2> HIDE DEF head
  <2>6. /\ head \o s \in Seq(Octet) /\ Len(head \o s) >= p + 1
        /\ \A q \in 1..p : (head \o s)[q] = b[q]
    BY <1>1, <2>4, <2>5, AppendingKeeps, LenProperties
  <2>7. /\ (head \o s) \o content \in Seq(Octet) /\ Len((head \o s) \o content) >= p + 1
        /\ \A q \in 1..p : ((head \o s) \o content)[q] = b[q]
    BY <1>1, <1>3, <2>6, AppendingKeeps, LenProperties
  <2> QED BY <2>3, <2>7
<1>8. CASE ~(needed > 1)
  <2>1. n \in Octet
    BY <1>3, <1>4, <1>8 DEF Octet
  <2>3. /\ front \o <<n>> \in Seq(Octet) /\ Len(front \o <<n>>) = p + 1
        /\ \A q \in 1..p : (front \o <<n>>)[q] = b[q]
    BY <1>6, <2>1
  <2>4. /\ (front \o <<n>>) \o content \in Seq(Octet)
        /\ Len((front \o <<n>>) \o content) >= p + 1
        /\ \A q \in 1..p : ((front \o <<n>>) \o content)[q] = b[q]
    BY <1>1, <1>3, <2>3, AppendingKeeps, LenProperties
  <2> QED BY <1>5, <1>8, <2>4
<1> QED BY <1>7, <1>8

\* ~Scope() keeps the places of the Scopes around it.
LEMMA ClosingKeeps ==
    ASSUME WriterInv, W!EndScope
    PROVE  WriterInv'
<1> DEFINE k == Len(wopen)
           p == wopen[k]
<1>1. /\ k \in Nat /\ k >= 1
      /\ Len(wbuf) \in Nat
  BY LenProperties, EmptySeq DEF WriterInv, W!EndScope
<1>2. p \in 1..(Len(wbuf) - 1)
  BY <1>1 DEF WriterInv
<1>3. /\ wopen' \in Seq(Nat) /\ Len(wopen') = k - 1
      /\ \A i \in 1..(k - 1) : wopen'[i] = wopen[i]
  <2>1. wopen \in Seq(Nat) /\ wopen' = SubSeq(wopen, 1, k - 1)
    BY DEF WriterInv, W!EndScope
  <2>2. k - 1 \in Int /\ \A i \in 1..(k - 1) : wopen[i] \in Nat
    BY <1>1, <2>1, ElementOfSeq
  <2> DEFINE m == k - 1
             rest == SubSeq(wopen, 1, m)
  <2>3. /\ rest \in Seq(Nat) /\ Len(rest) = IF 1 <= m THEN m - 1 + 1 ELSE 0
        /\ \A i \in 1..(m - 1 + 1) : rest[i] = wopen[1 + i - 1]
    <3> HIDE DEF m
    <3> QED BY <2>2, SubSeqProperties DEF m
  <2>4. Len(rest) = k - 1 /\ \A i \in 1..(k - 1) : rest[i] = wopen[i]
    <3>1. Len(rest) = k - 1 /\ m - 1 + 1 = k - 1
      <4>1. m \in Nat /\ m = k - 1
        BY <1>1
      <4> HIDE DEF m, rest, k
      <4> QED BY <2>3, <4>1
    <3>2. ASSUME NEW i \in 1..(k - 1) PROVE rest[i] = wopen[i]
      <4>1. 1 + i - 1 = i /\ i \in 1..(m - 1 + 1)
        BY <1>1, <3>1
      <4> QED BY <2>3, <4>1
    <3> QED BY <3>1, <3>2
  <2> QED BY <2>1, <2>3, <2>4
<1>4. /\ wbuf' \in Seq(Octet)
      /\ Len(wbuf') >= p + 1
      /\ \A q \in 1..p : wbuf'[q] = wbuf[q]
  <2>1. wbuf \in Seq(Octet) /\ wbuf' = W!Patched(wbuf, p)
    BY DEF WriterInv, W!EndScope
  <2> QED BY <1>2, <2>1, PatchingKeeps
<1>5. Len(wbuf') \in Nat
  BY <1>4, LenProperties
<1>6. ASSUME NEW i \in 1..Len(wopen')
      PROVE  wopen'[i] \in 1..(Len(wbuf') - 1) /\ wbuf'[wopen'[i] + 1] = 0
  <2>1. i \in 1..k /\ k \in 1..k /\ i < k /\ wopen'[i] = wopen[i]
    <3>1. i \in 1..(k - 1) /\ wopen'[i] = wopen[i]
      BY <1>3
    <3> HIDE DEF k
    <3> QED BY <1>1, <3>1
  <2>2. p >= wopen[i] + 2 /\ wopen[i] \in 1..(Len(wbuf) - 1) /\ wbuf[wopen[i] + 1] = 0
    BY <2>1 DEF WriterInv
  <2>3. wopen[i] + 1 \in 1..p
    BY SMTT(30), <1>1, <1>2, <2>2
  <2>4. wbuf'[wopen[i] + 1] = wbuf[wopen[i] + 1]
    BY <1>4, <2>3
  <2>5. wopen[i] \in 1..(Len(wbuf') - 1)
    BY SMTT(30), <1>1, <1>2, <1>4, <1>5, <2>2
  <2> QED BY <2>1, <2>2, <2>4, <2>5
<1>7. ASSUME NEW i \in 1..Len(wopen'), NEW j \in 1..Len(wopen'), i < j
      PROVE  wopen'[j] >= wopen'[i] + 2
  <2>1. i \in 1..(k - 1) /\ j \in 1..(k - 1)
    BY <1>3
  <2>2. wopen'[i] = wopen[i] /\ wopen'[j] = wopen[j]
    BY SMTT(30), <1>3, <2>1
  <2>3. i \in 1..k /\ j \in 1..k
    BY <1>1, <2>1
  <2> QED BY <1>7, <2>2, <2>3 DEF WriterInv
<1> QED BY <1>3, <1>4, <1>6, <1>7 DEF WriterInv

\* What only appends keeps the places of all Scopes.
LEMMA WritingKeeps ==
    ASSUME WriterInv, NEW c \in Seq(Octet), wbuf' = wbuf \o c, wopen' = wopen
    PROVE  WriterInv'
<1>1. /\ wbuf \in Seq(Octet) /\ wopen \in Seq(Nat)
      /\ Len(wbuf) \in Nat /\ Len(c) \in Nat /\ Len(wopen) \in Nat
  BY LenProperties DEF WriterInv
<1>2. /\ wbuf' \in Seq(Octet)
      /\ Len(wbuf') = Len(wbuf) + Len(c)
      /\ \A q \in 1..Len(wbuf) : wbuf'[q] = wbuf[q]
  BY <1>1, AppendingKeeps
<1>3. ASSUME NEW i \in 1..Len(wopen)
      PROVE  wopen[i] \in 1..(Len(wbuf') - 1) /\ wbuf'[wopen[i] + 1] = 0
  <2>1. wopen[i] \in 1..(Len(wbuf) - 1) /\ wbuf[wopen[i] + 1] = 0
    BY DEF WriterInv
  <2>2. wopen[i] + 1 \in 1..Len(wbuf)
    BY SMTT(30), <1>1, <2>1
  <2> QED BY <1>1, <1>2, <2>1, <2>2
<1> QED BY SMTT(30), <1>1, <1>2, <1>3 DEF WriterInv

\* beginConstructed() adds a Scope behind all that there is.
LEMMA OpeningKeeps ==
    ASSUME WriterInv, NEW t \in Octet, W!BeginConstructed(t)
    PROVE  WriterInv'
<1> DEFINE k == Len(wopen)
           n == Len(wbuf)
<1>1. /\ wbuf \in Seq(Octet) /\ wopen \in Seq(Nat) /\ n \in Nat /\ k \in Nat
  BY LenProperties DEF WriterInv
<1>2. <<t, 0>> \in Seq(Octet) /\ Len(<<t, 0>>) = 2 /\ <<t, 0>>[2] = 0
  BY DEF Octet
<1>3. /\ wbuf' \in Seq(Octet)
      /\ Len(wbuf') = n + 2
      /\ \A q \in 1..n : wbuf'[q] = wbuf[q]
      /\ wbuf'[n + 2] = 0
  <2>1. wbuf' = wbuf \o <<t, 0>>
    BY DEF W!BeginConstructed
  <2>2. /\ wbuf' \in Seq(Octet)
        /\ Len(wbuf') = n + 2
        /\ \A q \in 1..n : wbuf'[q] = wbuf[q]
    BY <1>1, <1>2, <2>1, AppendingKeeps
  <2>3. wbuf'[n + 2] = 0
    BY <1>1, <1>2, <2>1, ConcatProperties
  <2> QED BY <2>2, <2>3
<1>4. /\ wopen' \in Seq(Nat) /\ Len(wopen') = k + 1
      /\ \A i \in 1..k : wopen'[i] = wopen[i]
      /\ wopen'[k + 1] = n + 1
  BY <1>1, AppendProperties DEF W!BeginConstructed
<1>5. \A i \in 1..k : wopen[i] \in 1..(n - 1) /\ wbuf[wopen[i] + 1] = 0
  BY DEF WriterInv
<1>6. ASSUME NEW i \in 1..Len(wopen')
      PROVE  wopen'[i] \in 1..(Len(wbuf') - 1) /\ wbuf'[wopen'[i] + 1] = 0
  <2>1. CASE i \in 1..k
    <3>1. wopen'[i] = wopen[i] /\ wopen[i] \in 1..(n - 1) /\ wbuf[wopen[i] + 1] = 0
      BY <1>4, <1>5, <2>1
    <3>2. wopen[i] + 1 \in 1..n
      BY SMTT(30), <1>1, <3>1
    <3> QED BY SMTT(30), <1>1, <1>3, <3>1, <3>2
  <2>2. CASE i = k + 1
    BY <1>1, <1>3, <1>4, <2>2
  <2> QED BY <1>1, <1>4, <2>1, <2>2
<1>7. ASSUME NEW i \in 1..Len(wopen'), NEW j \in 1..Len(wopen'), i < j
      PROVE  wopen'[j] >= wopen'[i] + 2
  <2>1. i \in 1..k /\ wopen'[i] = wopen[i] /\ wopen[i] \in 1..(n - 1)
    BY SMTT(30), <1>1, <1>4, <1>5, <1>7
  <2>2. CASE j \in 1..k
    BY ZenonT(40), <1>4, <1>7, <2>1, <2>2 DEF WriterInv
  <2>3. CASE j = k + 1
    <3>1. wopen'[j] = n + 1
      BY <1>4, <2>3
    <3> HIDE DEF n
    <3> QED BY SMTT(30), <1>1, <2>1, <3>1
  <2> QED BY <1>1, <1>4, <2>2, <2>3
<1> QED BY <1>3, <1>4, <1>6, <1>7 DEF WriterInv

\* Every call of the Writer, in any order and after an error too, leaves every open
\* Scope the place of its length: ~Scope() finds its placeholder behind its identifier,
\* and the length it computes by subtraction does not wrap.
THEOREM PlacesAreHeld ==
    ASSUME Elements \subseteq [tag: Octet, content: Seq(Octet)]
    PROVE  W!Spec => []W!PlacesHeld
<1>1. W!Init => WriterInv
  <2> SUFFICES ASSUME W!Init PROVE WriterInv
    OBVIOUS
  <2>1. wbuf = << >> /\ wopen = << >> /\ Len(wopen) = 0
    BY EmptySeq DEF W!Init
  <2> QED BY <2>1 DEF WriterInv
<1>2. WriterInv /\ [W!Next]_W!vars => WriterInv'
  <2> SUFFICES ASSUME WriterInv, [W!Next]_W!vars PROVE WriterInv'
    OBVIOUS
  <2>1. ASSUME NEW element \in Elements, W!Write(element) PROVE WriterInv'
    <3>1. W!Tlv(element.tag, element.content) \in Seq(Octet)
      <4>1. element.tag \in Octet /\ element.content \in Seq(Octet)
        OBVIOUS
      <4> QED BY <4>1, TlvIsOctets
    <3>2. CASE wec = "none"
      BY ZenonT(40), <2>1, <3>1, <3>2, WritingKeeps DEF W!Write
    <3>3. CASE wec # "none"
      BY <2>1, <3>3 DEF W!Write, WriterInv
    <3> QED BY <3>2, <3>3
  <2>2. CASE W!WriteNotEncodable
    BY <2>2 DEF W!WriteNotEncodable, WriterInv
  <2>3. ASSUME NEW t \in 0..255, W!BeginConstructed(t) PROVE WriterInv'
    BY ZenonT(40), <2>3, OpeningKeeps DEF Octet
  <2>4. CASE W!EndScope
    BY <2>4, ClosingKeeps
  <2>5. CASE UNCHANGED W!vars
    BY <2>5 DEF W!vars, WriterInv
  <2> QED BY <2>1, <2>2, <2>3, <2>4, <2>5 DEF W!Next
<1>3. WriterInv => W!PlacesHeld
  <2> SUFFICES ASSUME WriterInv PROVE W!PlacesHeld
    OBVIOUS
  <2>1. DOMAIN wopen = 1..Len(wopen) /\ Len(wopen) \in Nat
    BY LenProperties DEF WriterInv
  <2>2. ASSUME NEW i \in 1..Len(wopen)
        PROVE  /\ wopen[i] \in 1..(Len(wbuf) - 1) /\ wbuf[wopen[i] + 1] = 0
               /\ i > 1 => wopen[i] >= wopen[i - 1] + 2
    <3>1. wopen[i] \in 1..(Len(wbuf) - 1) /\ wbuf[wopen[i] + 1] = 0
      BY DEF WriterInv
    <3>2. ASSUME i > 1 PROVE wopen[i] >= wopen[i - 1] + 2
      <4>1. i - 1 \in 1..Len(wopen) /\ i - 1 < i
        BY <2>1, <3>2
      <4> QED BY ZenonT(40), <4>1 DEF WriterInv
    <3> QED BY <3>1, <3>2
  <2> QED BY SMTT(30), <2>1, <2>2 DEF W!PlacesHeld
<1> QED BY <1>1, <1>2, <1>3, PTL DEF W!Spec
=============================================================================
