-------------------------- MODULE V3MessageProofs ---------------------------
(***************************************************************************)
(* For every engineID, user name, payload and width of a digest: what is   *)
(* accepted is what was signed.  The encoders are followed to where the    *)
(* digest ends up; SentInv is the inductive invariant.                     *)
(***************************************************************************)
EXTENDS V3Message, SequenceTheorems, TLAPS

Octets == Seq(0..255)

-----------------------------------------------------------------------------
(* Elements, as they are written.                                          *)

\* Two octet strings behind each other.
LEMMA Joined ==
    ASSUME NEW b \in Octets, NEW c \in Octets
    PROVE  /\ b \o c \in Octets
           /\ Len(b) \in Nat /\ Len(c) \in Nat
           /\ Len(b \o c) = Len(b) + Len(c)
           /\ \A i \in 1..Len(b) : (b \o c)[i] = b[i]
           /\ \A i \in 1..Len(c) : (b \o c)[Len(b) + i] = c[i]
<1>1. /\ b \o c \in Octets /\ Len(b) \in Nat /\ Len(c) \in Nat /\ Len(b \o c) = Len(b) + Len(c)
  BY ConcatProperties, LenProperties DEF Octets
<1>2. \A i \in 1..(Len(b) + Len(c)) :
        (b \o c)[i] = IF i <= Len(b) THEN b[i] ELSE c[i - Len(b)]
  BY ConcatProperties DEF Octets
<1>3. ASSUME NEW i \in 1..Len(b) PROVE (b \o c)[i] = b[i]
  BY <1>1, <1>2
<1>4. ASSUME NEW i \in 1..Len(c) PROVE (b \o c)[Len(b) + i] = c[i]
  BY <1>1, <1>2
<1> QED BY Zenon, <1>1, <1>3, <1>4

\* putLength() writes octets, as many as lengthOctets() says.
LEMMA LengthWritten ==
    ASSUME NEW n \in Nat
    PROVE  /\ LengthOctets(n) \in 1..5
           /\ PutLength(n) \in Octets
           /\ Len(PutLength(n)) = LengthOctets(n)
           /\ n < 128 => LengthOctets(n) = 1 /\ PutLength(n)[1] = n
           /\ ~(n < 128) =>
                LET k == LengthOctets(n) - 1
                IN  /\ k \in 1..4
                    /\ PutLength(n)[1] = 128 + k
                    /\ \A i \in 1..k : PutLength(n)[1 + i] =
                          (n \div Weight(k - i + 1)) % 256
<1> DEFINE k == LengthOctets(n) - 1
<1>1. LengthOctets(n) \in 1..5 /\ (n < 128 => LengthOctets(n) = 1) /\ (~(n < 128) => k \in 1..4)
  BY DEF LengthOctets
<1>2. CASE n < 128
  BY <1>2, <1>1 DEF PutLength, Octets
<1>3. CASE ~(n < 128)
  <2>1. PutLength(n) = <<128 + k>> \o SignificantOctets(n, k)
    BY Zenon, <1>3 DEF PutLength
  <2>2. k \in 1..4
    BY Zenon, <1>1, <1>3
  <2> HIDE DEF k
  <2>4. ASSUME NEW i \in 1..k
        PROVE  (n \div Weight(k - i + 1)) % 256 \in 0..255
    BY <2>2 DEF Weight
  <2>5. /\ SignificantOctets(n, k) \in Octets /\ Len(SignificantOctets(n, k)) = k
        /\ \A i \in 1..k : SignificantOctets(n, k)[i] =
              (n \div Weight(k - i + 1)) % 256
    BY <2>2, <2>4 DEF SignificantOctets, Octets
  <2>7. /\ PutLength(n) \in Octets /\ Len(PutLength(n)) = 1 + k
        /\ PutLength(n)[1] = 128 + k
        /\ \A i \in 1..k : PutLength(n)[1 + i] = SignificantOctets(n, k)[i]
    <3> DEFINE x == <<128 + k>>
               y == SignificantOctets(n, k)
    <3>1. x \in Octets /\ y \in Octets /\ Len(x) = 1 /\ Len(y) = k /\ x[1] = 128 + k
      BY <2>2, <2>5 DEF Octets
    <3> HIDE DEF x, y
    <3>2. /\ x \o y \in Octets /\ Len(x \o y) = Len(x) + Len(y)
          /\ \A i \in 1..Len(x) : (x \o y)[i] = x[i]
          /\ \A i \in 1..Len(y) : (x \o y)[Len(x) + i] = y[i]
      BY ZenonT(40), <3>1, Joined
    <3> QED BY <2>1, <3>1, <3>2 DEF x, y
  <2> QED BY <1>1, <1>3, <2>2, <2>5, <2>7 DEF k
<1> QED BY Zenon, <1>2, <1>3

\* Tlv(): the identifier, the length and the content.
LEMMA TlvWritten ==
    ASSUME NEW t \in 0..255, NEW c \in Octets
    PROVE  LET n == Len(c)
               k == LengthOctets(n)
           IN  /\ n \in Nat
               /\ Tlv(t, c) \in Octets
               /\ Len(Tlv(t, c)) = 1 + k + n
               /\ Tlv(t, c)[1] = t
               /\ \A i \in 1..k : Tlv(t, c)[1 + i] = PutLength(n)[i]
               /\ \A i \in 1..n : Tlv(t, c)[1 + k + i] = c[i]
<1> DEFINE n == Len(c)
           k == LengthOctets(n)
           p == PutLength(n)
           x == <<t>>
<1>1. n \in Nat
  BY LenProperties DEF Octets
<1>2. k \in 1..5 /\ p \in Octets /\ Len(p) = k
  BY <1>1, LengthWritten
<1>3. x \in Octets /\ Len(x) = 1 /\ x[1] = t
  BY DEF Octets
<1>4. Tlv(t, c) = (x \o p) \o c
  BY Zenon DEF Tlv
<1> HIDE DEF n, k, p, x
<1> DEFINE y == x \o p
<1>5. /\ y \in Octets /\ Len(y) = Len(x) + Len(p)
      /\ \A i \in 1..Len(x) : y[i] = x[i]
      /\ \A i \in 1..Len(p) : y[Len(x) + i] = p[i]
  BY Zenon, <1>2, <1>3, Joined
<1> HIDE DEF y
<1>6. Len(y) = 1 + k /\ y[1] = t /\ \A i \in 1..k : y[1 + i] = p[i]
  BY <1>2, <1>3, <1>5
<1>7. /\ y \o c \in Octets /\ Len(y \o c) = 1 + k + n
      /\ \A i \in 1..(1 + k) : (y \o c)[i] = y[i]
      /\ \A i \in 1..n : (y \o c)[1 + k + i] = c[i]
  <2>1. /\ y \o c \in Octets /\ Len(y \o c) = Len(y) + Len(c)
        /\ \A i \in 1..Len(y) : (y \o c)[i] = y[i]
        /\ \A i \in 1..Len(c) : (y \o c)[Len(y) + i] = c[i]
    BY Zenon, <1>5, Joined
  <2> QED BY <1>6, <2>1 DEF n
<1>8. (y \o c)[1] = t /\ \A i \in 1..k : (y \o c)[1 + i] = p[i]
  BY <1>2, <1>6, <1>7
<1> QED BY Zenon, <1>1, <1>4, <1>7, <1>8 DEF y, n, k, p

-----------------------------------------------------------------------------
(* Where the digest is.                                                    *)

\* The two octet strings differ in m octets from a on: zeros in one, in the other the
\* digest.
Spliced(over, orig, a, m) ==
    /\ over \in Octets /\ orig \in Octets /\ Len(orig) = Len(over)
    /\ a \in Nat /\ m \in 0..48 /\ a + m <= Len(over)
    /\ \A i \in 1..Len(over) :
         IF a < i /\ i <= a + m THEN over[i] = 0 /\ orig[i] = 200 + (i - a)
         ELSE over[i] = orig[i]

\* The digest alone, against its zeros.
LEMMA SplicedBare ==
    ASSUME NEW w \in 0..48
    PROVE  /\ Spliced(Blank(w), Digest(w), 0, w)
           /\ Len(Blank(w)) = w /\ Len(Digest(w)) = w
<1>1. /\ Blank(w) \in Octets /\ Len(Blank(w)) = w /\ \A i \in 1..w : Blank(w)[i] = 0
  BY DEF Blank, Octets
<1>2. /\ Digest(w) \in Octets /\ Len(Digest(w)) = w /\ \A i \in 1..w : Digest(w)[i] = 200 + i
  BY DEF Digest, Octets
<1>3. ASSUME NEW i \in 1..w
      PROVE  0 < i /\ i <= 0 + w /\ Blank(w)[i] = 0 /\ Digest(w)[i] = 200 + (i - 0)
  BY <1>1, <1>2
<1> QED BY <1>1, <1>2, <1>3 DEF Spliced

\* What is put in front moves it, what is put behind does not.
LEMMA SplicedBehind ==
    ASSUME NEW over, NEW orig, NEW a, NEW m, Spliced(over, orig, a, m), NEW x \in Octets
    PROVE  Spliced(x \o over, x \o orig, Len(x) + a, m)
<1> DEFINE n == Len(over)
           k == Len(x)
<1>1. /\ over \in Octets /\ orig \in Octets /\ Len(orig) = n
      /\ a \in Nat /\ m \in 0..48 /\ a + m <= n
  BY Zenon DEF Spliced
<1>2. /\ x \o over \in Octets /\ k \in Nat /\ n \in Nat /\ Len(x \o over) = k + n
      /\ \A i \in 1..k : (x \o over)[i] = x[i]
      /\ \A i \in 1..n : (x \o over)[k + i] = over[i]
  BY Zenon, <1>1, Joined
<1>3. /\ x \o orig \in Octets /\ Len(x \o orig) = k + n
      /\ \A i \in 1..k : (x \o orig)[i] = x[i]
      /\ \A i \in 1..n : (x \o orig)[k + i] = orig[i]
  <2>1. /\ x \o orig \in Octets /\ Len(x \o orig) = k + Len(orig)
        /\ \A i \in 1..k : (x \o orig)[i] = x[i]
        /\ \A i \in 1..Len(orig) : (x \o orig)[k + i] = orig[i]
    BY Zenon, <1>1, Joined
  <2> QED BY Zenon, <1>1, <2>1
<1>4. \A i \in 1..n : IF a < i /\ i <= a + m THEN over[i] = 0 /\ orig[i] = 200 + (i - a)
                      ELSE over[i] = orig[i]
  BY Zenon DEF Spliced
<1> HIDE DEF n, k
<1>5. ASSUME NEW i \in 1..(k + n)
      PROVE  IF k + a < i /\ i <= k + a + m
             THEN (x \o over)[i] = 0 /\ (x \o orig)[i] = 200 + (i - (k + a))
             ELSE (x \o over)[i] = (x \o orig)[i]
  <2>1. CASE i <= k
    BY <1>1, <1>2, <1>3, <2>1
  <2>2. CASE ~(i <= k)
    <3> DEFINE j == i - k
    <3>1. j \in 1..n /\ i = k + j
      BY <1>2, <2>2
    <3> HIDE DEF j
    <3>2. (x \o over)[i] = over[j] /\ (x \o orig)[i] = orig[j]
      BY Zenon, <1>2, <1>3, <3>1
    <3> QED BY <1>1, <1>2, <1>4, <3>1, <3>2
  <2> QED BY Zenon, <2>1, <2>2
<1> QED BY <1>1, <1>2, <1>3, <1>5 DEF Spliced, k

\* What follows leaves it where it is.
LEMMA SplicedBefore ==
    ASSUME NEW over, NEW orig, NEW a, NEW m, Spliced(over, orig, a, m), NEW y \in Octets
    PROVE  Spliced(over \o y, orig \o y, a, m)
<1> DEFINE n == Len(over)
           k == Len(y)
<1>1. /\ over \in Octets /\ orig \in Octets /\ Len(orig) = n
      /\ a \in Nat /\ m \in 0..48 /\ a + m <= n
  BY Zenon DEF Spliced
<1>2. /\ over \o y \in Octets /\ k \in Nat /\ n \in Nat /\ Len(over \o y) = n + k
      /\ \A i \in 1..n : (over \o y)[i] = over[i]
      /\ \A i \in 1..k : (over \o y)[n + i] = y[i]
  BY Zenon, <1>1, Joined
<1>3. /\ orig \o y \in Octets /\ Len(orig \o y) = n + k
      /\ \A i \in 1..n : (orig \o y)[i] = orig[i]
      /\ \A i \in 1..k : (orig \o y)[n + i] = y[i]
  <2>1. /\ orig \o y \in Octets /\ Len(orig \o y) = Len(orig) + k
        /\ \A i \in 1..Len(orig) : (orig \o y)[i] = orig[i]
        /\ \A i \in 1..k : (orig \o y)[Len(orig) + i] = y[i]
    BY Zenon, <1>1, Joined
  <2> QED BY Zenon, <1>1, <2>1
<1> HIDE DEF n, k
<1>5. ASSUME NEW i \in 1..(n + k)
      PROVE  IF a < i /\ i <= a + m THEN (over \o y)[i] = 0 /\ (orig \o y)[i] = 200 + (i - a)
             ELSE (over \o y)[i] = (orig \o y)[i]
  BY <1>1, <1>2, <1>3 DEF Spliced
<1> QED BY <1>1, <1>2, <1>3, <1>5 DEF Spliced

\* An element around it moves it by the identifier and the length.
LEMMA SplicedWithin ==
    ASSUME NEW over, NEW orig, NEW a, NEW m, Spliced(over, orig, a, m), NEW t \in 0..255
    PROVE  /\ Spliced(Tlv(t, over), Tlv(t, orig), Len(Tlv(t, over)) - Len(over) + a, m)
           /\ Len(Tlv(t, orig)) = Len(Tlv(t, over))
<1> DEFINE n == Len(over)
           k == LengthOctets(n)
           p == PutLength(n)
           x == <<t>> \o p
<1>1. over \in Octets /\ orig \in Octets /\ Len(orig) = n
  BY Zenon DEF Spliced
<1>2. n \in Nat /\ k \in 1..5 /\ Len(Tlv(t, over)) = 1 + k + n
  <2>1. n \in Nat /\ Len(Tlv(t, over)) = 1 + k + n
    BY Zenon, <1>1, TlvWritten
  <2> QED BY <2>1, LengthWritten
<1>3. x \in Octets /\ Len(x) = 1 + k
  <2>1. <<t>> \in Octets /\ Len(<<t>>) = 1
    BY DEF Octets
  <2>2. p \in Octets /\ Len(p) = k
    BY <1>2, LengthWritten
  <2> HIDE DEF p
  <2>3. x \in Octets /\ Len(x) = Len(<<t>>) + Len(p)
    BY Zenon, <2>1, <2>2, Joined
  <2> QED BY Zenon, <2>1, <2>2, <2>3
<1>4. Tlv(t, over) = x \o over /\ Tlv(t, orig) = x \o orig
  BY Zenon, <1>1 DEF Tlv
<1> HIDE DEF n, k, x
<1>6. Spliced(x \o over, x \o orig, Len(x) + a, m)
  BY Zenon, <1>3, SplicedBehind
<1> QED BY <1>2, <1>3, <1>4, <1>6 DEF Spliced, n

\* So does an element with a length in the long form.
LEMMA LongWritten ==
    ASSUME NEW t \in 0..255, NEW c \in Octets, Len(c) < 128
    PROVE  /\ <<t, 129, Len(c)>> \in Octets /\ Len(<<t, 129, Len(c)>>) = 3
           /\ LongTlv(t, c) \in Octets /\ Len(LongTlv(t, c)) = 3 + Len(c)
           /\ LongTlv(t, c)[1] = t /\ LongTlv(t, c)[2] = 129 /\ LongTlv(t, c)[3] = Len(c)
           /\ \A i \in 1..Len(c) : LongTlv(t, c)[3 + i] = c[i]
<1> DEFINE x == <<t, 129, Len(c)>>
<1>1. Len(c) \in 0..255
  <2>1. Len(c) \in Nat
    BY LenProperties DEF Octets
  <2>2. \A n \in Nat : n < 128 => n \in 0..255
    BY SMTT(30)
  <2> QED BY ZenonT(40), <2>1, <2>2
<1>2. x \in Octets /\ Len(x) = 3 /\ x[1] = t /\ x[2] = 129 /\ x[3] = Len(c)
  BY <1>1 DEF Octets
<1> HIDE DEF x
<1>4. /\ x \o c \in Octets /\ Len(x \o c) = Len(x) + Len(c)
      /\ \A i \in 1..Len(x) : (x \o c)[i] = x[i]
      /\ \A i \in 1..Len(c) : (x \o c)[Len(x) + i] = c[i]
  <2>1. x \in Octets
    BY Zenon, <1>2
  <2> QED BY Zenon, <2>1, Joined
<1> QED BY <1>2, <1>4 DEF x, LongTlv

\* An element is its content behind two to six octets, in either form of its length.
LEMMA AgentWritten ==
    ASSUME NEW t \in 0..255, NEW c \in Octets, NEW long \in BOOLEAN
    PROVE  /\ AgentTlv(long, t, c) \in Octets
           /\ Len(c) \in Nat /\ Len(AgentTlv(long, t, c)) \in (Len(c) + 2)..(Len(c) + 6)
<1>1. /\ Tlv(t, c) \in Octets /\ Len(Tlv(t, c)) = 1 + LengthOctets(Len(c)) + Len(c)
      /\ Len(c) \in Nat
  BY Zenon, TlvWritten
<1>2. LengthOctets(Len(c)) \in 1..5
  BY <1>1, LengthWritten
<1>4. Len(c) < 128 =>
        LongTlv(t, c) \in Octets /\ Len(LongTlv(t, c)) \in (Len(c) + 2)..(Len(c) + 6)
  <2> SUFFICES ASSUME Len(c) < 128
               PROVE  /\ LongTlv(t, c) \in Octets
                      /\ Len(LongTlv(t, c)) \in (Len(c) + 2)..(Len(c) + 6)
    BY Zenon
  <2>1. LongTlv(t, c) \in Octets /\ Len(LongTlv(t, c)) = 3 + Len(c)
    BY ZenonT(40), LongWritten
  <2> QED BY <1>1, <2>1
<1> QED BY <1>1, <1>2, <1>4 DEF AgentTlv

\* An element around it moves it by its own identifier and length, in either form.
LEMMA SplicedWithinAny ==
    ASSUME NEW over, NEW orig, NEW a, NEW m, Spliced(over, orig, a, m), NEW t \in 0..255,
           NEW long \in BOOLEAN
    PROVE  Spliced(AgentTlv(long, t, over), AgentTlv(long, t, orig),
                   Len(AgentTlv(long, t, orig)) - Len(orig) + a, m)
<1>1. over \in Octets /\ orig \in Octets /\ Len(orig) = Len(over) /\ Len(over) \in Nat /\ a \in Nat
  BY LenProperties DEF Spliced, Octets
<1>2. Spliced(Tlv(t, over), Tlv(t, orig), Len(Tlv(t, orig)) - Len(orig) + a, m)
  BY ZenonT(40), <1>1, SplicedWithin
<1>3. CASE long /\ Len(over) < 128
  <2> DEFINE x == <<t, 129, Len(over)>>
  <2>1. /\ x \in Octets /\ Len(x) = 3
        /\ Len(LongTlv(t, orig)) = 3 + Len(orig)
    <3> QED BY <1>1, <1>3, LongWritten
  <2>2. LongTlv(t, over) = x \o over /\ LongTlv(t, orig) = x \o orig
    BY <1>1 DEF LongTlv
  <2>3. AgentTlv(long, t, over) = LongTlv(t, over) /\ AgentTlv(long, t, orig) = LongTlv(t, orig)
    BY <1>1, <1>3 DEF AgentTlv
  <2> HIDE DEF x
  <2>4. Spliced(x \o over, x \o orig, Len(x) + a, m)
    BY Zenon, <2>1, SplicedBehind
  <2> QED BY <1>1, <2>1, <2>2, <2>3, <2>4
<1>4. CASE ~(long /\ Len(over) < 128)
  BY <1>1, <1>2, <1>4 DEF AgentTlv
<1> QED BY Zenon, <1>3, <1>4

\* The same for the elements that BerWriter writes.
LEMMA SplicedWithinPlain ==
    ASSUME NEW over, NEW orig, NEW a, NEW m, Spliced(over, orig, a, m), NEW t \in 0..255
    PROVE  Spliced(Tlv(t, over), Tlv(t, orig), Len(Tlv(t, orig)) - Len(orig) + a, m)
<1>1. Len(orig) = Len(over)
  BY Zenon DEF Spliced
<1> QED BY Zenon, <1>1, SplicedWithin

\* The parts of a message are octets, and none is so long that its length takes more
\* than four octets.
Short(n) == n \in Nat /\ n < 4294967296

Sized(m) ==
    /\ m.level \in 0..3
    /\ m.engineId \in 0..Most /\ m.userName \in 0..Most /\ m.scoped \in 0..Most

\* Three parts of the greatest size and their headers are within four length octets.
LEMMA MostIsShort == Most \in Nat /\ \A n \in Nat : n <= 3 * Most + 1000 => Short(n)
BY SMT DEF Most, Short

\* The content of a field has the octets it is said to have.
LEMMA ContentWritten ==
    ASSUME NEW n \in Nat
    PROVE  Content(n) \in Octets /\ Len(Content(n)) = n /\ \A i \in 1..n : Content(n)[i] = 7
BY DEF Content, Octets

\* An identifier and a length take no more than six octets.
LEMMA TlvSized ==
    ASSUME NEW t \in 0..255, NEW c \in Octets
    PROVE  /\ Tlv(t, c) \in Octets /\ Len(Tlv(t, c)) \in Nat /\ Len(c) \in Nat
           /\ Len(Tlv(t, c)) <= Len(c) + 6
<1>1. AgentTlv(FALSE, t, c) = Tlv(t, c)
  BY Zenon DEF AgentTlv
<1>2. Tlv(t, c) \in Octets /\ Len(c) \in Nat /\ Len(Tlv(t, c)) \in (Len(c) + 2)..(Len(c) + 6)
  BY Zenon, <1>1, AgentWritten
<1> QED BY <1>2

\* The bounds of two strings bound the two together.
LEMMA JoinedSized ==
    ASSUME NEW b \in Octets, NEW c \in Octets, NEW k \in Nat, NEW n \in Nat,
           Len(b) <= k, Len(c) <= n
    PROVE  b \o c \in Octets /\ Len(b \o c) \in Nat /\ Len(b \o c) <= k + n
<1>1. b \o c \in Octets /\ Len(b) \in Nat /\ Len(c) \in Nat /\ Len(b \o c) = Len(b) + Len(c)
  BY Zenon, Joined
<1> QED BY <1>1

\* A field of a message, in full.
LEMMA ContentSized ==
    ASSUME NEW t \in 0..255, NEW n \in 0..Most
    PROVE  Tlv(t, Content(n)) \in Octets /\ Len(Tlv(t, Content(n))) <= Most + 6
<1>1. n \in Nat /\ n <= Most /\ Most \in Nat
  BY MostIsShort
<1>2. Content(n) \in Octets /\ Len(Content(n)) = n
  BY Zenon, <1>1, ContentWritten
<1>3. /\ Tlv(t, Content(n)) \in Octets /\ Len(Tlv(t, Content(n))) \in Nat
      /\ Len(Tlv(t, Content(n))) <= Len(Content(n)) + 6
  BY SMTT(30), <1>2, TlvSized
<1> QED BY <1>1, <1>2, <1>3

\* How long the parts of a message are at most.
LEMMA PartsWritten ==
    ASSUME NEW m, Sized(m)
    PROVE  /\ BeforeDigest(m) \in Octets /\ Len(BeforeDigest(m)) <= 2 * Most + 28
           /\ Salt(m) \in Octets /\ Len(Salt(m)) <= 8
           /\ GlobalData(m) \in Octets /\ Len(GlobalData(m)) <= 60
           /\ MsgData(m) \in Octets /\ Len(MsgData(m)) <= Most + 6
<1>1. /\ octetString \in 0..255 /\ integer \in 0..255 /\ sequence \in 0..255
      /\ Most \in Nat /\ Most + 6 \in Nat /\ Most + 13 \in Nat /\ Most + 22 \in Nat
  BY MostIsShort DEF octetString, integer, sequence
<1>2. /\ Content(m.engineId) \in Octets /\ Len(Content(m.engineId)) = m.engineId
      /\ Content(m.userName) \in Octets /\ Len(Content(m.userName)) = m.userName
      /\ Content(m.scoped) \in Octets /\ Len(Content(m.scoped)) = m.scoped
      /\ Content(1) \in Octets /\ Len(Content(1)) = 1
      /\ Content(3) \in Octets /\ Len(Content(3)) = 3
      /\ Content(8) \in Octets /\ Len(Content(8)) = 8
      /\ Content(0) \in Octets /\ Len(Content(0)) = 0
  <2>1. m.engineId \in Nat /\ m.userName \in Nat /\ m.scoped \in Nat
    BY <1>1 DEF Sized
  <2> QED BY Zenon, <2>1, ContentWritten
<1>3. /\ <<3>> \in Octets /\ Len(<<3>>) = 1
      /\ <<m.level + 4>> \in Octets /\ Len(<<m.level + 4>>) = 1
  BY DEF Sized, Octets
<1>4. Salt(m) \in Octets /\ Len(Salt(m)) <= 8
  <2>2. Salt(m) \in Octets /\ Len(Salt(m)) \in {0, 8}
    BY Zenon, <1>2 DEF Salt
  <2>3. \A n \in {0, 8} : n <= 8
    OBVIOUS
  <2> QED BY ZenonT(40), <2>2, <2>3
<1>5. MsgData(m) \in Octets /\ Len(MsgData(m)) <= Most + 6
  <2>1. PICK t \in 0..255 : MsgData(m) = Tlv(t, Content(m.scoped))
    BY <1>1 DEF MsgData
  <2>2. m.scoped \in 0..Most
    BY Zenon DEF Sized
  <2> QED BY Zenon, <1>1, <1>2, <2>1, <2>2, ContentSized
<1> DEFINE i1 == Tlv(integer, Content(1))
           i3 == Tlv(integer, Content(3))
           three == Tlv(integer, <<3>>)
<1>6. /\ i1 \in Octets /\ Len(i1) <= 7 /\ i3 \in Octets /\ Len(i3) <= 9
      /\ three \in Octets /\ Len(three) <= 7
  <2>1. i1 \in Octets /\ Len(i1) <= 1 + 6
    BY Zenon, <1>1, <1>2, TlvSized
  <2>2. i3 \in Octets /\ Len(i3) <= 3 + 6
    BY Zenon, <1>1, <1>2, TlvSized
  <2>3. three \in Octets /\ Len(three) <= 1 + 6
    BY Zenon, <1>1, <1>3, TlvSized
  <2> QED BY <2>1, <2>2, <2>3
<1>7. BeforeDigest(m) \in Octets /\ Len(BeforeDigest(m)) <= 2 * Most + 28
  <2> DEFINE e == Tlv(octetString, Content(m.engineId))
             u == Tlv(octetString, Content(m.userName))
  <2>1. e \in Octets /\ Len(e) <= Most + 6
    BY Zenon, <1>1, ContentSized DEF Sized
  <2>2. u \in Octets /\ Len(u) <= Most + 6
    BY Zenon, <1>1, ContentSized DEF Sized
  <2>3. BeforeDigest(m) = ((e \o i1) \o i3) \o u
    BY Zenon DEF BeforeDigest
  <2> HIDE DEF e, u, i1, i3
  <2>4. e \o i1 \in Octets /\ Len(e \o i1) <= Most + 13
    BY <1>1, <1>6, <2>1, JoinedSized
  <2> DEFINE ei == e \o i1
  <2>5. ei \o i3 \in Octets /\ Len(ei \o i3) <= (Most + 13) + 9
    <3>1. ei \in Octets /\ Len(ei) <= Most + 13 /\ i3 \in Octets /\ Len(i3) <= 9 /\ 9 \in Nat
      BY Zenon, <1>6, <2>4
    <3> HIDE DEF ei
    <3> QED BY <1>1, <3>1, JoinedSized
  <2>6. ((e \o i1) \o i3) \o u \in Octets /\ Len(((e \o i1) \o i3) \o u) <= (Most + 22) + (Most + 6)
    BY <1>1, <2>2, <2>5, JoinedSized
  <2> QED BY <1>1, <2>3, <2>6, LenProperties DEF Octets
<1>8. GlobalData(m) \in Octets /\ Len(GlobalData(m)) <= 60
  <2> DEFINE f == Tlv(octetString, <<m.level + 4>>)
             h == ((i3 \o i3) \o f) \o three
  <2>1. f \in Octets /\ Len(f) <= 1 + 6
    BY Zenon, <1>1, <1>3, TlvSized
  <2>2. GlobalData(m) = three \o Tlv(sequence, h)
    BY Zenon DEF GlobalData
  <2> HIDE DEF f, i3, three
  <2>3. i3 \o i3 \in Octets /\ Len(i3 \o i3) <= 9 + 9
    BY Zenon, <1>6, JoinedSized
  <2>4. (i3 \o i3) \o f \in Octets /\ Len((i3 \o i3) \o f) <= 18 + 7
    BY <2>1, <2>3, JoinedSized
  <2>5. h \in Octets /\ Len(h) <= 25 + 7
    BY SMTT(30), <1>6, <2>4, JoinedSized
  <2> HIDE DEF h
  <2>6. Tlv(sequence, h) \in Octets /\ Len(Tlv(sequence, h)) <= 32 + 6
    BY <1>1, <2>5, TlvSized
  <2> QED BY <1>6, <2>2, <2>6, LenProperties, JoinedSized DEF Octets
<1> QED BY Zenon, <1>4, <1>5, <1>7, <1>8

\* Where an encoder of this layout has put the digest d.
Place(m, payload, long, extra, d) ==
    LET usm == AgentUsm(m, long, extra, d)
        usmTop == Tlv(sequence, usm)
        params == AgentTlv(long, octetString, usmTop)
        body == GlobalData(m) \o params \o payload
    IN  (Len(Tlv(sequence, body)) - Len(body))
          + (Len(GlobalData(m)) + ((Len(params) - Len(usmTop)) + ((Len(usmTop) - Len(usm))
               + (Len(BeforeDigest(m)) + ((Len(AgentTlv(long, octetString, d)) - Len(d)) + 0)))))

\* What is behind it.
Behind(m, extra) ==
    Tlv(octetString, Salt(m)) \o IF extra THEN Tlv(integer, <<1>>) ELSE <<>>

\* What encodeUsmContent() writes behind the digest is short.
LEMMA BehindWritten ==
    ASSUME NEW m, Sized(m), NEW extra \in BOOLEAN
    PROVE  Behind(m, extra) \in Octets /\ Len(Behind(m, extra)) \in Nat /\ Len(Behind(m, extra)) <= 30
<1>1. octetString \in 0..255 /\ integer \in 0..255
  BY DEF octetString, integer
<1>2. Tlv(octetString, Salt(m)) \in Octets /\ Len(Tlv(octetString, Salt(m))) <= 14
  <2>1. Salt(m) \in Octets /\ Len(Salt(m)) <= 8
    BY Zenon, PartsWritten
  <2> QED BY <1>1, <2>1, TlvSized
<1>3. Tlv(integer, <<1>>) \in Octets /\ Len(Tlv(integer, <<1>>)) <= 7
  <2>1. <<1>> \in Octets /\ Len(<<1>>) = 1
    BY DEF Octets
  <2>2. Tlv(integer, <<1>>) \in Octets /\ Len(Tlv(integer, <<1>>)) <= Len(<<1>>) + 6
    BY Zenon, <1>1, <2>1, TlvSized
  <2> QED BY <2>1, <2>2
<1> DEFINE y == IF extra THEN Tlv(integer, <<1>>) ELSE <<>>
<1>5. y \in Octets /\ Len(y) <= 7
  BY <1>3 DEF Octets
<1> HIDE DEF y
<1>6. /\ Tlv(octetString, Salt(m)) \o y \in Octets /\ Len(Tlv(octetString, Salt(m)) \o y) \in Nat
      /\ Len(Tlv(octetString, Salt(m)) \o y) <= 14 + 7
  BY Zenon, <1>2, <1>5, JoinedSized
<1> QED BY <1>6 DEF Behind, y

\* The digest is all that differs between what is signed and what is sent.
LEMMA SplicedWhole ==
    ASSUME NEW m, Sized(m), NEW payload \in Octets, NEW long \in BOOLEAN, NEW extra \in BOOLEAN,
           NEW w \in 0..48
    PROVE  /\ Spliced(AgentWhole(m, payload, long, extra, Blank(w)),
                      AgentWhole(m, payload, long, extra, Digest(w)),
                      Place(m, payload, long, extra, Digest(w)), w)
           /\ Place(m, payload, long, extra, Blank(w)) = Place(m, payload, long, extra, Digest(w))
<1> DEFINE blank == Blank(w)
           digest == Digest(w)
           B(d) == AgentTlv(long, octetString, d)
           front == BeforeDigest(m)
           behind == Behind(m, extra)
           U(d) == AgentUsm(m, long, extra, d)
           T(d) == Tlv(sequence, U(d))
           P(d) == AgentTlv(long, octetString, T(d))
           global == GlobalData(m)
           Y(d) == global \o P(d) \o payload
           a1 == (Len(B(digest)) - Len(digest)) + 0
           a2 == Len(front) + a1
           a3 == (Len(T(digest)) - Len(U(digest))) + a2
           a4 == (Len(P(digest)) - Len(T(digest))) + a3
           a5 == Len(global) + a4
           a6 == (Len(Tlv(sequence, Y(digest))) - Len(Y(digest))) + a5
           b6 == (Len(Tlv(sequence, Y(blank))) - Len(Y(blank)))
                   + (Len(global) + ((Len(P(blank)) - Len(T(blank))) + ((Len(T(blank)) - Len(U(blank)))
                        + (Len(front) + ((Len(B(blank)) - Len(blank)) + 0)))))
<1>1. octetString \in 0..255 /\ sequence \in 0..255
  BY DEF octetString, sequence
<1>2. front \in Octets /\ behind \in Octets /\ global \in Octets
  BY Zenon, PartsWritten, BehindWritten
<1>3. \A d : U(d) = (front \o B(d)) \o behind
  BY Zenon DEF AgentUsm, Behind
<1>4. \A d : AgentWhole(m, payload, long, extra, d) = Tlv(sequence, Y(d))
  BY Zenon DEF AgentWhole
<1>5. Place(m, payload, long, extra, digest) = a6 /\ Place(m, payload, long, extra, blank) = b6
  BY Zenon DEF Place
<1>6. Spliced(blank, digest, 0, w)
  BY Zenon, SplicedBare
<1> HIDE DEF blank, digest, front, behind, global
<1>7. Spliced(B(blank), B(digest), a1, w)
  BY ZenonT(40), <1>1, <1>6, SplicedWithinAny
<1> HIDE DEF B, a1
<1>8. Spliced(front \o B(blank), front \o B(digest), a2, w)
  BY Zenon, <1>2, <1>7, SplicedBehind
<1> HIDE DEF a2
<1>9. Spliced(U(blank), U(digest), a2, w)
  <2>2. U(blank) = (front \o B(blank)) \o behind /\ U(digest) = (front \o B(digest)) \o behind
    BY Zenon, <1>3
  <2> HIDE DEF U
  <2> QED BY Zenon, <1>2, <1>8, <2>2, SplicedBefore
<1> HIDE DEF U
<1>10. Spliced(T(blank), T(digest), a3, w)
  BY Zenon, <1>1, <1>9, SplicedWithinPlain
<1> HIDE DEF T, a3
<1>11. Spliced(P(blank), P(digest), a4, w)
  BY Zenon, <1>1, <1>10, SplicedWithinAny
<1> HIDE DEF P, a4
<1>12. Spliced(global \o P(blank), global \o P(digest), a5, w)
  BY Zenon, <1>2, <1>11, SplicedBehind
<1> HIDE DEF a5
<1>13. Spliced(Y(blank), Y(digest), a5, w)
  BY Zenon, <1>12, SplicedBefore
<1> HIDE DEF Y
<1>14. Spliced(Tlv(sequence, Y(blank)), Tlv(sequence, Y(digest)), a6, w)
  BY Zenon, <1>1, <1>13, SplicedWithinPlain
<1>15. b6 = a6
  <2>1. /\ Len(blank) = Len(digest) /\ Len(B(blank)) = Len(B(digest))
        /\ Len(U(blank)) = Len(U(digest)) /\ Len(T(blank)) = Len(T(digest))
        /\ Len(P(blank)) = Len(P(digest)) /\ Len(Y(blank)) = Len(Y(digest))
        /\ Len(Tlv(sequence, Y(blank))) = Len(Tlv(sequence, Y(digest)))
    BY Zenon, <1>6, <1>7, <1>9, <1>10, <1>11, <1>13, <1>14 DEF Spliced
  <2> QED BY Zenon, <2>1 DEF a1, a2, a3, a4, a5
<1> HIDE DEF a6, b6
<1> QED BY <1>4, <1>5, <1>14, <1>15 DEF blank, digest

\* encodeV3Message() writes what a peer with the shortest lengths and no further field
\* writes, and its authOffset is where the digest is.
LEMMA ClientWrites ==
    ASSUME NEW m, Sized(m), NEW d \in Octets
    PROVE  Whole(m, d) = AgentWhole(m, MsgData(m), FALSE, FALSE, d)
<1>2. Tlv(octetString, Salt(m)) \in Octets
  BY PartsWritten, TlvSized DEF octetString
<1> QED BY <1>2, ConcatEmptySeq DEF Whole, AgentWhole, AgentUsm, UsmContent, AgentTlv, Octets

\* The authOffset that encodeV3Message() moves through the layers is that place.
LEMMA ClientPlaces ==
    ASSUME NEW m, Sized(m), NEW w \in 0..48, w = AuthWidth(m)
    PROVE  AuthOffset(m) = Place(m, MsgData(m), FALSE, FALSE, Digest(w))
<1> DEFINE d == Blank(w)
           usm == UsmContent(m, d)
           usmTop == Tlv(sequence, usm)
           params == Tlv(octetString, usmTop)
           front == GlobalData(m) \o params
           body == front \o MsgData(m)
           whole == Tlv(sequence, body)
           payload == MsgData(m)
<1>1. octetString \in 0..255 /\ sequence \in 0..255 /\ payload \in Octets
  BY PartsWritten DEF octetString, sequence
<1>2. d \in Octets /\ Len(d) = w
  BY Zenon, SplicedBare DEF Spliced
<1>3. \A t, c : AgentTlv(FALSE, t, c) = Tlv(t, c)
  BY Zenon DEF AgentTlv
<1>4. AgentUsm(m, FALSE, FALSE, d) = usm
  <2>1. Tlv(octetString, Salt(m)) \in Octets
    BY Zenon, <1>1, PartsWritten, TlvSized
  <2>2. Tlv(octetString, Salt(m)) \o <<>> = Tlv(octetString, Salt(m))
    BY <2>1, ConcatEmptySeq DEF Octets
  <2> QED BY Zenon, <1>3, <2>2 DEF AgentUsm, UsmContent
<1>5. Place(m, payload, FALSE, FALSE, d) =
        (Len(whole) - Len(body)) + (Len(GlobalData(m)) + ((Len(params) - Len(usmTop))
          + ((Len(usmTop) - Len(usm)) + (Len(BeforeDigest(m)) + ((Len(Tlv(octetString, d)) - Len(d)) + 0)))))
  BY Zenon, <1>3, <1>4 DEF Place
<1>6. AuthOffset(m) = Len(BeforeDigest(m)) + 2 + (Len(usmTop) - Len(usm))
                        + (Len(front) - Len(usmTop)) + (Len(whole) - Len(body))
  BY Zenon DEF AuthOffset
<1>7. Tlv(octetString, d) \in Octets /\ Len(Tlv(octetString, d)) = w + 2
  <2>1. /\ Tlv(octetString, d) \in Octets
        /\ Len(Tlv(octetString, d)) = 1 + LengthOctets(Len(d)) + Len(d)
    BY Zenon, <1>1, <1>2, TlvWritten
  <2>2. LengthOctets(w) = 1
    BY DEF LengthOctets
  <2> QED BY <1>2, <2>1, <2>2
<1>8. BeforeDigest(m) \in Octets /\ GlobalData(m) \in Octets /\ Len(BeforeDigest(m)) \in Nat
  BY PartsWritten, LenProperties DEF Octets
<1>9. usm \in Octets
  <2>2. Tlv(octetString, Salt(m)) \in Octets
    BY Zenon, <1>1, PartsWritten, TlvSized
  <2> QED BY Zenon, <1>7, <1>8, <2>2, Joined DEF UsmContent
<1> HIDE DEF usm
<1>10. usmTop \in Octets /\ Len(usmTop) \in Nat /\ Len(usm) \in Nat
  BY SMTT(30), <1>1, <1>9, TlvSized
<1> HIDE DEF usmTop
<1>11. params \in Octets /\ Len(params) \in Nat
  BY SMTT(30), <1>1, <1>10, TlvSized
<1> HIDE DEF params
<1>12. front \in Octets /\ Len(front) = Len(GlobalData(m)) + Len(params) /\ Len(GlobalData(m)) \in Nat
  BY Zenon, <1>8, <1>11, Joined
<1> HIDE DEF front
<1>13. body \in Octets
  BY Zenon, <1>1, <1>12, Joined
<1> HIDE DEF body
<1>14. Len(whole) \in Nat /\ Len(body) \in Nat
  BY <1>1, <1>13, TlvSized
<1> HIDE DEF whole, d, payload
<1>15. AuthOffset(m) = Place(m, payload, FALSE, FALSE, d)
  <2>1. Len(Tlv(octetString, d)) - Len(d) = 2
    BY <1>2, <1>7
  <2>4. Len(BeforeDigest(m)) + 2 + (Len(usmTop) - Len(usm))
            + (Len(front) - Len(usmTop)) + (Len(whole) - Len(body))
          = (Len(whole) - Len(body)) + (Len(GlobalData(m)) + ((Len(params) - Len(usmTop))
              + ((Len(usmTop) - Len(usm)) + (Len(BeforeDigest(m)) + (2 + 0)))))
    BY <1>8, <1>10, <1>11, <1>12, <1>14
  <2> QED BY ZenonT(40), <1>5, <1>6, <2>1, <2>4
<1> QED BY ZenonT(40), <1>1, <1>15, SplicedWhole DEF d, payload

\* So what encodeV3Message() sends has the digest where the Blank was.
LEMMA ClientSends ==
    ASSUME NEW m, Sized(m), m.width \in 0..48
    PROVE  LET w == AuthWidth(m)
           IN  Overwritten(Whole(m, Blank(w)), AuthOffset(m), Digest(w)) = Whole(m, Digest(w))
<1> DEFINE w == AuthWidth(m)
           b == Whole(m, Blank(w))
           o == Whole(m, Digest(w))
           a == AuthOffset(m)
<1>1. w \in 0..48
  BY DEF AuthWidth
<1>2. Blank(w) \in Octets /\ Digest(w) \in Octets /\ Len(Digest(w)) = w
  BY Zenon, <1>1, SplicedBare DEF Spliced
<1>3. Spliced(b, o, a, w)
  <2>1. Spliced(AgentWhole(m, MsgData(m), FALSE, FALSE, Blank(w)),
                AgentWhole(m, MsgData(m), FALSE, FALSE, Digest(w)),
                Place(m, MsgData(m), FALSE, FALSE, Digest(w)), w)
    BY Zenon, <1>1, PartsWritten, SplicedWhole
  <2> QED BY Zenon, <1>1, <1>2, <2>1, ClientWrites, ClientPlaces
<1> HIDE DEF w, b, o, a
<1>4. DOMAIN b = 1..Len(b) /\ o = [i \in 1..Len(b) |-> o[i]]
  BY <1>3, LenProperties DEF Spliced, Octets
<1>5. \A i \in 1..Len(b) : (IF i > a /\ i <= a + w THEN Digest(w)[i - a] ELSE b[i]) = o[i]
  BY SMTT(30), <1>3, LenProperties, <1>1 DEF Spliced, Octets, Digest
<1> QED BY Zenon, <1>2, <1>4, <1>5 DEF w, b, o, a, Overwritten

-----------------------------------------------------------------------------
(* Reading.                                                                *)

\* The octets of the length behind the first one, and the length, at the 0-based p.
More(b, p) == IF b[p + 2] < 128 THEN 0 ELSE b[p + 2] % 128

Size(b, p) ==
    IF b[p + 2] < 128 THEN b[p + 2]
    ELSE CASE More(b, p) = 1 -> b[p + 3]
           [] More(b, p) = 2 -> b[p + 3] * 256 + b[p + 4]
           [] More(b, p) = 3 -> (b[p + 3] * 256 + b[p + 4]) * 256 + b[p + 5]
           [] OTHER -> ((b[p + 3] * 256 + b[p + 4]) * 256 + b[p + 5]) * 256 + b[p + 6]

\* What readHeader() makes of the element at p.
LEMMA ReaderSays ==
    ASSUME NEW b, NEW p \in Nat, NEW e \in Nat
    PROVE  /\ Reader(b, p, e)!ContentStart = p + 2 + More(b, p)
           /\ Reader(b, p, e)!ContentEnd = p + 2 + More(b, p) + Size(b, p)
           /\ Reader(b, p, e)!HeaderError = "none" <=>
                /\ ~(e - p < 2) /\ b[p + 1] % 32 # 31
                /\ b[p + 2] # 128 /\ b[p + 2] # 255 /\ ~(More(b, p) > 4)
                /\ ~(e < p + 2 + More(b, p)) /\ ~(Size(b, p) > e - (p + 2 + More(b, p)))
<1> QED
  BY DEF Reader!ContentEnd, Reader!HeaderError, Reader!LongLength, Reader!Length, Size,
     Reader!ContentStart, Reader!LengthOctets, More, Reader!At

\* How many length octets the first one announces.
LEMMA MoreIsNatural ==
    ASSUME NEW b \in Octets, NEW p \in Nat, p + 2 <= Len(b)
    PROVE  /\ Len(b) \in Nat /\ b[p + 2] \in 0..255 /\ More(b, p) \in 0..127
           /\ b[p + 2] < 128 => More(b, p) = 0
           /\ b[p + 2] > 128 => More(b, p) # 0
<1>1. Len(b) \in Nat
  BY LenProperties DEF Octets
<1> DEFINE x == b[p + 2]
<1>4. More(b, p) = IF x < 128 THEN 0 ELSE x % 128
  BY Zenon DEF More
<1>5. x \in 0..255
  BY <1>1, ElementOfSeq DEF Octets
<1> HIDE DEF x
<1>6. More(b, p) \in 0..127 /\ (x < 128 => More(b, p) = 0) /\ (x > 128 => More(b, p) # 0)
  BY <1>4, <1>5
<1> QED BY <1>1, <1>5, <1>6 DEF x

\* The size that they spell.
LEMMA SizeIsNatural ==
    ASSUME NEW b \in Octets, NEW p \in Nat, p + 2 + More(b, p) <= Len(b), p + 2 <= Len(b),
           b[p + 2] # 128, ~(More(b, p) > 4)
    PROVE  More(b, p) \in 0..4 /\ Size(b, p) \in Nat
<1> DEFINE x == b[p + 2]
           k == More(b, p)
           x1 == b[p + 3]
           x2 == b[p + 4]
           x3 == b[p + 5]
           x4 == b[p + 6]
<1>1. Len(b) \in Nat /\ \A i \in 1..Len(b) : b[i] \in 0..255
  BY SMTT(30), LenProperties, ElementOfSeq DEF Octets
<1>2. x \in 0..255 /\ x # 128 /\ k \in 0..4 /\ (x > 128 => k # 0)
  <2>1. x \in 0..255 /\ k \in 0..127 /\ (x > 128 => k # 0)
    BY MoreIsNatural
  <2>2. ~(k > 4) /\ x # 128
    BY Zenon
  <2> HIDE DEF x, k
  <2> QED BY <2>1, <2>2
<1>3. Size(b, p) = IF x < 128 THEN x
                   ELSE CASE k = 1 -> x1
                          [] k = 2 -> x1 * 256 + x2
                          [] k = 3 -> (x1 * 256 + x2) * 256 + x3
                          [] OTHER -> ((x1 * 256 + x2) * 256 + x3) * 256 + x4
  BY Zenon DEF Size
<1>4. p + 2 + k <= Len(b)
  BY Zenon
<1> HIDE DEF k
<1>6. /\ k >= 1 => p + 3 \in 1..Len(b)
      /\ k >= 2 => p + 4 \in 1..Len(b)
      /\ k >= 3 => p + 5 \in 1..Len(b)
      /\ k >= 4 => p + 6 \in 1..Len(b)
  BY SMTT(30), <1>1, <1>2, <1>4
<1>7. /\ k >= 1 => x1 \in 0..255
      /\ k >= 2 => x2 \in 0..255
      /\ k >= 3 => x3 \in 0..255
      /\ k >= 4 => x4 \in 0..255
  BY <1>1, <1>6
<1> HIDE DEF x, x1, x2, x3, x4
<1>8. Size(b, p) \in Nat
  <2>1. CASE x < 128
    <3>1. Size(b, p) = x
      BY Zenon, <1>3, <2>1
    <3> QED BY <1>2, <3>1
  <2>2. CASE ~(x < 128)
    <3>2. CASE k = 1
      <4>1. Size(b, p) = x1 /\ x1 \in 0..255
        BY SMTT(30), <1>3, <1>7, <2>2, <3>2
      <4> QED BY <4>1
    <3>3. CASE k = 2
      <4>1. Size(b, p) = x1 * 256 + x2 /\ x1 \in 0..255 /\ x2 \in 0..255
        BY <1>3, <1>7, <2>2, <3>3
      <4> QED BY <4>1
    <3>4. CASE k = 3
      <4>1. /\ Size(b, p) = (x1 * 256 + x2) * 256 + x3
            /\ x1 \in 0..255 /\ x2 \in 0..255 /\ x3 \in 0..255
        BY <1>3, <1>7, <2>2, <3>4
      <4> QED BY <4>1
    <3>5. CASE k = 4
      <4>1. /\ Size(b, p) = ((x1 * 256 + x2) * 256 + x3) * 256 + x4
            /\ x1 \in 0..255 /\ x2 \in 0..255 /\ x3 \in 0..255 /\ x4 \in 0..255
        BY <1>3, <1>7, <2>2, <3>5
      <4> QED BY <4>1
    <3> QED BY <1>2, <2>2, <3>2, <3>3, <3>4, <3>5
  <2> QED BY Zenon, <2>1, <2>2
<1> QED BY Zenon, <1>2, <1>8 DEF k

\* An element that the Reader accepts is inside the bound it was given.
LEMMA ElementInside ==
    ASSUME NEW b \in Octets, NEW p \in Nat, NEW e \in Nat, e <= Len(b), NEW t,
           IsElement(b, p, e, t)
    PROVE  /\ Element(b, p, e).from \in Nat /\ Element(b, p, e).to \in Nat
           /\ p + 2 <= Element(b, p, e).from
           /\ Element(b, p, e).from <= Element(b, p, e).to
           /\ Element(b, p, e).to <= e
<1>2. /\ ~(e - p < 2) /\ b[p + 2] # 128 /\ ~(More(b, p) > 4)
      /\ ~(e < p + 2 + More(b, p)) /\ ~(Size(b, p) > e - (p + 2 + More(b, p)))
  <2>1. Reader(b, p, e)!HeaderError = "none" <=>
          /\ ~(e - p < 2) /\ b[p + 1] % 32 # 31
          /\ b[p + 2] # 128 /\ b[p + 2] # 255 /\ ~(More(b, p) > 4)
          /\ ~(e < p + 2 + More(b, p)) /\ ~(Size(b, p) > e - (p + 2 + More(b, p)))
    BY Zenon, ReaderSays
  <2> QED BY Zenon, <2>1 DEF IsElement
<1> DEFINE n == Len(b)
           k == More(b, p)
<1>3. n \in Nat /\ e <= n
  BY LenProperties DEF Octets
<1>4. p + 2 <= n
  BY <1>2, <1>3
<1>5. k \in 0..127
  BY Zenon, <1>4, MoreIsNatural
<1>6. k \in 0..4 /\ Size(b, p) \in Nat
  <2>1. p + 2 + k <= n
    <3>1. ~(e < p + 2 + k)
      BY Zenon, <1>2
    <3> HIDE DEF n, k
    <3> QED BY <1>3, <1>5, <3>1
  <2> QED BY Zenon, <1>2, <1>4, <2>1, SizeIsNatural
<1>7. Element(b, p, e).from = p + 2 + k /\ Element(b, p, e).to = p + 2 + k + Size(b, p)
  BY ReaderSays DEF Element
<1>8. ~(e < p + 2 + k) /\ ~(Size(b, p) > e - (p + 2 + k))
  BY Zenon, <1>2
<1> DEFINE size == Size(b, p)
           from == Element(b, p, e).from
           to == Element(b, p, e).to
<1> SUFFICES from \in Nat /\ to \in Nat /\ p + 2 <= from /\ from <= to /\ to <= e
  BY Zenon
<1> HIDE DEF n, k, size, from, to
<1>9. from = p + 2 + k /\ to = p + 2 + k + size
  BY Zenon, <1>7 DEF from, to, size
<1> QED BY <1>6, <1>8, <1>9 DEF size

\* The extent x is in the element y, which is in the n octets of a buffer.
Within(x, y, n) == x.from \in Nat /\ x.to \in Nat /\ x.from <= x.to /\ x.to <= y.to /\ y.to <= n

\* An element that the Reader accepts is inside the one it is in.
LEMMA ElementWithin ==
    ASSUME NEW b \in Octets, NEW y, y.to \in Nat, y.to <= Len(b), NEW p \in Nat, NEW t,
           IsElement(b, p, y.to, t)
    PROVE  Within(Element(b, p, y.to), y, Len(b))
<1> DEFINE x == Element(b, p, y.to)
<1> QED BY Zenon, ElementInside DEF Within

\* The digest is where the six fields are.
LEMMA UsmInside ==
    ASSUME NEW b \in Octets, Usm(b).ok
    PROVE  /\ Usm(b).authParams.from \in Nat /\ Usm(b).authParams.to \in Nat
           /\ Usm(b).authParams.from <= Usm(b).authParams.to
           /\ Usm(b).authParams.to <= Len(b)
<1> DEFINE n == Len(b)
           top == Element(b, 0, n)
           engineId == Element(b, top.from, top.to)
           boots == Element(b, engineId.to, top.to)
           time == Element(b, boots.to, top.to)
           userName == Element(b, time.to, top.to)
           authParams == Element(b, userName.to, top.to)
<1>1. /\ IsElement(b, 0, n, sequence)
      /\ IsElement(b, top.from, top.to, octetString)
      /\ IsElement(b, engineId.to, top.to, integer)
      /\ IsElement(b, boots.to, top.to, integer)
      /\ IsElement(b, time.to, top.to, octetString)
      /\ IsElement(b, userName.to, top.to, octetString)
      /\ Usm(b).authParams = authParams
  BY Zenon DEF Usm
<1>2. n \in Nat /\ n <= n
  BY SMTT(30), LenProperties DEF Octets
<1>3. top.from \in Nat /\ top.to \in Nat /\ top.to <= n
  BY Zenon, <1>1, <1>2, ElementInside
<1> HIDE DEF top
<1>4. engineId.to \in Nat
  BY Zenon, <1>1, <1>3, ElementWithin DEF Within
<1> HIDE DEF engineId
<1>5. boots.to \in Nat
  BY Zenon, <1>1, <1>3, <1>4, ElementWithin DEF Within
<1> HIDE DEF boots
<1>6. time.to \in Nat
  BY Zenon, <1>1, <1>3, <1>5, ElementWithin DEF Within
<1> HIDE DEF time
<1>7. userName.to \in Nat
  BY Zenon, <1>1, <1>3, <1>6, ElementWithin DEF Within
<1> HIDE DEF userName
<1>8. Within(authParams, top, n)
  BY Zenon, <1>1, <1>3, <1>7, ElementWithin
<1> HIDE DEF authParams, n
<1>9. /\ authParams.from \in Nat /\ authParams.to \in Nat
      /\ authParams.from <= authParams.to /\ authParams.to <= n
  BY <1>2, <1>3, <1>8 DEF Within
<1> QED BY Zenon, <1>1, <1>9 DEF n

\* The octets of a part, counted in the whole.
LEMMA Cut ==
    ASSUME NEW b \in Octets, NEW f \in Nat, NEW l \in Nat, f <= l, l <= Len(b)
    PROVE  /\ SubSeq(b, f + 1, l) \in Octets /\ Len(SubSeq(b, f + 1, l)) = l - f
           /\ \A j \in 1..(l - f) : SubSeq(b, f + 1, l)[j] = b[f + j]
<1> DEFINE c == SubSeq(b, f + 1, l)
<1>2. \A i \in (f + 1)..l : b[i] \in 0..255
  <2> TAKE i \in (f + 1)..l
  <2>1. i \in 1..Len(b)
    BY LenProperties DEF Octets
  <2> QED BY SMTT(30), <2>1, ElementOfSeq DEF Octets
<1>4. /\ c \in Seq(0..255)
      /\ Len(c) = IF f + 1 <= l THEN l - (f + 1) + 1 ELSE 0
      /\ \A i \in 1..(l - (f + 1) + 1) : c[i] = b[(f + 1) + i - 1]
  BY <1>2, SubSeqProperties
<1> HIDE DEF c
<1>5. Len(c) = l - f
  BY <1>4
<1> QED BY <1>4, <1>5 DEF c, Octets

\* What decodeV3Message() returns as the digest is what is in the datagram at the
\* offset it returns.
LEMMA DigestWhereFound ==
    ASSUME NEW b \in Octets, Decoded(b).error = "none"
    PROVE  LET d == Decoded(b)
           IN  /\ d.offset \in Nat /\ d.authParams \in Octets /\ Len(d.authParams) \in Nat
               /\ d.offset + Len(d.authParams) <= Len(b)
               /\ \A j \in 1..Len(d.authParams) : d.authParams[j] = b[d.offset + j]
<1> DEFINE n == Len(b)
           top == Element(b, 0, n)
           version == Element(b, top.from, top.to)
           header == Element(b, version.to, top.to)
           params == Element(b, header.to, top.to)
           sub == SubSeq(b, params.from + 1, params.to)
           usm == Usm(sub)
           d == Decoded(b)
           f == usm.authParams.from
           l == usm.authParams.to
<1>1. /\ IsElement(b, 0, n, sequence)
      /\ IsElement(b, top.from, top.to, integer)
      /\ IsElement(b, version.to, top.to, sequence)
      /\ IsElement(b, header.to, top.to, octetString)
      /\ usm.ok
      /\ d.offset = DigestAt(params, usm.userName, usm.authParams)
      /\ d.authParams = SubSeq(sub, f + 1, l)
  BY Zenon DEF Decoded
<1>2. n \in Nat /\ n <= n
  BY SMTT(30), LenProperties DEF Octets
<1>3. top.from \in Nat /\ top.to \in Nat /\ top.to <= n
  BY Zenon, <1>1, <1>2, ElementInside
<1> HIDE DEF top, d
<1>4. version.to \in Nat
  BY Zenon, <1>1, <1>3, ElementWithin DEF Within
<1> HIDE DEF version
<1>5. header.to \in Nat
  BY ZenonT(40), <1>1, <1>3, <1>4, ElementWithin DEF Within
<1> HIDE DEF header
<1>6. Within(params, top, n)
  BY Zenon, <1>1, <1>3, <1>5, ElementWithin
<1> DEFINE pf == params.from
           pl == params.to
<1> HIDE DEF params, n
<1>7. pf \in Nat /\ pl \in Nat /\ pf <= pl /\ pl <= n
  BY <1>2, <1>3, <1>6 DEF Within
<1> HIDE DEF usm
<1>8. /\ sub \in Octets /\ Len(sub) = pl - pf
      /\ \A j \in 1..(pl - pf) : sub[j] = b[pf + j]
  BY SMTT(30), <1>7, Cut DEF n
<1>9. f \in Nat /\ l \in Nat /\ f <= l /\ l <= Len(sub)
  BY ZenonT(40), <1>1, <1>8, UsmInside DEF usm
<1>10. d.offset = pf + f
  BY <1>1, <1>7, <1>9 DEF DigestAt
<1>11. /\ d.authParams \in Octets /\ Len(d.authParams) = l - f
       /\ \A j \in 1..(l - f) : d.authParams[j] = sub[f + j]
  <2> HIDE DEF sub, f, l
  <2> QED BY SMTT(30), <1>1, <1>8, <1>9, Cut
<1> HIDE DEF pf, pl, f, l, sub
<1>12. l <= pl - pf
  BY Zenon, <1>8, <1>9
<1> QED BY SMTT(30), <1>2, <1>7, <1>8, <1>9, <1>10, <1>11, <1>12 DEF d, n

-----------------------------------------------------------------------------
(* A changed octet.                                                        *)

FlippedAt(b, i) == [b EXCEPT ![i] = (@ + 1) % 256]

\* b is orig but for the octet at i.
Altered(b, orig, i) ==
    /\ DOMAIN b = DOMAIN orig
    /\ \A k \in DOMAIN orig : k # i => b[k] = orig[k]
    /\ b[i] # orig[i] /\ b[i] \in 0..255
    /\ orig[i] < 255 => b[i] = orig[i] + 1

\* A changed octet is another one.
LEMMA NextOctet ==
    ASSUME NEW x \in 0..255
    PROVE  /\ (x + 1) % 256 # x /\ (x + 1) % 256 \in 0..255
           /\ x < 255 => (x + 1) % 256 = x + 1
BY SMTT(30)

\* Flip changes one octet of the datagram and nothing else.
LEMMA FlippedIsAltered ==
    ASSUME NEW orig \in Octets, NEW i \in DOMAIN orig
    PROVE  /\ Altered(FlippedAt(orig, i), orig, i)
           /\ FlippedAt(orig, i) \in Octets /\ Len(FlippedAt(orig, i)) = Len(orig)
<1> DEFINE y == (orig[i] + 1) % 256
           b == [orig EXCEPT ![i] = y]
<1>1. orig[i] \in 0..255
  BY ZenonT(40), ElementOfSeq, LenProperties DEF Octets
<1>2. y # orig[i] /\ y \in 0..255 /\ (orig[i] < 255 => y = orig[i] + 1)
  BY <1>1, NextOctet
<1>3. FlippedAt(orig, i) = b
  BY Zenon DEF FlippedAt
<1> HIDE DEF y
<1>4. b \in Octets /\ Len(b) = Len(orig)
  BY <1>2, ExceptSeq, LenProperties DEF Octets
<1>5. DOMAIN b = DOMAIN orig /\ b[i] = y /\ \A k \in DOMAIN orig : k # i => b[k] = orig[k]
  BY Zenon
<1> HIDE DEF b
<1> QED BY <1>2, <1>3, <1>4, <1>5 DEF Altered

\* over is orig with m octets of a digest blanked behind a, and b, which is orig but for
\* the octet at i, with w octets of a digest blanked behind offset.
TwiceBlanked(n, a, m, i, offset, w, over, orig, b) ==
    /\ n \in Nat /\ a \in Nat /\ m \in 0..48 /\ a + m <= n /\ i \in 1..n
    /\ offset \in Nat /\ w \in 0..48 /\ offset + w <= n
    /\ \A k \in 1..n : IF a < k /\ k <= a + m THEN over[k] = 0 /\ orig[k] = 200 + (k - a)
                        ELSE over[k] = orig[k]
    /\ \A k \in 1..n : k # i => b[k] = orig[k]
    /\ b[i] # orig[i] /\ (orig[i] < 255 => b[i] = orig[i] + 1)
    /\ \A k \in 1..n : over[k] = IF k > offset /\ k <= offset + w THEN 0 ELSE b[k]
    /\ \A k \in 1..n : k > offset /\ k <= offset + w => b[k] = 200 + (k - offset)

\* Blanking another place than the one that was signed leaves a digest behind.
LEMMA NeverTwiceBlanked ==
    ASSUME NEW n, NEW a, NEW m, NEW i, NEW offset, NEW w, NEW over, NEW orig, NEW b
    PROVE  ~TwiceBlanked(n, a, m, i, offset, w, over, orig, b)
<1> SUFFICES ASSUME TwiceBlanked(n, a, m, i, offset, w, over, orig, b)
             PROVE  FALSE
  BY Zenon
<1> USE DEF TwiceBlanked
<1>1. CASE i > offset /\ i <= offset + w
  BY <1>1
<1>2. CASE ~(i > offset /\ i <= offset + w)
  BY <1>2
<1> QED BY Zenon, <1>1, <1>2

\* Two places that overlap have an octet in common.
LEMMA Shifted ==
    \A k, offset, w \in Nat :
      k > offset /\ k <= offset + w => k - offset \in 1..w /\ offset + (k - offset) = k
OBVIOUS

DigestBehind(b, offset, w) == \A j \in 1..w : b[offset + j] = 200 + j

\* Blanking the digest where one was found cannot undo the change of an octet: either
\* the changed octet is still there, or what is compared is not the digest.
LEMMA FlippedIsCaught ==
    ASSUME NEW over, NEW orig, NEW a, NEW m, Spliced(over, orig, a, m),
           NEW i \in 1..Len(orig), NEW b, Altered(b, orig, i),
           NEW offset \in Nat, NEW w \in 0..48, offset + w <= Len(orig),
           Blanked(b, offset, w) = over,
           DigestBehind(b, offset, w)
    PROVE  FALSE
<1> DEFINE n == Len(over)
<1>1. /\ n \in Nat /\ a \in Nat /\ m \in 0..48 /\ a + m <= n /\ i \in 1..n
      /\ orig = [k \in 1..n |-> orig[k]] /\ DOMAIN orig = 1..n /\ DOMAIN over = 1..n
      /\ \A k \in 1..n : orig[k] \in 0..255
  BY LenProperties, ElementOfSeq DEF Spliced, Octets
<1>2. \A k \in 1..n : IF a < k /\ k <= a + m THEN over[k] = 0 /\ orig[k] = 200 + (k - a)
                      ELSE over[k] = orig[k]
  BY Zenon DEF Spliced
<1> HIDE DEF n
<1>3. /\ DOMAIN b = 1..n /\ \A k \in 1..n : k # i => b[k] = orig[k]
      /\ b[i] # orig[i] /\ b[i] \in 0..255 /\ (orig[i] < 255 => b[i] = orig[i] + 1)
  BY <1>1 DEF Altered
<1>4. \A k \in 1..n : over[k] = IF k > offset /\ k <= offset + w THEN 0 ELSE b[k]
  <2> TAKE k \in 1..n
  <2>3. k \in Nat
    BY <1>1
  <2> QED BY <1>3, <2>3, Shifted DEF Blanked, Overwritten, Blank
<1>6. ASSUME NEW k \in 1..n, k > offset, k <= offset + w
      PROVE  b[k] = 200 + (k - offset)
  <2>1. k \in Nat
    BY <1>1
  <2>2. k - offset \in 1..w /\ offset + (k - offset) = k
    BY <1>6, <2>1, Shifted
  <2>3. b[offset + (k - offset)] = 200 + (k - offset)
    BY Zenon, <2>2 DEF DigestBehind
  <2> QED BY Zenon, <2>2, <2>3
<1>9. TwiceBlanked(n, a, m, i, offset, w, over, orig, b)
  BY <1>1, <1>2, <1>3, <1>4, <1>6 DEF TwiceBlanked, n, Spliced
<1> QED BY Zenon, <1>9, NeverTwiceBlanked

-----------------------------------------------------------------------------
(* The invariant.                                                          *)

\* The message with the flags of this level.
Flagged(level) == [message EXCEPT !.level = level]

\* What was sent with these choices: the digest is over the same octets, blank where it
\* is, and at most one octet changed on the way.
SentAs(long, extra, level) ==
    LET Build(d) == AgentWhole(Flagged(level), MsgData(message), long, extra, d)
        sent == Build(Digest(AuthWidth(message)))
    IN  /\ signed.over = Build(Blank(AuthWidth(message)))
        /\ signed.extra = extra
        /\ signed.by \in {"client", "agent"}
        /\ signed.by = "client" => level = message.level /\ ~extra
        /\ IF intact THEN datagram = sent
           ELSE \E i \in DOMAIN sent : datagram = FlippedAt(sent, i)

\* What verifyAuth() accepts.
Passes(ownKey, width) ==
    /\ IsAuthenticated(decoded.level)
    /\ Len(decoded.authParams) = width
    /\ decoded.offset + Len(decoded.authParams) <= Len(datagram)
    /\ DigestMatches(ownKey, decoded)

SentInv ==
    /\ message \in Messages
    /\ intact \in BOOLEAN
    /\ asked.ownKey \in BOOLEAN /\ asked.width \in 0..48
    /\ pc \in {"new", "refused"} => intact
    /\ pc \notin {"new", "refused"} =>
         \E long \in BOOLEAN, extra \in BOOLEAN, level \in 0..3 : SentAs(long, extra, level)
    /\ pc = "dropped" => Decoded(datagram).error # "none"
    /\ pc \in {"decoded", "accepted", "rejected"} =>
         decoded = Decoded(datagram) /\ decoded.error = "none"
    /\ pc = "accepted" => Passes(asked.ownKey, asked.width)
    /\ pc = "rejected" => ~Passes(asked.ownKey, asked.width)

\* The widest digest is that of SHA-512.
LEMMA WidthsSmall == Widths \subseteq 0..48
BY Zenon, V3MessageAssumption

\* The messages of the model are within the sizes of these lemmas.
LEMMA MessageSized ==
    ASSUME message \in Messages, NEW level \in 0..3
    PROVE  /\ Sized(message) /\ Sized(Flagged(level)) /\ Flagged(level).level = level
           /\ message.width \in 0..48 /\ AuthWidth(message) \in 0..48
           /\ Flagged(message.level) = message
           /\ message.level \in {0, 1, 3}
<1>1. /\ message.level \in {0, 1, 3} /\ message.engineId \in EngineIds
      /\ message.userName \in UserNames /\ message.scoped \in Scoped /\ message.width \in Widths
  BY Zenon DEF Messages
<1>2. /\ EngineIds \subseteq 0..Most /\ UserNames \subseteq 0..Most /\ Scoped \subseteq 0..Most
      /\ Widths \subseteq 0..48
  BY Zenon, V3MessageAssumption
<1>3. /\ message.engineId \in 0..Most /\ message.userName \in 0..Most /\ message.scoped \in 0..Most
      /\ message.width \in 0..48
  BY Zenon, <1>1, <1>2
<1> QED BY <1>1, <1>3 DEF AuthWidth, Sized, Messages, Flagged

\* SentInv holds before anything is sent,
LEMMA InitSent == Init => SentInv
BY DEF Init, SentInv

\* and each operation keeps it.
LEMMA NextSent == SentInv /\ [Next]_vars => SentInv'
<1> SUFFICES ASSUME SentInv, [Next]_vars PROVE SentInv'
  BY Zenon
<1>1. CASE Encode
  <2>1. /\ pc = "new" /\ intact /\ message \in Messages
        /\ UNCHANGED <<message, intact, decoded, asked>>
    BY Zenon, <1>1 DEF Encode, SentInv
  <2>2. CASE pc' = "refused"
    BY Zenon, <2>1, <2>2 DEF SentInv
  <2>3. CASE pc' = "sent"
    <3> DEFINE w == AuthWidth(message)
               blank == Whole(message, Blank(w))
    <3>1. /\ signed' = [by |-> "client", over |-> blank, extra |-> FALSE]
          /\ datagram' = IF ~IsAuthenticated(message.level) THEN blank
                         ELSE Overwritten(blank, AuthOffset(message), Digest(message.width))
      BY Zenon, <1>1, <2>3 DEF Encode
    <3>2. /\ Sized(message) /\ message.width \in 0..48 /\ w \in 0..48
          /\ Flagged(message.level) = message /\ message.level \in 0..3
      BY <2>1, MessageSized
    <3>3. datagram' = Whole(message, Digest(w))
      <4>1. CASE IsAuthenticated(message.level)
        BY Zenon, <4>1, <3>1, <3>2, ClientSends DEF AuthWidth
      <4>2. CASE ~IsAuthenticated(message.level)
        BY <4>2, <3>1 DEF AuthWidth, Blank, Digest
      <4> QED BY Zenon, <4>1, <4>2
    <3>4. Blank(w) \in Octets /\ Digest(w) \in Octets
      BY Zenon, <3>2, SplicedBare DEF Spliced
    <3>5. /\ blank = AgentWhole(message, MsgData(message), FALSE, FALSE, Blank(w))
          /\ Whole(message, Digest(w)) = AgentWhole(message, MsgData(message), FALSE, FALSE, Digest(w))
      BY ZenonT(40), <3>2, <3>4, ClientWrites
    <3>6. SentAs(FALSE, FALSE, message.level)'
      <4>1. Flagged(message.level)' = message
        BY Zenon, <2>1, <3>2 DEF Flagged
      <4> QED BY Zenon, <2>1, <3>1, <3>2, <3>3, <3>5, <4>1 DEF SentAs
    <3>7. (\E long \in BOOLEAN, extra \in BOOLEAN, level \in 0..3 : SentAs(long, extra, level))'
      BY Zenon, <2>1, <3>2, <3>6
    <3> QED BY Zenon, <2>1, <2>3, <3>7 DEF SentInv
  <2> QED BY Zenon, <1>1, <2>2, <2>3 DEF Encode
<1>2. CASE AgentEncodes
  BY <1>2 DEF AgentEncodes, SentInv, Flagged, SentAs
<1>3. CASE Flip
  <2>1. /\ pc = "sent" /\ intact /\ ~intact' /\ intact' \in BOOLEAN
        /\ UNCHANGED <<pc, message, signed, decoded, asked>>
    BY Zenon, <1>3 DEF Flip
  <2>2. PICK long \in BOOLEAN, extra \in BOOLEAN, level \in 0..3 : SentAs(long, extra, level)
    BY Zenon, <2>1 DEF SentInv
  <2>3. PICK i \in DOMAIN datagram : datagram' = FlippedAt(datagram, i)
    BY Zenon, <1>3 DEF Flip, FlippedAt
  <2> DEFINE sent == AgentWhole(Flagged(level), MsgData(message), long, extra,
                                Digest(AuthWidth(message)))
             over == AgentWhole(Flagged(level), MsgData(message), long, extra,
                                Blank(AuthWidth(message)))
  <2>4. /\ sent' = sent /\ over' = over /\ message'.level = message.level
    BY Zenon, <2>1 DEF Flagged
  <2>5. /\ signed.over = over /\ signed.extra = extra /\ datagram = sent
        /\ signed.by \in {"client", "agent"}
        /\ signed.by = "client" => level = message.level /\ ~extra
    BY Zenon, <2>1, <2>2 DEF SentAs
  <2>6. SentAs(long, extra, level)' <=>
          /\ signed'.over = over' /\ signed'.extra = extra
          /\ signed'.by \in {"client", "agent"}
          /\ signed'.by = "client" => level = message'.level /\ ~extra
          /\ IF intact' THEN datagram' = sent'
             ELSE \E k \in DOMAIN sent' : datagram' = FlippedAt(sent', k)
    BY Zenon DEF SentAs
  <2> HIDE DEF sent, over
  <2>7. SentAs(long, extra, level)'
    BY Zenon, <2>1, <2>3, <2>4, <2>5, <2>6
  <2> QED BY Zenon, <2>1, <2>7 DEF SentInv
<1>4. CASE Decode
  BY <1>4 DEF Decode, SentInv, SentAs, Flagged
<1>5. ASSUME NEW ownKey \in BOOLEAN, NEW width \in Widths \ {0}, Verify(ownKey, width)
      PROVE  SentInv'
  <2>1. /\ pc = "decoded" /\ UNCHANGED <<message, datagram, signed, intact, decoded>>
        /\ asked' = [ownKey |-> ownKey, width |-> width]
        /\ pc' = IF Passes(ownKey, width) THEN "accepted" ELSE "rejected"
    BY Zenon, <1>5 DEF Verify, Passes
  <2>2. PICK long \in BOOLEAN, extra \in BOOLEAN, level \in 0..3 : SentAs(long, extra, level)
    BY Zenon, <2>1 DEF SentInv
  <2>3. SentAs(long, extra, level)'
    BY Zenon, <2>1, <2>2 DEF SentAs, Flagged
  <2>4. /\ Decoded(datagram)' = Decoded(datagram)
        /\ Passes(asked.ownKey, asked.width)' <=> Passes(ownKey, width)
    BY Zenon, <2>1 DEF Passes, DigestMatches
  <2>5. width \in 0..48
    BY Zenon, WidthsSmall
  <2> QED BY Zenon, <2>1, <2>3, <2>4, <2>5 DEF SentInv
<1>6. CASE UNCHANGED vars
  BY SMTT(30), <1>6 DEF SentInv, SentAs, Flagged, Passes, DigestMatches, vars
<1> QED BY SMTT(30), <1>1, <1>2, <1>3, <1>4, <1>5, <1>6 DEF Next

\* What was sent and what was signed differ in the digest alone.
LEMMA SentSpliced ==
    ASSUME message \in Messages, NEW long \in BOOLEAN, NEW extra \in BOOLEAN, NEW level \in 0..3
    PROVE  LET Build(d) == AgentWhole(Flagged(level), MsgData(message), long, extra, d)
               w == AuthWidth(message)
           IN  Spliced(Build(Blank(w)), Build(Digest(w)),
                       Place(Flagged(level), MsgData(message), long, extra, Digest(w)), w)
<1>1. Sized(message) /\ Sized(Flagged(level)) /\ AuthWidth(message) \in 0..48
  BY Zenon, MessageSized
<1>2. MsgData(message) \in Octets
  BY Zenon, <1>1, PartsWritten
<1> QED BY SMTT(30), <1>1, <1>2, SplicedWhole

\* verifyAuth() recomputes the digest over what arrived: one octet changed is refused.
LEMMA SentIsIntact == SentInv => AcceptedIsIntact
<1> SUFFICES ASSUME SentInv, pc = "accepted" PROVE intact /\ asked.ownKey
  BY Zenon DEF AcceptedIsIntact
<1>1. /\ decoded = Decoded(datagram) /\ decoded.error = "none"
      /\ Passes(asked.ownKey, asked.width) /\ asked.width \in 0..48
      /\ message \in Messages /\ intact \in BOOLEAN
  BY Zenon DEF SentInv
<1> DEFINE n == Len(decoded.authParams)
           offset == decoded.offset
<1>2. /\ asked.ownKey /\ n \in 0..48 /\ offset + n <= Len(datagram)
      /\ Blanked(datagram, offset, n) = signed.over /\ decoded.authParams = Digest(n)
  BY Zenon, <1>1 DEF Passes, DigestMatches
<1>3. PICK long \in BOOLEAN, extra \in BOOLEAN, level \in 0..3 : SentAs(long, extra, level)
  BY Zenon DEF SentInv
<1> DEFINE w == AuthWidth(message)
           orig == AgentWhole(Flagged(level), MsgData(message), long, extra, Digest(w))
           over == AgentWhole(Flagged(level), MsgData(message), long, extra, Blank(w))
           a == Place(Flagged(level), MsgData(message), long, extra, Digest(w))
<1>4. Spliced(over, orig, a, w)
  BY Zenon, <1>1, SentSpliced
<1>5. signed.over = over
  BY Zenon, <1>3 DEF SentAs
<1>6. ASSUME ~intact PROVE FALSE
  <2>1. PICK i \in DOMAIN orig : datagram = FlippedAt(orig, i)
    BY Zenon, <1>3, <1>6 DEF SentAs
  <2> HIDE DEF orig, over, a, w
  <2>2. orig \in Octets /\ DOMAIN orig = 1..Len(orig)
    BY SMTT(30), <1>4, LenProperties DEF Spliced, Octets
  <2>3. Altered(datagram, orig, i) /\ datagram \in Octets /\ Len(datagram) = Len(orig)
    BY Zenon, <2>1, <2>2, FlippedIsAltered
  <2>4. offset \in Nat /\ \A j \in 1..n : decoded.authParams[j] = datagram[offset + j]
    BY Zenon, <1>1, <2>3, DigestWhereFound
  <2>5. DigestBehind(datagram, offset, n)
    BY <1>2, <2>4 DEF Digest, DigestBehind
  <2>6. i \in 1..Len(orig) /\ offset + n <= Len(orig) /\ Blanked(datagram, offset, n) = over
    BY SMTT(30), <1>2, <1>5, <2>1, <2>2, <2>3
  <2> HIDE DEF n, offset
  <2> QED BY ZenonT(40), <1>2, <1>4, <2>3, <2>4, <2>5, <2>6, FlippedIsCaught
<1> QED BY Zenon, <1>1, <1>2, <1>6

\* What verifyAuth() accepts arrived as it was sent: wherever decodeV3Message() found the
\* digest, and however long the parts of the message are, the change of one octet is
\* refused, whether it is a length, the digest or anything else.
THEOREM AcceptedWasIntact == Spec => []AcceptedIsIntact
<1>1. Init => SentInv
  BY Zenon, InitSent
<1>2. SentInv /\ [Next]_vars => SentInv'
  BY Zenon, NextSent
<1>3. SentInv => AcceptedIsIntact
  BY Zenon, SentIsIntact
<1> QED BY <1>1, <1>2, <1>3, PTL DEF Spec
=============================================================================
