-------------------------- MODULE V3ReadingProofs ---------------------------
(***************************************************************************)
(* For every engineID, user name, payload and width of a digest: what is   *)
(* signed is accepted, and what is decoded has the payload that its flags  *)
(* announce.  The Reader is followed to where the encoders of              *)
(* V3MessageProofs have put the digest.                                    *)
(***************************************************************************)
EXTENDS V3MessageProofs

-----------------------------------------------------------------------------
(* Reading back what was written.                                          *)

\* The octets of s are in b behind p.
Holds(b, p, s) ==
    /\ b \in Octets /\ s \in Octets /\ p \in Nat /\ p + Len(s) <= Len(b)
    /\ \A i \in 1..Len(s) : b[p + i] = s[i]

\* At p is a header of h octets, with the identifier t, that announces n octets.
Heads(b, p, t, h, n) ==
    /\ b[p + 1] = t /\ b[p + 2] # 128 /\ b[p + 2] # 255
    /\ More(b, p) \in 0..4 /\ h = 2 + More(b, p) /\ Size(b, p) = n

\* The significant octets of a length make it.
TwoOf(x1, x2) == x1 * 256 + x2

ThreeOf(x1, x2, x3) == (x1 * 256 + x2) * 256 + x3

FourOf(x1, x2, x3, x4) == ((x1 * 256 + x2) * 256 + x3) * 256 + x4

\* The octet of n that counts multiples of d.
OctetOf(n, d) == (n \div d) % 256

\* A length in two octets is read as it was written,
LEMMA TwoOctets ==
    ASSUME NEW n \in Nat, n < 65536
    PROVE  TwoOf(OctetOf(n, 256), OctetOf(n, 1)) = n
<1> DEFINE x1 == OctetOf(n, 256)
           x2 == OctetOf(n, 1)
<1>1. x1 = (n \div 256) % 256 /\ x2 = (n \div 1) % 256
  BY DEF OctetOf
<1> HIDE DEF x1, x2
<1>2. TwoOf(x1, x2) = n
  BY SMT, <1>1 DEF TwoOf
<1> QED BY <1>2 DEF x1, x2

\* and one in three,
LEMMA ThreeOctets ==
    ASSUME NEW n \in Nat, n < 16777216
    PROVE  ThreeOf(OctetOf(n, 65536), OctetOf(n, 256), OctetOf(n, 1)) = n
<1> DEFINE x1 == OctetOf(n, 65536)
           x2 == OctetOf(n, 256)
           x3 == OctetOf(n, 1)
<1>1. x1 = (n \div 65536) % 256 /\ x2 = (n \div 256) % 256 /\ x3 = (n \div 1) % 256
  BY SMT DEF OctetOf
<1> HIDE DEF x1, x2, x3
<1>2. ThreeOf(x1, x2, x3) = n
  BY SMT, <1>1 DEF ThreeOf
<1> QED BY SMT, <1>2 DEF x1, x2, x3

\* and one in four.
LEMMA FourOctets ==
    ASSUME NEW n \in Nat, n < 4294967296
    PROVE  FourOf(OctetOf(n, 16777216), OctetOf(n, 65536), OctetOf(n, 256), OctetOf(n, 1)) = n
<1> DEFINE x1 == OctetOf(n, 16777216)
           x2 == OctetOf(n, 65536)
           x3 == OctetOf(n, 256)
           x4 == OctetOf(n, 1)
<1>1. /\ x1 = (n \div 16777216) % 256 /\ x2 = (n \div 65536) % 256
      /\ x3 = (n \div 256) % 256 /\ x4 = (n \div 1) % 256
  BY SMT DEF OctetOf
<1> HIDE DEF x1, x2, x3, x4
<1>2. FourOf(x1, x2, x3, x4) = n
  BY SMT, <1>1 DEF FourOf
<1> QED BY SMT, <1>2 DEF x1, x2, x3, x4

\* Which lengths are written in how many octets.
LEMMA LengthOfForm ==
    ASSUME NEW n, Short(n), ~(n < 128)
    PROVE  /\ LengthOctets(n) = 2 => n < 256
           /\ LengthOctets(n) = 3 => n < 65536
           /\ LengthOctets(n) = 4 => n < 16777216
           /\ LengthOctets(n) = 5 => n < 4294967296
BY SMT DEF LengthOctets, Short

\* The octets x of a length are behind the first one, at the 0-based p + 2.
LEMMA LongSize ==
    ASSUME NEW b, NEW p \in Nat, NEW n, Short(n), ~(n < 128),
           b[p + 2] = 128 + (LengthOctets(n) - 1),
           \A i \in 1..(LengthOctets(n) - 1) :
              b[p + 2 + i] = OctetOf(n, Weight((LengthOctets(n) - 1) - i + 1))
    PROVE  More(b, p) = LengthOctets(n) - 1 /\ Size(b, p) = n
<1> DEFINE k == LengthOctets(n) - 1
           x == b[p + 2]
<1>1. n \in Nat /\ k \in 1..4
  BY SMT DEF LengthOctets, Short
<1>2. x = 128 + k
  BY Zenon
<1>3. \A i \in 1..k : b[p + 2 + i] = OctetOf(n, Weight(k - i + 1))
  BY Zenon
<1>4. More(b, p) = IF x < 128 THEN 0 ELSE x % 128
  BY Zenon DEF More
<1>5. /\ k = 1 => n < 256
      /\ k = 2 => n < 65536
      /\ k = 3 => n < 16777216
      /\ k = 4 => n < 4294967296
  BY SMTT(30), <1>1, LengthOfForm
<1>6. ~(b[p + 2] < 128)
  BY <1>1, <1>2 DEF x
<1> HIDE DEF x, k
<1>7. More(b, p) = k
  BY SMTT(30), <1>1, <1>2, <1>4
<1>8. CASE k = 1
  <2>3. Size(b, p) = b[p + 3]
    BY <1>6, <1>7, <1>8 DEF Size
  <2> QED BY <1>1, <1>3, <1>5, <1>7, <1>8, <2>3 DEF k, Weight, OctetOf
<1>9. CASE k = 2
  <2>3. Size(b, p) = TwoOf(b[p + 3], b[p + 4])
    BY SMTT(30), <1>6, <1>7, <1>9 DEF Size, TwoOf
  <2> QED BY SMTT(30), <1>1, <1>3, <1>5, <1>7, <1>9, <2>3, TwoOctets DEF k, Weight
<1>10. CASE k = 3
  <2>3. Size(b, p) = ThreeOf(b[p + 3], b[p + 4], b[p + 5])
    BY SMTT(30), <1>6, <1>7, <1>10 DEF Size, ThreeOf
  <2> QED BY SMTT(30), <1>1, <1>3, <1>5, <1>7, <1>10, <2>3, ThreeOctets DEF k, Weight
<1>11. CASE k = 4
  <2>3. Size(b, p) = FourOf(b[p + 3], b[p + 4], b[p + 5], b[p + 6])
    BY <1>6, <1>7, <1>11 DEF Size, FourOf
  <2> QED BY <1>1, <1>3, <1>5, <1>7, <1>11, <2>3, FourOctets DEF k, Weight
<1> QED BY SMTT(30), <1>1, <1>8, <1>9, <1>10, <1>11

\* Of two strings that are held behind each other, each is held.
LEMMA HeldParts ==
    ASSUME NEW b, NEW p, NEW x \in Octets, NEW y \in Octets, Holds(b, p, x \o y)
    PROVE  Holds(b, p, x) /\ Holds(b, p + Len(x), y)
<1> DEFINE k == Len(x)
           n == Len(y)
           z == x \o y
           l == Len(b)
<1>1. /\ z \in Octets /\ k \in Nat /\ n \in Nat /\ Len(z) = k + n
      /\ \A i \in 1..k : z[i] = x[i]
      /\ \A i \in 1..n : z[k + i] = y[i]
  BY Zenon, Joined
<1>2. b \in Octets /\ p \in Nat /\ p + Len(z) <= l /\ \A i \in 1..Len(z) : b[p + i] = z[i]
  BY Zenon DEF Holds
<1>3. l \in Nat
  BY <1>2, LenProperties DEF Octets
<1> HIDE DEF z, k, n, l
<1>4. p + k <= l /\ p + k \in Nat /\ (p + k) + n <= l
  BY <1>1, <1>2, <1>3
<1>8. Holds(b, p + k, y)
  BY <1>1, <1>2, <1>4 DEF Holds, n, l
<1> QED BY SMTT(30), <1>1, <1>2, <1>4, <1>8 DEF k, Holds, l

\* The header of an element is read as it was written.
LEMMA TlvHeads ==
    ASSUME NEW b, NEW p, NEW t \in 0..255, NEW c \in Octets, Short(Len(c)),
           Holds(b, p, Tlv(t, c))
    PROVE  /\ Heads(b, p, t, Len(Tlv(t, c)) - Len(c), Len(c))
           /\ Holds(b, p + (Len(Tlv(t, c)) - Len(c)), c)
<1> DEFINE n == Len(c)
           k == LengthOctets(n)
           q == PutLength(n)
           x == <<t>> \o q
<1>1. n \in Nat /\ Short(n)
  BY DEF Short
<1>2. k \in 1..5 /\ q \in Octets /\ Len(q) = k
  BY <1>1, LengthWritten
<1>4. /\ x \in Octets /\ Len(x) = 1 + k /\ x[1] = t
      /\ \A i \in 1..k : x[1 + i] = q[i]
  <2> DEFINE y == <<t>>
  <2>1. y \in Octets /\ Len(y) = 1 /\ y[1] = t /\ x = y \o q
    BY DEF Octets
  <2> HIDE DEF y, x, q
  <2>2. /\ y \o q \in Octets /\ Len(y \o q) = Len(y) + Len(q)
        /\ \A i \in 1..Len(y) : (y \o q)[i] = y[i]
        /\ \A i \in 1..Len(q) : (y \o q)[Len(y) + i] = q[i]
    BY Zenon, <1>2, <2>1, Joined
  <2> QED BY SMTT(30), <1>2, <2>1, <2>2
<1> DEFINE h == Len(Tlv(t, c)) - Len(c)
<1>6. h = 1 + k
  <2>1. Len(Tlv(t, c)) = 1 + k + n
    BY Zenon, TlvWritten
  <2>2. h = (1 + k + n) - n
    BY Zenon, <2>1
  <2> HIDE DEF h, k, n
  <2> QED BY SMTT(30), <1>1, <1>2, <2>2
<1>7. Holds(b, p, x) /\ Holds(b, p + Len(x), c)
  <2>1. Holds(b, p, x \o c)
    BY Zenon DEF Tlv
  <2> HIDE DEF x
  <2> QED BY Zenon, <1>4, <2>1, HeldParts
<1>8. Holds(b, p + h, c)
  BY Zenon, <1>4, <1>6, <1>7
<1> HIDE DEF x
<1>9. p \in Nat /\ \A i \in 1..(1 + k) : b[p + i] = x[i]
  BY Zenon, <1>4, <1>7 DEF Holds
<1> HIDE DEF h
<1>10. /\ b[p + 1] = t
       /\ \A i \in 1..k : b[p + (1 + i)] = q[i]
  <2> HIDE DEF k, q
  <2>1. 1 \in 1..(1 + k) /\ \A i \in 1..k : 1 + i \in 1..(1 + k)
    BY <1>2
  <2> QED BY Zenon, <1>4, <1>9, <2>1
<1>11. b[p + 2] = q[1]
  BY <1>2, <1>10
<1>12. CASE n < 128
  <2>1. k = 1 /\ q[1] = n
    <3> HIDE DEF n
    <3>1. n < 128 => LengthOctets(n) = 1 /\ PutLength(n)[1] = n
      BY <1>1, LengthWritten
    <3> QED BY Zenon, <1>12, <3>1
  <2>2. b[p + 2] = n
    BY Zenon, <1>11, <2>1
  <2>3. b[p + 2] < 128
    BY Zenon, <1>12, <2>2
  <2>4. More(b, p) = 0
    BY Zenon, <2>3 DEF More
  <2>6. n # 128 /\ n # 255
    <3> HIDE DEF n
    <3> QED BY SMTT(30), <1>1, <1>12
  <2>8. Heads(b, p, t, h, n)
    BY <1>6, <1>10, <2>1, <2>2, <2>3, <2>4, <2>6 DEF Heads, Size
  <2> QED BY Zenon, <1>8, <2>8 DEF h
<1>13. CASE ~(n < 128)
  <2> DEFINE j == k - 1
  <2>1. /\ j \in 1..4 /\ q[1] = 128 + j
        /\ \A i \in 1..j : q[1 + i] = (n \div Weight(j - i + 1)) % 256
    BY SMTT(30), <1>1, <1>13, LengthWritten
  <2>2. \A i \in 1..j : q[1 + i] = OctetOf(n, Weight(j - i + 1))
    BY Zenon, <2>1 DEF OctetOf
  <2> DEFINE F(i) == OctetOf(n, Weight(j - i + 1))
  <2>3. \A i \in 1..j : q[1 + i] = F(i)
    BY Zenon, <2>2
  <2> HIDE DEF F
  <2>4. \A i \in 1..j : b[p + 2 + i] = F(i)
    <3> HIDE DEF q, n
    <3>1. \A i \in 1..j : 1 + i \in 1..k /\ p + (1 + (1 + i)) = p + 2 + i
      BY SMTT(30), <1>2, <1>9
    <3> HIDE DEF k
    <3> QED BY Zenon, <1>10, <2>3, <3>1
  <2>5. More(b, p) = j /\ Size(b, p) = n
    BY SMTT(30), <1>1, <1>9, <1>11, <1>13, <2>1, <2>4, LongSize DEF F
  <2>6. b[p + 2] # 128 /\ b[p + 2] # 255 /\ More(b, p) \in 0..4 /\ 1 + k = 2 + More(b, p)
    <3>1. b[p + 2] = 128 + j /\ k \in 1..5 /\ j \in 1..4
      BY Zenon, <1>2, <1>11, <2>1
    <3> HIDE DEF n
    <3> QED BY SMTT(30), <2>5, <3>1
  <2> QED BY SMTT(30), <1>6, <1>8, <1>10, <2>5, <2>6 DEF Heads, h
<1> QED BY Zenon, <1>12, <1>13

\* The header of an element whose length is in the long form without need.
LEMMA LongHeads ==
    ASSUME NEW b, NEW p, NEW t \in 0..255, NEW c \in Octets, Len(c) < 128,
           Holds(b, p, LongTlv(t, c))
    PROVE  /\ Heads(b, p, t, Len(LongTlv(t, c)) - Len(c), Len(c))
           /\ Holds(b, p + (Len(LongTlv(t, c)) - Len(c)), c)
<1> DEFINE n == Len(c)
           x == <<t, 129, n>>
           h == Len(LongTlv(t, c)) - n
<1>2. x \in Octets /\ Len(x) = 3 /\ Len(LongTlv(t, c)) = 3 + n
  BY ZenonT(40), LongWritten
<1>3. x[1] = t /\ x[2] = 129 /\ x[3] = n
  BY Zenon
<1>5. Holds(b, p, x) /\ Holds(b, p + Len(x), c)
  <2>1. Holds(b, p, x \o c)
    BY Zenon DEF LongTlv
  <2> HIDE DEF x
  <2> QED BY Zenon, <1>2, <2>1, HeldParts
<1> HIDE DEF x, h
<1>7. b[p + 1] = t /\ b[p + 2] = 129 /\ b[p + 3] = n
  BY <1>2, <1>5, <1>3 DEF Holds
<1> QED BY <1>2, <1>5, <1>7, LenProperties DEF h, Heads, Size, More, Octets

\* The element at p, with n octets of content, is one with the tag t and no other.
IsOnly(b, p, e, t, n) ==
    \A u : IsElement(b, p, e, u) <=> u = t /\ (t = integer => n \in 1..4)

\* What the Reader makes of the element with tag t and content c, encoded as s, at p.
Reads(b, p, e, t, s, c) ==
    /\ Element(b, p, e).from = p + (Len(s) - Len(c))
    /\ Element(b, p, e).to = p + Len(s)
    /\ IsOnly(b, p, e, t, Len(c))
    /\ Holds(b, p + (Len(s) - Len(c)), c)

\* The Reader finds the content behind such a header, and the tag that is there.
LEMMA HeadsRead ==
    ASSUME NEW b, NEW p \in Nat, NEW e \in Nat, NEW t, t \in {integer, octetString, sequence},
           NEW h, NEW n \in Nat, Heads(b, p, t, h, n), p + h + n <= e
    PROVE  /\ Element(b, p, e).from = p + h /\ Element(b, p, e).to = p + h + n
           /\ IsOnly(b, p, e, t, n)
<1> DEFINE k == More(b, p)
<1>1. /\ b[p + 1] = t /\ b[p + 2] # 128 /\ b[p + 2] # 255
      /\ k \in 0..4 /\ h = 2 + k /\ Size(b, p) = n
  BY Zenon DEF Heads
<1>3. /\ Reader(b, p, e)!ContentStart = p + 2 + k
      /\ Reader(b, p, e)!ContentEnd = p + 2 + k + Size(b, p)
      /\ Reader(b, p, e)!HeaderError = "none" <=>
           /\ ~(e - p < 2) /\ b[p + 1] % 32 # 31
           /\ b[p + 2] # 128 /\ b[p + 2] # 255 /\ ~(k > 4)
           /\ ~(e < p + 2 + k) /\ ~(Size(b, p) > e - (p + 2 + k))
  BY ReaderSays
<1> HIDE DEF k
<1>4. /\ ~(e - p < 2) /\ ~(k > 4) /\ ~(e < p + 2 + k) /\ ~(n > e - (p + 2 + k)) /\ p < e
      /\ p + 2 + k = p + h /\ p + 2 + k + n = p + h + n /\ (p + h + n) - (p + h) = n
  BY <1>1
<1>6. Element(b, p, e).from = p + h /\ Element(b, p, e).to = p + h + n
  BY SMTT(30), <1>1, <1>3, <1>4 DEF Element
<1>8. ASSUME NEW u PROVE IsElement(b, p, e, u) <=> u = t /\ (t = integer => n \in 1..4)
  BY <1>1, <1>3, <1>4, <1>6 DEF IsElement, integer, octetString, sequence
<1> QED BY Zenon, <1>6, <1>8 DEF IsOnly

\* It reads back an element in either form,
LEMMA AgentRead ==
    ASSUME NEW long \in BOOLEAN, NEW b, NEW p, NEW e \in Nat, NEW t,
           t \in {integer, octetString, sequence}, NEW c \in Octets, Short(Len(c)),
           Holds(b, p, AgentTlv(long, t, c)), p + Len(AgentTlv(long, t, c)) <= e
    PROVE  Reads(b, p, e, t, AgentTlv(long, t, c), c)
<1> DEFINE s == AgentTlv(long, t, c)
           n == Len(c)
           l == Len(s)
           h == l - n
<1>1. t \in 0..255
  BY DEF integer, octetString, sequence
<1>2. s \in Octets /\ n \in Nat /\ l \in Nat /\ p \in Nat
  <2>1. s \in Octets /\ n \in Nat
    BY Zenon, <1>1, AgentWritten
  <2> QED BY <2>1, LenProperties DEF Holds, Octets
<1>3. Heads(b, p, t, h, n) /\ Holds(b, p + h, c)
  <2>1. CASE long /\ n < 128
    <3>1. s = LongTlv(t, c)
      BY Zenon, <2>1 DEF AgentTlv
    <3> QED BY ZenonT(40), <1>1, <2>1, <3>1, LongHeads
  <2>2. CASE ~(long /\ n < 128)
    <3>1. s = Tlv(t, c)
      BY Zenon, <2>2 DEF AgentTlv
    <3> QED BY Zenon, <1>1, <3>1, TlvHeads
  <2> QED BY Zenon, <2>1, <2>2
<1>4. p + l <= e
  BY Zenon
<1> HIDE DEF s
<1>5. p + h + n = p + l
  BY <1>2
<1>6. p + h + n <= e
  BY Zenon, <1>4, <1>5
<1> HIDE DEF l, n, h
<1>7. /\ Element(b, p, e).from = p + h /\ Element(b, p, e).to = p + h + n
      /\ IsOnly(b, p, e, t, n)
  BY SMTT(30), <1>2, <1>3, <1>6, HeadsRead
<1> QED BY Zenon, <1>3, <1>5, <1>7 DEF Reads, h, l, n, s

\* The octets of s fill b from p to e.
Fills(b, p, e, s) == Holds(b, p, s) /\ e \in Nat /\ p + Len(s) = e

\* The element at p has the tag t and the content c, and r is the rest up to e.
ReadOne(b, p, e, t, c, r) ==
    /\ IsOnly(b, p, e, t, Len(c))
    /\ Fills(b, Element(b, p, e).from, Element(b, p, e).to, c)
    /\ Fills(b, Element(b, p, e).to, e, r)

\* and is then in front of the rest;
LEMMA NextRead ==
    ASSUME NEW long \in BOOLEAN, NEW b, NEW p, NEW e, NEW t,
           t \in {integer, octetString, sequence}, NEW c \in Octets, Short(Len(c)),
           NEW r \in Octets, Fills(b, p, e, AgentTlv(long, t, c) \o r)
    PROVE  ReadOne(b, p, e, t, c, r)
<1> DEFINE s == AgentTlv(long, t, c)
           l == Len(s)
           k == Len(r)
           n == Len(c)
           from == Element(b, p, e).from
           to == Element(b, p, e).to
<1>1. t \in 0..255
  BY DEF integer, octetString, sequence
<1>2. s \in Octets /\ n \in Nat /\ l \in (n + 2)..(n + 6)
  BY Zenon, <1>1, AgentWritten
<1>3. k \in Nat /\ Len(s \o r) = l + k
  BY Zenon, <1>2, Joined
<1>4. Holds(b, p, s \o r) /\ e \in Nat /\ p + (l + k) = e /\ p \in Nat
  BY Zenon, <1>3 DEF Fills, Holds
<1>5. Holds(b, p, s) /\ Holds(b, p + l, r)
  BY Zenon, <1>2, <1>4, HeldParts
<1>6. p + l <= e /\ (p + l) + k = e /\ p + l \in Nat /\ (p + (l - n)) + n = p + l
  BY <1>2, <1>3, <1>4
<1>8. from = p + (l - n) /\ to = p + l /\ IsOnly(b, p, e, t, n) /\ Holds(b, p + (l - n), c)
  BY <1>4, <1>5, <1>6, AgentRead DEF Reads
<1> HIDE DEF s, l, k, n, from, to
<1>9. Fills(b, to, e, r)
  BY Zenon, <1>4, <1>5, <1>6, <1>8 DEF Fills, k
<1> QED BY Zenon, <1>6, <1>8, <1>9 DEF ReadOne, from, to, n, Fills

\* so it does for the elements that BerWriter writes.
LEMMA PlainRead ==
    ASSUME NEW b, NEW p, NEW e, NEW t, t \in {integer, octetString, sequence},
           NEW c \in Octets, Short(Len(c)), NEW r \in Octets, Fills(b, p, e, Tlv(t, c) \o r)
    PROVE  ReadOne(b, p, e, t, c, r)
<1>1. AgentTlv(FALSE, t, c) = Tlv(t, c)
  BY Zenon DEF AgentTlv
<1> QED BY Zenon, <1>1, NextRead

\* A datagram fills itself.
LEMMA FillsSelf ==
    ASSUME NEW b \in Octets
    PROVE  Fills(b, 0, Len(b), b \o <<>>)
<1> QED BY ConcatEmptySeq, LenProperties DEF Fills, Holds, Octets

\* What fills an extent is what the extent contains.
LEMMA FilledIsCut ==
    ASSUME NEW b, NEW p, NEW e, NEW s, Fills(b, p, e, s)
    PROVE  SubSeq(b, p + 1, e) = s
<1> DEFINE n == Len(s)
           c == SubSeq(b, p + 1, e)
<1>1. /\ b \in Octets /\ s \in Octets /\ p \in Nat /\ p + n <= Len(b) /\ e \in Nat /\ p + n = e
      /\ \A i \in 1..n : b[p + i] = s[i]
  BY Zenon DEF Fills, Holds
<1>3. p <= e /\ e <= Len(b) /\ e - p = n
  BY <1>1, LenProperties DEF Octets
<1>4. c \in Octets /\ Len(c) = n /\ \A j \in 1..n : c[j] = b[p + j]
  BY <1>1, <1>3, Cut
<1> HIDE DEF c
<1>5. \A j \in 1..n : c[j] = s[j]
  BY Zenon, <1>1, <1>4
<1> QED BY <1>1, <1>4, <1>5, SeqEqual DEF c, Octets

\* How long the security parameters are at most.
LEMMA UsmWritten ==
    ASSUME NEW m, Sized(m), NEW long \in BOOLEAN, NEW extra \in BOOLEAN,
           NEW d \in Octets, Len(d) <= 48
    PROVE  /\ AgentUsm(m, long, extra, d) \in Octets
           /\ Len(AgentUsm(m, long, extra, d)) \in Nat
           /\ Len(AgentUsm(m, long, extra, d)) <= 2 * Most + 112
<1> DEFINE f == BeforeDigest(m)
           g == AgentTlv(long, octetString, d)
           y == Behind(m, extra)
<1>1. octetString \in 0..255 /\ 2 * Most + 28 \in Nat /\ 54 \in Nat /\ 30 \in Nat
  BY MostIsShort DEF octetString
<1>2. f \in Octets /\ Len(f) <= 2 * Most + 28 /\ y \in Octets /\ Len(y) <= 30
  BY PartsWritten, BehindWritten
<1>3. g \in Octets /\ Len(g) <= 54
  <2> DEFINE n == Len(d)
             l == Len(g)
  <2>1. g \in Octets /\ n \in Nat /\ l \in (n + 2)..(n + 6) /\ n <= 48
    BY Zenon, <1>1, AgentWritten
  <2> HIDE DEF n, l, g
  <2>2. l <= 54
    BY <2>1
  <2> QED BY Zenon, <2>1, <2>2 DEF l
<1>4. AgentUsm(m, long, extra, d) = (f \o g) \o y
  BY Zenon DEF AgentUsm, Behind
<1> HIDE DEF f, g, y
<1> DEFINE fg == f \o g
           k == 2 * Most + 28
<1>5. k \in Nat /\ Len(f) <= k /\ k + 54 \in Nat
  BY SMTT(30), <1>1, <1>2
<1> HIDE DEF k
<1>6. fg \in Octets /\ Len(fg) <= k + 54
  BY SMTT(30), <1>1, <1>2, <1>3, <1>5, JoinedSized
<1> HIDE DEF fg
<1>7. fg \o y \in Octets /\ Len(fg \o y) \in Nat /\ Len(fg \o y) <= (k + 54) + 30
  BY SMTT(30), <1>1, <1>2, <1>5, <1>6, JoinedSized
<1> QED BY <1>4, <1>7, MostIsShort DEF fg, k

\* The encoders join from the left, the Reader takes from the left.
LEMMA FromTheRight ==
    ASSUME NEW x \in Octets, NEW y \in Octets, NEW z \in Octets
    PROVE  (x \o y) \o z = x \o (y \o z)
BY SMTT(30), ConcatAssociative DEF Octets

FourToo(x, y, z, r) ==
    /\ ((x \o y) \o z) \o r = x \o (y \o (z \o r))
    /\ z \o r \in Octets /\ y \o (z \o r) \in Octets

\* For the fields of the header and those of the message,
LEMMA FourFromTheRight ==
    ASSUME NEW x \in Octets, NEW y \in Octets, NEW z \in Octets, NEW r \in Octets
    PROVE  FourToo(x, y, z, r)
<1> DEFINE xy == x \o y
           zr == z \o r
<1>1. xy \in Octets /\ zr \in Octets
  BY Zenon, Joined
<1>3. (x \o y) \o zr = x \o (y \o zr)
  <2> HIDE DEF zr
  <2> QED BY SMTT(30), <1>1, FromTheRight
<1>4. (xy \o z) \o r = xy \o (z \o r)
  <2> HIDE DEF xy
  <2> QED BY SMTT(30), <1>1, FromTheRight
<1> QED BY Zenon, <1>1, <1>3, <1>4, Joined DEF FourToo

SixToo(a1, a2, a3, a4, a5, r) ==
    /\ ((((a1 \o a2) \o a3) \o a4) \o a5) \o r = a1 \o (a2 \o (a3 \o (a4 \o (a5 \o r))))
    /\ a5 \o r \in Octets /\ a4 \o (a5 \o r) \in Octets
    /\ a3 \o (a4 \o (a5 \o r)) \in Octets /\ a2 \o (a3 \o (a4 \o (a5 \o r))) \in Octets

\* and for the fields of the security parameters.
LEMMA SixFromTheRight ==
    ASSUME NEW a1 \in Octets, NEW a2 \in Octets, NEW a3 \in Octets, NEW a4 \in Octets,
           NEW a5 \in Octets, NEW r \in Octets
    PROVE  SixToo(a1, a2, a3, a4, a5, r)
<1> DEFINE l == (a1 \o a2) \o a3
           q == a4 \o (a5 \o r)
<1>1. l \in Octets
  BY Zenon, Joined
<1>2. FourToo(l, a4, a5, r)
  BY Zenon, <1>1, FourFromTheRight
<1>3. ((l \o a4) \o a5) \o r = l \o q /\ a5 \o r \in Octets /\ q \in Octets
  BY Zenon, <1>2 DEF FourToo
<1>4. FourToo(a1, a2, a3, q)
  BY Zenon, <1>3, FourFromTheRight
<1> QED BY Zenon, <1>3, <1>4 DEF SixToo, FourToo

\* The contents of the fields are short.
LEMMA FieldsShort ==
    ASSUME NEW m, Sized(m)
    PROVE  /\ Content(m.engineId) \in Octets /\ Short(Len(Content(m.engineId)))
           /\ Content(m.userName) \in Octets /\ Short(Len(Content(m.userName)))
           /\ Content(1) \in Octets /\ Len(Content(1)) = 1 /\ Short(Len(Content(1)))
           /\ Content(3) \in Octets /\ Len(Content(3)) = 3 /\ Short(Len(Content(3)))
           /\ Salt(m) \in Octets /\ Short(Len(Salt(m)))
           /\ <<3>> \in Octets /\ Len(<<3>>) = 1 /\ <<3>>[1] = 3
           /\ <<m.level + 4>> \in Octets /\ Len(<<m.level + 4>>) = 1
           /\ <<m.level + 4>>[1] = m.level + 4 /\ Short(1) /\ <<1>> \in Octets
<1>1. \A n \in 0..Most : n \in Nat /\ Short(n)
  BY MostIsShort
<1>2. 1 \in Nat /\ 3 \in Nat /\ Short(1) /\ Short(3)
  BY MostIsShort
<1>3. \A n \in Nat : Short(n) => Content(n) \in Octets /\ Len(Content(n)) = n /\ Short(Len(Content(n)))
  BY Zenon, ContentWritten
<1>4. m.engineId \in 0..Most /\ m.userName \in 0..Most
  BY Zenon DEF Sized
<1>5. Salt(m) \in Octets /\ Short(Len(Salt(m)))
  BY MostIsShort, <1>3 DEF Salt
<1>7. <<3>> \in Octets /\ <<1>> \in Octets /\ <<m.level + 4>> \in Octets
  BY DEF Octets, Sized
<1> QED BY ZenonT(40), <1>1, <1>2, <1>3, <1>4, <1>5, <1>7

\* What b, which holds the security parameters of m with the digest d, is read as.
UsmReads(b, m, extra, d) ==
    /\ Usm(b).ok <=> ~extra
    /\ ~extra => /\ Fills(b, Usm(b).authParams.from, Usm(b).authParams.to, d)
                 /\ Fills(b, Usm(b).authParams.to, Len(b), Behind(m, extra))

\* The field that a sender may add behind the six.
Seventh(extra) == IF extra THEN Tlv(integer, <<1>>) ELSE <<>>

\* A seventh field is noticed by the position alone.
LEMMA NothingLeft ==
    ASSUME NEW b, NEW p, NEW e, NEW extra \in BOOLEAN,
           Fills(b, p, e, Seventh(extra))
    PROVE  p = e <=> ~extra
<1>1. p \in Nat
  BY Zenon DEF Fills, Holds
<1>2. CASE extra
  <2>1. integer \in 0..255 /\ <<1>> \in Octets /\ Len(<<1>>) = 1
    BY SMTT(30) DEF integer, Octets
  <2>2. Len(Tlv(integer, <<1>>)) = 1 + LengthOctets(Len(<<1>>)) + Len(<<1>>)
    BY Zenon, <2>1, TlvWritten
  <2>3. LengthOctets(1) = 1
    BY DEF LengthOctets
  <2> QED BY SMTT(30), <1>1, <1>2, <2>1, <2>2, <2>3 DEF Fills, Seventh
<1>3. CASE ~extra
  BY SMTT(30), <1>3, <1>1 DEF Fills, Seventh
<1> QED BY Zenon, <1>2, <1>3

\* decodeV3Message() reads the six fields, and reports a seventh.
LEMMA UsmRead ==
    ASSUME NEW m, Sized(m), NEW long \in BOOLEAN, NEW extra \in BOOLEAN,
           NEW d \in Octets, Len(d) <= 48
    PROVE  UsmReads(Tlv(sequence, AgentUsm(m, long, extra, d)), m, extra, d)
<1> DEFINE u == AgentUsm(m, long, extra, d)
           b == Tlv(sequence, u)
           c1 == Content(m.engineId)
           c2 == Content(1)
           c3 == Content(3)
           c4 == Content(m.userName)
           c6 == Salt(m)
           x == IF extra THEN Tlv(integer, <<1>>) ELSE <<>>
           r6 == Tlv(octetString, c6) \o x
           r5 == AgentTlv(long, octetString, d) \o r6
           r4 == Tlv(octetString, c4) \o r5
           r3 == Tlv(integer, c3) \o r4
           r2 == Tlv(integer, c2) \o r3
           r1 == Tlv(octetString, c1) \o r2
           top == Element(b, 0, Len(b))
           engineId == Element(b, top.from, top.to)
           boots == Element(b, engineId.to, top.to)
           time == Element(b, boots.to, top.to)
           userName == Element(b, time.to, top.to)
           authParams == Element(b, userName.to, top.to)
           privParams == Element(b, authParams.to, top.to)
<1>1. /\ integer \in {integer, octetString, sequence} /\ octetString \in {integer, octetString, sequence}
      /\ sequence \in {integer, octetString, sequence}
      /\ integer \in 0..255 /\ octetString \in 0..255 /\ sequence \in 0..255
      /\ octetString # integer /\ sequence # integer
  BY DEF integer, octetString, sequence
<1>2. /\ c1 \in Octets /\ Short(Len(c1)) /\ c2 \in Octets /\ Short(Len(c2)) /\ Len(c2) = 1
      /\ c3 \in Octets /\ Short(Len(c3)) /\ Len(c3) = 3
      /\ c4 \in Octets /\ Short(Len(c4)) /\ c6 \in Octets /\ Short(Len(c6))
  BY Zenon, FieldsShort
<1>3. u \in Octets /\ Short(Len(u)) /\ Short(Len(d))
  BY UsmWritten, MostIsShort, LenProperties DEF Octets
<1>4. r6 = Behind(m, extra) /\ r6 \in Octets /\ x \in Octets
  <2>2. Tlv(integer, <<1>>) \in Octets
    BY Zenon, <1>1, FieldsShort, TlvSized
  <2> QED BY <2>2, BehindWritten DEF Behind, Octets
<1>5. /\ Tlv(octetString, c1) \in Octets /\ Tlv(integer, c2) \in Octets /\ Tlv(integer, c3) \in Octets
      /\ Tlv(octetString, c4) \in Octets /\ AgentTlv(long, octetString, d) \in Octets
  BY ZenonT(40), <1>1, <1>2, TlvSized, AgentWritten
<1>6. u = r1 /\ r5 \in Octets /\ r4 \in Octets /\ r3 \in Octets /\ r2 \in Octets
  <2>1. u = ((((Tlv(octetString, c1) \o Tlv(integer, c2)) \o Tlv(integer, c3))
                \o Tlv(octetString, c4)) \o AgentTlv(long, octetString, d)) \o r6
    BY Zenon DEF AgentUsm, BeforeDigest
  <2> HIDE DEF u, r6
  <2>2. SixToo(Tlv(octetString, c1), Tlv(integer, c2), Tlv(integer, c3), Tlv(octetString, c4),
               AgentTlv(long, octetString, d), r6)
    BY Zenon, <1>4, <1>5, SixFromTheRight
  <2> QED BY ZenonT(40), <2>1, <2>2 DEF SixToo
<1> HIDE DEF u, c1, c2, c3, c4, c6, x
<1>8. ReadOne(b, 0, Len(b), sequence, u, <<>>)
  <2>1. Fills(b, 0, Len(b), b \o <<>>)
    BY SMTT(30), <1>1, <1>3, FillsSelf, TlvSized
  <2>2. <<>> \in Octets
    BY DEF Octets
  <2> QED BY ZenonT(40), <1>1, <1>3, <2>1, <2>2, PlainRead
<1>9. /\ IsElement(b, 0, Len(b), sequence) /\ top.to = Len(b)
      /\ Fills(b, top.from, top.to, r1)
  <2>1. /\ IsOnly(b, 0, Len(b), sequence, Len(u)) /\ Fills(b, top.from, top.to, u)
        /\ Fills(b, top.to, Len(b), <<>>)
    BY Zenon, <1>8 DEF ReadOne
  <2>2. top.to + 0 = Len(b) /\ top.to \in Nat
    BY Zenon, <2>1 DEF Fills, Holds
  <2> QED BY SMTT(30), <1>1, <1>6, <2>1, <2>2 DEF IsOnly
<1> HIDE DEF b, top, r2, r3, r4, r5, r6
<1>10. IsElement(b, top.from, top.to, octetString) /\ Fills(b, engineId.to, top.to, r2)
  <2> QED BY Zenon, <1>1, <1>2, <1>6, <1>9, PlainRead DEF ReadOne, IsOnly
<1> HIDE DEF engineId, r1
<1>11. IsElement(b, engineId.to, top.to, integer) /\ Fills(b, boots.to, top.to, r3)
  <2>1. ReadOne(b, engineId.to, top.to, integer, c2, r3)
    BY ZenonT(40), <1>1, <1>2, <1>6, <1>10, PlainRead DEF r2
  <2> QED BY SMTT(30), <1>1, <1>2, <2>1 DEF ReadOne, IsOnly
<1> HIDE DEF boots
<1>12. IsElement(b, boots.to, top.to, integer) /\ Fills(b, time.to, top.to, r4)
  <2>1. ReadOne(b, boots.to, top.to, integer, c3, r4)
    BY ZenonT(40), <1>1, <1>2, <1>6, <1>11, PlainRead DEF r3
  <2> QED BY SMTT(30), <1>1, <1>2, <2>1 DEF ReadOne, IsOnly
<1> HIDE DEF time
<1>13. IsElement(b, time.to, top.to, octetString) /\ Fills(b, userName.to, top.to, r5)
  BY SMTT(30), <1>1, <1>2, <1>6, <1>12, PlainRead DEF r4, ReadOne, IsOnly
<1> HIDE DEF userName
<1>14. /\ IsElement(b, userName.to, top.to, octetString)
       /\ Fills(b, authParams.from, authParams.to, d) /\ Fills(b, authParams.to, top.to, r6)
  BY <1>1, <1>3, <1>4, <1>13, NextRead DEF r5, ReadOne, IsOnly
<1> HIDE DEF authParams
<1>15. IsElement(b, authParams.to, top.to, octetString) /\ Fills(b, privParams.to, top.to, x)
  <2> QED BY Zenon, <1>1, <1>2, <1>4, <1>14, PlainRead DEF ReadOne, IsOnly, r6
<1> HIDE DEF privParams
<1>16. privParams.to = top.to <=> ~extra
  BY ZenonT(40), <1>15, NothingLeft DEF x, Seventh
<1>17. Usm(b) = IF ~extra THEN [ok |-> TRUE, userName |-> userName, authParams |-> authParams]
                ELSE [ok |-> FALSE]
  BY ZenonT(40), <1>9, <1>10, <1>11, <1>12, <1>13, <1>14, <1>15, <1>16 DEF Usm, top, engineId,
     boots, time, userName, authParams, privParams
<1> QED BY <1>4, <1>9, <1>14, <1>17 DEF b, u, UsmReads

\* An element with one octet of content.
LEMMA OneOctet ==
    ASSUME NEW b, NEW x, NEW v, Fills(b, x.from, x.to, <<v>>)
    PROVE  x.to - x.from = 1 /\ b[x.to] = v /\ (v = 3 => IsThree(b, x))
<1> DEFINE f == x.from
           l == x.to
<1>1. f \in Nat /\ f + 1 = l /\ b[f + 1] = v
  BY DEF Fills, Holds
<1> HIDE DEF f, l
<1>2. l - f = 1 /\ b[l] = v /\ \A i \in (f + 1)..(l - 1) : FALSE
  BY SMTT(30), <1>1
<1> QED BY Zenon, <1>2 DEF IsThree, f, l

\* The header of a message of this level, in an extent that it fills.
HeaderReads(b, x, m) ==
    /\ Header(b, x).ok <=> m.level # 2
    /\ m.level # 2 => Header(b, x).level = m.level

HeaderContent(m) ==
    Tlv(integer, Content(3)) \o Tlv(integer, Content(3))
        \o Tlv(octetString, <<m.level + 4>>) \o Tlv(integer, <<3>>)

\* How long the header is at most.
LEMMA HeaderWritten ==
    ASSUME NEW m, Sized(m)
    PROVE  HeaderContent(m) \in Octets /\ Short(Len(HeaderContent(m)))
<1> DEFINE i3 == Tlv(integer, Content(3))
           fl == Tlv(octetString, <<m.level + 4>>)
           th == Tlv(integer, <<3>>)
<1>1. integer \in 0..255 /\ octetString \in 0..255
  BY DEF integer, octetString
<1>2. i3 \in Octets /\ Len(i3) <= 3 + 6 /\ fl \in Octets /\ Len(fl) <= 1 + 6
      /\ th \in Octets /\ Len(th) <= 1 + 6
  BY Zenon, <1>1, FieldsShort, TlvSized
<1>3. HeaderContent(m) = ((i3 \o i3) \o fl) \o th
  BY Zenon DEF HeaderContent
<1> HIDE DEF i3, fl, th
<1>4. i3 \o i3 \in Octets /\ Len(i3 \o i3) <= 9 + 9
  BY <1>2, JoinedSized
<1>5. (i3 \o i3) \o fl \in Octets /\ Len((i3 \o i3) \o fl) <= 18 + 7
  BY SMTT(30), <1>2, <1>4, JoinedSized
<1>6. /\ HeaderContent(m) \in Octets /\ Len(HeaderContent(m)) \in Nat
      /\ Len(HeaderContent(m)) <= 25 + 7
  BY SMTT(30), <1>2, <1>3, <1>5, JoinedSized
<1> QED BY <1>6, MostIsShort

\* The header is read back, and refused exactly for the flags that are no level.
LEMMA HeaderRead ==
    ASSUME NEW m, Sized(m), NEW b, NEW x, Fills(b, x.from, x.to, HeaderContent(m))
    PROVE  HeaderReads(b, x, m)
<1> DEFINE c3 == Content(3)
           fl == <<m.level + 4>>
           th == <<3>>
           r4 == Tlv(integer, th) \o <<>>
           r3 == Tlv(octetString, fl) \o r4
           r2 == Tlv(integer, c3) \o r3
           r1 == Tlv(integer, c3) \o r2
           msgId == Element(b, x.from, x.to)
           maxSize == Element(b, msgId.to, x.to)
           flags == Element(b, maxSize.to, x.to)
           model == Element(b, flags.to, x.to)
<1>1. /\ integer \in {integer, octetString, sequence} /\ octetString \in {integer, octetString, sequence}
      /\ integer \in 0..255 /\ octetString \in 0..255 /\ octetString # integer
  BY SMTT(30) DEF integer, octetString, sequence
<1>2. /\ c3 \in Octets /\ Short(Len(c3)) /\ Len(c3) = 3
      /\ fl \in Octets /\ Short(Len(fl)) /\ Len(fl) = 1
      /\ th \in Octets /\ Short(Len(th)) /\ Len(th) = 1 /\ <<>> \in Octets
  BY FieldsShort DEF Octets
<1>3. /\ Tlv(integer, c3) \in Octets /\ Tlv(octetString, fl) \in Octets /\ Tlv(integer, th) \in Octets
  BY ZenonT(40), <1>1, <1>2, TlvSized
<1>4. HeaderContent(m) = r1 /\ r4 \in Octets /\ r3 \in Octets /\ r2 \in Octets
  <2>1. r4 = Tlv(integer, th)
    BY SMTT(30), <1>3, ConcatEmptySeq DEF Octets
  <2>2. r4 \in Octets
    BY Zenon, <1>3, <2>1
  <2>3. HeaderContent(m) = ((Tlv(integer, c3) \o Tlv(integer, c3)) \o Tlv(octetString, fl)) \o r4
    BY Zenon, <2>1 DEF HeaderContent
  <2> HIDE DEF r4, c3, fl
  <2>4. FourToo(Tlv(integer, c3), Tlv(integer, c3), Tlv(octetString, fl), r4)
    BY Zenon, <1>3, <2>2, FourFromTheRight
  <2> QED BY Zenon, <2>2, <2>3, <2>4 DEF FourToo
<1>5. Fills(b, x.from, x.to, r1)
  BY Zenon, <1>4
<1> HIDE DEF c3, fl, th, r2, r3, r4
<1>6. IsElement(b, x.from, x.to, integer) /\ Fills(b, msgId.to, x.to, r2)
  <2>1. ReadOne(b, x.from, x.to, integer, c3, r2)
    BY ZenonT(40), <1>1, <1>2, <1>4, <1>5, PlainRead
  <2> QED BY SMTT(30), <1>1, <1>2, <2>1 DEF ReadOne, IsOnly
<1> HIDE DEF msgId, r1
<1>7. IsElement(b, msgId.to, x.to, integer) /\ Fills(b, maxSize.to, x.to, r3)
  <2>1. ReadOne(b, msgId.to, x.to, integer, c3, r3)
    BY ZenonT(40), <1>1, <1>2, <1>4, <1>6, PlainRead DEF r2
  <2> QED BY SMTT(30), <1>1, <1>2, <2>1 DEF ReadOne, IsOnly
<1> HIDE DEF maxSize
<1>8. /\ IsElement(b, maxSize.to, x.to, octetString) /\ Fills(b, flags.from, flags.to, fl)
      /\ Fills(b, flags.to, x.to, r4)
  <2> QED BY Zenon, <1>1, <1>2, <1>4, <1>7, PlainRead DEF ReadOne, IsOnly, r3
<1> HIDE DEF flags
<1>9. /\ IsElement(b, flags.to, x.to, integer) /\ Fills(b, model.from, model.to, th)
      /\ Fills(b, model.to, x.to, <<>>)
  <2>1. ReadOne(b, flags.to, x.to, integer, th, <<>>)
    BY ZenonT(40), <1>1, <1>2, <1>8, PlainRead DEF r4
  <2> QED BY SMTT(30), <1>1, <1>2, <2>1 DEF ReadOne, IsOnly
<1> HIDE DEF model
<1>10. flags.to - flags.from = 1 /\ b[flags.to] = m.level + 4
  BY SMTT(30), <1>8, OneOctet DEF fl
<1>11. IsThree(b, model)
  BY Zenon, <1>9, OneOctet DEF th
<1>12. model.to = x.to
  BY <1>9 DEF Fills, Holds
<1>13. securityLevelMask(b[flags.to]) = m.level
  BY <1>10 DEF Sized, securityLevelMask
<1>14. Header(b, x) = IF m.level # 2 THEN [ok |-> TRUE, level |-> m.level] ELSE [ok |-> FALSE]
  BY ZenonT(40), <1>6, <1>7, <1>8, <1>9, <1>10, <1>11, <1>12, <1>13 DEF Header, msgId, maxSize,
     flags, model
<1> QED BY SMTT(30), <1>14 DEF HeaderReads

\* No layer of a message is longer than four length octets can say.
LEMMA BodyShort ==
    ASSUME NEW m, Sized(m), NEW long \in BOOLEAN, NEW extra \in BOOLEAN,
           NEW d \in Octets, Len(d) <= 48, NEW y \in Octets, Len(y) <= Most + 6
    PROVE  LET u == Tlv(sequence, AgentUsm(m, long, extra, d))
               p == AgentTlv(long, octetString, u)
           IN  /\ u \in Octets /\ Short(Len(u)) /\ p \in Octets
               /\ (GlobalData(m) \o p) \o y \in Octets /\ Short(Len((GlobalData(m) \o p) \o y))
<1> DEFINE c == AgentUsm(m, long, extra, d)
           u == Tlv(sequence, c)
           p == AgentTlv(long, octetString, u)
           g == GlobalData(m)
<1>1. octetString \in 0..255 /\ sequence \in 0..255
  BY DEF octetString, sequence
<1>2. Most \in Nat /\ \A n \in Nat : n <= 3 * Most + 1000 => Short(n)
  BY Zenon, MostIsShort
<1>3. c \in Octets /\ Len(c) \in Nat /\ Len(c) <= 2 * Most + 112
  BY UsmWritten
<1>4. g \in Octets /\ Len(g) <= 60
  BY Zenon, PartsWritten
<1> HIDE DEF c, g
<1>5. u \in Octets /\ Len(u) \in Nat /\ Len(u) <= Len(c) + 6
  BY Zenon, <1>1, <1>3, TlvSized
<1>6. Len(u) <= 2 * Most + 118
  BY SMTT(30), <1>2, <1>3, <1>5
<1> HIDE DEF u
<1>7. p \in Octets /\ Len(p) \in (Len(u) + 2)..(Len(u) + 6)
  BY Zenon, <1>1, <1>5, AgentWritten
<1> HIDE DEF p
<1>9. g \o p \in Octets /\ Len(g \o p) <= 60 + (2 * Most + 124)
  BY SMTT(30), <1>2, <1>4, <1>5, <1>6, <1>7, JoinedSized
<1>10. /\ (g \o p) \o y \in Octets /\ Len((g \o p) \o y) \in Nat
       /\ Len((g \o p) \o y) <= (60 + (2 * Most + 124)) + (Most + 6)
  <2> DEFINE gp == g \o p
  <2>1. gp \in Octets /\ Len(gp) <= 60 + (2 * Most + 124)
    BY Zenon, <1>9
  <2> HIDE DEF gp
  <2>2. gp \o y \in Octets /\ Len(gp \o y) \in Nat /\ Len(gp \o y) <= (60 + (2 * Most + 124)) + (Most + 6)
    BY SMTT(30), <1>2, <2>1, JoinedSized
  <2> QED BY Zenon, <2>2 DEF gp
<1> QED BY <1>2, <1>5, <1>6, <1>7, <1>10 DEF u, c, p, g

\* What decodeV3Message() makes of a message for m with the digest d, and with a payload
\* with the tag t and n octets in all.
WholeReads(b, m, extra, d, t, n) ==
    /\ Decoded(b).error = "none" <=>
         m.level # 2 /\ ~extra /\ t = (IF IsEncrypted(m.level) THEN octetString ELSE sequence)
    /\ Decoded(b).error = "none" =>
         /\ Decoded(b).level = m.level
         /\ Decoded(b).authParams = d
         /\ Decoded(b).offset + Len(d) + Len(Behind(m, extra)) + n = Len(b)

\* authParamsOffset, counted from the end of the datagram.
LEMMA CountedBack ==
    ASSUME NEW pf \in Nat, NEW pt \in Nat, NEW df \in Nat, NEW dt \in Nat, NEW k \in Nat,
           NEW h \in Nat, NEW u \in Nat, NEW n \in Nat, NEW l \in Nat,
           pf + u = pt, pt + n = l, df + k = dt, dt + h = u
    PROVE  (pf + dt - (dt - df)) + k + h + n = l
OBVIOUS

\* decodeV3Message() reads back what either encoder writes.
LEMMA WholeRead ==
    ASSUME NEW m, Sized(m), NEW long \in BOOLEAN, NEW extra \in BOOLEAN,
           NEW d \in Octets, Len(d) <= 48, NEW t \in {octetString, sequence},
           NEW c \in Octets, Short(Len(c)), Len(Tlv(t, c)) <= Most + 6
    PROVE  WholeReads(AgentWhole(m, Tlv(t, c), long, extra, d), m, extra, d, t, Len(Tlv(t, c)))
<1> DEFINE y == Tlv(t, c)
           three == <<3>>
           hdr == HeaderContent(m)
           u == Tlv(sequence, AgentUsm(m, long, extra, d))
           p == AgentTlv(long, octetString, u)
           body == (GlobalData(m) \o p) \o y
           b == AgentWhole(m, Tlv(t, c), long, extra, d)
           r4 == y \o <<>>
           r3 == p \o r4
           r2 == Tlv(sequence, hdr) \o r3
           r1 == Tlv(integer, three) \o r2
           top == Element(b, 0, Len(b))
           version == Element(b, top.from, top.to)
           header == Element(b, version.to, top.to)
           params == Element(b, header.to, top.to)
           data == Element(b, params.to, top.to)
           sub == SubSeq(b, params.from + 1, params.to)
           usm == Usm(sub)
           want == IF IsEncrypted(m.level) THEN octetString ELSE sequence
<1>1. /\ integer \in {integer, octetString, sequence} /\ octetString \in {integer, octetString, sequence}
      /\ sequence \in {integer, octetString, sequence} /\ t \in {integer, octetString, sequence}
      /\ integer \in 0..255 /\ octetString \in 0..255 /\ sequence \in 0..255 /\ t \in 0..255
      /\ octetString # integer /\ sequence # integer /\ t # integer
  BY DEF integer, octetString, sequence
<1>2. y \in Octets /\ <<>> \in Octets
  <2>1. y \in Octets
    BY SMTT(30), <1>1, TlvSized
  <2> QED BY SMTT(30), <2>1 DEF Octets
<1>3. /\ u \in Octets /\ Short(Len(u)) /\ p \in Octets /\ body \in Octets /\ Short(Len(body))
  BY <1>2, BodyShort
<1>4. b = Tlv(sequence, body)
  BY Zenon DEF AgentWhole
<1>5. three \in Octets /\ Short(Len(three)) /\ Len(three) = 1 /\ Tlv(integer, three) \in Octets
  BY Zenon, <1>1, FieldsShort, TlvSized
<1>6. hdr \in Octets /\ Short(Len(hdr)) /\ Tlv(sequence, hdr) \in Octets
  BY ZenonT(40), <1>1, HeaderWritten, TlvSized
<1>7. body = r1 /\ r4 \in Octets /\ r3 \in Octets /\ r2 \in Octets
  <2>1. r4 = y
    BY SMTT(30), <1>2, ConcatEmptySeq DEF Octets
  <2>2. body = ((Tlv(integer, three) \o Tlv(sequence, hdr)) \o p) \o r4
    BY Zenon, <2>1 DEF GlobalData, HeaderContent
  <2>3. r4 \in Octets
    BY Zenon, <1>2, <2>1
  <2> HIDE DEF r4, p, hdr, three
  <2>4. FourToo(Tlv(integer, three), Tlv(sequence, hdr), p, r4)
    BY Zenon, <1>3, <1>5, <1>6, <2>3, FourFromTheRight
  <2> QED BY Zenon, <2>2, <2>3, <2>4 DEF FourToo
<1>8. b \in Octets
  BY ZenonT(40), <1>1, <1>3, <1>4, TlvSized
<1> HIDE DEF body, b, u, hdr, three, y
<1>9. /\ IsElement(b, 0, Len(b), sequence) /\ top.to = Len(b)
      /\ Fills(b, top.from, top.to, r1)
  <2>1. Fills(b, 0, Len(b), Tlv(sequence, body) \o <<>>)
    BY Zenon, <1>4, <1>8, FillsSelf
  <2>2. ReadOne(b, 0, Len(b), sequence, body, <<>>)
    BY ZenonT(40), <1>1, <1>2, <1>3, <2>1, PlainRead
  <2>3. /\ IsOnly(b, 0, Len(b), sequence, Len(body)) /\ Fills(b, top.from, top.to, body)
        /\ Fills(b, top.to, Len(b), <<>>)
    BY Zenon, <2>2 DEF ReadOne
  <2>4. top.to + 0 = Len(b) /\ top.to \in Nat
    BY Zenon, <2>3 DEF Fills, Holds
  <2> QED BY SMTT(30), <1>1, <1>7, <2>3, <2>4 DEF IsOnly
<1> HIDE DEF top, r2, r3, r4
<1>10. /\ IsElement(b, top.from, top.to, integer) /\ IsThree(b, version)
       /\ Fills(b, version.to, top.to, r2)
  <2>1. ReadOne(b, top.from, top.to, integer, three, r2)
    BY ZenonT(40), <1>1, <1>5, <1>7, <1>9, PlainRead
  <2>2. Fills(b, version.from, version.to, <<3>>)
    BY Zenon, <2>1 DEF ReadOne, three
  <2> HIDE DEF version
  <2>3. IsThree(b, version)
    BY Zenon, <2>2, OneOctet
  <2> QED BY SMTT(30), <1>1, <1>5, <2>1, <2>3 DEF ReadOne, IsOnly, version
<1> HIDE DEF version, r1
<1>11. /\ IsElement(b, version.to, top.to, sequence) /\ HeaderReads(b, header, m)
       /\ Fills(b, header.to, top.to, r3)
  <2>1. ReadOne(b, version.to, top.to, sequence, hdr, r3)
    BY SMTT(30), <1>1, <1>6, <1>7, <1>10, PlainRead DEF r2
  <2>2. Fills(b, header.from, header.to, hdr)
    BY Zenon, <2>1 DEF ReadOne
  <2> HIDE DEF header
  <2>3. HeaderReads(b, header, m)
    BY Zenon, <2>2, HeaderRead DEF hdr
  <2> QED BY SMTT(30), <1>1, <2>1, <2>3 DEF ReadOne, IsOnly, header
<1> HIDE DEF header
<1>12. /\ IsElement(b, header.to, top.to, octetString) /\ Fills(b, params.from, params.to, u)
       /\ Fills(b, params.to, top.to, r4)
  BY SMTT(30), <1>1, <1>3, <1>7, <1>11, NextRead DEF r3, ReadOne, IsOnly
<1> HIDE DEF params
<1>13. /\ \A tag : IsElement(b, params.to, top.to, tag) <=> tag = t
       /\ Fills(b, data.to, top.to, <<>>)
  <2>1. ReadOne(b, params.to, top.to, t, c, <<>>)
    BY ZenonT(40), <1>1, <1>2, <1>12, PlainRead DEF r4, y
  <2> QED BY SMTT(30), <1>1, <2>1 DEF ReadOne, IsOnly
<1> HIDE DEF data
<1>14. data.to = top.to
  BY <1>13 DEF Fills, Holds
<1>15. sub = u
  BY Zenon, <1>12, FilledIsCut
<1>16. UsmReads(u, m, extra, d)
  BY Zenon, UsmRead DEF u
<1> DEFINE ok == m.level # 2 /\ ~extra /\ t = want
           level == Header(b, header).level
           digest == usm.authParams
<1>17. Decoded(b) =
         IF /\ Header(b, header).ok /\ usm.ok /\ t = PayloadTag(level, b, params.to)
         THEN [error |-> "none", level |-> level,
               offset |-> DigestAt(params, usm.userName, digest),
               authParams |-> SubSeq(sub, digest.from + 1, digest.to)]
         ELSE [error |-> "malformed"]
  <2> HIDE DEF sub, usm
  <2> QED
    BY ZenonT(40), <1>9, <1>10, <1>11, <1>12, <1>13, <1>14 DEF Decoded, top, version, header,
       params, data, sub, usm
<1>18. /\ Header(b, header).ok <=> m.level # 2
       /\ m.level # 2 => level = m.level
       /\ usm.ok <=> ~extra
  BY Zenon, <1>11, <1>15, <1>16 DEF HeaderReads, UsmReads
<1>19. m.level # 2 => PayloadTag(level, b, params.to) = want
  BY Zenon, <1>18 DEF PayloadTag
<1>20. ~ok => Decoded(b).error = "malformed"
  BY SMTT(30), <1>17, <1>18, <1>19
<1> DEFINE off == DigestAt(params, usm.userName, digest)
           got == SubSeq(sub, digest.from + 1, digest.to)
<1>21. ASSUME ok
       PROVE  /\ Decoded(b).error = "none" /\ Decoded(b).level = m.level
              /\ Decoded(b).offset = off /\ Decoded(b).authParams = got
  <2>1. Decoded(b) = [error |-> "none", level |-> m.level, offset |-> off, authParams |-> got]
    BY Zenon, <1>17, <1>18, <1>19, <1>21
  <2> HIDE DEF off, got
  <2> QED BY SMTT(30), <2>1
<1>22. ASSUME ok
       PROVE  /\ Decoded(b).authParams = d
              /\ Decoded(b).offset + Len(d) + Len(Behind(m, extra)) + Len(y) = Len(b)
  <2>1. /\ Fills(u, digest.from, digest.to, d)
        /\ Fills(u, digest.to, Len(u), Behind(m, extra))
    BY Zenon, <1>15, <1>16, <1>22 DEF UsmReads
  <2>2. got = d
    <3>1. SubSeq(u, digest.from + 1, digest.to) = d
      BY Zenon, <2>1, FilledIsCut
    <3> QED BY ZenonT(40), <1>15, <3>1
  <2>3. r4 = y
    BY SMTT(30), <1>2, ConcatEmptySeq DEF Octets, r4
  <2> DEFINE pf == params.from
             pt == params.to
             df == digest.from
             dt == digest.to
             k == Len(d)
             h == Len(Behind(m, extra))
             ul == Len(u)
             n == Len(y)
             l == Len(b)
  <2>4. /\ pf \in Nat /\ pt \in Nat /\ df \in Nat /\ dt \in Nat
        /\ pf + ul = pt /\ pt + n = l /\ df + k = dt /\ dt + h = ul
    BY ZenonT(40), <1>9, <1>12, <2>1, <2>3 DEF Fills, Holds
  <2>5. k \in Nat /\ h \in Nat /\ ul \in Nat /\ n \in Nat /\ l \in Nat
    BY SMTT(30), <1>2, <1>3, <1>8, BehindWritten, LenProperties DEF Octets
  <2>6. Decoded(b).offset = pf + dt - (dt - df)
    BY Zenon, <1>21, <1>22 DEF DigestAt
  <2> HIDE DEF pf, pt, df, dt, k, h, ul, n, l
  <2>7. (pf + dt - (dt - df)) + k + h + n = l
    BY SMTT(30), <2>4, <2>5, CountedBack
  <2> QED BY ZenonT(40), <1>21, <1>22, <2>2, <2>6, <2>7 DEF k, h, n, l
<1> QED BY Zenon, <1>20, <1>21, <1>22 DEF b, y, WholeReads

\* The digest is as far from the end as the Reader finds it.
LEMMA PlaceFromEnd ==
    ASSUME NEW m, Sized(m), NEW payload \in Octets, NEW long \in BOOLEAN, NEW extra \in BOOLEAN,
           NEW d \in Octets, Len(d) <= 48
    PROVE  Place(m, payload, long, extra, d) + Len(d) + Len(Behind(m, extra)) + Len(payload)
             = Len(AgentWhole(m, payload, long, extra, d))
<1> DEFINE front == BeforeDigest(m)
           digest == AgentTlv(long, octetString, d)
           behind == Behind(m, extra)
           usm == AgentUsm(m, long, extra, d)
           top == Tlv(sequence, usm)
           params == AgentTlv(long, octetString, top)
           global == GlobalData(m)
           body == (global \o params) \o payload
           whole == Tlv(sequence, body)
<1>1. octetString \in 0..255 /\ sequence \in 0..255
  BY DEF octetString, sequence
<1>2. front \in Octets /\ behind \in Octets /\ global \in Octets
  BY Zenon, PartsWritten, BehindWritten
<1>3. digest \in Octets
  BY Zenon, <1>1, AgentWritten
<1>4. usm = (front \o digest) \o behind /\ AgentWhole(m, payload, long, extra, d) = whole
  BY Zenon DEF AgentUsm, AgentWhole, Behind
<1>5. Place(m, payload, long, extra, d) =
        (Len(whole) - Len(body))
          + (Len(global) + ((Len(params) - Len(top)) + ((Len(top) - Len(usm))
               + (Len(front) + ((Len(digest) - Len(d)) + 0)))))
  BY Zenon DEF Place
<1> HIDE DEF front, behind, global, digest
<1>6. usm \in Octets /\ Len(usm) = (Len(front) + Len(digest)) + Len(behind)
  BY SMTT(30), <1>2, <1>3, Joined, <1>4
<1> HIDE DEF usm
<1>7. top \in Octets
  BY SMTT(30), <1>1, <1>6, TlvSized
<1> HIDE DEF top
<1>8. params \in Octets
  BY ZenonT(40), <1>1, <1>7, AgentWritten
<1> HIDE DEF params
<1>9. body \in Octets /\ Len(body) = (Len(global) + Len(params)) + Len(payload)
  BY SMTT(30), <1>2, <1>8, Joined
<1> HIDE DEF body
<1>10. whole \in Octets
  BY SMTT(30), <1>1, <1>9, TlvSized
<1> HIDE DEF whole
<1>11. \A x \in Octets : Len(x) \in Nat
  BY SMTT(30), LenProperties DEF Octets
<1>14. Place(m, payload, long, extra, d) + Len(d) + Len(behind) + Len(payload) = Len(whole)
  BY SMTT(30), <1>2, <1>3, <1>5, <1>6, <1>7, <1>8, <1>9, <1>10, <1>11
<1> QED BY Zenon, <1>4, <1>14 DEF behind

\* With the digest blanked, what was sent is what was signed.
LEMMA BlankedIsOver ==
    ASSUME NEW over, NEW orig, NEW a, NEW w, Spliced(over, orig, a, w)
    PROVE  Blanked(orig, a, w) = over
<1> QED BY SMTT(30), LenProperties DEF Blanked, Overwritten, Octets, Blank, Spliced

-----------------------------------------------------------------------------
(* What arrives as it was sent.                                            *)

\* That is, for what the actions of the model send.
LEMMA SentRead ==
    ASSUME message \in Messages, NEW long \in BOOLEAN, NEW extra \in BOOLEAN, NEW level \in 0..3
    PROVE  LET m == Flagged(level)
               w == AuthWidth(message)
               sent == AgentWhole(m, MsgData(message), long, extra, Digest(w))
           IN  /\ WholeReads(sent, m, extra, Digest(w),
                             IF IsEncrypted(message.level) THEN octetString ELSE sequence,
                             Len(MsgData(message)))
               /\ Place(m, MsgData(message), long, extra, Digest(w)) + Len(Digest(w))
                    + Len(Behind(m, extra)) + Len(MsgData(message)) = Len(sent)
               /\ Len(Digest(w)) = w
<1> DEFINE m == Flagged(level)
           w == AuthWidth(message)
           d == Digest(w)
           t == IF IsEncrypted(message.level) THEN octetString ELSE sequence
           c == Content(message.scoped)
<1>1. Sized(message) /\ Sized(m) /\ w \in 0..48
  BY Zenon, MessageSized
<1>2. d \in Octets /\ Len(d) = w /\ w <= 48
  <2> HIDE DEF w
  <2>1. d \in Octets /\ Len(d) = w
    BY Zenon, <1>1, SplicedBare DEF Spliced
  <2> QED BY <1>1, <2>1
<1>3. t \in {octetString, sequence} /\ MsgData(message) = Tlv(t, c)
  BY Zenon DEF MsgData
<1>4. MsgData(message) \in Octets /\ Len(MsgData(message)) <= Most + 6
  BY Zenon, <1>1, PartsWritten
<1>5. c \in Octets /\ Short(Len(c))
  BY <1>1, MostIsShort, ContentWritten DEF Sized
<1> HIDE DEF m, d, t, c, w
<1>6. WholeReads(AgentWhole(m, Tlv(t, c), long, extra, d), m, extra, d, t, Len(Tlv(t, c)))
  BY SMTT(30), <1>1, <1>2, <1>3, <1>4, <1>5, WholeRead
<1> QED BY <1>1, <1>2, <1>3, <1>4, <1>6, PlaceFromEnd DEF m, d, t, w

\* Two places with the same behind them are the same.
LEMMA SameFromEnd ==
    ASSUME NEW x \in Nat, NEW y \in Nat, NEW w \in Nat, NEW h \in Nat, NEW n \in Nat, NEW l \in Nat,
           x + w + h + n = l, y + w + h + n = l
    PROVE  x = y
OBVIOUS

\* What arrives as it was sent is read as it was meant: where the digest is found, the
\* octets that were signed are found around it.
ReadAsSent ==
    LET size == Len(decoded.authParams)
    IN  /\ decoded.offset + size <= Len(datagram)
        /\ Blanked(datagram, decoded.offset, size) = signed.over
        /\ decoded.authParams = Digest(size)

\* Each message that arrives intact and is decoded.
LEMMA IntactIsRead ==
    ASSUME SentInv, pc \in {"decoded", "accepted", "rejected"}, intact
    PROVE  ReadAsSent /\ DecodedAsFlagged
<1>1. /\ decoded = Decoded(datagram) /\ decoded.error = "none" /\ message \in Messages
  BY Zenon DEF SentInv
<1>2. PICK long \in BOOLEAN, extra \in BOOLEAN, level \in 0..3 : SentAs(long, extra, level)
  BY Zenon DEF SentInv
<1> DEFINE m == Flagged(level)
           w == AuthWidth(message)
           sent == AgentWhole(m, MsgData(message), long, extra, Digest(w))
           over == AgentWhole(m, MsgData(message), long, extra, Blank(w))
           a == Place(m, MsgData(message), long, extra, Digest(w))
           t == IF IsEncrypted(message.level) THEN octetString ELSE sequence
           h == Len(Behind(m, extra))
           n == Len(MsgData(message))
<1>3. datagram = sent /\ signed.over = over /\ signed.extra = extra
  BY Zenon, <1>2 DEF SentAs
<1>4. Spliced(over, sent, a, w)
  BY Zenon, <1>1, SentSpliced
<1>5. /\ WholeReads(sent, m, extra, Digest(w), t, n)
      /\ a + Len(Digest(w)) + h + n = Len(sent) /\ Len(Digest(w)) = w
  BY ZenonT(40), <1>1, SentRead
<1>6. /\ m.level = level /\ Sized(m) /\ Sized(message)
  BY Zenon, <1>1, MessageSized
<1>7. h \in Nat /\ n \in Nat
  BY SMTT(30), <1>6, BehindWritten, PartsWritten, LenProperties DEF Octets
<1> HIDE DEF m, w, sent, over, a, t, h, n
<1>8. /\ decoded.level = level /\ decoded.authParams = Digest(w) /\ level # 2 /\ ~extra
      /\ t = (IF IsEncrypted(level) THEN octetString ELSE sequence)
      /\ decoded.offset + Len(Digest(w)) + h + n = Len(sent)
  BY Zenon, <1>1, <1>3, <1>5, <1>6 DEF WholeReads, h
<1>10. sent \in Octets /\ a \in Nat /\ w \in Nat /\ Len(sent) \in Nat
  BY SMTT(30), <1>4, LenProperties DEF Spliced, Octets
<1>11. decoded.offset \in Nat /\ decoded.offset + Len(decoded.authParams) <= Len(datagram)
  BY Zenon, <1>1, <1>3, <1>10, DigestWhereFound
<1>14. ReadAsSent
  BY SMTT(30), <1>3, <1>4, <1>5, <1>7, <1>8, <1>10, <1>11, SameFromEnd, BlankedIsOver DEF ReadAsSent
<1> QED BY <1>3, <1>8, <1>14 DEF DecodedAsFlagged, t, octetString, sequence

\* Hence verifyAuth() refuses none that was signed with its key.
LEMMA SentIsAccepted == SentInv => SignedIsAccepted
<1>1. ASSUME SentInv, pc = "rejected", intact, asked.ownKey,
             asked.width = Len(decoded.authParams), IsAuthenticated(decoded.level)
      PROVE  FALSE
  BY Zenon, <1>1, IntactIsRead DEF SentInv, ReadAsSent, Passes, DigestMatches
<1>2. ASSUME SentInv, pc = "dropped", intact
      PROVE  signed.by = "agent"
  <2>1. Decoded(datagram).error # "none" /\ message \in Messages
    BY Zenon, <1>2 DEF SentInv
  <2>2. PICK long \in BOOLEAN, extra \in BOOLEAN, level \in 0..3 : SentAs(long, extra, level)
    BY Zenon, <1>2 DEF SentInv
  <2> DEFINE m == Flagged(level)
             w == AuthWidth(message)
             sent == AgentWhole(m, MsgData(message), long, extra, Digest(w))
             t == IF IsEncrypted(message.level) THEN octetString ELSE sequence
  <2>3. /\ datagram = sent /\ signed.by \in {"client", "agent"}
        /\ signed.by = "client" => level = message.level /\ ~extra
    BY Zenon, <1>2, <2>2 DEF SentAs
  <2>4. WholeReads(sent, m, extra, Digest(w), t, Len(MsgData(message)))
    BY ZenonT(40), <2>1, SentRead
  <2>5. m.level = level /\ message.level \in {0, 1, 3}
    BY Zenon, <2>1, MessageSized
  <2> HIDE DEF m, sent
  <2>6. ~(level # 2 /\ ~extra /\ t = (IF IsEncrypted(level) THEN octetString ELSE sequence))
    BY Zenon, <2>1, <2>3, <2>4, <2>5 DEF WholeReads
  <2> QED BY SMTT(30), <2>3, <2>5, <2>6
<1> QED BY Zenon, <1>1, <1>2 DEF SignedIsAccepted

\* A message that arrives as it was signed is never refused by the holder of the key:
\* for every length of its parts, encodeV3Message() has put the digest where
\* decodeV3Message() finds it, and what it sends is never dropped as malformed.
THEOREM SignedWasAccepted == Spec => []SignedIsAccepted
<1>1. Init => SentInv
  BY Zenon, InitSent
<1>2. SentInv /\ [Next]_vars => SentInv'
  BY Zenon, NextSent
<1>3. SentInv => SignedIsAccepted
  BY Zenon, SentIsAccepted
<1> QED BY <1>1, <1>2, <1>3, PTL DEF Spec

\* What decodeV3Message() returns has the payload that its flags announce and no field
\* too many, whatever the lengths and the form in which they were written.
THEOREM ReadAsFlagged == Spec => []DecodedAsFlagged
<1>1. Init => SentInv
  BY Zenon, InitSent
<1>2. SentInv /\ [Next]_vars => SentInv'
  BY Zenon, NextSent
<1>3. SentInv => DecodedAsFlagged
  BY Zenon, IntactIsRead DEF DecodedAsFlagged
<1> QED BY <1>1, <1>2, <1>3, PTL DEF Spec
=============================================================================
