----------------------------- MODULE WalkProofs -----------------------------
(***************************************************************************)
(* The proofs about Walk, for every set of names, every base and every     *)
(* Agent: what is handed over is in order and of the Subtree, a Walk that  *)
(* says it is complete is, a signal is told of, and one batch at most is   *)
(* handed over once Stopping has begun.                                    *)
(***************************************************************************)
EXTENDS Walk, FiniteSetTheorems, SequenceTheorems, WellFoundedInduction, TLAPS

-----------------------------------------------------------------------------
(* Natural numbers.                                                        *)

\* A set of natural numbers that is not empty has a least element.
LEMMA LeastNatural ==
    ASSUME NEW T, T \subseteq Nat, T # {}
    PROVE  \E x \in T : \A y \in T : x <= y
<1> DEFINE R == {p \in Nat \X Nat : p[1] < p[2]}
<1>1. IsWellFoundedOn(R, Nat)
  BY Zenon, NatLessThanWellFounded DEF OpToRel
<1>2. \E x \in T : \A y \in T : ~(<<y, x>> \in R)
  <2> HIDE DEF R
  <2> QED
    BY ZenonT(40), <1>1, WFMin
<1>3. PICK x \in T : \A y \in T : ~(<<y, x>> \in R)
  BY Zenon, <1>2
<1>4. ASSUME NEW y \in T PROVE x <= y
  <2>1. x \in Nat /\ y \in Nat
    BY Zenon
  <2>2. ~(<<y, x>> \in R)
    BY Zenon, <1>3
  <2> QED
    BY <2>1, <2>2
<1> QED
  BY Zenon, <1>4

\* Induction, over a set in place of a predicate.
LEMMA Induction ==
    ASSUME NEW S, 0 \in S, \A n \in Nat : n \in S => n + 1 \in S
    PROVE  Nat \subseteq S
<1> SUFFICES ASSUME Nat \ S # {} PROVE FALSE
  BY Zenon
<1>1. PICK x \in Nat \ S : \A y \in Nat \ S : x <= y
  BY ZenonT(40), LeastNatural
<1>2. x # 0 /\ x - 1 \in Nat /\ x - 1 \in S
  BY <1>1
<1> QED
  BY <1>1, <1>2

-----------------------------------------------------------------------------
(* The order of names: Oid's operator<.                                    *)

LEMMA LessIrreflexive ==
    ASSUME NEW a \in Seq(Nat)
    PROVE  ~Less(a, a)
BY DEF Less

LEMMA LessTransitive ==
    ASSUME NEW a \in Seq(Nat), NEW b \in Seq(Nat), NEW c \in Seq(Nat), Less(a, b), Less(b, c)
    PROVE  Less(a, c)
<1>1. PICK n \in 0..Len(a) : /\ n < Len(b)
                             /\ \A i \in 1..n : a[i] = b[i]
                             /\ n = Len(a) \/ a[n + 1] < b[n + 1]
  BY Zenon DEF Less
<1>2. PICK m \in 0..Len(b) : /\ m < Len(c)
                             /\ \A i \in 1..m : b[i] = c[i]
                             /\ m = Len(b) \/ b[m + 1] < c[m + 1]
  BY Zenon DEF Less
<1>3. CASE n <= m
  <2>1. n < Len(c) /\ \A i \in 1..n : a[i] = c[i]
    BY <1>1, <1>2, <1>3
  <2>2. n = Len(a) \/ a[n + 1] < c[n + 1]
    <3>1. CASE n = m
      BY SMTT(30), <1>1, <1>2, <3>1
    <3>2. CASE n < m
      <4>1. b[n + 1] = c[n + 1]
        BY <1>2, <3>2
      <4> QED
        BY Zenon, <1>1, <4>1
    <3> QED
      BY <1>3, <3>1, <3>2
  <2> QED
    BY Zenon, <2>1, <2>2 DEF Less
<1>4. CASE m < n
  <2>1. m \in 0..Len(a) /\ m < Len(c) /\ \A i \in 1..m : a[i] = c[i]
    BY SMTT(30), <1>1, <1>2, <1>4
  <2>2. b[m + 1] < c[m + 1] /\ a[m + 1] = b[m + 1]
    BY <1>1, <1>2, <1>4
  <2> QED
    BY Zenon, <2>1, <2>2 DEF Less
<1> QED
  BY <1>3, <1>4

LEMMA LessTotal ==
    ASSUME NEW a \in Seq(Nat), NEW b \in Seq(Nat), ~Less(a, b), ~Less(b, a)
    PROVE  a = b
<1>1. ASSUME NEW k \in 1..Len(a), k <= Len(b), \A i \in 1..(k - 1) : a[i] = b[i]
      PROVE  a[k] = b[k]
  <2>1. k - 1 \in 0..Len(a) /\ k - 1 \in 0..Len(b) /\ k - 1 < Len(a) /\ k - 1 < Len(b) /\ (k - 1) + 1 = k
    BY <1>1
  <2>2. ~(a[k] < b[k])
    BY ZenonT(40), <1>1, <2>1 DEF Less
  <2>3. ~(b[k] < a[k])
    BY ZenonT(40), <1>1, <2>1 DEF Less
  <2>4. a[k] \in Nat /\ b[k] \in Nat
    BY <1>1
  <2> QED
    BY <2>2, <2>3, <2>4
<1>2. \A i \in 1..Len(a) : i <= Len(b) => a[i] = b[i]
  <2> DEFINE T == {i \in 1..Len(a) : i <= Len(b) /\ a[i] # b[i]}
  <2> SUFFICES ASSUME T # {} PROVE FALSE
    BY Zenon
  <2>1. PICK k \in T : \A i \in T : k <= i
    <3>1. T \subseteq Nat
      OBVIOUS
    <3> HIDE DEF T
    <3> QED
      BY ZenonT(40), <3>1, LeastNatural
  <2>2. \A i \in 1..(k - 1) : a[i] = b[i]
    <3> SUFFICES ASSUME NEW i \in 1..(k - 1), a[i] # b[i] PROVE FALSE
      BY Zenon
    <3>1. i \in T /\ i < k
      BY SMTT(30)
    <3> QED
      BY <2>1, <3>1
  <2> QED
    BY Zenon, <1>1, <2>2
<1>3. Len(a) = Len(b)
  <2>1. ~(Len(a) < Len(b))
    <3> SUFFICES ASSUME Len(a) < Len(b) PROVE Less(a, b)
      BY Zenon
    <3> QED
      BY SMTT(30), <1>2 DEF Less
  <2>2. ~(Len(b) < Len(a))
    <3> SUFFICES ASSUME Len(b) < Len(a) PROVE Less(b, a)
      BY Zenon
    <3>1. \A i \in 1..Len(b) : b[i] = a[i]
      BY <1>2
    <3>2. Len(b) \in 0..Len(b) /\ Len(b) < Len(a)
      OBVIOUS
    <3> QED
      BY Zenon, <3>1, <3>2 DEF Less
  <2> QED
    BY <2>1, <2>2
<1>4. \A i \in 1..Len(a) : a[i] = b[i]
  BY <1>2, <1>3
<1> QED
  BY Zenon, <1>3, <1>4, SeqEqual

\* The Subtree is convex: what lies between two of its names is of it.
LEMMA SubtreeConvex ==
    ASSUME NEW p \in Seq(Nat), NEW a \in Seq(Nat), NEW x \in Seq(Nat), NEW o \in Seq(Nat),
           IsPrefixOf(p, a), IsPrefixOf(p, o), Less(a, x), Less(x, o)
    PROVE  IsPrefixOf(p, x)
<1>1. PICK n \in 0..Len(a) : /\ n < Len(x)
                             /\ \A i \in 1..n : a[i] = x[i]
                             /\ n = Len(a) \/ a[n + 1] < x[n + 1]
  BY Zenon DEF Less
<1>2. PICK m \in 0..Len(x) : /\ m < Len(o)
                             /\ \A i \in 1..m : x[i] = o[i]
                             /\ m = Len(x) \/ x[m + 1] < o[m + 1]
  BY Zenon DEF Less
<1>0. /\ Len(p) \in Nat /\ Len(p) <= Len(a) /\ Len(p) <= Len(o)
      /\ \A i \in 1..Len(p) : p[i] = a[i] /\ p[i] = o[i] /\ p[i] \in Nat
  <2>1. Len(p) \in Nat /\ \A i \in 1..Len(p) : p[i] \in Nat
    OBVIOUS
  <2> QED
    BY Zenon, <2>1 DEF IsPrefixOf
<1>3. CASE n >= Len(p)
  BY <1>0, <1>1, <1>3 DEF IsPrefixOf
<1>4. CASE m >= Len(p)
  BY <1>0, <1>2, <1>4 DEF IsPrefixOf
<1>5. CASE n < Len(p) /\ m < Len(p)
  <2>0. n + 1 \in 1..Len(p) /\ m + 1 \in 1..Len(p) /\ n # Len(a)
    BY SMTT(30), <1>0, <1>5
  <2>1. p[n + 1] < x[n + 1] /\ p[n + 1] = o[n + 1] /\ p[n + 1] \in Nat
    BY Zenon, <1>0, <1>1, <2>0
  <2>2. m = Len(x) \/ x[m + 1] < p[m + 1]
    BY Zenon, <1>0, <1>2, <2>0
  <2>3. CASE n < m
    <3>1. x[n + 1] = o[n + 1]
      BY <1>2, <2>3
    <3> QED
      BY SMTT(30), <2>1, <3>1
  <2>4. CASE n = m
    <3>1. x[n + 1] \in Nat
      BY <1>1
    <3> QED
      BY SMTT(30), <1>1, <2>1, <2>2, <2>4, <3>1
  <2>5. CASE m < n
    <3>1. x[m + 1] = p[m + 1] /\ m < Len(x) /\ p[m + 1] \in Nat
      BY <1>0, <1>1, <2>0, <2>5
    <3> QED
      BY <2>2, <3>1
  <2> QED
    BY <2>3, <2>4, <2>5
<1> QED
  BY <1>3, <1>4, <1>5

\* Among finitely many names one has no other before it.
LEMMA FirstName ==
    ASSUME NEW S \in SUBSET Oids, S # {}
    PROVE  \E o \in S : \A p \in S : ~Less(p, o)
<1> DEFINE HasFirst(U) == \E o \in U : \A p \in U : ~Less(p, o)
           N == {n \in Nat : \A U \in SUBSET Oids : U # {} /\ Cardinality(U) = n => HasFirst(U)}
<1>0. \A U \in SUBSET Oids : IsFiniteSet(U) /\ Cardinality(U) \in Nat
  BY Zenon, WalkAssumption, FS_Subset, FS_CardinalityType
<1>1. 0 \in N
  BY Zenon, <1>0, FS_EmptySet
<1>2. ASSUME NEW n \in N PROVE n + 1 \in N
  <2> SUFFICES ASSUME NEW U \in SUBSET Oids, U # {}, Cardinality(U) = n + 1 PROVE HasFirst(U)
    OBVIOUS
  <2>1. PICK x \in U : TRUE
    BY Zenon
  <2> DEFINE V == U \ {x}
  <2>2. V \in SUBSET Oids /\ Cardinality(V) = n
    BY <1>0, FS_RemoveElement
  <2>3. CASE V = {}
    <3>1. U = {x} /\ x \in Seq(Nat)
      BY Zenon, <2>3, WalkAssumption
    <3> QED
      BY Zenon, <3>1, LessIrreflexive
  <2>4. CASE V # {}
    <3>1. PICK o \in V : \A p \in V : ~Less(p, o)
      BY Zenon, <2>2, <2>4
    <3>2. o \in Seq(Nat) /\ x \in Seq(Nat) /\ o \in U /\ \A p \in V : p \in Seq(Nat)
      BY Zenon, WalkAssumption
    <3>3. CASE Less(x, o)
      <4>1. ASSUME NEW p \in U PROVE ~Less(p, x)
        <5>1. CASE p = x
          BY Zenon, <3>2, <5>1, LessIrreflexive
        <5>2. CASE p \in V
          BY Zenon, <3>1, <3>2, <3>3, <5>2, LessTransitive
        <5> QED
          BY Zenon, <5>1, <5>2
      <4> QED
        BY Zenon, <4>1
    <3>4. CASE ~Less(x, o)
      BY Zenon, <3>1, <3>2, <3>4
    <3> QED
      BY Zenon, <3>3, <3>4
  <2> QED
    BY Zenon, <2>3, <2>4
<1>3. Nat \subseteq N
  <2> HIDE DEF N
  <2> QED
    BY Zenon, <1>1, <1>2, Induction
<1>4. Cardinality(S) \in N
  BY Zenon, <1>0, <1>3
<1> QED
  BY Zenon, <1>4

-----------------------------------------------------------------------------
(* Replies.                                                                *)

\* Whatever a reply holds, the scan stops somewhere: Taken is how many Varbinds it
\* takes until then.
LEMMA TakenCounts ==
    ASSUME NEW vbs \in Seq(Varbinds)
    PROVE  /\ Taken(vbs) \in 0..Len(vbs)
           /\ \A i \in 1..Taken(vbs) : ~Ends(vbs[i]) /\ ~Faulty(Before(vbs, i), vbs[i])
           /\ Taken(vbs) < Len(vbs) => \/ Ends(vbs[Taken(vbs) + 1])
                                       \/ Faulty(Before(vbs, Taken(vbs) + 1), vbs[Taken(vbs) + 1])
<1> DEFINE Stops(i) == Ends(vbs[i]) \/ Faulty(Before(vbs, i), vbs[i])
           T == {n \in 0..Len(vbs) : n < Len(vbs) => Stops(n + 1)}
<1>1. \E n \in T : \A m \in T : n <= m
  <2>1. Len(vbs) \in T /\ T \subseteq Nat
    OBVIOUS
  <2> HIDE DEF T
  <2> QED
    BY ZenonT(40), <2>1, LeastNatural
<1>2. PICK n \in T : \A m \in T : n <= m
  BY Zenon, <1>1
<1>3. ASSUME NEW i \in 1..n PROVE ~Stops(i)
  <2>1. i - 1 \in 0..Len(vbs) /\ i - 1 < n /\ (i - 1) + 1 = i
    OBVIOUS
  <2>2. i - 1 \notin T
    BY <1>2, <2>1
  <2> QED
    BY Zenon, <2>1, <2>2
<1>4. \E k \in 0..Len(vbs) : (\A i \in 1..k : ~Stops(i)) /\ (k < Len(vbs) => Stops(k + 1))
  BY Zenon, <1>3
<1> HIDE DEF Stops
<1>5. Taken(vbs) = CHOOSE k \in 0..Len(vbs) : /\ \A i \in 1..k : ~Stops(i)
                                              /\ k < Len(vbs) => Stops(k + 1)
  BY Zenon DEF Taken, Stops
<1>6. /\ Taken(vbs) \in 0..Len(vbs)
      /\ \A i \in 1..Taken(vbs) : ~Stops(i)
      /\ Taken(vbs) < Len(vbs) => Stops(Taken(vbs) + 1)
  BY Zenon, <1>4, <1>5
<1> QED
  BY Zenon, <1>6 DEF Stops

\* What an honest Agent has after a name is the next instance, or says that there is none.
LEMMA NextAfterIsNext ==
    ASSUME mib \subseteq Oids, NEW name \in Oids
    PROVE  /\ NextAfter[name] \in Varbinds
           /\ NextAfter[name].exception => \A o \in mib : ~Less(name, o)
           /\ ~NextAfter[name].exception =>
                /\ NextAfter[name].name \in mib
                /\ Less(name, NextAfter[name].name)
                /\ \A o \in mib : Less(name, o) => ~Less(o, NextAfter[name].name)
<1> DEFINE later == {o \in mib : Less(name, o)}
           first == CHOOSE o \in later : \A p \in later : ~Less(p, o)
<1>1. NextAfter[name] = IF later = {} THEN [name |-> name, exception |-> TRUE]
                        ELSE [name |-> first, exception |-> FALSE]
  BY Zenon DEF NextAfter
<1>2. CASE later = {}
  BY <1>1, <1>2 DEF Varbinds
<1>3. CASE later # {}
  <2>1. \E o \in later : \A p \in later : ~Less(p, o)
    <3>1. later \in SUBSET Oids
      BY Zenon
    <3> HIDE DEF later
    <3> QED
      BY Zenon, <1>3, <3>1, FirstName
  <2>2. first \in later /\ \A p \in later : ~Less(p, first)
    BY Zenon, <2>1
  <2> HIDE DEF first
  <2> QED
    BY <1>1, <1>3, <2>2 DEF Varbinds
<1> QED
  BY Zenon, <1>2, <1>3

\* An honest reply is well defined: each of its Varbinds is the next after the one before.
LEMMA HonestReplyIsNext ==
    ASSUME mib \subseteq Oids, current \in Oids, NEW n \in Nat
    PROVE  /\ HonestReply(n) \in Seq(Varbinds)
           /\ Len(HonestReply(n)) = n
           /\ \A i \in 1..n : /\ Before(HonestReply(n), i) \in Oids
                              /\ HonestReply(n)[i] = NextAfter[Before(HonestReply(n), i)]
<1> DEFINE Solves(g, k) == g = [i \in 1..k |-> NextAfter[Before(g, i)]]
           N == {k \in Nat : \E g : Solves(g, k)}
<1>1. 0 \in N
  <2>1. Solves(<<>>, 0)
    OBVIOUS
  <2> QED
    BY ZenonT(40), <2>1
<1>2. ASSUME NEW k \in N PROVE k + 1 \in N
  <2>1. PICK g : Solves(g, k)
    BY Zenon
  <2> DEFINE h == [i \in 1..(k + 1) |-> IF i <= k THEN g[i] ELSE NextAfter[Before(g, i)]]
  <2>2. ASSUME NEW i \in 1..(k + 1) PROVE Before(h, i) = Before(g, i)
    BY DEF Before
  <2>3. ASSUME NEW i \in 1..(k + 1) PROVE h[i] = NextAfter[Before(h, i)]
    <3>1. CASE i <= k
      <4>1. h[i] = g[i] /\ i \in 1..k
        BY <3>1
      <4>2. g[i] = NextAfter[Before(g, i)]
        BY Zenon, <2>1, <4>1
      <4> QED
        BY Zenon, <2>2, <4>1, <4>2
    <3>2. CASE ~(i <= k)
      <4>1. h[i] = NextAfter[Before(g, i)]
        BY Zenon, <3>2
      <4> QED
        BY Zenon, <2>2, <4>1
    <3> QED
      BY Zenon, <3>1, <3>2
  <2>4. Solves(h, k + 1)
    <3>1. h = [i \in 1..(k + 1) |-> h[i]]
      BY Zenon
    <3> HIDE DEF h
    <3> QED
      BY Zenon, <2>3, <3>1
  <2> HIDE DEF h, Solves
  <2> QED
    BY <2>4
<1>3. n \in N
  <2> HIDE DEF N
  <2> QED
    BY Zenon, <1>1, <1>2, Induction
<1> DEFINE reply == HonestReply(n)
<1>4. reply = CHOOSE g : Solves(g, n)
  BY Zenon DEF HonestReply
<1>5. Solves(reply, n)
  <2> HIDE DEF Solves, reply
  <2>1. \E g : Solves(g, n)
    BY Zenon, <1>3
  <2> QED
    BY Zenon, <1>4, <2>1
<1> HIDE DEF reply
<1>6. \A i \in 1..n : reply[i] = NextAfter[Before(reply, i)]
  BY Zenon, <1>5
<1>7. \A i \in 1..n : Before(reply, i) \in Oids
  <2> DEFINE M == {k \in Nat : k + 1 \in 1..n => Before(reply, k + 1) \in Oids}
  <2>1. 0 \in M
    BY DEF Before
  <2>2. ASSUME NEW k \in M PROVE k + 1 \in M
    <3> SUFFICES ASSUME k + 2 \in 1..n PROVE Before(reply, k + 2) \in Oids
      OBVIOUS
    <3>1. k + 1 \in 1..n /\ Before(reply, k + 1) \in Oids
      OBVIOUS
    <3>2. reply[k + 1] \in Varbinds
      BY Zenon, <1>6, <3>1, NextAfterIsNext
    <3> QED
      BY <3>2 DEF Before, Varbinds
  <2>3. Nat \subseteq M
    <3> HIDE DEF M
    <3> QED
      BY Zenon, <2>1, <2>2, Induction
  <2>4. ASSUME NEW i \in 1..n PROVE Before(reply, i) \in Oids
    <3>1. i - 1 \in M /\ (i - 1) + 1 = i
      BY <2>3
    <3> QED
      BY Zenon, <3>1
  <2> QED
    BY Zenon, <2>4
<1>8. reply \in [1..n -> Varbinds]
  BY Zenon, <1>5, <1>6, <1>7, NextAfterIsNext
<1>9. reply \in Seq(Varbinds) /\ Len(reply) = n
  BY <1>8
<1> QED
  BY Zenon, <1>6, <1>7, <1>9 DEF reply

\* What a reply is, whoever sent it, and what an honest one holds.
LEMMA RepliesHold ==
    ASSUME TypeOK, NEW vbs \in Replies
    PROVE  /\ vbs \in Seq(Varbinds)
           /\ honest => \A i \in 1..Len(vbs) : /\ Before(vbs, i) \in Oids
                                               /\ vbs[i] = NextAfter[Before(vbs, i)]
<1>1. CASE honest
  <2>1. PICK n \in Nat : vbs = HonestReply(n)
    BY <1>1 DEF Replies
  <2> QED
    BY Zenon, <2>1, HonestReplyIsNext DEF TypeOK
<1>2. CASE ~honest
  <2>1. PICK n \in 0..MaxVarbinds : vbs \in [1..n -> Varbinds]
    BY Zenon, <1>2 DEF Replies
  <2> QED
    BY <1>2, <2>1, WalkAssumption
<1> QED
  BY Zenon, <1>1, <1>2

-----------------------------------------------------------------------------
(* What is handed over.                                                    *)

\* What was handed over is what the Agent has.
NoneInvented == \A i \in DOMAIN delivered : delivered[i] \in mib

\* No instance up to the last name was passed over.
NonePassed ==
    \A o \in mib : IsPrefixOf(Base, o) /\ Less(Base, o) /\ ~Less(current, o) =>
       \E i \in DOMAIN delivered : delivered[i] = o

\* No instance of the Subtree is left.
NoneLeft == \A o \in mib : IsPrefixOf(Base, o) => ~Less(current, o)

\* The invariant of an honest Agent's Walk.
Covered ==
    /\ result = "ok" => pc = "done"
    /\ honest => NoneInvented /\ NonePassed
    /\ honest /\ (result = "ok" \/ (pc = "handling" /\ done)) => NoneLeft

\* The names that the scan takes follow each other, and all follow the one asked from.
LEMMA TakenAscend ==
    ASSUME TypeOK, NEW vbs \in Seq(Varbinds)
    PROVE  /\ \A i \in 1..Taken(vbs) : /\ vbs[i].name \in Oids
                                       /\ IsPrefixOf(Base, vbs[i].name)
                                       /\ Less(current, vbs[i].name)
           /\ \A i, j \in 1..Taken(vbs) : i < j => Less(vbs[i].name, vbs[j].name)
<1> DEFINE n == Taken(vbs)
           Follows(j) == /\ Less(current, vbs[j].name)
                         /\ \A i \in 1..(j - 1) : Less(vbs[i].name, vbs[j].name)
           N == {k \in Nat : k + 1 \in 1..n => Follows(k + 1)}
<1>1. n \in 0..Len(vbs) /\ \A i \in 1..n : ~Ends(vbs[i]) /\ Less(Before(vbs, i), vbs[i].name)
  BY Zenon, TakenCounts DEF Faulty
<1>2. \A i \in 1..n : vbs[i].name \in Oids /\ vbs[i].name \in Seq(Nat) /\ IsPrefixOf(Base, vbs[i].name)
  <2> SUFFICES ASSUME NEW i \in 1..n
               PROVE  vbs[i].name \in Oids /\ vbs[i].name \in Seq(Nat) /\ IsPrefixOf(Base, vbs[i].name)
    BY Zenon
  <2>1. vbs[i] \in Varbinds
    BY <1>1
  <2>2. vbs[i].name \in Oids
    BY Zenon, <2>1 DEF Varbinds
  <2> QED
    BY Zenon, <1>1, <2>2, WalkAssumption DEF Ends
<1>3. current \in Seq(Nat)
  BY Zenon, WalkAssumption DEF TypeOK
<1> HIDE DEF n
<1>4. 0 \in N
  <2> SUFFICES ASSUME 1 \in 1..n PROVE Follows(1)
    OBVIOUS
  <2>1. Less(current, vbs[1].name)
    BY Zenon, <1>1 DEF Before
  <2> QED
    BY <2>1
<1>5. ASSUME NEW k \in N PROVE k + 1 \in N
  <2> SUFFICES ASSUME k + 2 \in 1..n PROVE Follows(k + 2)
    OBVIOUS
  <2>1. n \in Nat /\ k \in Nat /\ k + 1 \in 1..n /\ Follows(k + 1)
    BY <1>1
  <2>2. Less(vbs[k + 1].name, vbs[k + 2].name)
    BY <1>1, <2>1 DEF Before
  <2>3. vbs[k + 1].name \in Seq(Nat) /\ vbs[k + 2].name \in Seq(Nat)
    BY Zenon, <1>2, <2>1
  <2>4. Less(current, vbs[k + 2].name)
    BY Zenon, <1>3, <2>1, <2>2, <2>3, LessTransitive
  <2>5. ASSUME NEW i \in 1..(k + 1) PROVE Less(vbs[i].name, vbs[k + 2].name)
    <3>1. CASE i = k + 1
      BY Zenon, <2>2, <3>1
    <3>2. CASE i \in 1..k
      <4>1. Less(vbs[i].name, vbs[k + 1].name) /\ vbs[i].name \in Seq(Nat)
        BY <1>2, <2>1, <3>2
      <4> QED
        BY Zenon, <2>2, <2>3, <4>1, LessTransitive
    <3> QED
      BY <2>1, <3>1, <3>2
  <2>6. (k + 2) - 1 = k + 1
    BY <2>1
  <2> QED
    BY Zenon, <2>4, <2>5, <2>6
<1>6. Nat \subseteq N
  <2> HIDE DEF N
  <2> QED
    BY ZenonT(40), <1>4, <1>5, Induction
<1>7. ASSUME NEW j \in 1..n PROVE Follows(j)
  <2>1. j - 1 \in Nat /\ (j - 1) + 1 = j
    BY <1>1
  <2>2. j - 1 \in N
    BY ZenonT(40), <1>6, <2>1
  <2> QED
    BY Zenon, <2>1, <2>2
<1>8. \A i, j \in 1..n : i < j => Less(vbs[i].name, vbs[j].name)
  BY <1>1, <1>7
<1> QED
  BY Zenon, <1>2, <1>7, <1>8 DEF n

\* One batch is handed over.
Batch(vbs) ==
    /\ delivered' = delivered \o [i \in 1..Taken(vbs) |-> vbs[i].name]
    /\ current' = IF Taken(vbs) > 0 THEN vbs[Taken(vbs)].name ELSE current

\* What has been handed over is what had been, and the batch behind it.
LEMMA BatchAppends ==
    ASSUME TypeOK, NEW vbs \in Seq(Varbinds), Batch(vbs)
    PROVE  /\ Taken(vbs) \in Nat /\ Len(delivered) \in Nat
           /\ delivered' \in Seq(Oids)
           /\ current' \in Oids
           /\ DOMAIN delivered = 1..Len(delivered)
           /\ Len(delivered') = Len(delivered) + Taken(vbs)
           /\ DOMAIN delivered' = 1..(Len(delivered) + Taken(vbs))
           /\ \A i \in 1..Len(delivered) : delivered'[i] = delivered[i]
           /\ \A i \in 1..Taken(vbs) : delivered'[Len(delivered) + i] = vbs[i].name
           /\ delivered' = <<>> <=> Taken(vbs) = 0 /\ delivered = <<>>
<1> DEFINE n == Taken(vbs)
           names == [i \in 1..n |-> vbs[i].name]
<1>1. n \in Nat /\ \A i \in 1..n : vbs[i].name \in Oids
  BY TakenCounts, TakenAscend
<1> HIDE DEF n
<1>2. names \in Seq(Oids) /\ Len(names) = n /\ \A i \in 1..n : names[i] = vbs[i].name
  BY <1>1
<1>3. delivered \in Seq(Oids) /\ delivered' = delivered \o names
  BY Zenon DEF TypeOK, Batch, n
<1>4. current' \in Oids
  <2>1. current \in Oids /\ current' = IF n > 0 THEN vbs[n].name ELSE current
    BY Zenon DEF TypeOK, Batch, n
  <2> QED
    BY <1>1, <2>1
<1> HIDE DEF names
<1>5. /\ delivered' \in Seq(Oids)
      /\ Len(delivered) \in Nat
      /\ DOMAIN delivered = 1..Len(delivered)
      /\ Len(delivered') = Len(delivered) + n
      /\ DOMAIN delivered' = 1..(Len(delivered) + n)
      /\ \A i \in 1..Len(delivered) : delivered'[i] = delivered[i]
      /\ \A i \in 1..n : delivered'[Len(delivered) + i] = vbs[i].name
  <2>0. delivered \in Seq(Oids) /\ names \in Seq(Oids)
    BY Zenon, <1>2, <1>3
  <2>1. delivered' \in Seq(Oids) /\ Len(delivered) \in Nat /\ Len(delivered') = Len(delivered) + n
    <3>1. delivered \o names \in Seq(Oids)
      BY <2>0
    <3>2. Len(delivered \o names) = Len(delivered) + Len(names)
      BY <2>0
    <3> QED
      BY SMTT(30), <1>2, <1>3, <2>0, <3>1, <3>2
  <2>2. \A i \in 1..Len(delivered) : delivered'[i] = delivered[i]
    BY <1>2, <1>3
  <2>3. ASSUME NEW i \in 1..n PROVE delivered'[Len(delivered) + i] = names[i]
    BY <1>1, <1>2, <1>3, <2>1
  <2> QED
    BY SMTT(30), <1>1, <1>2, <1>3, <2>1, <2>2, <2>3
<1>6. delivered' = <<>> <=> n = 0 /\ delivered = <<>>
  <2>1. \A s \in Seq(Oids) : s = <<>> <=> Len(s) = 0
    OBVIOUS
  <2> QED
    BY <1>1, <1>3, <1>5, <2>1
<1> QED
  BY Zenon, <1>1, <1>4, <1>5, <1>6 DEF n

\* Nothing handed over so far is later than the name the next request asks from.
LEMMA LastIsLatest ==
    ASSUME TypeOK, DeliveredInOrder
    PROVE  /\ current \in Seq(Nat) /\ Base \in Seq(Nat)
           /\ IsPrefixOf(Base, current)
           /\ current = Base \/ Less(Base, current)
           /\ \A i \in DOMAIN delivered : delivered[i] = current \/ Less(delivered[i], current)
<1>1. current \in Seq(Nat) /\ Base \in Seq(Nat)
  BY Zenon, WalkAssumption DEF TypeOK
<1>2. CASE delivered = <<>>
  BY <1>1, <1>2 DEF DeliveredInOrder, IsPrefixOf
<1>3. CASE delivered # <<>>
  <2>1. Len(delivered) \in DOMAIN delivered /\ DOMAIN delivered = 1..Len(delivered)
    BY <1>3 DEF TypeOK
  <2>2. current = delivered[Len(delivered)]
    BY Zenon, <1>3 DEF DeliveredInOrder
  <2> QED
    BY SMTT(30), <1>1, <2>1, <2>2 DEF DeliveredInOrder
<1> QED
  BY Zenon, <1>2, <1>3

LEMMA BatchKeepsOrder ==
    ASSUME TypeOK, DeliveredInOrder, NEW vbs \in Seq(Varbinds), Batch(vbs), UNCHANGED maxRepetitions
    PROVE  DeliveredInOrder'
<1> DEFINE n == Taken(vbs)
           L == Len(delivered)
<1>1. /\ n \in Nat /\ L \in Nat
      /\ DOMAIN delivered = 1..L
      /\ Len(delivered') = L + n
      /\ DOMAIN delivered' = 1..(L + n)
      /\ \A i \in 1..L : delivered'[i] = delivered[i]
      /\ \A i \in 1..n : delivered'[L + i] = vbs[i].name
      /\ delivered' = <<>> <=> n = 0 /\ delivered = <<>>
  BY Zenon, BatchAppends
<1>2. /\ \A i \in 1..n : /\ vbs[i].name \in Seq(Nat)
                         /\ IsPrefixOf(Base, vbs[i].name)
                         /\ Less(current, vbs[i].name)
      /\ \A i, j \in 1..n : i < j => Less(vbs[i].name, vbs[j].name)
  BY Zenon, TakenAscend, WalkAssumption
<1>3. \A i \in 1..L : delivered[i] \in Seq(Nat)
  BY WalkAssumption DEF TypeOK
<1>4. current' = IF n > 0 THEN vbs[n].name ELSE current
  BY Zenon DEF Batch
<1> HIDE DEF n, L
<1>5. ASSUME NEW i \in 1..(L + n), i > L
      PROVE  i - L \in 1..n /\ delivered'[i] = vbs[i - L].name
  <2>1. i - L \in 1..n /\ L + (i - L) = i
    BY <1>1, <1>5
  <2> QED
    BY Zenon, <1>1, <2>1
<1>6. ASSUME NEW i \in DOMAIN delivered' PROVE IsPrefixOf(Base, delivered'[i]) /\ Less(Base, delivered'[i])
  <2>1. CASE i <= L
    <3>1. i \in DOMAIN delivered /\ delivered'[i] = delivered[i]
      BY SMTT(30), <1>1, <2>1
    <3> QED
      BY Zenon, <3>1 DEF DeliveredInOrder
  <2>2. CASE i > L
    <3>1. i - L \in 1..n /\ delivered'[i] = vbs[i - L].name
      BY Zenon, <1>1, <1>5, <2>2
    <3> QED
      BY Zenon, <1>2, <3>1, LastIsLatest, LessTransitive
  <2> QED
    BY <1>1, <2>1, <2>2
<1>7. ASSUME NEW i \in DOMAIN delivered', NEW j \in DOMAIN delivered', i < j
      PROVE  Less(delivered'[i], delivered'[j])
  <2>1. CASE j <= L
    <3>1. /\ i \in DOMAIN delivered /\ delivered'[i] = delivered[i]
          /\ j \in DOMAIN delivered /\ delivered'[j] = delivered[j]
      BY SMTT(30), <1>1, <1>7, <2>1
    <3> QED
      BY Zenon, <1>7, <3>1 DEF DeliveredInOrder
  <2>2. CASE i <= L /\ j > L
    <3>1. i \in DOMAIN delivered /\ delivered'[i] = delivered[i] /\ delivered[i] \in Seq(Nat)
      BY <1>1, <1>3, <2>2
    <3>2. j - L \in 1..n /\ delivered'[j] = vbs[j - L].name
      BY Zenon, <1>1, <1>5, <2>2
    <3>3. vbs[j - L].name \in Seq(Nat) /\ Less(current, vbs[j - L].name)
      BY Zenon, <1>2, <3>2
    <3> QED
      BY Zenon, <3>1, <3>2, <3>3, LastIsLatest, LessTransitive
  <2>3. CASE i > L
    <3>1. i - L \in 1..n /\ delivered'[i] = vbs[i - L].name
      BY Zenon, <1>1, <1>5, <2>3
    <3>2. j - L \in 1..n /\ delivered'[j] = vbs[j - L].name
      BY <1>1, <1>5, <1>7, <2>3
    <3> QED
      BY SMTT(30), <1>1, <1>2, <1>7, <3>1, <3>2
  <2> QED
    BY SMTT(30), <1>1, <2>1, <2>2, <2>3
<1>8. current' = IF delivered' = <<>> THEN Base ELSE delivered'[Len(delivered')]
  <2>1. CASE n > 0
    <3>1. n \in 1..n /\ delivered'[L + n] = vbs[n].name
      BY <1>1, <2>1
    <3> QED
      BY <1>1, <1>4, <2>1, <3>1
  <2>2. CASE n = 0
    <3>1. current' = current /\ Len(delivered') = L
      BY <1>1, <1>4, <2>2
    <3>2. current = IF delivered = <<>> THEN Base ELSE delivered[L]
      BY Zenon DEF DeliveredInOrder, L
    <3>3. delivered # <<>> => L \in 1..L
      BY <1>1 DEF L, TypeOK
    <3> QED
      BY Zenon, <1>1, <2>2, <3>1, <3>2, <3>3
  <2> QED
    BY <1>1, <2>1, <2>2
<1>9. maxRepetitions' >= 1 \/ maxRepetitions' = MaxRepetitions
  BY Zenon DEF DeliveredInOrder
<1> QED
  BY Zenon, <1>6, <1>7, <1>8, <1>9 DEF DeliveredInOrder

\* Of an honest Agent no instance up to the end of the batch is passed over.
LEMMA BatchCovers ==
    ASSUME TypeOK, DeliveredInOrder, Covered, honest, NEW vbs \in Replies, Batch(vbs),
           UNCHANGED agent
    PROVE  NoneInvented' /\ NonePassed'
<1> DEFINE n == Taken(vbs)
           L == Len(delivered)
<1>0. vbs \in Seq(Varbinds)
  BY Zenon, RepliesHold
<1>1. /\ n \in Nat /\ L \in Nat
      /\ DOMAIN delivered = 1..L
      /\ DOMAIN delivered' = 1..(L + n)
      /\ \A i \in 1..L : delivered'[i] = delivered[i]
      /\ \A i \in 1..n : delivered'[L + i] = vbs[i].name
  BY Zenon, <1>0, BatchAppends
<1>2. n \in 0..Len(vbs) /\ \A i \in 1..n : ~vbs[i].exception
  BY Zenon, <1>0, TakenCounts DEF Ends
<1>3. current' = IF n > 0 THEN vbs[n].name ELSE current
  BY Zenon DEF Batch
<1>4. mib' = mib /\ mib \subseteq Oids /\ mib \subseteq Seq(Nat) /\ current \in Seq(Nat)
  BY Zenon, WalkAssumption DEF TypeOK, agent
<1> HIDE DEF n, L
<1>5. ASSUME NEW i \in 1..n
      PROVE  /\ vbs[i].name \in mib
             /\ \A o \in mib : Less(Before(vbs, i), o) => ~Less(o, vbs[i].name)
  <2>1. i \in 1..Len(vbs) /\ ~vbs[i].exception
    BY <1>2
  <2>2. Before(vbs, i) \in Oids /\ vbs[i] = NextAfter[Before(vbs, i)]
    BY Zenon, <2>1, RepliesHold
  <2> QED
    BY Zenon, <1>4, <2>1, <2>2, NextAfterIsNext
<1>6. ASSUME NEW i \in DOMAIN delivered' PROVE delivered'[i] \in mib'
  <2>1. CASE i <= L
    BY <1>1, <1>4, <2>1 DEF Covered, NoneInvented
  <2>2. CASE i > L
    <3>1. i - L \in 1..n /\ L + (i - L) = i
      BY <1>1, <2>2
    <3>2. delivered'[i] = vbs[i - L].name
      BY Zenon, <1>1, <3>1
    <3> QED
      BY Zenon, <1>4, <1>5, <3>1, <3>2
  <2> QED
    BY <1>1, <2>1, <2>2
<1>7. ASSUME NEW o \in mib, IsPrefixOf(Base, o), Less(Base, o), ~Less(current', o)
      PROVE  \E i \in DOMAIN delivered' : delivered'[i] = o
  <2>1. CASE ~Less(current, o)
    <3>1. PICK i \in DOMAIN delivered : delivered[i] = o
      BY Zenon, <1>7, <2>1 DEF Covered, NonePassed
    <3>2. i \in DOMAIN delivered' /\ delivered'[i] = o
      BY <1>1, <3>1
    <3> QED
      BY Zenon, <3>2
  <2>2. CASE Less(current, o)
    <3>1. n > 0 /\ n \in 1..n /\ ~Less(vbs[n].name, o)
      BY <1>1, <1>3, <1>7, <2>2
    <3> DEFINE T == {i \in 1..n : ~Less(vbs[i].name, o)}
    <3>2. PICK i \in T : \A j \in T : i <= j
      <4>1. T \subseteq Nat /\ T # {}
        BY <3>1
      <4> HIDE DEF T
      <4> QED
        BY ZenonT(40), <4>1, LeastNatural
    <3>3. Less(Before(vbs, i), o)
      <4>1. CASE i = 1
        BY Zenon, <2>2, <4>1 DEF Before
      <4>2. CASE i # 1
        <5>1. i \in 1..n /\ i - 1 \in 1..n /\ ~(i <= i - 1)
          BY <1>1, <4>2
        <5>2. i - 1 \notin T
          BY Zenon, <3>2, <5>1
        <5> QED
          BY Zenon, <4>2, <5>1, <5>2 DEF Before
      <4> QED
        BY Zenon, <4>1, <4>2
    <3>4. ~Less(o, vbs[i].name) /\ ~Less(vbs[i].name, o) /\ vbs[i].name \in Seq(Nat)
      BY Zenon, <1>4, <1>5, <3>3
    <3>5. vbs[i].name = o
      BY Zenon, <1>4, <3>4, LessTotal
    <3>6. L + i \in DOMAIN delivered' /\ delivered'[L + i] = o
      BY <1>1, <3>5
    <3> QED
      BY Zenon, <3>6
  <2> QED
    BY Zenon, <2>1, <2>2
<1> QED
  BY Zenon, <1>4, <1>6, <1>7 DEF NoneInvented, NonePassed

\* Of an honest Agent nothing is left once a Varbind ends the Walk.
LEMMA DoneLeavesNone ==
    ASSUME TypeOK, DeliveredInOrder, honest, NEW vbs \in Replies, Batch(vbs), Done(vbs),
           UNCHANGED <<maxRepetitions, agent>>, TypeOK'
    PROVE  NoneLeft'
<1> DEFINE n == Taken(vbs)
           x == vbs[n + 1]
<1>0. vbs \in Seq(Varbinds)
  BY Zenon, RepliesHold
<1>1. n \in 0..Len(vbs) /\ n < Len(vbs) /\ Ends(x)
  BY Zenon, <1>0, TakenCounts DEF Done
<1>2. Before(vbs, n + 1) = current'
  <2>1. current' = IF n > 0 THEN vbs[n].name ELSE current
    BY Zenon DEF Batch
  <2> QED
    BY <1>1, <2>1 DEF Before
<1>3. Before(vbs, n + 1) \in Oids /\ x = NextAfter[Before(vbs, n + 1)]
  BY <1>1, RepliesHold
<1>4. mib' = mib /\ mib \subseteq Oids /\ mib \subseteq Seq(Nat) /\ Base \in Seq(Nat)
  BY Zenon, WalkAssumption DEF TypeOK, agent
<1>5. /\ x \in Varbinds
      /\ x.exception => \A o \in mib : ~Less(current', o)
      /\ ~x.exception => /\ x.name \in mib
                         /\ Less(current', x.name)
                         /\ \A o \in mib : Less(current', o) => ~Less(o, x.name)
  BY Zenon, <1>2, <1>3, <1>4, NextAfterIsNext
<1>6. DeliveredInOrder'
  BY Zenon, <1>0, BatchKeepsOrder
<1>7. current' \in Seq(Nat) /\ IsPrefixOf(Base, current')
  <2>1. (current \in Seq(Nat) /\ IsPrefixOf(Base, current))'
    BY <1>6, LastIsLatest, PTL
  <2> QED
    BY Zenon, <2>1
<1> HIDE DEF n, x
<1>8. ASSUME NEW o \in mib, IsPrefixOf(Base, o), Less(current', o) PROVE FALSE
  <2>1. ~x.exception /\ ~IsPrefixOf(Base, x.name)
    BY Zenon, <1>1, <1>5, <1>8 DEF Ends
  <2>2. Less(current', x.name) /\ ~Less(o, x.name) /\ x.name \in Seq(Nat) /\ o \in Seq(Nat)
    BY Zenon, <1>4, <1>5, <1>8, <2>1
  <2>3. Less(x.name, o)
    BY Zenon, <1>8, <2>1, <2>2, LessTotal
  <2> QED
    BY Zenon, <1>4, <1>7, <1>8, <2>1, <2>2, <2>3, SubtreeConvex
<1> QED
  BY Zenon, <1>4, <1>8 DEF NoneLeft

-----------------------------------------------------------------------------
(* Signals.                                                                *)

\* Re-seating loses no signal; a reply is used only where no terminal signal came; and a
\* Walk that is done says what its signals ask for.
SignalsKept ==
    /\ cancelled = signals \union emitted
    /\ "terminal" \in signals => pc \in {"waiting", "done"}
    /\ CancelledIsTold

\* What retry policies make of the codes a Walk may end with though it was sent a signal.
LEMMA ToldClasses ==
    \A code \in {"ok", "WalkIncomplete", "operation_aborted", "ClientStopped", "MissingVarbind",
                 "NonIncreasingOid"} : ClassOf(code) \in {"Ok", "Fatal"}
<1>1. ClassOf("ok") = "Ok"
  BY Zenon DEF ClassOf, Classify, ClassifyErrc
<1>2. ClassOf("operation_aborted") = "Fatal"
  BY Zenon DEF ClassOf, Classify, ClassifySystem
<1>3. ClassOf("WalkIncomplete") = "Fatal" /\ ClassOf("ClientStopped") = "Fatal"
  BY Zenon DEF ClassOf, Classify, ClassifyErrc
<1>4. ClassOf("MissingVarbind") = "Fatal" /\ ClassOf("NonIncreasingOid") = "Fatal"
  BY Zenon DEF ClassOf, Classify, ClassifyErrc
<1> QED
  BY Zenon, <1>1, <1>2, <1>3, <1>4

\* Every step of the specification is one of these, or changes nothing.
LEMMA NextCases ==
    ASSUME [Next]_vars
    PROVE  \/ Begin
           \/ Reply
           \/ RequestFails
           \/ AgentError
           \/ TooBig
           \/ Look
           \/ \E vbs \in Replies : Answer(vbs)
           \/ \E more \in BOOLEAN : HandlerReturns(more)
           \/ \E type \in {"terminal", "total"} : Signal(type)
           \/ Stop
           \/ UNCHANGED vars
BY Zenon DEF Next, Handle

\* The head of the loop keeps the signals, whoever comes to it.
LEMMA AskTells ==
    ASSUME TypeOK, SignalsKept, pc \notin {"waiting", "done"}, Ask, UNCHANGED <<signals, emitted>>
    PROVE  SignalsKept'
<1>1. CASE cancelled # {}
  <2>1. pc' = "done" /\ result' = StopCode /\ cancelled' = cancelled
    BY Zenon, <1>1 DEF Ask, Complete
  <2>2. StopCode \in {"operation_aborted", "WalkIncomplete"}
    BY Zenon DEF StopCode
  <2>3. ClassOf(result') \in {"Ok", "Fatal"}
    BY Zenon, <2>1, <2>2, ToldClasses
  <2>4. "terminal" \notin signals
    BY Zenon DEF SignalsKept
  <2> QED
    BY Zenon, <2>1, <2>3, <2>4 DEF SignalsKept, CancelledIsTold
<1>2. CASE cancelled = {}
  <2>1. signals' = {} /\ emitted' = {} /\ cancelled' = {} /\ signals' \union emitted' = {}
    BY Zenon, <1>2 DEF SignalsKept, Ask, Complete
  <2> QED
    BY Zenon, <2>1 DEF SignalsKept, CancelledIsTold
<1> QED
  BY Zenon, <1>1, <1>2

\* So does an end that no retry policy starts the Walk over for.
LEMMA CompleteTells ==
    ASSUME TypeOK, SignalsKept, pc \notin {"waiting", "done"}, UNCHANGED <<signals, emitted>>,
           NEW code \in {"ok", "WalkIncomplete", "ClientStopped", "MissingVarbind", "NonIncreasingOid"},
           Complete(code)
    PROVE  SignalsKept'
<1>1. pc' = "done" /\ UNCHANGED cancelled /\ ClassOf(result') \in {"Ok", "Fatal"}
  BY Zenon, ToldClasses DEF Complete
<1>2. "terminal" \notin signals
  BY Zenon DEF SignalsKept
<1> QED
  BY Zenon, <1>1, <1>2 DEF SignalsKept, CancelledIsTold

-----------------------------------------------------------------------------
(* Steps.                                                                  *)

\* What doWalk does with a reply: it drops it, or finds it holds nothing of the Subtree,
\* or hands a batch over.
LEMMA AnswerCases ==
    ASSUME TypeOK, NEW vbs \in Replies, Answer(vbs)
    PROVE  /\ pc = "looked"
           /\ UNCHANGED <<maxRepetitions, signals, emitted, stop, agent>>
           /\ \/ /\ UNCHANGED batch
                 /\ \E code \in {"MissingVarbind", "NonIncreasingOid"} : Complete(code)
              \/ /\ UNCHANGED batch
                 /\ Batch(vbs)
                 /\ Continue(Done(vbs))
              \/ /\ Batch(vbs)
                 /\ done' = Done(vbs)
                 /\ late' = IF stopping THEN late + 1 ELSE late
                 /\ pc' = "handling"
                 /\ UNCHANGED <<cancelled, result>>
<1> DEFINE n == Taken(vbs)
<1>1. vbs \in Seq(Varbinds)
  BY Zenon, RepliesHold
<1>2. n \in Nat
  BY <1>1, TakenCounts
<1>3. CASE n = 0
  <2>1. [i \in 1..n |-> vbs[i].name] = <<>> /\ ~(n > 0)
    BY <1>3
  <2>2. delivered \o <<>> = delivered
    BY DEF TypeOK
  <2>3. UNCHANGED <<current, delivered>> => Batch(vbs)
    BY Zenon, <2>1, <2>2 DEF Batch
  <2>4. UNCHANGED batch => Batch(vbs)
    BY Zenon, <2>3 DEF batch
  <2> QED
    BY ZenonT(40), <1>3, <2>4 DEF Answer
<1>4. CASE n # 0
  <2>1. n > 0
    BY <1>2, <1>4
  <2> QED
    BY ZenonT(40), <1>4, <2>1 DEF Answer, Batch
<1> QED
  BY Zenon, <1>3, <1>4

\* However it goes on, a Walk stays where it was or moves on to these.
LEMMA AskType ==
    ASSUME TypeOK, Ask
    PROVE  /\ pc' \in {"waiting", "done"}
           /\ cancelled' \subseteq {"terminal", "total"}
           /\ result' \in Codes \union {"none"}
           /\ result' = "ok" => result = "ok"
BY ZenonT(40) DEF TypeOK, Ask, Complete, StopCode, Codes

LEMMA ContinueType ==
    ASSUME TypeOK, NEW ended \in BOOLEAN, Continue(ended)
    PROVE  /\ pc' \in {"waiting", "done"}
           /\ cancelled' \subseteq {"terminal", "total"}
           /\ result' \in Codes \union {"none"}
           /\ result' = "ok" => (result = "ok" /\ Ask) \/ (ended /\ pc' = "done")
BY ZenonT(40), AskType DEF TypeOK, Continue, Complete, Codes

LEMMA TypeStep ==
    ASSUME TypeOK, [Next]_vars
    PROVE  TypeOK'
<1>1. CASE Begin
  BY Zenon, <1>1, AskType DEF TypeOK, Begin, PCs, stop, batch, agent
<1>2. CASE Reply
  BY Zenon, <1>2 DEF TypeOK, Reply, PCs, stop, batch, agent
<1>3. CASE RequestFails
  BY Zenon, <1>3 DEF TypeOK, RequestFails, Failed, StopCode, Complete, Codes, PCs, stop, batch, agent
<1>4. CASE AgentError
  BY Zenon, <1>4 DEF TypeOK, AgentError, Failed, StopCode, Complete, Codes, PCs, stop, batch, agent
<1>5. CASE TooBig
  <2>1. maxRepetitions' \in 1..MaxRepetitions
    BY <1>5, WalkAssumption DEF TypeOK, TooBig, MayHalve, Halved
  <2>2. UNCHANGED <<signals, emitted, stop, batch, agent>> /\ Ask
    BY Zenon, <1>5 DEF TooBig
  <2> QED
    BY Zenon, <2>1, <2>2, AskType DEF TypeOK, PCs, stop, batch, agent
<1>6. CASE Look
  BY Zenon, <1>6 DEF TypeOK, Look, Complete, Codes, PCs, stop, batch, agent
<1>7. ASSUME NEW vbs \in Replies, Answer(vbs) PROVE TypeOK'
  <2>1. UNCHANGED <<maxRepetitions, signals, emitted, stop, agent>>
    BY Zenon, <1>7, AnswerCases
  <2>2. Done(vbs) \in BOOLEAN
    BY Zenon DEF Done
  <2>3. /\ pc' \in {"waiting", "handling", "done"}
        /\ cancelled' \subseteq {"terminal", "total"}
        /\ result' \in Codes \union {"none"}
    BY ZenonT(40), <1>7, <2>2, AnswerCases, ContinueType DEF Complete, Codes, TypeOK
  <2>4. current' \in Oids /\ delivered' \in Seq(Oids)
    <3>1. CASE Batch(vbs)
      BY Zenon, <3>1, RepliesHold, BatchAppends
    <3>2. CASE UNCHANGED batch
      BY Zenon, <3>2 DEF TypeOK, batch
    <3> QED
      BY Zenon, <1>7, <3>1, <3>2, AnswerCases
  <2>5. late' \in {late, late + 1} /\ done' \in BOOLEAN
    BY Zenon, <1>7, <2>2, AnswerCases DEF TypeOK, batch
  <2>6. late' \in Nat
    BY <2>5 DEF TypeOK
  <2> QED
    BY Zenon, <2>1, <2>3, <2>4, <2>5, <2>6 DEF TypeOK, PCs, stop, agent
<1>8. ASSUME NEW more \in BOOLEAN, HandlerReturns(more) PROVE TypeOK'
  <2>1. /\ pc' \in {"waiting", "done"}
        /\ cancelled' \subseteq {"terminal", "total"}
        /\ result' \in Codes \union {"none"}
    BY ZenonT(40), <1>8, ContinueType DEF HandlerReturns, Complete, Codes, TypeOK
  <2> QED
    BY Zenon, <1>8, <2>1 DEF TypeOK, HandlerReturns, PCs, stop, batch, agent
<1>9. ASSUME NEW type \in {"terminal", "total"}, Signal(type) PROVE TypeOK'
  BY ZenonT(40), <1>9 DEF TypeOK, Signal, stop, batch, agent
<1>10. CASE Stop
  BY Zenon, <1>10 DEF TypeOK, Stop, PCs, batch, agent
<1>11. CASE UNCHANGED vars
  BY Zenon, <1>11 DEF TypeOK, vars, stop, batch, agent
<1> QED
  BY Zenon, <1>1, <1>2, <1>3, <1>4, <1>5, <1>6, <1>7, <1>8, <1>9, <1>10, <1>11, NextCases

LEMMA OrderStep ==
    ASSUME TypeOK, DeliveredInOrder, [Next]_vars
    PROVE  DeliveredInOrder'
<1>1. CASE UNCHANGED <<batch, maxRepetitions>>
  BY Zenon, <1>1 DEF DeliveredInOrder, batch
<1>2. CASE TooBig
  <2>1. maxRepetitions' >= 1
    BY <1>2, WalkAssumption DEF TypeOK, TooBig, MayHalve, Halved
  <2>2. UNCHANGED <<current, delivered>>
    BY Zenon, <1>2 DEF TooBig, batch
  <2> QED
    BY Zenon, <2>1, <2>2 DEF DeliveredInOrder
<1>3. ASSUME NEW vbs \in Replies, Answer(vbs), ~UNCHANGED batch
      PROVE  DeliveredInOrder'
  <2>1. Batch(vbs) /\ UNCHANGED maxRepetitions
    BY Zenon, <1>3, AnswerCases
  <2> QED
    BY Zenon, <2>1, RepliesHold, BatchKeepsOrder
<1>4. ASSUME NEW vbs \in Replies, Answer(vbs)
      PROVE  UNCHANGED maxRepetitions
  BY Zenon, <1>4, AnswerCases
<1> QED
  BY ZenonT(40), <1>1, <1>2, <1>3, <1>4, NextCases
     DEF Begin, Reply, RequestFails, AgentError, Look, HandlerReturns, Signal, Stop, vars

LEMMA CoveredStep ==
    ASSUME TypeOK, TypeOK', DeliveredInOrder, Covered, [Next]_vars
    PROVE  Covered'
<1>1. ASSUME UNCHANGED <<batch, agent>>, result' = "ok" => result = "ok" /\ pc' = "done",
             pc' = "handling" => pc = "handling"
      PROVE  Covered'
  BY Zenon, <1>1 DEF Covered, NoneInvented, NonePassed, NoneLeft, batch, agent
<1>2. ASSUME NEW vbs \in Replies, Answer(vbs) PROVE Covered'
  <2>0. /\ pc # "done" /\ result # "ok" /\ UNCHANGED agent
        /\ Done(vbs) \in BOOLEAN
    BY Zenon, <1>2, AnswerCases DEF Covered, Done
  <2>1. CASE UNCHANGED batch /\ \E code \in {"MissingVarbind", "NonIncreasingOid"} : Complete(code)
    BY Zenon, <1>1, <2>0, <2>1 DEF Complete
  <2>2. CASE UNCHANGED batch /\ Batch(vbs) /\ Continue(Done(vbs))
    <3>1. pc' \in {"waiting", "done"} /\ (result' = "ok" => Done(vbs) /\ pc' = "done")
      BY Zenon, <2>0, <2>2, ContinueType
    <3>2. honest => NoneInvented' /\ NonePassed'
      BY Zenon, <1>2, <2>0, <2>2, BatchCovers
    <3>3. honest /\ Done(vbs) => NoneLeft'
      BY Zenon, <1>2, <2>0, <2>2, AnswerCases, DoneLeavesNone
    <3> QED
      BY Zenon, <2>0, <3>1, <3>2, <3>3 DEF Covered, agent
  <2>3. CASE Batch(vbs) /\ done' = Done(vbs) /\ pc' = "handling" /\ UNCHANGED <<cancelled, result>>
    <3>1. honest => NoneInvented' /\ NonePassed'
      BY Zenon, <1>2, <2>0, <2>3, BatchCovers
    <3>2. honest /\ Done(vbs) => NoneLeft'
      BY Zenon, <1>2, <2>0, <2>3, AnswerCases, DoneLeavesNone
    <3> QED
      BY Zenon, <2>0, <2>3, <3>1, <3>2 DEF Covered, agent
  <2> QED
    BY Zenon, <1>2, <2>1, <2>2, <2>3, AnswerCases
<1>3. CASE Begin \/ TooBig
  <2>1. Ask /\ UNCHANGED <<batch, agent>> /\ pc # "done"
    BY Zenon, <1>3 DEF Begin, TooBig
  <2> QED
    BY Zenon, <1>1, <2>1, AskType DEF Covered
<1>4. CASE RequestFails \/ AgentError \/ Look
  <2>1. result' # "ok" \/ UNCHANGED result
    BY Zenon, <1>4 DEF RequestFails, AgentError, Look, Failed, Complete, StopCode
  <2>2. UNCHANGED <<batch, agent>> /\ pc \in {"waiting", "replied"} /\ pc' \in {"looked", "done"}
    BY Zenon, <1>4 DEF RequestFails, AgentError, Look, Failed, Complete
  <2> QED
    BY Zenon, <1>1, <2>1, <2>2 DEF Covered
<1>5. ASSUME NEW more \in BOOLEAN, HandlerReturns(more) PROVE Covered'
  <2>1. pc = "handling" /\ result # "ok" /\ UNCHANGED <<batch, agent>> /\ done \in BOOLEAN
    BY Zenon, <1>5 DEF HandlerReturns, Covered, TypeOK
  <2>2. pc' \in {"waiting", "done"} /\ (result' = "ok" => done /\ pc' = "done")
    BY ZenonT(40), <1>5, <2>1, ContinueType DEF HandlerReturns, Complete
  <2> QED
    BY Zenon, <2>1, <2>2 DEF Covered, NoneInvented, NonePassed, NoneLeft, batch, agent
<1> QED
  BY ZenonT(40), <1>1, <1>2, <1>3, <1>4, <1>5, NextCases DEF Reply, Signal, Stop, vars, Covered

LEMMA SignalsStep ==
    ASSUME TypeOK, SignalsKept, [Next]_vars
    PROVE  SignalsKept'
<1>1. ASSUME Begin \/ TooBig PROVE SignalsKept'
  <2>1. Ask /\ UNCHANGED <<signals, emitted>> /\ pc \in {"idle", "replied"}
    BY Zenon, <1>1 DEF Begin, TooBig
  <2> QED
    BY Zenon, <2>1, AskTells
<1>2. ASSUME Reply PROVE SignalsKept'
  <2>1. /\ pc = "waiting" /\ pc' = "replied" /\ UNCHANGED <<cancelled, signals, emitted>>
        /\ "terminal" \notin cancelled
    BY Zenon, <1>2 DEF Reply
  <2> QED
    BY Zenon, <2>1 DEF SignalsKept, CancelledIsTold
<1>3. ASSUME NEW type \in {"terminal", "total"}, Signal(type) PROVE SignalsKept'
  <2>1. pc' = pc /\ pc \in {"waiting", "handling"} /\ cancelled' = signals' \union emitted'
    BY Zenon, <1>3 DEF Signal, SignalsKept
  <2>2. "terminal" \in signals' => pc' = "waiting"
    BY Zenon, <1>3 DEF Signal, SignalsKept
  <2>3. emitted' # {} => pc' = "handling"
    BY Zenon, <1>3 DEF Signal, SignalsKept, CancelledIsTold
  <2> QED
    BY Zenon, <2>1, <2>2, <2>3 DEF SignalsKept, CancelledIsTold
<1>4. ASSUME RequestFails \/ AgentError PROVE SignalsKept'
  <2>1. pc' = "done" /\ UNCHANGED <<signals, emitted, cancelled>>
    BY Zenon, <1>4 DEF RequestFails, AgentError, Failed, Complete
  <2>2. CASE cancelled = {}
    <3>1. signals' \union emitted' = {} /\ "terminal" \notin signals'
      BY Zenon, <2>1, <2>2 DEF SignalsKept
    <3> QED
      BY Zenon, <2>1, <3>1 DEF SignalsKept, CancelledIsTold
  <2>3. CASE cancelled # {}
    <3>1. result' = StopCode /\ StopCode \in {"operation_aborted", "WalkIncomplete"}
      BY Zenon, <1>4, <2>3 DEF RequestFails, AgentError, Failed, Complete, StopCode
    <3>2. ClassOf(result') \in {"Ok", "Fatal"}
      BY Zenon, <3>1, ToldClasses
    <3>3. "terminal" \in signals => result' = "operation_aborted"
      BY Zenon, <3>1 DEF SignalsKept, StopCode
    <3> QED
      BY Zenon, <2>1, <3>2, <3>3 DEF SignalsKept, CancelledIsTold
  <2> QED
    BY Zenon, <2>2, <2>3
<1>5. ASSUME Look PROVE SignalsKept'
  <2>1. pc = "replied" /\ UNCHANGED <<signals, emitted>>
    BY Zenon, <1>5 DEF Look
  <2>2. CASE Complete("ClientStopped")
    BY Zenon, <2>1, <2>2, CompleteTells
  <2>3. CASE pc' = "looked" /\ UNCHANGED <<cancelled, result>>
    BY Zenon, <2>1, <2>3 DEF SignalsKept, CancelledIsTold
  <2> QED
    BY Zenon, <1>5, <2>2, <2>3 DEF Look
<1>6. ASSUME NEW ended \in BOOLEAN, Continue(ended), pc \in {"looked", "handling"},
             UNCHANGED <<signals, emitted>>
      PROVE  SignalsKept'
  BY Zenon, <1>6, AskTells, CompleteTells DEF Continue
<1>7. ASSUME NEW vbs \in Replies, Answer(vbs) PROVE SignalsKept'
  <2>1. pc = "looked" /\ UNCHANGED <<signals, emitted>> /\ Done(vbs) \in BOOLEAN
    BY Zenon, <1>7, AnswerCases DEF Done
  <2>2. CASE pc' = "handling" /\ UNCHANGED <<cancelled, result>>
    BY Zenon, <2>1, <2>2 DEF SignalsKept, CancelledIsTold
  <2> QED
    BY Zenon, <1>6, <1>7, <2>1, <2>2, AnswerCases, CompleteTells
<1>8. ASSUME NEW more \in BOOLEAN, HandlerReturns(more) PROVE SignalsKept'
  <2>1. pc = "handling" /\ UNCHANGED <<signals, emitted>> /\ done \in BOOLEAN
    BY Zenon, <1>8 DEF HandlerReturns, TypeOK
  <2> QED
    BY Zenon, <1>6, <1>8, <2>1, CompleteTells DEF HandlerReturns
<1>9. ASSUME Stop \/ UNCHANGED vars PROVE SignalsKept'
  BY Zenon, <1>9 DEF SignalsKept, CancelledIsTold, Stop, vars
<1> QED
  BY Zenon, <1>1, <1>2, <1>3, <1>4, <1>5, <1>7, <1>8, <1>9, NextCases

\* A call of the handler that Stopping overtook can only be the one that was past the look
\* as the flag was set: until then none is late, and then it is the first.
RaceCounted ==
    /\ ~stopping => late = 0
    /\ stopping /\ pc = "looked" => stoppedAt = "looked" /\ late = 0
    /\ OneBatchRacesStop

LEMMA RaceStep ==
    ASSUME TypeOK, RaceCounted, [Next]_vars
    PROVE  RaceCounted'
<1>1. ASSUME UNCHANGED <<stop, late>>, pc' = "looked" => pc = "looked" \/ ~stopping
      PROVE  RaceCounted'
  BY Zenon, <1>1 DEF RaceCounted, OneBatchRacesStop, stop
<1>2. CASE Look
  BY Zenon, <1>1, <1>2 DEF Look, Discards, Complete, batch
<1>3. CASE Stop
  <2>1. late = 0 /\ late' = 0 /\ stopping' /\ stoppedAt' = pc /\ pc' = pc
    BY Zenon, <1>3 DEF Stop, RaceCounted, batch
  <2>2. late' <= IF stoppedAt' = "looked" THEN 1 ELSE 0
    BY <2>1
  <2> QED
    BY Zenon, <2>1, <2>2 DEF RaceCounted, OneBatchRacesStop
<1>4. ASSUME NEW vbs \in Replies, Answer(vbs) PROVE RaceCounted'
  <2>1. pc = "looked" /\ UNCHANGED stop /\ Done(vbs) \in BOOLEAN
    BY Zenon, <1>4, AnswerCases DEF Done
  <2>2. pc' # "looked"
    BY Zenon, <1>4, <2>1, AnswerCases, ContinueType DEF Complete
  <2>3. CASE UNCHANGED late
    BY Zenon, <1>1, <2>1, <2>2, <2>3
  <2>4. CASE stopping /\ late' = late + 1
    <3>1. stoppedAt' = "looked" /\ late' = 1
      BY <2>1, <2>4 DEF RaceCounted, stop
    <3>2. late' <= IF stoppedAt' = "looked" THEN 1 ELSE 0
      BY <3>1
    <3> QED
      BY Zenon, <2>1, <2>2, <2>4, <3>2 DEF RaceCounted, OneBatchRacesStop, stop
  <2> QED
    BY Zenon, <1>4, <2>3, <2>4, AnswerCases DEF batch
<1>5. ASSUME NEW more \in BOOLEAN, HandlerReturns(more) PROVE RaceCounted'
  <2>1. UNCHANGED <<stop, late>> /\ pc' # "looked"
    BY Zenon, <1>5, ContinueType DEF HandlerReturns, Complete, batch, TypeOK
  <2> QED
    BY Zenon, <1>1, <2>1
<1>6. CASE Begin \/ TooBig
  <2>1. Ask /\ UNCHANGED <<stop, late>>
    BY Zenon, <1>6 DEF Begin, TooBig, batch
  <2>2. pc' # "looked"
    BY Zenon, <2>1, AskType
  <2> QED
    BY Zenon, <1>1, <2>1, <2>2
<1>7. CASE Reply \/ RequestFails \/ AgentError
  BY Zenon, <1>1, <1>7 DEF Reply, RequestFails, AgentError, Failed, Complete, batch
<1>8. ASSUME NEW type \in {"terminal", "total"}, Signal(type) PROVE RaceCounted'
  BY Zenon, <1>1, <1>8 DEF Signal, batch
<1>9. CASE UNCHANGED vars
  BY Zenon, <1>1, <1>9 DEF vars, batch
<1> QED
  BY Zenon, <1>2, <1>3, <1>4, <1>5, <1>6, <1>7, <1>8, <1>9, NextCases

-----------------------------------------------------------------------------
(* The theorems.                                                           *)

\* Every variable keeps its type: doWalk never comes to ask for nothing, however often it
\* halves what it asks for.
THEOREM TypesAreKept == Spec => []TypeOK
<1>1. Init => TypeOK
  <2> SUFFICES ASSUME Init PROVE TypeOK
    BY Zenon
  <2>1. honest \in BOOLEAN /\ mib \subseteq Oids
    BY Zenon DEF Init
  <2>2. delivered \in Seq(Oids) /\ current \in Oids
    BY WalkAssumption DEF Init
  <2>3. late \in Nat
    BY DEF Init
  <2> QED
    BY ZenonT(40), <2>1, <2>2, <2>3 DEF Init, TypeOK, PCs
<1>2. TypeOK /\ [Next]_vars => TypeOK'
  BY TypeStep
<1> QED
  BY <1>1, <1>2, PTL DEF Spec

\* Whatever the Agent answers, what doWalk hands over is of the Subtree and ascends, across
\* batches too.
THEOREM DeliveredStaysInOrder == Spec => []DeliveredInOrder
<1>1. Init => DeliveredInOrder
  BY DEF Init, DeliveredInOrder
<1>2. TypeOK /\ DeliveredInOrder /\ [Next]_vars => DeliveredInOrder'
  BY OrderStep
<1> QED
  BY <1>1, <1>2, TypesAreKept, PTL DEF Spec

\* A Walk of an honest Agent that says it is complete handed over every instance beneath
\* the base and no other, whatever the batches were.
THEOREM CompleteMeansWhole == Spec => []CompleteIsWhole
<1>1. Init => Covered
  <2> SUFFICES ASSUME Init PROVE Covered
    BY Zenon
  <2>1. NoneInvented /\ NonePassed
    BY DEF Init, NoneInvented, NonePassed
  <2> QED
    BY Zenon, <2>1 DEF Init, Covered
<1>2. TypeOK /\ TypeOK' /\ DeliveredInOrder /\ Covered /\ [Next]_vars => Covered'
  BY Zenon, CoveredStep
<1>3. TypeOK /\ DeliveredInOrder /\ Covered => CompleteIsWhole
  <2> SUFFICES ASSUME TypeOK, DeliveredInOrder, Covered, honest, result = "ok"
               PROVE  {delivered[i] : i \in DOMAIN delivered}
                        = {o \in mib : IsPrefixOf(Base, o) /\ Less(Base, o)}
    BY Zenon DEF CompleteIsWhole, Collected
  <2>1. ASSUME NEW i \in DOMAIN delivered
        PROVE  delivered[i] \in mib /\ IsPrefixOf(Base, delivered[i]) /\ Less(Base, delivered[i])
    BY Zenon DEF Covered, NoneInvented, DeliveredInOrder
  <2>2. ASSUME NEW o \in mib, IsPrefixOf(Base, o), Less(Base, o)
        PROVE  \E i \in DOMAIN delivered : delivered[i] = o
    BY Zenon, <2>2 DEF Covered, NonePassed, NoneLeft
  <2> QED
    BY <2>1, <2>2
<1> QED
  BY <1>1, <1>2, <1>3, TypesAreKept, DeliveredStaysInOrder, PTL DEF Spec

\* A Walk that was sent a signal, while it waited or by its own handler, says so, or is whole:
\* re-seating the cancellation state for each request loses none.
THEOREM CancelledAreTold == Spec => []CancelledIsTold
<1>1. Init => SignalsKept
  BY Zenon DEF Init, SignalsKept, CancelledIsTold
<1>2. TypeOK /\ SignalsKept /\ [Next]_vars => SignalsKept'
  BY Zenon, SignalsStep
<1>3. SignalsKept => CancelledIsTold
  BY DEF SignalsKept
<1> QED
  BY <1>1, <1>2, <1>3, TypesAreKept, PTL DEF Spec

\* Wherever stop() falls, and on whichever thread, doWalk calls the handler at most once
\* more, and only if it had looked at the flag and not yet called.
THEOREM AtMostOneLateBatch == Spec => []OneBatchRacesStop
<1>1. Init => RaceCounted
  BY DEF Init, RaceCounted, OneBatchRacesStop
<1>2. TypeOK /\ RaceCounted /\ [Next]_vars => RaceCounted'
  BY Zenon, RaceStep
<1>3. RaceCounted => OneBatchRacesStop
  BY DEF RaceCounted
<1> QED
  BY <1>1, <1>2, <1>3, TypesAreKept, PTL DEF Spec
=============================================================================
