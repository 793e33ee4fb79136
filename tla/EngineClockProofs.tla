------------------------- MODULE EngineClockProofs --------------------------
(***************************************************************************)
(* For any Window, any life of an exchange, any number of requests, boots  *)
(* and breaks: the pair held stays close to the Engine's, no reply is      *)
(* found untimely that was not long under way, and a request follows the   *)
(* Engine's clock through a break that happened before it began.           *)
(***************************************************************************)
EXTENDS EngineClock, TLAPS

\* The moment, by the local clock, at which the clock a pair was read from was at 0.
Origin(x) == x.time - x.at

\* The replies that may still be used.
Known == UNION {exch[o].answers : o \in {x \in Owners : exch[x] # None}}

\* The pair held was taken in the past, from a run of the Engine's clock that has begun.
Current == /\ held.at <= now
           /\ held.run <= clock.run
           /\ held.synced => held.boots # BootsCeiling

\* An exchange is not past its deadline, and its answers came while it lasted.
InTime(e) ==
    /\ e.since <= now /\ now <= e.since + Life
    /\ \A m \in e.answers : e.since <= m.at /\ m.at <= now
    /\ e.reply \in e.answers \union {None}

\* What a reply tells of the Engine's clock.
Truthful(m) ==
    /\ m.run <= clock.run
    /\ m.run = clock.run => m.boots = clock.boots /\ Origin(m) = clock.time - now
    /\ held.synced /\ m.run = held.run => m.boots = held.boots /\ Origin(held) <= Origin(m)

\* What a trusted pair of the unbroken clock tells of it.
Close ==
    held.synced /\ held.run = clock.run =>
       /\ held.boots = clock.boots
       /\ Origin(held) <= clock.time - now
       /\ clock.time - now <= Origin(held) + Life

\* Two replies of one run tell of one clock.
Agree == \A m, n \in Known : m.run = n.run => m.boots = n.boots /\ Origin(m) = Origin(n)

ClockInv ==
    /\ Current
    /\ \A o \in Owners : exch[o] # None => InTime(exch[o])
    /\ \A m \in Known : Truthful(m)
    /\ Close
    /\ Agree

\* Who is in an exchange has one.
ControlInv ==
    /\ disc # "none" => exch["discovery"] # None
    /\ \A r \in Requests : pc[r] = "exchange" => exch[r] # None

Inv == TypeOK /\ ClockInv /\ ControlInv

Helds == [boots: 0..MaxBoots, time: 0..TimeCeiling, at: Nat, synced: BOOLEAN, run: 0..MaxRuns]

-----------------------------------------------------------------------------
(* What a step of the Client does to the pair held and to the exchanges.   *)

\* The pair held stays, or stops being trusted, or is a reply's.
HeldMove(h) ==
    \/ h = held
    \/ h \in Helds /\ ~h.synced /\ h.at <= now /\ h.run = held.run
    \/ \E m \in Known : m.boots # BootsCeiling /\ h = Taken(m)

\* An exchange that is there after the step was there before, or begins in it.
ExchMove ==
    \A o \in Owners : exch'[o] # None =>
       \/ exch'[o] = exch[o]
       \/ exch'[o].since = now /\ exch'[o].answers = {} /\ exch'[o].reply = None

\* The types of what a step of a coroutine changes.
Shape ==
    /\ disc \in {"none", "identify", "sync"}
    /\ exch \in [Owners -> Exchanges \union {None}]
    /\ pc \in [Requests -> {"idle", "parked", "resumed", "exchange", "done"}]
    /\ verdict \in [Requests -> Codes \union {"none", "ok"}]
    /\ result \in [Requests -> Codes \union {"none"}]

\* A reply that may be used has its type.
LEMMA KnownIsTyped == TypeOK => Known \subseteq Replies
<1> SUFFICES ASSUME TypeOK, NEW m \in Known PROVE m \in Replies
  BY Zenon
<1>1. PICK o \in Owners : exch[o] # None /\ m \in exch[o].answers
  BY Zenon DEF Known
<1> QED BY Zenon, <1>1 DEF Exchanges, TypeOK

\* What a reply's pair becomes has the type of a pair held.
LEMMA TakenIsTyped ==
    ASSUME TypeOK, NEW m \in Replies
    PROVE  /\ Taken(m) \in Helds
           /\ Taken(m).boots = m.boots /\ Taken(m).time = m.time /\ Taken(m).at = now
           /\ Taken(m).synced = TRUE /\ Taken(m).run = m.run
BY Zenon DEF TypeOK, Replies, Taken, Helds

\* What the pair held may become has its type, and is not of the future.
LEMMA HeldMoveIsTyped ==
    ASSUME Inv, NEW h, HeldMove(h)
    PROVE  h \in Helds /\ h.at <= now
<1>1. CASE h = held
  BY Zenon, <1>1 DEF Inv, TypeOK, Helds, ClockInv, Current
<1>2. CASE h \in Helds /\ ~h.synced /\ h.at <= now /\ h.run = held.run
  BY Zenon, <1>2
<1>3. ASSUME NEW m \in Known, h = Taken(m) PROVE h \in Helds /\ h.at <= now
  <2>1. m \in Replies /\ TypeOK
    BY Zenon, KnownIsTyped DEF Inv
  <2>2. now <= now
    BY DEF Inv, TypeOK
  <2> QED BY ZenonT(40), <1>3, <2>1, <2>2, TakenIsTyped
<1> QED BY Zenon, <1>1, <1>2, <1>3 DEF HeldMove

\* A new exchange is one, whatever pair it is stamped with.
LEMMA ExchangeIsTyped ==
    ASSUME TypeOK, NEW s \in Pairs
    PROVE  /\ Exchange(s) \in Exchanges
           /\ Exchange(s) # None
           /\ Exchange(s).since = now /\ Exchange(s).answers = {} /\ Exchange(s).reply = None
<1>2. Exchange(s) \in Exchanges
  BY Zenon DEF Exchange, Exchanges, TypeOK
<1>3. Exchange(s) # None
  BY Zenon, <1>2, NoneAssumption
<1> QED BY Zenon, <1>2, <1>3 DEF Exchange

\* The projection fits its field.
LEMMA StampFits ==
    ASSUME TypeOK, NEW h \in Helds, h.at <= now
    PROVE  Stamped(h) \in Pairs
<1> HIDE DEF Projected
<1> QED BY EngineClockAssumption DEF Helds, Stamped, Pairs, TypeOK, Projected

-----------------------------------------------------------------------------
(* The invariant of the clocks, step by step.                              *)

\* A step of the Client keeps it.
LEMMA ClientKeepsClock ==
    ASSUME Inv, now' = now, clock' = clock, ExchMove, HeldMove(held')
    PROVE  ClockInv'
<1>1. now \in Nat /\ clock.time \in Nat /\ clock.run \in Nat /\ Life \in Nat
  BY EngineClockAssumption DEF Inv, TypeOK
<1>2. Known' \subseteq Known
  BY Zenon DEF Known, ExchMove
<1>3. Current'
  <2>1. CASE held' = held
    BY Zenon, <2>1 DEF Inv, ClockInv, Current
  <2>2. CASE held' \in Helds /\ ~held'.synced /\ held'.at <= now /\ held'.run = held.run
    BY Zenon, <2>2 DEF Inv, ClockInv, Current
  <2>3. ASSUME NEW m \in Known, m.boots # BootsCeiling, held' = Taken(m) PROVE Current'
    <3>1. m \in Replies /\ Truthful(m) /\ TypeOK
      BY Zenon, KnownIsTyped DEF Inv, ClockInv
    <3>2. held'.boots = m.boots /\ held'.at = now /\ held'.run = m.run
      BY ZenonT(40), <2>3, <3>1, TakenIsTyped
    <3> QED BY <1>1, <2>3, <3>1, <3>2 DEF Current, Truthful
  <2> QED BY Zenon, <2>1, <2>2, <2>3 DEF HeldMove
<1>4. ASSUME NEW o \in Owners, exch'[o] # None PROVE InTime(exch[o])'
  BY <1>4, <1>1 DEF Inv, ClockInv, InTime, ExchMove
<1>5. ASSUME NEW m \in Known' PROVE Truthful(m)'
  <2>1. m \in Known /\ m \in Replies /\ Truthful(m)
    BY Zenon, <1>2, KnownIsTyped DEF Inv, ClockInv
  <2>2. CASE held' = held
    BY Zenon, <2>1, <2>2 DEF Truthful, Origin
  <2>3. CASE ~held'.synced
    BY Zenon, <2>1, <2>3 DEF Truthful, Origin
  <2>4. ASSUME NEW n \in Known, held' = Taken(n) PROVE Truthful(m)'
    <3>1. n \in Replies /\ TypeOK
      BY Zenon, KnownIsTyped DEF Inv
    <3>4. n.time - now <= Origin(n)
      BY <1>1, <3>1 DEF Origin, Replies, Known, Inv, ClockInv, InTime
    <3>5. held'.run = n.run /\ held'.boots = n.boots /\ Origin(held)' = n.time - now
      BY ZenonT(40), <2>4, <3>1, TakenIsTyped DEF Origin
    <3> QED BY Zenon, <2>1, <3>4, <3>5 DEF Truthful, Inv, ClockInv, Agree, Origin
  <2> QED BY Zenon, <2>2, <2>3, <2>4 DEF HeldMove
<1>6. Close'
  <2>1. CASE held' = held
    BY Zenon, <2>1 DEF Inv, ClockInv, Close, Origin
  <2>2. CASE ~held'.synced
    BY Zenon, <2>2 DEF Close
  <2>3. ASSUME NEW n \in Known, held' = Taken(n) PROVE Close'
    <3>1. n \in Replies /\ TypeOK /\ Truthful(n)
      BY Zenon, KnownIsTyped DEF Inv, ClockInv
    <3>2. n.at <= now /\ now <= n.at + Life
      <4>1. PICK o \in Owners : exch[o] # None /\ n \in exch[o].answers
        BY Zenon DEF Known
      <4>3. exch[o].since <= n.at /\ n.at <= now /\ now <= exch[o].since + Life
        BY Zenon, <4>1 DEF Inv, ClockInv, InTime
      <4> QED BY <1>1, <3>1, <4>1, <4>3 DEF TypeOK, Exchanges, Replies
    <3>3. held'.run = n.run /\ held'.boots = n.boots /\ Origin(held)' = n.time - now
      BY ZenonT(40), <2>3, <3>1, TakenIsTyped DEF Origin
    <3> QED BY <1>1, <3>1, <3>2, <3>3 DEF Close, Replies, Truthful, Origin
  <2> QED BY Zenon, <2>1, <2>2, <2>3 DEF HeldMove
<1> QED BY Zenon, <1>2, <1>3, <1>4, <1>5, <1>6 DEF ClockInv, Agree, Origin, Inv

\* Time passing keeps it: an answer is no later than its exchange's deadline.
LEMMA TickKeepsClock ==
    ASSUME Inv, Tick
    PROVE  ClockInv'
<1>1. /\ now \in Nat /\ clock.time \in Nat /\ clock.run \in Nat /\ Life \in Nat
      /\ held.at \in Nat /\ held.time \in Nat
  BY EngineClockAssumption DEF Inv, TypeOK
<1>2. /\ now' = now + 1 /\ clock'.time = clock.time + 1
      /\ clock'.run = clock.run /\ clock'.boots = clock.boots
      /\ held' = held /\ exch' = exch
  BY Zenon DEF Tick, Inv, TypeOK
<1>3. Known' = Known
  BY Zenon, <1>2 DEF Known
<1>4. clock'.time - now' = clock.time - now
  BY <1>1, <1>2
<1>6. ASSUME NEW o \in Owners, exch[o] # None PROVE InTime(exch[o])'
  BY <1>6, <1>1, <1>2 DEF Inv, TypeOK, Exchanges, Replies, Tick, ClockInv, InTime
<1>7. ASSUME NEW m \in Known PROVE Truthful(m)'
  BY Zenon, <1>2, <1>4 DEF Inv, ClockInv, Truthful, Origin
<1>8. Close'
  BY Zenon, <1>2, <1>4 DEF Inv, ClockInv, Close, Origin
<1>9. Agree'
  BY Zenon, <1>3 DEF Inv, ClockInv, Agree, Origin
<1> QED BY <1>1, <1>2, <1>3, <1>6, <1>7, <1>8, <1>9 DEF ClockInv, Inv, Current

\* A clock that breaks begins a run of which nothing is known.
LEMMA BreakKeepsClock ==
    ASSUME Inv, NEW p \in Pairs, Break(p)
    PROVE  ClockInv'
<1>1. clock.run \in Nat /\ held.run \in Nat /\ \A m \in Known : m.run \in Nat
  BY EngineClockAssumption, KnownIsTyped DEF Inv, TypeOK, Replies
<1>2. now' = now /\ clock'.run = clock.run + 1 /\ held' = held /\ exch' = exch
  BY Zenon DEF Break
<1>3. Known' = Known
  BY Zenon, <1>2 DEF Known
<1>5. ASSUME NEW o \in Owners, exch[o] # None PROVE InTime(exch[o])'
  BY Zenon, <1>2, <1>5 DEF Inv, ClockInv, InTime
<1>6. ASSUME NEW m \in Known PROVE Truthful(m)'
  BY <1>1, <1>2 DEF Inv, ClockInv, Truthful, Origin
<1>8. Agree'
  BY Zenon, <1>3 DEF Inv, ClockInv, Agree, Origin
<1> QED BY <1>1, <1>2, <1>3, <1>5, <1>6, <1>8 DEF ClockInv, Inv, Current, Close

\* The pair an Engine answers with tells of its clock, and of no other.
LEMMA AnswerKeepsClock ==
    ASSUME Inv, NEW o \in Owners, Answer(o)
    PROVE  ClockInv' /\ exch' \in [Owners -> Exchanges \union {None}]
           /\ \A x \in Owners : exch'[x] # None <=> exch[x] # None
<1> DEFINE reply == [type |-> IF InWindow(exch[o].stamp) THEN "Response" ELSE "notInTimeWindows",
                     boots |-> clock.boots, time |-> clock.time, run |-> clock.run, at |-> now]
<1>1. /\ exch[o] # None
      /\ exch' = [exch EXCEPT ![o].answers = @ \union {reply}]
      /\ now' = now /\ clock' = clock /\ held' = held
  BY Zenon DEF Answer
<1>0. PICK m : m = reply
  BY ZenonT(40)
<1>2. /\ m \in Replies
      /\ m.boots = clock.boots /\ m.time = clock.time /\ m.run = clock.run /\ m.at = now
  BY Zenon, <1>0 DEF Inv, TypeOK, Replies
<1> HIDE DEF reply
<1>3. /\ exch \in [Owners -> Exchanges \union {None}] /\ exch[o] \in Exchanges
      /\ now \in Nat /\ clock.time \in Nat /\ clock.run \in Nat
  BY <1>1, EngineClockAssumption DEF Inv, TypeOK
<1> DEFINE e == [exch[o] EXCEPT !.answers = @ \union {m}]
<1>4. /\ exch'[o] = e /\ e \in Exchanges /\ e.answers = exch[o].answers \union {m}
      /\ e.since = exch[o].since /\ e.reply = exch[o].reply
      /\ \A x \in Owners : x # o => exch'[x] = exch[x]
  BY Zenon, <1>0, <1>1, <1>2, <1>3 DEF Exchanges
<1> HIDE DEF e
<1>5. exch' \in [Owners -> Exchanges \union {None}]
  BY Zenon, <1>0, <1>1, <1>3, <1>4 DEF e
<1>6. \A x \in Owners : exch'[x] # None <=> exch[x] # None
  BY Zenon, <1>1, <1>4, NoneAssumption
<1>7. \A n \in Known' : n \in Known \/ n = m
  <2> SUFFICES ASSUME NEW n \in Known' PROVE n \in Known \/ n = m
    BY Zenon
  <2>1. PICK x \in Owners : exch'[x] # None /\ n \in exch'[x].answers
    BY Zenon DEF Known
  <2> QED BY ZenonT(40), <1>1, <1>4, <1>6, <2>1 DEF Known
<1>8. ASSUME NEW x \in Owners, exch'[x] # None PROVE InTime(exch[x])'
  <2>1. InTime(exch[x])
    BY Zenon, <1>6, <1>8 DEF Inv, ClockInv
  <2>2. CASE x = o
    <3>1. /\ exch'[o].since = exch[o].since /\ exch'[o].reply = exch[o].reply
          /\ exch'[o].answers = exch[o].answers \union {m} /\ now' = now
      BY ZenonT(40), <1>1, <1>4
    <3> QED BY <1>2, <1>3, <2>1, <2>2, <3>1 DEF InTime
  <2>3. CASE x # o
    BY Zenon, <1>1, <1>4, <2>1, <2>3 DEF InTime
  <2> QED BY Zenon, <2>2, <2>3
<1>10. ASSUME NEW n \in Known' PROVE Truthful(n)'
  BY <1>1, <1>2, <1>3, <1>7 DEF Inv, ClockInv, Truthful, Origin, Close
<1>11. Close'
  BY Zenon, <1>1 DEF Inv, ClockInv, Close, Origin
<1>12. Agree'
  BY <1>2, <1>7 DEF Inv, ClockInv, Truthful, Origin, Agree
<1>13. Current'
  BY Zenon, <1>1 DEF Inv, ClockInv, Current
<1> QED BY Zenon, <1>5, <1>6, <1>8, <1>10, <1>11, <1>12, <1>13 DEF ClockInv

\* deliverV3 adds no answer, and accepts only one that there is.
LEMMA DeliverKeepsClock ==
    ASSUME Inv, NEW o \in Owners, exch[o] # None, NEW m \in exch[o].answers, Deliver(o, m)
    PROVE  ClockInv' /\ exch' \in [Owners -> Exchanges \union {None}]
           /\ \A x \in Owners : exch'[x] # None <=> exch[x] # None
<1>1. /\ exch \in [Owners -> Exchanges \union {None}] /\ exch[o] \in Exchanges
      /\ m \in Replies
      /\ now' = now /\ clock' = clock /\ held' = held
  BY Zenon DEF Inv, TypeOK, Exchanges, Deliver
<1>2. /\ exch'[o] \in Exchanges
      /\ exch'[o].since = exch[o].since /\ exch'[o].answers = exch[o].answers
      /\ exch'[o].reply \in {exch[o].reply, m}
      /\ exch' \in [Owners -> Exchanges \union {None}]
      /\ \A x \in Owners : x # o => exch'[x] = exch[x]
  <2>1. CASE m.type = "Response" /\ ~Timely(m)
    <3>1. exch' = [exch EXCEPT ![o].dropped = TRUE]
      BY Zenon, <2>1 DEF Deliver
    <3> QED BY ZenonT(40), <1>1, <3>1 DEF Exchanges
  <2>2. CASE ~(m.type = "Response" /\ ~Timely(m))
    BY Zenon, <2>2, <1>1 DEF Deliver, Exchanges
  <2> QED BY Zenon, <2>1, <2>2
<1>3. \A x \in Owners : exch'[x] # None <=> exch[x] # None
  BY Zenon, <1>2, NoneAssumption
<1>4. Known' = Known
  BY <1>2, <1>3 DEF Known
<1>5. ASSUME NEW x \in Owners, exch'[x] # None PROVE InTime(exch[x])'
  BY Zenon, <1>3, <1>5, <1>1, <1>2 DEF Inv, ClockInv, InTime
<1>6. Current' /\ Close' /\ Agree' /\ \A n \in Known : Truthful(n)'
  BY Zenon, <1>1, <1>4 DEF Inv, ClockInv, Current, Close, Agree, Truthful, Origin
<1> QED BY Zenon, <1>2, <1>3, <1>4, <1>5, <1>6 DEF ClockInv

-----------------------------------------------------------------------------
(* What the steps of the coroutines do.                                    *)

\* Sending opens an exchange, or begins one in place of the last.
LEMMA SendMoves ==
    ASSUME Inv, NEW r \in Requests, NEW h \in Helds, h.at <= now, Send(r, h)
    PROVE  Shape' /\ ControlInv' /\ ExchMove
<1> DEFINE e == Exchange(Stamped(h))
<1> HIDE DEF e
<1>2. /\ r \in Owners /\ "discovery" \in Owners /\ r # "discovery"
  BY Zenon, EngineClockAssumption DEF Owners
<1>3. /\ exch \in [Owners -> Exchanges \union {None}]
      /\ exch' = [exch EXCEPT ![r] = e] /\ e \in Exchanges /\ e # None
      /\ e.since = now /\ e.answers = {} /\ e.reply = None
      /\ pc' = [pc EXCEPT ![r] = "exchange"] /\ disc' = disc
  BY Zenon, StampFits, ExchangeIsTyped DEF Inv, TypeOK, Send, e
<1>6. ExchMove
  BY Zenon, <1>2, <1>3 DEF ExchMove
<1> QED BY <1>2, <1>3, <1>6 DEF Inv, TypeOK, Send, Shape, ControlInv, Owners

\* Waiting for a discovery ends the request's own exchange, and may begin the discovery's.
LEMMA ParkMoves ==
    ASSUME Inv, NEW r \in Requests, Park(r)
    PROVE  Shape' /\ ControlInv' /\ ExchMove
<1> DEFINE zero == [boots |-> 0, time |-> 0]
           e == IF disc = "none" THEN Exchange(zero) ELSE exch["discovery"]
<1>2. /\ r \in Owners /\ "discovery" \in Owners /\ r # "discovery"
  BY Zenon, EngineClockAssumption DEF Owners
<1>3. /\ exch \in [Owners -> Exchanges \union {None}]
      /\ exch' = [exch EXCEPT ![r] = None, !["discovery"] = e]
      /\ pc' = [pc EXCEPT ![r] = "parked"]
      /\ disc' = IF disc = "none" THEN "identify" ELSE disc
  BY Zenon, <1>2 DEF Park, Inv, TypeOK
<1>4. /\ e \in Exchanges /\ e # None
      /\ e = exch["discovery"] \/ (e.since = now /\ e.answers = {} /\ e.reply = None)
  BY <1>2, <1>3, EngineClockAssumption, ExchangeIsTyped DEF Inv, ControlInv, Pairs
<1> HIDE DEF e
<1>5. /\ exch'[r] = None /\ exch'["discovery"] = e
      /\ \A o \in Owners : o # r /\ o # "discovery" => exch'[o] = exch[o]
      /\ exch' \in [Owners -> Exchanges \union {None}]
  BY Zenon, <1>2, <1>3, <1>4
<1>7. ControlInv'
  BY <1>3, EngineClockAssumption, <1>5, <1>4 DEF Inv, TypeOK, Owners, ControlInv
<1>8. ExchMove
  BY Zenon, <1>4, <1>5 DEF ExchMove
<1> QED BY Zenon, <1>5, <1>7, <1>8 DEF Inv, TypeOK, Park, Shape

\* Completing ends the request's exchange.
LEMMA CompleteMoves ==
    ASSUME Inv, NEW r \in Requests, NEW code \in Codes \union {"none"}, Complete(r, code)
    PROVE  Shape' /\ ControlInv' /\ ExchMove /\ attempt' \in [Requests -> {0, 1}]
<1>1. /\ r \in Owners /\ "discovery" \in Owners /\ r # "discovery"
  BY Zenon, EngineClockAssumption DEF Owners
<1>2. /\ exch \in [Owners -> Exchanges \union {None}]
      /\ exch' = [exch EXCEPT ![r] = None]
      /\ pc' = [pc EXCEPT ![r] = "done"] /\ disc' = disc
  BY Zenon DEF Inv, TypeOK, Complete
<1>3. Shape'
  <2>1. exch' \in [Owners -> Exchanges \union {None}]
    BY ZenonT(40), <1>2
  <2> QED BY Zenon, <2>1 DEF Shape, Inv, TypeOK, Complete
<1>4. ControlInv'
  BY Zenon, <1>1, <1>2 DEF Inv, TypeOK, ControlInv, Owners
<1> QED BY Zenon, <1>1, <1>2, <1>3, <1>4 DEF ExchMove, Inv, TypeOK, Complete

\* A discovery that is over ends its exchange only.
LEMMA FinishMoves ==
    ASSUME Inv, NEW code \in Codes \union {"ok"}, Finish(code), UNCHANGED result
    PROVE  Shape' /\ ControlInv' /\ ExchMove
<1>2. /\ exch \in [Owners -> Exchanges \union {None}]
      /\ exch' = [exch EXCEPT !["discovery"] = None]
      /\ disc' = "none"
      /\ \A r \in Requests : pc'[r] = "exchange" => pc[r] = "exchange"
  BY Zenon DEF Inv, TypeOK, Finish
<1>3. Shape'
  <2>1. exch' \in [Owners -> Exchanges \union {None}]
    BY ZenonT(40), <1>2
  <2> QED BY Zenon, <2>1 DEF Shape, Inv, TypeOK, Finish
<1> QED BY Zenon, <1>2, <1>3, EngineClockAssumption DEF Inv, ControlInv, Owners, ExchMove

\* What every step of a coroutine comes to.
ClientStep ==
    /\ now' = now /\ clock' = clock
    /\ attempt' \in [Requests -> {0, 1}]
    /\ Shape' /\ ControlInv' /\ ExchMove /\ HeldMove(held')

\* That keeps the whole invariant.
LEMMA ClientStepKeeps == Inv /\ ClientStep => Inv'
<1> SUFFICES ASSUME Inv, ClientStep PROVE Inv'
  BY Zenon
<1> QED BY Zenon, ClientKeepsClock, HeldMoveIsTyped DEF Inv, ClientStep, TypeOK, Shape, Helds

\* A turn of doRequestV3's loop.
LEMMA AskMoves ==
    ASSUME Inv, NEW r \in Requests, NEW h, HeldMove(h), Ask(r, h)
    PROVE  Shape' /\ ControlInv' /\ ExchMove /\ HeldMove(held')
<1> QED BY Zenon, SendMoves, ParkMoves, HeldMoveIsTyped DEF HeldMove, Ask

\* What observeEngineTime() makes of a reply that is known.
LEMMA ObservedMoves ==
    ASSUME Inv, NEW m \in Known
    PROVE  HeldMove(Observed(m)) /\ HeldMove(Reported(m))
<1>1. HeldMove(Observed(m))
  BY Zenon DEF Observed, Refused, HeldMove
<1>2. CASE held.synced /\ m.boots < held.boots
  <2> DEFINE h == [held EXCEPT !.synced = FALSE]
  <2>1. h \in Helds /\ h.synced = FALSE /\ h.at = held.at /\ h.run = held.run
    BY ZenonT(40) DEF Inv, TypeOK, Helds
  <2>3. Reported(m) = h
    BY Zenon, <1>2 DEF Reported
  <2> HIDE DEF h
  <2> QED BY Zenon, <1>1, <2>1, <2>3 DEF HeldMove, Inv, ClockInv, Current
<1>3. CASE ~(held.synced /\ m.boots < held.boots)
  BY Zenon, <1>1, <1>3 DEF Reported
<1> QED BY Zenon, <1>1, <1>2, <1>3

\* The reply an exchange has accepted is known.
LEMMA ReplyIsKnown ==
    ASSUME Inv, NEW o \in Owners, exch[o] # None, exch[o].reply # None
    PROVE  exch[o].reply \in Known
BY Zenon DEF Inv, ClockInv, InTime, Known

\* An exchange without a reply ends with one of the codes.
LEMMA SilenceIsCode == \A o \in Owners : Silence(o) \in Codes
BY Zenon DEF Silence, Codes

\* One lemma for each step of a coroutine: each is a ClientStep.
LEMMA BeginSteps == ASSUME Inv, NEW r \in Requests, Begin(r) PROVE ClientStep
<1> QED BY Zenon, AskMoves DEF ClientStep, Inv, TypeOK, Begin, HeldMove

LEMMA ResumeSteps == ASSUME Inv, NEW r \in Requests, Resume(r) PROVE ClientStep
<1>1. now' = now /\ clock' = clock /\ held' = held /\ HeldMove(held')
  BY Zenon DEF Resume, HeldMove
<1>2. CASE Send(r, held) /\ attempt' = attempt
  BY Zenon, HeldMoveIsTyped, <1>1, <1>2, SendMoves DEF HeldMove, ClientStep, Inv, TypeOK
<1>3. CASE verdict[r] # "ok" /\ Complete(r, verdict[r])
  BY Zenon, <1>3, <1>1, CompleteMoves DEF Inv, TypeOK, ClientStep
<1> QED BY Zenon, <1>2, <1>3 DEF Resume

LEMMA EndExchangeSteps == ASSUME Inv, NEW r \in Requests, EndExchange(r) PROVE ClientStep
<1> DEFINE m == exch[r].reply
<1>1. now' = now /\ clock' = clock /\ r \in Owners /\ exch[r] # None
  BY Zenon DEF EndExchange, Owners, Inv, ControlInv
<1>2. m # None => HeldMove(Observed(m)) /\ HeldMove(Reported(m))
  BY Zenon, <1>1, ReplyIsKnown, ObservedMoves
<1>3. HeldMove(held)
  BY Zenon DEF HeldMove
<1>4. CASE Complete(r, Silence(r)) /\ UNCHANGED held
  BY Zenon, <1>1, <1>3, <1>4, SilenceIsCode, CompleteMoves DEF ClientStep
<1>5. CASE m # None /\ Complete(r, "reply") /\ held' = Observed(m)
  BY Zenon, <1>1, <1>2, <1>5, CompleteMoves DEF ClientStep, Codes
<1>6. CASE Complete(r, "NotInTimeWindow") /\ UNCHANGED held
  BY Zenon, <1>1, <1>3, <1>6, CompleteMoves DEF ClientStep, Codes
<1>7. CASE m # None /\ attempt' = [attempt EXCEPT ![r] = 1] /\ Ask(r, Reported(m))
  BY Zenon, <1>7, <1>2, AskMoves, <1>1 DEF Inv, TypeOK, ClientStep
<1> QED BY Zenon, <1>4, <1>5, <1>6, <1>7 DEF EndExchange

LEMMA EndIdentifySteps == ASSUME Inv, NEW p \in Pairs, EndIdentify(p) PROVE ClientStep
<1>1. /\ now' = now /\ clock' = clock /\ attempt' = attempt /\ result' = result
      /\ attempt \in [Requests -> {0, 1}] /\ disc = "identify"
  BY Zenon DEF EndIdentify, Inv, TypeOK
<1>2. CASE held.synced
  BY Zenon, <1>2, <1>1, FinishMoves DEF EndIdentify, ClientStep, HeldMove
<1>3. CASE ~held.synced
  <2> DEFINE zero == [boots |-> 0, time |-> 0]
             e == Exchange(zero)
             h == [held EXCEPT !.boots = p.boots, !.time = p.time, !.at = now]
  <2>1. /\ e \in Exchanges /\ e # None
        /\ e.since = now /\ e.answers = {} /\ e.reply = None
    BY EngineClockAssumption, ExchangeIsTyped DEF Pairs, Inv
  <2>2. /\ held' = h /\ disc' = "sync" /\ exch' = [exch EXCEPT !["discovery"] = e]
        /\ pc' = pc /\ verdict' = verdict
    BY Zenon, <1>3 DEF EndIdentify
  <2>3. h \in Helds /\ ~h.synced /\ h.at <= now /\ h.run = held.run
    <3>1. /\ now \in Nat /\ now <= now /\ held \in Helds
          /\ p.boots \in 0..MaxBoots /\ p.time \in 0..TimeCeiling
      BY DEF Inv, TypeOK, Helds, Pairs
    <3>2. h \in Helds /\ h.synced = held.synced /\ h.at = now /\ h.run = held.run
      BY ZenonT(40), <3>1 DEF Helds
    <3> QED BY Zenon, <1>3, <3>1, <3>2
  <2> HIDE DEF e, h
  <2>4. "discovery" \in Owners /\ "discovery" \notin Requests
    BY Zenon, EngineClockAssumption DEF Owners
  <2>5. /\ exch \in [Owners -> Exchanges \union {None}]
        /\ exch' \in [Owners -> Exchanges \union {None}]
        /\ exch'["discovery"] = e
        /\ \A o \in Owners : o # "discovery" => exch'[o] = exch[o]
    BY Zenon, <2>1, <2>2, <2>4 DEF Inv, TypeOK
  <2>7. ControlInv' /\ ExchMove
    BY Zenon, <2>1, <2>2, <2>4, <2>5 DEF Inv, ControlInv, ExchMove, Owners
  <2> QED BY Zenon, <1>1, <2>2, <2>3, <2>5, <2>7 DEF ClientStep, HeldMove, Inv, TypeOK, Shape
<1> QED BY Zenon, <1>2, <1>3

LEMMA EndSyncSteps == ASSUME Inv, EndSync PROVE ClientStep
<1> DEFINE m == exch["discovery"].reply
<1>1. /\ now' = now /\ clock' = clock /\ attempt' = attempt /\ result' = result
      /\ attempt \in [Requests -> {0, 1}]
  BY Zenon DEF EndSync, Inv, TypeOK
<1>3. CASE m.boots = BootsCeiling
  BY Zenon, <1>3, <1>1, FinishMoves DEF EndSync, ClientStep, HeldMove, Codes
<1>4. CASE m.boots # BootsCeiling
  BY Zenon, <1>1, <1>4, FinishMoves, ReplyIsKnown DEF EndSync, HeldMove, ClientStep, Inv, ControlInv,
     Owners
<1> QED BY Zenon, <1>3, <1>4

LEMMA EndUnansweredSteps == ASSUME Inv, EndUnanswered PROVE ClientStep
<1> QED
  BY Zenon, FinishMoves, SilenceIsCode DEF ClientStep, HeldMove, EndUnanswered, Inv, TypeOK, Owners

-----------------------------------------------------------------------------
(* The invariant, and what follows from it.                                *)

\* Nothing is held or known when the Client starts.
LEMMA InitKeeps == Init => Inv
<1> SUFFICES ASSUME Init PROVE Inv
  BY Zenon
<1>5. ClockInv
  BY DEF ClockInv, Agree, Known, Init, Current, Close
<1> QED BY <1>5, EngineClockAssumption DEF Inv, Init, Helds, TypeOK, Codes, ControlInv

\* Every step keeps the invariant.
LEMMA NextKeeps == Inv /\ [Next]_vars => Inv'
<1> SUFFICES ASSUME Inv, [Next]_vars PROVE Inv'
  BY Zenon
<1>1. CASE Tick
  BY <1>1, TickKeepsClock, EngineClockAssumption DEF Tick, Inv, TypeOK, ControlInv, request
<1>2. ASSUME NEW p \in Pairs, Break(p) PROVE Inv'
  <2> QED
    BY <1>2, BreakKeepsClock, EngineClockAssumption DEF Inv, Break, TypeOK, ControlInv,
       request, Pairs
<1>3. ASSUME NEW o \in Owners, Answer(o) PROVE Inv'
  <2>1. ClockInv' /\ exch' \in [Owners -> Exchanges \union {None}]
        /\ \A x \in Owners : exch'[x] # None <=> exch[x] # None
    BY Zenon, <1>3, AnswerKeepsClock
  <2>2. TypeOK' /\ ControlInv'
    BY Zenon, <1>3, <2>1 DEF Answer, Inv, TypeOK, ControlInv, request, Owners
  <2> QED BY Zenon, <2>1, <2>2 DEF Inv
<1>4. ASSUME NEW o \in Owners, exch[o] # None, NEW m \in exch[o].answers, Deliver(o, m) PROVE Inv'
  <2>1. ClockInv' /\ exch' \in [Owners -> Exchanges \union {None}]
        /\ \A x \in Owners : exch'[x] # None <=> exch[x] # None
    BY Zenon, <1>4, DeliverKeepsClock
  <2>2. TypeOK' /\ ControlInv'
    BY Zenon, <1>4, <2>1 DEF Deliver, Inv, TypeOK, ControlInv, request, Owners
  <2> QED BY Zenon, <2>1, <2>2 DEF Inv
<1>5. CASE UNCHANGED vars
  BY <1>5 DEF vars, request, Inv, TypeOK, ControlInv, ClockInv, Current, InTime, Truthful,
     Close, Agree, Known, Origin
<1>6. CASE ClientStep
  BY Zenon, <1>6, ClientStepKeeps
<1> QED
  BY Zenon, <1>1, <1>2, <1>3, <1>4, <1>5, <1>6, BeginSteps, ResumeSteps, EndExchangeSteps,
     EndIdentifySteps, EndSyncSteps, EndUnansweredSteps DEF Next

\* The inductive invariant holds in every state of every behaviour.
LEMMA Invariance == Spec => []Inv
BY InitKeeps, NextKeeps, PTL DEF Spec

\* What EngineState holds and what doRequestV3 stamps a message with fit their fields,
\* however long the local clock advances the pair held.
THEOREM StampsFit == Spec => []TypeOK
<1>1. Inv => TypeOK
  BY Zenon DEF Inv
<1> QED BY <1>1, Invariance, PTL

\* The pair held projects to the Engine's own time, or behind it by the life of an
\* exchange at most, while the Engine's clock runs unbroken.
THEOREM ProjectionStaysClose == Spec => []ProjectionIsClose
<1>1. Inv => ProjectionIsClose
  BY EngineClockAssumption DEF ProjectionIsClose, Inv, TypeOK, ClockInv, Close, Origin,
     Projected
<1> QED BY <1>1, Invariance, PTL

\* timely() drops no reply of the run the pair held belongs to that was under way no
\* longer than the Time Window.
THEOREM OnlyOldIsUntimely == Spec => []UntimelyIsOld
<1>1. Inv => UntimelyIsOld
  <2> SUFFICES ASSUME Inv, NEW o \in Owners, exch[o] # None, NEW m \in exch[o].answers,
                      m.run = held.run, ~Timely(m)
               PROVE  now - m.at > Window
    BY Zenon DEF UntimelyIsOld
  <2>1. m \in Known /\ m \in Replies
    BY Zenon, KnownIsTyped DEF Known, Inv
  <2>3. held.synced /\ m.boots = held.boots /\ held.time - held.at <= m.time - m.at
    BY Zenon, <2>1 DEF Timely, Inv, ClockInv, Truthful, Origin
  <2> QED
    BY <2>1, <2>3, EngineClockAssumption DEF Projected, Inv, TypeOK, Replies, Timely, ClockInv,
       Current
<1> QED BY <1>1, Invariance, PTL

-----------------------------------------------------------------------------
(* What is in flight, and since which run of the Engine's clock.           *)

\* A coroutine is running for the owner.
Busy(o) ==
    \/ o \in Requests /\ pc[o] \notin {"idle", "done"}
    \/ o = "discovery" /\ disc # "none"

\* The Engine answered with a Response just where it found the message timely.
Earned(e, m) ==
    m.type = "Response" <=>
       /\ e.stamp.boots = m.boots
       /\ m.boots # BootsCeiling
       /\ e.stamp.time - m.time \in (-Window)..Window

\* The histories are of their types, and the Engine has started at least once.
HistTypes ==
    /\ born \in [Owners -> Nat]
    /\ outset \in [Requests -> [met: SUBSET Nat, locked: BOOLEAN]]
    /\ clock.boots > 0

\* An exchange is its owner's, and a discovery's is stamped with nothing, so that
\* no answer to it is a Response that could be dropped.
Owned ==
    /\ \A r \in Requests : ~Busy(r) => attempt[r] = 0
    /\ \A r \in Requests : exch[r] # None => pc[r] = "exchange"
    /\ exch["discovery"] # None =>
          disc # "none" /\ exch["discovery"].stamp.boots = 0 /\ ~exch["discovery"].dropped

\* Nothing in flight is older than all of these runs.
Covered(runs) == \A o \in Owners : Busy(o) => \E n \in runs : n <= born[o]

\* Nothing in flight began in a run still to come, or before all the runs its request met.
Aged ==
    /\ \A o \in Owners : Busy(o) => born[o] <= clock.run
    /\ \A r \in Requests : Busy(r) => Covered(outset[r].met)

\* An answer is of no earlier run than the one its exchange's owner began in.
Answered ==
    \A o \in Owners : exch[o] # None =>
       \A m \in exch[o].answers : born[o] <= m.run /\ m.boots > 0 /\ Earned(exch[o], m)

HistInv == HistTypes /\ Owned /\ Aged /\ Answered

\* What a step of a coroutine does to it.
HistMove ==
    /\ HistTypes' /\ Owned'
    /\ \A o \in Owners : Busy(o)' => born'[o] = clock.run \/ (Busy(o) /\ born'[o] = born[o])
    /\ \A r \in Requests : Busy(r)' =>
          \/ Busy(r) /\ outset'[r] = outset[r]
          \/ Covered(outset'[r].met) /\ clock.run \in outset'[r].met
    /\ \A o \in Owners : exch'[o] # None =>
          exch'[o].answers = {} \/ (exch'[o] = exch[o] /\ born'[o] = born[o])

\* Each request is busy by its coroutine, the discovery by its phase.
LEMMA WhoIsBusy ==
    /\ \A r \in Requests : r \in Owners /\ r # "discovery" /\ (Busy(r) <=> pc[r] \notin {"idle", "done"})
    /\ "discovery" \in Owners /\ (Busy("discovery") <=> disc # "none")
BY Zenon, EngineClockAssumption DEF Busy, Owners

\* The same after a step.
LEMMA WhoIsBusyNext ==
    /\ \A r \in Requests : Busy(r)' <=> pc'[r] \notin {"idle", "done"}
    /\ Busy("discovery")' <=> disc' # "none"
BY Zenon, EngineClockAssumption DEF Busy, Owners

\* A step of a coroutine keeps the invariant of the histories.
LEMMA HistMoveKeeps ==
    ASSUME Inv, HistInv, HistMove, clock' = clock
    PROVE  HistInv'
<1>2. clock.run \in Nat /\ born \in [Owners -> Nat] /\ born' \in [Owners -> Nat]
  BY EngineClockAssumption DEF Inv, TypeOK, HistInv, HistMove, HistTypes
<1>4. ASSUME NEW r \in Requests, Busy(r)' PROVE Covered(outset[r].met)'
  BY <1>4, WhoIsBusy, <1>2 DEF HistMove, HistInv, Aged, Covered, HistTypes
<1>6. Answered'
  BY DEF Answered, Earned, HistMove, HistInv
<1> QED BY <1>2, <1>4, <1>6 DEF HistInv, HistMove, Aged

\* What a turn of the loop does: the request is in an exchange that has just begun, or it
\* waits for a discovery, which may have just begun.
Turn(r) ==
    /\ \A x \in Requests : x # r =>
          pc'[x] = pc[x] /\ exch'[x] = exch[x] /\ verdict'[x] = verdict[x]
    /\ \/ pc'[r] = "exchange" /\ exch'[r].answers = {} /\ ~exch'[r].dropped
       \/ pc'[r] = "parked" /\ exch'[r] = None
    /\ \/ disc' = disc /\ exch'["discovery"] = exch["discovery"]
       \/ /\ disc = "none" /\ disc' = "identify" /\ exch'["discovery"].answers = {}
          /\ exch'["discovery"].stamp.boots = 0 /\ ~exch'["discovery"].dropped

\* sendAndWait begins an exchange that nothing has answered yet.
LEMMA SendTurns ==
    ASSUME Inv, NEW r \in Requests, NEW h, Send(r, h)
    PROVE  Turn(r)
<1> DEFINE e == Exchange(Stamped(h))
<1>1. e.answers = {} /\ ~e.dropped
  BY Zenon DEF Exchange
<1>2. /\ pc' = [pc EXCEPT ![r] = "exchange"] /\ exch' = [exch EXCEPT ![r] = e]
      /\ verdict' = [verdict EXCEPT ![r] = "none"] /\ disc' = disc
  BY Zenon DEF Send
<1> HIDE DEF e
<1>3. /\ exch \in [Owners -> Exchanges \union {None}]
      /\ DOMAIN pc = Requests /\ DOMAIN verdict = Requests
  BY Zenon DEF Inv, TypeOK
<1> QED BY Zenon, <1>1, <1>2, <1>3, WhoIsBusy DEF Turn

\* A turn sends the message or waits for a discovery.
LEMMA AskTurns ==
    ASSUME Inv, NEW r \in Requests, NEW h, Ask(r, h)
    PROVE  Turn(r)
<1>2. exch \in [Owners -> Exchanges \union {None}] /\ DOMAIN pc = Requests
  BY Zenon DEF Inv, TypeOK
<1>3. CASE Send(r, h)
  BY Zenon, <1>3, SendTurns
<1>4. CASE Park(r)
  BY Zenon, <1>2, <1>4, EngineClockAssumption DEF Exchange, Park, Turn, Owners
<1> QED BY Zenon, <1>3, <1>4 DEF Ask

\* When a discovery that a turn of the loop starts began.
LEMMA StartedIs ==
    ASSUME Inv, HistInv
    PROVE  /\ Started \in [Owners -> Nat]
           /\ \A r \in Requests : Started[r] = born[r]
           /\ disc = "none" /\ disc' = "identify" => Started["discovery"] = clock.run
           /\ disc' = disc => Started["discovery"] = born["discovery"]
<1> QED BY EngineClockAssumption DEF Started, Inv, TypeOK, HistInv, HistTypes, Owners

\* A turn of the loop keeps what is owned.
LEMMA TurnKeepsOwned ==
    ASSUME Inv, HistInv, NEW r \in Requests, Turn(r),
           attempt' \in [Requests -> {0, 1}],
           \A x \in Requests : x # r => attempt'[x] = attempt[x]
    PROVE  Owned'
<1>1. \A x \in Requests : ~Busy(x)' => attempt'[x] = 0
  BY Zenon, WhoIsBusyNext, WhoIsBusy DEF Turn, HistInv, Owned
<1> QED BY Zenon, <1>1 DEF Owned, Turn, HistInv

\* The exchanges and births a turn of the loop leaves.
LEMMA TurnKeepsBirths ==
    ASSUME Inv, HistInv, NEW r \in Requests, Turn(r),
           \A x \in Requests : x # r => born'[x] = born[x],
           born'["discovery"] = Started["discovery"],
           born'[r] = clock.run \/ (Busy(r) /\ born'[r] = born[r])
    PROVE  /\ \A o \in Owners : Busy(o)' => born'[o] = clock.run \/ (Busy(o) /\ born'[o] = born[o])
           /\ \A o \in Owners : exch'[o] # None =>
                 exch'[o].answers = {} \/ (exch'[o] = exch[o] /\ born'[o] = born[o])
<1>1. \A x \in Requests : x # r => (Busy(x)' <=> Busy(x)) /\ exch'[x] = exch[x]
  BY Zenon, WhoIsBusy, WhoIsBusyNext DEF Turn
<1>4. Busy("discovery")' /\ disc' = disc => Busy("discovery")
  BY Zenon, WhoIsBusy, WhoIsBusyNext
<1> QED BY Zenon, <1>1, <1>4, StartedIs DEF Owners, Turn

\* One lemma for each step of a coroutine: each is a HistMove.
LEMMA BeginHist ==
    ASSUME Inv, HistInv, NEW r \in Requests, Begin(r)
    PROVE  HistMove
<1> DEFINE busy == {o \in Requests : pc[o] \notin {"idle", "done"}}
                      \union {o \in {"discovery"} : disc # "none"}
           ages == {clock.run} \union {born[o] : o \in busy}
<1>1. /\ outset' = [outset EXCEPT ![r] = [met |-> ages, locked |-> OutOfReach]]
      /\ Ask(r, held) /\ clock' = clock /\ attempt' = attempt
      /\ born' = [Started EXCEPT ![r] = clock.run]
  BY Zenon DEF Begin
<1>2. /\ clock.run \in Nat /\ r \in Owners /\ r # "discovery" /\ "discovery" \in Owners
      /\ born \in [Owners -> Nat] /\ \A x \in Requests : x \in Owners /\ x # "discovery"
  BY EngineClockAssumption, WhoIsBusy DEF Inv, TypeOK, HistInv, HistTypes
<1>3. Turn(r)
  BY Zenon, <1>1, AskTurns
<1>5. ages \subseteq Nat /\ clock.run \in ages /\ \A o \in Owners : Busy(o) => born[o] \in ages
  BY Zenon, <1>2, WhoIsBusy DEF Owners
<1> HIDE DEF ages
<1>6. Covered(ages)
  BY <1>2, <1>5 DEF Covered
<1>8. /\ outset' \in [Requests -> [met: SUBSET Nat, locked: BOOLEAN]]
      /\ outset'[r].met = ages
      /\ \A x \in Requests : x # r => outset'[x] = outset[x]
  BY Zenon, <1>1, <1>5 DEF HistInv, HistTypes, OutOfReach
<1>9. /\ born' \in [Owners -> Nat] /\ born'[r] = clock.run
      /\ \A x \in Requests : x # r => born'[x] = born[x]
      /\ born'["discovery"] = Started["discovery"]
  BY Zenon, <1>1, <1>2, StartedIs
<1>10. HistTypes'
  BY Zenon, <1>1, <1>8, <1>9 DEF HistInv, HistTypes
<1>11. Owned'
  BY Zenon, <1>1, <1>3, TurnKeepsOwned DEF Inv, TypeOK
<1>12. /\ \A o \in Owners : Busy(o)' => born'[o] = clock.run \/ (Busy(o) /\ born'[o] = born[o])
       /\ \A o \in Owners : exch'[o] # None =>
             exch'[o].answers = {} \/ (exch'[o] = exch[o] /\ born'[o] = born[o])
  BY Zenon, <1>3, <1>9, TurnKeepsBirths
<1>13. \A x \in Requests : Busy(x)' =>
          \/ Busy(x) /\ outset'[x] = outset[x]
          \/ Covered(outset'[x].met) /\ clock.run \in outset'[x].met
  BY Zenon, <1>3, <1>5, <1>6, <1>8, WhoIsBusy, WhoIsBusyNext DEF Turn
<1> QED BY Zenon, <1>10, <1>11, <1>12, <1>13 DEF HistMove

\* A request that goes on from a discovery, or that ends.
LEMMA CompleteHist ==
    ASSUME Inv, HistInv, NEW r \in Requests, NEW code, Complete(r, code), clock' = clock
    PROVE  HistMove
<1>1. /\ pc' = [pc EXCEPT ![r] = "done"] /\ exch' = [exch EXCEPT ![r] = None]
      /\ attempt' = [attempt EXCEPT ![r] = 0] /\ born' = [born EXCEPT ![r] = 0]
      /\ outset' = [outset EXCEPT ![r] = NoOutset] /\ disc' = disc
  BY Zenon DEF Complete
<1>2. /\ born \in [Owners -> Nat] /\ exch \in [Owners -> Exchanges \union {None}]
      /\ outset \in [Requests -> [met: SUBSET Nat, locked: BOOLEAN]]
      /\ DOMAIN pc = Requests /\ DOMAIN attempt = Requests
  BY Zenon DEF Inv, TypeOK, HistInv, HistTypes
<1>4. /\ exch'[r] = None /\ attempt'[r] = 0 /\ ~Busy(r)'
      /\ \A x \in Requests : x # r => /\ exch'[x] = exch[x] /\ attempt'[x] = attempt[x]
                                      /\ born'[x] = born[x] /\ outset'[x] = outset[x]
                                      /\ pc'[x] = pc[x]
      /\ exch'["discovery"] = exch["discovery"] /\ born'["discovery"] = born["discovery"]
  BY Zenon, <1>1, <1>2, WhoIsBusyNext, WhoIsBusy
<1>5. HistTypes'
  <2> QED BY Zenon, <1>1, <1>2 DEF HistInv, HistTypes, NoOutset
<1>6. \A o \in Owners : Busy(o)' => Busy(o) /\ born'[o] = born[o]
  BY Zenon, <1>1, <1>4, WhoIsBusy, WhoIsBusyNext DEF Owners
<1>7. Owned'
  BY <1>1, <1>4, WhoIsBusy, WhoIsBusyNext DEF HistInv, Owned
<1>8. \A x \in Requests : Busy(x)' => Busy(x) /\ outset'[x] = outset[x]
  BY Zenon, <1>4, WhoIsBusy, WhoIsBusyNext
<1> QED BY Zenon, <1>4, <1>5, <1>6, <1>7, <1>8 DEF HistMove, Owners

LEMMA ResumeHist ==
    ASSUME Inv, HistInv, NEW r \in Requests, Resume(r)
    PROVE  HistMove
<1>1. clock' = clock /\ pc[r] = "resumed"
  BY Zenon DEF Resume
<1>2. CASE verdict[r] # "ok" /\ Complete(r, verdict[r])
  BY Zenon, <1>1, <1>2, CompleteHist
<1>3. CASE Send(r, held) /\ UNCHANGED <<attempt, history>>
  <2>1. born' = born /\ outset' = outset /\ attempt' = attempt /\ disc' = disc
    BY Zenon, <1>3 DEF history, Send
  <2>2. Turn(r)
    BY Zenon, <1>3, SendTurns
  <2>4. Owned'
    BY Zenon, <2>1, <2>2, TurnKeepsOwned DEF Inv, TypeOK
  <2>5. Busy(r) /\ Started["discovery"] = born["discovery"]
    BY Zenon, <1>1, <2>1, WhoIsBusy, StartedIs
  <2>6. /\ \A o \in Owners : Busy(o)' => born'[o] = clock.run \/ (Busy(o) /\ born'[o] = born[o])
        /\ \A o \in Owners : exch'[o] # None =>
              exch'[o].answers = {} \/ (exch'[o] = exch[o] /\ born'[o] = born[o])
    BY Zenon, <2>1, <2>2, <2>5, TurnKeepsBirths
  <2>7. \A x \in Requests : Busy(x)' => Busy(x) /\ outset'[x] = outset[x]
    BY Zenon, <2>1, <2>2, <2>5, WhoIsBusy, WhoIsBusyNext DEF Turn
  <2> QED BY Zenon, <1>1, <2>1, <2>4, <2>6, <2>7 DEF HistMove, HistInv, HistTypes
<1> QED BY Zenon, <1>2, <1>3 DEF Resume

LEMMA EndExchangeHist ==
    ASSUME Inv, HistInv, NEW r \in Requests, EndExchange(r)
    PROVE  HistMove
<1>1. clock' = clock /\ pc[r] = "exchange"
  BY Zenon DEF EndExchange
<1>2. ASSUME NEW code, Complete(r, code) PROVE HistMove
  BY Zenon, <1>1, <1>2, CompleteHist
<1>3. ASSUME NEW h, Ask(r, h), attempt' = [attempt EXCEPT ![r] = 1], born' = Started, outset' = outset
      PROVE  HistMove
  <2>1. Turn(r) /\ Busy(r)
    BY Zenon, <1>1, <1>3, AskTurns, WhoIsBusy
  <2>3. Owned'
    BY Zenon, <1>3, <2>1, TurnKeepsOwned DEF Inv, TypeOK
  <2>4. HistTypes'
    BY Zenon, <1>1, <1>3, StartedIs DEF HistInv, HistTypes
  <2>5. /\ \A o \in Owners : Busy(o)' => born'[o] = clock.run \/ (Busy(o) /\ born'[o] = born[o])
        /\ \A o \in Owners : exch'[o] # None =>
              exch'[o].answers = {} \/ (exch'[o] = exch[o] /\ born'[o] = born[o])
    BY Zenon, <1>3, <2>1, StartedIs, TurnKeepsBirths
  <2>6. \A x \in Requests : Busy(x)' => Busy(x) /\ outset'[x] = outset[x]
    BY Zenon, <1>3, <2>1, WhoIsBusy, WhoIsBusyNext DEF Turn
  <2> QED BY Zenon, <2>3, <2>4, <2>5, <2>6 DEF HistMove
<1> QED BY Zenon, <1>2, <1>3 DEF EndExchange

LEMMA FinishHist ==
    ASSUME Inv, HistInv, NEW code, Finish(code), UNCHANGED <<clock, attempt, outset>>
    PROVE  HistMove
<1>2. /\ born \in [Owners -> Nat] /\ exch \in [Owners -> Exchanges \union {None}]
      /\ "discovery" \in Owners
      /\ \A x \in Requests : x \in Owners /\ x # "discovery"
  BY Zenon, WhoIsBusy DEF Inv, TypeOK, HistInv, HistTypes
<1>3. /\ exch'["discovery"] = None /\ ~Busy("discovery")'
      /\ \A x \in Requests : /\ exch'[x] = exch[x] /\ born'[x] = born[x]
                             /\ Busy(x)' <=> Busy(x)
                             /\ pc[x] = "exchange" => pc'[x] = "exchange"
      /\ born' \in [Owners -> Nat]
  BY Zenon, <1>2, WhoIsBusy, WhoIsBusyNext DEF Finish
<1> QED BY Zenon, <1>3 DEF HistMove, HistInv, HistTypes, Owned, Owners

LEMMA EndIdentifyHist ==
    ASSUME Inv, HistInv, NEW p \in Pairs, EndIdentify(p)
    PROVE  HistMove
<1>1. disc = "identify" /\ UNCHANGED <<clock, attempt, outset>>
  BY Zenon DEF EndIdentify
<1>2. CASE held.synced
  BY Zenon, <1>2, <1>1, FinishHist DEF EndIdentify
<1>3. CASE ~held.synced
  <2> DEFINE zero == [boots |-> 0, time |-> 0]
             e == Exchange(zero)
  <2>1. e.answers = {} /\ ~e.dropped /\ e.stamp.boots = 0
    BY Zenon DEF Exchange
  <2>2. /\ disc' = "sync" /\ exch' = [exch EXCEPT !["discovery"] = e]
        /\ pc' = pc /\ born' = born
    BY Zenon, <1>3 DEF EndIdentify
  <2> HIDE DEF e
  <2>3. exch'["discovery"] = e /\ \A x \in Requests : exch'[x] = exch[x]
    BY Zenon, <2>2, WhoIsBusy DEF Inv, TypeOK
  <2>4. \A o \in Owners : Busy(o)' <=> Busy(o)
    BY Zenon, <1>1, <2>2, WhoIsBusy, WhoIsBusyNext DEF Owners
  <2>5. HistTypes' /\ Owned'
    BY Zenon, <1>1, <2>1, <2>2, <2>3, <2>4, WhoIsBusy DEF HistInv, HistTypes, Owned
  <2> QED BY Zenon, <1>1, <2>1, <2>2, <2>3, <2>4, <2>5, WhoIsBusy DEF HistMove, Owners
<1> QED BY Zenon, <1>2, <1>3

LEMMA EndSyncHist ==
    ASSUME Inv, HistInv, EndSync \/ EndUnanswered
    PROVE  HistMove /\ clock' = clock
<1> QED BY Zenon, FinishHist DEF EndSync, EndUnanswered

\* The Engine's own steps.
LEMMA TickHist == HistInv /\ Inv /\ Tick => HistInv'
<1> SUFFICES ASSUME HistInv, Inv, Tick PROVE HistInv'
  BY Zenon
<1>1. /\ clock'.run = clock.run /\ clock'.boots = clock.boots
      /\ UNCHANGED <<held, disc, exch, pc, attempt, born, outset>>
  BY Zenon DEF Tick, Inv, TypeOK, request, history
<1>2. \A o : Busy(o)' <=> Busy(o)
  BY Zenon, <1>1 DEF Busy
<1> QED BY Zenon, <1>1, <1>2 DEF HistInv, HistTypes, Owned, Aged, Covered, Answered, Earned

\* After a break every request in flight has met a run before the Engine's own.
LEMMA BreakHist ==
    ASSUME Inv, HistInv, NEW p \in Pairs, Break(p)
    PROVE  HistInv' /\ \A r \in Requests : Busy(r)' => \E n \in outset'[r].met : n < clock'.run
<1>1. /\ clock'.run = clock.run + 1 /\ clock'.boots = p.boots
      /\ UNCHANGED <<held, disc, exch, pc, attempt, born, outset>>
  BY Zenon DEF Break, request, history
<1>2. clock.run \in Nat /\ clock.boots \in Nat /\ p.boots \in Nat
  BY EngineClockAssumption DEF Inv, TypeOK, Pairs
<1>3. clock'.boots > 0
  BY <1>1, <1>2 DEF Break, HistInv, HistTypes
<1>4. \A o : Busy(o)' <=> Busy(o)
  BY Zenon, <1>1 DEF Busy
<1>5. /\ \A o \in Owners : born[o] \in Nat
      /\ \A r \in Requests : outset[r].met \subseteq Nat
  BY Zenon DEF HistInv, HistTypes
<1>6. Aged'
  BY <1>1, <1>2, <1>4, <1>5 DEF HistInv, Aged, Covered
<1>7. ASSUME NEW r \in Requests, Busy(r)' PROVE \E n \in outset'[r].met : n < clock'.run
  BY <1>4, <1>7, WhoIsBusy, <1>5, <1>1, <1>2 DEF HistInv, Aged, Covered
<1> QED BY Zenon, <1>1, <1>3, <1>4, <1>6, <1>7 DEF HistInv, HistTypes, Owned, Answered, Earned

\* An answer is of the run it is given in, and the message's stamp decides its type.
LEMMA AnswerHist ==
    ASSUME Inv, HistInv, NEW o \in Owners, Answer(o)
    PROVE  /\ HistInv'
           /\ \A x \in Owners : exch[x] # None =>
                 /\ exch'[x].stamp = exch[x].stamp /\ exch'[x].since = exch[x].since
                 /\ exch'[x].dropped = exch[x].dropped
<1> DEFINE reply == [type |-> IF InWindow(exch[o].stamp) THEN "Response" ELSE "notInTimeWindows",
                     boots |-> clock.boots, time |-> clock.time, run |-> clock.run, at |-> now]
<1>1. /\ exch[o] # None
      /\ exch' = [exch EXCEPT ![o].answers = @ \union {reply}]
      /\ UNCHANGED <<clock, disc, pc, attempt, born, outset>>
  BY Zenon DEF Answer, request, history
<1>0. PICK m : m = reply
  BY ZenonT(40)
<1>2. /\ m.boots = clock.boots /\ m.run = clock.run /\ m.time = clock.time
      /\ m.type = "Response" <=> InWindow(exch[o].stamp)
  BY Zenon, <1>0
<1> HIDE DEF reply
<1>3. exch \in [Owners -> Exchanges \union {None}] /\ exch[o] \in Exchanges
  BY Zenon, <1>1 DEF Inv, TypeOK
<1>4. /\ exch'[o].answers = exch[o].answers \union {m}
      /\ exch'[o].stamp = exch[o].stamp /\ exch'[o].dropped = exch[o].dropped
      /\ exch'[o].since = exch[o].since
      /\ \A x \in Owners : x # o => exch'[x] = exch[x]
  BY Zenon, <1>0, <1>1, <1>3 DEF Exchanges
<1>5. \A x \in Owners : exch'[x] # None => exch[x] # None
  BY Zenon, <1>1, <1>4
<1>6. \A x : Busy(x)' <=> Busy(x)
  BY Zenon, <1>1 DEF Busy
<1>8. HistTypes' /\ Owned' /\ Aged'
  <2>2. Owned'
    BY Zenon, <1>1, <1>4, <1>5, <1>6, WhoIsBusy DEF HistInv, Owned
  <2> QED BY Zenon, <1>1, <1>6, <2>2 DEF HistInv, HistTypes, Aged, Covered
<1>9. ASSUME NEW x \in Owners, exch'[x] # None, NEW n \in exch'[x].answers
      PROVE  born'[x] <= n.run /\ n.boots > 0 /\ Earned(exch'[x], n)
  <2>1. CASE n \in exch[x].answers
    BY <1>1, <1>4, <1>5, <1>9, <2>1 DEF HistInv, Answered, Earned
  <2>2. CASE x = o /\ n = m
    <3>1. born[o] <= clock.run /\ clock.boots > 0
      BY Zenon, <1>1, WhoIsBusy DEF HistInv, Aged, HistTypes, Owned, Owners
    <3>2. Earned(exch'[o], m)
      BY Zenon, <1>2, <1>4 DEF Earned, InWindow
    <3> QED BY Zenon, <1>1, <1>2, <2>2, <3>1, <3>2
  <2> QED BY Zenon, <1>4, <1>9, <2>1, <2>2
<1>10. Answered'
  BY Zenon, <1>9 DEF Answered, Earned
<1> QED BY Zenon, <1>4, <1>8, <1>10 DEF HistInv

\* deliverV3 drops nothing of a discovery's.
LEMMA DeliverHist ==
    ASSUME Inv, HistInv, NEW o \in Owners, exch[o] # None, NEW m \in exch[o].answers, Deliver(o, m)
    PROVE  /\ HistInv'
           /\ \A x \in Owners : exch[x] # None =>
                 /\ exch'[x].stamp = exch[x].stamp /\ exch'[x].since = exch[x].since
                 /\ x # o \/ Timely(m) \/ m.type # "Response" => exch'[x].dropped = exch[x].dropped
<1>1. /\ exch \in [Owners -> Exchanges \union {None}] /\ exch[o] \in Exchanges
      /\ m \in Replies
      /\ UNCHANGED <<clock, disc, pc, attempt, born, outset>>
  BY Zenon DEF Inv, TypeOK, Exchanges, Deliver, request, history
<1>2. /\ exch'[o].since = exch[o].since /\ exch'[o].answers = exch[o].answers
      /\ exch'[o].stamp = exch[o].stamp
      /\ Timely(m) \/ m.type # "Response" => exch'[o].dropped = exch[o].dropped
      /\ \A x \in Owners : x # o => exch'[x] = exch[x]
  <2>1. CASE m.type = "Response" /\ ~Timely(m)
    <3>1. exch' = [exch EXCEPT ![o].dropped = TRUE]
      BY Zenon, <2>1 DEF Deliver
    <3> QED BY ZenonT(40), <1>1, <2>1, <3>1 DEF Exchanges
  <2>2. CASE ~(m.type = "Response" /\ ~Timely(m))
    <3>1. exch' = [exch EXCEPT ![o].reply = m]
      BY Zenon, <2>2 DEF Deliver
    <3> QED BY Zenon, <1>1, <3>1 DEF Exchanges
  <2> QED BY Zenon, <2>1, <2>2
<1>3. \A x \in Owners : exch'[x] # None => exch[x] # None
  BY Zenon, <1>2
<1>4. \A x : Busy(x)' <=> Busy(x)
  BY Zenon, <1>1 DEF Busy
<1>5. HistTypes' /\ Aged'
  BY Zenon, <1>1, <1>4 DEF HistInv, HistTypes, Aged, Covered
<1>6. Answered'
  BY <1>1, <1>2, <1>3 DEF HistInv, Answered, Earned
<1>7. o = "discovery" => m.type # "Response"
  BY <1>1, EngineClockAssumption DEF HistInv, Owned, Answered, Replies, Earned
<1>8. Owned'
  BY Zenon, <1>1, <1>2, <1>3, <1>4, <1>7, WhoIsBusy DEF HistInv, Owned
<1> QED BY Zenon, <1>2, <1>5, <1>6, <1>8 DEF HistInv

-----------------------------------------------------------------------------
(* A request that nothing older was in flight with.                        *)

\* When the Engine's clock was at 0, by the local clock.
Zero == clock.time - now

\* The pair held is of a clock that has broken.
Stale == held.synced /\ held.run # clock.run

\* The Engine's clock has not broken since anything in flight began, and is in reach.
Quiet(r) ==
    /\ Busy(r)
    /\ ~\E n \in outset[r].met : n < clock.run
    /\ ~outset[r].locked
    /\ clock.boots # BootsCeiling

\* A message stamped with the Engine's own time, or with less by an exchange's life.
OnTime(e) ==
    /\ e.stamp.boots = clock.boots
    /\ e.stamp.time - (Zero + e.since) \in (-Life)..0

\* A message stamped by a pair of a clock that has broken, from which it can be followed.
InReach(e) ==
    /\ e.stamp.boots = held.boots
    /\ clock.boots = held.boots =>
          /\ held.time <= Zero + e.since
          /\ \/ Origin(held) - Zero <= Window - Life
             \/ e.stamp.time - (Zero + e.since) > Window + Life

\* Where such a request is never told that it is out of the Time Window.
Sound(r) ==
    /\ pc[r] \in {"parked", "resumed"} => ~Stale
    /\ pc[r] = "resumed" => verdict[r] # "NotInTimeWindow" /\ (verdict[r] = "ok" => held.synced)
    /\ pc[r] = "exchange" =>
          /\ ~exch[r].dropped
          /\ attempt[r] = 1 => ~Stale /\ OnTime(exch[r])
          /\ Stale => InReach(exch[r])

\* A request whose Engine's clock stays unbroken is followed, where two exchanges fit the
\* Time Window.
RecoverInv == 2 * Life <= Window => \A r \in Requests : Quiet(r) => Sound(r)

\* Every reply in flight with such a request is of the clock as it runs.
LEMMA KnownIsCurrent ==
    ASSUME Inv, HistInv, NEW r \in Requests, Quiet(r), NEW m \in Known
    PROVE  m \in Replies /\ m.run = clock.run /\ m.boots = clock.boots /\ Origin(m) = Zero
<1>1. PICK o \in Owners : exch[o] # None /\ m \in exch[o].answers
  BY Zenon DEF Known
<1>2. m \in Replies /\ m.run \in Nat /\ clock.run \in Nat /\ born[o] \in Nat
  BY SMTT(30), KnownIsTyped, EngineClockAssumption DEF Inv, TypeOK, Replies, HistInv, HistTypes
<1>3. Busy(o)
  BY Zenon, <1>1, WhoIsBusy DEF HistInv, Owned, Owners
<1>4. clock.run <= born[o] /\ born[o] <= m.run
  BY <1>3, <1>1, <1>2 DEF HistInv, Aged, Covered, Quiet, HistTypes, Answered
<1> QED BY <1>2, <1>4 DEF Inv, ClockInv, Truthful, Zero

\* The pair held moves, and stops being trusted only for a reply of a lower boots count.
HeldStays ==
    /\ HeldMove(held')
    /\ held.synced /\ ~held'.synced => \E m \in Known : m.boots < held.boots

\* The pair held never goes back to a clock that has broken, and a pair of the one that
\* runs stays trusted.
LEMMA HeldIsCurrent ==
    ASSUME Inv, HistInv, NEW r \in Requests, Quiet(r), HeldStays, clock'.run = clock.run
    PROVE  /\ Stale' => held' = held
           /\ held.synced /\ ~Stale => held'.synced
<1>1. ASSUME NEW m \in Known, held' = Taken(m) PROVE ~Stale'
  BY Zenon, KnownIsCurrent, <1>1 DEF Stale, Taken
<1>3. ASSUME held.synced, ~Stale, NEW m \in Known, m.boots < held.boots PROVE FALSE
  <2> QED
    BY <1>3, KnownIsCurrent, EngineClockAssumption DEF Inv, ClockInv, Truthful, Stale, Replies
<1> QED BY Zenon, <1>1, <1>3 DEF HeldStays, HeldMove, Stale

\* A step that leaves the request where it is.
Aside(r) ==
    /\ clock'.run = clock.run /\ clock'.boots = clock.boots /\ Zero' = Zero
    /\ pc'[r] = pc[r] /\ attempt'[r] = attempt[r] /\ outset'[r] = outset[r]
    /\ pc[r] = "resumed" => verdict'[r] = verdict[r]
    /\ pc[r] = "exchange" => /\ exch'[r].stamp = exch[r].stamp
                             /\ exch'[r].since = exch[r].since
                             /\ exch'[r].dropped = exch[r].dropped

\* A step aside keeps the request sound.
LEMMA AsideKeeps ==
    ASSUME Inv, HistInv, RecoverInv, 2 * Life <= Window, NEW r \in Requests, Quiet(r)', Aside(r),
           HeldStays
    PROVE  Sound(r)'
<1>1. Quiet(r)
  BY Zenon, WhoIsBusy, WhoIsBusyNext DEF Quiet, Aside
<1>2. Sound(r)
  BY Zenon, <1>1 DEF RecoverInv
<1>3. (Stale' => held' = held) /\ (held.synced /\ ~Stale => held'.synced)
  BY Zenon, <1>1, HeldIsCurrent DEF Aside
<1>4. Stale' => Stale /\ held' = held
  BY Zenon, <1>3 DEF Stale, Aside
<1>5. pc'[r] \in {"parked", "resumed"} => ~Stale'
  BY Zenon, <1>2, <1>4 DEF Sound, Aside
<1>6. pc'[r] = "resumed" => verdict'[r] # "NotInTimeWindow" /\ (verdict'[r] = "ok" => held'.synced)
  BY Zenon, <1>2, <1>3 DEF Sound, Aside
<1>7. ASSUME pc'[r] = "exchange"
      PROVE  /\ ~exch'[r].dropped
             /\ attempt'[r] = 1 => ~Stale' /\ OnTime(exch[r])'
             /\ Stale' => InReach(exch[r])'
  <2>1. /\ ~exch[r].dropped
        /\ attempt[r] = 1 => ~Stale /\ OnTime(exch[r])
        /\ Stale => InReach(exch[r])
    BY Zenon, <1>2, <1>7 DEF Sound, Aside
  <2>2. OnTime(exch[r]) => OnTime(exch[r])'
    BY Zenon, <1>7 DEF OnTime, Aside
  <2>3. InReach(exch[r]) /\ held' = held => InReach(exch[r])'
    BY Zenon, <1>7 DEF InReach, Aside, Origin
  <2> QED BY Zenon, <1>4, <1>7, <2>1, <2>2, <2>3 DEF Aside
<1> QED BY Zenon, <1>5, <1>6, <1>7 DEF Sound

\* A message sent with a trusted pair of the clock that runs is on time.
LEMMA SentOnTime ==
    ASSUME Inv, Inv', NEW r \in Requests, NEW h, h = held', h.synced, h.run = clock.run,
           Send(r, h), clock' = clock, now' = now
    PROVE  Sound(r)'
<1>1. /\ now \in Nat /\ clock.time \in Nat /\ Life \in Nat /\ TimeCeiling \in Nat
      /\ clock.time <= TimeCeiling /\ h.at \in Nat /\ h.time \in Nat
      /\ exch \in [Owners -> Exchanges \union {None}] /\ DOMAIN pc = Requests /\ r \in Owners
  BY SMTT(30), EngineClockAssumption DEF Inv, TypeOK, Owners
<1>2. h.boots = clock.boots /\ h.time - h.at <= clock.time - now
      /\ clock.time - now <= (h.time - h.at) + Life
  BY Zenon DEF Inv, ClockInv, Close, Origin
<1>3. Projected(h) = h.time + (now - h.at)
  BY Zenon DEF Projected
<1>4. Stamped(h).boots = h.boots /\ Stamped(h).time = Projected(h)
  BY <1>1, <1>2, <1>3, EngineClockAssumption DEF Stamped
<1>5. /\ pc'[r] = "exchange" /\ exch'[r].stamp = Stamped(h) /\ exch'[r].since = now
      /\ exch'[r].dropped = FALSE
  BY Zenon, <1>1 DEF Send, Exchange
<1>7. OnTime(exch[r])'
  BY <1>1, <1>2, <1>3, <1>4, <1>5 DEF OnTime, Zero
<1> QED BY Zenon, <1>5, <1>7 DEF Sound, Stale

\* A turn of the loop that leaves nothing of a broken clock.
LEMMA AskIsSound ==
    ASSUME Inv, Inv', NEW r \in Requests, NEW h, Ask(r, h), clock' = clock, now' = now,
           h.synced => h.run = clock.run
    PROVE  Sound(r)'
<1>1. held' = h
  BY Zenon DEF Ask
<1>2. CASE h.synced
  BY Zenon, <1>1, <1>2, SentOnTime DEF Ask
<1>3. CASE ~h.synced
  <2>1. pc'[r] = "parked"
    BY <1>3 DEF Ask, Park, Inv, TypeOK
  <2> QED BY Zenon, <1>1, <1>3, <2>1 DEF Sound, Stale
<1> QED BY Zenon, <1>2, <1>3

\* The request begins: if with a pair of a clock that has broken, then in reach.
LEMMA BeginSound ==
    ASSUME Inv, HistInv, Inv', NEW r \in Requests, Begin(r), Quiet(r)'
    PROVE  Sound(r)'
<1>1. Ask(r, held) /\ clock' = clock /\ now' = now /\ attempt' = attempt /\ held' = held
  BY Zenon DEF Begin, Ask
<1>2. CASE held.synced => held.run = clock.run
  BY Zenon, <1>1, <1>2, AskIsSound
<1>3. CASE held.synced /\ held.run # clock.run
  <2>1. /\ now \in Nat /\ clock.time \in Nat /\ held.at \in Nat /\ held.time \in Nat
        /\ Life \in Nat /\ Window \in Nat
        /\ exch \in [Owners -> Exchanges \union {None}] /\ DOMAIN pc = Requests
        /\ r \in Owners
    BY EngineClockAssumption DEF Inv, TypeOK, Owners
  <2>2. ~OutOfReach
    BY Zenon DEF Begin, HistInv, HistTypes, Quiet
  <2>3. /\ pc'[r] = "exchange" /\ exch'[r].stamp = Stamped(held) /\ exch'[r].since = now
        /\ exch'[r].dropped = FALSE
    BY SMTT(30), <1>1, <1>3, <2>1 DEF Ask, Send, Exchange
  <2>4. attempt'[r] = 0
    BY Zenon, <1>1, WhoIsBusy DEF Begin, HistInv, Owned
  <2>5. Stamped(held).boots = held.boots /\ Stamped(held).time \in Int
    BY SMTT(30), <2>1, EngineClockAssumption DEF Stamped, Projected
  <2>7. InReach(exch[r])'
    <3>1. clock.boots = held.boots =>
           /\ held.time <= (clock.time - now) + now
           /\ \/ (held.time - held.at) - (clock.time - now) <= Window - Life
              \/ Stamped(held).time - ((clock.time - now) + now) > Window + Life
      BY <1>3, <2>1, <2>2, <2>5 DEF OutOfReach, Projected
    <3> QED BY Zenon, <1>1, <2>3, <2>5, <3>1 DEF InReach, Zero, Origin
  <2> QED BY SMTT(30), <2>3, <2>4, <2>7 DEF Sound
<1> QED BY Zenon, <1>2, <1>3

\* The request goes on from a discovery.
LEMMA ResumeSound ==
    ASSUME Inv, HistInv, RecoverInv, 2 * Life <= Window, Inv', NEW r \in Requests, Resume(r), Quiet(r)'
    PROVE  Sound(r)'
<1>1. clock' = clock /\ now' = now /\ pc[r] = "resumed" /\ held' = held
  BY Zenon DEF Resume
<1>2. verdict[r] = "ok" /\ Send(r, held) /\ outset' = outset
  <2>1. ASSUME Complete(r, verdict[r]) PROVE FALSE
    <3> QED BY <2>1, WhoIsBusyNext DEF Quiet, Complete, Inv, TypeOK
  <2> QED BY Zenon, <2>1 DEF Resume, history
<1>4. held.synced /\ held.run = clock.run
  BY Zenon, <1>1, <1>2, WhoIsBusy DEF RecoverInv, Sound, Stale, Quiet
<1> QED BY Zenon, <1>1, <1>2, <1>4, SentOnTime

\* A reply to a message that is in reach brings the pair held to the clock that runs.
LEMMA ReportBringsBack ==
    ASSUME Inv, HistInv, NEW r \in Requests, Quiet(r), Sound(r), pc[r] = "exchange",
           NEW m, m \in exch[r].answers, NEW h, h = Reported(m), h.synced
    PROVE  h.run = clock.run
<1>1. r \in Owners /\ exch[r] # None /\ m \in Known
  BY Zenon DEF Inv, ControlInv, Owners, Known
<1>2. m \in Replies /\ m.run = clock.run /\ m.boots = clock.boots /\ Origin(m) = Zero
  BY Zenon, <1>1, KnownIsCurrent
<1>3. Taken(m).run = clock.run
  BY Zenon, <1>2 DEF Taken
<1>4. CASE Stale
  <2>1. CASE m.boots < held.boots
    BY Zenon, <1>4, <2>1 DEF Reported, Stale, Inv, TypeOK
  <2>2. CASE ~(m.boots < held.boots)
    <3>1. /\ m.boots \in Nat /\ held.boots \in Nat /\ m.time \in Nat /\ m.at \in Nat
          /\ held.time \in Nat /\ exch[r].since \in Nat /\ clock.time \in Nat /\ now \in Nat
      BY SMTT(30), <1>1, <1>2, EngineClockAssumption DEF Inv, TypeOK, Replies, Exchanges
    <3>2. exch[r].since <= m.at
      BY Zenon, <1>1 DEF Inv, ClockInv, InTime
    <3>3. m.boots = held.boots => held.time <= Zero + exch[r].since
      BY Zenon, <1>2, <1>4 DEF Sound, InReach
    <3>5. ~Refused(m)
      BY <1>2, <2>2, <3>1, <3>2, <3>3 DEF Refused, Quiet, Zero, Origin
    <3> QED BY Zenon, <1>3, <1>4, <2>2, <3>5 DEF Reported, Observed
  <2> QED BY Zenon, <2>1, <2>2
<1>5. CASE ~Stale
  BY Zenon, <1>3, <1>5 DEF Reported, Observed, Inv, TypeOK, Stale
<1> QED BY Zenon, <1>4, <1>5

\* The only turn after a report is one with the pair the report brought.
LEMMA EndExchangeSound ==
    ASSUME Inv, HistInv, RecoverInv, 2 * Life <= Window, Inv', NEW r \in Requests, EndExchange(r), Quiet(r)'
    PROVE  Sound(r)'
<1> DEFINE m == exch[r].reply
<1>1. clock' = clock /\ now' = now /\ pc[r] = "exchange"
  BY Zenon DEF EndExchange
<1>2. m # None /\ Ask(r, Reported(m)) /\ outset' = outset
  <2>1. ASSUME NEW code, Complete(r, code) PROVE FALSE
    <3> QED BY <2>1, WhoIsBusyNext DEF Quiet, Complete, Inv, TypeOK
  <2> QED BY Zenon, <2>1 DEF EndExchange
<1>3. Quiet(r)
  BY Zenon, <1>1, <1>2, WhoIsBusy DEF Quiet
<1>5. m \in exch[r].answers
  BY ZenonT(40), <1>1, <1>2 DEF Inv, ControlInv, ClockInv, InTime, Owners
<1> HIDE DEF m
<1>6. Reported(m).synced => Reported(m).run = clock.run
  BY Zenon, <1>1, <1>3, <1>5, ReportBringsBack DEF RecoverInv
<1> QED BY Zenon, <1>1, <1>2, <1>6, AskIsSound

\* What the requests parked on a discovery are told.
LEMMA FinishSound ==
    ASSUME Inv, HistInv, RecoverInv, 2 * Life <= Window, NEW r \in Requests, Quiet(r)',
           NEW code, Finish(code), UNCHANGED <<now, clock, attempt, outset>>, HeldStays,
           code # "NotInTimeWindow" \/ ~Quiet(r), code = "ok" => held'.synced
    PROVE  Sound(r)'
<1>1. /\ pc'[r] = (IF pc[r] = "parked" THEN "resumed" ELSE pc[r])
      /\ verdict'[r] = (IF pc[r] = "parked" THEN code ELSE verdict[r])
      /\ exch'[r] = exch[r]
  BY Zenon, WhoIsBusy DEF Finish, Inv, TypeOK
<1>2. CASE pc[r] # "parked"
  BY Zenon, <1>1, <1>2, AsideKeeps DEF Aside, Zero
<1>3. CASE pc[r] = "parked"
  <2>1. Quiet(r)
    BY Zenon, <1>1, <1>3, WhoIsBusy DEF Quiet
  <2>3. ~Stale'
    BY Zenon, <1>3, <2>1, HeldIsCurrent DEF Stale, RecoverInv, Sound
  <2> QED BY Zenon, <1>1, <1>3, <2>1, <2>3 DEF Sound
<1> QED BY Zenon, <1>2, <1>3

\* What the steps do to the pair held.
LEMMA ReplyHeld ==
    ASSUME Inv, NEW m \in Known, held' = Observed(m) \/ held' = Reported(m)
    PROVE  HeldStays
<1>2. held.synced /\ ~held'.synced => m.boots < held.boots
  BY DEF Taken, Observed, Reported
<1> QED BY Zenon, <1>2, ObservedMoves DEF HeldStays

\* A pair that does not change stays.
LEMMA HeldStaysPut == held' = held => HeldStays
BY Zenon DEF HeldStays, HeldMove

\* A discovery's last step.
LEMMA DiscoverySound ==
    ASSUME Inv, HistInv, RecoverInv, 2 * Life <= Window, NEW r \in Requests, Quiet(r)',
           (\E p \in Pairs : EndIdentify(p)) \/ EndSync \/ EndUnanswered
    PROVE  Sound(r)'
<1>1. UNCHANGED <<now, clock, attempt, outset>>
  BY ZenonT(40) DEF EndIdentify, EndSync, EndUnanswered
<1>2. ASSUME NEW p \in Pairs, EndIdentify(p) PROVE Sound(r)'
  <2>1. CASE held.synced
    <3>1. Finish("ok") /\ held' = held
      BY Zenon, <1>2, <2>1 DEF EndIdentify
    <3> QED BY Zenon, <1>1, <2>1, <3>1, FinishSound, HeldStaysPut
  <2>2. CASE ~held.synced
    <3>1. /\ pc' = pc /\ verdict' = verdict
          /\ \E e : exch' = [exch EXCEPT !["discovery"] = e]
      BY ZenonT(40), <1>2, <2>2 DEF EndIdentify
    <3>2. exch'[r] = exch[r]
      BY Zenon, <3>1, WhoIsBusy DEF Inv, TypeOK
    <3>4. HeldStays
      BY Zenon, <1>2, <2>2, EndIdentifySteps DEF ClientStep, HeldStays
    <3> QED BY Zenon, <1>1, <3>1, <3>2, <3>4, AsideKeeps DEF Aside, Zero
  <2> QED BY Zenon, <2>1, <2>2
<1>3. CASE EndSync
  <2> DEFINE m == exch["discovery"].reply
  <2>1. m \in Known
    BY ZenonT(40), <1>3, ReplyIsKnown DEF EndSync, Inv, ControlInv, Owners
  <2>2. CASE m.boots = BootsCeiling
    <3>1. Finish("NotInTimeWindow") /\ held' = held
      BY Zenon, <1>3, <2>2 DEF EndSync
    <3>2. ~Quiet(r)
      BY Zenon, <2>1, <2>2, KnownIsCurrent DEF Quiet
    <3> QED BY Zenon, <1>1, <3>1, <3>2, FinishSound, HeldStaysPut
  <2>3. CASE m.boots # BootsCeiling
    <3>1. Finish("ok") /\ held' = Taken(m) /\ held'.synced
      BY SMTT(30), <1>3, <2>3 DEF EndSync, Taken
    <3>2. HeldStays
      BY Zenon, <2>1, <2>3, <3>1 DEF HeldStays, HeldMove
    <3> QED BY Zenon, <1>1, <3>1, <3>2, FinishSound
  <2> QED BY Zenon, <2>2, <2>3
<1>4. CASE EndUnanswered
  <2>1. Finish(Silence("discovery")) /\ held' = held /\ disc # "none"
    BY Zenon, <1>4 DEF EndUnanswered
  <2>2. Silence("discovery") = "Timeout"
    BY Zenon, <2>1 DEF Silence, Inv, ControlInv, HistInv, Owned
  <2> QED BY Zenon, <1>1, <2>1, <2>2, FinishSound, HeldStaysPut
<1> QED BY Zenon, <1>2, <1>3, <1>4

\* Of a request in reach deliverV3 drops no Response: one that the Engine found timely is
\* found so, whatever pair is held.
LEMMA NoDrop ==
    ASSUME Inv, HistInv, 2 * Life <= Window, NEW r \in Requests, Quiet(r), Sound(r),
           exch[r] # None, NEW m \in exch[r].answers, m.type = "Response"
    PROVE  Timely(m)
<1>1. r \in Owners /\ pc[r] = "exchange" /\ m \in Known
  BY Zenon DEF HistInv, Owned, Owners, Known
<1>2. m \in Replies /\ m.run = clock.run /\ m.boots = clock.boots /\ Origin(m) = Zero
  BY Zenon, <1>1, KnownIsCurrent
<1>3. /\ now \in Nat /\ Window \in Nat /\ Life \in Nat /\ held.at \in Nat /\ held.time \in Nat
      /\ clock.time \in Nat /\ m.time \in Nat /\ m.at \in Nat /\ exch[r].since \in Nat
      /\ exch[r].stamp.time \in Nat
  BY SMTT(30), <1>1, <1>2, EngineClockAssumption DEF Inv, TypeOK, Replies, Exchanges, Pairs
<1>4. exch[r].since <= m.at /\ m.at <= now /\ now <= exch[r].since + Life
  BY Zenon, <1>1 DEF Inv, ClockInv, InTime
<1>5. CASE ~held.synced
  BY Zenon, <1>5 DEF Timely
<1>6. CASE held.synced /\ ~Stale
  <2>1. /\ held.boots = clock.boots
        /\ held.time - held.at <= clock.time - now
    BY Zenon, <1>6 DEF Stale, Inv, ClockInv, Close, Origin
  <2>2. m.time >= (held.time + (now - held.at)) - Window
    BY SMTT(30), <1>2, <1>3, <1>4, <2>1 DEF Zero, Origin
  <2> QED BY Zenon, <1>2, <2>1, <2>2 DEF Timely, Projected, Quiet
<1>7. CASE Stale
  <2>1. InReach(exch[r]) /\ Earned(exch[r], m)
    BY Zenon, <1>1, <1>7 DEF Sound, HistInv, Answered
  <2>2. /\ clock.boots = held.boots
        /\ exch[r].stamp.time - m.time <= Window
    BY SMTT(30), <1>2, <1>3, <2>1 DEF InReach, Earned
  <2>3. Origin(held) - Zero <= Window - Life
    <3>1. exch[r].stamp.time - (Zero + exch[r].since) <= Window + Life
      BY SMTT(30), <1>2, <1>3, <1>4, <2>2 DEF Zero, Origin
    <3>2. Zero \in Int
      BY SMTT(30), <1>3 DEF Zero
    <3> QED BY SMTT(30), <1>3, <2>1, <2>2, <3>1, <3>2 DEF InReach
  <2>4. m.time >= (held.time + (now - held.at)) - Window
    BY <1>2, <1>3, <1>4, <2>3 DEF Zero, Origin
  <2> QED BY Zenon, <1>2, <2>2, <2>4 DEF Timely, Projected, Quiet
<1> QED BY Zenon, <1>5, <1>6, <1>7 DEF Stale

\* A step of another request.
LEMMA OthersAside ==
    ASSUME Inv, HistInv, NEW r \in Requests, NEW x \in Requests, x # r,
           Begin(x) \/ Resume(x) \/ EndExchange(x)
    PROVE  Aside(r) /\ HeldStays
<1>1. now' = now /\ clock' = clock
  BY ZenonT(40) DEF Begin, Resume, EndExchange
<1>2. ASSUME Turn(x), attempt'[r] = attempt[r], outset'[r] = outset[r] PROVE Aside(r)
  BY Zenon, <1>1, <1>2 DEF Turn, Aside, Zero
<1>3. ASSUME NEW code, Complete(x, code) PROVE Aside(r)
  <2>1. /\ pc'[r] = pc[r] /\ attempt'[r] = attempt[r] /\ verdict'[r] = verdict[r]
        /\ outset'[r] = outset[r] /\ exch'[r] = exch[r]
    BY Zenon, <1>3, WhoIsBusy DEF Complete, Inv, TypeOK, HistInv, HistTypes
  <2> QED BY Zenon, <1>1, <2>1 DEF Aside, Zero
<1>4. CASE Begin(x)
  <2>1. Turn(x) /\ held' = held
    BY ZenonT(40), <1>4, AskTurns DEF Begin, Ask
  <2>2. attempt'[r] = attempt[r] /\ outset'[r] = outset[r]
    BY Zenon, <1>4 DEF Begin, HistInv, HistTypes
  <2> QED BY Zenon, <1>2, <2>1, <2>2, HeldStaysPut
<1>5. CASE Resume(x)
  <2>1. held' = held
    BY Zenon, <1>5 DEF Resume
  <2>2. CASE Send(x, held) /\ UNCHANGED <<attempt, history>>
    BY Zenon, <1>2, <2>1, <2>2, SendTurns, HeldStaysPut DEF history
  <2>3. CASE Complete(x, verdict[x])
    BY Zenon, <1>3, <2>1, <2>3, HeldStaysPut
  <2> QED BY ZenonT(40), <1>5, <2>2, <2>3 DEF Resume
<1>6. CASE EndExchange(x)
  <2> DEFINE m == exch[x].reply
  <2>1. m # None => m \in Known
    BY ZenonT(40), <1>6, ReplyIsKnown DEF EndExchange, Inv, ControlInv, Owners
  <2>2. ASSUME NEW code, Complete(x, code), held' = held \/ (m # None /\ held' = Observed(m))
        PROVE  Aside(r) /\ HeldStays
    BY Zenon, <1>3, <2>1, <2>2, ReplyHeld, HeldStaysPut
  <2>3. ASSUME m # None, Ask(x, Reported(m)), attempt' = [attempt EXCEPT ![x] = 1], outset' = outset
        PROVE  Aside(r) /\ HeldStays
    <3>1. Turn(x) /\ held' = Reported(m)
      BY Zenon, <2>3, AskTurns DEF Ask
    <3>2. attempt'[r] = attempt[r]
      BY Zenon, <2>3 DEF Inv, TypeOK
    <3> QED BY Zenon, <1>2, <2>1, <2>3, <3>1, <3>2, ReplyHeld
  <2> HIDE DEF m
  <2> QED BY ZenonT(40), <1>6, <2>2, <2>3 DEF EndExchange, m
<1> QED BY Zenon, <1>4, <1>5, <1>6

\* The Engine's steps, and the delivery of what it answered.
LEMMA EngineSound ==
    ASSUME Inv, HistInv, RecoverInv, 2 * Life <= Window, NEW r \in Requests, Quiet(r)',
           \/ Tick
           \/ \E p \in Pairs : Break(p)
           \/ \E o \in Owners : Answer(o)
           \/ \E o \in {x \in Owners : exch[x] # None} : \E m \in exch[o].answers : Deliver(o, m)
    PROVE  Sound(r)'
<1>0. r \in Owners /\ (pc[r] = "exchange" => exch[r] # None)
  BY Zenon DEF Owners, Inv, ControlInv
<1>1. CASE Tick
  <2>1. /\ clock'.time - now' = clock.time - now
        /\ clock'.run = clock.run /\ clock'.boots = clock.boots
    <3>2. /\ now' = now + 1 /\ clock'.time = clock.time + 1
          /\ clock'.run = clock.run /\ clock'.boots = clock.boots
      BY Zenon, <1>1 DEF Tick, Inv, TypeOK
    <3> QED BY <3>2, EngineClockAssumption DEF Inv, TypeOK
  <2>2. Aside(r) /\ held' = held
    BY Zenon, <1>1, <2>1 DEF Tick, Aside, Zero, request, history
  <2> QED BY Zenon, <2>2, AsideKeeps, HeldStaysPut
<1>2. ASSUME NEW p \in Pairs, Break(p) PROVE FALSE
  BY Zenon, <1>2, BreakHist DEF Quiet
<1>3. ASSUME NEW o \in Owners, Answer(o) PROVE Sound(r)'
  <2>1. Aside(r) /\ held' = held
    BY Zenon, <1>0, <1>3, AnswerHist DEF Answer, Aside, Zero, request, history
  <2> QED BY Zenon, <2>1, AsideKeeps, HeldStaysPut
<1>4. ASSUME NEW o \in Owners, exch[o] # None, NEW m \in exch[o].answers, Deliver(o, m) PROVE Sound(r)'
  <2>1. UNCHANGED <<now, clock, held, pc, attempt, verdict, outset>>
    BY Zenon, <1>4 DEF Deliver, request, history
  <2>2. Quiet(r)
    BY Zenon, <2>1, WhoIsBusy, WhoIsBusyNext DEF Quiet
  <2>3. r # o \/ Timely(m) \/ m.type # "Response"
    BY Zenon, <1>4, <2>2, NoDrop DEF RecoverInv
  <2>4. Aside(r)
    BY ZenonT(40), <1>0, <1>4, <2>1, <2>3, DeliverHist DEF Aside, Zero
  <2> QED BY Zenon, <2>1, <2>4, AsideKeeps, HeldStaysPut
<1> QED BY Zenon, <1>1, <1>2, <1>3, <1>4

\* Every step keeps what is known of what is in flight.
LEMMA HistKeeps == Inv /\ HistInv /\ [Next]_vars => HistInv'
<1> SUFFICES ASSUME Inv, HistInv, [Next]_vars PROVE HistInv'
  BY Zenon
<1>1. ASSUME HistMove, clock' = clock PROVE HistInv'
  BY Zenon, <1>1, HistMoveKeeps
<1>2. ASSUME NEW p \in Pairs, EndIdentify(p) PROVE HistInv'
  BY ZenonT(40), <1>1, <1>2, EndIdentifyHist DEF EndIdentify
<1>3. ASSUME NEW r \in Requests, Begin(r) \/ Resume(r) \/ EndExchange(r) PROVE HistInv'
  <2>1. clock' = clock
    BY ZenonT(40), <1>3 DEF Begin, Resume, EndExchange
  <2> QED BY Zenon, <1>1, <1>3, <2>1, BeginHist, ResumeHist, EndExchangeHist
<1>4. CASE EndSync \/ EndUnanswered
  BY Zenon, <1>1, <1>4, EndSyncHist
<1>5. CASE UNCHANGED vars
  BY Zenon, <1>5 DEF vars, request, history, HistInv, HistTypes, Owned, Aged, Covered,
     Answered, Earned, Busy
<1> QED BY Zenon, <1>2, <1>3, <1>4, <1>5, TickHist, BreakHist, AnswerHist, DeliverHist DEF Next

\* Every step keeps every such request sound.
LEMMA RecoverKeeps == Inv /\ HistInv /\ RecoverInv /\ [Next]_vars => RecoverInv'
<1> SUFFICES ASSUME Inv, HistInv, RecoverInv, [Next]_vars, 2 * Life <= Window,
                    NEW r \in Requests, Quiet(r)'
             PROVE  Sound(r)'
  BY Zenon DEF RecoverInv
<1>2. ASSUME NEW x \in Requests, Begin(x) \/ Resume(x) \/ EndExchange(x) PROVE Sound(r)'
  <2>1. CASE x = r
    BY Zenon, <1>2, <2>1, BeginSound, ResumeSound, EndExchangeSound, NextKeeps
  <2>2. CASE x # r
    BY Zenon, <1>2, <2>2, OthersAside, AsideKeeps
  <2> QED BY Zenon, <2>1, <2>2
<1>3. CASE UNCHANGED vars
  BY Zenon, <1>3, AsideKeeps, HeldStaysPut DEF vars, request, history, Aside, Zero
<1> QED BY Zenon, <1>2, <1>3, EngineSound, DiscoverySound DEF Next

\* Nothing is in flight at first.
LEMMA InitRecovers == Init => HistInv /\ RecoverInv
<1> SUFFICES ASSUME Init PROVE HistInv /\ RecoverInv
  BY Zenon
<1>1. \A o \in Owners : exch[o] = None /\ ~Busy(o)
  BY Zenon DEF Init, Owners, Busy
<1>4. Owned /\ Aged /\ Answered
  BY Zenon, <1>1, WhoIsBusy DEF Init, Owned, Aged, Answered
<1>5. RecoverInv
  BY ZenonT(40), <1>1, WhoIsBusy DEF RecoverInv, Quiet
<1> QED BY <1>4, <1>5, EngineClockAssumption DEF HistInv, Init, HistTypes, NoOutset

\* A retry that was sent on time is answered with a Response.
LEMMA OnTimeIsAnswered ==
    ASSUME Inv, HistInv, 2 * Life <= Window, NEW r \in Requests, Quiet(r), exch[r] # None,
           OnTime(exch[r]), NEW m \in exch[r].answers
    PROVE  m.type = "Response"
<1>1. r \in Owners /\ m \in Known
  BY Zenon DEF Owners, Known
<1>2. m \in Replies /\ m.boots = clock.boots /\ Origin(m) = Zero
  BY Zenon, <1>1, KnownIsCurrent
<1>3. /\ now \in Nat /\ Window \in Nat /\ Life \in Nat /\ clock.time \in Nat
      /\ m.time \in Nat /\ m.at \in Nat /\ exch[r].since \in Nat /\ exch[r].stamp.time \in Nat
  BY SMTT(30), <1>1, <1>2, EngineClockAssumption DEF Inv, TypeOK, Replies, Exchanges, Pairs
<1>4. exch[r].since <= m.at /\ m.at <= now /\ now <= exch[r].since + Life
  BY Zenon, <1>1 DEF Inv, ClockInv, InTime
<1>5. exch[r].stamp.time - m.time \in (-Window)..Window
  BY <1>2, <1>3, <1>4 DEF OnTime, Zero, Origin
<1> QED BY ZenonT(40), <1>1, <1>2, <1>5 DEF OnTime, Quiet, HistInv, Answered, Earned

\* doRequestV3 answers NotInTimeWindow only where the Engine's clock broke under what was
\* in flight, is out of reach, or is at its end: the next request after a break recovers.
THEOREM OutOfStepIsRecovered == Spec => OutOfStepRecovers
<1> DEFINE Recovers ==
      2 * Life <= Window =>
        \A r \in Requests :
           pc[r] # "done" /\ pc'[r] = "done" /\ result'[r] = "NotInTimeWindow" =>
              \/ \E n \in outset[r].met : n < clock.run
              \/ outset[r].locked
              \/ clock.boots = BootsCeiling
<1>1. Spec => [](HistInv /\ RecoverInv)
  BY Invariance, InitRecovers, HistKeeps, RecoverKeeps, PTL DEF Spec
<1>2. Inv /\ HistInv /\ RecoverInv /\ [Next]_vars => [Recovers]_vars
  <2> SUFFICES ASSUME Inv, HistInv, RecoverInv, Next, 2 * Life <= Window, NEW r \in Requests,
                      pc[r] # "done", pc'[r] = "done", result'[r] = "NotInTimeWindow",
                      ~\E n \in outset[r].met : n < clock.run, ~outset[r].locked,
                      clock.boots # BootsCeiling
               PROVE  FALSE
    BY Zenon DEF vars, request
  <2>1. ASSUME NEW x \in Requests, Begin(x) \/ Resume(x) \/ EndExchange(x) PROVE x = r
    BY Zenon, <2>1, OthersAside DEF Aside
  <2>2. Resume(r) \/ EndExchange(r)
    <3>1. ~Tick /\ ~EndSync /\ ~EndUnanswered
      BY Zenon DEF Tick, EndSync, EndUnanswered, Finish, request
    <3>2. \A p \in Pairs : ~Break(p) /\ ~EndIdentify(p)
      BY Zenon DEF Break, EndIdentify, Finish, request
    <3>3. \A o \in Owners : ~Answer(o) /\ \A m : ~Deliver(o, m)
      BY Zenon DEF Answer, Deliver, request
    <3>4. ~Begin(r)
      BY Zenon, AskTurns DEF Begin, Turn
    <3> QED BY Zenon, <2>1, <3>1, <3>2, <3>3, <3>4 DEF Next
  <2>3. Busy(r)
    BY ZenonT(40), <2>2, WhoIsBusy DEF Resume, EndExchange
  <2>4. Quiet(r)
    BY Zenon, <2>3 DEF Quiet
  <2>5. Sound(r)
    BY Zenon, <2>4 DEF RecoverInv
  <2>6. ASSUME NEW code, Complete(r, code) PROVE code = "NotInTimeWindow"
    BY Zenon, <2>6 DEF Complete, Inv, TypeOK
  <2>7. ~Resume(r)
    <3> SUFFICES ASSUME Resume(r) PROVE FALSE
      BY Zenon
    <3>1. pc[r] = "resumed" /\ Complete(r, verdict[r])
      BY Zenon DEF Resume, Send, Inv, TypeOK
    <3> QED BY ZenonT(40), <2>5, <2>6, <3>1 DEF Sound
  <2>8. EndExchange(r) /\ pc[r] = "exchange" /\ exch[r] # None /\ r \in Owners
    BY ZenonT(40), <2>2, <2>7 DEF EndExchange, Inv, ControlInv, Owners
  <2>9. Silence(r) = "Timeout"
    BY ZenonT(40), <2>5, <2>8 DEF Sound, Silence
  <2>10. ASSUME NEW h, Ask(r, h) PROVE FALSE
    BY ZenonT(40), <2>10, AskTurns DEF Turn
  <2> DEFINE m == exch[r].reply
  <2>11. m # None /\ m.type # "Response" /\ attempt[r] = 1
    BY ZenonT(40), <2>6, <2>8, <2>9, <2>10 DEF EndExchange
  <2>12. m \in exch[r].answers /\ OnTime(exch[r])
    BY Zenon, <2>5, <2>8, <2>11 DEF Inv, ClockInv, InTime, Sound
  <2> QED BY SMTT(30), <2>4, <2>8, <2>11, <2>12, OnTimeIsAnswered
<1>3. OutOfStepRecovers <=> [][Recovers]_vars
  BY PTL DEF OutOfStepRecovers
<1> QED BY <1>1, <1>2, <1>3, Invariance, PTL DEF Spec
=============================================================================
