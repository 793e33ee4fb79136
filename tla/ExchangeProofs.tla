--------------------------- MODULE ExchangeProofs ---------------------------
(***************************************************************************)
(* The proofs about Exchange, for every set of requests, every number of   *)
(* retransmissions and every id range the requests fit in: what each step  *)
(* does to the state and that every variable keeps its type, the inductive *)
(* invariant and what follows from it, what a step may never do, and that  *)
(* Exchange implements OutstandingRequest.                                 *)
(***************************************************************************)
EXTENDS Exchange, FiniteSetTheorems, TLAPS

\* Every step of the specification is one of these, or changes nothing.
LEMMA NextCases ==
    ASSUME [Next]_vars
    PROVE  \/ \E r \in Requests :
                 \/ Refuse(r)
                 \/ \E code \in {"openError", "encodeError"} : FailEarly(r, code)
                 \/ Issue(r)
                 \/ \E failed \in BOOLEAN : SendCompletes(r, failed)
                 \/ Expire(r)
                 \/ ResumeFromSend(r)
                 \/ ResumeFromWait(r)
                 \/ ResumeFromLastWait(r)
                 \/ \E type \in {"terminal", "total"} : Signal(r, type)
           \/ \E d \in Datagrams : Deliver(d)
           \/ Stop
           \/ FinishStopping
           \/ \E f \in Families : ReceiveFails(f)
           \/ \E f \in Families : LoopThrows(f)
           \/ UNCHANGED vars
  BY Zenon DEF Next

\* What transact() can complete with is a result.
LEMMA OutcomeType == \A r \in Requests : Outcome(r) \in Results
  BY Zenon DEF Outcome, Results

\* The counter stays in range.
LEMMA NextIdType == \A id \in Ids : NextId(id) \in Ids
  BY ExchangeAssumption DEF NextId, Ids

\* Moving one coroutine leaves every other where it is.
LEMMA MovesOne ==
    ASSUME TypeOK, NEW r \in Requests, NEW p, pc' = [pc EXCEPT ![r] = p]
    PROVE  pc'[r] = p /\ \A s \in Requests : s # r => pc'[s] = pc[s]
<1>1. DOMAIN pc = Requests
  BY Zenon DEF TypeOK
<1>2. QED
  BY Zenon, <1>1

\* What a signal does to the coroutine it interrupts: an interrupted send has
\* failed, an interrupted first wait is over, and nothing else moves.
LEMMA SignalMoves ==
    ASSUME TypeOK, NEW r \in Requests, NEW type, Signal(r, type)
    PROVE  /\ \/ pc[r] = "sending" /\ pc'[r] = "sent" /\ sendFailed'[r]
              \/ pc[r] = "waiting" /\ pc'[r] = "woken" /\ sendFailed'[r] = sendFailed[r]
              \/ /\ pc[r] \in {"sent", "woken", "lastWait", "lastWoken"}
                 /\ pc'[r] = pc[r]
                 /\ sendFailed'[r] = sendFailed[r]
           /\ \A s \in Requests : s # r => pc'[s] = pc[s] /\ sendFailed'[s] = sendFailed[s]
<1> DEFINE moved == CASE pc[r] = "sending" -> "sent"
                      [] pc[r] = "waiting" -> "woken"
                      [] OTHER             -> pc[r]
<1>1. pc[r] \in Outstanding /\ pc' = [pc EXCEPT ![r] = moved]
  BY Zenon DEF Signal
<1>2. pc'[r] = moved /\ \A s \in Requests : s # r => pc'[s] = pc[s]
  <2> HIDE DEF moved
  <2> QED
    BY ZenonT(40), <1>1, MovesOne
<1>3. sendFailed \in [Requests -> BOOLEAN]
  BY Zenon DEF TypeOK
<1>4. /\ sendFailed'[r] = (sendFailed[r] \/ pc[r] = "sending")
      /\ \A s \in Requests : s # r => sendFailed'[s] = sendFailed[s]
  BY Zenon, <1>3 DEF Signal
<1>5. CASE pc[r] = "sending"
  BY ZenonT(40), <1>2, <1>4, <1>5
<1>6. CASE pc[r] = "waiting"
  BY Zenon, <1>2, <1>3, <1>4, <1>6
<1>7. CASE pc[r] \in {"sent", "woken", "lastWait", "lastWoken"}
  BY Zenon, <1>2, <1>3, <1>4, <1>7
<1>8. QED
  BY Zenon, <1>1, <1>5, <1>6, <1>7 DEF Outstanding

\* A datagram that is accepted is about the request it is handed to, and only
\* that request sees it.
LEMMA DeliverMoves ==
    ASSUME TypeOK, ExchangeInv, NEW d \in Datagrams, Deliver(d)
    PROVE  LET r == d.about
           IN  /\ r \in Requests
               /\ pc[r] \in Outstanding
               /\ pc' = [pc EXCEPT ![r] = Woken(pc[r])]
               /\ response' = [response EXCEPT ![r] = r]
               /\ answered' = [answered EXCEPT ![r] = TRUE]
<1> DEFINE s == d.about
<1>1. s \in Requests /\ s \in onWire
  BY Zenon DEF Datagrams, Deliver
<1>2. key[s] # 0
  BY Zenon, <1>1 DEF ExchangeInv, RequestInv
<1>3. key[s] \in Ids
  <2>1. key \in [Requests -> Ids \union {0}]
    BY Zenon DEF TypeOK
  <2>2. QED
    BY Zenon, <1>1, <1>2, <2>1
<1> DEFINE r == pending[key[s]]
<1>4. r # None /\ r \in Requests \union {None}
  <2>1. pending \in [Ids -> Requests \union {None}]
    BY Zenon DEF TypeOK
  <2>2. QED
    BY Zenon, <1>3, <2>1 DEF Deliver
<1>5. r \in Requests
  BY Zenon, <1>4
<1>6. pc[r] \in Outstanding /\ key[r] = key[s]
  <2>1. \A i \in Ids : pending[i] # None => /\ pc[pending[i]] \in Outstanding
                                            /\ key[pending[i]] = i
    BY Zenon DEF ExchangeInv, PendingIsExact
  <2>2. QED
    BY Zenon, <1>3, <1>4, <2>1
<1>7. r = s
  BY Zenon, <1>1, <1>2, <1>5, <1>6 DEF ExchangeInv, IdsDiffer, Started
<1>8. /\ response' = [response EXCEPT ![r] = s]
      /\ answered' = [answered EXCEPT ![r] = TRUE]
      /\ pc' = [pc EXCEPT ![r] = Woken(pc[r])]
  BY Zenon DEF Deliver
<1>9. QED
  BY Zenon, <1>1, <1>6, <1>7, <1>8

\* Every variable keeps its type: in particular the counter stays in 1..MaxId
\* through its wrap and the attempt counter never passes Retries.
THEOREM TypeCorrect == Spec => []TypeOK
<1>1. Init => TypeOK
  <2> SUFFICES ASSUME Init PROVE TypeOK
    BY Zenon
  <2>1. attempt \in [Requests -> 0..Retries]
    BY ExchangeAssumption DEF Init
  <2>2. signals \in [Requests -> SUBSET {"terminal", "total"}]
    BY Zenon DEF Init
  <2>3. pending \in [Ids -> Requests \union {None}] /\ response \in [Requests -> Requests \union {None}]
    BY Zenon DEF Init
  <2>4. QED
    BY ZenonT(40), <2>1, <2>2, <2>3 DEF Init, TypeOK, Results
<1>2. TypeOK /\ [Next]_vars => TypeOK'
  <2> SUFFICES ASSUME TypeOK, [Next]_vars PROVE TypeOK'
    BY Zenon
  <2> USE ExchangeAssumption DEF TypeOK
  <2>1. ASSUME NEW r \in Requests, Refuse(r) PROVE TypeOK'
    BY <2>1, NextIdType DEF Refuse, Complete, client, reply, Results
  <2>2. ASSUME NEW r \in Requests, NEW code \in {"openError", "encodeError"}, FailEarly(r, code)
        PROVE TypeOK'
    BY Zenon, <2>2, NextIdType DEF FailEarly, Complete, client, reply, Results
  <2>3. ASSUME NEW r \in Requests, Issue(r) PROVE TypeOK'
    BY SMTT(30), <2>3, NextIdType DEF Issue, reply, Outstanding
  <2>4. ASSUME NEW r \in Requests, NEW failed \in BOOLEAN, SendCompletes(r, failed) PROVE TypeOK'
    BY <2>4 DEF SendCompletes, client, reply, Outstanding
  <2>5. ASSUME NEW r \in Requests, Expire(r) PROVE TypeOK'
    BY <2>5 DEF Expire, client, reply, Outstanding
  <2>6. ASSUME NEW r \in Requests, ResumeFromSend(r) PROVE TypeOK'
    BY SMTT(30), <2>6, OutcomeType DEF ResumeFromSend, Leave, Suspend, Complete, client,
        reply, Outstanding
  <2>7. ASSUME NEW r \in Requests, ResumeFromWait(r) PROVE TypeOK'
    BY <2>7, OutcomeType
    DEF ResumeFromWait, Leave, Suspend, Complete, MayRetransmit, client, reply, Outstanding
  <2>8. ASSUME NEW r \in Requests, ResumeFromLastWait(r) PROVE TypeOK'
    BY ZenonT(40), <2>8, OutcomeType DEF ResumeFromLastWait, Leave, Complete, client, reply
  <2>9. ASSUME NEW r \in Requests, NEW type \in {"terminal", "total"}, Signal(r, type) PROVE TypeOK'
    BY Zenon, <2>9 DEF Signal, client, reply, Outstanding
  <2>10. ASSUME NEW d \in Datagrams, Deliver(d) PROVE TypeOK'
    BY ZenonT(40), <2>10 DEF Deliver, Datagrams, Woken, client, Outstanding
  <2>11. CASE Stop
    BY Zenon, <2>11 DEF Stop, reply, exchange
  <2>12. CASE FinishStopping
    BY Zenon, <2>12 DEF FinishStopping, CloseAndWake, Woken, reply, Outstanding
  <2>13. ASSUME NEW f \in Families, ReceiveFails(f) PROVE TypeOK'
    BY Zenon, <2>13 DEF ReceiveFails, reply, exchange
  <2>14. ASSUME NEW f \in Families, LoopThrows(f) PROVE TypeOK'
    BY <2>14 DEF LoopThrows, CloseAndWake, Woken, reply, Outstanding
  <2>15. CASE UNCHANGED vars
    BY Zenon, <2>15 DEF vars, client, reply, exchange
  <2> HIDE DEF TypeOK
  <2>16. QED
    BY Zenon, <2>1, <2>2, <2>3, <2>4, <2>5, <2>6, <2>7, <2>8, <2>9, <2>10, <2>11, <2>12, <2>13,
       <2>14, <2>15, NextCases
<1>3. QED
  BY <1>1, <1>2, PTL DEF Spec
-----------------------------------------------------------------------------
(* Ids.                                                                    *)

\* Stepping the counter is counting, modulo the wrap.
LEMMA NextIdWraps ==
    ASSUME NEW first \in Ids, NEW n \in Nat, n < MaxId
    PROVE  /\ NextId(Wrap(first + n)) = Wrap(first + (n + 1))
           /\ Wrap(first + n) \in Ids
           /\ \A i \in 0..MaxId : i < n => Wrap(first + i) # Wrap(first + n)
  BY ExchangeAssumption DEF NextId, Wrap, Ids

\* There is always an id left for a request that has none.
LEMMA StartedCount ==
    ASSUME TypeOK, NEW r \in Requests, key[r] = 0, nextId # 0,
           key' = [key EXCEPT ![r] = nextId]
    PROVE  /\ Started' = Started \union {r}
           /\ Cardinality(Started) \in Nat
           /\ Cardinality(Started)' = Cardinality(Started) + 1
           /\ Cardinality(Started) < MaxId
<1>1. Started' = Started \union {r}
  BY DEF TypeOK, Started
<1>2. r \notin Started /\ Started \subseteq Requests /\ Started \union {r} \subseteq Requests
  BY Zenon DEF Started
<1>3. IsFiniteSet(Started) /\ IsFiniteSet(Started \union {r})
  BY Zenon, <1>2, RequestsFitIds, FS_Subset
<1>4. Cardinality(Started) \in Nat
  BY Zenon, <1>3, FS_CardinalityType
<1>5. Cardinality(Started \union {r}) = Cardinality(Started) + 1
  BY Zenon, <1>2, <1>3, FS_AddElement
<1>6. Cardinality(Started \union {r}) <= MaxId
  <2>1. Cardinality(Started \union {r}) <= Cardinality(Requests)
    BY Zenon, <1>2, RequestsFitIds, FS_Subset
  <2>2. Cardinality(Requests) \in Nat
    BY Zenon, RequestsFitIds, FS_CardinalityType
  <2>3. QED
    BY <1>4, <1>5, <2>1, <2>2, RequestsFitIds, ExchangeAssumption
<1>7. QED
  BY <1>1, <1>4, <1>5, <1>6, ExchangeAssumption

\* Handing out an id keeps the ids consecutive and different, and the id is
\* one that no request has.
LEMMA HandOutId ==
    ASSUME TypeOK, IdsAreConsecutive, IdsDiffer,
           NEW r \in Requests, key[r] = 0,
           key' = [key EXCEPT ![r] = nextId], nextId' = NextId(nextId)
    PROVE  /\ IdsAreConsecutive'
           /\ IdsDiffer'
           /\ \A s \in Started : key[s] # nextId
<1> DEFINE n == Cardinality(Started)
<1>1. nextId \in Ids /\ nextId # 0
  BY ExchangeAssumption DEF TypeOK, Ids
<1>2. /\ Started' = Started \union {r}
      /\ n \in Nat
      /\ n' = n + 1
      /\ n < MaxId
  BY ZenonT(40), <1>1, StartedCount
<1>3. PICK first \in Ids :
         /\ nextId = Wrap(first + n)
         /\ \A s \in Started : \E i \in 0..MaxId : i < n /\ key[s] = Wrap(first + i)
  BY Zenon DEF IdsAreConsecutive
<1> HIDE DEF n
<1>4. \A s \in Started : key[s] # nextId
  BY <1>2, <1>3, NextIdWraps
<1>5. nextId' = Wrap(first + n')
  BY Zenon, <1>2, <1>3, NextIdWraps
<1>6. \A s \in Started' : \E i \in 0..MaxId : i < n' /\ key'[s] = Wrap(first + i)
  <2>1. TAKE s \in Started'
  <2>2. CASE s = r
    <3>1. n \in 0..MaxId /\ n < n' /\ key'[s] = Wrap(first + n)
      BY <1>2, <1>3, <2>2, ExchangeAssumption DEF TypeOK
    <3>2. QED
      BY Zenon, <3>1
  <2>3. CASE s # r
    <3>1. s \in Started /\ key'[s] = key[s]
      BY Zenon, <1>2, <2>3 DEF TypeOK, Started
    <3>2. PICK i \in 0..MaxId : i < n /\ key[s] = Wrap(first + i)
      BY Zenon, <1>3, <3>1
    <3>3. QED
      BY <1>2, <3>1, <3>2
  <2>4. QED
    BY Zenon, <2>2, <2>3
<1>7. IdsAreConsecutive'
  BY Zenon, <1>5, <1>6 DEF IdsAreConsecutive, n, Ids
<1>8. IdsDiffer'
  BY Zenon, <1>2, <1>4 DEF IdsDiffer, TypeOK, Started
<1>9. QED
  BY Zenon, <1>4, <1>7, <1>8
-----------------------------------------------------------------------------
(* The inductive invariant.                                                *)

\* The ids are only at stake where the counter moves.
LEMMA IdsUnchanged ==
    ASSUME IdsAreConsecutive, IdsDiffer, UNCHANGED <<key, nextId>>
    PROVE  IdsAreConsecutive' /\ IdsDiffer'
<1>1. Started' = Started
  BY Zenon DEF Started
<1>2. QED
  BY Zenon, <1>1 DEF IdsAreConsecutive, IdsDiffer

\* Leaving transact() keeps the invariant, wherever it is left from: the entry
\* erased is the request's own, and Timeout is not reported early.
LEMMA LeaveKeepsInv ==
    ASSUME TypeOK, ExchangeInv, NEW r \in Requests, pc[r] \in Outstanding,
           Leave(r), UNCHANGED <<client, nextId, key, sendFailed, signals, reply, onWire>>,
           Outcome(r) = "Timeout" => attempt[r] = Retries /\ r \in onWire
    PROVE  ExchangeInv'
<1> USE DEF TypeOK, Leave, Complete, client, reply
<1>1. key[r] \in Ids /\ pending[key[r]] = r
  BY DEF ExchangeInv, RequestInv, PendingIsExact, Outstanding
<1>2. IdsAreConsecutive' /\ IdsDiffer'
  BY Zenon, IdsUnchanged DEF ExchangeInv
<1>3. Outcome(r) = "reply" => answered[r]
  BY Zenon DEF Outcome
<1>4. \A s \in Requests : RequestInv(s)'
  BY <1>3 DEF ExchangeInv, RequestInv, Outstanding
<1>5. PendingIsExact'
  <2>1. ASSUME NEW s \in Requests, pc'[s] \in Outstanding PROVE pending'[key'[s]] = s
    <3>1. s # r /\ pending[key[s]] = s
      BY <2>1 DEF ExchangeInv, PendingIsExact, Outstanding
    <3>2. key[s] # key[r]
      BY Zenon, <1>1, <3>1
    <3>3. QED
      BY <3>1, <3>2
  <2>2. ASSUME NEW i \in Ids, pending'[i] # None
        PROVE  pc'[pending'[i]] \in Outstanding /\ key'[pending'[i]] = i
    <3>1. i # key[r] /\ pending'[i] = pending[i]
      BY Zenon, <1>1, <2>2
    <3>2. pending[i] # r /\ pc[pending[i]] \in Outstanding /\ key[pending[i]] = i
      BY Zenon, <2>2, <3>1 DEF ExchangeInv, PendingIsExact
    <3>3. QED
      BY Zenon, <2>2, <3>1, <3>2
  <2>3. QED
    BY Zenon, <2>1, <2>2 DEF PendingIsExact
<1>6. (stopping <=> cleanup # "none")' /\ StopLeavesNoneWaiting' /\ StopLeavesNoSocketOpen'
  BY Zenon DEF ExchangeInv, StopLeavesNoneWaiting, StopLeavesNoSocketOpen
<1>7. TimeoutMeansExhausted'
  BY DEF ExchangeInv, TimeoutMeansExhausted
<1>8. QED
  BY Zenon, <1>2, <1>4, <1>5, <1>6, <1>7 DEF ExchangeInv

\* A step that only moves outstanding requests from one suspension to another
\* keeps m_pending exact.
LEMMA MovingKeepsPending ==
    ASSUME TypeOK, PendingIsExact, UNCHANGED <<pending, key>>,
           pc' \in [Requests -> Outstanding \union {"idle", "done"}],
           \A r \in Requests : pc'[r] \in Outstanding <=> pc[r] \in Outstanding
    PROVE  PendingIsExact'
  BY ExchangeAssumption DEF PendingIsExact, TypeOK

\* transact()'s loop moving on, with no exit: to the first wait, to the second,
\* or to the next send.
LEMMA MoveKeepsInv ==
    ASSUME TypeOK, ExchangeInv, NEW r \in Requests, pc[r] \in Outstanding,
           NEW where \in {"sending", "waiting", "lastWait"},
           pc' = [pc EXCEPT ![r] = where],
           where # "sending" => cleanup # "done" /\ r \in onWire /\ ~sendFailed[r],
           where = "lastWait" => signals[r] # {},
           attempt' \in [Requests -> 0..Retries],
           \A s \in Requests : s # r => attempt'[s] = attempt[s],
           UNCHANGED <<client, nextId, key, sendFailed, signals, reply, onWire, pending, result>>
    PROVE  ExchangeInv'
<1> USE DEF TypeOK, client, reply
<1>1. IdsAreConsecutive' /\ IdsDiffer'
  BY Zenon, IdsUnchanged DEF ExchangeInv
<1>2. \A s \in Requests : RequestInv(s)'
  BY SMTT(30) DEF ExchangeInv, RequestInv, Outstanding
<1>3. PendingIsExact'
  BY Zenon, MovingKeepsPending DEF ExchangeInv, Outstanding
<1>4. (stopping <=> cleanup # "none")' /\ StopLeavesNoneWaiting' /\ StopLeavesNoSocketOpen'
  BY Zenon DEF ExchangeInv, StopLeavesNoneWaiting, StopLeavesNoSocketOpen
<1>5. TimeoutMeansExhausted'
  BY SMTT(30) DEF ExchangeInv, TimeoutMeansExhausted, RequestInv, Outstanding
<1>6. QED
  BY Zenon, <1>1, <1>2, <1>3, <1>4, <1>5 DEF ExchangeInv

\* Issuing a request keeps the invariant: its id is free, so emplace() inserts.
LEMMA IssueKeepsInv ==
    ASSUME TypeOK, ExchangeInv, NEW r \in Requests, Issue(r)
    PROVE  ExchangeInv'
<1> USE DEF TypeOK, Issue, reply
<1>1. key[r] = 0 /\ result[r] = "none" /\ signals[r] = {}
  BY Zenon DEF ExchangeInv, RequestInv
<1>2. /\ IdsAreConsecutive'
      /\ IdsDiffer'
      /\ \A s \in Started : key[s] # nextId
  BY ZenonT(40), <1>1, HandOutId DEF ExchangeInv
<1>3. nextId \in Ids /\ nextId # 0
  BY ExchangeAssumption DEF Ids
<1>4. \A s \in Requests : RequestInv(s)'
  BY <1>1, <1>3 DEF ExchangeInv, RequestInv, Outstanding
<1>5. PendingIsExact'
  <2>1. pending[nextId] = None
    <3>1. SUFFICES ASSUME pending[nextId] # None PROVE FALSE
      BY Zenon
    <3>2. pending[nextId] \in Started /\ key[pending[nextId]] = nextId
      BY SMTT(30), <1>3, <3>1 DEF ExchangeInv, PendingIsExact, Started
    <3>3. QED
      BY Zenon, <1>2, <3>2
  <2>2. pending' = [pending EXCEPT ![nextId] = r]
    BY Zenon, <2>1
  <2>3. \A s \in Requests : pc[s] \in Outstanding => s # r /\ s \in Started /\ key[s] # nextId
    BY Zenon, <1>2 DEF ExchangeInv, RequestInv, Started, Outstanding
  <2>4. ASSUME NEW s \in Requests, pc'[s] \in Outstanding PROVE pending'[key'[s]] = s
    BY SMTT(30), <1>3, <2>2, <2>3, <2>4 DEF ExchangeInv, PendingIsExact
  <2>5. ASSUME NEW j \in Ids, pending'[j] # None
        PROVE  pc'[pending'[j]] \in Outstanding /\ key'[pending'[j]] = j
    <3>1. CASE j = nextId
      BY SMTT(30), <2>2, <3>1 DEF Outstanding
    <3>2. CASE j # nextId
      <4>1. pending'[j] = pending[j] /\ pending[j] \in Requests
        BY Zenon, <2>2, <2>5, <3>2
      <4>2. pc[pending[j]] \in Outstanding /\ key[pending[j]] = j
        BY Zenon, <2>5, <4>1 DEF ExchangeInv, PendingIsExact
      <4>3. pending[j] # r
        BY Zenon, <4>2 DEF Outstanding
      <4>4. QED
        BY Zenon, <4>1, <4>2, <4>3
    <3>3. QED
      BY Zenon, <3>1, <3>2
  <2>6. QED
    BY Zenon, <2>4, <2>5 DEF PendingIsExact
<1>6. (stopping <=> cleanup # "none")' /\ StopLeavesNoneWaiting' /\ StopLeavesNoSocketOpen'
  BY Zenon DEF ExchangeInv, StopLeavesNoneWaiting, StopLeavesNoSocketOpen
<1>7. TimeoutMeansExhausted'
  BY Zenon DEF ExchangeInv, TimeoutMeansExhausted
<1>8. QED
  BY Zenon, <1>2, <1>4, <1>5, <1>6, <1>7 DEF ExchangeInv

\* A request that ends before it is sent is in no one's way.
LEMMA EarlyEndKeepsInv ==
    ASSUME TypeOK, ExchangeInv, NEW r \in Requests, pc[r] = "idle",
           NEW code \in {"ClientStopped", "openError", "encodeError"}, Complete(r, code),
           \/ UNCHANGED <<key, nextId>>
           \/ key' = [key EXCEPT ![r] = nextId] /\ nextId' = NextId(nextId),
           UNCHANGED <<client, pending, attempt, sendFailed, signals, reply, onWire>>
    PROVE  ExchangeInv'
<1> USE DEF TypeOK, Complete, client, reply
<1>1. key[r] = 0
  BY Zenon DEF ExchangeInv, RequestInv
<1>2. IdsAreConsecutive' /\ IdsDiffer'
  BY Zenon, <1>1, HandOutId, IdsUnchanged DEF ExchangeInv
<1>3. \A s \in Requests : s # r => key'[s] = key[s]
  BY Zenon
<1>4. nextId \in Ids /\ nextId # 0 /\ key'[r] \in {0, nextId}
  BY SMTT(30), <1>1, ExchangeAssumption DEF Ids
<1>5. \A s \in Requests : RequestInv(s)'
  BY SMTT(30), <1>1, <1>3, <1>4 DEF ExchangeInv, RequestInv, Outstanding
<1>6. PendingIsExact'
  BY <1>3, ExchangeAssumption DEF ExchangeInv, PendingIsExact, Outstanding
<1>7. (stopping <=> cleanup # "none")' /\ StopLeavesNoneWaiting' /\ StopLeavesNoSocketOpen'
  BY Zenon DEF ExchangeInv, StopLeavesNoneWaiting, StopLeavesNoSocketOpen
<1>8. TimeoutMeansExhausted'
  BY Zenon DEF ExchangeInv, TimeoutMeansExhausted
<1>9. QED
  BY Zenon, <1>2, <1>5, <1>6, <1>7, <1>8 DEF ExchangeInv

\* The cleanup keeps the invariant.  It reaches every wait because m_pending
\* knows every outstanding request.
LEMMA CleanupKeepsInv ==
    ASSUME TypeOK, ExchangeInv, CloseAndWake, stopping',
           UNCHANGED <<nextId, pending, key, attempt, sendFailed, signals, reply, onWire, result>>
    PROVE  ExchangeInv'
<1> USE DEF TypeOK, CloseAndWake, reply
<1>1. IdsAreConsecutive' /\ IdsDiffer'
  BY Zenon, IdsUnchanged DEF ExchangeInv
<1>2. \A r \in Requests : pc[r] \in Outstanding => pc'[r] = Woken(pc[r])
  BY DEF ExchangeInv, PendingIsExact, RequestInv, Outstanding
<1>3. \A r \in Requests : pc[r] \notin Outstanding => pc'[r] = pc[r]
  BY Zenon DEF Woken, Outstanding
<1>4. /\ pc' \in [Requests -> Outstanding \union {"idle", "done"}]
      /\ \A r \in Requests : pc'[r] \in Outstanding <=> pc[r] \in Outstanding
  BY Zenon, <1>2, <1>3 DEF Woken, Outstanding
<1>5. \A s \in Requests : RequestInv(s)'
  BY SMTT(30), <1>2, <1>3 DEF ExchangeInv, RequestInv, Woken, Outstanding
<1>6. PendingIsExact'
  BY Zenon, <1>4, MovingKeepsPending DEF ExchangeInv
<1>7. StopLeavesNoneWaiting'
  BY Zenon, <1>2, <1>3 DEF StopLeavesNoneWaiting, Woken, Outstanding
<1>8. (stopping <=> cleanup # "none")' /\ StopLeavesNoSocketOpen'
  BY Zenon DEF StopLeavesNoSocketOpen
<1>9. TimeoutMeansExhausted'
  BY Zenon DEF ExchangeInv, TimeoutMeansExhausted
<1>10. QED
  BY Zenon, <1>1, <1>5, <1>6, <1>7, <1>8, <1>9 DEF ExchangeInv

-----------------------------------------------------------------------------
(* The inductive invariant.                                                *)

\* The inductive invariant: request-ids are handed out consecutively and differ,
\* m_pending is exact, and Stopping leaves no wait armed and no socket open.
THEOREM ExchangeInvariant == Spec => []ExchangeInv
<1>1. Init => ExchangeInv
  <2> SUFFICES ASSUME Init PROVE ExchangeInv
    BY Zenon
  <2> USE DEF Init
  <2>1. Started = {}
    BY Zenon DEF Started
  <2>2. Cardinality(Started) = 0
    BY Zenon, <2>1, FS_EmptySet
  <2>3. IdsAreConsecutive /\ IdsDiffer
    BY <2>1, <2>2, ExchangeAssumption DEF IdsAreConsecutive, IdsDiffer, Wrap, Ids
  <2>4. \A r \in Requests : RequestInv(r)
    BY Zenon DEF RequestInv, Outstanding
  <2>5. PendingIsExact
    BY Zenon DEF PendingIsExact, Outstanding
  <2>6. QED
    BY Zenon, <2>3, <2>4, <2>5 DEF ExchangeInv, StopLeavesNoneWaiting, StopLeavesNoSocketOpen,
                            TimeoutMeansExhausted
<1>2. TypeOK /\ TypeOK' /\ ExchangeInv /\ [Next]_vars => ExchangeInv'
  <2> SUFFICES ASSUME TypeOK, TypeOK', ExchangeInv, [Next]_vars PROVE ExchangeInv'
    BY Zenon
  <2>1. ASSUME NEW r \in Requests, Refuse(r) PROVE ExchangeInv'
    BY Zenon, <2>1, EarlyEndKeepsInv DEF Refuse
  <2>2. ASSUME NEW r \in Requests, NEW code \in {"openError", "encodeError"}, FailEarly(r, code)
        PROVE  ExchangeInv'
    BY ZenonT(40), <2>2, EarlyEndKeepsInv DEF FailEarly
  <2>3. ASSUME NEW r \in Requests, Issue(r) PROVE ExchangeInv'
    BY Zenon, <2>3, IssueKeepsInv
  <2>4. ASSUME NEW r \in Requests, NEW failed \in BOOLEAN, SendCompletes(r, failed)
        PROVE  ExchangeInv'
    <3> USE <2>4 DEF SendCompletes, client, reply
    <3>1. IdsAreConsecutive' /\ IdsDiffer'
      BY Zenon, IdsUnchanged DEF ExchangeInv
    <3>2. \A s \in Requests : RequestInv(s)'
      BY SMTT(30) DEF ExchangeInv, RequestInv, Outstanding, TypeOK
    <3>3. PendingIsExact'
      BY SMTT(30), MovingKeepsPending DEF ExchangeInv, Outstanding, TypeOK
    <3>4. TimeoutMeansExhausted'
      BY Zenon DEF ExchangeInv, TimeoutMeansExhausted
    <3>5. QED
      BY Zenon, <3>1, <3>2, <3>3, <3>4 DEF ExchangeInv, StopLeavesNoneWaiting,
                                    StopLeavesNoSocketOpen, TypeOK
  <2>5. ASSUME NEW r \in Requests, Expire(r) PROVE ExchangeInv'
    <3> USE <2>5 DEF Expire, client, reply
    <3>1. IdsAreConsecutive' /\ IdsDiffer'
      BY Zenon, IdsUnchanged DEF ExchangeInv
    <3>2. \A s \in Requests : RequestInv(s)'
      BY SMTT(30) DEF ExchangeInv, RequestInv, Outstanding, TypeOK
    <3>3. PendingIsExact'
      BY SMTT(30), MovingKeepsPending DEF ExchangeInv, Outstanding, TypeOK
    <3>4. TimeoutMeansExhausted'
      BY Zenon DEF ExchangeInv, TimeoutMeansExhausted
    <3>5. QED
      BY Zenon, <3>1, <3>2, <3>3, <3>4 DEF ExchangeInv, StopLeavesNoneWaiting,
                                    StopLeavesNoSocketOpen, TypeOK
  <2>6. ASSUME NEW r \in Requests, ResumeFromSend(r) PROVE ExchangeInv'
    <3> USE <2>6 DEF ResumeFromSend
    <3>1. CASE LeaveAfterSend(r)
      <4>1. Outcome(r) # "Timeout"
        BY Zenon, <3>1 DEF Outcome, LeaveAfterSend
      <4>2. QED
        BY Zenon, <3>1, <4>1, LeaveKeepsInv DEF Outstanding
    <3>2. CASE ~LeaveAfterSend(r)
      <4>1. cleanup # "done" /\ r \in onWire /\ ~sendFailed[r]
        BY ZenonT(40), <3>2 DEF LeaveAfterSend, ExchangeInv, RequestInv
      <4>2. QED
        BY Zenon, <3>2, <4>1, MoveKeepsInv DEF Suspend, Outstanding, TypeOK
    <3>3. QED
      BY Zenon, <3>1, <3>2
  <2>7. ASSUME NEW r \in Requests, ResumeFromWait(r) PROVE ExchangeInv'
    <3> USE <2>7 DEF ResumeFromWait
    <3>1. r \in onWire /\ ~sendFailed[r] /\ pc[r] \in Outstanding
      BY Zenon DEF ExchangeInv, RequestInv, Outstanding
    <3>2. CASE LeaveAfterWait(r)
      <4>1. Outcome(r) # "Timeout"
        BY Zenon, <3>2 DEF Outcome, LeaveAfterWait
      <4>2. QED
        BY Zenon, <3>1, <3>2, <4>1, LeaveKeepsInv
    <3>3. CASE ~LeaveAfterWait(r) /\ signals[r] # {}
      <4>1. cleanup # "done"
        BY ZenonT(40), <3>3 DEF LeaveAfterWait, ExchangeInv
      <4>2. QED
        BY Zenon, <3>1, <3>3, <4>1, MoveKeepsInv DEF Suspend, TypeOK
    <3>4. CASE ~LeaveAfterWait(r) /\ signals[r] = {} /\ MayRetransmit(r)
      BY SMTT(30), <3>1, <3>4, MoveKeepsInv DEF TypeOK
    <3>5. CASE ~LeaveAfterWait(r) /\ signals[r] = {} /\ ~MayRetransmit(r)
      <4>1. attempt[r] \in 0..Retries
        BY Zenon DEF TypeOK
      <4>2. ASSUME NEW a \in 0..Retries, ~(a < Retries) PROVE a = Retries
        BY SMTT(30), <4>2, ExchangeAssumption
      <4>3. attempt[r] = Retries
        BY Zenon, <3>5, <4>1, <4>2 DEF MayRetransmit
      <4>4. QED
        BY ZenonT(40), <3>1, <3>5, <4>3, LeaveKeepsInv
    <3>6. QED
      BY Zenon, <3>2, <3>3, <3>4, <3>5
  <2>8. ASSUME NEW r \in Requests, ResumeFromLastWait(r) PROVE ExchangeInv'
    <3>1. Outcome(r) # "Timeout"
      BY Zenon, <2>8 DEF ResumeFromLastWait, ExchangeInv, RequestInv, Outcome
    <3>2. QED
      BY Zenon, <2>8, <3>1, LeaveKeepsInv DEF ResumeFromLastWait, Outstanding
  <2>9. ASSUME NEW r \in Requests, NEW type \in {"terminal", "total"}, Signal(r, type)
        PROVE  ExchangeInv'
    <3> USE <2>9 DEF Signal, client, reply
    <3>1. IdsAreConsecutive' /\ IdsDiffer'
      BY Zenon, IdsUnchanged DEF ExchangeInv
    <3>2. \A s \in Requests : RequestInv(s)'
      <4>1. /\ signals'[r] # {}
            /\ \A s \in Requests : s # r => signals'[s] = signals[s]
            /\ UNCHANGED <<key, result, onWire, answered, response>>
        BY SMTT(30) DEF TypeOK
      <4> HIDE <2>9 DEF Signal
      <4>2. ASSUME NEW s \in Requests, s # r PROVE RequestInv(s)'
        BY SMTT(30), <2>9, <4>1, <4>2, SignalMoves DEF ExchangeInv, RequestInv
      <4>3. RequestInv(r)
        BY Zenon DEF ExchangeInv
      <4>4. RequestInv(r)'
        BY Zenon, <2>9, <4>1, <4>3, SignalMoves DEF RequestInv, Outstanding
      <4>5. QED
        BY Zenon, <4>2, <4>4
    <3>3. PendingIsExact'
      <4>1. \A s \in Requests : pc'[s] \in Outstanding <=> pc[s] \in Outstanding
        BY Zenon, SignalMoves DEF Outstanding
      <4>2. QED
        BY Zenon, <4>1, MovingKeepsPending DEF ExchangeInv, TypeOK
    <3>4. StopLeavesNoneWaiting'
      BY SMTT(30) DEF ExchangeInv, StopLeavesNoneWaiting, Outstanding, TypeOK
    <3>5. QED
      BY Zenon, <3>1, <3>2, <3>3, <3>4 DEF ExchangeInv, StopLeavesNoSocketOpen, TimeoutMeansExhausted
  <2>10. ASSUME NEW d \in Datagrams, Deliver(d) PROVE ExchangeInv'
    <3> DEFINE r == d.about
    <3>1. /\ r \in Requests
          /\ pc[r] \in Outstanding
          /\ pc' = [pc EXCEPT ![r] = Woken(pc[r])]
          /\ response' = [response EXCEPT ![r] = r]
          /\ answered' = [answered EXCEPT ![r] = TRUE]
      BY Zenon, <2>10, DeliverMoves
    <3> HIDE DEF r
    <3>2. UNCHANGED <<stopping, cleanup, sock, nextId, pending, key, attempt, sendFailed,
                      signals, onWire, result>>
      BY Zenon, <2>10 DEF Deliver, client
    <3>3. /\ pc'[r] = Woken(pc[r])
          /\ \A s \in Requests : s # r => pc'[s] = pc[s]
      BY ZenonT(40), <3>1, MovesOne
    <3>4. /\ response'[r] = r
          /\ answered'[r]
          /\ \A s \in Requests : s # r => response'[s] = response[s] /\ answered'[s] = answered[s]
      BY <3>1 DEF TypeOK
    <3>5. /\ Woken(pc[r]) \in Outstanding
          /\ Woken(pc[r]) = "sent" => pc[r] = "sent"
          /\ Woken(pc[r]) \in {"waiting", "woken", "lastWait", "lastWoken"}
               => pc[r] \in {"waiting", "woken", "lastWait", "lastWoken"}
          /\ Woken(pc[r]) \in {"lastWait", "lastWoken"} => pc[r] \in {"lastWait", "lastWoken"}
          /\ Woken(pc[r]) \notin {"waiting", "lastWait"}
      BY Zenon, <3>1 DEF Woken, Outstanding
    <3>6. IdsAreConsecutive' /\ IdsDiffer'
      BY Zenon, <3>2, IdsUnchanged DEF ExchangeInv
    <3>7. \A s \in Requests : RequestInv(s)'
      <4>1. ASSUME NEW s \in Requests, s # r PROVE RequestInv(s)'
        BY Zenon, <3>2, <3>3, <3>4, <4>1 DEF ExchangeInv, RequestInv
      <4>2. RequestInv(r)
        BY Zenon, <3>1 DEF ExchangeInv
      <4>3. RequestInv(r)'
        BY ZenonT(40), <3>1, <3>2, <3>3, <3>4, <3>5, <4>2 DEF RequestInv, Outstanding
      <4>4. QED
        BY Zenon, <4>1, <4>3
    <3>8. PendingIsExact'
      <4>1. \A s \in Requests : pc'[s] \in Outstanding <=> pc[s] \in Outstanding
        BY Zenon, <3>1, <3>3, <3>5
      <4>2. QED
        BY Zenon, <3>2, <4>1, MovingKeepsPending DEF ExchangeInv, TypeOK
    <3>9. StopLeavesNoneWaiting'
      BY Zenon, <3>2, <3>3, <3>5 DEF ExchangeInv, StopLeavesNoneWaiting
    <3>10. QED
      BY Zenon, <3>2, <3>6, <3>7, <3>8, <3>9 DEF ExchangeInv, StopLeavesNoSocketOpen,
                                          TimeoutMeansExhausted
  <2>11. ASSUME Stop PROVE ExchangeInv'
    <3> USE <2>11 DEF Stop, exchange, reply
    <3>1. IdsAreConsecutive' /\ IdsDiffer'
      BY Zenon, IdsUnchanged DEF ExchangeInv
    <3>2. (\A s \in Requests : RequestInv(s)') /\ PendingIsExact' /\ TimeoutMeansExhausted'
      BY Zenon DEF ExchangeInv, RequestInv, PendingIsExact, TimeoutMeansExhausted
    <3>3. QED
      BY Zenon, <3>1, <3>2 DEF ExchangeInv, StopLeavesNoneWaiting, StopLeavesNoSocketOpen
  <2>12. ASSUME FinishStopping PROVE ExchangeInv'
    <3>1. stopping'
      BY Zenon, <2>12 DEF FinishStopping, ExchangeInv
    <3>2. QED
      BY Zenon, <2>12, <3>1, CleanupKeepsInv DEF FinishStopping
  <2>13. ASSUME NEW f \in Families, ReceiveFails(f) PROVE ExchangeInv'
    <3> USE <2>13 DEF ReceiveFails, exchange, reply
    <3>1. IdsAreConsecutive' /\ IdsDiffer'
      BY Zenon, IdsUnchanged DEF ExchangeInv
    <3>2. (\A s \in Requests : RequestInv(s)') /\ PendingIsExact' /\ TimeoutMeansExhausted'
      BY ZenonT(40) DEF ExchangeInv, RequestInv, PendingIsExact, TimeoutMeansExhausted
    <3>3. QED
      BY Zenon, <3>1, <3>2 DEF ExchangeInv, StopLeavesNoneWaiting, StopLeavesNoSocketOpen
  <2>14. ASSUME NEW f \in Families, LoopThrows(f) PROVE ExchangeInv'
    <3> USE <2>14 DEF LoopThrows
    <3>1. CASE stopping
      <4>1. UNCHANGED <<stopping, cleanup, sock, nextId, pending, reply, exchange>>
        BY Zenon, <3>1 DEF reply, exchange, TypeOK
      <4>2. IdsAreConsecutive' /\ IdsDiffer'
        BY Zenon, <4>1, IdsUnchanged DEF ExchangeInv, exchange
      <4>3. (\A s \in Requests : RequestInv(s)') /\ PendingIsExact' /\ TimeoutMeansExhausted'
        BY SMTT(30), <4>1 DEF ExchangeInv, RequestInv, PendingIsExact, TimeoutMeansExhausted, exchange, reply
      <4>4. QED
        BY SMTT(30), <4>1, <4>2, <4>3 DEF ExchangeInv, StopLeavesNoneWaiting,
                                StopLeavesNoSocketOpen,
                                exchange
    <3>2. CASE ~stopping
      BY Zenon, <3>2, CleanupKeepsInv
    <3>3. QED
      BY Zenon, <3>1, <3>2
  <2>15. ASSUME UNCHANGED vars PROVE ExchangeInv'
    <3> USE <2>15 DEF vars, client, exchange, reply
    <3>1. IdsAreConsecutive' /\ IdsDiffer'
      BY Zenon, IdsUnchanged DEF ExchangeInv
    <3>2. (\A s \in Requests : RequestInv(s)') /\ PendingIsExact' /\ TimeoutMeansExhausted'
      BY ZenonT(40) DEF ExchangeInv, RequestInv, PendingIsExact, TimeoutMeansExhausted
    <3>3. QED
      BY Zenon, <3>1, <3>2 DEF ExchangeInv, StopLeavesNoneWaiting, StopLeavesNoSocketOpen
  <2>16. QED
    BY Zenon, <2>1, <2>2, <2>3, <2>4, <2>5, <2>6, <2>7, <2>8, <2>9, <2>10, <2>11, <2>12, <2>13,
       <2>14, <2>15, NextCases
<1>3. QED
  BY <1>1, <1>2, TypeCorrect, PTL DEF Spec

\* m_pending holds exactly the outstanding requests, each under its own id.
THEOREM PendingExact == Spec => []PendingIsExact
<1>1. ExchangeInv => PendingIsExact
  BY SMTT(30) DEF ExchangeInv
<1>2. QED
  BY <1>1, ExchangeInvariant, PTL

\* A request that completes with a reply completes with its own.
THEOREM OwnReply == Spec => []ReplyIsOwn
<1>1. ExchangeInv => ReplyIsOwn
  BY DEF ExchangeInv, RequestInv, ReplyIsOwn
<1>2. QED
  BY <1>1, ExchangeInvariant, PTL

\* After finishStopping() no request waits for a deadline and no socket is open.
THEOREM StopIsComplete == Spec => []StopLeavesNothing
<1>1. ExchangeInv => StopLeavesNothing
  BY DEF ExchangeInv, StopLeavesNothing
<1>2. QED
  BY <1>1, ExchangeInvariant, PTL

\* Timeout is only reported after the last retransmission.
THEOREM TimeoutIsLast == Spec => []TimeoutMeansExhausted
<1>1. ExchangeInv => TimeoutMeansExhausted
  BY DEF ExchangeInv
<1>2. QED
  BY <1>1, ExchangeInvariant, PTL

-----------------------------------------------------------------------------
(* The action property and the refinement.                                 *)

\* transact() begins no send once the Client is Stopping, its request has been sent a
\* cancellation signal, or a reply to it is in hand.
THEOREM NoLateSend == Spec => NoSendOnceOver
<1> DEFINE Quiet == \A r \in Requests : pc[r] # "sending" /\ pc'[r] = "sending"
                       => ~stopping /\ signals[r] = {} /\ ~answered[r]
<1>1. TypeOK /\ ExchangeInv /\ [Next]_vars => [Quiet]_vars
  <2> SUFFICES ASSUME TypeOK, ExchangeInv, [Next]_vars,
                      NEW s \in Requests, pc[s] # "sending", pc'[s] = "sending"
               PROVE  ~stopping /\ signals[s] = {} /\ ~answered[s]
    BY Zenon
  <2> USE DEF TypeOK
  <2>1. ASSUME NEW r \in Requests, Issue(r) PROVE ~stopping /\ signals[s] = {} /\ ~answered[s]
    BY ZenonT(40), <2>1 DEF Issue, ExchangeInv, RequestInv
  <2>2. ASSUME NEW r \in Requests, ResumeFromWait(r) PROVE ~stopping /\ signals[s] = {} /\ ~answered[s]
    BY <2>2 DEF ResumeFromWait, LeaveAfterWait, Leave, Complete, Suspend
  <2>3. ASSUME NEW r \in Requests,
               \/ Refuse(r)
               \/ \E code \in {"openError", "encodeError"} : FailEarly(r, code)
               \/ \E failed \in BOOLEAN : SendCompletes(r, failed)
               \/ Expire(r)
        PROVE  FALSE
    BY ZenonT(40), <2>3 DEF Refuse, FailEarly, SendCompletes, Expire, Complete
  <2>4. ASSUME NEW r \in Requests,
               \/ ResumeFromSend(r)
               \/ ResumeFromLastWait(r)
               \/ \E type \in {"terminal", "total"} : Signal(r, type)
        PROVE  FALSE
    BY <2>4 DEF ResumeFromSend, ResumeFromLastWait, Signal, Leave, Complete, Suspend
  <2>5. ASSUME NEW d \in Datagrams, Deliver(d) PROVE FALSE
    BY Zenon, <2>5 DEF Deliver, Woken
  <2>6. ASSUME Stop \/ FinishStopping PROVE FALSE
    BY <2>6 DEF Stop, FinishStopping, CloseAndWake, Woken, exchange
  <2>7. ASSUME NEW f \in Families, ReceiveFails(f) \/ LoopThrows(f) PROVE FALSE
    BY SMTT(30), <2>7 DEF ReceiveFails, LoopThrows, CloseAndWake, Woken, exchange
  <2>8. ASSUME UNCHANGED vars PROVE FALSE
    BY Zenon, <2>8 DEF vars, exchange
  <2>9. QED
    BY SMTT(30), <2>1, <2>2, <2>3, <2>4, <2>5, <2>6, <2>7, <2>8, NextCases
<1>2. QED
  BY <1>1, TypeCorrect, ExchangeInvariant, PTL DEF Spec, NoSendOnceOver

\* How far a request is, as OutstandingRequest sees it.
Status == [r \in Requests |-> IF pc[r] = "idle" THEN "new"
                              ELSE IF pc[r] = "done" THEN "completed"
                              ELSE "outstanding"]

\* A step that neither begins nor ends a request is not seen.
LEMMA MovingIsUnseen ==
    ASSUME TypeOK, TypeOK', UNCHANGED <<stopping, signals, answered, result>>,
           \A r \in Requests : /\ pc'[r] = "idle" <=> pc[r] = "idle"
                               /\ pc'[r] = "done" <=> pc[r] = "done"
    PROVE  UNCHANGED Promise!vars
<1>1. Status' = Status
  BY Zenon DEF Status
<1>2. QED
  BY Zenon, <1>1 DEF Promise!vars, Status

\* Leaving transact() is completing with one of the verdicts promised.
LEMMA LeaveIsComplete ==
    ASSUME TypeOK, NEW r \in Requests, pc[r] \in Outstanding,
           Leave(r), UNCHANGED <<stopping, signals, answered>>
    PROVE  Promise!Complete(r)
<1> USE DEF TypeOK, Leave, Complete
<1>1. Status[r] = "outstanding" /\ Status' = [Status EXCEPT ![r] = "completed"]
  BY ZenonT(40) DEF Status, Outstanding
<1>2. Outcome(r) \in Promise!Verdicts(r)
  BY Zenon DEF Outcome, Aborted, Promise!Verdicts
<1>3. result' \in {[result EXCEPT ![r] = c] : c \in Promise!Verdicts(r)}
  BY ZenonT(40), <1>2
<1>4. QED
  BY ZenonT(40), <1>1, <1>3 DEF Promise!Complete, Status

\* Ending a request that was never sent is completing with a refusal.
LEMMA EarlyEndIsComplete ==
    ASSUME TypeOK, NEW r \in Requests, pc[r] = "idle",
           NEW c \in Promise!Refusals, Complete(r, c), UNCHANGED <<stopping, signals, answered>>
    PROVE  Promise!Complete(r)
<1> USE DEF TypeOK, Complete
<1>1. Status[r] = "new" /\ Status' = [Status EXCEPT ![r] = "completed"]
  BY ZenonT(40) DEF Status
<1>2. result' \in {[result EXCEPT ![r] = x] : x \in Promise!Refusals}
  BY ZenonT(40)
<1>3. QED
  BY ZenonT(40), <1>1, <1>2 DEF Promise!Complete, Status

\* The exchange layer implements OutstandingRequest: every request completes at
\* most once, and with a code its callers were promised for what happened to it.
THEOREM Refinement == Spec => KeepsPromise
<1>1. Init => Promise!Init
  BY DEF Init, Promise!Init
<1>2. TypeOK /\ TypeOK' /\ ExchangeInv /\ [Next]_vars => [Promise!Next]_(Promise!vars)
  <2> SUFFICES ASSUME TypeOK, TypeOK', ExchangeInv, [Next]_vars
               PROVE  Promise!Next \/ UNCHANGED Promise!vars
    BY Zenon
  <2> USE DEF client, reply
  <2>1. ASSUME NEW r \in Requests, Refuse(r) PROVE Promise!Complete(r)
    BY ZenonT(40), <2>1, EarlyEndIsComplete DEF Refuse, Promise!Refusals
  <2>2. ASSUME NEW r \in Requests, NEW code \in {"openError", "encodeError"}, FailEarly(r, code)
        PROVE  Promise!Complete(r)
    BY Zenon, <2>2, EarlyEndIsComplete DEF FailEarly, Promise!Refusals
  <2>3. ASSUME NEW r \in Requests, Issue(r) PROVE Promise!Begin(r)
    <3>1. Status[r] = "new" /\ Status' = [Status EXCEPT ![r] = "outstanding"]
      BY ZenonT(40), <2>3 DEF Status, Issue, TypeOK
    <3>2. QED
      BY Zenon, <2>3, <3>1 DEF Issue, Promise!Begin, Status
  <2>4. ASSUME NEW r \in Requests, NEW failed \in BOOLEAN, SendCompletes(r, failed)
        PROVE  UNCHANGED Promise!vars
    BY ZenonT(40), <2>4, MovingIsUnseen DEF SendCompletes, TypeOK
  <2>5. ASSUME NEW r \in Requests, Expire(r) PROVE UNCHANGED Promise!vars
    <3>1. \E p \in {"woken", "lastWoken"} : pc' = [pc EXCEPT ![r] = p]
      BY Zenon, <2>5 DEF Expire
    <3>2. PICK p \in {"woken", "lastWoken"} : pc' = [pc EXCEPT ![r] = p]
      BY ZenonT(40), <3>1
    <3>3. pc'[r] = p /\ \A s \in Requests : s # r => pc'[s] = pc[s]
      BY ZenonT(40), <3>2, MovesOne
    <3>4. /\ pc[r] \notin {"idle", "done"}
          /\ UNCHANGED <<stopping, signals, answered, result>>
      BY Zenon, <2>5 DEF Expire
    <3>5. QED
      BY Zenon, <3>3, <3>4, MovingIsUnseen
  <2>6. ASSUME NEW r \in Requests, ResumeFromSend(r)
        PROVE  Promise!Complete(r) \/ UNCHANGED Promise!vars
    <3>1. CASE Leave(r)
      BY Zenon, <2>6, <3>1, LeaveIsComplete DEF ResumeFromSend, Outstanding
    <3>2. CASE Suspend(r, "waiting")
      <4>1. /\ pc[r] = "sent"
            /\ pc' = [pc EXCEPT ![r] = "waiting"]
            /\ UNCHANGED <<stopping, signals, answered, result>>
        BY Zenon, <2>6, <3>2 DEF ResumeFromSend, Suspend
      <4>2. pc'[r] = "waiting" /\ \A s \in Requests : s # r => pc'[s] = pc[s]
        BY ZenonT(40), <4>1, MovesOne
      <4>3. QED
        BY Zenon, <4>1, <4>2, MovingIsUnseen
    <3>3. QED
      BY Zenon, <2>6, <3>1, <3>2 DEF ResumeFromSend
  <2>7. ASSUME NEW r \in Requests, ResumeFromWait(r)
        PROVE  Promise!Complete(r) \/ UNCHANGED Promise!vars
    <3>1. CASE Leave(r)
      BY Zenon, <2>7, <3>1, LeaveIsComplete DEF ResumeFromWait, Outstanding
    <3>2. CASE ~Leave(r)
      <4>1. /\ pc[r] = "woken"
            /\ \E p \in {"sending", "lastWait"} : pc' = [pc EXCEPT ![r] = p]
            /\ UNCHANGED <<stopping, signals, answered, result>>
        BY ZenonT(40), <2>7, <3>2 DEF ResumeFromWait, Suspend
      <4>2. PICK p \in {"sending", "lastWait"} : pc' = [pc EXCEPT ![r] = p]
        BY ZenonT(40), <4>1
      <4>3. pc'[r] = p /\ \A s \in Requests : s # r => pc'[s] = pc[s]
        BY ZenonT(40), <4>2, MovesOne
      <4>4. QED
        BY Zenon, <4>1, <4>3, MovingIsUnseen
    <3>3. QED
      BY Zenon, <3>1, <3>2
  <2>8. ASSUME NEW r \in Requests, ResumeFromLastWait(r) PROVE Promise!Complete(r)
    BY Zenon, <2>8, LeaveIsComplete DEF ResumeFromLastWait, Outstanding
  <2>9. ASSUME NEW r \in Requests, NEW type \in {"terminal", "total"}, Signal(r, type)
        PROVE  Promise!Signal(r, type)
    <3>1. \A s \in Requests : /\ pc'[s] = "idle" <=> pc[s] = "idle"
                              /\ pc'[s] = "done" <=> pc[s] = "done"
      BY Zenon, <2>9, SignalMoves
    <3>2. Status[r] = "outstanding"
      BY Zenon, <2>9, SignalMoves DEF Status
    <3>3. Status' = Status
      BY Zenon, <3>1 DEF Status
    <3>4. /\ signals' = [signals EXCEPT ![r] = signals[r] \union {type}]
          /\ UNCHANGED <<stopping, answered, result>>
      BY Zenon, <2>9 DEF Signal
    <3>5. QED
      BY Zenon, <3>2, <3>3, <3>4 DEF Promise!Signal, Status
  <2>10. ASSUME NEW d \in Datagrams, Deliver(d) PROVE \E r \in Requests : Promise!Reply(r)
    <3> DEFINE r == d.about
    <3>1. /\ r \in Requests
          /\ pc[r] \in Outstanding
          /\ pc' = [pc EXCEPT ![r] = Woken(pc[r])]
          /\ answered' = [answered EXCEPT ![r] = TRUE]
      BY Zenon, <2>10, DeliverMoves
    <3> HIDE DEF r
    <3>2. UNCHANGED <<stopping, signals, result>>
      BY Zenon, <2>10 DEF Deliver
    <3>3. pc'[r] = Woken(pc[r]) /\ \A s \in Requests : s # r => pc'[s] = pc[s]
      BY ZenonT(40), <3>1, MovesOne
    <3>4. pc[r] \notin {"idle", "done"} /\ Woken(pc[r]) \notin {"idle", "done"}
      BY Zenon, <3>1 DEF Woken, Outstanding
    <3>5. Status[r] = "outstanding" /\ Status' = Status
      BY Zenon, <3>1, <3>3, <3>4 DEF Status
    <3>6. Promise!Reply(r)
      BY Zenon, <3>1, <3>2, <3>5 DEF Promise!Reply, Status
    <3>7. QED
      BY Zenon, <3>1, <3>6
  <2>11. ASSUME Stop PROVE Promise!Stop
    BY Zenon, <2>11 DEF Stop, Promise!Stop, exchange
  <2>12. ASSUME CloseAndWake PROVE \A r \in Requests : /\ pc'[r] = "idle" <=> pc[r] = "idle"
                                                       /\ pc'[r] = "done" <=> pc[r] = "done"
    BY Zenon, <2>12 DEF CloseAndWake, Woken
  <2>13. ASSUME FinishStopping PROVE UNCHANGED Promise!vars
    BY Zenon, <2>12, <2>13, MovingIsUnseen DEF FinishStopping
  <2>14. ASSUME NEW f \in Families, ReceiveFails(f) PROVE UNCHANGED Promise!vars
    BY Zenon, <2>14, MovingIsUnseen DEF ReceiveFails, exchange
  <2>15. ASSUME NEW f \in Families, LoopThrows(f) PROVE Promise!Stop
    <3>1. Status' = Status
      BY Zenon, <2>12, <2>15 DEF LoopThrows, Status
    <3>2. QED
      BY Zenon, <2>15, <3>1 DEF LoopThrows, Promise!Stop, Status
  <2>16. ASSUME UNCHANGED vars PROVE UNCHANGED Promise!vars
    BY Zenon, <2>16, MovingIsUnseen DEF vars, exchange
  <2>17. QED
    BY Zenon, <2>1, <2>2, <2>3, <2>4, <2>5, <2>6, <2>7, <2>8, <2>9, <2>10, <2>11, <2>13, <2>14,
       <2>15, <2>16, NextCases DEF Promise!Next
<1>3. QED
  BY <1>1, <1>2, TypeCorrect, ExchangeInvariant, PTL DEF Spec, KeepsPromise, Promise!Spec
=============================================================================
