------------------------------ MODULE Exchange ------------------------------
(***************************************************************************)
(* The exchange layer of the Client: transact() with its retransmissions,  *)
(* the sockets and their receive loops, v2c reply matching, cancellation   *)
(* and Stopping.                                                           *)
(*                                                                         *)
(* Every coroutine runs on one strand, so the code between two suspension  *)
(* points is one step here.  A request is suspended in one of two          *)
(* operations (a send, a timer wait), and each has two states: still in    *)
(* flight ("sending", "waiting", "lastWait"), or complete with its handler *)
(* queued on the strand ("sent", "woken", "lastWoken").  Between the two,  *)
(* other handlers run: that gap is where the races are.  Only stop() runs  *)
(* off the strand.                                                         *)
(***************************************************************************)
EXTENDS Naturals, FiniteSets

CONSTANTS
    Requests,     \* the v2c requests the callers make, each made at most once
    Endpoints,    \* UDP endpoints
    Communities,  \* v2c Communities
    Target,       \* the endpoint each request is sent to
    CommunityOf,  \* the Community each request quotes
    FamilyOf,     \* the address family of each endpoint
    Retries,      \* Target::retries
    MaxId,        \* the largest request-id; 2^31 - 1 in the code
    None          \* no entry in m_pending

Families == {"v4", "v6"}

ASSUME ExchangeAssumption ==
    /\ Target \in [Requests -> Endpoints]
    /\ CommunityOf \in [Requests -> Communities]
    /\ FamilyOf \in [Endpoints -> Families]
    /\ Retries \in Nat
    /\ MaxId \in Nat \ {0}
    /\ None \notin Requests

\* The counter does not come round within the life of a Client.
ASSUME RequestsFitIds ==
    /\ IsFiniteSet(Requests)
    /\ Cardinality(Requests) <= MaxId

VARIABLES
    stopping,     \* m_stopping, the one member written off the strand
    cleanup,      \* where finishStopping() is: "none", "queued", "done"
    sock,         \* m_v4 and m_v6
    loop,         \* the receive loop of each socket
    nextId,       \* m_nextId
    pending,      \* m_pending, as a function that is None where there is no entry
    pc,           \* where each request's coroutine is
    key,          \* the request-id each request was given
    attempt,      \* the attempt counter of transact()'s loop
    sendFailed,   \* whether ec is set after the last send
    signals,      \* the cancellation types its cancellation state has seen
    answered,     \* Pending::answered
    response,     \* Pending::response: which request it is the answer to
    onWire,       \* requests of which at least one datagram has left
    result        \* what each request completed with

client == <<stopping, cleanup, sock, loop>>
reply == <<answered, response>>
exchange == <<pc, key, attempt, sendFailed, signals, onWire, result>>
vars == <<client, nextId, pending, reply, exchange>>

Ids == 1..MaxId

Outstanding == {"sending", "sent", "waiting", "woken", "lastWait", "lastWoken"}

Results == {"none", "reply", "operation_aborted", "ClientStopped", "Timeout",
            "sendError", "openError", "encodeError"}

\* What an Agent may send about a request it was sent: whatever it says, from
\* whichever of its addresses, quoting the request-id it was asked with.
Datagrams == [about: Requests, from: Endpoints, community: Communities,
              type: {"Response", "Other"}]

Init ==
    /\ stopping = FALSE
    /\ cleanup = "none"
    /\ sock = [f \in Families |-> "none"]
    /\ loop = [f \in Families |-> "none"]
    /\ nextId \in Ids
    /\ pending = [i \in Ids |-> None]
    /\ pc = [r \in Requests |-> "idle"]
    /\ key = [r \in Requests |-> 0]
    /\ attempt = [r \in Requests |-> 0]
    /\ sendFailed = [r \in Requests |-> FALSE]
    /\ signals = [r \in Requests |-> {}]
    /\ answered = [r \in Requests |-> FALSE]
    /\ response = [r \in Requests |-> None]
    /\ onWire = {}
    /\ result = [r \in Requests |-> "none"]

-----------------------------------------------------------------------------
(* Issuing a request: doRequestV2c down to transact()'s first send.        *)

\* Mutant of NextId: no step.
NextIdStuck(id) == id

\* The counter's successor, wrapping from the largest id to 1.
NextId(id) == IF id = MaxId THEN 1 ELSE id + 1

Complete(r, code) ==
    /\ pc' = [pc EXCEPT ![r] = "done"]
    /\ result' = [result EXCEPT ![r] = code]

\* A request made once Stopping has begun.  The flag is looked at twice, with the
\* id taken in between, and another thread may set it between the two looks.
Refuse(r) ==
    /\ pc[r] = "idle"
    /\ stopping
    /\ \/ UNCHANGED <<key, nextId>>
       \/ key' = [key EXCEPT ![r] = nextId] /\ nextId' = NextId(nextId)
    /\ Complete(r, "ClientStopped")
    /\ UNCHANGED <<client, pending, attempt, sendFailed, signals, reply, onWire>>

\* A request that fails before it is sent: its message does not encode, or a
\* socket of its family has to be opened and cannot be.
FailEarly(r, code) ==
    /\ pc[r] = "idle"
    /\ ~stopping
    /\ code = "openError" => sock[FamilyOf[Target[r]]] = "none"
    /\ key' = [key EXCEPT ![r] = nextId]
    /\ nextId' = NextId(nextId)
    /\ Complete(r, code)
    /\ UNCHANGED <<client, pending, attempt, sendFailed, signals, reply, onWire>>

\* Mutant of Issue: the flag is not looked at before a socket is made.
IssueWhileStopping(r) ==
    /\ pc[r] = "idle"
    /\ sock' = [sock EXCEPT ![FamilyOf[Target[r]]] = "open"]
    /\ loop' = [loop EXCEPT ![FamilyOf[Target[r]]] = "running"]
    /\ key' = [key EXCEPT ![r] = nextId]
    /\ nextId' = NextId(nextId)
    /\ pending' = [pending EXCEPT ![nextId] = IF @ = None THEN r ELSE @]
    /\ pc' = [pc EXCEPT ![r] = "sending"]
    /\ UNCHANGED <<stopping, cleanup, attempt, sendFailed, signals, reply, onWire, result>>

\* A request that is sent.  The socket and its receive loop are made on first
\* use.  emplace() leaves an entry that is already there alone.
Issue(r) ==
    /\ pc[r] = "idle"
    /\ ~stopping
    /\ LET f == FamilyOf[Target[r]] IN
       IF sock[f] = "none"
         THEN /\ sock' = [sock EXCEPT ![f] = "open"]
              /\ loop' = [loop EXCEPT ![f] = "running"]
         ELSE UNCHANGED <<sock, loop>>
    /\ key' = [key EXCEPT ![r] = nextId]
    /\ nextId' = NextId(nextId)
    /\ pending' = [pending EXCEPT ![nextId] = IF @ = None THEN r ELSE @]
    /\ pc' = [pc EXCEPT ![r] = "sending"]
    /\ UNCHANGED <<stopping, cleanup, attempt, sendFailed, signals, reply, onWire, result>>

-----------------------------------------------------------------------------
(* transact()'s loop.                                                      *)

\* The send completes, with an error or not; a closed socket sends nothing.
SendCompletes(r, failed) ==
    /\ pc[r] = "sending"
    /\ failed \/ sock[FamilyOf[Target[r]]] = "open"
    /\ pc' = [pc EXCEPT ![r] = "sent"]
    /\ sendFailed' = [sendFailed EXCEPT ![r] = failed]
    /\ onWire' = IF failed THEN onWire ELSE onWire \union {r}
    /\ UNCHANGED <<client, nextId, pending, key, attempt, signals, reply, result>>

\* Mutant of Expire: the second wait has no deadline.
ExpireFirstWaitOnly(r) ==
    /\ pc[r] = "waiting"
    /\ pc' = [pc EXCEPT ![r] = "woken"]
    /\ UNCHANGED <<client, nextId, pending, key, attempt, sendFailed, signals, reply,
                   onWire, result>>

\* The deadline passes.
Expire(r) ==
    /\ \/ pc[r] = "waiting" /\ pc' = [pc EXCEPT ![r] = "woken"]
       \/ pc[r] = "lastWait" /\ pc' = [pc EXCEPT ![r] = "lastWoken"]
    /\ UNCHANGED <<client, nextId, pending, key, attempt, sendFailed, signals, reply,
                   onWire, result>>

Aborted(r) == "terminal" \in signals[r]

\* Mutant of Outcome: a reply in hand counts although Stopping has begun.
OutcomeReplyBeforeStop(r) ==
    IF Aborted(r) THEN "operation_aborted"
    ELSE IF answered[r] THEN "reply"
    ELSE IF signals[r] # {} THEN "operation_aborted"
    ELSE IF stopping THEN "ClientStopped"
    ELSE IF sendFailed[r] THEN "sendError"
    ELSE "Timeout"

\* The order in which transact() looks for the reason it is over.
Outcome(r) ==
    IF Aborted(r) THEN "operation_aborted"
    ELSE IF answered[r] /\ ~stopping THEN "reply"
    ELSE IF signals[r] # {} THEN "operation_aborted"
    ELSE IF stopping THEN "ClientStopped"
    ELSE IF sendFailed[r] THEN "sendError"
    ELSE "Timeout"

\* Mutant of Leave: the entry stays.
LeaveWithoutErase(r) ==
    /\ Complete(r, Outcome(r))
    /\ UNCHANGED <<pending, attempt>>

\* What follows transact()'s loop: the entry goes, and the caller is told.
Leave(r) ==
    /\ pending' = [pending EXCEPT ![key[r]] = None]
    /\ Complete(r, Outcome(r))
    /\ UNCHANGED attempt

Suspend(r, where) ==
    /\ pc' = [pc EXCEPT ![r] = where]
    /\ UNCHANGED <<pending, attempt, result>>

\* Mutant of LeaveAfterSend: the flag is not looked at before the timer is armed.
LeaveAfterFailedSend(r) == sendFailed[r]

\* The coroutine resumes from the send: it leaves, or arms the deadline.
LeaveAfterSend(r) == sendFailed[r] \/ stopping

ResumeFromSend(r) ==
    /\ pc[r] = "sent"
    /\ IF LeaveAfterSend(r) THEN Leave(r) ELSE Suspend(r, "waiting")
    /\ UNCHANGED <<client, nextId, key, sendFailed, signals, reply, onWire>>

\* Mutants of LeaveAfterWait and MayRetransmit: the flag is not looked at before
\* a retransmission; the last retransmission is left out.
LeaveWhenAnsweredOrAborted(r) == answered[r] \/ Aborted(r)
MayRetransmitOneLess(r) == attempt[r] + 1 < Retries

\* The coroutine resumes from the wait.  A total signal sends it into a second
\* wait, on what is left of the deadline and out of reach of any signal.
LeaveAfterWait(r) == answered[r] \/ stopping \/ Aborted(r)

MayRetransmit(r) == attempt[r] < Retries

ResumeFromWait(r) ==
    /\ pc[r] = "woken"
    /\ \/ /\ LeaveAfterWait(r)
          /\ Leave(r)
       \/ /\ ~LeaveAfterWait(r)
          /\ signals[r] # {}
          /\ Suspend(r, "lastWait")
       \/ /\ ~LeaveAfterWait(r)
          /\ signals[r] = {}
          /\ IF MayRetransmit(r)
               THEN /\ attempt' = [attempt EXCEPT ![r] = @ + 1]
                    /\ pc' = [pc EXCEPT ![r] = "sending"]
                    /\ UNCHANGED <<pending, result>>
               ELSE Leave(r)
    /\ UNCHANGED <<client, nextId, key, sendFailed, signals, reply, onWire>>

ResumeFromLastWait(r) ==
    /\ pc[r] = "lastWoken"
    /\ Leave(r)
    /\ UNCHANGED <<client, nextId, key, sendFailed, signals, reply, onWire>>

-----------------------------------------------------------------------------
(* What reaches a suspended request from elsewhere on the strand.          *)

\* Cancelling a timer completes the wait on it.  It does nothing to a timer no
\* one is waiting on: one not yet armed, or one whose wait is already over.
Woken(p) ==
    CASE p = "waiting"  -> "woken"
      [] p = "lastWait" -> "lastWoken"
      [] OTHER          -> p

\* A cancellation signal.  It is recorded, and it interrupts the operation the
\* coroutine is suspended in unless that is the second wait.
Signal(r, type) ==
    /\ pc[r] \in Outstanding
    /\ type \notin signals[r]
    /\ signals' = [signals EXCEPT ![r] = @ \union {type}]
    /\ pc' = [pc EXCEPT ![r] = CASE @ = "sending" -> "sent"
                                 [] @ = "waiting" -> "woken"
                                 [] OTHER         -> @]
    /\ sendFailed' = [sendFailed EXCEPT ![r] = @ \/ pc[r] = "sending"]
    /\ UNCHANGED <<client, nextId, pending, key, attempt, reply, onWire, result>>

\* A datagram that answers an outstanding request.  Any other is dropped and
\* changes nothing.  A datagram may be late, repeated or out of order: one
\* about a request can arrive at any time after that request was sent.
Matches(d, r) ==
    /\ d.type = "Response"
    /\ d.from = Target[r]
    /\ d.community = CommunityOf[r]

Deliver(d) ==
    /\ d.about \in onWire
    /\ loop[FamilyOf[d.from]] = "running"
    /\ LET r == pending[key[d.about]] IN
       /\ r # None
       /\ Matches(d, r)
       /\ response' = [response EXCEPT ![r] = d.about]
       /\ answered' = [answered EXCEPT ![r] = TRUE]
       /\ pc' = [pc EXCEPT ![r] = Woken(@)]
    /\ UNCHANGED <<client, nextId, pending, key, attempt, sendFailed, signals, onWire,
                   result>>

-----------------------------------------------------------------------------
(* Stopping, and the end of a receive loop.                                *)

\* stop(), from any thread: the flag at once, the cleanup queued on the strand.
Stop ==
    /\ ~stopping
    /\ stopping' = TRUE
    /\ cleanup' = "queued"
    /\ UNCHANGED <<sock, loop, nextId, pending, reply, exchange>>

\* finishStopping(): closes the sockets, and cancels the timer of every request
\* that m_pending knows.
CloseAndWake ==
    /\ sock' = [f \in Families |-> IF sock[f] = "open" THEN "closed" ELSE sock[f]]
    /\ pc' = [r \in Requests |-> IF \E i \in Ids : pending[i] = r THEN Woken(pc[r]) ELSE pc[r]]
    /\ cleanup' = "done"

FinishStopping ==
    /\ cleanup = "queued"
    /\ CloseAndWake
    /\ UNCHANGED <<stopping, loop, nextId, pending, key, attempt, sendFailed, signals,
                   reply, onWire, result>>

\* The receive fails, because the socket was closed or for any other reason:
\* the loop is over for good.
ReceiveFails(f) ==
    /\ loop[f] = "running"
    /\ loop' = [loop EXCEPT ![f] = "ended"]
    /\ UNCHANGED <<stopping, cleanup, sock, nextId, pending, reply, exchange>>

\* The receive loop throws: its completion, already on the strand, stops the
\* Client and runs the cleanup in place.
LoopThrows(f) ==
    /\ loop[f] = "running"
    /\ loop' = [loop EXCEPT ![f] = "ended"]
    /\ stopping' = TRUE
    /\ IF stopping THEN UNCHANGED <<sock, pc, cleanup>> ELSE CloseAndWake
    /\ UNCHANGED <<nextId, pending, key, attempt, sendFailed, signals, reply, onWire,
                   result>>

-----------------------------------------------------------------------------
Next ==
    \/ \E r \in Requests :
          \/ Refuse(r)
          \/ \E code \in {"openError", "encodeError"} : FailEarly(r, code)
          \/ Issue(r)
          \/ \E failed \in BOOLEAN : SendCompletes(r, failed)
          \/ Expire(r)
          \/ ResumeFromSend(r)
          \/ ResumeFromWait(r)
          \/ ResumeFromLastWait(r)
          \/ \E type \in {"terminal", "total"} : Signal(r, type)
    \/ \E d \in Datagrams : Deliver(d)
    \/ Stop
    \/ FinishStopping
    \/ \E f \in Families : ReceiveFails(f) \/ LoopThrows(f)

Spec == Init /\ [][Next]_vars

\* The io_context runs: what is queued on the strand is run, and a send ends.
StrandFairness ==
    /\ WF_vars(FinishStopping)
    /\ \A r \in Requests :
          /\ WF_vars(\E failed \in BOOLEAN : SendCompletes(r, failed))
          /\ WF_vars(ResumeFromSend(r))
          /\ WF_vars(ResumeFromWait(r))
          /\ WF_vars(ResumeFromLastWait(r))

\* Time passes: an armed deadline is reached.
TimerFairness == \A r \in Requests : WF_vars(Expire(r))

\* The strand runs but no deadline need ever be reached: whatever happens here
\* happens without waiting for one.
PromptSpec == Spec /\ StrandFairness

-----------------------------------------------------------------------------
(* Correctness.                                                            *)

\* Every variable keeps its type: nextId() stays in range through its wrap, and
\* transact()'s attempt counter never passes the Target's retries.
TypeOK ==
    /\ stopping \in BOOLEAN
    /\ cleanup \in {"none", "queued", "done"}
    /\ sock \in [Families -> {"none", "open", "closed"}]
    /\ loop \in [Families -> {"none", "running", "ended"}]
    /\ nextId \in Ids
    /\ pending \in [Ids -> Requests \union {None}]
    /\ pc \in [Requests -> Outstanding \union {"idle", "done"}]
    /\ key \in [Requests -> Ids \union {0}]
    /\ attempt \in [Requests -> 0..Retries]
    /\ sendFailed \in [Requests -> BOOLEAN]
    /\ signals \in [Requests -> SUBSET {"terminal", "total"}]
    /\ answered \in [Requests -> BOOLEAN]
    /\ response \in [Requests -> Requests \union {None}]
    /\ onWire \in SUBSET Requests
    /\ result \in [Requests -> Results]

\* m_pending holds every outstanding request under its own id, and nothing
\* else: none is lost to a collision and none is left behind by an exit path.
PendingIsExact ==
    /\ \A r \in Requests : pc[r] \in Outstanding => pending[key[r]] = r
    /\ \A i \in Ids : pending[i] # None => /\ pc[pending[i]] \in Outstanding
                                          /\ key[pending[i]] = i

\* A request that completes with a reply completes with the reply to itself,
\* however late or often the replies to the others arrive.
ReplyIsOwn == \A r \in Requests : result[r] = "reply" => response[r] = r

\* Once the strand has run the cleanup, no request waits for a deadline: the
\* cleanup woke those that were waiting, and none arms its timer afterwards
\* (transact() looks at the flag after each send for that).
StopLeavesNoneWaiting ==
    cleanup = "done" => \A r \in Requests : pc[r] \notin {"waiting", "lastWait"}

\* Nothing reopens a socket that Stopping has closed.
StopLeavesNoSocketOpen == cleanup = "done" => \A f \in Families : sock[f] # "open"

\* stop() is complete once its cleanup has run: nothing waits for a deadline, and
\* nothing reads a socket.
StopLeavesNothing == StopLeavesNoneWaiting /\ StopLeavesNoSocketOpen

\* Timeout is only ever reported once every retransmission has gone out.
TimeoutMeansExhausted ==
    \A r \in Requests : result[r] = "Timeout" => /\ attempt[r] = Retries
                                                /\ r \in onWire

\* No send begins once the flag is set, and none for a request that has been sent a
\* signal of either type or has its reply in hand: one that came in before its own
\* send had completed, and so woke no one, waits out a deadline and is then used.
NoSendOnceOver ==
    [][\A r \in Requests : pc[r] # "sending" /\ pc'[r] = "sending"
          => ~stopping /\ signals[r] = {} /\ ~answered[r]]_vars

\* The inductive invariant behind the five invariants above.
Started == {r \in Requests : key[r] # 0}

Wrap(n) == IF n > MaxId THEN n - MaxId ELSE n

\* The ids handed out are consecutive from some first one, up to nextId.
IdsAreConsecutive ==
    \E first \in Ids :
       /\ nextId = Wrap(first + Cardinality(Started))
       /\ \A r \in Started : \E i \in 0..MaxId : /\ i < Cardinality(Started)
                                                /\ key[r] = Wrap(first + i)

IdsDiffer == \A r, s \in Started : key[r] = key[s] => r = s

\* What is known of a request from where its coroutine is.
RequestInv(r) ==
    /\ pc[r] = "idle" => /\ key[r] = 0
                         /\ signals[r] = {}
                         /\ ~answered[r]
                         /\ result[r] = "none"
    /\ pc[r] \in Outstanding => key[r] # 0 /\ result[r] = "none"
    /\ pc[r] = "sent" => sendFailed[r] \/ r \in onWire
    /\ pc[r] \in {"waiting", "woken", "lastWait", "lastWoken"} => r \in onWire /\ ~sendFailed[r]
    /\ pc[r] \in {"lastWait", "lastWoken"} => signals[r] # {}
    /\ r \in onWire => key[r] # 0
    /\ answered[r] => response[r] = r
    /\ result[r] = "reply" => answered[r]

\* The counter, the coroutines, m_pending and Stopping agree with each other.
ExchangeInv ==
    /\ IdsAreConsecutive
    /\ IdsDiffer
    /\ \A r \in Requests : RequestInv(r)
    /\ PendingIsExact
    /\ stopping <=> cleanup # "none"
    /\ StopLeavesNoneWaiting
    /\ StopLeavesNoSocketOpen
    /\ TimeoutMeansExhausted

\* The exchange layer keeps the promise of OutstandingRequest.
Promise == INSTANCE OutstandingRequest WITH
    status <- [r \in Requests |-> IF pc[r] = "idle" THEN "new"
                                  ELSE IF pc[r] = "done" THEN "completed"
                                  ELSE "outstanding"],
    replied <- answered,
    code <- result

KeepsPromise == Promise!Spec

\* The part of that promise that something does end every request, given that
\* deadlines pass.
KeepsPromiseInTime == TimerFairness => Promise!Completes

\* Once Stopping has begun every outstanding request completes without waiting
\* for its deadline.
StopIsPrompt == stopping ~> \A r \in Requests : pc[r] \notin Outstanding
=============================================================================
