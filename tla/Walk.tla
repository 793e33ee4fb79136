-------------------------------- MODULE Walk --------------------------------
(***************************************************************************)
(* A Walk of a Subtree: doWalk, and doWalkCollect over it.                 *)
(*                                                                         *)
(* The requests underneath are taken at their promise (OutstandingRequest, *)
(* which Exchange implements).  What runs on the strand between a reply    *)
(* and the next request is cut where another actor matters: before the     *)
(* look at m_stopping, between that look and the call of the batch         *)
(* handler, and inside the handler.  stop() may fall anywhere, from        *)
(* whichever thread; a signal is delivered on the strand, so while a       *)
(* request is outstanding or from inside the handler.  The Agent is        *)
(* honest, and answers from a fixed set of instances, or answers anything. *)
(***************************************************************************)
EXTENDS Integers, Sequences, FiniteSets, ErrorClass

CONSTANTS
    Oids,            \* the OIDs there are: sequences of sub-identifiers
    Base,            \* the root of the Subtree
    MaxRepetitions,  \* WalkOptions::maxRepetitions
    MaxVarbinds      \* how many Varbinds a reply has at most (a bound of the model)

ASSUME WalkAssumption ==
    /\ Oids \subseteq Seq(Nat) /\ IsFiniteSet(Oids)
    /\ Base \in Oids
    /\ MaxRepetitions \in Int
    /\ MaxVarbinds \in Nat

VARIABLES
    pc,              \* where the coroutine is: "idle", "waiting", "replied", "looked",
                     \* "handling", "done"
    current,         \* the last OID taken
    maxRepetitions,  \* what the next request asks for
    cancelled,       \* the cancellation state, as the last request re-seated it
    signals,         \* every cancellation type sent while a request was outstanding
    emitted,         \* every cancellation type sent from inside the batch handler
    stopping,        \* m_stopping
    stoppedAt,       \* history: where the coroutine was as Stopping began
    late,            \* history: how often the handler was called since
    done,            \* whether the batch being handled is the last of the Subtree
    delivered,       \* the OIDs handed to onBatch, in order
    result,          \* what the Walk completed with
    honest,          \* whether the Agent is honest
    mib              \* the instances an honest Agent has

agent == <<honest, mib>>
stop == <<stopping, stoppedAt>>
batch == <<current, delivered, done, late>>
vars == <<pc, maxRepetitions, cancelled, signals, emitted, result, stop, batch, agent>>

\* Oid's operator<, lexicographic on sub-identifiers, and isPrefixOf.
Less(a, b) ==
    \E n \in 0..Len(a) :
        /\ n < Len(b)
        /\ \A i \in 1..n : a[i] = b[i]
        /\ n = Len(a) \/ a[n + 1] < b[n + 1]

IsPrefixOf(a, b) == Len(a) <= Len(b) /\ \A i \in 1..Len(a) : a[i] = b[i]

\* ErrorStatus::GenErr, for an error-status that is not tooBig.
genErr == 5

\* A Varbind: its name, and whether its value is an exception marker.
Varbinds == [name: Oids, exception: BOOLEAN]

Init ==
    /\ pc = "idle"
    /\ current = Base
    /\ maxRepetitions = MaxRepetitions
    /\ cancelled = {}
    /\ signals = {}
    /\ emitted = {}
    /\ stopping = FALSE
    /\ stoppedAt = "none"
    /\ late = 0
    /\ done = FALSE
    /\ delivered = <<>>
    /\ result = "none"
    /\ honest \in BOOLEAN
    /\ mib \in IF honest THEN SUBSET Oids ELSE {{}}

-----------------------------------------------------------------------------
(* The Agent (external): what a successful reply may hold.                 *)

\* The name that the Varbind at i follows: the one asked from, or the one before it.
Before(vbs, i) == IF i = 1 THEN current ELSE vbs[i - 1].name

\* What an honest Agent has after a name: the next instance, or endOfMibView under that
\* name if there is none.
NextAfter[name \in Oids] ==
    LET later == {o \in mib : Less(name, o)}
    IN  IF later = {} THEN [name |-> name, exception |-> TRUE]
        ELSE [name |-> CHOOSE o \in later : \A p \in later : ~Less(p, o), exception |-> FALSE]

\* An honest reply of n Varbinds: each is the next after the one before it.
HonestReply(n) ==
    LET reply[i \in 1..n] == NextAfter[Before(reply, i)] IN reply

\* An honest Agent sends at least one Varbind and no more than it was asked for.
Replies ==
    LET asked == IF maxRepetitions <= 0 THEN 1 ELSE maxRepetitions
    IN  IF honest THEN {HonestReply(n) : n \in {k \in 1..asked : k <= MaxVarbinds}}
        ELSE UNION {[1..n -> Varbinds] : n \in 0..MaxVarbinds}

-----------------------------------------------------------------------------
(* The Walk.                                                               *)

Complete(code) ==
    /\ pc' = "done"
    /\ result' = code
    /\ UNCHANGED cancelled

\* stopNow(), where a signal has been seen.
StopCode == IF "terminal" \in cancelled THEN "operation_aborted" ELSE "WalkIncomplete"

\* Mutant of Ask: the state is re-seated before it is looked at.
AskUnlooked ==
    IF stopping THEN Complete("ClientStopped")
    ELSE pc' = "waiting" /\ cancelled' = {} /\ UNCHANGED result

\* The head of the loop: a signal ends the Walk at a batch boundary, and otherwise
\* the next request begins, which re-seats the cancellation state.
Ask ==
    IF cancelled # {} THEN Complete(StopCode)
    ELSE IF stopping THEN Complete("ClientStopped")
    ELSE pc' = "waiting" /\ cancelled' = {} /\ UNCHANGED result

Begin ==
    /\ pc = "idle"
    /\ Ask
    /\ UNCHANGED <<maxRepetitions, signals, emitted, stop, batch, agent>>

\* How the scan of a reply goes.  A Varbind ends the Walk, or is at fault, or is
\* taken.
Ends(vb) == vb.exception \/ ~IsPrefixOf(Base, vb.name)

\* Mutant of Faulty: an OID that repeats the last one is let through.
FaultyIfLess(before, vb) == Less(vb.name, before)

Faulty(before, vb) == ~Less(before, vb.name)

\* How many Varbinds are taken before the scan stops.
Taken(vbs) ==
    LET Stops(i) == Ends(vbs[i]) \/ Faulty(Before(vbs, i), vbs[i])
    IN  CHOOSE n \in 0..Len(vbs) :
            /\ \A i \in 1..n : ~Stops(i)
            /\ n < Len(vbs) => Stops(n + 1)

\* Mutant of Done: a reply with less than was asked for ends the Walk.
DoneIfShort(vbs) ==
    Len(vbs) < maxRepetitions \/ (Taken(vbs) < Len(vbs) /\ Ends(vbs[Taken(vbs) + 1]))

Done(vbs) == Taken(vbs) < Len(vbs) /\ Ends(vbs[Taken(vbs) + 1])

\* transact() returns a reply: no terminal signal and no Stopping outranks it.
Reply ==
    /\ pc = "waiting"
    /\ "terminal" \notin cancelled
    /\ ~stopping
    /\ pc' = "replied"
    /\ UNCHANGED <<maxRepetitions, cancelled, signals, emitted, result, stop, batch, agent>>

\* Mutant of Discards: a reply in hand as Stopping began is used.
DiscardsNever == FALSE

\* The flag is looked at again: it may have been set since transact() did.
Discards == stopping

Look ==
    /\ pc = "replied"
    /\ IF Discards THEN Complete("ClientStopped")
       ELSE pc' = "looked" /\ UNCHANGED <<cancelled, result>>
    /\ UNCHANGED <<maxRepetitions, signals, emitted, stop, batch, agent>>

\* The foot of the loop: the Subtree is at its end, or more is asked for.
Continue(ended) == IF ended THEN Complete("ok") ELSE Ask

\* What doWalk does with a reply that has no error-status.  A faulty one is dropped
\* whole; the Varbinds taken from another are one batch, and the handler is called
\* with it unless it is empty.
Answer(vbs) ==
    /\ pc = "looked"
    /\ LET n == Taken(vbs)
       IN  IF vbs = <<>> THEN Complete("MissingVarbind") /\ UNCHANGED batch
           ELSE IF n < Len(vbs) /\ ~Ends(vbs[n + 1])
                THEN Complete("NonIncreasingOid") /\ UNCHANGED batch
           ELSE IF n = 0 THEN Continue(Done(vbs)) /\ UNCHANGED batch
           ELSE /\ delivered' = delivered \o [i \in 1..n |-> vbs[i].name]
                /\ current' = vbs[n].name
                /\ done' = Done(vbs)
                /\ late' = IF stopping THEN late + 1 ELSE late
                /\ pc' = "handling"
                /\ UNCHANGED <<cancelled, result>>
    /\ UNCHANGED <<maxRepetitions, signals, emitted, stop, agent>>

\* The handler says whether it wants more, and is believed before any signal or
\* stop() that came while it ran.
HandlerReturns(more) ==
    /\ pc = "handling"
    /\ IF more THEN Continue(done) ELSE Complete("WalkIncomplete")
    /\ UNCHANGED <<maxRepetitions, signals, emitted, stop, batch, agent>>

\* Mutant of Halved: the same is asked for again.
HalvedNot == maxRepetitions

Halved == maxRepetitions \div 2

MayHalve == maxRepetitions > 1

\* A reply with error-status tooBig: less is asked for, down to one.
TooBig ==
    /\ pc = "replied"
    /\ MayHalve
    /\ maxRepetitions' = Halved
    /\ Ask
    /\ UNCHANGED <<signals, emitted, stop, batch, agent>>

\* Any other failure of the request, an error-status among them: the signal that
\* cut it short, if one did, is what the caller hears of.
Failed(code) == Complete(IF cancelled # {} THEN StopCode ELSE code)

AgentError ==
    /\ pc = "replied"
    /\ Failed("agentError")
    /\ UNCHANGED <<maxRepetitions, signals, emitted, stop, batch, agent>>

RequestFails ==
    /\ pc = "waiting"
    /\ Failed(IF stopping THEN "ClientStopped" ELSE "requestError")
    /\ UNCHANGED <<maxRepetitions, signals, emitted, stop, batch, agent>>

\* A signal reaches the Walk: on the strand, in a wait of the request underneath, or
\* sent by the batch handler itself.
Signal(type) ==
    /\ \/ pc = "waiting" /\ signals' = signals \union {type} /\ UNCHANGED emitted
       \/ pc = "handling" /\ emitted' = emitted \union {type} /\ UNCHANGED signals
    /\ cancelled' = cancelled \union {type}
    /\ UNCHANGED <<pc, maxRepetitions, result, stop, batch, agent>>

\* stop(), on any thread.
Stop ==
    /\ ~stopping
    /\ stopping' = TRUE
    /\ stoppedAt' = pc
    /\ UNCHANGED <<pc, maxRepetitions, cancelled, signals, emitted, result, batch, agent>>

Handle ==
    \/ AgentError
    \/ TooBig
    \/ Look
    \/ \E vbs \in Replies : Answer(vbs)
    \/ \E more \in BOOLEAN : HandlerReturns(more)

Next ==
    \/ Begin
    \/ Reply
    \/ RequestFails
    \/ Handle
    \/ \E type \in {"terminal", "total"} : Signal(type)
    \/ Stop

Spec == Init /\ [][Next]_vars

\* Requests end, as transact() promises, and what a reply resumed runs on; the batch
\* handler returns.
FairSpec == Spec /\ WF_vars(Reply \/ RequestFails) /\ WF_vars(Handle)

-----------------------------------------------------------------------------
(* Correctness.                                                            *)

\* doWalkCollect's vector: a terminal signal drops everything.
Collected == IF result = "operation_aborted" THEN <<>> ELSE delivered

Codes == {"ok", "WalkIncomplete", "operation_aborted", "ClientStopped", "MissingVarbind",
          "NonIncreasingOid", "agentError", "requestError"}

PCs == {"idle", "waiting", "replied", "looked", "handling", "done"}

\* Every variable keeps its type: however often doWalk halves what it asks for, it never
\* comes to ask for nothing.
TypeOK ==
    /\ pc \in PCs
    /\ current \in Oids
    /\ maxRepetitions = MaxRepetitions \/ maxRepetitions \in 1..MaxRepetitions
    /\ cancelled \subseteq {"terminal", "total"}
    /\ signals \subseteq {"terminal", "total"}
    /\ emitted \subseteq {"terminal", "total"}
    /\ stopping \in BOOLEAN
    /\ stoppedAt \in PCs \union {"none"}
    /\ late \in Nat
    /\ done \in BOOLEAN
    /\ delivered \in Seq(Oids)
    /\ result \in Codes \union {"none"}
    /\ honest \in BOOLEAN
    /\ mib \subseteq Oids

\* Whatever the Agent answers, the handler is given OIDs of the Subtree only, each
\* later than every one before it, across batches too; and the next request asks
\* from the last of them, and never for nothing however often doWalk has halved.
DeliveredInOrder ==
    /\ \A i \in DOMAIN delivered : IsPrefixOf(Base, delivered[i]) /\ Less(Base, delivered[i])
    /\ \A i, j \in DOMAIN delivered : i < j => Less(delivered[i], delivered[j])
    /\ current = IF delivered = <<>> THEN Base ELSE delivered[Len(delivered)]
    /\ maxRepetitions >= 1 \/ maxRepetitions = MaxRepetitions

\* A Walk of an honest Agent that says it is complete handed over every instance
\* beneath the base, and no signal or handler that cut it short makes it say so.
CompleteIsWhole ==
    honest /\ result = "ok" =>
       {Collected[i] : i \in DOMAIN Collected} = {o \in mib : IsPrefixOf(Base, o) /\ Less(Base, o)}

\* What a retry policy makes of a result.
ClassOf(code) ==
    CASE code = "operation_aborted" -> Classify("system", "operation_canceled")
      [] code = "agentError" -> Classify("agent", genErr)
      [] code = "requestError" -> Classify("snmpio", "Timeout")
      [] code = "ok" -> Classify("snmpio", "Ok")
      [] OTHER -> Classify("snmpio", code)

\* A Walk that was sent a terminal signal while a request of its was outstanding says it
\* was aborted, and one that was sent a signal of either type, there or from inside its
\* batch handler, ends whole or with a code that no retry policy starts it over for:
\* re-seating the cancellation state for each request loses no signal, and after one
\* sent from the handler there is no other request.
CancelledIsTold ==
    /\ emitted # {} => pc \in {"handling", "done"}
    /\ pc = "done" =>
          /\ "terminal" \in signals => result = "operation_aborted"
          /\ signals \union emitted # {} => ClassOf(result) \in {"Ok", "Fatal"}

\* Once Stopping has begun, on whichever thread, the handler is called at most once more,
\* and only where stop() fell between doWalk's look at the flag and the call.
OneBatchRacesStop == late <= IF stoppedAt = "looked" THEN 1 ELSE 0

\* A Walk ends, whatever the Agent answers: every turn of the loop takes a later OID
\* or asks for less.  (How far off the end is depends on how many OIDs there are.)
Terminates == pc # "idle" ~> pc = "done"
=============================================================================
