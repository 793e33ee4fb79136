----------------------------- MODULE Discovery ------------------------------
(***************************************************************************)
(* SNMPv3 requests and Engine Discovery: doRequestV3, ensureEngine,        *)
(* runDiscovery, discoverEngine, deliverV3, timely, observeEngineTime and  *)
(* handleReport, over the Engine cache they share.                         *)
(*                                                                         *)
(* Everything runs on one strand, so a step is what happens between two    *)
(* suspensions; only stop() sets its flag from any thread, so between two  *)
(* looks at it that one step takes, too.  transact() is taken at its promise (OutstandingRequest,   *)
(* which Exchange implements): an exchange accepts replies while it is     *)
(* outstanding, and ends with one of the Verdicts.  The local clock is     *)
(* EngineClock's business: here a pair of the current boot may be found    *)
(* inside the Time Window or outside, and an Engine's clock goes anywhere. *)
(***************************************************************************)
EXTENDS Naturals, FiniteSets, ErrorClass

CONSTANTS
    Requests,   \* the v3 requests the callers make, each made at most once
    Endpoints,  \* the Targets' endpoints
    Engines,    \* engineIDs
    Target,     \* the endpoint each request is sent to
    Level,      \* the Security Level of each request's Credentials
    MaxBoots,   \* the largest boots count (a bound of the model)
    MaxTime,    \* the largest time (a bound of the model)
    Ceiling,    \* bootsCeiling; 2^31 - 1 in the code
    Events,     \* what may befall the Client and the Engines
    Types,      \* the types of reply that may come
    Seals,      \* how replies may be sealed
    Signals,    \* the cancellation types callers may send
    Faults,     \* the exchanges that may fail before they are sent
    None        \* no Engine, no exchange

\* The counters a Report may name; "other" is one that usmStatsCounter() does not know.
Reports == {"unsupportedSecLevels", "notInTimeWindows", "unknownUserNames", "unknownEngineIDs",
            "wrongDigests", "decryptionErrors", "other"}

ASSUME DiscoveryAssumption ==
    /\ Target \in [Requests -> Endpoints]
    /\ Level \in [Requests -> {"noAuth", "auth"}]
    /\ MaxBoots \in Nat \ {0} /\ MaxTime \in Nat /\ Ceiling \in Nat \ {0}
    /\ Events \subseteq {"stop", "clock", "move"}
    /\ Types \subseteq {"Response"} \union Reports
    /\ Seals \subseteq {"signed", "unsigned", "wrongDigest", "wrongCipher"}
    /\ Signals \subseteq {"terminal", "total"}
    /\ Faults \subseteq {"request", "identify", "sync", "throw"}
    /\ Requests \intersect Endpoints = {}
    /\ None \notin Engines

VARIABLES
    stopping,   \* m_stopping
    cleanup,    \* where finishStopping() is: "none", "queued", "done"
    index,      \* m_engineAt
    engines,    \* m_engines, with a default entry where there is none, and whose
                \* signature each pair came with (history)
    disc,       \* m_discovering: the phase of each endpoint's discovery, or "none"
    discAuth,   \* whether that discovery's Credentials authenticate
    exch,       \* the exchange each request and each discovery has outstanding
    pc,         \* where each request's coroutine is
    attempt,    \* doRequestV3's loop counter
    verdict,    \* what the discovery a request was parked on says
    signals,    \* the cancellation types each request was sent
    result,     \* what each request completed with
    home,       \* the Engine at each endpoint
    clock,      \* each Engine's own boots and time
    shown       \* the pairs the Engine an exchange is for had at its endpoint since it began

flag == <<stopping, cleanup>>
cache == <<index, engines>>
discovery == <<disc, discAuth>>
request == <<pc, attempt, verdict, signals, result>>
world == <<home, clock>>
vars == <<flag, cache, discovery, exch, request, world, shown>>

Owners == Requests \union Endpoints
EndpointOf(o) == IF o \in Requests THEN Target[o] ELSE o

Older(p, q) == p.boots < q.boots \/ (p.boots = q.boots /\ p.time < q.time)

\* Mutant of AtCeiling: the count is taken to go beyond its ceiling.
AtCeilingBeyond(p) == p.boots > Ceiling

AtCeiling(p) == p.boots = Ceiling

\* A reply as deliverV3 reads it.  "wrongDigest" does not verify, "wrongCipher"
\* verifies and does not decrypt, and the others say what they are.
Replies ==
    [type: Types, engine: Engines \union {None}, boots: 1..MaxBoots, time: 0..MaxTime, seal: Seals]

DropReasons == {"AuthFailed", "DecryptionFailed", "NotInTimeWindow"}

\* A Pending, as far as doRequestV3, discoverEngine and deliverV3 use it.
Exchanges ==
    [engine: Engines \union {None}, auth: BOOLEAN, sync: BOOLEAN, answered: BOOLEAN,
     reply: Replies \union {None}, vouched: BOOLEAN, drop: DropReasons \union {"none"}]

ASSUME NoneAssumption == None \notin Exchanges

Init ==
    /\ stopping = FALSE
    /\ cleanup = "none"
    /\ index = [e \in Endpoints |-> None]
    /\ engines = [g \in Engines |-> [boots |-> 0, time |-> 0, synced |-> FALSE, from |-> None]]
    /\ disc = [e \in Endpoints |-> "none"]
    /\ discAuth = [e \in Endpoints |-> FALSE]
    /\ exch = [o \in Owners |-> None]
    /\ pc = [r \in Requests |-> "idle"]
    /\ attempt = [r \in Requests |-> 0]
    /\ verdict = [r \in Requests |-> "unfinished"]
    /\ signals = [r \in Requests |-> {}]
    /\ result = [r \in Requests |-> "none"]
    /\ home \in [Endpoints -> Engines]
    /\ clock = [g \in Engines |-> [boots |-> 1, time |-> 0]]
    /\ shown = [o \in Owners |-> {}]

-----------------------------------------------------------------------------
(* Exchanges: what starts one, what it accepts, how it ends.               *)

\* A fresh Pending.  An exchange without an Engine is the identity phase's.
NewExchange(engine, auth, sync) ==
    [engine |-> engine, auth |-> auth, sync |-> sync,
     answered |-> FALSE, reply |-> None, vouched |-> FALSE, drop |-> "none"]

Stamp(e, g) == IF home[e] = g THEN {clock[g]} ELSE {}

\* The exchanges of the owners in done end, and those in new begin.
Replace(done, new) ==
    /\ exch' = [o \in Owners |-> IF o \in DOMAIN new THEN new[o]
                                 ELSE IF o \in done THEN None ELSE exch[o]]
    /\ shown' = [o \in Owners |-> IF o \in DOMAIN new THEN Stamp(EndpointOf(o), new[o].engine)
                                  ELSE IF o \in done THEN {} ELSE shown[o]]

NoNew == [o \in {} |-> None]
Only(owner, exchange) == [o \in {owner} |-> exchange]

\* What may come back to an exchange: any answer of an Engine that was at the
\* endpoint since the exchange began, late, repeated or out of order.  Only the
\* Engine a message was keyed for can sign or encrypt the answer to it.  The
\* identity phase may be told anything.  Nothing else reads the pair of an answer that
\* is not signed, or the Engine of such a Report or of one that had to be signed, so one
\* of them stands for all.
Answers(o) ==
    LET Pair(m, p) == m.boots = p.boots /\ m.time = p.time
        Signed(m) == m.seal \in {"signed", "wrongCipher"}
        Asked(m) == m.engine = exch[o].engine
    IN  {m \in Replies :
           /\ m.seal # "unsigned" => exch[o].auth
           /\ IF exch[o].engine = None THEN m.type \in {"Response", "unknownEngineIDs"}
              ELSE IF Signed(m) THEN Asked(m) /\ \E p \in shown[o] : Pair(m, p)
              ELSE /\ Pair(m, [boots |-> MaxBoots, time |-> MaxTime])
                   /\ IF m.type \in Reports \/ exch[o].auth THEN Asked(m)
                      ELSE Asked(m) => shown[o] # {}}

\* Whether an answer's time is within the Time Window of the one held may go either way;
\* timely() is asked of a signed answer only.
Sides(m) == IF m.seal = "signed" THEN BOOLEAN ELSE {TRUE}

\* timely(): only a pair older than the one held is untimely, and only a signed
\* pair is held against anyone.
Timely(e, m, inWindow) ==
    LET held == engines[index[e]] IN
    \/ index[e] = None
    \/ ~held.synced
    \/ /\ ~AtCeiling(m)
       /\ ~AtCeiling(held)
       /\ m.boots > held.boots \/ (m.boots = held.boots /\ inWindow)

Authenticated(p, m) == p.auth /\ ~(m.type \in Reports /\ m.seal = "unsigned")

\* Why deliverV3 drops m, in its order: a named reason, "silently", or "none".
DropReason(p, e, m, inWindow) ==
    IF Authenticated(p, m) /\ m.seal \in {"unsigned", "wrongDigest"} THEN "AuthFailed"
    ELSE IF m.seal = "wrongCipher" THEN "DecryptionFailed"
    ELSE IF p.sync /\ ~Authenticated(p, m) /\ m.type = "notInTimeWindows" THEN "NotInTimeWindow"
    ELSE IF m.type \in Reports THEN "none"
    ELSE IF p.engine # None /\ m.engine # p.engine THEN "silently"
    ELSE IF p.auth /\ ~Timely(e, m, inWindow) THEN "NotInTimeWindow"
    ELSE "none"

\* Mutant of Deliver: the verdict on a dropped datagram outlives it.
DeliverKeepingVerdict(o, m, inWindow) ==
    /\ LET why == DropReason(exch[o], EndpointOf(o), m, inWindow)
           good == exch[o].vouched \/ (Authenticated(exch[o], m) /\ m.seal = "signed")
       IN
       \/ /\ why = "none"
          /\ exch' = [exch EXCEPT ![o].answered = TRUE, ![o].reply = m, ![o].vouched = good]
       \/ /\ why \notin {"none", "silently"}
          /\ exch' = [exch EXCEPT ![o].drop = why, ![o].vouched = good]
    /\ UNCHANGED <<flag, cache, discovery, request, world, shown>>

\* A reply reaches an outstanding exchange.  It is accepted, over any accepted
\* before it, or dropped: then only the reason is kept.
Deliver(o, m, inWindow) ==
    /\ LET why == DropReason(exch[o], EndpointOf(o), m, inWindow) IN
       \/ /\ why = "none"
          /\ exch' = [exch EXCEPT ![o].answered = TRUE, ![o].reply = m,
                                  ![o].vouched = Authenticated(exch[o], m)]
       \/ /\ why \notin {"none", "silently"}
          /\ exch' = [exch EXCEPT ![o].drop = why]
    /\ UNCHANGED <<flag, cache, discovery, request, world, shown>>

\* Mutants of Verdicts: a reply in hand outranks a terminal signal; the end of the
\* deadline outranks a total one.
VerdictsReplyFirst(o) ==
    LET sent == IF o \in Requests THEN signals[o] ELSE {} IN
    IF exch[o].answered /\ ~stopping THEN {"reply"}
    ELSE IF sent # {} THEN {"operation_aborted"}
    ELSE IF stopping THEN {"ClientStopped"}
    ELSE {"sendError", IF exch[o].drop # "none" THEN exch[o].drop ELSE "Timeout"}

VerdictsDeadlineFirst(o) ==
    LET sent == IF o \in Requests THEN signals[o] ELSE {} IN
    IF "terminal" \in sent THEN {"operation_aborted"}
    ELSE IF exch[o].answered /\ ~stopping THEN {"reply"}
    ELSE IF stopping THEN {"ClientStopped"}
    ELSE {"sendError", IF exch[o].drop # "none" THEN exch[o].drop ELSE "Timeout"}

\* How transact() ends, in its order; a discovery is sent no signals.
Verdicts(o) ==
    LET sent == IF o \in Requests THEN signals[o] ELSE {} IN
    IF "terminal" \in sent THEN {"operation_aborted"}
    ELSE IF exch[o].answered /\ ~stopping THEN {"reply"}
    ELSE IF sent # {} THEN {"operation_aborted"}
    ELSE IF stopping THEN {"ClientStopped"}
    ELSE {"sendError", IF exch[o].drop # "none" THEN exch[o].drop ELSE "Timeout"}

-----------------------------------------------------------------------------
(* A request: doRequestV3 and the ensureEngine it awaits.                  *)

Complete(r, code) ==
    /\ pc' = [pc EXCEPT ![r] = "done"]
    /\ result' = [result EXCEPT ![r] = code]

\* stop(), from any thread: the flag is set there and then, the rest is queued.
SetFlag ==
    /\ "stop" \in Events
    /\ ~stopping
    /\ stopping' = TRUE
    /\ cleanup' = "queued"

\* A step that has looked at the flag looks again, in transact(): it may have been set
\* meanwhile.
LookAgain == UNCHANGED flag \/ SetFlag

\* The exchange with Engine g, or a failure on the way to it: a key that cannot
\* be derived, a message that cannot be encoded, a socket that cannot be opened, or
\* a flag that transact() finds set.
Send(r, g) ==
    /\ \/ /\ ~stopping'
          /\ pc' = [pc EXCEPT ![r] = "exchange"]
          /\ Replace({r}, Only(r, NewExchange(g, Level[r] = "auth", FALSE)))
          /\ UNCHANGED result
       \/ /\ "request" \in Faults
          /\ Complete(r, "localError")
          /\ Replace({r}, NoNew)
       \/ /\ stopping'
          /\ Complete(r, "ClientStopped")
          /\ Replace({r}, NoNew)
    /\ UNCHANGED <<discovery, verdict>>

\* The wait for a discovery: the one in flight, or one spawned here.  co_spawn
\* runs it in place up to its first suspension, so one that fails before it has
\* sent anything, or finds the flag set, is over and its waiters woken before this
\* request waits: nothing but a signal wakes it then.
Park(r) ==
    LET e == Target[r] IN
    \/ /\ disc[e] # "none"
       /\ pc' = [pc EXCEPT ![r] = "parked"]
       /\ verdict' = [verdict EXCEPT ![r] = "unfinished"]
       /\ Replace({r}, NoNew)
       /\ UNCHANGED <<discovery, result>>
    \/ /\ disc[e] = "none"
       /\ ~stopping'
       /\ pc' = [pc EXCEPT ![r] = "parked"]
       /\ verdict' = [verdict EXCEPT ![r] = "unfinished"]
       /\ disc' = [disc EXCEPT ![e] = "identify"]
       /\ discAuth' = [discAuth EXCEPT ![e] = Level[r] = "auth"]
       /\ Replace({r}, Only(e, NewExchange(None, FALSE, FALSE)))
       /\ UNCHANGED result
    \/ /\ disc[e] = "none"
       /\ \/ "identify" \in Faults /\ verdict' = [verdict EXCEPT ![r] = "localError"]
          \/ stopping' /\ verdict' = [verdict EXCEPT ![r] = "ClientStopped"]
       /\ pc' = [pc EXCEPT ![r] = "adrift"]
       /\ Replace({r}, NoNew)
       /\ UNCHANGED <<discovery, result>>

\* Whether ensureEngine has nothing to do: knowing the engineID is enough unless
\* the request authenticates, which needs a clock that is trusted too.
Ready(r, g, known) == g # None /\ (Level[r] = "noAuth" \/ known[g].synced)

\* One turn of doRequestV3's loop, with the cache as the turn before left it.
Ask(r, newIndex, newEngines) ==
    LET g == newIndex[Target[r]] IN
    /\ index' = newIndex
    /\ engines' = newEngines
    /\ LookAgain
    /\ IF Ready(r, g, newEngines) THEN Send(r, g) ELSE Park(r)

Refuse(r) ==
    /\ pc[r] = "idle"
    /\ stopping
    /\ Complete(r, "ClientStopped")
    /\ UNCHANGED <<flag, cache, discovery, exch, attempt, verdict, signals, world,
                   shown>>

Begin(r) ==
    /\ pc[r] = "idle"
    /\ ~stopping
    /\ Ask(r, index, engines)
    /\ UNCHANGED <<attempt, signals, world>>

\* The request resumes from its wait for a discovery.
Resume(r) ==
    /\ pc[r] = "resumed"
    /\ LET g == index[Target[r]]
           End(code) == /\ Complete(r, code)
                        /\ UNCHANGED <<flag, discovery, exch, verdict, shown>>
       IN  IF verdict[r] = "exception" THEN End("exception")
           ELSE IF stopping THEN End("ClientStopped")
           ELSE IF signals[r] # {} \/ verdict[r] = "unfinished" THEN End("operation_aborted")
           ELSE IF verdict[r] # "ok" THEN End(verdict[r])
           ELSE IF g = None THEN End("UnknownEngineId")
           ELSE LookAgain /\ Send(r, g)
    /\ UNCHANGED <<cache, attempt, signals, world>>

\* What is kept of a pair that is trusted.
Trusted(m) ==
    [boots |-> m.boots, time |-> m.time, synced |-> TRUE,
     from |-> IF m.seal = "signed" THEN m.engine ELSE None]

\* Mutant of Vouched: an accepted reply is believed, signed or not.
VouchedAnyway(o) == TRUE

\* replyAuthenticated, where it is asked for: by a Response, a Report and the end of a
\* time-sync phase.
Vouched(o) == exch[o].vouched

\* Mutant of Observed: the comparison is left out.
ObservedUncompared(e, m) ==
    LET g == index[e] IN
    IF g = None \/ AtCeiling(m)
      THEN engines
      ELSE [engines EXCEPT ![g] = Trusted(m)]

\* observeEngineTime(): the pair is written to the Engine now indexed at e.
Observed(e, m) ==
    LET g == index[e] IN
    IF g = None \/ AtCeiling(m) \/ Older(m, engines[g])
      THEN engines
      ELSE [engines EXCEPT ![g] = Trusted(m)]

\* handleReport(), when the request may retry: forget which Engine is at the
\* endpoint, forget that its clock is known, or take the pair reported.
Retry(r) ==
    LET e == Target[r]
        g == index[e]
        m == exch[r].reply
        lower == g # None /\ engines[g].synced /\ m.boots < engines[g].boots
    IN  /\ attempt' = [attempt EXCEPT ![r] = @ + 1]
        /\ IF ~Vouched(r) \/ m.type = "unknownEngineIDs"
             THEN Ask(r, [index EXCEPT ![e] = None], engines)
           ELSE IF lower
             THEN Ask(r, index, [engines EXCEPT ![g].synced = FALSE])
           ELSE Ask(r, index, Observed(e, m))

\* reportError().
ReportError(type) ==
    CASE type = "unsupportedSecLevels" -> "UnsupportedSecurityLevel"
      [] type = "notInTimeWindows" -> "NotInTimeWindow"
      [] type = "unknownUserNames" -> "UnknownUserName"
      [] type = "unknownEngineIDs" -> "UnknownEngineId"
      [] type = "wrongDigests" -> "AuthFailed"
      [] type = "decryptionErrors" -> "DecryptionError"
      [] OTHER -> "UnexpectedReport"

MayRetry(r) == attempt[r] = 0

EndExchange(r) ==
    /\ pc[r] = "exchange"
    /\ \E v \in Verdicts(r) :
          LET m == exch[r].reply
              End(code) == /\ Complete(r, code)
                           /\ Replace({r}, NoNew)
                           /\ UNCHANGED <<flag, index, discovery, attempt, verdict>>
          IN  IF v # "reply" THEN End(v) /\ UNCHANGED engines
              ELSE IF m.type = "Response"
                THEN /\ End("reply")
                     /\ engines' = IF Vouched(r) THEN Observed(Target[r], m) ELSE engines
              ELSE IF ~MayRetry(r) \/ m.type \notin {"notInTimeWindows", "unknownEngineIDs"}
                THEN End(ReportError(m.type)) /\ UNCHANGED engines
              ELSE Retry(r)
    /\ UNCHANGED <<signals, world>>

-----------------------------------------------------------------------------
(* Engine Discovery: runDiscovery and discoverEngine.                      *)

\* Mutant of Finish: no one is woken.
FinishInSilence(e, code) ==
    /\ disc' = [disc EXCEPT ![e] = "none"]
    /\ Replace({e}, NoNew)
    /\ UNCHANGED <<pc, verdict>>

\* A discovery that is over says so to every request parked on it, and to those
\* a signal or Stopping has woken but that have not resumed yet.
Finish(e, code) ==
    LET told == {r \in Requests : /\ Target[r] = e
                                  /\ \/ pc[r] = "parked"
                                     \/ pc[r] = "resumed" /\ verdict[r] = "unfinished"}
    IN  /\ disc' = [disc EXCEPT ![e] = "none"]
        /\ pc' = [r \in Requests |-> IF r \in told THEN "resumed" ELSE pc[r]]
        /\ verdict' = [r \in Requests |-> IF r \in told THEN code ELSE verdict[r]]
        /\ Replace({e}, NoNew)

\* What the identity phase writes of the clock.
Recorded(g, m) ==
    IF engines[g].synced THEN engines
    ELSE [engines EXCEPT ![g].boots = m.boots, ![g].time = m.time, ![g].from = None]

\* The identity phase ends.  Its pair is recorded untrusted, and never over one
\* that is trusted; the time-sync phase follows if it is needed.
EndIdentify(e) ==
    /\ disc[e] = "identify"
    /\ \E v \in Verdicts(e) :
          LET m == exch[e].reply
              g == m.engine
              sync == discAuth[e] /\ ~engines[g].synced
              End(code) == Finish(e, code) /\ UNCHANGED flag
          IN  IF v # "reply" THEN End(v) /\ UNCHANGED cache
              ELSE IF g = None THEN End("UnknownEngineId") /\ UNCHANGED cache
              ELSE /\ index' = [index EXCEPT ![e] = g]
                   /\ engines' = Recorded(g, m)
                   /\ \/ ~sync /\ End("ok")
                      \/ sync /\ "sync" \in Faults /\ End("localError")
                      \/ sync /\ "throw" \in Faults /\ End("exception")
                      \/ sync /\ SetFlag /\ Finish(e, "ClientStopped")
                      \/ /\ sync
                         /\ disc' = [disc EXCEPT ![e] = "sync"]
                         /\ Replace({e}, Only(e, NewExchange(g, TRUE, TRUE)))
                         /\ UNCHANGED <<flag, pc, verdict>>
    /\ UNCHANGED <<discAuth, attempt, signals, result, world>>

\* The time-sync phase ends.  A signed pair becomes the baseline, unconditionally.
EndSync(e) ==
    /\ disc[e] = "sync"
    /\ \E v \in Verdicts(e) :
          LET m == exch[e].reply
              g == exch[e].engine
          IN  IF v # "reply" THEN Finish(e, v) /\ UNCHANGED engines
              ELSE IF ~Vouched(e) THEN Finish(e, ReportError(m.type)) /\ UNCHANGED engines
              ELSE IF AtCeiling(m) THEN Finish(e, "NotInTimeWindow") /\ UNCHANGED engines
              ELSE /\ engines' = [engines EXCEPT ![g] = Trusted(m)]
                   /\ Finish(e, "ok")
    /\ UNCHANGED <<flag, index, discAuth, attempt, signals, result, world>>

\* An exception leaves discoverEngine, where it resumes from an exchange.
DiscoveryThrows(e) ==
    /\ "throw" \in Faults
    /\ disc[e] # "none"
    /\ Finish(e, "exception")
    /\ UNCHANGED <<flag, cache, discAuth, attempt, signals, result, world>>

-----------------------------------------------------------------------------
(* Signals, Stopping, and the Engines.                                     *)

\* A cancellation signal ends a wait for a discovery; an exchange only records it
\* (Exchange says what it does there).
Signal(r, type) ==
    /\ pc[r] \in {"parked", "adrift", "resumed", "exchange"}
    /\ type \notin signals[r]
    /\ signals' = [signals EXCEPT ![r] = @ \union {type}]
    /\ pc' = [pc EXCEPT ![r] = IF @ \in {"parked", "adrift"} THEN "resumed" ELSE @]
    /\ UNCHANGED <<flag, cache, discovery, exch, attempt, verdict, result, world,
                   shown>>

Stop ==
    /\ SetFlag
    /\ UNCHANGED <<cache, discovery, exch, request, world, shown>>

\* finishStopping() wakes whoever is parked on a discovery m_discovering knows.
FinishStopping ==
    /\ cleanup = "queued"
    /\ cleanup' = "done"
    /\ pc' = [r \in Requests |-> IF pc[r] = "parked" /\ disc[Target[r]] # "none"
                                  THEN "resumed" ELSE pc[r]]
    /\ UNCHANGED <<stopping, cache, discovery, exch, attempt, verdict, signals, result, world,
                   shown>>

\* Engine g has the pair p, and is at the endpoints es: the exchanges there that are
\* for it may be answered with that pair.
Show(es, g, p) ==
    shown' = [o \in Owners |-> IF exch[o] # None /\ exch[o].engine = g /\ EndpointOf(o) \in es
                                 THEN shown[o] \union {p} ELSE shown[o]]

\* An Engine's clock runs, it boots again, loses its boots count or is set.
ClockMoves(g, p) ==
    /\ "clock" \in Events
    /\ p # clock[g]
    /\ clock' = [clock EXCEPT ![g] = p]
    /\ Show({e \in Endpoints : home[e] = g}, g, p)
    /\ UNCHANGED <<flag, cache, discovery, exch, request, home>>

\* Another Engine takes over an endpoint.
Move(e, g) ==
    /\ "move" \in Events
    /\ home[e] # g
    /\ home' = [home EXCEPT ![e] = g]
    /\ Show({e}, g, clock[g])
    /\ UNCHANGED <<flag, cache, discovery, exch, request, clock>>

-----------------------------------------------------------------------------
Next ==
    \/ \E r \in Requests :
          \/ Refuse(r)
          \/ Begin(r)
          \/ Resume(r)
          \/ EndExchange(r)
          \/ \E type \in Signals : Signal(r, type)
    \/ \E e \in Endpoints : EndIdentify(e) \/ EndSync(e) \/ DiscoveryThrows(e)
    \/ \E o \in {x \in Owners : exch[x] # None} :
          \E m \in Answers(o) : \E inWindow \in Sides(m) : Deliver(o, m, inWindow)
    \/ Stop
    \/ FinishStopping
    \/ \E g \in Engines :
          \/ \E p \in [boots: 1..MaxBoots, time: 0..MaxTime] : ClockMoves(g, p)
          \/ \E e \in Endpoints : Move(e, g)

Spec == Init /\ [][Next]_vars

\* What is queued on the strand is run.  Exchanges need never reach a deadline:
\* only Stopping is sure to end them.
PromptSpec ==
    /\ Spec
    /\ WF_vars(FinishStopping)
    /\ \A r \in Requests : WF_vars(Resume(r)) /\ WF_vars(stopping /\ EndExchange(r))
    /\ \A e \in Endpoints : WF_vars(stopping /\ EndIdentify(e)) /\ WF_vars(stopping /\ EndSync(e))

\* Exchanges keep transact()'s promise to end.
ExchangesEnd ==
    /\ \A r \in Requests : WF_vars(EndExchange(r))
    /\ \A e \in Endpoints : WF_vars(EndIdentify(e)) /\ WF_vars(EndSync(e))

-----------------------------------------------------------------------------
(* Correctness.                                                            *)

Codes == DropReasons \union {ReportError(type) : type \in Reports}
           \union {"reply", "operation_aborted", "ClientStopped", "sendError", "Timeout", "localError",
                   "exception"}

\* Every variable keeps its type: doRequestV3's loop turns at most twice, and no wait
\* ends with a code that is not its own.
TypeOK ==
    /\ stopping \in BOOLEAN
    /\ cleanup \in {"none", "queued", "done"}
    /\ index \in [Endpoints -> Engines \union {None}]
    /\ engines \in [Engines -> [boots: 0..MaxBoots, time: 0..MaxTime, synced: BOOLEAN,
                               from: Engines \union {None}]]
    /\ disc \in [Endpoints -> {"none", "identify", "sync"}]
    /\ discAuth \in [Endpoints -> BOOLEAN]
    /\ exch \in [Owners -> Exchanges \union {None}]
    /\ pc \in [Requests -> {"idle", "parked", "adrift", "resumed", "exchange", "done"}]
    /\ attempt \in [Requests -> {0, 1}]
    /\ verdict \in [Requests -> (Codes \ {"reply", "operation_aborted"}) \union {"ok", "unfinished"}]
    /\ signals \in [Requests -> SUBSET Signals]
    /\ result \in [Requests -> Codes \union {"none"}]

\* A reply counts for what it is: signed if the exchange took it for signed, or
\* if it is a Response to an authenticated request, and from the Engine asked
\* if it is a Response.  A verdict is never about an earlier datagram.
ReplyIsVouchedFor ==
    \A o \in Owners : exch[o] # None /\ exch[o].answered =>
       LET m == exch[o].reply IN
       /\ exch[o].vouched => m.seal = "signed"
       /\ m.type = "Response" /\ exch[o].auth => m.seal = "signed"
       /\ m.type = "Response" /\ exch[o].engine # None => m.engine = exch[o].engine

\* No clock is trusted at the boots ceiling, a state the cache could not leave.
NoneTrustedAtCeiling == \A g \in Engines : engines[g].synced => engines[g].boots # Ceiling

\* A request queued behind a discovery has one to wait for, however discoveries, signals
\* and Stopping interleave.
QueuedIsServed == \A r \in Requests : pc[r] = "parked" => disc[Target[r]] # "none"

\* What a retry policy makes of a result.  (A signal's operation_aborted is a system
\* error, an exception is none, and a socket's error is taken for one worth waiting out.)
ClassOf(code) ==
    CASE code = "operation_aborted" -> Classify("system", "operation_canceled")
      [] code = "sendError" -> Classify("system", "host_unreachable")
      [] code = "reply" -> Classify("snmpio", "Ok")
      [] OTHER -> Classify("snmpio", code)

\* A request sent a terminal signal is never told anything of its reply, and its caller's
\* retry policy is told to stop; one sent a signal of either type is never told that the
\* Target was silent or out of reach.
CancelledIsTold ==
    \A r \in Requests : pc[r] = "done" /\ result[r] # "exception" =>
       /\ "terminal" \in signals[r] => ClassOf(result[r]) = "Fatal"
       /\ signals[r] # {} => result[r] \notin {"DecryptionFailed", "Timeout", "sendError"}

\* A clock that is trusted came signed: neither the pair an identity phase records, nor
\* that of a Response or Report that needed no signature, becomes a trusted one, whatever
\* order discoveries and requests of different Security Levels end in.
TrustedIsSigned == \A g \in Engines : engines[g].synced => engines[g].from # None

\* A clock that is trusted was signed for by its own Engine: it is never an unsigned
\* claim, and never another Engine's.
TrustedClockIsOwn == \A g \in Engines : engines[g].synced => engines[g].from = g

\* Only the end of a time-sync phase, which compares with nothing, takes a clock
\* backwards while it stays trusted: observeEngineTime() never does, however late
\* and in whatever order replies are used.
OnlySyncSetsBack ==
    [][\A g \in Engines :
          /\ engines[g].synced
          /\ engines'[g].synced
          /\ Older(engines'[g], engines[g])
          => \E e \in Endpoints : disc[e] = "sync" /\ disc'[e] = "none"]_vars

\* Every request that is made completes, given that exchanges end: those queued behind
\* an Engine Discovery too, however it ends.
EveryRequestCompletes ==
    ExchangesEnd => \A r \in Requests : pc[r] # "idle" ~> pc[r] = "done"

\* Every request completes but one adrift: one whose own discovery was over before it
\* waited.  Those queued behind a discovery complete too, however it ends, and so does
\* whoever comes to the endpoint after one that ended early.
OthersComplete ==
    ExchangesEnd => \A r \in Requests : pc[r] # "idle" ~> pc[r] \in {"done", "adrift"}

\* Once Stopping has begun every request but one adrift completes without any deadline
\* passing, in whichever wait it is, and wherever in a step the flag was set.
StopIsPrompt == stopping ~> \A r \in Requests : pc[r] \in {"idle", "done", "adrift"}
=============================================================================
