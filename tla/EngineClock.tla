---------------------------- MODULE EngineClock -----------------------------
(***************************************************************************)
(* How a Client keeps an Engine's clock: the pair it holds, the projection *)
(* of it by the local clock, the Time Window, and the ways back into step  *)
(* with an Engine whose clock has broken: it rebooted, lost its boots      *)
(* count, or was set back or forward.                                      *)
(*                                                                         *)
(* One Engine at one Target, authenticated requests, every reply signed:   *)
(* Discovery has the rest.  What Discovery leaves out is here: seconds     *)
(* pass, on both sides alike, a reply is as old as it is when it is used,  *)
(* and an exchange lasts no longer than its retransmissions.               *)
(***************************************************************************)
EXTENDS Integers

CONSTANTS
    Requests,    \* callers, each with at most one request outstanding
    Window,      \* timeWindowSeconds; 150 in the code
    Life,        \* how long an exchange may last: (retries + 1) * timeout
    BootsCeiling, TimeCeiling,  \* both 2^31 - 1 in the code
    Claims,      \* pairs an identity phase may be told besides the Engine's own
    Breaks,      \* how the Engine's clock may break
    MaxNow,      \* how long the model runs (a bound of the model)
    MaxBoots,    \* how often the Engine boots (a bound of the model)
    MaxRuns,     \* how often its clock breaks (a bound of the model)
    None         \* no exchange, no reply

Pairs == [boots: 0..MaxBoots, time: 0..TimeCeiling]

ASSUME EngineClockAssumption ==
    /\ Window \in Nat /\ Life \in Nat /\ MaxNow \in Nat /\ MaxRuns \in Nat
    /\ BootsCeiling \in Nat \ {0} /\ TimeCeiling \in Nat /\ MaxBoots \in Nat \ {0}
    /\ Claims \subseteq Pairs
    /\ Breaks \subseteq {"reboot", "reset", "back", "forward"}
    /\ "discovery" \notin Requests

VARIABLES
    now,      \* the local steady clock, in seconds
    clock,    \* the Engine's boots and time, and which unbroken run they belong to
    held,     \* the Client's EngineState
    disc,     \* the phase of the discovery in flight, or "none"
    exch,     \* the exchange each request, and the discovery, has outstanding
    pc,       \* where each request's coroutine is
    attempt,  \* doRequestV3's loop counter
    verdict,  \* what the discovery a request was parked on says
    result,   \* what each request completed with
    born,     \* the run in which each request, and the discovery, began
    outset    \* what each request found when it began

request == <<pc, attempt, verdict, result>>
history == <<born, outset>>
vars == <<now, clock, held, disc, exch, request, history>>

Owners == Requests \union {"discovery"}

\* doRequestV3 and timely() both advance the pair held by the local clock.
Projected(h) == h.time + (now - h.at)

\* Mutant of Stamped: narrowed to 32 bits, which wraps.
StampedNarrow(h) ==
    LET w == TimeCeiling + 1 IN
    [boots |-> h.boots, time |-> ((Projected(h) + w) % (2 * w)) - w]

\* What a request carries: the projection, no further than the field reaches.
Stamped(h) ==
    [boots |-> h.boots, time |-> IF Projected(h) < TimeCeiling THEN Projected(h) ELSE TimeCeiling]

Exchange(stamp) ==
    [stamp |-> stamp, since |-> now, answers |-> {}, reply |-> None, dropped |-> FALSE]

NoOutset == [met |-> {}, locked |-> FALSE]

Init ==
    /\ now = 0
    /\ clock \in [boots: 1..MaxBoots, time: 0..TimeCeiling, run: {0}]
    /\ held = [boots |-> 0, time |-> 0, at |-> 0, synced |-> FALSE, run |-> 0]
    /\ disc = "none"
    /\ exch = [o \in Owners |-> None]
    /\ pc = [r \in Requests |-> "idle"]
    /\ attempt = [r \in Requests |-> 0]
    /\ verdict = [r \in Requests |-> "none"]
    /\ result = [r \in Requests |-> "none"]
    /\ born = [o \in Owners |-> 0]
    /\ outset = [r \in Requests |-> NoOutset]

-----------------------------------------------------------------------------
(* The Engine, which is not part of the Client, answers as RFC 3414 says.  *)

InWindow(s) ==
    /\ s.boots = clock.boots
    /\ clock.boots # BootsCeiling
    /\ s.time - clock.time \in (-Window)..Window

\* A copy of o's message reaches the Engine, which answers with the pair it is at.
Answer(o) ==
    /\ exch[o] # None
    /\ o = "discovery" => disc = "sync"
    /\ LET m == [type |-> IF InWindow(exch[o].stamp) THEN "Response" ELSE "notInTimeWindows",
                 boots |-> clock.boots, time |-> clock.time, run |-> clock.run, at |-> now]
       IN  exch' = [exch EXCEPT ![o].answers = @ \union {m}]
    /\ UNCHANGED <<now, clock, held, disc, request, history>>

\* A second passes everywhere, before the deadline of every exchange.
Tick ==
    /\ now < MaxNow
    /\ clock.time < TimeCeiling
    /\ \A o \in Owners : exch[o] # None => now < exch[o].since + Life
    /\ now' = now + 1
    /\ clock' = [clock EXCEPT !.time = @ + 1]
    /\ UNCHANGED <<held, disc, exch, request, history>>

\* The Engine's clock breaks: it boots again, as it must when its time runs out, it
\* loses its boots count, or it is set.
Break(p) ==
    /\ clock.run < MaxRuns
    /\ \/ "reboot" \in Breaks /\ p.boots = clock.boots + 1 /\ p.time = 0
       \/ "reset" \in Breaks /\ p.boots \in 1..(clock.boots - 1) /\ p.time = 0
       \/ "back" \in Breaks /\ p.boots = clock.boots /\ p.time < clock.time
       \/ "forward" \in Breaks /\ p.boots = clock.boots /\ p.time > clock.time
    /\ clock' = [boots |-> p.boots, time |-> p.time, run |-> clock.run + 1]
    /\ UNCHANGED <<now, held, disc, exch, request, history>>

-----------------------------------------------------------------------------
(* What a reply's pair is tested against, and what it is written over.     *)

\* Mutant of Timely: the window is on the wrong side of the projection.
TimelyAhead(m) ==
    \/ ~held.synced
    \/ /\ m.boots # BootsCeiling /\ held.boots # BootsCeiling
       /\ m.boots > held.boots \/ (m.boots = held.boots /\ m.time >= Projected(held) + Window)

\* timely(): only a pair older than the one held, by more than the Window, is
\* untimely.
Timely(m) ==
    \/ ~held.synced
    \/ /\ m.boots # BootsCeiling /\ held.boots # BootsCeiling
       /\ m.boots > held.boots \/ (m.boots = held.boots /\ m.time >= Projected(held) - Window)

Taken(m) == [boots |-> m.boots, time |-> m.time, at |-> now, synced |-> TRUE, run |-> m.run]

Refused(m) ==
    \/ m.boots = BootsCeiling
    \/ m.boots < held.boots
    \/ m.boots = held.boots /\ m.time < held.time

\* Mutant of Observed: the moment the pair was learnt is left at the one before.
ObservedUndated(m) == IF Refused(m) THEN held ELSE [Taken(m) EXCEPT !.at = held.at]

\* observeEngineTime(): a later boots count wins, and within one a time no earlier.
Observed(m) == IF Refused(m) THEN held ELSE Taken(m)

\* deliverV3, for a reply that verified: an untimely Response is dropped, anything
\* else is accepted, over what was accepted before.
Deliver(o, m) ==
    /\ exch' = IF m.type = "Response" /\ ~Timely(m)
                 THEN [exch EXCEPT ![o].dropped = TRUE]
                 ELSE [exch EXCEPT ![o].reply = m]
    /\ UNCHANGED <<now, clock, held, disc, request, history>>

\* An exchange without a reply ends at its deadline, with the reason of a drop.
Expired(o) == exch[o].reply = None /\ now = exch[o].since + Life

Silence(o) == IF exch[o].dropped THEN "NotInTimeWindow" ELSE "Timeout"

-----------------------------------------------------------------------------
(* doRequestV3, with the ensureEngine it awaits.                           *)

\* The request completes, and with it the coroutine's locals are gone.
Complete(r, code) ==
    /\ pc' = [pc EXCEPT ![r] = "done"]
    /\ result' = [result EXCEPT ![r] = code]
    /\ exch' = [exch EXCEPT ![r] = None]
    /\ attempt' = [attempt EXCEPT ![r] = 0]
    /\ verdict' = [verdict EXCEPT ![r] = "none"]
    /\ born' = [born EXCEPT ![r] = 0]
    /\ outset' = [outset EXCEPT ![r] = NoOutset]
    /\ UNCHANGED disc

Send(r, h) ==
    /\ pc' = [pc EXCEPT ![r] = "exchange"]
    /\ exch' = [exch EXCEPT ![r] = Exchange(Stamped(h))]
    /\ verdict' = [verdict EXCEPT ![r] = "none"]
    /\ result' = [result EXCEPT ![r] = "none"]
    /\ UNCHANGED disc

Park(r) ==
    /\ pc' = [pc EXCEPT ![r] = "parked"]
    /\ result' = [result EXCEPT ![r] = "none"]
    /\ disc' = IF disc = "none" THEN "identify" ELSE disc
    /\ exch' = [exch EXCEPT ![r] = None,
                            !["discovery"] = IF disc = "none" THEN Exchange([boots |-> 0, time |-> 0])
                                             ELSE @]
    /\ UNCHANGED verdict

\* A turn of the loop, with the pair held as the turn before left it: go on if it is
\* trusted, else wait for the discovery in flight or start one.
Ask(r, h) ==
    /\ held' = h
    /\ IF h.synced THEN Send(r, h) ELSE Park(r)

\* The run a discovery that begins in this step began in.
Started ==
    IF disc = "none" /\ disc' = "identify" THEN [born EXCEPT !["discovery"] = clock.run] ELSE born

\* Where an Engine that was set back cannot be followed: its pair is before the one
\* held, which observeEngineTime() refuses; or it is behind the projection by so nearly
\* the Window that it finds a request timely, by what is stamped on it and once it has
\* been under way, and the Client does not find the answer so when that has been.
OutOfReach ==
    /\ held.synced
    /\ clock.boots = held.boots
    /\ \/ clock.time < held.time
       \/ /\ Projected(held) - clock.time > Window - Life
          /\ Stamped(held).time - clock.time <= Window + Life

\* A caller makes a request.  The history is of the runs in which it and what it meets in
\* flight began, and of whether the Engine is out of reach.
Begin(r) ==
    /\ pc[r] \in {"idle", "done"}
    /\ LET busy == {o \in Requests : pc[o] \notin {"idle", "done"}}
                     \union {o \in {"discovery"} : disc # "none"}
       IN  outset' = [outset EXCEPT ![r] =
                         [met |-> {clock.run} \union {born[o] : o \in busy}, locked |-> OutOfReach]]
    /\ Ask(r, held)
    /\ born' = [Started EXCEPT ![r] = clock.run]
    /\ UNCHANGED <<now, clock, attempt>>

Resume(r) ==
    /\ pc[r] = "resumed"
    /\ \/ verdict[r] = "ok" /\ Send(r, held) /\ UNCHANGED <<attempt, history>>
       \/ verdict[r] # "ok" /\ Complete(r, verdict[r])
    /\ UNCHANGED <<now, clock, held>>

\* Mutant of Reported: a lower boots count is offered too, and refused.
ReportedPlainly(m) == Observed(m)

\* handleReport(), when the request may retry: a lower boots count makes the pair
\* held untrusted, any other pair is offered to observeEngineTime().
Reported(m) ==
    IF held.synced /\ m.boots < held.boots THEN [held EXCEPT !.synced = FALSE] ELSE Observed(m)

\* The request resumes from its exchange.
EndExchange(r) ==
    /\ pc[r] = "exchange"
    /\ LET m == exch[r].reply IN
       \/ /\ Expired(r)
          /\ Complete(r, Silence(r))
          /\ UNCHANGED held
       \/ /\ m # None /\ m.type = "Response"
          /\ Complete(r, "reply")
          /\ held' = Observed(m)
       \/ /\ m # None /\ m.type # "Response" /\ attempt[r] = 1
          /\ Complete(r, "NotInTimeWindow")
          /\ UNCHANGED held
       \/ /\ m # None /\ m.type # "Response" /\ attempt[r] = 0
          /\ attempt' = [attempt EXCEPT ![r] = 1]
          /\ Ask(r, Reported(m))
          /\ born' = Started
          /\ UNCHANGED outset
    /\ UNCHANGED <<now, clock>>

-----------------------------------------------------------------------------
(* discoverEngine.                                                         *)

\* The discovery is over, and every request parked on it is told.
Finish(code) ==
    /\ disc' = "none"
    /\ exch' = [exch EXCEPT !["discovery"] = None]
    /\ born' = [born EXCEPT !["discovery"] = 0]
    /\ pc' = [r \in Requests |-> IF pc[r] = "parked" THEN "resumed" ELSE pc[r]]
    /\ verdict' = [r \in Requests |-> IF pc[r] = "parked" THEN code ELSE verdict[r]]

\* The identity phase ends with a pair nobody signed, which is recorded unless one
\* that is trusted is held: then there is nothing more to do.
EndIdentify(p) ==
    /\ disc = "identify"
    /\ \/ p = [boots |-> clock.boots, time |-> clock.time]
       \/ p \in Claims
    /\ IF held.synced
         THEN Finish("ok") /\ UNCHANGED held
         ELSE /\ held' = [held EXCEPT !.boots = p.boots, !.time = p.time, !.at = now]
              /\ disc' = "sync"
              /\ exch' = [exch EXCEPT !["discovery"] = Exchange([boots |-> 0, time |-> 0])]
              /\ UNCHANGED <<pc, verdict, born>>
    /\ UNCHANGED <<now, clock, attempt, result, outset>>

\* The time-sync phase ends: the Engine's own pair becomes the baseline.
EndSync ==
    /\ disc = "sync"
    /\ LET m == exch["discovery"].reply IN
       /\ m # None
       /\ IF m.boots = BootsCeiling
            THEN Finish("NotInTimeWindow") /\ UNCHANGED held
            ELSE Finish("ok") /\ held' = Taken(m)
    /\ UNCHANGED <<now, clock, attempt, result, outset>>

\* Either phase is not answered.
EndUnanswered ==
    /\ disc # "none"
    /\ Expired("discovery")
    /\ Finish(Silence("discovery"))
    /\ UNCHANGED <<now, clock, held, attempt, result, outset>>

-----------------------------------------------------------------------------
Next ==
    \/ Tick
    \/ \E p \in Pairs : Break(p) \/ EndIdentify(p)
    \/ \E o \in Owners : Answer(o)
    \/ \E o \in {x \in Owners : exch[x] # None} : \E m \in exch[o].answers : Deliver(o, m)
    \/ \E r \in Requests : Begin(r) \/ Resume(r) \/ EndExchange(r)
    \/ EndSync
    \/ EndUnanswered

Spec == Init /\ [][Next]_vars

-----------------------------------------------------------------------------
(* Correctness.                                                            *)

Replies ==
    [type: {"Response", "notInTimeWindows"}, boots: 0..MaxBoots, time: 0..TimeCeiling,
     run: 0..MaxRuns, at: Nat]

Exchanges ==
    [stamp: Pairs, since: Nat, answers: SUBSET Replies, reply: Replies \union {None},
     dropped: BOOLEAN]

ASSUME NoneAssumption == None \notin Exchanges

Codes == {"reply", "NotInTimeWindow", "Timeout"}

\* Every variable keeps its type.  In particular what is sent fits its field, although
\* the projection runs past the field's end when the Engine's time starts again.
TypeOK ==
    /\ now \in Nat
    /\ clock \in [boots: 0..MaxBoots, time: 0..TimeCeiling, run: 0..MaxRuns]
    /\ held \in [boots: 0..MaxBoots, time: 0..TimeCeiling, at: Nat, synced: BOOLEAN, run: 0..MaxRuns]
    /\ disc \in {"none", "identify", "sync"}
    /\ exch \in [Owners -> Exchanges \union {None}]
    /\ pc \in [Requests -> {"idle", "parked", "resumed", "exchange", "done"}]
    /\ attempt \in [Requests -> {0, 1}]
    /\ verdict \in [Requests -> Codes \union {"none", "ok"}]
    /\ result \in [Requests -> Codes \union {"none"}]

\* While the Engine's clock runs unbroken, a trusted pair projects to its time or to
\* less, and to less by no more than an exchange lasts: the error a reply's delay puts
\* into the pair never grows, and no later reply adds to it.
ProjectionIsClose ==
    held.synced /\ held.run = clock.run =>
       /\ held.boots = clock.boots
       /\ Projected(held) \in (clock.time - Life)..clock.time

\* Of the run the pair held belongs to, only a reply that was under way for longer than
\* the Window is found untimely: no delay of an earlier reply makes a later one look old.
UntimelyIsOld ==
    \A o \in Owners : exch[o] # None =>
       \A m \in exch[o].answers : m.run = held.run /\ ~Timely(m) => now - m.at > Window

\* A request is told that it is out of the Time Window only because the Engine's clock
\* broke after it, or a request or discovery it met in flight, began, because the Engine
\* was set back to where it cannot be followed, or because it reached the boots ceiling.
\* That is, whatever happened before, the next request recovers.
OutOfStepRecovers ==
    [][2 * Life <= Window =>
          \A r \in Requests :
             pc[r] # "done" /\ pc'[r] = "done" /\ result'[r] = "NotInTimeWindow" =>
                \/ \E n \in outset[r].met : n < clock.run
                \/ outset[r].locked
                \/ clock.boots = BootsCeiling]_vars
=============================================================================
