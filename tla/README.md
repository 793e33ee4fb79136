# A verification of snmpio in TLA+

snmpio is an asynchronous SNMPv2c/v3 command generator: a `Client` sends requests to
Agents over UDP and completes each one through Asio. This directory holds TLA+ models of
its parts, the TLC configurations that check them on small instances, and TLAPS proofs of
the theorems that matter most. `PROJECT.json` lists runs, mutants, hazards, findings and
theorems, and maps every definition to the lines it models.

Run a model with `tlc -config Exchange.cfg MCExchange`, check a proof with
`tlapm ExchangeProofs.tla`.

## The system and its parts

| Part | Code | Module | Status |
| --- | --- | --- | --- |
| What a Client promises about a request | `Client.hpp` comments, `spawn` | `OutstandingRequest` | modelled (abstract specification) |
| One exchange: ids, sockets, receive loop, sends, deadlines, signals, stop | `Client.cpp` `transact`, `doRequestV2c`, `receiveLoop`, `deliverV2c`, `stop`, `finishStopping` | `Exchange` | modelled, proved |
| v3 requests, Engine Discovery, the Engine cache | `Client.cpp` `doRequestV3`, `ensureEngine`, `runDiscovery`, `discoverEngine`, `deliverV3`, `timely`, `observeEngineTime`, `handleReport` | `Discovery` (control), `EngineClock` (the seconds) | modelled, safety proved |
| Walks | `Client.cpp` `doWalk`, `doWalkCollect` | `Walk` | modelled, safety proved |
| BER reading | `BerReader.cpp` | `BerReader` (structure), `BerCodec` (numbers and names) | modelled, structure proved |
| BER writing | `BerWriter.cpp` | `BerWriter`, `BerLength`, `BerCodec` | modelled, structure proved |
| PDU and v2c message codec | `Pdu.cpp` | `V2cMessage`, composed of the three above | modelled |
| v3 messages and their digest | `V3Message.cpp` | `V3Message`; the scoped PDU in `Usm` | modelled, proved |
| Keys, key caches, salts, privacy | `Usm.cpp`, `Client.cpp` `localizedKey`, `localizedPrivacyKey` | `Usm` | modelled with ideal hash and cipher, proved |
| Error classes | `Error.cpp` | `ErrorClass`, used by `Discovery` and `Walk` | modelled |
| OID text, value rendering | `Oid.cpp`, `Value.cpp` | none | text formatting, no state |
| Asio adapters | `detail/Asio.hpp`, `detail/Net.hpp` | none | type aliases |
| Fuzz harness | `fuzz/` | none | a test driver; the models' Agents answer anything in its place |

All state of a Client lives on one Asio strand. Code between two suspension points runs
without interruption, so it is one action; what interleaves is the order in which
coroutines, the receive loop, timers and callers' signals are resumed. The one exception is
`m_stopping`, an atomic that `stop()` sets from any thread, so `Stop` may happen between
any two actions, its cleanup (`finishStopping`) is a later action of the strand, and code that
looks at the flag twice without suspending may find it set the second time only: there an
action is cut in two (`Walk`), or has a second look of its own (`LookAgain` in `Discovery`). A timer
is both a deadline and a wake-up event: cancelling one that nobody waits on does nothing,
and several hazards come from that. The salt counter is shared by every Client of the
process, so in `Usm` another Client draws from it too.

The modules compose in layers. `Exchange` is shown to implement `OutstandingRequest`;
`Discovery`, `EngineClock` and `Walk` then take a round trip at that promise (it ends, with
one of its codes) instead of repeating sends and deadlines. `V2cMessage` is built of
instances of `BerWriter`, `BerReader` and `BerCodec`; `V3Message` reads what it writes
through an instance of `BerReader`, over the lengths of `BerLength`.

## The modules

**OutstandingRequest.** A request is new, outstanding or completed. It completes once, with
a code its history allows: a terminal signal outranks a reply in hand, so does Stopping; a
total signal does not; a cancelled request is never told it timed out.

**Exchange.** Variables are the members of `Client::Impl` (`m_stopping`, the sockets,
`m_nextId`, `m_pending`) and the locals of each `transact` coroutine. `pc` is the suspension
point: `sending` (line 606), `sent` (send finished, coroutine queued), `waiting` (617),
`woken`, `lastWait` (626), `lastWoken`. `Issue` is the code from the top of `transact` to
its first send; `ResumeFromSend`, `ResumeFromWait` and `ResumeFromLastWait` are the three
resumptions; `Leave` is every exit, through the erase and the chain of tests at its end.
`Deliver` is one turn of the receive loop over whatever datagram the network brings: a
reply to any request that was sent, any number of times, at any later time, from any
endpoint.

**Discovery.** The Engine cache (`m_engineAt`, `m_engines`), the discoveries in flight, each
request's coroutine, and the world outside: which Engine is at an endpoint, its boots and
time, and what pairs it has been at. Engines tick, reboot, are reset and change places. A
reply is a type (Response or one of the Reports), a seal (signed, unsigned, one whose digest
or cipher is wrong), an engineID and a pair. `Deliver` follows `deliverV3` check by check.
`doRequestV3`, and the retry and the time-sync phase it leads to, go from one look at
`m_stopping` to `transact`'s own (line 585) in one step: `LookAgain` and `SetFlag` let `stop()`
fall between. A request whose own discovery is over before it waits is `adrift`.
Whether a pair of the current boot is inside the window is a free choice here.

**EngineClock.** That choice made exact, for one Engine: the pair held and the local second
it was learnt at, its projection by the local clock and the narrowing of it where a message
is stamped, the Time Window on both sides, and the life of an exchange, within which an
answer may come at any second. The Engine's clock runs, reboots, loses its boots count, or
is set back or forward; between two of these it is on one `run`, a history variable.

**Walk.** `doWalk` as a loop of requests: ask, reply or failure, halving on tooBig, the
batch loop, delivery. From a reply to the next request nothing suspends, but the step is cut
where other actors matter: at the look at `m_stopping` (`Look`, line 1085), at the call of the
batch handler (`Answer`, 1104) and at its return (`HandlerReturns`). `stop()` may fall in any
of these; a cancellation signal is delivered on the strand, so in a round trip (`signals`) or
from inside the handler (`emitted`). `stoppedAt` and `late` are histories that only the
properties read. The Agent answers by the book from a fixed set of instances (`honest`), or
answers anything.

**ErrorClass.** `classify` and its three tables.

**BerReader.** Cursor, limit, sticky error and the stack of `Scope`s over a buffer of
octets; each public read is an action.

**BerCodec.** Integer, unsigned and object identifier contents in both directions, with the
radix, the widths and the packing factor as constants.

**BerWriter, BerLength.** The buffer and the stack of open `Scope`s; closing one patches and
widens its length field.

**V2cMessage.** `encodeV2cMessage` as the sequence of Writer calls it makes, one action per
call; the network, which delivers the datagram intact, cut, lengthened, with an octet
changed or with an element too many at some level; then `messageVersion` and
`decodeV2cMessage` as Reader calls, which go on after an error and look at it once.

**V3Message.** `encodeV3Message`, `decodeV3Message` and `verifyAuth` around the place of the
digest: identifiers and lengths are real octets, contents are filler, the digest is ideal.

**Usm.** Key derivation (password to key, localization, both ways of extending it), the map
`m_keys` with its two kinds of tuple, `nextSalt`, the initial vectors, padding, and
`decryptScopedPdu`. An octet string is a sequence of chunks that say which hash of what they
are: hash and cipher are ideal, so equal inputs give equal outputs and others differ.

## The runs

| Run | What it shows |
| --- | --- |
| Exchange | Safety of the exchange and that it implements `OutstandingRequest`; Stopping completes every request although no deadline expires; every request completes if deadlines do |
| DiscoveryEnds | No request is answered by what nobody vouched for; no pair is trusted that came unsigned; none stays queued behind a discovery that is over; cancelled requests are told so; Stopping completes queued requests too, without a deadline, wherever in a step the flag is set; every v3 request completes. The last two except a request that is adrift, which is `DiscoveryAdrift`'s |
| DiscoveryClock | A trusted pair is not at the boots ceiling, and is set back only by the end of a time-sync phase, while Engines reboot, lose their count and replace each other; cancelled requests are told so |
| EngineClock | What is stamped fits its field; the projection stays within an exchange's life of an unbroken clock; no fresh answer is untimely; after a break the next request recovers |
| Walk | Order, cancellation, at most the one batch that raced `stop()`, and termination, against any Agent; against an honest one a Walk that succeeds delivered the whole Subtree |
| BerReaderBounds | Every sequence of reads over every small buffer stays in its element |
| BerCodecAll | Numbers and names decode to a reference definition and encode back |
| V2cMessage | Scopes close on their own length octets; what arrives intact is what was sent; nothing in an accepted datagram was ignored |
| V3MessageDigest | The digest's place is found, in messages as sent, in long-form lengths, and altered; the payload is what the flags say |
| Usm | A cached key is the derived one; no key meets an initial vector twice before the salt goes round; what was sealed opens |
| DiscoveryMoved | (violation) A late signed reply of one Engine is written into another's state |
| DiscoveryAdrift | (violation) A discovery that ends before its first suspension leaves its request waiting for ever |

Two results are worth a sentence. `OutOfStepRecovers` covers the late signed Response that
marks an Engine as synchronised while a rediscovery is owed (recorded upstream as #43): the
model reaches it, the requests it concerns fail with NotInTimeWindow, and the property says
that no request does once everything in flight when it begins was begun after the break. It
needs an exchange to last at most half the window. There are three exceptions (`OutOfReach`
and the ceiling): a clock at the boots ceiling; a clock set back, under one boots count, to
before the pair held, which `observeEngineTime` refuses; and a clock set back by more than the
window less an exchange's life and by no more than the window plus one: there the Engine may
still find the Client's requests timely, so it sends no Report, and the Client drops those of
its answers that are delayed. ADR-0010 does not mention that band. The proof found its upper
end: on the way to the Engine a request ages too, so a clock set back by a second more than
the window finds a request timely that was under way for that second, and with one second
fewer than the run has now the model checker had not met the case. `IvIsFresh` shows what each cipher relies on: DES on the low
half of the counter alone, AES on all of it.

## Disagreements

Where the code does other than a comment or a document of the repository says. The first two
are runs of their own.

1. **DiscoveryMoved.** `observeEngineTime` (Client.cpp:562) looks the Engine up by endpoint
   after the exchange. If the endpoint was rediscovered as another Engine meanwhile, the
   first one's signed pair becomes the second one's trusted clock; ADR-0003 keys the cache on
   the engineID.
2. **DiscoveryAdrift.** `co_spawn` from the strand runs a discovery in place until it first
   suspends. One that ends before that (no socket, line 588; encoding, 816; `stop()` on another
   thread since the look at 951, line 585) cancels `done` before `ensureEngine` waits on it
   (772), and the request never completes; CONTEXT.md:122 says every one does. The run takes
   the local fault. On the Stopping route no fault is needed, and `finishStopping` does not wake
   the request either, as its discovery is no longer in `m_discovering`:
   `stopping ~> \A r \in Requests : pc[r] \in {"idle", "done"}` is violated with `Faults = {}`.
   `StopIsPrompt` and `OthersComplete` except just these requests. This rests on a fact about Asio (1.21, Boost 1.77 and later), which is
   not part of this repository: with an Asio that posts instead it does not arise. It was not
   confirmed by executing the program.

The others were met while modelling. Each formula below is violated by the model when it is
added to `Exchange`, `Discovery` or `Walk` and checked.

3. A terminal signal that arrives after the send's completion is queued, or after a total
   one, waits for the deadline (line 618); Client.hpp:46 says it "drops it at once".
   `\A r \in Requests : Aborted(r) => pc[r] \notin {"waiting", "lastWait"}`
4. A reply accepted before its send's completion has run is found only at the deadline (line
   611 does not look at `answered`); line 156 says cancelling the timer "is how the receive
   loop wakes the waiting coroutine".
   `\A r \in Requests : answered[r] => pc[r] \notin {"waiting", "lastWait"}`
5. A receive error ends the loop and leaves the socket open (line 392); line 367 says it runs
   "until the socket closes". The threat model records it (L8, #49).
   `\A f \in Families : sock[f] = "open" => loop[f] = "running"`
6. `handleReport` (918), run for another request, forgets the Engine between a discovery's end
   and a waiter's resumption; line 970 says "nothing on this strand does".
   `\A r \in Requests : pc[r] = "resumed" /\ verdict[r] = "ok" /\ ~stopping /\ signals[r] = {} => index[Target[r]] # None`
7. After a total signal, a retryable Report still opens another exchange (1028); line 624 says
   "no new exchange after this one".
   `[][\A r \in Requests : Begins(r) => signals[r] = {}]_vars`, where `Begins(r)` is
   `pc'[r] = "exchange" /\ (pc[r] # "exchange" \/ attempt'[r] # attempt[r])`
8. Discovery is single-flight per endpoint, so two Targets of one Engine can be discovered at
   once, and the later to end sets the trusted clock back (897); line 893 says "there is no
   earlier one". It takes two endpoints and a tick.
   `[][\A g \in Engines : engines[g].synced /\ engines'[g].synced => ~Older(engines'[g], engines[g])]_vars`
9. An authenticated request queued behind an unauthenticated one's discovery goes out with the
   pair nobody signed (784); line 743 says authenticating "needs a boots/time pair we trust".
   `[][\A r \in Requests : Level[r] = "auth" /\ Begins(r) => engines'[exch'[r].engine].synced]_vars`
10. `toResult` casts any error-status of the wire, so one outside the enumeration is classed
   Unclassified; Error.hpp says "No Errc or ErrorStatus produces this". It is a fact about
   `ClassifyErrorStatus` at one argument, with no state to explore.
11. `stop()` on another thread between `doWalk`'s look at the flag (1085) and the call of the
   handler (1104) does not keep that batch back; line 1083 says the handler "is not called once
   Stopping has begun, from whichever thread it began on". Client.hpp:68 and the threat model
   (L6, #62) describe the race. `OneBatchRacesStop` says how far it goes.
   `[][stopping => delivered' = delivered]_vars`
12. A terminal signal that the batch handler itself sends is not looked at if the handler then
   declines more, or if the batch was the last: the Walk ends as WalkIncomplete, or well; line
   1046 says "terminal drops everything and says so with operation_aborted".
   `pc = "done" /\ "terminal" \in emitted => result = "operation_aborted"`

## Bounds

- **Exchange**: two requests to one Agent, one retransmission, two ids. Two requests that only
  their ids tell apart are what a collision, a misdelivery or a shared socket needs; with one
  retransmission there is a first and a last attempt; with two ids the counter wraps. Replies
  come from both endpoints. The second socket stays unopened; the proofs are for any number of
  requests, Targets and retries, and for both sockets.
- **Discovery**: two requests, one endpoint, one or two Engines, up to three boots with the
  third the ceiling. Each run turns on the events and seals its question needs and leaves the
  others out, because all together are too many states. Larger instances were checked once
  and are not kept as runs: that of `DiscoveryEnds` with notInTimeWindows Reports as well
  (218,269 states), the same run with two Engines that move (1,627,284, safety only), and one
  Engine with those Reports, three boots and requests at two levels (1,097,207, safety only).
  The safety proofs lift every bound; in the runs one endpoint and `MaxTime = 0` leave two
  Targets of one Engine, and pairs of one boot, to the proofs.
- **EngineClock**: two requests, five seconds, a window of two and exchanges of one, one break
  (1,304,707 states). The field's end is at time 3, so the projection runs past it. The proofs
  lift every bound.
- **Walk**: six OIDs, in and on both sides of the Subtree, one the child of another; replies
  of up to three Varbinds; four repetitions, so halving takes two turns. Termination
  is over a finite set of OIDs: against an Agent with endless increasing names a Walk has no
  limit (recorded upstream as #36). The proofs lift every bound but termination's.
- **BerReader**: every buffer of up to five octets over eleven octet values that stand for
  each kind of tag and length, two scopes deep. The proofs lift the buffer and the depth.
- **BerCodec**: octets of eight values instead of 256, integers of two and three octets, so
  that every content up to five octets, past each width, is enumerated. The code's own
  constants are an instance that is not enumerated.
- **V2cMessage**: one value of each type, strings that put each of the five layers on both
  sides of 127 and 255 octets, up to two Varbinds, alterations in the first octets of the
  datagram. Integers are two octets wide for four and three for eight. The proof about the
  Writer lifts the nesting and the sizes.
- **V3Message**: sizes that put the security parameters and the message on both sides of 127
  and 255 octets; three digest widths; alterations at one octet of each part. The proofs lift
  the sizes, the widths and the place of the alteration.
- **Usm**: half a salt has two values instead of 2^32, so the counter goes round within ten
  steps; one password for everything, so that tuples meet; a protocol of each kind (none, DES,
  a key that is long enough, a key extended either way, a missing password). An instance with
  seven users (240,000 states) holds too. The proofs are for any users and any word size.

`CHECK_DEADLOCK FALSE` is set because each model really stops: each request is made once
and nothing happens after the last has completed, and the codec models end with their input.

## Fairness

Weak fairness of the strand's own steps (a send completes, a coroutine that is ready is
resumed, the cleanup runs) is what a running `io_context` gives; the promise in `Client.hpp`
is made only while it runs. The `PromptSpec`s assume no more than that: `StopIsPrompt` does
not wait for a deadline. That armed deadlines are reached (`TimerFairness`), and in
`Discovery` that exchanges end (`ExchangesEnd`, which is `Exchange`'s `KeepsPromiseInTime`),
are premises of the properties that need them. In `Walk` the end of a request is fairness of
its specification, and so is that the batch handler returns, which it runs on the strand to
do. No fairness is assumed of Agents, the network or callers.
`OutOfStepRecovers` is about steps and needs none.

## The proofs

**Exchange** (`ExchangeProofs`), for any finite set of requests, any endpoints, communities,
retries and id range. `TypeCorrect` is inductive alone.
`PendingIsExact` is not: that `emplace` finds its key free needs to know that ids in use
differ, which needs how they were handed out. The inductive invariant `ExchangeInv` therefore
says that ids started so far are consecutive from some first one up to `nextId`, through the
wrap, hence differ (`IdsDiffer`); for each request, what its suspension point says of its
other state (`RequestInv`); and that Stopping agrees with its cleanup. From it follow
`PendingExact`, `OwnReply`, `StopIsComplete` and `TimeoutIsLast`; `NoLateSend` and
`Refinement` are proved step by step under it, one case per action. Assumptions: the
constants' types, `Retries` a natural number (`Target::retries` is an `int`; a negative one
sends nothing), and `RequestsFitIds`: no more requests are made in the life of a Client than
there are ids (2^31 - 1). Without the last, an id could be reused while its first owner is
still outstanding.

**Discovery** (`DiscoveryProofs`), for any requests, endpoints, Engines, events and faults.
The inductive invariant has three parts. `ExchangesSound`: an exchange that authenticates is
for an Engine, and a reply it vouches for is that Engine's and signed. `PlacesAgree`: a
coroutine that awaits an exchange has one, and a time-sync phase's authenticates.
`CacheSound`: a trusted pair came signed and is not at the ceiling. The last is not
inductive without the first, since observing a pair trusts what the exchange says of it, nor
the first without the second. `RepliesAreVouchedFor`, `CeilingIsNotTrusted` and
`TrustIsSignedFor` follow; `ClocksGoForward` is proved step by step under it. `RInv` adds what
a request may be told given the signals it was sent, for `TypesAreKept` and
`CancelledAreTold`. `QueuedAreServed` is inductive with `PlacesAgree`: a request that is adrift
is not queued behind anything, and whoever is queued joined a discovery that ran.

**EngineClock** (`EngineClockProofs`), for any window, exchange life, ceilings and requests.
`StampsFit` is the type invariant. For `ProjectionStaysClose` and `OnlyOldIsUntimely` the
invariant (`ClockInv`) says where every answer in flight stands: its pair was the Engine's at
the second it left, no longer ago than its exchange is old, and answers of one run tell of
one clock; and `ControlInv` says that a coroutine awaiting an exchange has one.

`OutOfStepIsRecovered` needs two more invariants on top, each checked by TLC on the run's
instance before it was proved. `HistInv` is about the histories: nothing in flight is older
than the oldest run its request met (`Aged`), an answer is of no earlier run than the one its
exchange's owner began in, and it is a Response exactly where the stamp was in the Engine's
window (`Answered`). So with a request that met nothing older than the Engine's present run
(`Quiet`) every reply that can still arrive tells of the clock as it runs (`KnownIsCurrent`).
`RecoverInv` says what such a request may rely on (`Sound`): where it waits for a discovery or
is past its Report, the pair held is not of a broken clock; after its Report its message is
stamped within an exchange's life of the Engine's own time (`OnTime`), so that the Engine
answers it and `timely()` takes the answer; before it, a message stamped from a broken clock's
pair is one that the Engine refuses or whose answers the Client takes (`InReach`). The last is
where the band above comes in, and where half a window is needed. A step of another coroutine
keeps all this because it never takes the pair held back to a clock that has broken
(`HeldIsCurrent`).

**BER reader** (`BerProofs`), for any buffer, any expected tags and any depth. The
inductive invariant adds to `InBounds` that saved limits are nested inside each other, from
the innermost out to the buffer's end: closing a scope restores a limit, and only the nesting
says the cursor is inside that one as well. `ReaderStaysInBounds`, `ReadsStayInElement`,
`FirstErrorSticks` and `ReadsAdvance` follow.

**BER writer** (`BerProofs`), for any elements and any depth. `PlacesAreHeld`: closing a
Scope inserts octets, and only because Scopes close innermost first, with their places in
increasing order and at least two octets apart (`WriterInv`), does no place of one still open
lie behind the insertion or under it.

**Usm** (`UsmProofs`), for any users, Engines and word size. `CacheStaysExact`: two kinds of
keys share one map, and an authentication key's tuple is that of a privacy key of protocol
None, so the invariant says what every entry was derived from. `IvStaysFresh`: the invariant
(`SaltInv`) ties the watched seal's salt, its age and the counter together modulo the
counter's period; that equal initial vectors then mean equal salts is arithmetic on the two
halves.

`OpensWhatWasSealed`: the Engine derives its key on its own, by the extension its protocol
asks for, so the invariant (`SealedInv`) says of the message in flight which key, salt and
clock it was sealed with; that the two derivations agree is a lemma on how keys are cut and
grown (`LocalizedIsWhole`). Of the constants it is assumed that a salt word has at least two
values and that users have protocols of the code's enumerations; the key sizes are the code's.

**Walk** (`WalkProofs`), for any base, any set of instances, any batch size and an Agent that
answers anything. The order of names is defined by the first arc that differs; that it is
irreflexive, transitive and total (`LessTransitive`, `LessTotal`) is proved through a least
such arc. `DeliveredStaysInOrder` is inductive with the types. `CompleteMeansWhole` is not: that
a Walk has everything at its end needs to know, at each batch, that it has everything up to
where it is. The invariant (`Covered`) says of an honest Agent that every instance up to
`current` has been delivered and nothing else has; a step of it is an induction along one
reply, each varbind being the next instance behind the one before. `CancelledAreTold` needs
`SignalsKept`: the state a request is re-seated with holds every signal sent so far, and once a
terminal one was sent no other request is made. `AtMostOneLateBatch` needs where Stopping
began and where the coroutine is now (`RaceCounted`): a Walk between its look at the flag and
the call, with Stopping begun, was there as it began and has been counted no batch since.

**v3 message** (`V3MessageProofs`, `V3ReadingProofs`), for any engineIDs, user names and
payloads up to 16 MiB (more than a datagram holds; a message of three of them stays within the
four length octets the codec writes) and digests of up to 48 octets, the longest HMAC the code
has. The argument follows the octets. A string *is spliced* at a place when it differs from
another by the digest there, where the other has zeros; each layer an encoder puts around it
moves the place by the layer's own header (`SplicedWithinAny`), so the signed and the sent
message differ in the digest alone (`SplicedWhole`), and the `authOffset` that
`encodeV3Message()` adds up is that place (`ClientPlaces`). The inductive invariant `SentInv`
says that the datagram is what one of the encoders built, or that with one octet changed.
`AcceptedWasIntact`: the recomputed digest covers the datagram with some `authParams` blanked,
wherever a changed length may have moved them, and no octet can change without either the
blanked message or the digest showing it (`FlippedIsCaught`). For the converse the Reader is
followed over what was written (`WholeRead`): the header of each element, in either form of its
length and of any number of length octets, is read back (`TlvHeads`, `LongHeads`), the fields
of the header and of the security parameters in turn (`HeaderRead`, `UsmRead`), and the place
of the digest counted from the end of the datagram is the encoder's (`PlaceFromEnd`).
`SignedWasAccepted` and `ReadAsFlagged` follow.

Only model-checked: all liveness (`StopIsPrompt`, `KeepsPromiseInTime`,
`OthersComplete`, `Terminates`), which the prover does not support; what numbers and
names are read back as (`BerCodec`), which needs powers of a base the prover's arithmetic does
not reach; and the round trip of `V2cMessage`, which rests on it (that its Scopes find their
places, `PlacesHeld`, is `PlacesAreHeld` for every order of calls). Induction over data is done in
the proofs as the least counterexample of a set of numbers: an induction theorem that takes an
operator cannot be cited, a set can be given.

## Not modelled

- Text: parsing and printing of OIDs and values, error messages. They hold no state.
- The adapters that choose Boost.Asio or standalone Asio, which are type aliases, and the
  fuzz harness, which is a test driver.
- The inside of hashes and ciphers (OpenSSL): a digest is ideal, a cipher opens what it sealed
  under the same key and initial vector, and nothing else.
- Memory exhaustion, except that a discovery and a receive loop may throw.
- A negative `retries`, and datagrams longer than the receive buffer.
- Growth of the Engine and key caches, which the repository records as open (#35): there is
  no bound to state.
- `Discovery` over instances of `Exchange` in one state space: the product is beyond TLC, and
  the refinement of `OutstandingRequest` stands between the two instead.
