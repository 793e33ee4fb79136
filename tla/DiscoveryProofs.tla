-------------------------- MODULE DiscoveryProofs ---------------------------
(***************************************************************************)
(* Discovery's safety, for any requests, endpoints, Engines and faults.    *)
(*                                                                         *)
(* The inductive invariant has one part for each thing the coroutines      *)
(* share: the exchanges (what an accepted reply was found to be), where    *)
(* the coroutines are (a coroutine awaiting an exchange has one), and the  *)
(* Engine cache (what a trusted pair is).  An accepted reply is vouched    *)
(* for only in an exchange that is for an Engine, was signed, and is then  *)
(* that Engine's: that is why a trusted pair was signed by somebody.       *)
(***************************************************************************)
EXTENDS Discovery, TLAPS

\* What holds of an exchange from its beginning to its end.
Sound(x) ==
    /\ x \in Exchanges
    /\ x.auth => x.engine \in Engines
    /\ x.sync => x.auth
    /\ x.vouched => x.auth
    /\ x.answered =>
          /\ x.reply \in Replies
          /\ x.vouched => x.reply.seal = "signed" /\ x.reply.engine = x.engine
          /\ x.auth /\ x.reply.type \notin Reports => x.vouched
          /\ x.reply.type \notin Reports /\ x.engine # None => x.reply.engine = x.engine

ExchangesSound ==
    /\ exch \in [Owners -> Exchanges \union {None}]
    /\ \A o \in Owners : exch[o] # None => Sound(exch[o])

Places == {"idle", "parked", "adrift", "resumed", "exchange", "done"}

\* A coroutine that awaits an exchange has one, and a time-sync phase's is authenticated.
PlacesAgree ==
    /\ pc \in [Requests -> Places]
    /\ disc \in [Endpoints -> {"none", "identify", "sync"}]
    /\ \A r \in Requests : pc[r] = "exchange" => exch[r] # None
    /\ \A e \in Endpoints : disc[e] # "none" => exch[e] # None
    /\ \A e \in Endpoints : disc[e] = "sync" => exch[e].auth

Cached == [boots: 0..MaxBoots, time: 0..MaxTime, synced: BOOLEAN, from: Engines \union {None}]

\* What m_engines may be: a trusted pair was signed for, and is not at the ceiling.
Trustworthy(known) ==
    /\ known \in [Engines -> Cached]
    /\ \A g \in Engines : known[g].synced => known[g].boots # Ceiling /\ known[g].from # None

CacheSound == index \in [Endpoints -> Engines \union {None}] /\ Trustworthy(engines)

Inv == ExchangesSound /\ PlacesAgree /\ CacheSound

-----------------------------------------------------------------------------
(* Exchanges.                                                              *)

\* A fresh exchange is sound, if it is for an Engine whenever it authenticates.
LEMMA FreshIsSound ==
    ASSUME NEW g \in Engines \union {None}, NEW auth \in BOOLEAN, NEW sync \in BOOLEAN,
           auth => g \in Engines, sync => auth
    PROVE  Sound(NewExchange(g, auth, sync)) /\ NewExchange(g, auth, sync) # None
<1>1. NewExchange(g, auth, sync) \in Exchanges
  BY Zenon DEF NewExchange, Exchanges
<1> QED BY ZenonT(40), <1>1, NoneAssumption DEF Sound, NewExchange

\* An exchange that ends takes nothing else with it.
LEMMA EndingIsSound ==
    ASSUME ExchangesSound, NEW o \in Owners, Replace({o}, NoNew)
    PROVE  /\ ExchangesSound'
           /\ \A p \in Owners : p # o => exch'[p] = exch[p]
<1>1. exch' = [p \in Owners |-> IF p = o THEN None ELSE exch[p]]
  BY Zenon DEF Replace, NoNew
<1> QED BY Zenon, <1>1 DEF ExchangesSound, Sound

\* Nor does one that takes its place.
LEMMA BeginningIsSound ==
    ASSUME ExchangesSound, NEW o \in Owners, NEW q \in Owners, NEW x, Sound(x),
           Replace({o}, Only(q, x))
    PROVE  /\ ExchangesSound'
           /\ exch'[q] = x
           /\ \A p \in Owners : p # o /\ p # q => exch'[p] = exch[p]
<1>1. exch' = [p \in Owners |-> IF p = q THEN x ELSE IF p = o THEN None ELSE exch[p]]
  BY Zenon DEF Replace, Only
<1>2. x \in Exchanges
  BY Zenon DEF Sound
<1> QED BY Zenon, <1>1, <1>2 DEF ExchangesSound, Sound

\* deliverV3 keeps an exchange sound: what it accepts it has found signed wherever it
\* had to be, and only the Engine that was asked can have signed it.
LEMMA DeliverIsSound ==
    ASSUME ExchangesSound, NEW o \in Owners, exch[o] # None, NEW m \in Answers(o),
           NEW inWindow \in BOOLEAN, Deliver(o, m, inWindow)
    PROVE  /\ ExchangesSound'
           /\ exch'[o] # None
           /\ exch'[o].auth = exch[o].auth
           /\ \A p \in Owners : p # o => exch'[p] = exch[p]
<1> DEFINE x == exch[o]
           why == DropReason(x, EndpointOf(o), m, inWindow)
<1>1. Sound(x) /\ x \in Exchanges
  BY Zenon DEF ExchangesSound, Sound
<1>2. m \in Replies
  BY Zenon DEF Answers
<1>3. CASE why = "none" /\ exch' = [exch EXCEPT ![o].answered = TRUE, ![o].reply = m,
                                                ![o].vouched = Authenticated(exch[o], m)]
  <2> DEFINE y == [x EXCEPT !.answered = TRUE, !.reply = m, !.vouched = Authenticated(x, m)]
  <2>1. exch' = [exch EXCEPT ![o] = y]
    BY ZenonT(40), <1>3 DEF ExchangesSound
  <2>2. Authenticated(x, m) \in BOOLEAN
    BY Zenon DEF Authenticated
  <2>3. /\ y \in Exchanges /\ y.answered /\ y.reply = m /\ y.vouched = Authenticated(x, m)
        /\ y.auth = x.auth /\ y.sync = x.sync /\ y.engine = x.engine
    BY ZenonT(40), <1>1, <1>2, <2>2 DEF Exchanges
  <2>4. m.seal \in {"signed", "unsigned", "wrongDigest", "wrongCipher"}
    BY ZenonT(40), <1>2, DiscoveryAssumption DEF Replies
  <2>5. ASSUME Authenticated(x, m) PROVE m.seal = "signed" /\ m.engine = x.engine /\ x.auth
    <3>1. m.seal = "signed"
      BY Zenon, <1>3, <2>4, <2>5 DEF DropReason
    <3>2. x.auth /\ x.engine \in Engines
      BY Zenon, <1>1, <2>5 DEF Authenticated, Sound
    <3>3. x.engine # None
      BY Zenon, <3>2, DiscoveryAssumption
    <3>4. m.engine = x.engine
      BY Zenon, <3>1, <3>3 DEF Answers
    <3> QED BY Zenon, <3>1, <3>2, <3>4
  <2>6. ASSUME m.type \notin Reports, x.engine # None PROVE m.engine = x.engine
    BY Zenon, <1>3, <2>4, <2>6 DEF DropReason
  <2>7. x.auth /\ m.type \notin Reports => Authenticated(x, m)
    BY Zenon DEF Authenticated
  <2> HIDE DEF y, x
  <2>8. Sound(y)
    BY Zenon, <1>1, <1>2, <2>3, <2>5, <2>6, <2>7 DEF Sound
  <2>9. y # None
    BY Zenon, <2>3, NoneAssumption
  <2> QED BY Zenon, <2>1, <2>3, <2>8, <2>9 DEF ExchangesSound, Sound, x
<1>4. CASE why \notin {"none", "silently"} /\ exch' = [exch EXCEPT ![o].drop = why]
  <2> DEFINE y == [x EXCEPT !.drop = why]
  <2>1. exch' = [exch EXCEPT ![o] = y]
    BY Zenon, <1>4 DEF ExchangesSound
  <2>2. why \in DropReasons
    BY Zenon, <1>4 DEF DropReason, DropReasons
  <2> HIDE DEF why
  <2>3. /\ y \in Exchanges /\ y.answered = x.answered /\ y.reply = x.reply
        /\ y.vouched = x.vouched /\ y.auth = x.auth /\ y.sync = x.sync /\ y.engine = x.engine
    BY Zenon, <1>1, <2>2 DEF Exchanges
  <2> HIDE DEF y, x
  <2>4. Sound(y)
    BY Zenon, <1>1, <2>3 DEF Sound
  <2>5. y # None
    BY Zenon, <2>3, NoneAssumption
  <2> QED BY <2>1, <2>3, <2>4, <2>5 DEF ExchangesSound, Sound, x
<1> QED BY ZenonT(40), <1>3, <1>4 DEF Deliver

-----------------------------------------------------------------------------
(* The Engine cache.                                                       *)

\* No clock that stays trusted goes back.
Ahead(known) ==
    \A g \in Engines : engines[g].synced /\ known[g].synced => ~Older(known[g], engines[g])

\* A pair is not older than itself.
LEMMA SameIsAhead ==
    ASSUME Trustworthy(engines)
    PROVE  Ahead(engines)
<1>1. \A g \in Engines : engines[g].boots \in Nat /\ engines[g].time \in Nat
  BY DiscoveryAssumption DEF Trustworthy, Cached
<1> QED BY <1>1 DEF Ahead, Older

\* A signed pair that is not at the ceiling may be trusted.
LEMMA SignedIsTrustworthy ==
    ASSUME Trustworthy(engines), NEW m \in Replies, m.seal = "signed", m.engine \in Engines,
           ~AtCeiling(m), NEW g \in Engines
    PROVE  Trustworthy([engines EXCEPT ![g] = Trusted(m)])
<1>1. Trusted(m) = [boots |-> m.boots, time |-> m.time, synced |-> TRUE, from |-> m.engine]
  BY Zenon DEF Trusted
<1>2. Trusted(m) \in Cached /\ Trusted(m).boots = m.boots /\ Trusted(m).from = m.engine
  BY <1>1, DiscoveryAssumption DEF Cached, Replies
<1>3. m.engine # None
  BY Zenon, DiscoveryAssumption
<1> QED BY Zenon, <1>2, <1>3 DEF Trustworthy, AtCeiling

\* observeEngineTime() trusts no pair it may not, and takes no clock back.
LEMMA ObservedIsTrustworthy ==
    ASSUME CacheSound, NEW e \in Endpoints, NEW m \in Replies, m.seal = "signed",
           m.engine \in Engines
    PROVE  Trustworthy(Observed(e, m)) /\ Ahead(Observed(e, m))
<1> DEFINE g == index[e]
<1>1. g \in Engines \union {None} /\ Trustworthy(engines)
  BY Zenon DEF CacheSound
<1>2. CASE g = None \/ AtCeiling(m) \/ Older(m, engines[g])
  BY Zenon, <1>1, <1>2, SameIsAhead DEF Observed
<1>3. CASE ~(g = None \/ AtCeiling(m) \/ Older(m, engines[g]))
  <2> DEFINE known == [engines EXCEPT ![g] = Trusted(m)]
  <2>1. g \in Engines /\ Observed(e, m) = known
    BY Zenon, <1>1, <1>3 DEF Observed
  <2>2. Trustworthy(known)
    BY ZenonT(40), <1>1, <1>3, <2>1, SignedIsTrustworthy
  <2>3. \A h \in Engines : known[h] = IF h = g THEN Trusted(m) ELSE engines[h]
    BY Zenon, <1>1 DEF Trustworthy
  <2>4. ~Older(Trusted(m), engines[g])
    BY Zenon, <1>3 DEF Older, Trusted
  <2> HIDE DEF known
  <2>5. Ahead(known)
    BY Zenon, <1>1, <2>3, <2>4, SameIsAhead DEF Ahead
  <2> QED BY Zenon, <2>1, <2>2, <2>5
<1> QED BY Zenon, <1>2, <1>3

\* The identity phase trusts nothing.
LEMMA RecordedIsTrustworthy ==
    ASSUME Trustworthy(engines), NEW g \in Engines, NEW m \in Replies
    PROVE  Trustworthy(Recorded(g, m)) /\ Ahead(Recorded(g, m))
<1>1. CASE engines[g].synced
  BY Zenon, <1>1, SameIsAhead DEF Recorded
<1>2. CASE ~engines[g].synced
  <2> DEFINE pair == [engines[g] EXCEPT !.boots = m.boots, !.time = m.time, !.from = None]
             known == [engines EXCEPT ![g] = pair]
  <2>1. Recorded(g, m) = known
    BY ZenonT(40), <1>2 DEF Recorded, Trustworthy
  <2>2. pair \in Cached /\ pair.synced = FALSE
    <3>1. engines[g] \in Cached
      BY Zenon DEF Trustworthy
    <3>2. m.boots \in 0..MaxBoots /\ m.time \in 0..MaxTime
      BY DiscoveryAssumption DEF Replies
    <3>3. engines[g].synced = FALSE
      BY Zenon, <1>2, <3>1 DEF Cached
    <3> QED BY ZenonT(40), <3>1, <3>2, <3>3 DEF Cached
  <2> HIDE DEF pair
  <2>3. Trustworthy(known) /\ Ahead(known)
    BY Zenon, <2>2, SameIsAhead DEF Trustworthy, Ahead
  <2> QED BY Zenon, <2>1, <2>3
<1> QED BY Zenon, <1>1, <1>2

\* Nor does forgetting that a clock is known.
LEMMA ForgottenIsTrustworthy ==
    ASSUME Trustworthy(engines), NEW g \in Engines
    PROVE  Trustworthy([engines EXCEPT ![g].synced = FALSE]) /\ Ahead([engines EXCEPT ![g].synced = FALSE])
<1> DEFINE pair == [engines[g] EXCEPT !.synced = FALSE]
           known == [engines EXCEPT ![g] = pair]
<1>1. [engines EXCEPT ![g].synced = FALSE] = known
  BY Zenon DEF Trustworthy
<1>2. pair \in Cached /\ pair.synced = FALSE
  BY ZenonT(40) DEF Trustworthy, Cached
<1> HIDE DEF pair
<1>3. Trustworthy(known) /\ Ahead(known)
  BY Zenon, <1>2, SameIsAhead DEF Trustworthy, Ahead
<1> QED BY Zenon, <1>1, <1>3

-----------------------------------------------------------------------------
(* The steps the coroutines are made of.                                   *)

\* A request that is sent, or fails on the way, leaves the others where they are.
LEMMA SendKeeps ==
    ASSUME ExchangesSound, PlacesAgree, NEW r \in Requests, NEW g \in Engines, Send(r, g)
    PROVE  ExchangesSound' /\ PlacesAgree'
<1>1. r \in Owners /\ r \notin Endpoints /\ Requests \subseteq Owners /\ Endpoints \subseteq Owners
  BY Zenon, DiscoveryAssumption DEF Owners
<1>2. disc' = disc
  BY Zenon DEF Send, discovery
<1>3. CASE /\ pc' = [pc EXCEPT ![r] = "exchange"]
           /\ Replace({r}, Only(r, NewExchange(g, Level[r] = "auth", FALSE)))
  <2> DEFINE x == NewExchange(g, Level[r] = "auth", FALSE)
  <2>1. Sound(x) /\ x # None
    BY ZenonT(40), FreshIsSound
  <2>0. Replace({r}, Only(r, x))
    BY ZenonT(40), <1>3
  <2> HIDE DEF x
  <2>2. /\ ExchangesSound' /\ exch'[r] = x
        /\ \A p \in Owners : p # r => exch'[p] = exch[p]
    BY <1>1, <2>0, <2>1, BeginningIsSound
  <2> QED BY Zenon, <1>1, <1>2, <1>3, <2>1, <2>2 DEF PlacesAgree, Places
<1>4. CASE (\E code : Complete(r, code)) /\ Replace({r}, NoNew)
  <2>1. ExchangesSound' /\ \A p \in Owners : p # r => exch'[p] = exch[p]
    BY Zenon, <1>1, <1>4, EndingIsSound
  <2>2. pc' = [pc EXCEPT ![r] = "done"]
    BY Zenon, <1>4 DEF Complete
  <2> QED BY Zenon, <1>1, <1>2, <2>1, <2>2 DEF PlacesAgree, Places
<1> QED BY ZenonT(40), <1>3, <1>4 DEF Send

\* So does one that waits for a discovery, whether it starts it or not.
LEMMA ParkKeeps ==
    ASSUME ExchangesSound, PlacesAgree, NEW r \in Requests, Park(r)
    PROVE  ExchangesSound' /\ PlacesAgree'
<1> DEFINE e == Target[r]
<1>1. r \in Owners /\ r \notin Endpoints /\ Requests \subseteq Owners /\ Endpoints \subseteq Owners
  BY Zenon, DiscoveryAssumption DEF Owners
<1>2. e \in Endpoints /\ e \notin Requests /\ e \in Owners
  BY Zenon, <1>1, DiscoveryAssumption
<1>3. CASE /\ pc' = [pc EXCEPT ![r] = "parked"] \/ pc' = [pc EXCEPT ![r] = "adrift"]
           /\ Replace({r}, NoNew)
           /\ disc' = disc
  <2>1. ExchangesSound' /\ \A p \in Owners : p # r => exch'[p] = exch[p]
    BY Zenon, <1>1, <1>3, EndingIsSound
  <2> QED BY Zenon, <1>1, <1>3, <2>1 DEF PlacesAgree, Places
<1>4. CASE /\ pc' = [pc EXCEPT ![r] = "parked"]
           /\ disc' = [disc EXCEPT ![e] = "identify"]
           /\ Replace({r}, Only(e, NewExchange(None, FALSE, FALSE)))
  <2> DEFINE x == NewExchange(None, FALSE, FALSE)
  <2>1. Sound(x) /\ x # None
    BY ZenonT(40), FreshIsSound
  <2>0. Replace({r}, Only(e, x))
    BY ZenonT(40), <1>4
  <2> HIDE DEF x, e
  <2>2. /\ ExchangesSound' /\ exch'[e] = x
        /\ \A p \in Owners : p # r /\ p # e => exch'[p] = exch[p]
    BY Zenon, <1>1, <1>2, <2>0, <2>1, BeginningIsSound
  <2> QED BY Zenon, <1>1, <1>2, <1>4, <2>1, <2>2 DEF PlacesAgree, Places
<1> QED BY ZenonT(40), <1>3, <1>4 DEF Park, discovery

\* And a discovery that ends.
LEMMA FinishKeeps ==
    ASSUME ExchangesSound, PlacesAgree, NEW e \in Endpoints, NEW code, Finish(e, code)
    PROVE  ExchangesSound' /\ PlacesAgree'
<1>1. e \in Owners /\ e \notin Requests /\ Requests \subseteq Owners /\ Endpoints \subseteq Owners
  BY Zenon, DiscoveryAssumption DEF Owners
<1>2. disc' = [disc EXCEPT ![e] = "none"] /\ Replace({e}, NoNew)
  BY Zenon DEF Finish
<1>3. pc' \in [Requests -> Places] /\ \A r \in Requests : pc'[r] = "exchange" => pc[r] = "exchange"
  BY Zenon DEF Finish, PlacesAgree, Places
<1>4. ExchangesSound' /\ \A p \in Owners : p # e => exch'[p] = exch[p]
  BY Zenon, <1>1, <1>2, EndingIsSound
<1> QED BY Zenon, <1>1, <1>2, <1>3, <1>4 DEF PlacesAgree

-----------------------------------------------------------------------------
(* Every step keeps the invariant, and takes no clock back but one.        *)

SyncEnds == \E e \in Endpoints : disc[e] = "sync" /\ disc'[e] = "none"

Kept == Inv' /\ (Ahead(engines') \/ SyncEnds)

\* A turn of doRequestV3's loop, with whatever cache the turn before left.
LEMMA AskKeeps ==
    ASSUME Inv, NEW r \in Requests, NEW newIndex \in [Endpoints -> Engines \union {None}],
           NEW newEngines, Trustworthy(newEngines), Ask(r, newIndex, newEngines)
    PROVE  Inv' /\ engines' = newEngines
<1>1. index' = newIndex /\ engines' = newEngines
  BY Zenon DEF Ask
<1>2. CacheSound'
  BY Zenon, <1>1 DEF CacheSound, Trustworthy
<1> DEFINE g == newIndex[Target[r]]
<1>3. g \in Engines \union {None}
  BY Zenon, DiscoveryAssumption
<1> HIDE DEF g
<1>4. CASE g # None /\ Send(r, g)
  BY Zenon, <1>1, <1>2, <1>3, <1>4, SendKeeps DEF Inv
<1>5. CASE Park(r)
  BY Zenon, <1>1, <1>2, <1>5, ParkKeeps DEF Inv
<1> QED BY Zenon, <1>1, <1>4, <1>5 DEF Ask, Ready, g

\* The pair of a Response or Report that was vouched for was signed, by its Engine.
LEMMA VouchedIsSigned ==
    ASSUME ExchangesSound, NEW o \in Owners, exch[o] # None, exch[o].answered
    PROVE  /\ exch[o].reply \in Replies
           /\ Vouched(o) => exch[o].reply.seal = "signed" /\ exch[o].reply.engine \in Engines
BY Zenon DEF ExchangesSound, Sound, Vouched

\* transact() reports a reply only when there is one.
LEMMA ReplyIsThere ==
    ASSUME ExchangesSound, NEW o \in Owners, exch[o] # None, "reply" \in Verdicts(o)
    PROVE  exch[o].answered
<1>1. exch[o].drop # "reply"
  BY Zenon DEF ExchangesSound, Exchanges, DropReasons
<1> QED BY Zenon, <1>1 DEF Verdicts

LEMMA RetryKeeps ==
    ASSUME Inv, NEW r \in Requests, exch[r] # None, exch[r].answered, Retry(r)
    PROVE  Kept
<1> DEFINE e == Target[r]
           g == index[e]
           m == exch[r].reply
           lower == g # None /\ engines[g].synced /\ m.boots < engines[g].boots
<1>1. r \in Owners /\ e \in Endpoints
  BY Zenon, DiscoveryAssumption DEF Owners
<1>2. m \in Replies /\ (Vouched(r) => m.seal = "signed" /\ m.engine \in Engines)
  BY Zenon, <1>1, VouchedIsSigned DEF Inv
<1>3. index \in [Endpoints -> Engines \union {None}] /\ Trustworthy(engines) /\ CacheSound
  BY Zenon DEF Inv, CacheSound
<1>4. CASE Ask(r, [index EXCEPT ![e] = None], engines)
  <2>1. [index EXCEPT ![e] = None] \in [Endpoints -> Engines \union {None}]
    BY ZenonT(40), <1>3
  <2>2. Inv' /\ engines' = engines
    BY ZenonT(40), <1>3, <1>4, <2>1, AskKeeps
  <2> QED BY Zenon, <1>3, <2>2, SameIsAhead DEF Kept
<1>5. CASE lower /\ Ask(r, index, [engines EXCEPT ![g].synced = FALSE])
  <2>1. g \in Engines
    BY Zenon, <1>1, <1>3, <1>5
  <2> DEFINE known == [engines EXCEPT ![g].synced = FALSE]
  <2>2. Trustworthy(known) /\ Ahead(known)
    BY Zenon, <1>3, <2>1, ForgottenIsTrustworthy
  <2>3. Ask(r, index, known)
    BY Zenon, <1>5
  <2> HIDE DEF known
  <2>4. Inv' /\ engines' = known
    BY Zenon, <1>3, <2>2, <2>3, AskKeeps
  <2> QED BY Zenon, <2>2, <2>4 DEF Kept
<1>6. CASE Vouched(r) /\ Ask(r, index, Observed(e, m))
  <2> DEFINE known == Observed(e, m)
  <2>1. Trustworthy(known) /\ Ahead(known)
    BY Zenon, <1>1, <1>2, <1>3, <1>6, ObservedIsTrustworthy
  <2>2. Ask(r, index, known)
    BY Zenon, <1>6
  <2> HIDE DEF known
  <2>3. Inv' /\ engines' = known
    BY Zenon, <1>3, <2>1, <2>2, AskKeeps
  <2> QED BY Zenon, <2>1, <2>3 DEF Kept
<1> QED BY Zenon, <1>4, <1>5, <1>6 DEF Retry

LEMMA EndExchangeKeeps ==
    ASSUME Inv, NEW r \in Requests, EndExchange(r)
    PROVE  Kept
<1> DEFINE m == exch[r].reply
<1>1. PICK v \in Verdicts(r) :
         \/ v = "reply" /\ Retry(r)
         \/ /\ \E code : Complete(r, code)
            /\ Replace({r}, NoNew) /\ UNCHANGED <<index, discovery>>
            /\ \/ engines' = engines
               \/ v = "reply" /\ Vouched(r) /\ engines' = Observed(Target[r], m)
  BY Zenon DEF EndExchange
<1>2. r \in Owners /\ exch[r] # None /\ Target[r] \in Endpoints
  BY Zenon, DiscoveryAssumption DEF EndExchange, Inv, PlacesAgree, Owners
<1>3. v = "reply" => exch[r].answered
  BY Zenon, <1>2, ReplyIsThere DEF Inv
<1>4. CASE v = "reply" /\ Retry(r)
  BY Zenon, <1>2, <1>3, <1>4, RetryKeeps
<1>5. ASSUME NEW code, Complete(r, code), Replace({r}, NoNew), UNCHANGED <<index, discovery>>,
             \/ engines' = engines
             \/ v = "reply" /\ Vouched(r) /\ engines' = Observed(Target[r], m)
      PROVE  Kept
  <2>1. ExchangesSound' /\ \A p \in Owners : p # r => exch'[p] = exch[p]
    BY Zenon, <1>2, <1>5, EndingIsSound DEF Inv
  <2>2. PlacesAgree'
    <3>1. pc' = [pc EXCEPT ![r] = "done"] /\ disc' = disc
      BY Zenon, <1>5 DEF Complete, discovery
    <3>2. Requests \subseteq Owners /\ Endpoints \subseteq Owners /\ r \notin Endpoints
      BY Zenon, DiscoveryAssumption DEF Owners
    <3> QED BY Zenon, <2>1, <3>1, <3>2 DEF Inv, PlacesAgree, Places
  <2>3. Trustworthy(engines') /\ Ahead(engines')
    <3>1. CASE engines' = engines
      BY Zenon, <3>1, SameIsAhead DEF Inv, CacheSound
    <3>2. CASE v = "reply" /\ Vouched(r) /\ engines' = Observed(Target[r], m)
      <4>1. m \in Replies /\ m.seal = "signed" /\ m.engine \in Engines
        BY Zenon, <1>2, <1>3, <3>2, VouchedIsSigned DEF Inv
      <4> QED BY Zenon, <1>2, <3>2, <4>1, ObservedIsTrustworthy DEF Inv
    <3> QED BY Zenon, <1>5, <3>1, <3>2
  <2>4. CacheSound'
    BY Zenon, <1>5, <2>3 DEF Inv, CacheSound, Trustworthy
  <2> QED BY Zenon, <2>1, <2>2, <2>3, <2>4 DEF Kept, Inv
<1> QED BY Zenon, <1>1, <1>4, <1>5

LEMMA ResumeKeeps ==
    ASSUME Inv, NEW r \in Requests, Resume(r)
    PROVE  Kept
<1>1. index' = index /\ engines' = engines
  BY Zenon DEF Resume, cache
<1>2. CacheSound' /\ Ahead(engines')
  BY Zenon, <1>1, SameIsAhead DEF Inv, CacheSound, Trustworthy
<1>3. CASE \E code : Complete(r, code) /\ UNCHANGED <<discovery, exch>>
  <2>1. pc' = [pc EXCEPT ![r] = "done"] /\ disc' = disc /\ exch' = exch
    BY Zenon, <1>3 DEF Complete, discovery
  <2>2. ExchangesSound' /\ PlacesAgree'
    BY Zenon, <2>1 DEF Inv, ExchangesSound, Sound, PlacesAgree, Places
  <2> QED BY Zenon, <1>2, <2>2 DEF Kept, Inv
<1>4. CASE index[Target[r]] # None /\ Send(r, index[Target[r]])
  <2>1. index[Target[r]] \in Engines
    BY Zenon, <1>4, DiscoveryAssumption DEF Inv, CacheSound
  <2> QED BY Zenon, <1>2, <1>4, <2>1, SendKeeps DEF Kept, Inv
<1> QED BY Zenon, <1>3, <1>4 DEF Resume

LEMMA EndIdentifyKeeps ==
    ASSUME Inv, NEW e \in Endpoints, EndIdentify(e)
    PROVE  Kept
<1> DEFINE m == exch[e].reply
           g == m.engine
<1>1. e \in Owners /\ exch[e] # None
  BY Zenon DEF EndIdentify, Inv, PlacesAgree, Owners
<1>2. Trustworthy(engines) /\ index \in [Endpoints -> Engines \union {None}]
  BY Zenon DEF Inv, CacheSound
<1>3. CASE (\E code : Finish(e, code)) /\ UNCHANGED cache
  <2>1. ExchangesSound' /\ PlacesAgree'
    BY Zenon, <1>3, FinishKeeps DEF Inv
  <2>2. CacheSound' /\ Ahead(engines')
    BY Zenon, <1>2, <1>3, SameIsAhead DEF cache, CacheSound, Trustworthy
  <2> QED BY Zenon, <2>1, <2>2 DEF Kept, Inv
<1>4. CASE /\ "reply" \in Verdicts(e) /\ g # None
           /\ index' = [index EXCEPT ![e] = g] /\ engines' = Recorded(g, m)
           /\ \/ \E code : Finish(e, code)
              \/ /\ disc' = [disc EXCEPT ![e] = "sync"]
                 /\ Replace({e}, Only(e, NewExchange(g, TRUE, TRUE)))
                 /\ UNCHANGED <<pc, verdict>>
  <2>1. m \in Replies
    BY Zenon, <1>1, <1>4, ReplyIsThere, VouchedIsSigned DEF Inv
  <2>2. g \in Engines
    BY Zenon, <1>4, <2>1 DEF Replies
  <2>3. CacheSound' /\ Ahead(engines')
    <3>1. Trustworthy(engines') /\ Ahead(engines')
      BY Zenon, <1>2, <1>4, <2>1, <2>2, RecordedIsTrustworthy
    <3>2. index' \in [Endpoints -> Engines \union {None}]
      BY Zenon, <1>2, <1>4, <2>2
    <3> QED BY Zenon, <3>1, <3>2 DEF CacheSound, Trustworthy
  <2>4. CASE \E code : Finish(e, code)
    BY Zenon, <2>3, <2>4, FinishKeeps DEF Kept, Inv
  <2>5. CASE /\ disc' = [disc EXCEPT ![e] = "sync"]
             /\ Replace({e}, Only(e, NewExchange(g, TRUE, TRUE)))
             /\ UNCHANGED <<pc, verdict>>
    <3> DEFINE x == NewExchange(g, TRUE, TRUE)
    <3>1. Sound(x) /\ x # None /\ x.auth
      BY ZenonT(40), <2>2, FreshIsSound DEF NewExchange
    <3>2. Replace({e}, Only(e, x))
      BY ZenonT(40), <2>5
    <3> HIDE DEF x
    <3>3. /\ ExchangesSound' /\ exch'[e] = x
          /\ \A p \in Owners : p # e => exch'[p] = exch[p]
      BY <1>1, <3>1, <3>2, BeginningIsSound DEF Inv
    <3>4. Requests \subseteq Owners /\ Endpoints \subseteq Owners /\ e \notin Requests
      BY Zenon, DiscoveryAssumption DEF Owners
    <3>5. PlacesAgree'
      BY Zenon, <2>5, <3>1, <3>3, <3>4 DEF Inv, PlacesAgree
    <3> QED BY Zenon, <2>3, <3>3, <3>5 DEF Kept, Inv
  <2> QED BY ZenonT(40), <1>4, <2>4, <2>5
<1> QED BY ZenonT(40), <1>3, <1>4 DEF EndIdentify

LEMMA EndSyncKeeps ==
    ASSUME Inv, NEW e \in Endpoints, EndSync(e)
    PROVE  Kept
<1> DEFINE m == exch[e].reply
           g == exch[e].engine
<1>1. e \in Owners /\ exch[e] # None /\ exch[e].auth /\ disc[e] = "sync"
  BY Zenon DEF EndSync, Inv, PlacesAgree, Owners
<1>2. Trustworthy(engines) /\ index \in [Endpoints -> Engines \union {None}] /\ index' = index
  BY Zenon DEF Inv, CacheSound, EndSync
<1>3. PICK code : Finish(e, code)
  BY Zenon DEF EndSync
<1>4. ExchangesSound' /\ PlacesAgree'
  BY Zenon, <1>3, FinishKeeps DEF Inv
<1>5. SyncEnds
  <2>1. disc'[e] = "none"
    BY Zenon, <1>3 DEF Finish, Inv, PlacesAgree
  <2> QED BY Zenon, <1>1, <2>1 DEF SyncEnds
<1>6. Trustworthy(engines')
  <2>1. CASE engines' = engines
    BY Zenon, <1>2, <2>1
  <2>2. CASE /\ "reply" \in Verdicts(e) /\ Vouched(e) /\ ~AtCeiling(m)
             /\ engines' = [engines EXCEPT ![g] = Trusted(m)]
    <3>1. m \in Replies /\ m.seal = "signed" /\ m.engine \in Engines
      BY Zenon, <1>1, <2>2, ReplyIsThere, VouchedIsSigned DEF Inv
    <3>2. g \in Engines
      BY Zenon, <1>1 DEF Inv, ExchangesSound, Sound
    <3> QED BY ZenonT(40), <1>2, <2>2, <3>1, <3>2, SignedIsTrustworthy
  <2> QED BY Zenon, <2>1, <2>2 DEF EndSync
<1>7. CacheSound'
  BY Zenon, <1>2, <1>6 DEF CacheSound, Trustworthy
<1> QED BY Zenon, <1>4, <1>5, <1>7 DEF Kept, Inv

LEMMA StepKeeps == Inv /\ [Next]_vars => Kept
<1> SUFFICES ASSUME Inv, [Next]_vars PROVE Kept
  BY Zenon
<1>1. ASSUME UNCHANGED <<index, engines>>, ExchangesSound', PlacesAgree' PROVE Kept
  <2>1. CacheSound' /\ Ahead(engines')
    BY Zenon, <1>1, SameIsAhead DEF Inv, CacheSound, Trustworthy
  <2> QED BY Zenon, <1>1, <2>1 DEF Kept, Inv
<1>2. ASSUME UNCHANGED <<index, engines, disc, exch>>, pc' \in [Requests -> Places],
             \A r \in Requests : pc'[r] = "exchange" => pc[r] = "exchange"
      PROVE  Kept
  <2>1. ExchangesSound' /\ PlacesAgree'
    BY Zenon, <1>2 DEF Inv, ExchangesSound, Sound, PlacesAgree
  <2> QED BY Zenon, <1>1, <1>2, <2>1
<1>3. pc \in [Requests -> Places]
  BY Zenon DEF Inv, PlacesAgree
<1>4. ASSUME NEW r \in Requests, Refuse(r) PROVE Kept
  BY Zenon, <1>2, <1>3, <1>4 DEF Refuse, Complete, cache, discovery, Places
<1>5. ASSUME NEW r \in Requests, Begin(r) PROVE Kept
  <2>1. index \in [Endpoints -> Engines \union {None}] /\ Trustworthy(engines)
    BY Zenon DEF Inv, CacheSound
  <2>2. Inv' /\ engines' = engines
    BY Zenon, <1>5, <2>1, AskKeeps DEF Begin
  <2> QED BY Zenon, <2>1, <2>2, SameIsAhead DEF Kept
<1>6. ASSUME NEW r \in Requests, NEW type \in Signals, Signal(r, type) PROVE Kept
  BY Zenon, <1>2, <1>3, <1>6 DEF Signal, cache, discovery, Places
<1>7. ASSUME NEW e \in Endpoints, DiscoveryThrows(e) PROVE Kept
  <2>1. ExchangesSound' /\ PlacesAgree'
    BY Zenon, <1>7, FinishKeeps DEF DiscoveryThrows, Inv
  <2> QED BY Zenon, <1>1, <1>7, <2>1 DEF DiscoveryThrows, cache
<1>8. ASSUME NEW o \in Owners, exch[o] # None, NEW m \in Answers(o), NEW inWindow \in BOOLEAN,
             Deliver(o, m, inWindow)
      PROVE  Kept
  <2>1. /\ ExchangesSound' /\ exch'[o] # None /\ exch'[o].auth = exch[o].auth
        /\ \A p \in Owners : p # o => exch'[p] = exch[p]
    BY Zenon, <1>8, DeliverIsSound DEF Inv
  <2>2. UNCHANGED <<index, engines, disc, pc>>
    BY Zenon, <1>8 DEF Deliver, cache, discovery, request
  <2>3. Requests \subseteq Owners /\ Endpoints \subseteq Owners
    BY Zenon DEF Owners
  <2>4. PlacesAgree'
    BY Zenon, <2>1, <2>2, <2>3 DEF Inv, PlacesAgree
  <2> QED BY Zenon, <1>1, <2>1, <2>2, <2>4
<1>9. CASE Stop
  BY Zenon, <1>2, <1>3, <1>9 DEF Stop, cache, discovery, request
<1>10. CASE FinishStopping
  BY Zenon, <1>2, <1>3, <1>10 DEF FinishStopping, cache, discovery, Places
<1>11. ASSUME NEW g \in Engines, NEW p, ClockMoves(g, p) PROVE Kept
  BY Zenon, <1>2, <1>3, <1>11 DEF ClockMoves, cache, discovery, request
<1>12. ASSUME NEW g \in Engines, NEW e \in Endpoints, Move(e, g) PROVE Kept
  BY Zenon, <1>2, <1>3, <1>12 DEF Move, cache, discovery, request
<1>13. CASE UNCHANGED vars
  BY Zenon, <1>2, <1>3, <1>13 DEF vars, cache, discovery, request
<1> QED
  BY Zenon, <1>4, <1>5, <1>6, <1>7, <1>8, <1>9, <1>10, <1>11, <1>12, <1>13,
     ResumeKeeps, EndExchangeKeeps, EndIdentifyKeeps, EndSyncKeeps DEF Next, Sides

LEMMA InitKeeps == Init => Inv
<1> SUFFICES ASSUME Init PROVE Inv
  BY Zenon
<1>1. ExchangesSound /\ PlacesAgree
  BY Zenon DEF Init, ExchangesSound, PlacesAgree, Places
<1>2. Trustworthy(engines)
  BY DiscoveryAssumption DEF Init, Trustworthy, Cached
<1> QED BY Zenon, <1>1, <1>2 DEF Inv, CacheSound, Init

LEMMA AlwaysInv == Spec => []Inv
<1>1. Inv /\ [Next]_vars => Inv'
  BY Zenon, StepKeeps DEF Kept
<1> QED BY <1>1, InitKeeps, PTL DEF Spec

\* A reply counts for what it is, in any exchange of any request or discovery: what
\* deliverV3 took for signed was signed, and a Response is the answer of the Engine that
\* was asked.
THEOREM RepliesAreVouchedFor == Spec => []ReplyIsVouchedFor
<1>1. Inv => ReplyIsVouchedFor
  <2>1. "Response" \notin Reports
    BY Zenon DEF Reports
  <2> QED BY ZenonT(40), <2>1 DEF Inv, ExchangesSound, Sound, ReplyIsVouchedFor
<1> QED BY <1>1, AlwaysInv, PTL

\* Neither observeEngineTime() nor a time-sync phase ever trusts a clock at the boots
\* ceiling.
THEOREM CeilingIsNotTrusted == Spec => []NoneTrustedAtCeiling
<1>1. Inv => NoneTrustedAtCeiling
  BY Zenon DEF Inv, CacheSound, Trustworthy, NoneTrustedAtCeiling
<1> QED BY <1>1, AlwaysInv, PTL

\* Only a signed pair is ever trusted: not the one an identity phase records, nor that of a
\* Response, Report or time-sync reply that deliverV3 accepted without a signature.
THEOREM TrustIsSignedFor == Spec => []TrustedIsSigned
<1>1. Inv => TrustedIsSigned
  BY Zenon DEF Inv, CacheSound, Trustworthy, TrustedIsSigned
<1> QED BY <1>1, AlwaysInv, PTL

\* Only the end of a time-sync phase takes a trusted clock backwards, whatever order
\* replies are used in.
THEOREM ClocksGoForward == Spec => OnlySyncSetsBack
<1>1. Inv /\ [Next]_vars =>
        [\A g \in Engines :
           /\ engines[g].synced
           /\ engines'[g].synced
           /\ Older(engines'[g], engines[g])
           => \E e \in Endpoints : disc[e] = "sync" /\ disc'[e] = "none"]_vars
  BY Zenon, StepKeeps DEF Kept, Ahead, SyncEnds
<1> QED BY <1>1, AlwaysInv, PTL DEF Spec, OnlySyncSetsBack

-----------------------------------------------------------------------------
(* Nobody is queued behind a discovery that is not running.                *)

\* What a request does next wakes nobody, and ends no discovery.
LEMMA AskServes ==
    ASSUME PlacesAgree, QueuedIsServed, NEW r \in Requests,
           (\E g : Send(r, g)) \/ Park(r)
    PROVE  QueuedIsServed'
<1>1. \A q \in Requests : Target[q] \in Endpoints
  BY Zenon, DiscoveryAssumption
<1>2. CASE \E g : Send(r, g)
  <2>1. disc' = disc
    BY Zenon, <1>2 DEF Send, discovery
  <2>2. pc' = [pc EXCEPT ![r] = "exchange"] \/ pc' = [pc EXCEPT ![r] = "done"]
    BY ZenonT(40), <1>2 DEF Send, Complete
  <2> QED BY Zenon, <2>1, <2>2 DEF QueuedIsServed, PlacesAgree
<1>3. CASE Park(r)
  <2>1. \/ pc' = [pc EXCEPT ![r] = "parked"] /\ disc' = disc /\ disc[Target[r]] # "none"
        \/ /\ pc' = [pc EXCEPT ![r] = "parked"]
           /\ disc' = [disc EXCEPT ![Target[r]] = "identify"]
        \/ pc' = [pc EXCEPT ![r] = "adrift"] /\ disc' = disc
    BY ZenonT(40), <1>3 DEF Park, discovery
  <2> QED BY Zenon, <1>1, <2>1 DEF QueuedIsServed, PlacesAgree
<1> QED BY Zenon, <1>2, <1>3

\* A discovery that ends leaves nobody waiting for it.
LEMMA FinishServes ==
    ASSUME PlacesAgree, QueuedIsServed, NEW e \in Endpoints, NEW code, Finish(e, code)
    PROVE  QueuedIsServed'
<1>1. disc' = [disc EXCEPT ![e] = "none"]
  BY Zenon DEF Finish
<1>2. \A r \in Requests : /\ pc'[r] = pc[r] \/ pc'[r] = "resumed"
                          /\ pc[r] = "parked" /\ Target[r] = e => pc'[r] = "resumed"
  BY Zenon DEF Finish
<1>3. \A r \in Requests : Target[r] \in Endpoints
  BY Zenon, DiscoveryAssumption
<1> QED BY Zenon, <1>1, <1>2, <1>3 DEF QueuedIsServed, PlacesAgree

LEMMA StepServes == Inv /\ QueuedIsServed /\ [Next]_vars => QueuedIsServed'
<1> SUFFICES ASSUME Inv, QueuedIsServed, [Next]_vars PROVE QueuedIsServed'
  BY Zenon
<1>1. PlacesAgree /\ pc \in [Requests -> Places]
  BY Zenon DEF Inv, PlacesAgree
<1>2. ASSUME disc' = disc, \A q \in Requests : pc'[q] \in {pc[q], "resumed", "done"} PROVE QueuedIsServed'
  BY Zenon, <1>2 DEF QueuedIsServed
<1>3. ASSUME NEW r \in Requests, Begin(r) \/ EndExchange(r) \/ Resume(r) PROVE QueuedIsServed'
  <2>1. \/ \E g : Send(r, g)
        \/ Park(r)
        \/ (\E code : Complete(r, code)) /\ UNCHANGED discovery
    <3>1. CASE Begin(r)
      BY Zenon, <3>1 DEF Begin, Ask
    <3>2. CASE EndExchange(r)
      BY Zenon, <3>2 DEF EndExchange, Retry, Ask
    <3>3. CASE Resume(r)
      BY Zenon, <3>3 DEF Resume
    <3> QED BY Zenon, <1>3, <3>1, <3>2, <3>3
  <2>2. CASE (\E code : Complete(r, code)) /\ UNCHANGED discovery
    BY Zenon, <1>1, <1>2, <2>2 DEF Complete, discovery
  <2> QED BY Zenon, <1>1, <2>1, <2>2, AskServes
<1>4. ASSUME NEW e \in Endpoints, EndIdentify(e) \/ EndSync(e) \/ DiscoveryThrows(e) PROVE QueuedIsServed'
  <2>1. \/ \E code : Finish(e, code)
        \/ disc' = [disc EXCEPT ![e] = "sync"] /\ pc' = pc
    BY ZenonT(40), <1>4 DEF EndIdentify, EndSync, DiscoveryThrows
  <2>2. CASE disc' = [disc EXCEPT ![e] = "sync"] /\ pc' = pc
    <3>1. \A q \in Requests : Target[q] \in Endpoints
      BY Zenon, DiscoveryAssumption
    <3> QED BY Zenon, <1>1, <2>2, <3>1 DEF QueuedIsServed, PlacesAgree
  <2> QED BY Zenon, <1>1, <2>1, <2>2, FinishServes
<1>5. ASSUME NEW r \in Requests, Refuse(r) PROVE QueuedIsServed'
  BY Zenon, <1>1, <1>2, <1>5 DEF Refuse, Complete, discovery
<1>6. ASSUME NEW r \in Requests, NEW type \in Signals, Signal(r, type) PROVE QueuedIsServed'
  BY Zenon, <1>1, <1>2, <1>6 DEF Signal, discovery
<1>7. ASSUME NEW o \in Owners, NEW m, NEW inWindow, Deliver(o, m, inWindow) PROVE QueuedIsServed'
  BY Zenon, <1>2, <1>7 DEF Deliver, discovery, request
<1>8. CASE Stop
  BY Zenon, <1>2, <1>8 DEF Stop, discovery, request
<1>9. CASE FinishStopping
  BY Zenon, <1>2, <1>9 DEF FinishStopping, discovery
<1>10. ASSUME NEW g, NEW p, ClockMoves(g, p) PROVE QueuedIsServed'
  BY Zenon, <1>2, <1>10 DEF ClockMoves, discovery, request
<1>11. ASSUME NEW g, NEW e, Move(e, g) PROVE QueuedIsServed'
  BY Zenon, <1>2, <1>11 DEF Move, discovery, request
<1>12. CASE UNCHANGED vars
  BY Zenon, <1>2, <1>12 DEF vars, discovery, request
<1> QED
  BY Zenon, <1>3, <1>4, <1>5, <1>6, <1>7, <1>8, <1>9, <1>10, <1>11, <1>12 DEF Next

\* Every request queued behind a discovery has one to wait for, whatever ends the
\* discovery and whenever stop() sets its flag.
THEOREM QueuedAreServed == Spec => []QueuedIsServed
<1>1. Init => QueuedIsServed
  BY Zenon DEF Init, QueuedIsServed
<1> QED BY <1>1, AlwaysInv, StepServes, PTL DEF Spec

-----------------------------------------------------------------------------
(* What a request is told.                                                 *)

VerdictCodes == (Codes \ {"reply", "operation_aborted"}) \union {"ok", "unfinished"}

\* What a request that was sent these signals may be told.
Fits(sent, code) ==
    code # "exception" =>
       /\ "terminal" \in sent => ClassOf(code) = "Fatal"
       /\ sent # {} => code \notin {"DecryptionFailed", "Timeout", "sendError"}

RequestsTyped ==
    /\ stopping \in BOOLEAN
    /\ cleanup \in {"none", "queued", "done"}
    /\ discAuth \in [Endpoints -> BOOLEAN]
    /\ attempt \in [Requests -> {0, 1}]
    /\ verdict \in [Requests -> VerdictCodes]
    /\ signals \in [Requests -> SUBSET Signals]
    /\ result \in [Requests -> Codes \union {"none"}]

\* A request is sent no signal before it begins, and what it is told fits the ones it was
\* sent.
RequestsTold ==
    \A r \in Requests : /\ pc[r] = "idle" => signals[r] = {}
                        /\ pc[r] = "done" => Fits(signals[r], result[r])

RInv == RequestsTyped /\ RequestsTold

\* What a step that sends no signal leaves of this.
Settled ==
    /\ result' \in [Requests -> Codes \union {"none"}]
    /\ verdict' \in [Requests -> VerdictCodes]
    /\ discAuth' \in [Endpoints -> BOOLEAN]
    /\ \A q \in Requests : /\ pc'[q] = "idle" => signals[q] = {}
                           /\ pc'[q] = "done" => Fits(signals[q], result'[q])

\* The codes by name.
LEMMA KnownCodes ==
    /\ {"UnknownEngineId", "NotInTimeWindow", "ClientStopped", "localError", "exception",
        "sendError", "Timeout", "AuthFailed", "DecryptionFailed"}
         \subseteq Codes \ {"reply", "operation_aborted"}
    /\ {"reply", "operation_aborted"} \subseteq Codes
    /\ \A type \in Reports : ReportError(type) \in Codes \ {"reply", "operation_aborted"}
    /\ \A type \in Reports : ReportError(type) \notin {"DecryptionFailed", "Timeout", "sendError"}
<1>1. \A type \in Reports : ReportError(type) \notin
        {"DecryptionFailed", "Timeout", "sendError", "reply", "operation_aborted"}
  BY Zenon DEF ReportError, Reports
<1>2. "unknownEngineIDs" \in Reports /\ ReportError("unknownEngineIDs") = "UnknownEngineId"
  BY Zenon DEF ReportError, Reports
<1>3. \A type \in Reports : ReportError(type) \in Codes
  BY Zenon DEF Codes
<1>4. {"NotInTimeWindow", "ClientStopped", "localError", "exception", "sendError", "Timeout",
       "AuthFailed", "DecryptionFailed", "reply", "operation_aborted"} \subseteq Codes
  BY Zenon DEF Codes, DropReasons
<1> QED BY Zenon, <1>1, <1>2, <1>3, <1>4

\* An abortion and a stopped Client are Fatal to a retry policy.
LEMMA EndsAreFatal == ClassOf("operation_aborted") = "Fatal" /\ ClassOf("ClientStopped") = "Fatal"
<1>1. Classify("system", "operation_canceled") = "Fatal"
  BY Zenon DEF Classify, ClassifySystem
<1>2. Classify("snmpio", "ClientStopped") = "Fatal"
  BY Zenon DEF Classify, ClassifyErrc
<1> QED BY Zenon, <1>1, <1>2 DEF ClassOf

\* What transact() ends with is a code, and one its caller may be told unless there is a
\* reply to look at, which there is not after a terminal signal.
LEMMA VerdictFits ==
    ASSUME ExchangesSound, NEW o \in Owners, exch[o] # None, NEW v \in Verdicts(o)
    PROVE  /\ v \in Codes
           /\ o \notin Requests => v # "operation_aborted"
           /\ o \in Requests /\ v # "reply" => Fits(signals[o], v)
           /\ o \in Requests /\ v = "reply" => "terminal" \notin signals[o]
<1>1. exch[o].drop \in DropReasons \union {"none"}
  BY Zenon DEF ExchangesSound, Exchanges
<1>2. v \in {"operation_aborted", "reply", "ClientStopped", "sendError", "Timeout"} \union DropReasons
  BY Zenon, <1>1 DEF Verdicts
<1>3. v \in Codes
  BY Zenon, <1>2, KnownCodes DEF DropReasons
<1>4. o \notin Requests => v # "operation_aborted"
  BY Zenon, <1>1 DEF Verdicts, DropReasons
<1>5. ASSUME o \in Requests
      PROVE  /\ v = "reply" => "terminal" \notin signals[o]
             /\ v # "reply" => v = "operation_aborted" \/ signals[o] = {}
  BY Zenon, <1>1, <1>5 DEF Verdicts, DropReasons
<1>6. o \in Requests /\ v # "reply" => Fits(signals[o], v)
  BY Zenon, <1>5, EndsAreFatal DEF Fits
<1>7. o \in Requests /\ v = "reply" => "terminal" \notin signals[o]
  BY Zenon, <1>5
<1> QED BY Zenon, <1>3, <1>4, <1>6, <1>7

LEMMA CompleteSettles ==
    ASSUME PlacesAgree, RInv, NEW r \in Requests, NEW code \in Codes, Fits(signals[r], code),
           Complete(r, code), UNCHANGED <<verdict, discAuth>>
    PROVE  Settled
<1>1. /\ pc' = [pc EXCEPT ![r] = "done"] /\ result' = [result EXCEPT ![r] = code]
      /\ verdict' = verdict /\ discAuth' = discAuth
  BY Zenon DEF Complete
<1> QED BY Zenon, <1>1 DEF PlacesAgree, RInv, RequestsTyped, RequestsTold, Settled

LEMMA SendSettles ==
    ASSUME PlacesAgree, RInv, NEW r \in Requests, NEW g, "terminal" \notin signals[r], Send(r, g)
    PROVE  Settled
<1>1. UNCHANGED <<verdict, discAuth>>
  BY Zenon DEF Send, discovery
<1>2. CASE pc' = [pc EXCEPT ![r] = "exchange"] /\ UNCHANGED result
  BY Zenon, <1>1, <1>2 DEF PlacesAgree, RInv, RequestsTyped, RequestsTold, Settled
<1>3. ASSUME NEW code \in {"localError", "ClientStopped"}, Complete(r, code) PROVE Settled
  <2>1. Fits(signals[r], code) /\ code \in Codes
    BY Zenon, KnownCodes DEF Fits
  <2> QED BY Zenon, <1>1, <1>3, <2>1, CompleteSettles
<1> QED BY ZenonT(40), <1>2, <1>3 DEF Send

LEMMA ParkSettles ==
    ASSUME PlacesAgree, RInv, NEW r \in Requests, Park(r)
    PROVE  Settled
<1>1. pc' = [pc EXCEPT ![r] = "parked"] \/ pc' = [pc EXCEPT ![r] = "adrift"]
  BY ZenonT(40) DEF Park
<1>2. verdict' \in [Requests -> VerdictCodes]
  <2>1. {"unfinished", "localError", "ClientStopped"} \subseteq VerdictCodes
    BY Zenon, KnownCodes DEF VerdictCodes
  <2>2. \E code \in {"unfinished", "localError", "ClientStopped"} :
           verdict' = [verdict EXCEPT ![r] = code]
    BY ZenonT(40) DEF Park
  <2> QED BY Zenon, <2>1, <2>2 DEF RInv, RequestsTyped
<1>3. result' = result
  BY ZenonT(40) DEF Park
<1>4. discAuth' \in [Endpoints -> BOOLEAN]
  BY ZenonT(40) DEF Park, discovery, RInv, RequestsTyped
<1> QED BY Zenon, <1>1, <1>2, <1>3, <1>4 DEF PlacesAgree, RInv, RequestsTyped, RequestsTold,
                                                 Settled

LEMMA FinishSettles ==
    ASSUME PlacesAgree, RInv, NEW e \in Endpoints, NEW code \in VerdictCodes, Finish(e, code),
           UNCHANGED <<result, discAuth>>
    PROVE  Settled
<1>1. verdict' \in [Requests -> VerdictCodes]
  BY Zenon DEF Finish, RInv, RequestsTyped
<1>2. \A q \in Requests : pc'[q] \in {pc[q], "resumed"}
  BY Zenon DEF Finish
<1> QED BY Zenon, <1>1, <1>2 DEF RInv, RequestsTyped, RequestsTold, Settled

LEMMA EndExchangeSettles ==
    ASSUME Inv, RInv, NEW r \in Requests, EndExchange(r)
    PROVE  Settled /\ attempt' \in [Requests -> {0, 1}]
<1> DEFINE m == exch[r].reply
<1>1. r \in Owners /\ exch[r] # None /\ PlacesAgree /\ ExchangesSound
  BY Zenon DEF EndExchange, Inv, PlacesAgree, Owners
<1>2. PICK v \in Verdicts(r) :
         \/ /\ v = "reply" /\ MayRetry(r) /\ attempt' = [attempt EXCEPT ![r] = @ + 1]
            /\ Park(r) \/ \E g : Send(r, g)
         \/ /\ UNCHANGED <<discovery, attempt, verdict>>
            /\ \/ v # "reply" /\ Complete(r, v)
               \/ v = "reply" /\ Complete(r, "reply")
               \/ v = "reply" /\ m.type # "Response" /\ Complete(r, ReportError(m.type))
  BY Zenon DEF EndExchange, Retry, Ask
<1>3. /\ v \in Codes
      /\ v # "reply" => Fits(signals[r], v)
      /\ v = "reply" => "terminal" \notin signals[r]
  BY Zenon, <1>1, VerdictFits
<1>4. CASE /\ v = "reply" /\ MayRetry(r) /\ attempt' = [attempt EXCEPT ![r] = @ + 1]
           /\ Park(r) \/ \E g : Send(r, g)
  <2>1. attempt' \in [Requests -> {0, 1}]
    BY <1>4 DEF MayRetry, RInv, RequestsTyped
  <2> QED BY Zenon, <1>1, <1>3, <1>4, <2>1, ParkSettles, SendSettles
<1>5. ASSUME NEW code, UNCHANGED <<discovery, attempt, verdict>>, Complete(r, code),
             code \in Codes, Fits(signals[r], code)
      PROVE  Settled /\ attempt' \in [Requests -> {0, 1}]
  BY Zenon, <1>1, <1>5, CompleteSettles DEF discovery, RInv, RequestsTyped
<1>6. CASE UNCHANGED <<discovery, attempt, verdict>> /\ v # "reply" /\ Complete(r, v)
  BY Zenon, <1>3, <1>5, <1>6
<1>7. CASE UNCHANGED <<discovery, attempt, verdict>> /\ v = "reply" /\ Complete(r, "reply")
  <2>1. Fits(signals[r], "reply")
    BY Zenon, <1>3, <1>7 DEF Fits
  <2> QED BY Zenon, <1>3, <1>5, <1>7, <2>1
<1>8. CASE /\ UNCHANGED <<discovery, attempt, verdict>>
           /\ v = "reply" /\ m.type # "Response" /\ Complete(r, ReportError(m.type))
  <2>1. m \in Replies
    BY Zenon, <1>1, <1>8, ReplyIsThere, VouchedIsSigned
  <2>2. m.type \in Reports
    BY ZenonT(40), <1>8, <2>1, DiscoveryAssumption DEF Replies
  <2>3. ReportError(m.type) \in Codes /\ Fits(signals[r], ReportError(m.type))
    BY Zenon, <1>3, <1>8, <2>2, KnownCodes DEF Fits
  <2> QED BY Zenon, <1>5, <1>8, <2>3
<1> QED BY Zenon, <1>2, <1>4, <1>6, <1>7, <1>8

LEMMA ResumeSettles ==
    ASSUME Inv, RInv, NEW r \in Requests, Resume(r)
    PROVE  Settled
<1>1. PlacesAgree
  BY Zenon DEF Inv
<1>2. verdict[r] \in VerdictCodes
  BY Zenon DEF RInv, RequestsTyped
<1>3. ASSUME NEW code, Complete(r, code), UNCHANGED <<discovery, verdict>>,
             code \in Codes, Fits(signals[r], code)
      PROVE  Settled
  BY Zenon, <1>1, <1>3, CompleteSettles DEF discovery
<1>4. CASE Complete(r, "exception") /\ UNCHANGED <<discovery, verdict>>
  <2>1. "exception" \in Codes /\ Fits(signals[r], "exception")
    BY Zenon, KnownCodes DEF Fits
  <2> QED BY Zenon, <1>3, <1>4, <2>1
<1>5. CASE Complete(r, "ClientStopped") /\ UNCHANGED <<discovery, verdict>>
  <2>1. "ClientStopped" \in Codes /\ Fits(signals[r], "ClientStopped")
    BY Zenon, KnownCodes, EndsAreFatal DEF Fits
  <2> QED BY Zenon, <1>3, <1>5, <2>1
<1>6. CASE Complete(r, "operation_aborted") /\ UNCHANGED <<discovery, verdict>>
  <2>1. "operation_aborted" \in Codes /\ Fits(signals[r], "operation_aborted")
    BY Zenon, KnownCodes, EndsAreFatal DEF Fits
  <2> QED BY Zenon, <1>3, <1>6, <2>1
<1>7. CASE /\ signals[r] = {} /\ verdict[r] \notin {"ok", "unfinished"}
           /\ Complete(r, verdict[r]) /\ UNCHANGED <<discovery, verdict>>
  <2>1. verdict[r] \in Codes /\ Fits(signals[r], verdict[r])
    BY Zenon, <1>2, <1>7 DEF VerdictCodes, Fits
  <2> QED BY Zenon, <1>3, <1>7, <2>1
<1>8. CASE /\ signals[r] = {} /\ Complete(r, "UnknownEngineId") /\ UNCHANGED <<discovery, verdict>>
  <2>1. "UnknownEngineId" \in Codes /\ Fits(signals[r], "UnknownEngineId")
    BY Zenon, <1>8, KnownCodes DEF Fits
  <2> QED BY Zenon, <1>3, <1>8, <2>1
<1>9. CASE signals[r] = {} /\ \E g : Send(r, g)
  BY Zenon, <1>1, <1>9, SendSettles
<1> QED BY Zenon, <1>4, <1>5, <1>6, <1>7, <1>8, <1>9 DEF Resume

LEMMA DiscoverySettles ==
    ASSUME Inv, RInv, NEW e \in Endpoints, EndIdentify(e) \/ EndSync(e) \/ DiscoveryThrows(e)
    PROVE  Settled
<1>1. PlacesAgree /\ ExchangesSound /\ e \in Owners /\ e \notin Requests
  BY Zenon, DiscoveryAssumption DEF Inv, Owners
<1>2. UNCHANGED <<result, discAuth>>
  BY ZenonT(40) DEF EndIdentify, EndSync, DiscoveryThrows
<1>3. ASSUME NEW code \in VerdictCodes, Finish(e, code) PROVE Settled
  BY Zenon, <1>1, <1>2, <1>3, FinishSettles
<1>4. {"UnknownEngineId", "NotInTimeWindow", "ClientStopped", "localError", "exception", "ok"}
        \subseteq VerdictCodes
  BY Zenon, KnownCodes DEF VerdictCodes
<1>5. ASSUME exch[e] # None, NEW v \in Verdicts(e), v # "reply" PROVE v \in VerdictCodes
  BY Zenon, <1>1, <1>5, VerdictFits DEF VerdictCodes
<1>6. CASE EndIdentify(e)
  <2>1. exch[e] # None
    BY ZenonT(40), <1>1, <1>6 DEF EndIdentify, PlacesAgree
  <2>2. CASE UNCHANGED <<pc, verdict>>
    BY Zenon, <1>2, <2>2 DEF RInv, RequestsTyped, RequestsTold, Settled
  <2>3. \/ \E v \in Verdicts(e) : v # "reply" /\ Finish(e, v)
        \/ \E code \in {"UnknownEngineId", "ClientStopped", "localError", "exception", "ok"} :
              Finish(e, code)
        \/ UNCHANGED <<pc, verdict>>
    BY ZenonT(40), <1>6 DEF EndIdentify
  <2> QED BY Zenon, <1>3, <1>4, <1>5, <2>1, <2>2, <2>3
<1>7. CASE EndSync(e)
  <2>1. exch[e] # None /\ exch[e].auth
    BY Zenon, <1>1, <1>7 DEF EndSync, PlacesAgree
  <2>2. \/ \E v \in Verdicts(e) : v # "reply" /\ Finish(e, v)
        \/ /\ "reply" \in Verdicts(e) /\ ~Vouched(e)
           /\ Finish(e, ReportError(exch[e].reply.type))
        \/ \E code \in {"NotInTimeWindow", "ok"} : Finish(e, code)
    BY ZenonT(40), <1>7 DEF EndSync
  <2>3. ASSUME "reply" \in Verdicts(e), ~Vouched(e)
        PROVE  ReportError(exch[e].reply.type) \in VerdictCodes
    <3>1. exch[e].answered
      BY Zenon, <1>1, <2>1, <2>3, ReplyIsThere
    <3>2. exch[e].reply.type \in Reports
      BY Zenon, <1>1, <2>1, <2>3, <3>1 DEF ExchangesSound, Sound, Vouched
    <3> QED BY Zenon, <3>2, KnownCodes DEF VerdictCodes
  <2> QED BY Zenon, <1>3, <1>4, <1>5, <2>1, <2>2, <2>3
<1>8. CASE DiscoveryThrows(e)
  BY Zenon, <1>3, <1>4, <1>8 DEF DiscoveryThrows
<1> QED BY Zenon, <1>6, <1>7, <1>8

LEMMA StepTells == Inv /\ RInv /\ [Next]_vars => RInv'
<1> SUFFICES ASSUME Inv, RInv, [Next]_vars PROVE RInv'
  BY Zenon
<1>1. PlacesAgree /\ RequestsTyped /\ RequestsTold
  BY Zenon DEF Inv, RInv
<1>2. stopping \in BOOLEAN /\ cleanup \in {"none", "queued", "done"}
  BY Zenon, <1>1 DEF RequestsTyped
<1>3. ASSUME UNCHANGED flag \/ SetFlag
      PROVE  stopping' \in BOOLEAN /\ cleanup' \in {"none", "queued", "done"}
  BY Zenon, <1>2, <1>3 DEF flag, SetFlag
<1>4. ASSUME Settled, UNCHANGED flag \/ SetFlag, UNCHANGED signals,
             attempt' \in [Requests -> {0, 1}]
      PROVE  RInv'
  <2>1. \A q \in Requests : signals'[q] = signals[q]
    BY Zenon, <1>4
  <2>2. stopping' \in BOOLEAN /\ cleanup' \in {"none", "queued", "done"}
    BY Zenon, <1>3, <1>4
  <2> QED BY Zenon, <1>1, <1>4, <2>1, <2>2 DEF Settled, RInv, RequestsTyped, RequestsTold, Fits
<1>5. ASSUME Settled, UNCHANGED flag \/ SetFlag, UNCHANGED <<signals, attempt>> PROVE RInv'
  BY Zenon, <1>1, <1>4, <1>5 DEF RequestsTyped
<1>6. ASSUME NEW r \in Requests, Refuse(r) PROVE RInv'
  <2>1. signals[r] = {} /\ "ClientStopped" \in Codes
    BY Zenon, <1>1, <1>6, KnownCodes DEF Refuse, RequestsTold
  <2>2. Settled
    BY Zenon, <1>1, <1>6, <2>1, CompleteSettles DEF Refuse, Fits, discovery
  <2> QED BY Zenon, <1>5, <1>6, <2>2 DEF Refuse
<1>7. ASSUME NEW r \in Requests, Begin(r) PROVE RInv'
  <2>1. "terminal" \notin signals[r]
    BY Zenon, <1>1, <1>7 DEF Begin, RequestsTold
  <2>2. (\E g : Send(r, g)) \/ Park(r)
    BY Zenon, <1>7 DEF Begin, Ask
  <2>3. Settled
    BY Zenon, <1>1, <2>1, <2>2, SendSettles, ParkSettles
  <2> QED BY Zenon, <1>5, <1>7, <2>3 DEF Begin, Ask, LookAgain
<1>8. ASSUME NEW r \in Requests, Resume(r) PROVE RInv'
  BY ZenonT(40), <1>5, <1>8, ResumeSettles DEF Resume, LookAgain
<1>9. ASSUME NEW r \in Requests, EndExchange(r) PROVE RInv'
  BY ZenonT(40), <1>4, <1>9, EndExchangeSettles DEF EndExchange, Retry, Ask, LookAgain
<1>10. ASSUME NEW e \in Endpoints, EndIdentify(e) \/ EndSync(e) \/ DiscoveryThrows(e) PROVE RInv'
  <2>1. (UNCHANGED flag \/ SetFlag) /\ UNCHANGED <<signals, attempt>>
    BY ZenonT(40), <1>10 DEF EndIdentify, EndSync, DiscoveryThrows
  <2> QED BY Zenon, <1>5, <1>10, <2>1, DiscoverySettles
<1>11. ASSUME NEW r \in Requests, NEW type \in Signals, Signal(r, type) PROVE RInv'
  <2>1. signals' = [signals EXCEPT ![r] = @ \union {type}]
    BY Zenon, <1>11 DEF Signal
  <2>2. signals' \in [Requests -> SUBSET Signals]
    BY Zenon, <1>1, <2>1 DEF RequestsTyped
  <2>3. /\ pc[r] \notin {"idle", "done"} /\ pc'[r] \notin {"idle", "done"}
        /\ \A q \in Requests : q # r => pc'[q] = pc[q] /\ signals'[q] = signals[q]
    BY Zenon, <1>1, <1>11, <2>1 DEF Signal, PlacesAgree, RequestsTyped
  <2>4. UNCHANGED <<stopping, cleanup, discAuth, attempt, verdict, result>>
    BY Zenon, <1>11 DEF Signal, discovery, flag
  <2>5. RequestsTyped'
    BY Zenon, <1>1, <2>2, <2>4 DEF RequestsTyped
  <2>6. RequestsTold'
    BY ZenonT(40), <1>1, <2>3, <2>4 DEF RequestsTold, Fits
  <2> QED BY Zenon, <2>5, <2>6 DEF RInv
<1>12. ASSUME UNCHANGED <<discAuth, attempt, verdict, signals, result>>,
              stopping' \in BOOLEAN, cleanup' \in {"none", "queued", "done"},
              \A q \in Requests : pc'[q] \in {pc[q], "resumed"}
       PROVE  RInv'
  BY ZenonT(40), <1>1, <1>12 DEF RInv, RequestsTyped, RequestsTold, Fits
<1>13. ASSUME NEW o \in Owners, NEW m, NEW inWindow, Deliver(o, m, inWindow) PROVE RInv'
  BY Zenon, <1>12, <1>2, <1>13 DEF Deliver, discovery, request, flag
<1>14. CASE Stop
  BY Zenon, <1>12, <1>14 DEF Stop, SetFlag, discovery, request
<1>15. CASE FinishStopping
  BY Zenon, <1>12, <1>2, <1>15 DEF FinishStopping, discovery
<1>16. ASSUME NEW g, NEW p, ClockMoves(g, p) PROVE RInv'
  BY Zenon, <1>12, <1>2, <1>16 DEF ClockMoves, discovery, request, flag
<1>17. ASSUME NEW g, NEW e, Move(e, g) PROVE RInv'
  BY Zenon, <1>12, <1>2, <1>17 DEF Move, discovery, request, flag
<1>18. CASE UNCHANGED vars
  BY Zenon, <1>12, <1>2, <1>18 DEF vars, discovery, request, flag
<1> QED
  BY Zenon, <1>6, <1>7, <1>8, <1>9, <1>10, <1>11, <1>13, <1>14, <1>15, <1>16, <1>17, <1>18 DEF Next

LEMMA AlwaysTold == Spec => [](Inv /\ RInv)
<1>1. Init => RInv
  <2> SUFFICES ASSUME Init PROVE RInv
    BY Zenon
  <2>1. stopping \in BOOLEAN /\ cleanup \in {"none", "queued", "done"}
    BY ZenonT(40) DEF Init
  <2>2. "unfinished" \in VerdictCodes
    BY Zenon DEF VerdictCodes
  <2>3. /\ discAuth \in [Endpoints -> BOOLEAN] /\ attempt \in [Requests -> {0, 1}]
        /\ signals \in [Requests -> SUBSET Signals] /\ result \in [Requests -> Codes \union {"none"}]
    BY Zenon DEF Init
  <2>4. verdict \in [Requests -> VerdictCodes]
    BY Zenon, <2>2 DEF Init
  <2>5. RequestsTold
    BY Zenon DEF Init, RequestsTold
  <2> QED BY Zenon, <2>1, <2>3, <2>4, <2>5 DEF RInv, RequestsTyped
<1> QED BY <1>1, AlwaysInv, StepTells, PTL DEF Spec

\* Every variable keeps its type: in particular doRequestV3's loop turns at most twice, and
\* no wait for a discovery ends with a reply or an abortion of its own.
THEOREM TypesAreKept == Spec => []TypeOK
<1>1. Inv /\ RInv => TypeOK
  BY Zenon DEF Inv, ExchangesSound, PlacesAgree, Places, CacheSound, Trustworthy, Cached,
         RInv, RequestsTyped, VerdictCodes, TypeOK
<1> QED BY <1>1, AlwaysTold, PTL

\* A request that was sent a signal is told of it, however the signal, the reply, Stopping
\* and the discovery it was queued behind interleave.
THEOREM CancelledAreTold == Spec => []CancelledIsTold
<1>1. Inv /\ RInv => CancelledIsTold
  BY Zenon DEF RInv, RequestsTold, Fits, CancelledIsTold
<1> QED BY <1>1, AlwaysTold, PTL
=============================================================================
