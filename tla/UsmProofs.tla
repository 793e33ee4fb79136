----------------------------- MODULE UsmProofs ------------------------------
(***************************************************************************)
(* For any users, Engines and passwords: what is found in m_keys is what   *)
(* would have been derived.                                                *)
(***************************************************************************)
EXTENDS Usm, TLAPS

\* A localized key and an extended one, by what a tuple names.
AuthKey(engineId, auth, password) == Localized(auth, password, engineId)

PrivKey(engineId, auth, password, priv) ==
    LocalizedPrivKey([auth |-> auth, privPassword |-> password, priv |-> priv], engineId)

\* A tuple of PrivProtocol::None is an authentication key's, any other a privacy key's:
\* the two kinds share the map and never a tuple.
Exact(cache) ==
    \A engineId, auth, password, priv :
       Tuple(engineId, auth, password, priv) \in DOMAIN cache =>
         Fine(cache[Tuple(engineId, auth, password, priv)]) =
            IF priv = "None" THEN AuthKey(engineId, auth, password)
            ELSE PrivKey(engineId, auth, password, priv)

\* A derivation ends with a key or with an error.
LEMMA DerivedIsFine ==
    ASSUME NEW auth, NEW password, NEW engineId
    PROVE  LET d == Localized(auth, password, engineId) IN d.error = "none" => Fine(d.key) = d
<1> DEFINE master == PasswordToKey(auth, password)
<1>1. master.error = "none" => Fine(master.key) = master
  BY DEF PasswordToKey, Fine, Failed
<1>2. LocalizeKey(auth, master.key, engineId).error = "none" =>
         Fine(LocalizeKey(auth, master.key, engineId).key) = LocalizeKey(auth, master.key, engineId)
  BY DEF LocalizeKey, Fine, Failed
<1> QED BY <1>1, <1>2 DEF Localized

LEMMA ExtendedIsFine ==
    ASSUME NEW user, NEW engineId
    PROVE  LET d == LocalizedPrivKey(user, engineId) IN d.error = "none" => Fine(d.key) = d
<1> DEFINE short == Localized(user.auth, user.privPassword, engineId)
<1>1. short.error = "none" => Fine(short.key) = short
  BY DerivedIsFine
<1>2. \A x : Fine(x).key = x
  BY DEF Fine
<1>3. Failed("UnsupportedPrivProtocol").error # "none"
  BY DEF Failed
<1> HIDE DEF short
<1>4. \/ LocalizedPrivKey(user, engineId) = Failed("UnsupportedPrivProtocol")
      \/ LocalizedPrivKey(user, engineId) = short
      \/ \E x : LocalizedPrivKey(user, engineId) = Fine(x)
  BY DEF LocalizedPrivKey, short
<1> QED BY <1>1, <1>2, <1>3, <1>4

\* A privacy key depends on nothing of the user but what its tuple names.
LEMMA TupleNamesAll ==
    ASSUME NEW user, NEW engineId
    PROVE  LocalizedPrivKey(user, engineId) =
              PrivKey(engineId, user.auth, user.privPassword, user.priv)
BY DEF PrivKey, LocalizedPrivKey

\* Filing what was derived keeps the cache exact.
LEMMA FilingIsExact ==
    ASSUME NEW cache, Exact(cache), NEW engineId, NEW auth, NEW password, NEW priv, NEW derived,
           derived = IF priv = "None" THEN AuthKey(engineId, auth, password)
                     ELSE PrivKey(engineId, auth, password, priv),
           derived.error = "none" => Fine(derived.key) = derived
    PROVE  Exact(Cached(cache, Tuple(engineId, auth, password, priv), derived).cache)
<1> DEFINE tuple == Tuple(engineId, auth, password, priv)
           new == [t \in DOMAIN cache \union {tuple} |->
                     IF t = tuple THEN derived.key ELSE cache[t]]
<1>1. CASE tuple \in DOMAIN cache \/ derived.error # "none"
  BY <1>1 DEF Cached
<1>2. CASE tuple \notin DOMAIN cache /\ derived.error = "none"
  <2>1. Cached(cache, tuple, derived).cache = new
    BY <1>2 DEF Cached
  <2>2. ASSUME NEW g, NEW a, NEW p, NEW v, Tuple(g, a, p, v) \in DOMAIN new
        PROVE  Fine(new[Tuple(g, a, p, v)]) =
                 IF v = "None" THEN AuthKey(g, a, p) ELSE PrivKey(g, a, p, v)
    <3>1. CASE Tuple(g, a, p, v) = tuple
      <4>1. g = engineId /\ a = auth /\ p = password /\ v = priv
        BY <3>1 DEF Tuple
      <4>2. new[tuple] = derived.key
        OBVIOUS
      <4> QED BY <1>2, <3>1, <4>1, <4>2
    <3>2. CASE Tuple(g, a, p, v) # tuple
      <4>1. Tuple(g, a, p, v) \in DOMAIN cache /\ new[Tuple(g, a, p, v)] = cache[Tuple(g, a, p, v)]
        BY <2>2, <3>2
      <4> QED BY <4>1 DEF Exact
    <3> QED BY <3>1, <3>2
  <2> HIDE DEF new
  <2> QED BY <2>1, <2>2 DEF Exact
<1> QED BY <1>1, <1>2

\* Both lookups keep it so; a privacy key is not filed under PrivProtocol::None.
LEMMA LookupsAreExact ==
    ASSUME NEW cache, Exact(cache), NEW user, NEW engineId
    PROVE  /\ Exact(LocalizedKey(cache, user, engineId).cache)
           /\ user.priv # "None" => Exact(LocalizedPrivacyKey(cache, user, engineId).cache)
<1>1. Exact(LocalizedKey(cache, user, engineId).cache)
  <2> DEFINE derived == LocalizedAuthKey(user, engineId)
  <2>1. derived = AuthKey(engineId, user.auth, user.authPassword)
    BY DEF LocalizedAuthKey, AuthKey
  <2>2. derived.error = "none" => Fine(derived.key) = derived
    BY DerivedIsFine DEF LocalizedAuthKey
  <2> HIDE DEF derived
  <2>3. Exact(Cached(cache, Tuple(engineId, user.auth, user.authPassword, "None"), derived).cache)
    BY <2>1, <2>2, FilingIsExact
  <2> QED BY <2>3 DEF LocalizedKey, derived
<1>2. ASSUME user.priv # "None" PROVE Exact(LocalizedPrivacyKey(cache, user, engineId).cache)
  <2> DEFINE derived == LocalizedPrivKey(user, engineId)
  <2>1. derived = PrivKey(engineId, user.auth, user.privPassword, user.priv)
    BY TupleNamesAll
  <2>2. derived.error = "none" => Fine(derived.key) = derived
    BY ExtendedIsFine
  <2> HIDE DEF derived
  <2>3. Exact(Cached(cache, Tuple(engineId, user.auth, user.privPassword, user.priv), derived).cache)
    BY <1>2, <2>1, <2>2, FilingIsExact
  <2> QED BY <2>3 DEF LocalizedPrivacyKey, derived
<1> QED BY <1>1, <1>2

\* Every step keeps the cache exact.
LEMMA ExactKept == Exact(keys) /\ [Next]_vars => Exact(keys)'
<1> SUFFICES ASSUME Exact(keys), [Next]_vars PROVE Exact(keys')
  BY DEF Exact, AuthKey, PrivKey
<1>1. ASSUME NEW user \in Users, NEW engineId \in Engines, NEW stamp \in Stamps, NEW n \in Sizes,
             Request(user, engineId, stamp, n)
      PROVE  Exact(keys')
  <2> DEFINE auth == LocalizedKey(keys, user, engineId)
             priv == LocalizedPrivacyKey(auth.cache, user, engineId)
  <2>1. Exact(auth.cache)
    BY LookupsAreExact
  <2>2. user.priv # "None" => Exact(priv.cache)
    BY <2>1, LookupsAreExact
  <2>3. Admitted(user)
    BY <1>1 DEF Request
  <2>4. keys' = auth.cache \/ (IsEncrypted(user.level) /\ keys' = priv.cache)
    BY <1>1 DEF Request
  <2> HIDE DEF auth, priv
  <2> QED BY <2>1, <2>2, <2>3, <2>4 DEF Admitted
<1>2. ASSUME NEW user \in Users, NEW engineId \in Engines, NEW stamp \in Stamps,
             SealElsewhere(user, engineId, stamp)
      PROVE  Exact(keys')
  BY <1>2 DEF SealElsewhere
<1>3. ASSUME NEW stamp \in Stamps, NEW n \in Sizes, Reply(stamp, n) PROVE Exact(keys')
  BY <1>3 DEF Reply
<1>4. CASE UNCHANGED vars
  BY <1>4 DEF vars
<1> QED BY <1>1, <1>2, <1>3, <1>4 DEF Next

\* What a lookup finds in an exact cache is what it would have derived.
LEMMA FoundIsDerived ==
    ASSUME NEW cache, Exact(cache), NEW user, user.priv # "None", NEW engineId,
           LocalizedPrivacyKey(cache, user, engineId).error = "none"
    PROVE  /\ LocalizedPrivKey(user, engineId).error = "none"
           /\ LocalizedPrivacyKey(cache, user, engineId).key = LocalizedPrivKey(user, engineId).key
<1> DEFINE tuple == Tuple(engineId, user.auth, user.privPassword, user.priv)
<1>1. CASE tuple \in DOMAIN cache
  <2>1. LocalizedPrivacyKey(cache, user, engineId).key = cache[tuple]
    BY <1>1 DEF LocalizedPrivacyKey, Cached
  <2>2. Fine(cache[tuple]) = LocalizedPrivKey(user, engineId)
    BY <1>1, TupleNamesAll DEF Exact
  <2> HIDE DEF tuple
  <2>3. Fine(cache[tuple]).error = "none" /\ Fine(cache[tuple]).key = cache[tuple]
    BY DEF Fine
  <2> QED BY <2>1, <2>2, <2>3
<1>2. CASE tuple \notin DOMAIN cache
  BY <1>2 DEF LocalizedPrivacyKey, Cached
<1> QED BY <1>1, <1>2

\* The keys localizedKey() and localizedPrivacyKey() hand to a request that
\* doRequestV3() admits are the ones it would have derived, whoever filed them.
THEOREM CacheStaysExact == Spec => []CacheIsExact
<1>1. Init => Exact(keys)
  BY DEF Init, Exact
<1>2. Exact(keys) => CacheIsExact
  <2> SUFFICES ASSUME Exact(keys), NEW user \in Users, Admitted(user), NEW engineId \in Engines
               PROVE  LET authTuple == Tuple(engineId, user.auth, user.authPassword, "None")
                          privTuple == Tuple(engineId, user.auth, user.privPassword, user.priv)
                      IN  /\ authTuple \in DOMAIN keys =>
                               Fine(keys[authTuple]) = LocalizedAuthKey(user, engineId)
                          /\ IsEncrypted(user.level) /\ privTuple \in DOMAIN keys =>
                               Fine(keys[privTuple]) = LocalizedPrivKey(user, engineId)
    BY DEF CacheIsExact
  <2>1. Tuple(engineId, user.auth, user.authPassword, "None") \in DOMAIN keys =>
          Fine(keys[Tuple(engineId, user.auth, user.authPassword, "None")]) =
             LocalizedAuthKey(user, engineId)
    BY DEF Exact, AuthKey, LocalizedAuthKey
  <2>2. IsEncrypted(user.level)
          /\ Tuple(engineId, user.auth, user.privPassword, user.priv) \in DOMAIN keys =>
          Fine(keys[Tuple(engineId, user.auth, user.privPassword, user.priv)]) =
             LocalizedPrivKey(user, engineId)
    BY TupleNamesAll DEF Exact, Admitted
  <2> QED BY <2>1, <2>2
<1> QED BY <1>1, <1>2, ExactKept, PTL DEF Spec

-----------------------------------------------------------------------------
(* Salts.                                                                  *)

Period == Word * Word

\* What a seal shows of the salt it was made with.
Carries(x, salt) ==
    \/ x.cipher = "DES-CBC" /\ x.iv.of[2] = salt % Word
    \/ x.cipher # "DES-CBC" /\ x.iv.of[3] = salt \div Word /\ x.iv.of[4] = salt % Word

\* The seal that is watched is age salts old, the last one is new.
SaltInv ==
    /\ counter \in 0..(Period - 1)
    /\ age \in 0..Period
    /\ watched = None => age = 0
    /\ watched # None /\ age < Period =>
         \E s \in 0..(Period - 1) :
            Carries(watched, s) /\ (counter = s + 1 + age \/ counter = s + 1 + age - Period)
    /\ last # None =>
         \E l \in 0..(Period - 1) :
            Carries(last, l) /\ (counter = l + 1 \/ counter = l + 1 - Period)

LEMMA PeriodIsLong == Period \in Nat /\ Period >= Word /\ Period > 0
<1>1. Word \in Nat /\ Word >= 2
  BY UsmAssumption
<1>2. Word * Word \in Nat /\ Word * Word >= Word
  BY <1>1
<1> QED BY <1>1, <1>2 DEF Period

\* Salts that agree in a half differ by a multiple of what a half holds.
LEMMA HalvesAgree ==
    ASSUME NEW s \in Nat, NEW l \in Nat, s % Word = l % Word
    PROVE  /\ \E k \in Int : l - s = Word * k
           /\ s \div Word = l \div Word => s = l
<1> DEFINE a == s \div Word
           b == l \div Word
           c == s % Word
<1>1. Word \in Nat /\ Word > 0
  BY UsmAssumption
<1>2. a \in Int /\ b \in Int /\ c \in Int /\ s = Word * a + c /\ l = Word * b + c
  BY <1>1
<1> HIDE DEF a, b, c
<1>3. l - s = Word * (b - a) /\ b - a \in Int
  BY <1>1, <1>2
<1>4. a = b => s = l
  BY <1>2
<1> QED BY <1>3, <1>4 DEF a, b

\* A positive multiple is no smaller than what it is a multiple of.
LEMMA MultipleIsLarge ==
    ASSUME NEW n \in Nat, n > 0, NEW k \in Int, n = Word * k
    PROVE  n >= Word
<1>1. Word \in Nat /\ Word > 0
  BY UsmAssumption
<1>2. k >= 1
  <2>1. ASSUME k <= 0 PROVE FALSE
    <3>1. Word * k <= 0
      BY <1>1, <2>1
    <3> QED BY <3>1
  <2> QED BY <2>1
<1> QED BY <1>1, <1>2

\* privEncrypt() puts its salt into the IV, whole or in half.
LEMMA SealCarriesSalt ==
    ASSUME NEW priv \in {"Des", "Aes128", "Aes192", "Aes192C", "Aes256", "Aes256C"},
           NEW key, NEW stamp, NEW n, NEW salt
    PROVE  Carries(PrivEncrypt(priv, key, stamp, n, salt), salt)
<1> DEFINE params == PrivParams(priv, stamp.boots, salt)
           x == PrivEncrypt(priv, key, stamp, n, salt)
<1>1. x.cipher = CipherName(priv) /\ x.iv = MakeIv(priv, key, stamp, params)
  BY DEF PrivEncrypt
<1>2. CASE priv = "Des"
  <2>1. CipherName(priv) = "DES-CBC"
    BY <1>2 DEF CipherName
  <2>2. x.iv.of = <<stamp.boots, salt % Word>>
    BY <1>1, <1>2 DEF MakeIv, PrivParams
  <2>3. x.iv.of[2] = salt % Word
    BY <2>2
  <2> QED BY <1>1, <2>1, <2>3 DEF Carries
<1>3. CASE priv # "Des"
  <2>1. CipherName(priv) # "DES-CBC"
    BY <1>3 DEF CipherName
  <2>2. x.iv.of = <<stamp.boots, stamp.time, params[1], params[2]>>
    BY <1>1, <1>3 DEF MakeIv
  <2>3. params[1] = salt \div Word /\ params[2] = salt % Word
    BY <1>3 DEF PrivParams
  <2>4. x.iv.of[3] = salt \div Word /\ x.iv.of[4] = salt % Word
    BY <2>2, <2>3
  <2> QED BY <1>1, <2>1, <2>4 DEF Carries
<1> QED BY <1>2, <1>3

\* A seal made with the counter as it is, whether it is watched from now on or compared
\* with the one that is, keeps the invariant.
LEMMA WatchingKeeps ==
    ASSUME SaltInv, NEW message, Carries(message, counter), Watch(message), NextSalt
    PROVE  SaltInv'
<1> DEFINE new == [seal |-> TRUE, cipher |-> message.cipher, key |-> message.key,
                   iv |-> message.iv]
<1>1. Carries(new, counter)
  BY DEF Carries
<1>2. Period \in Nat /\ Period > 0 /\ counter \in 0..(Period - 1) /\ age \in 0..Period
  BY PeriodIsLong DEF SaltInv
<1>3. counter' \in 0..(Period - 1) /\ (counter' = counter + 1 \/ counter' = counter + 1 - Period)
  <2>1. counter' = (counter + 1) % Period
    BY DEF NextSalt, Period
  <2>2. CASE counter = Period - 1
    <3>1. (counter + 1) % Period = 0
      BY <1>2, <2>2
    <3> QED BY <1>2, <2>1, <2>2, <3>1
  <2>3. CASE counter < Period - 1
    <3>1. (counter + 1) % Period = counter + 1
      BY <1>2, <2>3
    <3> QED BY <1>2, <2>1, <2>3, <3>1
  <2> QED BY <1>2, <2>2, <2>3
<1> HIDE DEF new
<1>4. CASE watched = None
  <2>1. last' = None /\ (watched' = None \/ watched' = new) /\ age = 0 /\ age' = age
    BY <1>4 DEF Watch, NextSalt, SaltInv, new
  <2>2. watched' # None => \E s \in 0..(Period - 1) :
           Carries(watched', s) /\ (counter' = s + 1 + age' \/ counter' = s + 1 + age' - Period)
    <3>1. counter' = counter + 1 + age' \/ counter' = counter + 1 + age' - Period
      BY <1>2, <1>3, <2>1
    <3> QED BY <1>1, <1>2, <2>1, <3>1
  <2> QED BY <1>2, <1>3, <2>1, <2>2 DEF SaltInv, Carries, Period
<1>5. CASE watched # None
  <2>1. last' = new /\ watched' = watched /\ age' = IF age < Period THEN age + 1 ELSE age
    BY <1>5 DEF Watch, NextSalt, new, Period
  <2>2. ASSUME age' < Period
        PROVE  \E s \in 0..(Period - 1) : Carries(watched', s)
                  /\ (counter' = s + 1 + age' \/ counter' = s + 1 + age' - Period)
    <3>1. age < Period /\ age' = age + 1
      BY <1>2, <2>1, <2>2
    <3>2. PICK s \in 0..(Period - 1) :
            Carries(watched, s) /\ (counter = s + 1 + age \/ counter = s + 1 + age - Period)
      BY <1>5, <3>1 DEF SaltInv
    <3>3. counter' = s + 1 + age' \/ counter' = s + 1 + age' - Period
      BY <1>2, <1>3, <2>2, <3>1, <3>2
    <3> QED BY <2>1, <3>2, <3>3
  <2>3. \E l \in 0..(Period - 1) :
           Carries(last', l) /\ (counter' = l + 1 \/ counter' = l + 1 - Period)
    BY <1>1, <1>2, <1>3, <2>1
  <2>4. age' \in 0..Period /\ watched' # None
    BY <1>2, <1>5, <2>1
  <2> QED BY ZenonT(40), <1>3, <2>2, <2>3, <2>4 DEF SaltInv, Carries, Period
<1> QED BY <1>4, <1>5

\* A salt that is drawn in vain ages what is watched.
LEMMA DrawingKeeps ==
    ASSUME SaltInv, NextSalt, last' = None, UNCHANGED watched
    PROVE  SaltInv'
<1>1. Period \in Nat /\ Period > 0 /\ counter \in 0..(Period - 1) /\ age \in 0..Period
  BY PeriodIsLong DEF SaltInv
<1>2. counter' \in 0..(Period - 1) /\ (counter' = counter + 1 \/ counter' = counter + 1 - Period)
  <2>1. counter' = (counter + 1) % Period
    BY DEF NextSalt, Period
  <2>2. CASE counter = Period - 1
    <3>1. (counter + 1) % Period = 0
      BY <1>1, <2>2
    <3> QED BY <1>1, <2>1, <2>2, <3>1
  <2>3. CASE counter < Period - 1
    <3>1. (counter + 1) % Period = counter + 1
      BY <1>1, <2>3
    <3> QED BY <1>1, <2>1, <2>3, <3>1
  <2> QED BY <1>1, <2>2, <2>3
<1>3. age' = IF watched # None /\ age < Period THEN age + 1 ELSE age
  BY DEF NextSalt, Period
<1>4. ASSUME watched # None, age' < Period
      PROVE  \E s \in 0..(Period - 1) : Carries(watched, s)
                /\ (counter' = s + 1 + age' \/ counter' = s + 1 + age' - Period)
  <2>1. age < Period /\ age' = age + 1
    BY <1>1, <1>3, <1>4
  <2>2. PICK s \in 0..(Period - 1) :
          Carries(watched, s) /\ (counter = s + 1 + age \/ counter = s + 1 + age - Period)
    BY <1>4, <2>1 DEF SaltInv
  <2>3. counter' = s + 1 + age' \/ counter' = s + 1 + age' - Period
    BY <1>1, <1>2, <1>4, <2>1, <2>2
  <2> QED BY <2>2, <2>3
<1>5. age' \in 0..Period /\ (watched = None => age' = 0)
  BY <1>1, <1>3 DEF SaltInv
<1> QED BY ZenonT(40), <1>2, <1>4, <1>5 DEF SaltInv, Carries, Period

\* A key that was derived is of a cipher there is.
LEMMA SealedHasCipher ==
    ASSUME NEW user \in Users, NEW engineId, LocalizedPrivKey(user, engineId).error = "none"
    PROVE  user.priv \in {"Des", "Aes128", "Aes192", "Aes192C", "Aes256", "Aes256C"}
<1>1. user.priv # "None"
  <2> SUFFICES ASSUME user.priv = "None" PROVE FALSE
    OBVIOUS
  <2>1. PrivKeySize(user.priv) = 0
    BY DEF PrivKeySize
  <2>2. LocalizedPrivKey(user, engineId) = Failed("UnsupportedPrivProtocol")
    BY <2>1 DEF LocalizedPrivKey
  <2> QED BY <2>2 DEF Failed
<1> QED BY <1>1, UsmAssumption

\* Every step keeps the invariant of the salts.
LEMMA SaltsKept == SaltInv /\ [Next]_vars => SaltInv'
<1> SUFFICES ASSUME SaltInv, [Next]_vars PROVE SaltInv'
  OBVIOUS
<1>1. CASE UNCHANGED <<counter, last, watched, age>>
  BY <1>1 DEF SaltInv, Carries, Period
<1>2. ASSUME NEW user \in Users, NEW engineId \in Engines, NEW stamp \in Stamps, NEW n \in Sizes,
             Request(user, engineId, stamp, n)
      PROVE  SaltInv'
  <2> DEFINE auth == LocalizedKey(keys, user, engineId)
             priv == LocalizedPrivacyKey(auth.cache, user, engineId)
             message == PrivEncrypt(user.priv, priv.key, stamp, n, counter)
  <2>1. Admitted(user)
    BY <1>2 DEF Request
  <2>2. CASE IsEncrypted(user.level) /\ NextSalt /\ Watch(message)
    <3>1. Carries(message, counter)
      <4>1. user.priv \in {"Des", "Aes128", "Aes192", "Aes192C", "Aes256", "Aes256C"}
        BY <2>1, <2>2, UsmAssumption DEF Admitted
      <4> QED BY <4>1, SealCarriesSalt
    <3> HIDE DEF message
    <3> QED BY <2>2, <3>1, WatchingKeeps
  <2>3. CASE NextSalt /\ last' = None /\ UNCHANGED watched
    BY SMTT(30), <2>3, DrawingKeeps
  <2>4. \/ UNCHANGED <<counter, last, watched, age>>
        \/ IsEncrypted(user.level) /\ NextSalt /\ Watch(message)
        \/ NextSalt /\ last' = None /\ UNCHANGED watched
    BY <1>2 DEF Request
  <2> QED BY SMTT(30), <1>1, <2>2, <2>3, <2>4
<1>3. ASSUME NEW user \in Users, NEW engineId \in Engines, NEW stamp \in Stamps,
             SealElsewhere(user, engineId, stamp)
      PROVE  SaltInv'
  <2> DEFINE key == LocalizedPrivKey(user, engineId)
             message == PrivEncrypt(user.priv, key.key, stamp, 8, counter)
  <2>1. key.error = "none" /\ Watch(message) /\ NextSalt
    BY <1>3 DEF SealElsewhere
  <2>2. Carries(message, counter)
    BY <2>1, SealedHasCipher, SealCarriesSalt
  <2> HIDE DEF message
  <2> QED BY <2>1, <2>2, WatchingKeeps
<1>4. ASSUME NEW stamp \in Stamps, NEW n \in Sizes, Reply(stamp, n) PROVE SaltInv'
  BY <1>1, <1>4 DEF Reply
<1>5. CASE UNCHANGED vars
  BY <1>1, <1>5 DEF vars
<1> QED BY <1>2, <1>3, <1>4, <1>5 DEF Next

LEMMA SaltsHold == Init => SaltInv
<1> SUFFICES ASSUME Init PROVE SaltInv
  OBVIOUS
<1>1. counter \in 0..(Period - 1) /\ age = 0 /\ watched = None /\ last = None
  BY DEF Init, Period
<1> QED BY <1>1, PeriodIsLong DEF SaltInv

\* No cipher key meets an initial vector again, from whichever Client of the process and
\* at whatever clock, before the part of nextSalt()'s counter that privEncrypt() puts
\* into it has gone all the way round.
THEOREM IvStaysFresh == Spec => []IvIsFresh
<1>1. SaltInv => IvIsFresh
  <2> SUFFICES ASSUME SaltInv, age > 0, last = watched
               PROVE  age >= IF last.cipher = "DES-CBC" THEN Word ELSE Word * Word
    BY DEF IvIsFresh
  <2>1. /\ Period \in Nat /\ Period >= Word /\ Period > 0 /\ Word \in Nat
        /\ age \in 0..Period /\ counter \in 0..(Period - 1) /\ watched # None /\ last # None
    BY PeriodIsLong, UsmAssumption DEF SaltInv
  <2>2. CASE age = Period
    BY <2>1, <2>2 DEF Period
  <2>3. CASE age < Period
    <3>1. PICK s \in 0..(Period - 1) :
            Carries(watched, s) /\ (counter = s + 1 + age \/ counter = s + 1 + age - Period)
      BY <2>1, <2>3 DEF SaltInv
    <3>2. PICK l \in 0..(Period - 1) :
            Carries(last, l) /\ (counter = l + 1 \/ counter = l + 1 - Period)
      BY <2>1 DEF SaltInv
    <3>3. age = l - s \/ age = l - s + Period
      BY <2>1, <2>3, <3>1, <3>2
    <3>4. s % Word = l % Word
      BY <3>1, <3>2 DEF Carries
    <3>5. s \in Nat /\ l \in Nat
      BY <2>1
    <3>6. CASE last.cipher = "DES-CBC"
      <4>1. PICK k \in Int : l - s = Word * k
        BY <3>4, <3>5, HalvesAgree
      <4>2. age = Word * k \/ age = Word * (k + Word)
        <5>1. Word * (k + Word) = Word * k + Period
          BY <2>1 DEF Period
        <5> QED BY <2>1, <3>3, <3>5, <4>1, <5>1
      <4>3. age \in Nat /\ k \in Int /\ k + Word \in Int
        BY <2>1
      <4>4. age >= Word
        BY <4>2, <4>3, MultipleIsLarge
      <4> QED BY <3>6, <4>4
    <3>7. CASE last.cipher # "DES-CBC"
      <4>1. s \div Word = l \div Word
        BY <3>1, <3>2, <3>7 DEF Carries
      <4>2. s = l
        BY <3>4, <3>5, <4>1, HalvesAgree
      <4> QED BY <2>1, <2>3, <3>3, <3>5, <4>2
    <3> QED BY <3>6, <3>7
  <2> QED BY <2>1, <2>2, <2>3
<1> QED BY <1>1, SaltsHold, SaltsKept, PTL DEF Spec

-----------------------------------------------------------------------------
(* Keys, and what they open.                                               *)

\* An octet string of one chunk or two, measured and cut.
LEMMA SizeOfTwo ==
    ASSUME NEW s, Len(s) = 1 \/ Len(s) = 2
    PROVE  Size(s) = IF Len(s) = 1 THEN 0 + s[1][3] ELSE 0 + s[1][3] + s[2][3]
<1> DEFINE Sums(f) == f = [i \in 0..Len(s) |-> IF i = 0 THEN 0 ELSE f[i - 1] + s[i][3]]
           w == [i \in 0..Len(s) |-> IF i = 0 THEN 0 ELSE IF i = 1 THEN 0 + s[1][3]
                                     ELSE 0 + s[1][3] + s[2][3]]
<1>1. Size(s) = (CHOOSE f : Sums(f))[Len(s)]
  BY DEF Size
<1>2. Sums(w)
  OBVIOUS
<1>3. PICK f : Sums(f) /\ Size(s) = f[Len(s)]
  BY ZenonT(40), <1>1, <1>2
<1>4. f[0] = 0 /\ f[1] = f[0] + s[1][3] /\ (Len(s) = 2 => f[2] = f[1] + s[2][3])
  BY <1>3
<1> QED BY <1>3, <1>4

LEMMA ResizeOfTwo ==
    ASSUME NEW s, Len(s) = 1 \/ Len(s) = 2, NEW n
    PROVE  Resize(s, n) = IF Len(s) = 1 THEN Grown(<<>>, s[1], n)
                          ELSE Grown(Grown(<<>>, s[1], n), s[2], n)
<1> DEFINE Fits(f) == f = [i \in 0..Len(s) |-> IF i = 0 THEN <<>> ELSE Grown(f[i - 1], s[i], n)]
           w == [i \in 0..Len(s) |-> IF i = 0 THEN <<>> ELSE IF i = 1 THEN Grown(<<>>, s[1], n)
                                     ELSE Grown(Grown(<<>>, s[1], n), s[2], n)]
<1>1. Resize(s, n) = (CHOOSE f : Fits(f))[Len(s)]
  BY DEF Resize
<1>2. Fits(w)
  OBVIOUS
<1>3. PICK f : Fits(f) /\ Resize(s, n) = f[Len(s)]
  BY ZenonT(40), <1>1, <1>2
<1>4. /\ f[0] = <<>> /\ f[1] = Grown(f[0], s[1], n)
      /\ Len(s) = 2 => f[2] = Grown(f[1], s[2], n)
  BY <1>3
<1> QED BY <1>3, <1>4

LEMMA SizeOfNone == Size(<<>>) = 0
<1> DEFINE Sums(f) == f = [i \in 0..0 |-> IF i = 0 THEN 0 ELSE f[i - 1] + <<>>[i][3]]
<1>1. Size(<<>>) = (CHOOSE f : Sums(f))[0]
  BY DEF Size
<1>2. Sums([i \in 0..0 |-> 0])
  OBVIOUS
<1>3. \A f : Sums(f) => f[0] = 0
  OBVIOUS
<1> HIDE DEF Sums
<1> QED BY <1>1, <1>2, <1>3

LEMMA SizeOfOne ==
    ASSUME NEW k, NEW o, NEW z \in Nat
    PROVE  Size(<<Chunk(k, o, z)>>) = z
<1>1. Len(<<Chunk(k, o, z)>>) = 1 /\ <<Chunk(k, o, z)>>[1][3] = z
  BY DEF Chunk
<1> QED BY <1>1, SizeOfTwo

LEMMA SizeOfBoth ==
    ASSUME NEW k, NEW o, NEW z \in Nat, NEW l, NEW p, NEW y \in Nat
    PROVE  Size(<<Chunk(k, o, z), Chunk(l, p, y)>>) = z + y
<1> DEFINE s == <<Chunk(k, o, z), Chunk(l, p, y)>>
<1>1. Len(s) = 2 /\ s[1][3] = z /\ s[2][3] = y
  BY DEF Chunk
<1> HIDE DEF s
<1>2. Size(s) = z + y
  BY <1>1, SizeOfTwo
<1> QED BY <1>2 DEF s

\* Sequences of two.
LEMMA TwoLong ==
    ASSUME NEW S, NEW s \in Seq(S), Len(s) = 2
    PROVE  s = <<s[1], s[2]>>
OBVIOUS

LEMMA AppendToOne ==
    ASSUME NEW x, NEW e
    PROVE  /\ Append(<<x>>, e) = <<x, e>>
           /\ <<x>> \o <<e>> = <<x, e>>
<1>1. <<x>> \in Seq({x, e}) /\ Len(<<x>>) = 1 /\ <<x>>[1] = x
  OBVIOUS
<1>2. <<e>> \in Seq({x, e}) /\ Len(<<e>>) = 1 /\ <<e>>[1] = e
  OBVIOUS
<1>3. /\ Append(<<x>>, e) \in Seq({x, e}) /\ Len(Append(<<x>>, e)) = 2
      /\ Append(<<x>>, e)[1] = x /\ Append(<<x>>, e)[2] = e
  BY <1>1
<1>4. /\ <<x>> \o <<e>> \in Seq({x, e}) /\ Len(<<x>> \o <<e>>) = 2
      /\ (<<x>> \o <<e>>)[1] = x /\ (<<x>> \o <<e>>)[2] = e
  BY <1>1, <1>2
<1> QED BY ZenonT(40), <1>3, <1>4, TwoLong

\* What resize() leaves of one chunk.
LEMMA ResizeOne ==
    ASSUME NEW k, NEW o, NEW z \in Nat, NEW n \in Nat \ {0}
    PROVE  Resize(<<Chunk(k, o, z)>>, n) = <<Chunk(k, o, IF z <= n THEN z ELSE n)>>
<1> DEFINE c == Chunk(k, o, z)
<1>1. Len(<<c>>) = 1 /\ <<c>>[1] = c
  OBVIOUS
<1>2. c[3] = z /\ [c EXCEPT ![3] = n] = Chunk(k, o, n)
  BY DEF Chunk
<1>3. Append(<<>>, c) = <<c>> /\ Append(<<>>, Chunk(k, o, n)) = <<Chunk(k, o, n)>>
  OBVIOUS
<1> HIDE DEF c
<1>4. Resize(<<c>>, n) = Grown(<<>>, c, n)
  BY <1>1, ResizeOfTwo
<1>5. Grown(<<>>, c, n) = IF z <= n THEN <<c>> ELSE <<Chunk(k, o, n)>>
  <2>1. 0 + z <= n <=> z <= n
    OBVIOUS
  <2>2. 0 < n /\ n - 0 = n
    OBVIOUS
  <2> QED BY <1>2, <1>3, <2>1, <2>2, SizeOfNone DEF Grown
<1> QED BY <1>4, <1>5 DEF c

\* What it leaves of two.
LEMMA ResizeBoth ==
    ASSUME NEW k, NEW o, NEW z \in Nat, NEW l, NEW p, NEW y \in Nat \ {0}, NEW n \in Nat \ {0}
    PROVE  Resize(<<Chunk(k, o, z), Chunk(l, p, y)>>, n) =
             IF z >= n THEN <<Chunk(k, o, n)>>
             ELSE <<Chunk(k, o, z), Chunk(l, p, IF z + y <= n THEN y ELSE n - z)>>
<1> DEFINE c == Chunk(k, o, z)
           d == Chunk(l, p, y)
           first == <<Chunk(k, o, IF z <= n THEN z ELSE n)>>
<1>1. Len(<<c, d>>) = 2 /\ <<c, d>>[1] = c /\ <<c, d>>[2] = d
  OBVIOUS
<1>2. d[3] = y /\ [d EXCEPT ![3] = n - z] = Chunk(l, p, n - z)
  BY DEF Chunk
<1>3. Grown(<<>>, c, n) = first
  <2>1. Len(<<c>>) = 1 /\ <<c>>[1] = c
    OBVIOUS
  <2>2. Resize(<<c>>, n) = first
    BY ResizeOne
  <2> HIDE DEF c, first
  <2> QED BY <2>1, <2>2, ResizeOfTwo
<1>4. Size(first) = IF z <= n THEN z ELSE n
  BY SizeOfOne
<1>5. \A x, e : Append(<<x>>, e) = <<x, e>>
  BY Zenon, AppendToOne
<1>6. Resize(<<c, d>>, n) = Grown(first, d, n)
  <2> HIDE DEF c, d, first
  <2> QED BY <1>1, <1>3, ResizeOfTwo
<1>7. CASE z >= n
  <2>1. first = <<Chunk(k, o, n)>> /\ Size(first) = n
    BY <1>4, <1>7
  <2>2. ~(n + y <= n) /\ ~(n < n)
    OBVIOUS
  <2> HIDE DEF c, d, first
  <2>3. Grown(first, d, n) = first
    BY <1>2, <2>1, <2>2 DEF Grown
  <2> QED BY <1>6, <1>7, <2>1, <2>3 DEF c, d
<1>8. CASE z < n
  <2>1. first = <<c>> /\ Size(first) = z
    BY <1>4, <1>8
  <2> HIDE DEF first
  <2>2. Grown(first, d, n) =
          IF z + y <= n THEN Append(first, d) ELSE Append(first, Chunk(l, p, n - z))
    <3> HIDE DEF c, d
    <3> QED BY ZenonT(40), <1>2, <1>8, <2>1 DEF Grown
  <2>3. Grown(first, d, n) = IF z + y <= n THEN <<c, d>> ELSE <<c, Chunk(l, p, n - z)>>
    BY ZenonT(40), <1>5, <2>1, <2>2
  <2> QED BY <1>6, <1>8, <2>3
<1> QED BY <1>7, <1>8

\* What the hashes and the privacy protocols ask for.
LEMMA HashSizes ==
    ASSUME NEW auth \in {"Md5", "Sha1", "Sha224", "Sha256", "Sha384", "Sha512"}
    PROVE  KeySize(auth) \in Nat /\ KeySize(auth) >= 16
BY DEF KeySize

LEMMA KeySizes ==
    ASSUME NEW priv \in {"Des", "Aes128", "Aes192", "Aes192C", "Aes256", "Aes256C"}
    PROVE  /\ PrivKeySize(priv) \in 16..32
           /\ PrivKeySize(priv) > 16 =>
                priv \in {"Aes192", "Aes192C", "Aes256", "Aes256C"}
BY DEF PrivKeySize

\* passwordToKey() and localizeKey(), when neither fails.
Whole(auth, password, engineId) ==
    LET master == Hash(auth, <<Chunk("repeated", password, 1048576)>>)
    IN  Hash(auth, master \o engineId \o master)

LEMMA LocalizedIsWhole ==
    ASSUME NEW auth, auth # "None", NEW password, NEW engineId
    PROVE  /\ Localized(auth, password, engineId).error = "none" =>
                Localized(auth, password, engineId).key = Whole(auth, password, engineId)
           /\ password # <<>> =>
                Localized(auth, password, engineId).key = Whole(auth, password, engineId)
<1>1. CASE password = <<>>
  <2>1. PasswordToKey(auth, password) = Failed("EmptyPassword")
    BY <1>1 DEF PasswordToKey
  <2>2. Localized(auth, password, engineId).error = "EmptyPassword"
    BY <2>1 DEF Localized, Failed
  <2> QED BY <1>1, <2>2
<1>2. CASE password # <<>>
  <2> DEFINE master == Hash(auth, <<Chunk("repeated", password, 1048576)>>)
  <2>1. PasswordToKey(auth, password) = Fine(master)
    BY <1>2 DEF PasswordToKey
  <2>2. Localized(auth, password, engineId) = LocalizeKey(auth, master, engineId)
    BY <2>1 DEF Localized, Fine
  <2>3. LocalizeKey(auth, master, engineId).key = Hash(auth, master \o engineId \o master)
    BY DEF LocalizeKey, Fine
  <2> QED BY <2>2, <2>3 DEF Whole
<1> QED BY <1>1, <1>2

\* The key that localizedPrivKey() extends and cuts is the one that the Engine has, as
\* long as the protocol asks, and there is something of it for the cipher.
LEMMA DerivedIsEngines ==
    ASSUME NEW user, NEW engineId,
           user.auth \in {"Md5", "Sha1", "Sha224", "Sha256", "Sha384", "Sha512"},
           user.priv \in {"Des", "Aes128", "Aes192", "Aes192C", "Aes256", "Aes256C"},
           LocalizedPrivKey(user, engineId).error = "none"
    PROVE  /\ LocalizedPrivKey(user, engineId).key = EngineKey(user, engineId)
           /\ Size(EngineKey(user, engineId)) = PrivKeySize(user.priv)
           /\ CipherKey(user.priv, EngineKey(user, engineId)) # <<>>
<1> DEFINE auth == user.auth
           want == PrivKeySize(user.priv)
           z == KeySize(auth)
           short == Localized(auth, user.privPassword, engineId)
           base == Whole(auth, user.privPassword, engineId)
           more == IF Reeder(user.priv) THEN Whole(auth, base, engineId) ELSE Hash(auth, base)
           m == IF user.priv = "Des" THEN 8 ELSE want
<1>1. /\ want \in 16..32 /\ z \in Nat /\ z >= 16 /\ auth # "None"
      /\ m \in Nat \ {0} /\ want \in Nat \ {0}
  BY HashSizes, KeySizes
<1>2. PICK o, p : base = <<Chunk(auth, o, z)>> /\ more = <<Chunk(auth, p, z)>>
  BY DEF Whole, Hash
<1>3. base # <<>> /\ Size(base) = z
  BY SMTT(30), <1>1, <1>2, SizeOfOne
<1>4. base \o more = <<Chunk(auth, o, z), Chunk(auth, p, z)>>
  BY ZenonT(40), <1>2, AppendToOne
<1>5. short.error = "none" /\ short.key = base
  <2>1. want # 0
    BY <1>1
  <2>2. short.error = "none"
    BY <2>1 DEF LocalizedPrivKey
  <2> QED BY <1>1, <2>2, LocalizedIsWhole
<1>6. LocalizedPrivKey(user, engineId).key = Resize(IF z < want THEN base \o more ELSE base, want)
  <2>1. Reeder(user.priv) => Localized(auth, base, engineId).key = Whole(auth, base, engineId)
    BY <1>1, <1>3, LocalizedIsWhole
  <2> HIDE DEF base
  <2>2. LocalizedPrivKey(user, engineId) = Fine(Resize(IF z < want THEN base \o more ELSE base, want))
    BY <1>1, <1>3, <1>5, <2>1 DEF LocalizedPrivKey
  <2> QED BY <2>2 DEF Fine
<1>7. EngineKey(user, engineId) = 
        Resize(IF user.priv \in {"Des", "Aes128"} THEN base ELSE base \o more, want)
  BY DEF EngineKey, Whole, Reeder
<1> HIDE DEF base, more, z, want, m, auth
<1>8. CASE z < want
  <2> DEFINE y == IF z + z <= want THEN z ELSE want - z
             key == <<Chunk(auth, o, z), Chunk(auth, p, y)>>
  <2>1. user.priv \notin {"Des", "Aes128"}
    BY <1>1, <1>8, KeySizes DEF want
  <2>2. Resize(base \o more, want) = key
    <3>1. Resize(<<Chunk(auth, o, z), Chunk(auth, p, z)>>, want) =
            IF z >= want THEN <<Chunk(auth, o, want)>> ELSE key
      BY <1>1, ResizeBoth
    <3> QED BY <1>1, <1>4, <1>8, <3>1
  <2>3. y \in Nat \ {0} /\ z + y = want
    BY <1>1, <1>8
  <2> HIDE DEF y
  <2>4. Size(key) = want
    <3>1. y \in Nat /\ z \in Nat
      BY <1>1, <2>3
    <3>2. Size(key) = z + y
      BY <3>1, SizeOfBoth
    <3> QED BY <2>3, <3>2
  <2>5. Resize(key, m) # <<>>
    <3>1. Resize(key, m) =
            IF z >= m THEN <<Chunk(auth, o, m)>>
            ELSE <<Chunk(auth, o, z), Chunk(auth, p, IF z + y <= m THEN y ELSE m - z)>>
      BY <1>1, <2>3, ResizeBoth
    <3>2. \A c, d : <<c>> # <<>> /\ <<c, d>> # <<>>
      OBVIOUS
    <3> HIDE DEF key
    <3> QED BY <3>1, <3>2
  <2> HIDE DEF key
  <2> QED BY <1>6, <1>7, <1>8, <2>1, <2>2, <2>4, <2>5 DEF CipherKey, m, want
<1>9. CASE z >= want
  <2> DEFINE key == <<Chunk(auth, o, want)>>
  <2>1. Resize(base, want) = key
    <3>1. Resize(<<Chunk(auth, o, z)>>, want) = <<Chunk(auth, o, IF z <= want THEN z ELSE want)>>
      BY SMTT(30), <1>1, ResizeOne
    <3>2. (IF z <= want THEN z ELSE want) = want
      BY <1>1, <1>9
    <3> QED BY <1>2, <3>1, <3>2
  <2>2. Resize(base \o more, want) = key
    <3>1. z \in Nat \ {0}
      BY <1>1
    <3>2. Resize(<<Chunk(auth, o, z), Chunk(auth, p, z)>>, want) =
            IF z >= want THEN key
            ELSE <<Chunk(auth, o, z), Chunk(auth, p, IF z + z <= want THEN z ELSE want - z)>>
      BY <1>1, <3>1, ResizeBoth
    <3> QED BY <1>4, <1>9, <3>2
  <2>3. Size(key) = want
    BY <1>1, SizeOfOne
  <2>4. Resize(key, m) # <<>>
    <3>1. Resize(key, m) = <<Chunk(auth, o, IF want <= m THEN want ELSE m)>>
      BY <1>1, ResizeOne
    <3> QED BY <3>1
  <2> HIDE DEF key
  <2>5. ~(z < want)
    BY <1>1, <1>9
  <2> QED BY <1>6, <1>7, <2>1, <2>2, <2>3, <2>4, <2>5 DEF CipherKey, m, want
<1> QED BY <1>1, <1>8, <1>9

\* The pad of DES fills the last block, and nothing more.
LEMMA PaddedFits ==
    ASSUME NEW priv, NEW n \in Nat \ {0}
    PROVE  /\ Padded(priv, n) \in Nat /\ n <= Padded(priv, n)
           /\ priv = "Des" => Padded(priv, n) % 8 = 0 /\ Padded(priv, n) # 0
BY DEF Padded

\* Someone whose messages are sealed, and the key they are sealed with.
SealsFor(user, engineId) ==
    /\ user.auth \in {"Md5", "Sha1", "Sha224", "Sha256", "Sha384", "Sha512"}
    /\ user.priv \in {"Des", "Aes128", "Aes192", "Aes192C", "Aes256", "Aes256C"}
    /\ LocalizedPrivKey(user, engineId).error = "none"

\* The message in flight was made by privEncrypt() with the key that would be derived.
SealedInv ==
    /\ Exact(keys)
    /\ flight.seal =>
         /\ SealsFor(flight.user, flight.engineId)
         /\ flight.held = LocalizedPrivKey(flight.user, flight.engineId).key
         /\ \E stamp \in Stamps, n \in Sizes, salt \in 0..(Word * Word - 1) :
              flight.message = PrivEncrypt(flight.user.priv, flight.held, stamp, n, salt)
    /\ opened # Unopened => (opened.error = "Ok" <=> opened.honest)

\* privDecrypt() with the key of privEncrypt() opens what was not touched.
OpensOnly(priv, key, sealed, n) ==
    /\ DecryptScopedPdu(priv, key, sealed) = "Ok"
    /\ DecryptScopedPdu(priv, key, [sealed EXCEPT !.params = <<1>>]) # "Ok"
    /\ DecryptScopedPdu(priv, key, [sealed EXCEPT !.key = <<>>]) # "Ok"
    /\ DecryptScopedPdu(priv, key, [sealed EXCEPT !.size = n - 1]) # "Ok"

LEMMA OpensWhatFits ==
    ASSUME NEW user, NEW engineId, SealsFor(user, engineId),
           NEW stamp, NEW n \in Nat \ {0}, NEW salt
    PROVE  LET key == EngineKey(user, engineId)
           IN  OpensOnly(user.priv, key, PrivEncrypt(user.priv, key, stamp, n, salt), n)
<1> DEFINE priv == user.priv
           key == EngineKey(user, engineId)
           params == PrivParams(priv, stamp.boots, salt)
           sealed == PrivEncrypt(priv, key, stamp, n, salt)
<1>1. /\ PrivKeySize(priv) # 0 /\ ~(Size(key) < PrivKeySize(priv))
      /\ CipherKey(priv, key) # <<>>
  <2>1. /\ Size(key) = PrivKeySize(priv) /\ CipherKey(priv, key) # <<>>
    BY DerivedIsEngines DEF SealsFor
  <2>2. PrivKeySize(priv) \in 16..32
    BY KeySizes DEF SealsFor
  <2> QED BY SMTT(30), <2>1, <2>2
<1>2. Len(params) = 2 /\ Len(<<1>>) # 2
  BY DEF PrivParams
<1>3. /\ Padded(priv, n) \in Nat /\ n <= Padded(priv, n)
      /\ priv = "Des" => Padded(priv, n) % 8 = 0 /\ Padded(priv, n) # 0
  BY PaddedFits
<1>4. sealed = [seal |-> TRUE, cipher |-> CipherName(priv), key |-> CipherKey(priv, key),
                iv |-> MakeIv(priv, key, stamp, params), stamp |-> stamp, params |-> params,
                scoped |-> n, size |-> Padded(priv, n)]
  BY DEF PrivEncrypt
<1> HIDE DEF key, params, sealed, priv
<1>5. DecryptScopedPdu(priv, key, sealed) = "Ok"
  BY <1>1, <1>2, <1>3, <1>4 DEF DecryptScopedPdu, DecodeScopedPdu
<1>6. DecryptScopedPdu(priv, key, [sealed EXCEPT !.params = <<1>>]) # "Ok"
  BY <1>1, <1>2, <1>4 DEF DecryptScopedPdu, DecodeScopedPdu
<1>7. DecryptScopedPdu(priv, key, [sealed EXCEPT !.key = <<>>]) # "Ok"
  BY <1>1, <1>4 DEF DecryptScopedPdu, DecodeScopedPdu
<1>8. DecryptScopedPdu(priv, key, [sealed EXCEPT !.size = n - 1]) # "Ok"
  <2>1. ~(n <= n - 1)
    OBVIOUS
  <2> QED BY <1>1, <1>4, <2>1 DEF DecryptScopedPdu, DecodeScopedPdu
<1> QED BY <1>5, <1>6, <1>7, <1>8 DEF OpensOnly, key, sealed, priv

\* Every step keeps it.
LEMMA SealedKept == SaltInv /\ SealedInv /\ [Next]_vars => SealedInv'
<1> SUFFICES ASSUME SaltInv, SealedInv, [Next]_vars PROVE SealedInv'
  OBVIOUS
<1>1. Exact(keys)'
  BY ExactKept DEF SealedInv
<1>2. ASSUME flight' = None, opened' = Unopened PROVE SealedInv'
  BY SMTT(30), <1>1, <1>2 DEF SealedInv, None
<1>3. ASSUME NEW user \in Users, NEW engineId \in Engines, NEW stamp \in Stamps, NEW n \in Sizes,
             Request(user, engineId, stamp, n)
      PROVE  SealedInv'
  <2> DEFINE auth == LocalizedKey(keys, user, engineId)
             priv == LocalizedPrivacyKey(auth.cache, user, engineId)
             message == PrivEncrypt(user.priv, priv.key, stamp, n, counter)
  <2>1. opened' = Unopened
    BY ZenonT(40), <1>3 DEF Request
  <2>2. CASE flight' = None
    BY SMTT(30), <1>2, <2>1, <2>2
  <2>3. CASE /\ IsEncrypted(user.level) /\ priv.error = "none"
             /\ flight' = [user |-> user, engineId |-> engineId, message |-> message,
                           held |-> priv.key, seal |-> TRUE]
    <3>1. /\ user.auth \in {"Md5", "Sha1", "Sha224", "Sha256", "Sha384", "Sha512"}
          /\ user.priv \in {"Des", "Aes128", "Aes192", "Aes192C", "Aes256", "Aes256C"}
      <4>1. Admitted(user) /\ IsAuthenticated(user.level)
        BY SMTT(30), <1>3 DEF Request
      <4> QED BY SMTT(30), <2>3, <4>1, UsmAssumption DEF Admitted
    <3>2. Exact(auth.cache)
      BY SMTT(30), LookupsAreExact DEF SealedInv
    <3>3. /\ LocalizedPrivKey(user, engineId).error = "none"
          /\ priv.key = LocalizedPrivKey(user, engineId).key
      <4> HIDE DEF auth
      <4> QED BY <2>3, <3>1, <3>2, FoundIsDerived
    <3>4. counter \in 0..(Word * Word - 1)
      BY SMTT(30) DEF SaltInv, Period
    <3> HIDE DEF priv
    <3>5. /\ flight'.user = user /\ flight'.engineId = engineId
          /\ flight'.held = LocalizedPrivKey(user, engineId).key
          /\ flight'.message = PrivEncrypt(user.priv, flight'.held, stamp, n, counter)
      BY <2>3, <3>3
    <3> QED BY <1>1, <2>1, <3>1, <3>3, <3>4, <3>5 DEF SealedInv, SealsFor
  <2> QED BY ZenonT(40), <1>3, <2>2, <2>3 DEF Request
<1>4. ASSUME NEW user \in Users, NEW engineId \in Engines, NEW stamp \in Stamps,
             SealElsewhere(user, engineId, stamp)
      PROVE  SealedInv'
  BY SMTT(30), <1>2, <1>4 DEF SealElsewhere
<1>5. ASSUME NEW stamp \in Stamps, NEW n \in Sizes, Reply(stamp, n) PROVE SealedInv'
  <2> DEFINE user == flight.user
             key == EngineKey(user, flight.engineId)
             sealed == PrivEncrypt(user.priv, key, stamp, n, 0)
             Open(m) == DecryptScopedPdu(user.priv, key, m)
  <2>1. SealsFor(user, flight.engineId) /\ flight.held = key
    <3>1. flight.seal
      BY <1>5 DEF Reply
    <3> QED BY <3>1, DerivedIsEngines DEF SealedInv, SealsFor
  <2>2. n \in Nat \ {0}
    BY UsmAssumption
  <2>3. /\ Open(sealed) = "Ok"
        /\ Open([sealed EXCEPT !.params = <<1>>]) # "Ok"
        /\ Open([sealed EXCEPT !.key = <<>>]) # "Ok"
        /\ Open([sealed EXCEPT !.size = n - 1]) # "Ok"
    <3>1. OpensOnly(user.priv, key, sealed, n)
      BY <2>1, <2>2, OpensWhatFits
    <3> QED BY <3>1 DEF OpensOnly
  <2>4. PICK what \in {"answer", "salt", "key", "cut"} :
          opened' = [error |-> Open(CASE what = "answer" -> sealed
                                      [] what = "salt" -> [sealed EXCEPT !.params = <<1>>]
                                      [] what = "key" -> [sealed EXCEPT !.key = <<>>]
                                      [] what = "cut" -> [sealed EXCEPT !.size = n - 1]),
                     honest |-> what = "answer"]
    BY <1>5, <2>1 DEF Reply
  <2>5. opened'.error = "Ok" <=> opened'.honest
    <3> HIDE DEF sealed, Open
    <3>1. CASE what = "answer"
      BY ZenonT(40), <2>3, <2>4, <3>1
    <3>2. CASE what = "salt"
      BY ZenonT(40), <2>3, <2>4, <3>2
    <3>3. CASE what = "key"
      BY ZenonT(40), <2>3, <2>4, <3>3
    <3>4. CASE what = "cut"
      BY ZenonT(40), <2>3, <2>4, <3>4
    <3> QED BY <3>1, <3>2, <3>3, <3>4
  <2>6. ~flight'.seal
    BY <1>5 DEF Reply, None
  <2> QED BY SMTT(30), <1>1, <2>5, <2>6 DEF SealedInv
<1>6. CASE UNCHANGED vars
  BY <1>1, <1>6 DEF vars, SealedInv
<1> QED BY <1>3, <1>4, <1>5, <1>6 DEF Next

\* Both ends have one key: the Engine, which extends it as the RFCs and the drafts say,
\* opens what privEncrypt() sealed, and privDecrypt() opens the Engine's answers, padded
\* or not, and refuses a salt of another size, another key and a ScopedPDU that is cut.
THEOREM OpensWhatWasSealed == Spec => []OpensAsSealed
<1>1. Init => SaltInv /\ SealedInv
  <2>1. Init => SealedInv
    BY DEF Init, SealedInv, Exact, None
  <2> QED BY <2>1, SaltsHold
<1>2. SealedInv => OpensAsSealed
  <2> SUFFICES ASSUME SealedInv, flight.seal
               PROVE  DecryptScopedPdu(flight.user.priv, EngineKey(flight.user, flight.engineId),
                                       flight.message) = "Ok"
    BY DEF SealedInv, OpensAsSealed
  <2>1. PICK stamp \in Stamps, n \in Sizes, salt \in 0..(Word * Word - 1) :
          flight.message = PrivEncrypt(flight.user.priv, flight.held, stamp, n, salt)
    BY DEF SealedInv
  <2>2. SealsFor(flight.user, flight.engineId)
    BY SMTT(30) DEF SealedInv
  <2>3. flight.held = EngineKey(flight.user, flight.engineId)
    BY <2>2, DerivedIsEngines DEF SealedInv, SealsFor
  <2>4. n \in Nat \ {0}
    BY UsmAssumption
  <2>5. OpensOnly(flight.user.priv, EngineKey(flight.user, flight.engineId), flight.message, n)
    BY ZenonT(40), <2>1, <2>2, <2>3, <2>4, OpensWhatFits
  <2> QED BY SMTT(30), <2>5 DEF OpensOnly
<1> QED BY <1>1, <1>2, SaltsKept, SealedKept, PTL DEF Spec
=============================================================================
