-------------------------------- MODULE Usm ---------------------------------
(***************************************************************************)
(* The keys of USM and what is sealed with them: localized keys, the two   *)
(* extensions to longer ones, the Client's cache of them, the salt that    *)
(* all Clients of a process share, and privacy both ways.  A hash and a    *)
(* cipher are ideal: an octet string is a sequence of chunks, and a chunk  *)
(* says which hash it is of what, and how much of it.                      *)
(***************************************************************************)
EXTENDS Integers, Sequences

CONSTANTS
    Users,    \* the Credentials that requests are made with
    Engines,  \* the engineIDs
    Stamps,   \* the boots and times that messages carry
    Sizes,    \* how long a ScopedPDU is
    Word      \* how many values half of a salt has (2^32 in the code)

ASSUME UsmAssumption ==
    /\ Word \in Nat \ {0, 1}
    /\ Sizes \subseteq Nat \ {0}
    /\ \A user \in Users :
         /\ user.auth \in {"None", "Md5", "Sha1", "Sha224", "Sha256", "Sha384", "Sha512"}
         /\ user.priv \in {"None", "Des", "Aes128", "Aes192", "Aes192C", "Aes256", "Aes256C"}

VARIABLES
    counter,  \* the counter of nextSalt(), one for the process
    keys,     \* m_keys of a Client: a key for each tuple
    flight,   \* the message the Client sealed last, and for whom, or nothing
    opened,   \* what became of the last reply, and what should have
    last,     \* what was sealed last, if something is watched and crypt() did not fail (history)
    watched,  \* one of the seals before it (history)
    age       \* how many salts ago that was, up to the period of the counter (history)

vars == <<counter, keys, flight, opened, last, watched, age>>

None == [seal |-> FALSE]

Unopened == [error |-> "none", honest |-> TRUE]

Init ==
    /\ counter \in 0..(Word * Word - 1)
    /\ keys = <<>>
    /\ flight = None
    /\ opened = Unopened
    /\ last = None
    /\ watched = None
    /\ age = 0

-----------------------------------------------------------------------------
(* Octet strings.                                                          *)

Chunk(kind, octets, size) == <<kind, octets, size>>

Size(octets) ==
    LET sum[i \in 0..Len(octets)] == IF i = 0 THEN 0 ELSE sum[i - 1] + octets[i][3]
    IN  sum[Len(octets)]

\* What of chunk c is put behind front, if there is room for n octets.
Grown(front, c, n) ==
    IF Size(front) + c[3] <= n THEN Append(front, c)
    ELSE IF Size(front) < n THEN Append(front, [c EXCEPT ![3] = n - Size(front)])
    ELSE front

\* The first n octets.
Resize(octets, n) ==
    LET front[i \in 0..Len(octets)] ==
          IF i = 0 THEN <<>> ELSE Grown(front[i - 1], octets[i], n)
    IN  front[Len(octets)]

Fine(octets) == [error |-> "none", key |-> octets]

Failed(e) == [error |-> e, key |-> <<>>]

-----------------------------------------------------------------------------
(* Protocols and keys.                                                     *)

\* keySize(), what the hash of digestFor() makes; nothing for AuthProtocol::None.
KeySize(auth) ==
    CASE auth = "None" -> 0 [] auth = "Md5" -> 16 [] auth = "Sha1" -> 20
      [] auth = "Sha224" -> 28 [] auth = "Sha256" -> 32 [] auth = "Sha384" -> 48
      [] auth = "Sha512" -> 64

PrivKeySize(priv) ==
    CASE priv = "None" -> 0 [] priv \in {"Des", "Aes128"} -> 16
      [] priv \in {"Aes192", "Aes192C"} -> 24 [] priv \in {"Aes256", "Aes256C"} -> 32

\* cipherName(), and desKeySize for the part of the key that DES itself takes.
CipherName(priv) ==
    CASE priv = "Des" -> "DES-CBC" [] priv = "Aes128" -> "AES-128-CFB"
      [] priv \in {"Aes192", "Aes192C"} -> "AES-192-CFB"
      [] priv \in {"Aes256", "Aes256C"} -> "AES-256-CFB"

CipherKey(priv, key) == Resize(key, IF priv = "Des" THEN 8 ELSE PrivKeySize(priv))

\* hashOf(), and begin() to finish() around any updates.
Hash(auth, octets) == <<Chunk(auth, octets, KeySize(auth))>>

\* passwordToKey(): the hash of a megabyte that repeats the password.
PasswordToKey(auth, password) ==
    IF auth = "None" THEN Failed("UnsupportedAuthProtocol")
    ELSE IF password = <<>> THEN Failed("EmptyPassword")
    ELSE Fine(Hash(auth, <<Chunk("repeated", password, 1048576)>>))

\* localizeKey(): the key before and behind the engineID.
LocalizeKey(auth, master, engineId) ==
    IF auth = "None" THEN Failed("UnsupportedAuthProtocol")
    ELSE Fine(Hash(auth, master \o engineId \o master))

Localized(auth, password, engineId) ==
    LET master == PasswordToKey(auth, password)
    IN  IF master.error # "none" THEN master ELSE LocalizeKey(auth, master.key, engineId)

LocalizedAuthKey(user, engineId) == Localized(user.auth, user.authPassword, engineId)

\* Which of the two extensions a protocol has.
Reeder(priv) == priv \in {"Aes192C", "Aes256C"}

\* localizedPrivKey().  The shortest hash has 16 octets and the longest key 32, so
\* that the loop is left after one round.
LocalizedPrivKey(user, engineId) ==
    LET want == PrivKeySize(user.priv)
        short == Localized(user.auth, user.privPassword, engineId)
        more == IF Reeder(user.priv) THEN Localized(user.auth, short.key, engineId).key
                ELSE Hash(user.auth, short.key)
    IN  IF want = 0 THEN Failed("UnsupportedPrivProtocol")
        ELSE IF short.error # "none" THEN short
        ELSE Fine(Resize(IF Size(short.key) < want THEN short.key \o more ELSE short.key, want))

-----------------------------------------------------------------------------
(* The Client's cache.                                                     *)

Tuple(engineId, auth, password, priv) == <<engineId, auth, password, priv>>

\* What a lookup ends with: a key, from the cache or derived and put there, or an error.
Cached(cache, tuple, derived) ==
    IF tuple \in DOMAIN cache THEN [error |-> "none", key |-> cache[tuple], cache |-> cache]
    ELSE [error |-> derived.error, key |-> derived.key,
          cache |-> IF derived.error # "none" THEN cache
                    ELSE [t \in DOMAIN cache \union {tuple} |->
                            IF t = tuple THEN derived.key ELSE cache[t]]]

\* localizedKey(): an authentication key is filed under PrivProtocol::None.
LocalizedKey(cache, user, engineId) ==
    Cached(cache, Tuple(engineId, user.auth, user.authPassword, "None"),
           LocalizedAuthKey(user, engineId))

LocalizedPrivacyKey(cache, user, engineId) ==
    Cached(cache, Tuple(engineId, user.auth, user.privPassword, user.priv),
           LocalizedPrivKey(user, engineId))

-----------------------------------------------------------------------------
(* Privacy.                                                                *)

\* What travels in msgPrivacyParameters: DES has the boots and half of the counter.
PrivParams(priv, boots, salt) ==
    IF priv = "Des" THEN <<boots, salt % Word>> ELSE <<salt \div Word, salt % Word>>

\* Mutant of MakeIv: the two halves of the salt are put in one place.
MakeIvOverlapping(priv, key, stamp, params) ==
    IF priv = "Des" THEN [pre |-> key, of |-> params]
    ELSE [pre |-> <<>>, of |-> <<stamp.boots, stamp.time, params[1]>>]

\* makeIv().  The octets that DES takes the pre-IV from stand for the whole key.
MakeIv(priv, key, stamp, params) ==
    IF priv = "Des" THEN [pre |-> key, of |-> params]
    ELSE [pre |-> <<>>, of |-> <<stamp.boots, stamp.time, params[1], params[2]>>]

Padded(priv, n) == IF priv = "Des" THEN n + ((8 - (n % 8)) % 8) ELSE n

\* privEncrypt(), with the salt that nextSalt() gave: what goes out for n octets.
PrivEncrypt(priv, key, stamp, n, salt) ==
    LET params == PrivParams(priv, stamp.boots, salt)
    IN  [seal |-> TRUE, cipher |-> CipherName(priv), key |-> CipherKey(priv, key),
         iv |-> MakeIv(priv, key, stamp, params), stamp |-> stamp, params |-> params,
         scoped |-> n, size |-> Padded(priv, n)]

\* Mutant of DecodeScopedPdu: nothing may follow the ScopedPDU.
DecodeScopedPduFinished(message, isPlain) == isPlain /\ message.size = message.scoped

\* decodeScopedPdu() of what came out: what follows it is not looked at, and noise is
\* not a ScopedPDU.
DecodeScopedPdu(message, isPlain) == isPlain /\ message.scoped <= message.size

\* privDecrypt() and decryptScopedPdu(): crypt() undoes what was done with the same
\* key and the same IV, and makes noise of the rest.
DecryptScopedPdu(priv, key, message) ==
    LET isPlain == /\ message.cipher = CipherName(priv)
                   /\ message.key = CipherKey(priv, key)
                   /\ message.iv = MakeIv(priv, key, message.stamp, message.params)
    IN  IF PrivKeySize(priv) = 0 \/ Size(key) < PrivKeySize(priv) THEN "UnsupportedPrivProtocol"
        ELSE IF Len(message.params) # 2 THEN "DecryptionFailed"
        ELSE IF priv = "Des" /\ (message.size = 0 \/ message.size % 8 # 0) THEN "DecryptionFailed"
        ELSE IF DecodeScopedPdu(message, isPlain) THEN "Ok"
        ELSE "DecryptionFailed"

-----------------------------------------------------------------------------
(* Requests.                                                               *)

IsAuthenticated(level) == level # "noAuthNoPriv"

IsEncrypted(level) == level = "authPriv"

\* Mutant of Admitted: it is left to the derivation to refuse PrivProtocol::None.
AdmittedUnchecked(user) == IsAuthenticated(user.level) => user.auth # "None"

\* The checks at the top of doRequestV3().
Admitted(user) ==
    /\ IsEncrypted(user.level) => user.priv # "None"
    /\ IsAuthenticated(user.level) => user.auth # "None"

\* nextSalt(): fetch_add.
NextSalt ==
    /\ counter' = (counter + 1) % (Word * Word)
    /\ age' = IF watched # None /\ age < Word * Word THEN age + 1 ELSE age

\* What the history makes of a seal: it may be the one that is watched from now on.
Watch(message) ==
    LET new == [seal |-> TRUE, cipher |-> message.cipher, key |-> message.key, iv |-> message.iv]
    IN  IF watched = None THEN watched' \in {None, new} /\ last' = None
        ELSE last' = new /\ UNCHANGED watched

\* doRequestV3() from its checks to encodeV3Message().  Either key may be found or
\* derived; the first is kept even if there is no second.
Request(user, engineId, stamp, n) ==
    /\ Admitted(user)
    /\ IsAuthenticated(user.level)
    /\ LET auth == LocalizedKey(keys, user, engineId)
           priv == LocalizedPrivacyKey(auth.cache, user, engineId)
           message == PrivEncrypt(user.priv, priv.key, stamp, n, counter)
       IN  \/ /\ auth.error # "none" \/ ~IsEncrypted(user.level)
              /\ keys' = auth.cache
              /\ flight' = None
              /\ UNCHANGED <<counter, last, watched, age>>
           \/ /\ auth.error = "none" /\ IsEncrypted(user.level)
              /\ priv.error # "none"
              /\ keys' = priv.cache
              /\ flight' = None
              /\ UNCHANGED <<counter, last, watched, age>>
           \/ /\ auth.error = "none" /\ IsEncrypted(user.level)
              /\ priv.error = "none"
              /\ keys' = priv.cache
              /\ NextSalt
              /\ \/ /\ flight' = [user |-> user, engineId |-> engineId, message |-> message,
                                  held |-> priv.key, seal |-> TRUE]
                    /\ Watch(message)
                 \/ flight' = None /\ last' = None /\ UNCHANGED watched  \* crypt() failed
    /\ opened' = Unopened

\* Another Client of the process, with a cache of its own, on another thread.
SealElsewhere(user, engineId, stamp) ==
    /\ IsEncrypted(user.level)
    /\ LET key == LocalizedPrivKey(user, engineId) IN
       /\ key.error = "none"
       /\ Watch(PrivEncrypt(user.priv, key.key, stamp, 8, counter))
    /\ NextSalt
    /\ flight' = None
    /\ opened' = Unopened
    /\ UNCHANGED keys

\* The privacy key by RFC 3414, RFC 3826 and the two drafts, as the Engine derives it.
EngineKey(user, engineId) ==
    LET Of(password) == LET master == Hash(user.auth, <<Chunk("repeated", password, 1048576)>>)
                        IN  Hash(user.auth, master \o engineId \o master)
        base == Of(user.privPassword)
        whole == CASE user.priv \in {"Des", "Aes128"} -> base
                   [] user.priv \in {"Aes192", "Aes256"} -> base \o Hash(user.auth, base)
                   [] OTHER -> base \o Of(base)
    IN  Resize(whole, PrivKeySize(user.priv))

\* The Engine's answer arrives, at its own clock and salt, padded as it likes; or what
\* arrives has a salt of another size, was sealed with another key, or is cut.
Reply(stamp, n) ==
    /\ flight.seal
    /\ \E what \in {"answer", "salt", "key", "cut"} :
         LET user == flight.user
             sealed == PrivEncrypt(user.priv, EngineKey(user, flight.engineId), stamp, n, 0)
             message == CASE what = "answer" -> sealed
                          [] what = "salt" -> [sealed EXCEPT !.params = <<1>>]
                          [] what = "key" -> [sealed EXCEPT !.key = <<>>]
                          [] what = "cut" -> [sealed EXCEPT !.size = n - 1]
         IN  opened' = [error |-> DecryptScopedPdu(user.priv, flight.held, message),
                        honest |-> what = "answer"]
    /\ flight' = None
    /\ UNCHANGED <<counter, keys, last, watched, age>>

Next ==
    \/ \E user \in Users, engineId \in Engines, stamp \in Stamps :
         \/ \E n \in Sizes : Request(user, engineId, stamp, n)
         \/ SealElsewhere(user, engineId, stamp)
    \/ \E stamp \in Stamps, n \in Sizes : Reply(stamp, n)

Spec == Init /\ [][Next]_vars

-----------------------------------------------------------------------------
(* Correctness.                                                            *)

\* What a request that doRequestV3() admits finds in m_keys is what it would have
\* derived, whoever filed it: two kinds of keys share the map, an authentication key is
\* filed as a privacy key of PrivProtocol::None, and a user name is not part of the tuple.
CacheIsExact ==
    \A user \in {u \in Users : Admitted(u)}, engineId \in Engines :
      LET authTuple == Tuple(engineId, user.auth, user.authPassword, "None")
          privTuple == Tuple(engineId, user.auth, user.privPassword, user.priv)
      IN  /\ authTuple \in DOMAIN keys => Fine(keys[authTuple]) = LocalizedAuthKey(user, engineId)
          /\ IsEncrypted(user.level) /\ privTuple \in DOMAIN keys =>
               Fine(keys[privTuple]) = LocalizedPrivKey(user, engineId)

\* No key meets an IV again, from whichever Client and at whatever clock, before the
\* part of the counter that the IV holds has gone all the way round: 2^32 seals for DES,
\* 2^64 for AES.
IvIsFresh ==
    age > 0 /\ last = watched =>
      age >= IF last.cipher = "DES-CBC" THEN Word ELSE Word * Word

\* Both ends open what the other sealed: the Engine has the key that the Client sealed
\* with, extended the way the protocol says, and the Client opens every answer, pad or
\* no pad, and nothing else.
OpensAsSealed ==
    /\ flight.seal =>
         DecryptScopedPdu(flight.user.priv, EngineKey(flight.user, flight.engineId),
                          flight.message) = "Ok"
    /\ opened # Unopened => (opened.error = "Ok" <=> opened.honest)
=============================================================================
