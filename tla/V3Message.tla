----------------------------- MODULE V3Message ------------------------------
(***************************************************************************)
(* An SNMPv3 message and its digest: encodeV3Message() computes where the  *)
(* digest goes from the sizes of the layers wrapped around it,             *)
(* decodeV3Message() finds it in what arrived, and verifyAuth() checks it. *)
(* The octets of identifiers and lengths are real; the contents are not.   *)
(***************************************************************************)
EXTENDS Integers, Sequences, BerLength

CONSTANTS
    EngineIds,  \* how long an engineID is
    UserNames,  \* how long a user name is
    Scoped,     \* how long the content of a ScopedPDU is
    Widths,     \* authParamsSize() of the protocols; 0 is AuthProtocol::None
    Flipped     \* which octets may be changed on the way

\* No part of a message is longer: a datagram is far shorter.
Most == 16777215

ASSUME V3MessageAssumption ==
    /\ EngineIds \union UserNames \union Scoped \subseteq 0..Most
    /\ Widths \subseteq 0..48
    /\ Flipped \subseteq Nat \ {0}

VARIABLES
    pc,        \* "new", "refused", "sent", "dropped", "decoded", "accepted", "rejected"
    message,   \* what is to be sent
    datagram,  \* what is on the wire
    signed,    \* who sent it, the digest is over what, and whether it has a field too many
    intact,    \* whether the datagram is as it was sent
    decoded,   \* what decodeV3Message() returned, or its error
    asked      \* the key and the protocol verifyAuth() was called with

vars == <<pc, message, datagram, signed, intact, decoded, asked>>

\* The tags, by the names of ber::tag.
integer == 2
octetString == 4
sequence == 48

Content(n) == [i \in 1..n |-> 7]

\* A digest is ideal: no two messages and no two keys have the same one.
Digest(width) == [i \in 1..width |-> 200 + i]

Blank(width) == [i \in 1..width |-> 0]

\* SecurityLevel, as the low bits of msgFlags; 2 is no level.
IsAuthenticated(level) == level # 0

IsEncrypted(level) == level = 3

securityLevelMask(flags) == flags % 4

Messages ==
    [level: {0, 1, 3}, engineId: EngineIds, userName: UserNames, scoped: Scoped,
     width: Widths, hasPriv: BOOLEAN]

Nothing == [by |-> "nobody", over |-> <<>>, extra |-> FALSE]

Init ==
    /\ pc = "new"
    /\ message \in Messages
    /\ datagram = <<>>
    /\ signed = Nothing
    /\ intact = TRUE
    /\ decoded = [error |-> "none"]
    /\ asked = [ownKey |-> FALSE, width |-> 0]

-----------------------------------------------------------------------------
(* Sending.                                                                *)

AuthWidth(m) == IF IsAuthenticated(m.level) THEN m.width ELSE 0

Salt(m) == Content(IF IsEncrypted(m.level) THEN 8 ELSE 0)

\* encodeUsmContent(), up to the digest and behind it.
BeforeDigest(m) ==
    Tlv(octetString, Content(m.engineId)) \o Tlv(integer, Content(1)) \o Tlv(integer, Content(3))
        \o Tlv(octetString, Content(m.userName))

UsmContent(m, digest) ==
    BeforeDigest(m) \o Tlv(octetString, digest) \o Tlv(octetString, Salt(m))

\* version, msgGlobalData and msgData.  (msgID and msgMaxSize have three octets.)
GlobalData(m) ==
    Tlv(integer, <<3>>)
        \o Tlv(sequence, Tlv(integer, Content(3)) \o Tlv(integer, Content(3))
                           \o Tlv(octetString, <<m.level + 4>>) \o Tlv(integer, <<3>>))

MsgData(m) ==
    IF IsEncrypted(m.level) THEN Tlv(octetString, Content(m.scoped))
    ELSE Tlv(sequence, Content(m.scoped))

\* authOffset in encodeV3Message(): where the digest begins, moved by each layer.
AuthOffset(m) ==
    LET usmContent == UsmContent(m, Blank(AuthWidth(m)))
        usmParams == Tlv(sequence, usmContent)
        front == GlobalData(m) \o Tlv(octetString, usmParams)
        body == front \o MsgData(m)
        whole == Tlv(sequence, body)
    IN  Len(BeforeDigest(m)) + 2 + (Len(usmParams) - Len(usmContent))
          + (Len(front) - Len(usmParams)) + (Len(whole) - Len(body))

\* The whole message, with the digest given.
Whole(m, digest) ==
    Tlv(sequence, GlobalData(m) \o Tlv(octetString, Tlv(sequence, UsmContent(m, digest)))
                    \o MsgData(m))

\* The octets from offset (0-based) replaced by those of s.
Overwritten(b, offset, s) ==
    [i \in DOMAIN b |-> IF i > offset /\ i <= offset + Len(s) THEN s[i - offset] ELSE b[i]]

\* encodeV3Message().  The privacy protocol may fail, and so may a stage of the
\* encoding or the digest.
Encode ==
    /\ pc = "new"
    /\ LET blank == Whole(message, Blank(AuthWidth(message)))
           refused == \/ IsEncrypted(message.level) /\ ~message.hasPriv
                      \/ IsAuthenticated(message.level) /\ message.width = 0
       IN  \/ pc' = "refused" /\ UNCHANGED <<datagram, signed>>
           \/ /\ ~refused
              /\ pc' = "sent"
              /\ signed' = [by |-> "client", over |-> blank, extra |-> FALSE]
              /\ datagram' = IF ~IsAuthenticated(message.level) THEN blank
                             ELSE Overwritten(blank, AuthOffset(message), Digest(message.width))
    /\ UNCHANGED <<message, intact, decoded, asked>>

\* A length in the long form although the short one would do, as an Agent may write.
LongTlv(t, content) == <<t, 129, Len(content)>> \o content

AgentTlv(long, t, content) ==
    IF long /\ Len(content) < 128 THEN LongTlv(t, content) ELSE Tlv(t, content)

\* The peer's encoder: the same layout for m and the payload, with whatever length form
\* it likes for the digest, and with one field after the last.
AgentUsm(m, long, extra, digest) ==
    BeforeDigest(m) \o AgentTlv(long, octetString, digest)
        \o (Tlv(octetString, Salt(m)) \o IF extra THEN Tlv(integer, <<1>>) ELSE <<>>)

AgentWhole(m, payload, long, extra, digest) ==
    Tlv(sequence, GlobalData(m)
                    \o AgentTlv(long, octetString, Tlv(sequence, AgentUsm(m, long, extra, digest)))
                    \o payload)

\* The flags may announce a payload that is not there.
AgentEncodes ==
    /\ pc = "new"
    /\ IsAuthenticated(message.level) => message.width # 0
    /\ \E long \in BOOLEAN, extra \in BOOLEAN, level \in 0..3 :
         LET Build(digest) == AgentWhole([message EXCEPT !.level = level], MsgData(message),
                                         long, extra, digest)
             width == AuthWidth(message)
         IN  /\ datagram' = Build(Digest(width))
             /\ signed' = [by |-> "agent", over |-> Build(Blank(width)), extra |-> extra]
    /\ pc' = "sent"
    /\ UNCHANGED <<message, intact, decoded, asked>>

\* An octet changes on the way.
Flip ==
    /\ pc = "sent"
    /\ intact
    /\ \E i \in Flipped \intersect DOMAIN datagram :
          datagram' = [datagram EXCEPT ![i] = (@ + 1) % 256]
    /\ intact' = FALSE
    /\ UNCHANGED <<pc, message, signed, decoded, asked>>

-----------------------------------------------------------------------------
(* Receiving.                                                              *)

\* The header that ber::Reader finds at p in b, inside the bound e.
Reader(b, p, e) == INSTANCE BerReader WITH
    buf <- b, pos <- p, end <- e, ec <- "none", scopes <- <<>>, read <- [from |-> 0, to |-> 0],
    Octets <- 0..255, MaxBuf <- 0, MaxDepth <- 0, Expected <- 0..255

\* What it calls the element at p, and whether that is one with tag t.  (An INTEGER has
\* one to four octets here; sign padding is BerCodec's business.)
Element(b, p, e) ==
    [from |-> Reader(b, p, e)!ContentStart, to |-> Reader(b, p, e)!ContentEnd]

IsElement(b, p, e, t) ==
    /\ p < e
    /\ b[p + 1] = t
    /\ Reader(b, p, e)!HeaderError = "none"
    /\ t = integer => Element(b, p, e).to - Element(b, p, e).from \in 1..4

\* Mutant of DigestAt: the length octet before the digest is taken to be the only one.
DigestAtShort(params, before, digest) == params.from + before.to + 2

\* authParamsOffset: the position behind the digest, less its size, in the
\* coordinates of the datagram.
DigestAt(params, before, digest) == params.from + digest.to - (digest.to - digest.from)

\* Whether the INTEGER at x is three, the version and the security model.
IsThree(b, x) == b[x.to] = 3 /\ \A i \in (x.from + 1)..(x.to - 1) : b[i] = 0

\* Mutant of PayloadTag: the payload is what it says it is.
PayloadTagAny(level, b, p) == b[p + 1]

\* Which payload is asked for: the flags decide, not the tag that is there.
PayloadTag(level, b, p) == IF IsEncrypted(level) THEN octetString ELSE sequence

\* The six fields of UsmSecurityParameters, and the sequence that they fill.
Usm(b) ==
    LET top == Element(b, 0, Len(b))
        engineId == Element(b, top.from, top.to)
        boots == Element(b, engineId.to, top.to)
        time == Element(b, boots.to, top.to)
        userName == Element(b, time.to, top.to)
        authParams == Element(b, userName.to, top.to)
        privParams == Element(b, authParams.to, top.to)
    IN  IF /\ IsElement(b, 0, Len(b), sequence)
           /\ IsElement(b, top.from, top.to, octetString)
           /\ IsElement(b, engineId.to, top.to, integer)
           /\ IsElement(b, boots.to, top.to, integer)
           /\ IsElement(b, time.to, top.to, octetString)
           /\ IsElement(b, userName.to, top.to, octetString)
           /\ IsElement(b, authParams.to, top.to, octetString)
           /\ privParams.to = top.to /\ top.to = Len(b)
        THEN [ok |-> TRUE, userName |-> userName, authParams |-> authParams]
        ELSE [ok |-> FALSE]

\* The header, and its msgFlags.
Header(b, header) ==
    LET msgId == Element(b, header.from, header.to)
        maxSize == Element(b, msgId.to, header.to)
        flags == Element(b, maxSize.to, header.to)
        model == Element(b, flags.to, header.to)
    IN  IF /\ IsElement(b, header.from, header.to, integer)
           /\ IsElement(b, msgId.to, header.to, integer)
           /\ IsElement(b, maxSize.to, header.to, octetString)
           /\ IsElement(b, flags.to, header.to, integer)
           /\ flags.to - flags.from = 1 /\ securityLevelMask(b[flags.to]) # 2
           /\ model.to = header.to
           /\ IsThree(b, model)
        THEN [ok |-> TRUE, level |-> securityLevelMask(b[flags.to])]
        ELSE [ok |-> FALSE]

\* decodeV3Message().  Which error it ends with is not kept.
Decoded(b) ==
    LET top == Element(b, 0, Len(b))
        version == Element(b, top.from, top.to)
        header == Element(b, version.to, top.to)
        params == Element(b, header.to, top.to)
        data == Element(b, params.to, top.to)
        level == Header(b, header).level
        sub == SubSeq(b, params.from + 1, params.to)
        usm == Usm(sub)
    IN  IF /\ IsElement(b, 0, Len(b), sequence)
           /\ IsElement(b, top.from, top.to, integer) /\ IsThree(b, version)
           /\ IsElement(b, version.to, top.to, sequence) /\ Header(b, header).ok
           /\ IsElement(b, header.to, top.to, octetString) /\ usm.ok
           /\ IsElement(b, params.to, top.to, PayloadTag(level, b, params.to))
           /\ data.to = top.to /\ top.to = Len(b)
        THEN [error |-> "none", level |-> level,
              offset |-> DigestAt(params, usm.userName, usm.authParams),
              authParams |-> SubSeq(sub, usm.authParams.from + 1, usm.authParams.to)]
        ELSE [error |-> "malformed"]

Decode ==
    /\ pc = "sent"
    /\ decoded' = Decoded(datagram)
    /\ pc' = IF Decoded(datagram).error = "none" THEN "decoded" ELSE "dropped"
    /\ UNCHANGED <<message, datagram, signed, intact, asked>>

\* The datagram that the digest is recomputed over.
Blanked(b, offset, size) == Overwritten(b, offset, Blank(size))

\* Mutant of DigestMatches: only the first octet of the digest is compared.
DigestMatchesInPart(ownKey, d) ==
    LET size == Len(d.authParams)
    IN  /\ ownKey
        /\ Blanked(datagram, d.offset, size) = signed.over
        /\ size > 0 => d.authParams[1] = Digest(size)[1]

\* The digest is recomputed, with the key it was made with or another, and compared.
DigestMatches(ownKey, d) ==
    LET size == Len(d.authParams)
    IN  /\ ownKey
        /\ Blanked(datagram, d.offset, size) = signed.over
        /\ d.authParams = Digest(size)

\* verifyAuth(), with the key and the protocol of the request that is answered.  The
\* message is the one decodeV3Message() returned for this datagram.
Verify(ownKey, width) ==
    /\ pc = "decoded"
    /\ pc' = IF /\ IsAuthenticated(decoded.level)
                /\ Len(decoded.authParams) = width
                /\ decoded.offset + Len(decoded.authParams) <= Len(datagram)
                /\ DigestMatches(ownKey, decoded)
             THEN "accepted" ELSE "rejected"
    /\ asked' = [ownKey |-> ownKey, width |-> width]
    /\ UNCHANGED <<message, datagram, signed, intact, decoded>>

Next ==
    \/ Encode
    \/ AgentEncodes
    \/ Flip
    \/ Decode
    \/ \E ownKey \in BOOLEAN, width \in Widths \ {0} : Verify(ownKey, width)

Spec == Init /\ [][Next]_vars

-----------------------------------------------------------------------------
(* Correctness.                                                            *)

\* A message that was signed with the key and the protocol that verifyAuth() is
\* called with, and that arrived as it was sent, is never refused: encodeV3Message()
\* puts the digest where the reader finds it and over no length or identifier, however
\* long the layers around it are, and decodeV3Message() finds it whatever form its
\* length has.
SignedIsAccepted ==
    /\ ~ /\ pc = "rejected"
         /\ intact /\ asked.ownKey /\ asked.width = Len(decoded.authParams)
         /\ IsAuthenticated(decoded.level)
    /\ pc = "dropped" /\ intact => signed.by = "agent"

\* What verifyAuth() accepts is what was signed, to the last octet, the octets of the
\* digest included.
AcceptedIsIntact == pc = "accepted" => intact /\ asked.ownKey

\* What decodeV3Message() returns has the payload that its flags announce, and no
\* field behind the sixth: the Scope has reported it before the message is returned.
DecodedAsFlagged ==
    pc \in {"decoded", "accepted", "rejected"} /\ intact =>
      /\ decoded.level # 2
      /\ IsEncrypted(decoded.level) <=> IsEncrypted(message.level)
      /\ ~signed.extra
=============================================================================
