----------------------------- MODULE V2cMessage -----------------------------
(***************************************************************************)
(* The PDU and SNMPv2c message codec: encodeV2cMessage() as the calls it   *)
(* makes of ber::Writer, messageVersion() and decodeV2cMessage() as the    *)
(* calls they make of ber::Reader.  The octets are real; BerCodec says     *)
(* what the contents of numbers and names are, at widths that fit TLC.     *)
(***************************************************************************)
EXTENDS Integers, Sequences, SequencesExt

CONSTANTS
    Messages,  \* what callers and Agents send
    Flips,     \* what may be added to an octet on the way
    Prefix     \* how many octets from the front may be changed (a bound of the model)

VARIABLES
    phase,    \* "encoding", "refused", "sent", "decoding", "accepted", "rejected", "ignored"
    message,  \* what is to be sent
    how,      \* what happened to it: "intact", "flipped", "cut", "lengthened", "extra"
    plan,     \* the calls still to be made of the Writer, or of the Reader
    wbuf, wec, wopen,                      \* the Writer
    datagram, rpos, rend, rec, rscopes, rread,  \* the Reader, and what it reads
    fields    \* what has been decoded

writer == <<wbuf, wec, wopen>>
reader == <<datagram, rpos, rend, rec, rscopes, rread>>
vars == <<phase, message, how, plan, writer, reader, fields>>

W == INSTANCE BerWriter WITH buf <- wbuf, ec <- wec, open <- wopen, Elements <- {}

R == INSTANCE BerReader WITH buf <- datagram, pos <- rpos, end <- rend, ec <- rec,
    scopes <- rscopes, read <- rread, Octets <- 0..255, MaxBuf <- 0, MaxDepth <- 9,
    Expected <- 0..255

\* The numbers of the code are wider than TLC's.
C == INSTANCE BerCodec WITH Base <- 256, IntOctets <- 2, WideOctets <- 3, Pack <- 40,
    MaxSubid <- 16383, MaxSubids <- 8, Subids <- {}, MaxContent <- 0, content <- <<>>, name <- <<>>

\* The tags, by the names of ber::tag.
integer == 2
octetString == 4
null == 5
objectIdentifier == 6
sequence == 48
ipAddress == 64
counter64 == 70
unsigned32 == {65, 66, 67}
opaque == 68
exceptions == {128, 129, 130}
pduTags == {160, 161, 162, 163, 165, 168}

versionV2c == 1

-----------------------------------------------------------------------------
(* Encoding.                                                               *)

Call(op) == [op |-> op]
Put(t, c) == [op |-> "write", tag |-> t, content |-> c]
BeginScope(t) == [op |-> "begin", tag |-> t]

\* Writer::objectIdentifier().
PutOid(o) ==
    LET c == C!WriteOid(o)
    IN  IF c.error = "Ok" THEN Put(objectIdentifier, c.value) ELSE Call("refuse")

\* Writer::write(Value): a value is a tag and what is held under it.
PutValue(v) ==
    LET t == v[1] IN
    CASE t = integer -> Put(t, C!WriteInteger(v[2]))
      [] t \in unsigned32 \union {counter64} -> Put(t, C!WriteUnsigned(v[2]))
      [] t = objectIdentifier -> PutOid(v[2])
      [] OTHER -> Put(t, v[2])

\* Writer::write(Varbind) and varbindList().
PutVarbind(vb) == <<BeginScope(sequence), PutOid(vb.name), PutValue(vb.val), Call("end")>>

PutVarbinds(vbs) == <<BeginScope(sequence)>> \o FlattenSeq([i \in DOMAIN vbs |-> PutVarbind(vbs[i])])
                        \o <<Call("end")>>

\* encodePdu() and encodeV2cMessage().
EncodePdu(m) ==
    <<BeginScope(m.type), Put(integer, C!WriteInteger(m.requestId)),
      Put(integer, C!WriteInteger(m.errorStatus)), Put(integer, C!WriteInteger(m.errorIndex))>>
        \o PutVarbinds(m.varbinds) \o <<Call("end")>>

EncodeMessage(m) ==
    <<BeginScope(sequence), Put(integer, <<m.version>>), Put(octetString, m.community)>>
        \o EncodePdu(m) \o <<Call("end")>>

Init ==
    /\ phase = "encoding"
    /\ message \in Messages
    /\ how = "intact"
    /\ plan = EncodeMessage(message)
    /\ W!Init
    /\ datagram = <<>> /\ rpos = 0 /\ rend = 0 /\ rec = "none" /\ rscopes = <<>> /\ rread = R!Nothing
    /\ fields = <<>>

\* The next call of the Writer.
EncodeStep ==
    /\ phase = "encoding"
    /\ plan # <<>>
    /\ LET c == Head(plan) IN
       \/ c.op = "begin" /\ W!BeginConstructed(c.tag)
       \/ c.op = "write" /\ W!Write(c)
       \/ c.op = "refuse" /\ W!WriteNotEncodable
       \/ c.op = "end" /\ W!EndScope
    /\ plan' = Tail(plan)
    /\ UNCHANGED <<phase, message, how, reader, fields>>

\* An Agent's encoder puts an element somewhere where none belongs.
ExtraElement ==
    /\ phase = "encoding"
    /\ how = "intact"
    /\ wopen # <<>>
    /\ W!Write([tag |-> null, content |-> <<>>])
    /\ how' = "extra"
    /\ UNCHANGED <<phase, message, plan, reader, fields>>

\* The message is complete: what there is of it is sent unless there was an error.
Send ==
    /\ phase = "encoding"
    /\ plan = <<>>
    /\ phase' = IF wec = "none" THEN "sent" ELSE "refused"
    /\ datagram' = IF wec = "none" THEN wbuf ELSE datagram
    /\ UNCHANGED <<message, how, plan, writer, rpos, rend, rec, rscopes, rread, fields>>

-----------------------------------------------------------------------------
(* What may happen to a datagram.                                          *)

Alter ==
    /\ phase = "sent"
    /\ how = "intact"
    /\ \/ /\ \E i \in DOMAIN datagram \intersect 1..Prefix, d \in Flips :
                datagram' = [datagram EXCEPT ![i] = (@ + d) % 256]
          /\ how' = "flipped"
       \/ /\ \E n \in 0..(Len(datagram) - 1) : datagram' = SubSeq(datagram, 1, n)
          /\ how' = "cut"
       \/ /\ datagram' = datagram \o <<null, 0>>
          /\ how' = "lengthened"
    /\ UNCHANGED <<phase, message, plan, writer, rpos, rend, rec, rscopes, rread, fields>>

-----------------------------------------------------------------------------
(* Decoding.  Once there is an error the calls that are left do nothing,   *)
(* so that returning early and going on leave the Reader alike.            *)

Content == SubSeq(datagram, rread.from + 1, rread.to)

\* What a content is under its tag, in anyValue() and in the calls for one type.
Value(t, c) ==
    IF t = integer THEN C!ReadInteger(c)
    ELSE IF t \in unsigned32 THEN C!ReadUnsigned(c, 2)
    ELSE IF t = counter64 THEN C!ReadUnsigned(c, 3)
    ELSE IF t = objectIdentifier THEN C!ReadOid(c)
    ELSE IF t = null /\ c # <<>> THEN C!Bad("BadNull")
    ELSE IF t = ipAddress /\ Len(c) # 4 THEN C!Bad("BadIpAddress")
    ELSE IF t \in exceptions /\ c # <<>> THEN C!Bad("TrailingData")
    ELSE C!Ok(c)

valueTags == {integer, octetString, null, objectIdentifier, ipAddress, counter64, opaque}
                 \union unsigned32 \union exceptions

Get(t) == <<[op |-> "read", tag |-> t], [op |-> "field", tag |-> t]>>
GetValue(t) == <<[op |-> "read", tag |-> t], [op |-> "value", tag |-> t]>>
EnterScope(t) == [op |-> "enter", tag |-> t]

\* readVarbind(), and the loop of varbindList() around it.
GetVarbind == <<EnterScope(sequence)>> \o Get(objectIdentifier) \o <<Call("any"), Call("leave")>>

\* decodePdu(), once the tag is known.
GetPdu(t) ==
    <<EnterScope(t)>> \o Get(integer) \o Get(integer) \o Get(integer)
        \o <<EnterScope(sequence), Call("list"), Call("leave"), Call("leave")>>

\* Mutant of GetMessage: nothing looks behind the message.
GetMessageUnfinished ==
    <<EnterScope(sequence)>> \o Get(integer) \o Get(octetString)
        \o <<Call("version"), Call("pdu"), Call("leave")>>

\* decodeV2cMessage().
GetMessage ==
    <<EnterScope(sequence)>> \o Get(integer) \o Get(octetString)
        \o <<Call("version"), Call("pdu"), Call("leave"), Call("finish")>>

\* messageVersion(): the first INTEGER of the outermost element, or nothing.
Header(b, p, e) == INSTANCE BerReader WITH
    buf <- b, pos <- p, end <- e, ec <- "none", scopes <- <<>>, read <- [from |-> 0, to |-> 0],
    Octets <- 0..255, MaxBuf <- 0, MaxDepth <- 0, Expected <- 0..255

MessageVersion(b) ==
    LET outer == Header(b, 0, Len(b))!ContentStart
        bound == Header(b, 0, Len(b))!ContentEnd
        from == Header(b, outer, bound)!ContentStart
        to == Header(b, outer, bound)!ContentEnd
    IN  IF Len(b) = 0 \/ b[1] # sequence \/ Header(b, 0, Len(b))!HeaderError # "none"
             \/ outer >= bound \/ b[outer + 1] # integer
             \/ Header(b, outer, bound)!HeaderError # "none"
        THEN C!Bad("none")
        ELSE C!ReadInteger(SubSeq(b, from + 1, to))

\* The receive loop hands a datagram to the decoder of its version.
Receive ==
    /\ phase = "sent"
    /\ phase' = IF MessageVersion(datagram) = C!Ok(versionV2c) THEN "decoding" ELSE "ignored"
    /\ plan' = GetMessage
    /\ rend' = Len(datagram)
    /\ UNCHANGED <<message, how, writer, datagram, rpos, rec, rscopes, rread, fields>>

Keep(v) == fields' = Append(fields, v)

\* The next call of the Reader, while there is no error.
Scopes(c) ==
    /\ \/ c.op = "enter" /\ R!Enter(c.tag)
       \/ c.op = "leave" /\ R!Leave
       \/ c.op = "finish" /\ (R!Finish \/ (rpos = rend /\ UNCHANGED reader))
    /\ plan' = Tail(plan)
    /\ UNCHANGED <<phase, fields>>

Contents(c) ==
    /\ \/ /\ c.op = "read"
          /\ R!Primitive(c.tag)
          /\ UNCHANGED fields
       \/ /\ c.op \in {"field", "value"}
          /\ LET v == Value(c.tag, Content) IN
             \/ v.error # "Ok" /\ R!Reject /\ UNCHANGED fields
             \/ /\ v.error = "Ok"
                /\ Keep(IF c.op = "field" THEN v.value ELSE <<c.tag, v.value>>)
                /\ UNCHANGED reader
    /\ plan' = Tail(plan)
    /\ UNCHANGED phase

\* decodePdu() and anyValue() look at the tag before they read: peekTag().
Peeks(c) ==
    LET there == rpos < rend
        t == datagram[rpos + 1]
    IN  /\ \/ /\ c.op = "pdu"
              /\ \/ /\ there /\ t \in pduTags
                    /\ plan' = GetPdu(t) \o Tail(plan)
                    /\ Keep(t)
                    /\ UNCHANGED reader
                 \/ /\ ~(there /\ t \in pduTags)
                    /\ R!Reject
                    /\ plan' = Tail(plan)
                    /\ UNCHANGED fields
           \/ /\ c.op = "any"
              /\ \/ /\ there /\ t \in valueTags
                    /\ plan' = GetValue(t) \o Tail(plan)
                    /\ UNCHANGED <<reader, fields>>
                 \/ /\ ~(there /\ t \in valueTags)
                    /\ R!Reject
                    /\ plan' = Tail(plan)
                    /\ UNCHANGED fields
           \/ /\ c.op = "list"
              /\ plan' = IF there THEN GetVarbind \o plan ELSE Tail(plan)
              /\ UNCHANGED <<reader, fields>>
        /\ UNCHANGED phase

DecodeStep ==
    /\ phase = "decoding"
    /\ plan # <<>>
    /\ LET c == Head(plan) IN
       \/ rec = "none" /\ (Scopes(c) \/ Contents(c) \/ Peeks(c))
       \/ /\ rec = "none" /\ c.op = "version"
          /\ phase' = IF fields[1] = versionV2c THEN phase ELSE "rejected"
          /\ plan' = Tail(plan)
          /\ UNCHANGED <<reader, fields>>
       \/ /\ rec # "none"
          /\ plan' = Tail(plan)
          /\ CASE c.op = "enter" -> R!Enter(c.tag)
               [] c.op = "leave" -> R!Leave
               [] OTHER -> UNCHANGED reader
          /\ UNCHANGED <<phase, fields>>
    /\ UNCHANGED <<message, how, writer>>

\* decodeV2cMessage() returns.
Decoded ==
    /\ phase = "decoding"
    /\ plan = <<>>
    /\ phase' = IF rec = "none" THEN "accepted" ELSE "rejected"
    /\ UNCHANGED <<message, how, plan, writer, reader, fields>>

Done ==
    /\ phase \in {"refused", "accepted", "rejected", "ignored"}
    /\ UNCHANGED vars

Next == EncodeStep \/ ExtraElement \/ Send \/ Alter \/ Receive \/ DecodeStep \/ Decoded \/ Done

Spec == Init /\ [][Next]_vars

-----------------------------------------------------------------------------
(* Correctness.                                                            *)

\* A message as the fields that decoding it gives, in order.
FieldsOf(m) ==
    <<m.version, m.community, m.type, m.requestId, m.errorStatus, m.errorIndex>>
        \o FlattenSeq([i \in DOMAIN m.varbinds |-> <<m.varbinds[i].name, m.varbinds[i].val>>])

Encodable(m) ==
    \A i \in DOMAIN m.varbinds :
        /\ C!IsEncodable(m.varbinds[i].name)
        /\ m.varbinds[i].val[1] = objectIdentifier => C!IsEncodable(m.varbinds[i].val[2])

\* Scopes five deep, as messages nest them, find their placeholders.
PlacesHeld == W!PlacesHeld

\* Every message arrives as the one that was sent, at every size of its layers, to the
\* decoder of its version; and it is refused only if a name in it cannot be written,
\* wherever that name is.
ArrivesAsSent ==
    /\ phase = "refused" <=> (phase \notin {"encoding"} /\ ~Encodable(message))
    /\ how = "intact" =>
         /\ phase = "accepted" => fields = FieldsOf(message)
         /\ phase = "rejected" => FALSE
         /\ phase = "ignored" => message.version # versionV2c

\* No octet is ignored: a datagram that was cut, lengthened or has an element too many at
\* any level is refused, and one with any octet changed is refused or is another message.
NothingIsIgnored ==
    phase = "accepted" =>
      /\ how \notin {"cut", "lengthened", "extra"}
      /\ how = "flipped" => fields # FieldsOf(message)
=============================================================================
