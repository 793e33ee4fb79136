----------------------------- MODULE BerWriter ------------------------------
(***************************************************************************)
(* ber::Writer: elements appended to one buffer, and Scopes that patch     *)
(* their length in place, and widen it, when they are closed.  V2cMessage  *)
(* makes the calls.                                                        *)
(***************************************************************************)
EXTENDS Integers, Sequences, BerLength

CONSTANT Elements  \* the primitive elements written: a tag and a content each

VARIABLES
    buf,    \* m_buf
    ec,     \* m_ec, "none" while there is no error
    open    \* m_lengthPos of each Scope alive, outermost first

vars == <<buf, ec, open>>

Init ==
    /\ buf = <<>>
    /\ ec = "none"
    /\ open = <<>>

IsConstructed(t) == (t \div 32) % 2 = 1

\* fail(): the first error is kept.
Fail(e) == ec' = IF ec = "none" THEN e ELSE ec

\* A primitive element: integer(), unsigned64(), octetString(), nullValue(), tlv().
\* Each is a no-op once there is an error.
Write(element) ==
    /\ buf' = IF ec = "none" THEN buf \o Tlv(element.tag, element.content) ELSE buf
    /\ UNCHANGED <<ec, open>>

\* objectIdentifier() of a name that cannot be written.
WriteNotEncodable ==
    /\ Fail("OidNotEncodable")
    /\ UNCHANGED <<buf, open>>

\* Mutant of BeginConstructed: the tag's place is kept for the length's.
BeginConstructedAtTag(t) ==
    /\ IF IsConstructed(t) THEN UNCHANGED ec ELSE Fail("UnexpectedTag")
    /\ buf' = buf \o <<t, 0>>
    /\ open' = Append(open, Len(buf))

\* beginConstructed(): the identifier and a placeholder are written, error or not.
BeginConstructed(t) ==
    /\ IF IsConstructed(t) THEN UNCHANGED ec ELSE Fail("UnexpectedTag")
    /\ buf' = buf \o <<t, 0>>
    /\ open' = Append(open, Len(buf) + 1)

\* What ~Scope() makes of the buffer b: the content moves back by the octets that
\* the length needs besides the placeholder.
Patched(b, lengthPos) ==
    LET content == SubSeq(b, lengthPos + 2, Len(b))
        needed == LengthOctets(Len(content))
    IN  IF needed > 1
        THEN SubSeq(b, 1, lengthPos) \o <<128 + needed - 1>>
             \o SignificantOctets(Len(content), needed - 1) \o content
        ELSE SubSeq(b, 1, lengthPos) \o <<Len(content)>> \o content

\* ~Scope(), error or not.
EndScope ==
    /\ open # <<>>
    /\ buf' = Patched(buf, open[Len(open)])
    /\ open' = SubSeq(open, 1, Len(open) - 1)
    /\ UNCHANGED ec

Next ==
    \/ \E element \in Elements : Write(element)
    \/ WriteNotEncodable
    \/ \E t \in 0..255 : BeginConstructed(t)
    \/ EndScope

Spec == Init /\ [][Next]_vars

-----------------------------------------------------------------------------
(* Correctness.                                                            *)

\* However the elements inside it were widened, a Scope still finds the placeholder it
\* is to patch where it left it, behind its identifier: the subtraction in ~Scope()
\* does not wrap, error or not.
PlacesHeld ==
    \A i \in DOMAIN open :
        /\ open[i] \in 1..(Len(buf) - 1)
        /\ buf[open[i] + 1] = 0
        /\ i > 1 => open[i] >= open[i - 1] + 2
=============================================================================
