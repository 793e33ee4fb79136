----------------------------- MODULE BerReader ------------------------------
(***************************************************************************)
(* The cursor of ber::Reader over a buffer that may hold anything, driven  *)
(* by any sequence of reads: headers, primitive contents, skipped          *)
(* elements, and Scopes entered and left.  What a content means is         *)
(* BerCodec's business.                                                    *)
(***************************************************************************)
EXTENDS Integers, Sequences

CONSTANTS
    Octets,    \* the octets a buffer may hold
    MaxBuf,    \* how long a buffer is at most (a bound of the model)
    MaxDepth,  \* how deep Scopes nest (a bound of the model)
    Expected   \* the tags the decoders ask for

ASSUME BerReaderAssumption ==
    /\ Octets \subseteq 0..255
    /\ Expected \subseteq 0..255
    /\ MaxBuf \in Nat
    /\ MaxDepth \in Nat

VARIABLES
    buf,      \* m_buf
    pos,      \* m_pos
    end,      \* m_end
    ec,       \* m_ec, "none" while there is no error
    scopes,   \* the Scopes alive, outermost first
    read      \* the extent the last call handed out, or the empty one

vars == <<buf, pos, end, ec, scopes, read>>

Errors == {"Truncated", "HighTagNumber", "IndefiniteLength", "ReservedLength", "LengthTooLarge",
           "UnexpectedTag", "TrailingData", "other"}

Nothing == [from |-> 0, to |-> 0]

Init ==
    /\ buf \in UNION {[1..n -> Octets] : n \in 0..MaxBuf}
    /\ pos = 0
    /\ end = Len(buf)
    /\ ec = "none"
    /\ scopes = <<>>
    /\ read = Nothing

\* The octet at the 0-based position p.
At(p) == buf[p + 1]

IsConstructed(t) == (t \div 32) % 2 = 1

\* The first error is kept, and the cursor is clamped.
Fail(e) ==
    /\ ec' = IF ec = "none" THEN e ELSE ec
    /\ pos' = end
    /\ read' = Nothing

-----------------------------------------------------------------------------
(* readHeader().                                                           *)

\* How many octets of length follow the first one, and the length they make.
LengthOctets(first) == IF first < 128 THEN 0 ELSE first % 128

LongLength(p) ==
    CASE LengthOctets(At(p)) = 1 -> At(p + 1)
      [] LengthOctets(At(p)) = 2 -> At(p + 1) * 256 + At(p + 2)
      [] LengthOctets(At(p)) = 3 -> (At(p + 1) * 256 + At(p + 2)) * 256 + At(p + 3)
      [] OTHER -> ((At(p + 1) * 256 + At(p + 2)) * 256 + At(p + 3)) * 256 + At(p + 4)

Length(p) == IF At(p) < 128 THEN At(p) ELSE LongLength(p)

\* Mutant of ContentStart: the octet before the length is counted out.
ContentStartShort == pos + 1 + LengthOctets(At(pos + 1))

\* Where the content of the element at the cursor begins.
ContentStart == pos + 2 + LengthOctets(At(pos + 1))

\* Mutant of HeaderError: the length is held against the buffer, not the element.
HeaderErrorOfBuffer ==
    IF end - pos < 2 THEN "Truncated"
    ELSE IF At(pos) % 32 = 31 THEN "HighTagNumber"
    ELSE IF At(pos + 1) = 128 THEN "IndefiniteLength"
    ELSE IF At(pos + 1) = 255 THEN "ReservedLength"
    ELSE IF LengthOctets(At(pos + 1)) > 4 THEN "LengthTooLarge"
    ELSE IF end < ContentStart THEN "Truncated"
    ELSE IF Length(pos + 1) > Len(buf) - ContentStart THEN "Truncated"
    ELSE "none"

\* What is wrong with the header at the cursor, in the order it is looked for.
HeaderError ==
    IF end - pos < 2 THEN "Truncated"
    ELSE IF At(pos) % 32 = 31 THEN "HighTagNumber"
    ELSE IF At(pos + 1) = 128 THEN "IndefiniteLength"
    ELSE IF At(pos + 1) = 255 THEN "ReservedLength"
    ELSE IF LengthOctets(At(pos + 1)) > 4 THEN "LengthTooLarge"
    ELSE IF end < ContentStart THEN "Truncated"
    ELSE IF Length(pos + 1) > end - ContentStart THEN "Truncated"
    ELSE "none"

ContentEnd == ContentStart + Length(pos + 1)

-----------------------------------------------------------------------------
(* The calls.  Once there is an error each of them does nothing.           *)

\* primitiveContent(): the tag, then the content, which is handed out.
Primitive(expected) ==
    /\ ec = "none"
    /\ IF pos >= end THEN Fail("Truncated")
       ELSE IF At(pos) # expected \/ IsConstructed(expected) THEN Fail("UnexpectedTag")
       ELSE IF HeaderError # "none" THEN Fail(HeaderError)
       ELSE /\ pos' = ContentEnd
            /\ read' = [from |-> ContentStart, to |-> ContentEnd]
            /\ UNCHANGED ec
    /\ UNCHANGED <<buf, end, scopes>>

\* skipElement(): the whole element is handed out.
SkipElement ==
    /\ ec = "none"
    /\ IF HeaderError # "none" THEN Fail(HeaderError)
       ELSE /\ pos' = ContentEnd
            /\ read' = [from |-> pos, to |-> ContentEnd]
            /\ UNCHANGED ec
    /\ UNCHANGED <<buf, end, scopes>>

\* A decoder finds the content it was handed at fault.
Reject ==
    /\ ec = "none"
    /\ Fail("other")
    /\ UNCHANGED <<buf, end, scopes>>

\* enter(): on failure, before or now, the Scope is empty and the bound stays.
Enter(expected) ==
    /\ Len(scopes) < MaxDepth
    /\ LET Push(contentEnd) ==
             scopes' = Append(scopes, [savedEnd |-> end, contentEnd |-> contentEnd])
           error == IF pos >= end \/ ~IsConstructed(expected) \/ At(pos) # expected
                      THEN "UnexpectedTag" ELSE HeaderError
       IN  IF ec # "none" THEN Push(pos) /\ UNCHANGED <<pos, end, ec, read>>
           ELSE IF error # "none" THEN Push(end) /\ Fail(error) /\ UNCHANGED end
           ELSE /\ Push(ContentEnd)
                /\ pos' = ContentStart
                /\ end' = ContentEnd
                /\ read' = Nothing
                /\ UNCHANGED ec
    /\ UNCHANGED buf

\* ~Scope(): leftover octets are an error; the outer bound is back either way, and
\* the cursor is behind the element.
Leave ==
    /\ scopes # <<>>
    /\ LET top == scopes[Len(scopes)] IN
       /\ ec' = IF ec = "none" /\ pos # top.contentEnd THEN "TrailingData" ELSE ec
       /\ end' = top.savedEnd
       /\ pos' = top.contentEnd
       /\ scopes' = SubSeq(scopes, 1, Len(scopes) - 1)
    /\ read' = Nothing
    /\ UNCHANGED buf

\* finish(), at the outermost level.
Finish ==
    /\ scopes = <<>>
    /\ ec = "none"
    /\ pos # end
    /\ Fail("TrailingData")
    /\ UNCHANGED <<buf, end, scopes>>

Next ==
    \/ \E t \in Expected : Primitive(t) \/ Enter(t)
    \/ SkipElement
    \/ Reject
    \/ Leave
    \/ Finish

Spec == Init /\ [][Next]_vars

-----------------------------------------------------------------------------
(* Correctness.                                                            *)

\* Every variable keeps its type: readHeader() never makes a length that takes the
\* cursor below zero.
TypeOK ==
    /\ pos \in Nat
    /\ end \in Nat
    /\ ec \in Errors \union {"none"}
    /\ scopes \in Seq([savedEnd: Nat, contentEnd: Nat])
    /\ read \in [from: Nat, to: Nat]

\* The cursor stays inside the innermost element, every element inside those
\* around it, and the outermost inside the buffer, after any sequence of reads;
\* and so do the octets a call hands out.
InBounds ==
    /\ pos <= end
    /\ end <= Len(buf)
    /\ read.from <= read.to
    /\ read.to <= pos
    /\ \A i \in DOMAIN scopes :
          /\ scopes[i].contentEnd <= scopes[i].savedEnd
          /\ scopes[i].savedEnd <= Len(buf)
          /\ end <= scopes[i].savedEnd
          /\ ec = "none" => end <= scopes[i].contentEnd
    /\ \A i, j \in DOMAIN scopes : i < j =>
          /\ scopes[j].savedEnd <= scopes[i].savedEnd
          /\ ec = "none" => scopes[j].savedEnd <= scopes[i].contentEnd

\* Nothing is handed out of an element that is not the innermost one: what lies
\* beyond it belongs to someone else.
ReadsItsElement ==
    [][read' # Nothing => pos <= read'.from /\ read'.to <= end]_vars

\* The first error is kept, and nothing is handed out after it.
ErrorSticks ==
    [][ec # "none" => ec' = ec /\ (read' = read \/ read' = Nothing)]_vars

\* No octet is handed out twice: without an error the cursor only moves forward,
\* and every element takes at least two octets, so a loop over elements ends.
Advances ==
    [][ec' = "none" => pos' >= pos /\ (read' # read /\ read' # Nothing => pos' >= pos + 2)]_vars
=============================================================================
