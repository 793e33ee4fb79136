------------------------- MODULE OutstandingRequest -------------------------
(***************************************************************************)
(* What a Client promises about every request, whichever wait it is in:    *)
(* it completes exactly once, and with the code its callers were promised  *)
(* for what happened to it (the cancellation and lifetime rules of         *)
(* Client.hpp).  Sockets, ids, retransmissions and deadlines are not       *)
(* visible here; Exchange is shown to implement this.                      *)
(***************************************************************************)
CONSTANT Requests

VARIABLES
    status,    \* "new", "outstanding", "completed"
    stopping,  \* whether the Client is Stopping
    signals,   \* the cancellation types each request was sent
    replied,   \* whether a reply to it was accepted
    code       \* what it completed with

vars == <<status, stopping, signals, replied, code>>

Init ==
    /\ status = [r \in Requests |-> "new"]
    /\ stopping = FALSE
    /\ signals = [r \in Requests |-> {}]
    /\ replied = [r \in Requests |-> FALSE]
    /\ code = [r \in Requests |-> "none"]

\* Nothing begins once the strand has seen the flag.
Begin(r) ==
    /\ status[r] = "new"
    /\ ~stopping
    /\ status' = [status EXCEPT ![r] = "outstanding"]
    /\ UNCHANGED <<stopping, signals, replied, code>>

Signal(r, type) ==
    /\ status[r] = "outstanding"
    /\ signals' = [signals EXCEPT ![r] = @ \union {type}]
    /\ UNCHANGED <<status, stopping, replied, code>>

Reply(r) ==
    /\ status[r] = "outstanding"
    /\ replied' = [replied EXCEPT ![r] = TRUE]
    /\ UNCHANGED <<status, stopping, signals, code>>

Stop ==
    /\ stopping' = TRUE
    /\ UNCHANGED <<status, signals, replied, code>>

\* What a request that never became outstanding may be told.
Refusals == IF stopping THEN {"ClientStopped"} ELSE {"openError", "encodeError"}

\* What an outstanding request may be told.  A terminal signal outranks a reply
\* in hand, and so does Stopping; a total signal does not.  A request that was
\* cancelled is never told it timed out.
Verdicts(r) ==
    IF "terminal" \in signals[r] THEN {"operation_aborted"}
    ELSE IF replied[r] /\ ~stopping THEN {"reply"}
    ELSE IF signals[r] # {} THEN {"operation_aborted"}
    ELSE IF stopping THEN {"ClientStopped"}
    ELSE {"sendError", "Timeout"}

Complete(r) ==
    /\ \/ status[r] = "new" /\ code' \in {[code EXCEPT ![r] = c] : c \in Refusals}
       \/ status[r] = "outstanding" /\ code' \in {[code EXCEPT ![r] = c] : c \in Verdicts(r)}
    /\ status' = [status EXCEPT ![r] = "completed"]
    /\ UNCHANGED <<stopping, signals, replied>>

Next ==
    \/ \E r \in Requests :
          \/ Begin(r)
          \/ \E type \in {"terminal", "total"} : Signal(r, type)
          \/ Reply(r)
          \/ Complete(r)
    \/ Stop

Spec == Init /\ [][Next]_vars

\* Whatever ends it, an outstanding request does not stay outstanding.
Completes == \A r \in Requests : status[r] = "outstanding" ~> status[r] = "completed"
=============================================================================
