------------------------------- MODULE WsOutbox -------------------------------
(***************************************************************************)
(* What a WebSocket session promises to those who send through it,         *)
(* whatever their threads: frames leave in the order in which they were    *)
(* posted, one at a time and without a gap, until a Close frame has left   *)
(* or the connection is gone; from then on no frame leaves.                *)
(***************************************************************************)
EXTENDS Naturals, Sequences

CONSTANTS
    Frame,          \* what can be posted
    CloseFrame      \* the Close frames among them

VARIABLES
    pending,        \* frames posted and not yet sent
    sent,           \* frames sent
    shut            \* no frame leaves any more

vars == <<pending, sent, shut>>

Init == pending = << >> /\ sent = << >> /\ shut = FALSE

\* Any number of frames posted by one call, at any time.
Post ==
    /\ pending' \in Seq(Frame) /\ Len(pending') >= Len(pending)
    /\ SubSeq(pending', 1, Len(pending)) = pending
    /\ UNCHANGED <<sent, shut>>

Send ==
    /\ ~shut /\ pending # << >>
    /\ sent' = Append(sent, Head(pending))
    /\ pending' = Tail(pending)
    /\ shut' = (Head(pending) \in CloseFrame)

\* The connection ends; the frame whose write failed is dropped with it.
Shut ==
    /\ shut' = TRUE
    /\ pending' = pending \/ (pending # << >> /\ pending' = Tail(pending))
    /\ UNCHANGED sent

Next == Post \/ Send \/ Shut

Spec == Init /\ [][Next]_vars
=============================================================================
