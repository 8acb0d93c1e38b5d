------------------------------ MODULE MsgFifo ------------------------------
(***************************************************************************)
(* What the inbound message queue of a qzjs runtime promises its users: the *)
(* abstract counterpart of src/src/msgq.c.                                  *)
(*                                                                         *)
(* A producer's qz_msg_push takes effect in two steps.  First the message   *)
(* is given its place in the order (Claim); later it is made reachable     *)
(* (Link).  The consumer only ever takes the oldest message, and only once  *)
(* that one is linked: a message that is linked already, and whose push    *)
(* has returned, stays invisible while an older one is still being linked. *)
(***************************************************************************)
EXTENDS Naturals, Sequences

CONSTANTS Producers, MaxPush

VARIABLES
    queue,      \* messages not yet taken, oldest first: [m, linked]
    count,      \* count[p]: how many calls of qz_msg_push p has started
    delivered,  \* messages handed to the dispatcher, in order
    closing     \* TRUE from the start of the teardown drain

vars == <<queue, count, delivered, closing>>

Messages == Producers \X (1 .. MaxPush)

Init ==
    /\ queue = << >>
    /\ count = [p \in Producers |-> 0]
    /\ delivered = << >>
    /\ closing = FALSE

(* A call of qz_msg_push begins; a call rejected for lack of memory ends here. *)
Begin(p) ==
    /\ count[p] < MaxPush
    /\ count' = [count EXCEPT ![p] = @ + 1]
    /\ UNCHANGED <<queue, delivered, closing>>

Claim(p) ==
    /\ ~closing
    /\ \A i \in DOMAIN queue : queue[i].m # <<p, count[p]>>
    /\ queue' = Append(queue, [m |-> <<p, count[p]>>, linked |-> FALSE])
    /\ UNCHANGED <<count, delivered, closing>>

Link(p) ==
    /\ \E i \in DOMAIN queue :
         /\ queue[i] = [m |-> <<p, count[p]>>, linked |-> FALSE]
         /\ queue' = [queue EXCEPT ![i] = [m |-> <<p, count[p]>>, linked |-> TRUE]]
    /\ UNCHANGED <<count, delivered, closing>>

Deliver ==
    /\ ~closing
    /\ queue # << >>
    /\ Head(queue).linked
    /\ queue' = Tail(queue)
    /\ delivered' = Append(delivered, Head(queue).m)
    /\ UNCHANGED <<count, closing>>

Close ==
    /\ ~closing
    /\ closing' = TRUE
    /\ UNCHANGED <<queue, count, delivered>>

(* The teardown drain discards what was queued and not dispatched. *)
Discard ==
    /\ closing
    /\ queue # << >>
    /\ Head(queue).linked
    /\ queue' = Tail(queue)
    /\ UNCHANGED <<count, delivered, closing>>

Next ==
    \/ \E p \in Producers : Begin(p) \/ Claim(p) \/ Link(p)
    \/ Deliver
    \/ Close
    \/ Discard

Spec == Init /\ [][Next]_vars
=============================================================================
