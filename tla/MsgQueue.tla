------------------------------ MODULE MsgQueue ------------------------------
(***************************************************************************)
(* The lock-free multi-producer single-consumer queue through which every  *)
(* message enters a qzjs runtime (src/src/msgq.c), with the drain that     *)
(* qz_thread_teardown performs on it (src/src/qzjs.c).                     *)
(*                                                                         *)
(* One step of the model is one access to shared memory: the exchange of   *)
(* msg_tail, the store into the predecessor's q.next, the uv_async_send,   *)
(* and the consumer's load of head->q.next.  Nodes are heap blocks; an     *)
(* address that was freed may be returned by a later malloc.  A message is *)
(* named by its producer and the number of the call that pushed it.        *)
(***************************************************************************)
EXTENDS Naturals, Sequences, FiniteSets

CONSTANTS
    Producers,   \* threads that call qz_msg_push: host threads and workers
    Addrs,       \* heap addresses of qz_msg_t nodes
    Stub,        \* the sentinel node embedded in qz_t (msg_stub)
    NULL,        \* the null pointer
    MaxPush,     \* bound: calls of qz_msg_push per producer
    LatePost     \* TRUE if a producer may still push during the teardown

ASSUME ConstantsAssumption ==
    /\ Stub \notin Addrs
    /\ NULL \notin Addrs \cup {Stub}
    /\ MaxPush \in Nat
    /\ LatePost \in BOOLEAN

VARIABLES
    msg_head,    \* consumer end: the last node popped, or the stub
    msg_tail,    \* producer end: the last node claimed
    next,        \* next[a]: the q.next field of node a
    data,        \* data[a]: the message stored in node a
    live,        \* the addresses currently allocated
    pc,          \* pc[p]: where p is inside qz_msg_push
    node,        \* node[p]: p's local m
    prev,        \* prev[p]: p's local prev
    count,       \* count[p]: calls of qz_msg_push p has started
    wake,        \* the pending flag of the rt->wake async handle
    mode,        \* the consumer: "blocked", "drain", "teardown", "closed"
    delivered,   \* history: messages dispatched, in order
    claimed,     \* history: messages in the order of the tail exchange
    chain        \* history: the nodes from msg_head to msg_tail in claim order

queueVars == <<msg_head, msg_tail, next, data, live>>
producerVars == <<pc, node, prev, count>>
historyVars == <<delivered, claimed, chain>>
vars == <<queueVars, producerVars, wake, mode, historyVars>>

Nodes == Addrs \cup {Stub}
Messages == Producers \X (1 .. MaxPush)

(* qz_create and qz_worker_create: head == tail == sentinel. *)
Init ==
    /\ msg_head = Stub
    /\ msg_tail = Stub
    /\ next = [a \in Nodes |-> NULL]
    /\ data = [a \in Nodes |-> NULL]
    /\ live = {}
    /\ pc = [p \in Producers |-> "idle"]
    /\ node = [p \in Producers |-> NULL]
    /\ prev = [p \in Producers |-> NULL]
    /\ count = [p \in Producers |-> 0]
    /\ wake = FALSE
    /\ mode = "blocked"
    /\ delivered = << >>
    /\ claimed = << >>
    /\ chain = <<Stub>>

-----------------------------------------------------------------------------
(* Producers: qz_msg_push *)

MayPush(p) ==
    /\ pc[p] = "idle"
    /\ count[p] < MaxPush
    /\ LatePost \/ mode \in {"blocked", "drain"}

(* The length check or malloc fails: -1 is returned, the queue is untouched. *)
PushReject(p) ==
    /\ MayPush(p)
    /\ count' = [count EXCEPT ![p] = @ + 1]
    /\ UNCHANGED <<queueVars, pc, node, prev, wake, mode, historyVars>>

(* Faulty variant: the link of the fresh block is not cleared. *)
StaleLinkPushAlloc(p) ==
    /\ MayPush(p)
    /\ \E a \in Addrs \ live :
         /\ live' = live \cup {a}
         /\ data' = [data EXCEPT ![a] = <<p, count[p] + 1>>]
         /\ node' = [node EXCEPT ![p] = a]
    /\ count' = [count EXCEPT ![p] = @ + 1]
    /\ pc' = [pc EXCEPT ![p] = "exchange"]
    /\ UNCHANGED <<msg_head, msg_tail, next, prev, wake, mode, historyVars>>

(* malloc succeeds at any free address; the node is filled, its link cleared. *)
PushAlloc(p) ==
    /\ MayPush(p)
    /\ \E a \in Addrs \ live :
         /\ live' = live \cup {a}
         /\ data' = [data EXCEPT ![a] = <<p, count[p] + 1>>]
         /\ next' = [next EXCEPT ![a] = NULL]
         /\ node' = [node EXCEPT ![p] = a]
    /\ count' = [count EXCEPT ![p] = @ + 1]
    /\ pc' = [pc EXCEPT ![p] = "exchange"]
    /\ UNCHANGED <<msg_head, msg_tail, prev, wake, mode, historyVars>>

(* Faulty variant: the predecessor is read, the tail is not replaced. *)
LostTailPushExchange(p) ==
    /\ pc[p] = "exchange"
    /\ prev' = [prev EXCEPT ![p] = msg_tail]
    /\ claimed' = Append(claimed, data[node[p]])
    /\ chain' = Append(chain, node[p])
    /\ pc' = [pc EXCEPT ![p] = "link"]
    /\ UNCHANGED <<msg_head, msg_tail, next, data, live, node, count, wake, mode,
                   delivered>>

PushExchange(p) ==
    /\ pc[p] = "exchange"
    /\ prev' = [prev EXCEPT ![p] = msg_tail]
    /\ msg_tail' = node[p]
    /\ claimed' = Append(claimed, data[node[p]])
    /\ chain' = Append(chain, node[p])
    /\ pc' = [pc EXCEPT ![p] = "link"]
    /\ UNCHANGED <<msg_head, next, data, live, node, count, wake, mode, delivered>>

PushLink(p) ==
    /\ pc[p] = "link"
    /\ next' = [next EXCEPT ![prev[p]] = node[p]]
    /\ pc' = [pc EXCEPT ![p] = "send"]
    /\ UNCHANGED <<msg_head, msg_tail, data, live, node, prev, count, wake, mode,
                   historyVars>>

(* Faulty variant: the queue is taken for empty only when the tail is the stub. *)
StubOnlyPushWake(p) ==
    /\ pc[p] = "send"
    /\ wake' = (wake \/ prev[p] = Stub)
    /\ pc' = [pc EXCEPT ![p] = "idle"]
    /\ UNCHANGED <<queueVars, node, prev, count, mode, historyVars>>

(* uv_async_send(&rt->wake): calls before the next callback are coalesced. *)
PushWake(p) ==
    /\ pc[p] = "send"
    /\ wake' = TRUE
    /\ pc' = [pc EXCEPT ![p] = "idle"]
    /\ UNCHANGED <<queueVars, node, prev, count, mode, historyVars>>

-----------------------------------------------------------------------------
(* The consumer: qz_wake_cb, qz_msg_pop, the drain of qz_thread_teardown *)

(* libuv clears the pending flag and then runs the wake callback. *)
WakeCallback ==
    /\ mode = "blocked"
    /\ wake
    /\ wake' = FALSE
    /\ mode' = "drain"
    /\ UNCHANGED <<queueVars, producerVars, historyVars>>

(* qz_msg_has_pending, and the test at the top of qz_msg_pop. *)
HasPending == next[msg_head] # NULL

(* Faulty variant: the node returned is freed, not the one left behind. *)
FreeReturnedAdvance ==
    /\ HasPending
    /\ msg_head' = next[msg_head]
    /\ live' = live \ {next[msg_head]}
    /\ chain' = Tail(chain)
    /\ UNCHANGED <<msg_tail, next, data>>

(* The node becomes msg_head and stays allocated while it is dispatched. *)
Advance ==
    /\ HasPending
    /\ msg_head' = next[msg_head]
    /\ live' = IF msg_head = Stub THEN live ELSE live \ {msg_head}
    /\ chain' = Tail(chain)
    /\ UNCHANGED <<msg_tail, next, data>>

Pop ==
    /\ mode = "drain"
    /\ Advance
    /\ delivered' = Append(delivered, data[msg_head'])
    /\ UNCHANGED <<producerVars, wake, mode, claimed>>

PopNothing ==
    /\ mode = "drain"
    /\ ~HasPending
    /\ mode' = "blocked"
    /\ UNCHANGED <<queueVars, producerVars, wake, historyVars>>

(* The main loop leaves.  Unless LatePost, no push is under way any more: *)
(* the workers were joined and the host has stopped posting.              *)
StartTeardown ==
    /\ mode = "blocked"
    /\ LatePost \/ \A p \in Producers : pc[p] = "idle"
    /\ mode' = "teardown"
    /\ UNCHANGED <<queueVars, producerVars, wake, historyVars>>

DrainPop ==
    /\ mode = "teardown"
    /\ Advance
    /\ UNCHANGED <<producerVars, wake, mode, delivered, claimed>>

(* Faulty variant: the node still on msg_head is forgotten. *)
LeakHeadDrainEnd ==
    /\ mode = "teardown"
    /\ ~HasPending
    /\ msg_head' = Stub
    /\ mode' = "closed"
    /\ chain' = <<Stub>>
    /\ UNCHANGED <<msg_tail, next, data, live, producerVars, wake, delivered, claimed>>

(* The last node is freed and msg_head reset; msg_tail is left as it is. *)
DrainEnd ==
    /\ mode = "teardown"
    /\ ~HasPending
    /\ live' = IF msg_head = Stub THEN live ELSE live \ {msg_head}
    /\ msg_head' = Stub
    /\ mode' = "closed"
    /\ chain' = <<Stub>>
    /\ UNCHANGED <<msg_tail, next, data, producerVars, wake, delivered, claimed>>

(* The runtime is gone: nothing is left to do. *)
Stopped ==
    /\ mode = "closed"
    /\ \A p \in Producers : pc[p] = "idle"
    /\ UNCHANGED vars

Push(p) == PushAlloc(p) \/ PushExchange(p) \/ PushLink(p) \/ PushWake(p)

Next ==
    \/ \E p \in Producers : PushReject(p) \/ Push(p)
    \/ WakeCallback
    \/ Pop
    \/ PopNothing
    \/ StartTeardown
    \/ DrainPop
    \/ DrainEnd
    \/ Stopped

Spec == Init /\ [][Next]_vars

(* The operating system keeps running a thread that is inside a push, and *)
(* the qzjs thread; nobody is obliged to post or to shut down.            *)
Fairness ==
    /\ \A p \in Producers : WF_vars(PushExchange(p) \/ PushLink(p) \/ PushWake(p))
    /\ WF_vars(WakeCallback)
    /\ WF_vars(Pop \/ PopNothing)

LiveSpec == Spec /\ Fairness

-----------------------------------------------------------------------------
(* Properties *)

(* Every variable stays in its type. *)
TypeOK ==
    /\ msg_head \in Nodes
    /\ msg_tail \in Nodes
    /\ next \in [Nodes -> Nodes \cup {NULL}]
    /\ data \in [Nodes -> Messages \cup {NULL}]
    /\ live \subseteq Addrs
    /\ pc \in [Producers -> {"idle", "exchange", "link", "send"}]
    /\ node \in [Producers -> Addrs \cup {NULL}]
    /\ prev \in [Producers -> Nodes \cup {NULL}]
    /\ count \in [Producers -> 0 .. MaxPush]
    /\ wake \in BOOLEAN
    /\ mode \in {"blocked", "drain", "teardown", "closed"}
    /\ delivered \in Seq(Messages)
    /\ claimed \in Seq(Messages)
    /\ chain \in Seq(Nodes)

(* The node that a producer is about to write through, and the node the    *)
(* consumer reads, are allocated: msgq.c's "head never dangles", and the   *)
(* predecessor a producer obtained from the exchange outlives its link     *)
(* even though the consumer frees nodes at the same time.                  *)
NoUseAfterFree ==
    /\ msg_head \in live \cup {Stub}
    /\ \A p \in Producers :
         /\ pc[p] = "exchange" => node[p] \in live
         /\ pc[p] = "link" => prev[p] \in live \cup {Stub}

(* Messages are dispatched in the order of the tail exchange, each at most *)
(* once, whatever the order in which the producers link them, and although *)
(* freed nodes are allocated again: what was dispatched is a prefix of     *)
(* what was claimed.                                                       *)
FifoOrder ==
    /\ Len(delivered) <= Len(claimed)
    /\ \A i \in 1 .. Len(delivered) : delivered[i] = claimed[i]

(* The teardown drain of qz_thread_teardown gives back every node.         *)
NoLeakAtClose ==
    (mode = "closed" /\ \A p \in Producers : pc[p] = "idle") => live = {}

(* Nodes, links and positions keep their types from the first push to the  *)
(* end of the drain, which leaves no node behind.                          *)
NodesAreKept ==
    /\ TypeOK /\ NoLeakAtClose

(* No lost wakeup: once a push has claimed its place, its message is       *)
(* dispatched unless the runtime is torn down first, even when an earlier  *)
(* push is slower and wakes the consumer later.                            *)
EveryClaimDispatched ==
    \A m \in Messages :
        (\E i \in DOMAIN claimed : claimed[i] = m)
            ~> ((\E i \in DOMAIN delivered : delivered[i] = m)
                  \/ mode \in {"teardown", "closed"})

(* The queue implements MsgFifo.  A queued message is linked when its      *)
(* predecessor in claim order points at it.                                *)
AbsQueue ==
    [i \in 1 .. Len(chain) - 1 |->
        [m |-> data[chain[i + 1]], linked |-> next[chain[i]] = chain[i + 1]]]

Fifo == INSTANCE MsgFifo WITH
            queue <- AbsQueue,
            closing <- mode \in {"teardown", "closed"}

(* Every step of the lock-free queue is a step of the abstract queue or    *)
(* leaves it unchanged.                                                    *)
ImplementsFifo == Fifo!Spec
=============================================================================
