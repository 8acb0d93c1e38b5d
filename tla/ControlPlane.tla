---------------------------- MODULE ControlPlane ---------------------------
(***************************************************************************)
(* The control plane of one runtime: the receipt table, the commands that  *)
(* enter it from the host (qz_control) and from the connections of the     *)
(* local endpoint, their dispatch or forwarding to a child process, and    *)
(* the receipts that come back (src/src/control.c,                         *)
(* src/src/control_endpoint.c).                                            *)
(*                                                                         *)
(* A command is named by a number; what the code sees of it is its correl. *)
(* Time is abstract: an entry's deadline passes at any moment.  The inbound *)
(* queue is a FIFO, as MsgQueue shows it to be.                            *)
(***************************************************************************)
EXTENDS Naturals, Sequences, FiniteSets

CONSTANTS
    Conns,         \* connections of the endpoint (struct qz_ctl_conn_s)
    Correls,       \* correlation ids the controllers use
    MaxCmd,        \* bound: commands sent
    UniqueCorrel,  \* TRUE if no correl is used for two commands
    LongReceipts   \* TRUE if a child's receipt may have 512 bytes or more

Host == "host"     \* the embedding host: receipts reach its message_cb
Child == "child"   \* the child process that remote commands go to
Cmds == 1 .. MaxCmd
Receipts ==
    [c : Cmds, to : Conns \cup {Host, Child},
     what : {"result", "timeout", "not_found", "unknown_cmd"}]

ASSUME ControlAssumption ==
    /\ Host \notin Conns /\ Child \notin Conns
    /\ MaxCmd \in Nat /\ Correls # {}
    /\ UniqueCorrel => Cardinality(Correls) >= MaxCmd
    /\ {UniqueCorrel, LongReceipts} \subseteq BOOLEAN

VARIABLES
    pending,     \* rt->ctl_pending: the set of its entries
    regs,        \* history: entries registered
    queue,       \* CONTROL messages in the inbound queue: [c, correl, receipt]
    conns,       \* conns[k]: "none", "open", "closed"
    cstate,      \* cstate[c]: "new", "registered", "accepted", "rejected"
    from,        \* from[c]: who sent command c
    correl,      \* correl[c]: its correl
    alive,       \* the child process runs and its handle is live
    down, up,    \* commands on the way to the child, receipts on the way back
    pc,          \* the loop thread: "poll", "more", "closed"
    executed,    \* history: commands executed here
    unsaid,      \* history: executed commands whose receipt was dropped
    arrived,     \* history: commands whose receipt came back in time and was recognised
    got,         \* history: got[r]: how often receipt r was handed out
    lateExec,    \* history: a command ran without a live entry of its own
    dangling     \* history: a receipt was written to a closed connection

envVars == <<conns, alive, down, up>>
cmdVars == <<cstate, from, correl>>
histVars == <<executed, unsaid, arrived, got, lateExec, dangling>>
vars == <<pending, regs, queue, envVars, cmdVars, pc, histVars>>

Init ==
    /\ pending = {} /\ regs = 0 /\ queue = << >>
    /\ conns = [k \in Conns |-> "none"]
    /\ cstate = [c \in Cmds |-> "new"]
    /\ from = [c \in Cmds |-> Host] /\ correl = [c \in Cmds |-> CHOOSE x \in Correls : TRUE]
    /\ alive = TRUE /\ down = << >> /\ up = << >>
    /\ pc = "poll"
    /\ executed = {} /\ unsaid = {} /\ arrived = {} /\ got = [r \in Receipts |-> 0]
    /\ lateExec = FALSE /\ dangling = FALSE

-----------------------------------------------------------------------------
(* The receipt table *)

(* An entry; the greater its number, the nearer it is to the head of the list. *)
Entry(c, x, to) == [c |-> c, correl |-> x, to |-> to, expired |-> FALSE, at |-> regs + 1]

(* qz_ctl_register: entries are prepended. *)
Register(c, x, to) ==
    /\ pending' = pending \cup {Entry(c, x, to)}
    /\ regs' = regs + 1

Matches(x) == {e \in pending : e.correl = x}

(* ctl_take_reply, ctl_unregister: the first entry with this correl is meant. *)
First(x) == {e \in Matches(x) : \A f \in Matches(x) : f.at <= e.at}

Withdraw(x) == pending' = pending \ First(x)

(* The way back that ctl_take_reply finds; message_cb if there is no entry. *)
ReplyTo(x) == IF Matches(x) = {} THEN {Host} ELSE {e.to : e \in First(x)}

Receipt(c, to, what) == [c |-> c, to |-> to, what |-> what]

(* ctl_emit_obj: the receipts rs leave through connection, channel or callback. *)
Emit(rs) ==
    /\ got' = [r \in Receipts |-> IF r \in rs THEN got[r] + 1 ELSE got[r]]
    /\ dangling' = (dangling \/ \E r \in rs : r.to \in Conns /\ conns[r.to] # "open")

-----------------------------------------------------------------------------
(* Senders *)

Used == {correl[c] : c \in {d \in Cmds : cstate[d] # "new"}}

(* The next command: commands are numbered as they are sent. *)
Fresh == {c \in Cmds : cstate[c] = "new" /\ \A d \in Cmds : d < c => cstate[d] # "new"}
Choices == IF UniqueCorrel THEN Correls \ Used ELSE Correls

Sent(c, x, who, s) ==
    /\ cstate' = [cstate EXCEPT ![c] = s]
    /\ from' = [from EXCEPT ![c] = who]
    /\ correl' = [correl EXCEPT ![c] = x]

(* qz_control on a host thread: the entry is registered first ... *)
HostRegister ==
    /\ pc # "closed"
    /\ \A c \in Cmds : cstate[c] # "registered"
    /\ \E c \in Fresh, x \in Choices :
         /\ Sent(c, x, Host, "registered")
         /\ Register(c, x, Host)
    /\ UNCHANGED <<queue, envVars, pc, histVars>>

(* ... then the command is queued ... *)
HostPush(c) ==
    /\ cstate[c] = "registered"
    /\ cstate' = [cstate EXCEPT ![c] = "accepted"]
    /\ queue' = Append(queue, [c |-> c, correl |-> correl[c], receipt |-> FALSE])
    /\ UNCHANGED <<pending, regs, envVars, from, correl, pc, histVars>>

(* ... or the push fails: the entry is withdrawn and -1 returned. *)
HostPushFail(c) ==
    /\ cstate[c] = "registered"
    /\ cstate' = [cstate EXCEPT ![c] = "rejected"]
    /\ Withdraw(correl[c])
    /\ UNCHANGED <<regs, queue, envVars, from, correl, pc, histVars>>

Turning == pc \in {"poll", "more"}

(* listener_cb with an accepted peer. *)
ConnOpen(k) ==
    /\ Turning /\ conns[k] = "none"
    /\ conns' = [conns EXCEPT ![k] = "open"]
    /\ pc' = "more"
    /\ UNCHANGED <<pending, regs, queue, alive, down, up, cmdVars, histVars>>

(* Faulty variant: the entries of a closed connection stay in the table. *)
KeepingConnClose(k) ==
    /\ Turning /\ conns[k] = "open"
    /\ conns' = [conns EXCEPT ![k] = "closed"]
    /\ pc' = "more"
    /\ UNCHANGED <<pending, regs, queue, alive, down, up, cmdVars, histVars>>

(* conn_read_cb at the end of the stream: conn_close with qz_ctl_conn_drop. *)
ConnClose(k) ==
    /\ Turning /\ conns[k] = "open"
    /\ conns' = [conns EXCEPT ![k] = "closed"]
    /\ pending' = {e \in pending : e.to # k}
    /\ pc' = "more"
    /\ UNCHANGED <<regs, queue, alive, down, up, cmdVars, histVars>>

(* A line on connection k that is executed here: ctl_local_command. *)
ConnLocal(k) ==
    /\ Turning /\ conns[k] = "open"
    /\ \E c \in Fresh, x \in Choices :
         /\ Sent(c, x, k, "accepted")
         /\ Register(c, x, k)
         /\ queue' = Append(queue, [c |-> c, correl |-> x, receipt |-> FALSE])
    /\ pc' = "more"
    /\ UNCHANGED <<envVars, histVars>>

(* A line with a remote target: the entry stays here, the command goes on. *)
ConnRemote(k) ==
    /\ Turning /\ conns[k] = "open" /\ alive
    /\ \E c \in Fresh, x \in Choices :
         /\ Sent(c, x, k, "accepted")
         /\ Register(c, x, k)
         /\ down' = Append(down, [c |-> c, correl |-> x])
    /\ pc' = "more"
    /\ UNCHANGED <<queue, conns, alive, up, histVars>>

(* The target is no live child: the entry is withdrawn again, NOT_FOUND written. *)
ConnNoTarget(k) ==
    /\ Turning /\ conns[k] = "open" /\ ~alive
    /\ \E c \in Fresh, x \in Choices :
         /\ Sent(c, x, k, "accepted")
         /\ Emit({Receipt(c, k, "not_found")})
    /\ regs' = regs + 1
    /\ pc' = "more"
    /\ UNCHANGED <<pending, queue, envVars, executed, unsaid, arrived, lateExec>>

(* As before, but addressed by target_path: the failure is not reported. *)
ConnNoPath(k) ==
    /\ Turning /\ conns[k] = "open" /\ ~alive
    /\ \E c \in Fresh, x \in Choices :
         /\ Sent(c, x, k, "accepted")
         /\ Register(c, x, k)
    /\ pc' = "more"
    /\ UNCHANGED <<queue, envVars, histVars>>

-----------------------------------------------------------------------------
(* The child process (external) *)

ChildAnswer ==
    /\ alive /\ down # << >>
    /\ down' = Tail(down)
    /\ \E long \in {FALSE, LongReceipts} :
         up' = Append(up, [c |-> Head(down).c, correl |-> Head(down).correl, long |-> long])
    /\ UNCHANGED <<pending, regs, queue, conns, alive, cmdVars, pc, histVars>>

ChildDie ==
    /\ alive
    /\ alive' = FALSE /\ down' = << >> /\ up' = << >>
    /\ UNCHANGED <<pending, regs, queue, conns, cmdVars, pc, histVars>>

-----------------------------------------------------------------------------
(* The loop thread *)

InTime(c) == \E e \in pending : e.c = c /\ ~e.expired

(* A receipt under 512 bytes: qz_ctl_deliver_receipt. *)
UpReceipt ==
    /\ Turning /\ up # << >> /\ ~Head(up).long
    /\ up' = Tail(up)
    /\ LET r == Head(up) IN
         /\ \E to \in ReplyTo(r.correl) : Emit({Receipt(r.c, to, "result")})
         /\ Withdraw(r.correl)
         /\ arrived' = IF InTime(r.c) THEN arrived \cup {r.c} ELSE arrived
    /\ pc' = "more"
    /\ UNCHANGED <<regs, queue, conns, alive, down, cmdVars, executed, unsaid, lateExec>>

(* A longer one is not recognised by ctl_is_receipt and taken for a command  *)
(* of the child.                                                              *)
UpLongReceipt ==
    /\ Turning /\ up # << >> /\ Head(up).long
    /\ up' = Tail(up)
    /\ LET r == Head(up) IN
         /\ Register(r.c, r.correl, Child)
         /\ queue' = Append(queue, [c |-> r.c, correl |-> r.correl, receipt |-> TRUE])
    /\ pc' = "more"
    /\ UNCHANGED <<conns, alive, down, cmdVars, histVars>>

(* ctl_claim finds no entry: the command is skipped. *)
DispatchSkip ==
    /\ Turning /\ queue # << >>
    /\ Matches(Head(queue).correl) = {}
    /\ queue' = Tail(queue)
    /\ pc' = "more"
    /\ UNCHANGED <<pending, regs, envVars, cmdVars, histVars>>

(* ctl_claim finds an entry that is past its deadline: TIMEOUT, not executed. *)
DispatchExpired ==
    /\ Turning /\ queue # << >>
    /\ \E e \in First(Head(queue).correl) :
         /\ e.expired
         /\ Emit({Receipt(e.c, e.to, "timeout")})
         /\ pending' = pending \ {e}
    /\ queue' = Tail(queue)
    /\ pc' = "more"
    /\ UNCHANGED <<regs, envVars, cmdVars, executed, unsaid, arrived, lateExec>>

(* Faulty variant: the deadline is not looked at. *)
LateDispatchRun ==
    /\ Turning /\ queue # << >>
    /\ LET m == Head(queue) IN \E e \in First(m.correl) :
         /\ executed' = executed \cup {m.c}
         /\ lateExec' = (lateExec \/ e.c # m.c \/ e.expired)
         /\ Emit({Receipt(m.c, e.to, "result")})
         /\ pending' = pending \ {e}
    /\ queue' = Tail(queue)
    /\ pc' = "more"
    /\ UNCHANGED <<regs, envVars, cmdVars, unsaid, arrived>>

(* Faulty variant: the entry is looked up but not removed. *)
KeepingDispatchRun ==
    /\ Turning /\ queue # << >>
    /\ LET m == Head(queue) IN \E e \in First(m.correl) :
         /\ ~e.expired
         /\ executed' = executed \cup {m.c}
         /\ lateExec' = (lateExec \/ e.c # m.c)
         /\ Emit({Receipt(m.c, e.to, "result")})
    /\ queue' = Tail(queue)
    /\ pc' = "more"
    /\ UNCHANGED <<pending, regs, envVars, cmdVars, unsaid, arrived>>

(* ctl_claim lets the command pass; it runs and its receipt consumes the entry. *)
(* A receipt taken for a command has no op and yields UNKNOWN_CMD.  A result     *)
(* that JS_JSONStringify throws on (a BigInt, a cycle, a toJSON) is dropped, and *)
(* the entry is gone by then.                                                    *)
DispatchRun ==
    /\ Turning /\ queue # << >>
    /\ LET m == Head(queue) IN \E e \in First(m.correl) :
         /\ ~e.expired
         /\ executed' = IF m.receipt THEN executed ELSE executed \cup {m.c}
         /\ lateExec' = (lateExec \/ (~m.receipt /\ e.c # m.c))
         /\ pending' = pending \ {e}
         /\ \/ /\ Emit({Receipt(m.c, e.to, IF m.receipt THEN "unknown_cmd" ELSE "result")})
               /\ UNCHANGED unsaid
            \/ /\ ~m.receipt
               /\ unsaid' = unsaid \cup {m.c}
               /\ UNCHANGED <<got, dangling>>
    /\ queue' = Tail(queue)
    /\ pc' = "more"
    /\ UNCHANGED <<regs, envVars, cmdVars, arrived>>

Live == {e \in pending : ~e.expired}

(* Faulty variant: entries past their deadline are dropped without a receipt. *)
SilentReap ==
    /\ pc = "more"
    /\ pending' = Live
    /\ pc' = "poll"
    /\ UNCHANGED <<regs, queue, envVars, cmdVars, histVars>>

(* uv_run returns; qz_ctl_reap_timeouts answers every entry past its deadline. *)
Reap ==
    /\ pc = "more"
    /\ Emit({Receipt(e.c, e.to, "timeout") : e \in pending \ Live})
    /\ pending' = Live
    /\ pc' = "poll"
    /\ UNCHANGED <<regs, queue, envVars, cmdVars, executed, unsaid, arrived, lateExec>>

(* Some other callback of the loop: a timer, a request, an application message. *)
OtherEvent ==
    /\ pc = "poll"
    /\ pc' = "more"
    /\ UNCHANGED <<pending, regs, queue, envVars, cmdVars, histVars>>

(* The deadline of an entry passes. *)
Expire ==
    /\ \E e \in Live : pending' = (pending \ {e}) \cup {[e EXCEPT !.expired = TRUE]}
    /\ UNCHANGED <<regs, queue, envVars, cmdVars, pc, histVars>>

(* qz_ctl_endpoint_close, the drain and qz_ctl_teardown: entries are freed    *)
(* without receipts.                                                           *)
Teardown ==
    /\ Turning
    /\ \A c \in Cmds : cstate[c] # "registered"
    /\ pc' = "closed"
    /\ conns' = [k \in Conns |-> IF conns[k] = "open" THEN "closed" ELSE conns[k]]
    /\ pending' = {} /\ queue' = << >>
    /\ UNCHANGED <<regs, alive, down, up, cmdVars, histVars>>

Closed == pc = "closed" /\ UNCHANGED vars

-----------------------------------------------------------------------------
Dispatch == DispatchSkip \/ DispatchExpired \/ DispatchRun

Next ==
    \/ HostRegister \/ \E c \in Cmds : HostPush(c) \/ HostPushFail(c)
    \/ \E k \in Conns : ConnOpen(k) \/ ConnClose(k) \/ ConnLocal(k)
                        \/ ConnRemote(k) \/ ConnNoTarget(k) \/ ConnNoPath(k)
    \/ ChildAnswer \/ ChildDie
    \/ UpReceipt \/ UpLongReceipt \/ Dispatch \/ Reap \/ OtherEvent \/ Expire
    \/ Teardown \/ Closed

Spec == Init /\ [][Next]_vars

(* The loop serves what is ready, time passes, the host thread goes on.  The     *)
(* child need not answer, and nothing need wake a loop that sleeps.              *)
Fairness ==
    /\ WF_vars(Dispatch) /\ WF_vars(UpReceipt \/ UpLongReceipt) /\ WF_vars(Reap)
    /\ WF_vars(Expire)
    /\ WF_vars(\E c \in Cmds : HostPush(c) \/ HostPushFail(c))

LiveSpec == Spec /\ Fairness

-----------------------------------------------------------------------------
(* Properties *)

(* Every variable keeps its type; an entry belongs to a command that was sent  *)
(* and not refused.                                                             *)
TypeOK ==
    /\ \A e \in pending :
         /\ e.c \in Cmds /\ e.correl \in Correls
         /\ e.to \in Conns \cup {Host, Child} /\ e.expired \in BOOLEAN
         /\ e.at \in 1 .. regs
         /\ cstate[e.c] \in {"registered", "accepted"}
    /\ \A i \in DOMAIN queue : queue[i].c \in Cmds /\ queue[i].receipt \in BOOLEAN
    /\ conns \in [Conns -> {"none", "open", "closed"}]
    /\ cstate \in [Cmds -> {"new", "registered", "accepted", "rejected"}]
    /\ from \in [Cmds -> Conns \cup {Host}] /\ correl \in [Cmds -> Correls]
    /\ pc \in {"poll", "more", "closed"}
    /\ executed \subseteq Cmds /\ unsaid \subseteq executed /\ arrived \subseteq Cmds
    /\ {alive, lateExec, dangling} \subseteq BOOLEAN

(* Of ctl_send_receipt and the endpoint ("receipts are paired by correl and     *)
(* written back to the same connection"): a command is answered at most once,   *)
(* and the answer goes to its sender.  A command whose entry went away before   *)
(* its receipt came back falls to the host's message_cb.                        *)
ReceiptPairing ==
    \A r \in Receipts : got[r] > 0 =>
      /\ r.to \in {from[r.c], Host, Child}
      /\ r.to \in Conns =>
           got[r] = 1 /\ \A s \in Receipts \ {r} : s.c = r.c /\ s.to = r.to => got[s] = 0

(* Of ctl_claim ("an expired command is void and never executed late"): a       *)
(* command runs only while its own entry is in the table and not past its       *)
(* deadline; so it does not run after its connection has closed.                *)
NeverExecutedLate == ~lateExec

(* Of qz_ctl_conn_drop ("a dangling sink would make the receipt a write to      *)
(* freed memory"): no receipt is written to a connection that has closed.       *)
NoDanglingSink == ~dangling

(* Of qz_ctl_deliver_receipt and qz_ctl_reap_timeouts: a controller is told       *)
(* TIMEOUT only if no receipt of its command, of less than 512 bytes, had come    *)
(* back in time.                                                                  *)
TimeoutIsTruthful ==
    \A r \in Receipts :
      got[r] > 0 /\ r.what = "timeout" /\ r.to # Child => r.c \notin arrived

Answered(c) == \E r \in Receipts : got[r] > 0 /\ r.c = c /\ r.to = from[c]

Over(c) == pc = "closed" \/ (from[c] \in Conns /\ conns[from[c]] = "closed")

(* The loop waits in uv_run with nothing to serve, and the entry of c, which went *)
(* to the child, waits with it.                                                   *)
Asleep(c) ==
    /\ pc = "poll" /\ queue = << >> /\ up = << >>
    /\ from[c] \in Conns /\ \E e \in pending : e.c = c /\ e.to = from[c]

(* Of qz_control, qz_control_endpoint_cmd and the main loop: an accepted command   *)
(* ends in a receipt or a TIMEOUT, unless its connection closes, the runtime is    *)
(* torn down or its result cannot be serialised; the only other way is that it was *)
(* forwarded and the loop then sleeps for good, with the deadline unseen.          *)
AnsweredUnlessAsleep ==
    \A c \in Cmds :
      cstate[c] = "accepted" ~> (Answered(c) \/ Over(c) \/ c \in unsaid \/ []Asleep(c))

(* Known not to hold, see the README. *)
(* Of control.c ("fail-closed, but not without an answer: a receipt or TIMEOUT,    *)
(* one of the two"): the same without the sleeping loop.                           *)
ReceiptOrTimeout ==
    \A c \in Cmds :
      cstate[c] = "accepted" ~> (Answered(c) \/ Over(c) \/ c \in unsaid)

(* Known not to hold, see the README. *)
(* Of the design of the control plane ("certainly a receipt or TIMEOUT"): a command *)
(* that was executed here is answered.                                              *)
ExecutedIsAnswered == \A c \in executed : Answered(c)

(* A sender that was told TIMEOUT can rely on it: the command is not executed *)
(* afterwards, and no receipt had arrived for it before.                      *)
TimeoutIsTrue ==
    /\ TypeOK /\ NeverExecutedLate /\ TimeoutIsTruthful
=============================================================================
