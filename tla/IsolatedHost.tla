---------------------------- MODULE IsolatedHost ----------------------------
(***************************************************************************)
(* The isolated process model: the host's side of a main runtime that runs  *)
(* in a process of its own (src/src/rt_host.c), and the main loop of that   *)
(* process (src/src/rt_main.c with --qzjs-rt-server).                       *)
(*                                                                         *)
(* Three actors: the host thread that calls the API, the loop thread of the *)
(* host that owns the channel, and the child process, which may die at any  *)
(* moment.  The channel carries whole frames in order (IpcTx).              *)
(***************************************************************************)
EXTENDS Naturals, Sequences

CONSTANTS
    MaxIsoPost,  \* bound: messages the host posts
    MaxEcho,     \* bound: messages the child's scripts send to the host
    MaxIsoPing,  \* bound: calls of qz_ping
    Replies,     \* TRUE if message_cb may post an answer
    PingsToo     \* TRUE if the host thread pings the child

ASSUME IsoAssumption ==
    /\ {MaxIsoPost, MaxEcho, MaxIsoPing} \subseteq Nat
    /\ {Replies, PingsToo} \subseteq BOOLEAN

VARIABLES
    api,         \* where the host thread is
    lp,          \* where the loop thread is
    hrt,         \* the qz_t of the host: its flags and its inbound queue
    kid,         \* the child process
    down, up,    \* the channel: frames to the child and from it
    log          \* history

isoVars == <<api, lp, hrt, kid, down, up, log>>

PostFrame(n) == [k |-> "msg", n |-> n]
Ctl(k) == [k |-> k, n |-> 0]
IsoPingFrame(s) == [k |-> "ping", n |-> s]
IsoPongFrame(s) == [k |-> "pong", n |-> s]

IsoInit ==
    /\ api = "start" /\ lp = "none"
    /\ hrt = [shutting |-> FALSE, ready |-> FALSE, ready_err |-> FALSE, idle_ack |-> FALSE,
              joined |-> FALSE, fifo |-> << >>, proc |-> "none", ping_seq |-> 0, pong_seq |-> 0]
    /\ kid = [st |-> "none", q |-> << >>, wait_idle |-> FALSE, reaped |-> FALSE, sent |-> 0]
    /\ down = << >> /\ up = << >>
    /\ log = [posted |-> 0,        \* messages accepted by qz_post_message
              early |-> 0,         \* of those, the ones before qz_wait_idle
              served |-> << >>,    \* messages the child dispatched
              answered |-> {},     \* pings the child answered
              crashes |-> 0,       \* exit errors given to message_cb
              died |-> FALSE,      \* the child died, or its program failed
              evaled |-> FALSE,    \* the initial script ended well
              joins |-> 0, wrong |-> FALSE, stale |-> FALSE]

-----------------------------------------------------------------------------
(* The host thread: qz_create *)

(* qz_host_start up to the thread: the child is spawned and has shaken hands. *)
HostStart ==
    /\ api = "start"
    /\ api' = "wait_ready" /\ lp' = "run"
    /\ hrt' = [hrt EXCEPT !.proc = "run"]
    /\ kid' = [kid EXCEPT !.st = "boot"]
    /\ UNCHANGED <<down, up, log>>

(* One of its steps fails: what was spawned is killed, reaped and freed. *)
HostStartFails ==
    /\ api = "start"
    /\ api' = "failed"
    /\ hrt' = [hrt EXCEPT !.proc = "free"]
    /\ kid' = [kid EXCEPT !.st = "gone", !.reaped = TRUE]
    /\ UNCHANGED <<lp, down, up, log>>

(* The wait for thread_ready; on an error host_stop_thread. *)
HostReady ==
    /\ api = "wait_ready" /\ hrt.ready
    /\ api' = IF hrt.ready_err THEN "stop_failed" ELSE "up"
    /\ hrt' = [hrt EXCEPT !.shutting = @ \/ hrt.ready_err]
    /\ UNCHANGED <<lp, kid, down, up, log>>

(* The join of host_stop_thread, for qz_create that fails and qz_destroy. *)
HostJoin ==
    /\ api \in {"stop", "stop_failed"}
    /\ hrt.joined \/ lp = "closed"
    /\ api' = IF api = "stop" THEN "gone" ELSE "failed"
    /\ hrt' = [hrt EXCEPT !.joined = TRUE]
    /\ log' = [log EXCEPT !.joins = IF hrt.joined THEN @ ELSE @ + 1]
    /\ UNCHANGED <<lp, kid, down, up>>

(* qz_host_post *)
Pushed(h, frame) == [h EXCEPT !.fifo = Append(@, frame)]

HostPost ==
    /\ api = "up" /\ ~hrt.shutting /\ log.posted < MaxIsoPost
    /\ hrt' = Pushed(hrt, PostFrame(log.posted + 1))
    /\ log' = [log EXCEPT !.posted = @ + 1]
    /\ UNCHANGED <<api, lp, kid, down, up>>

(* qz_host_wait_idle: the request goes through the queue, then the wait for   *)
(* the answer or the end, then the join.                                      *)
HostWaitIdle ==
    /\ api = "up"
    /\ api' = "idle"
    /\ hrt' = Pushed(hrt, Ctl("idle"))
    /\ log' = [log EXCEPT !.early = log.posted]
    /\ UNCHANGED <<lp, kid, down, up>>

(* Faulty variant: only the answer ends the wait. *)
AckOnlyHostIdleJoin ==
    /\ api = "idle" /\ hrt.idle_ack /\ lp = "closed"
    /\ api' = "idled"
    /\ hrt' = [hrt EXCEPT !.joined = TRUE]
    /\ log' = [log EXCEPT !.joins = @ + 1]
    /\ UNCHANGED <<lp, kid, down, up>>

HostIdleJoin ==
    /\ api = "idle" /\ (hrt.idle_ack \/ hrt.shutting) /\ lp = "closed"
    /\ api' = "idled"
    /\ hrt' = [hrt EXCEPT !.joined = TRUE]
    /\ log' = [log EXCEPT !.joins = @ + 1]
    /\ UNCHANGED <<lp, kid, down, up>>

(* qz_ping: the checks; the frame, written on the host's own thread; the      *)
(* answer by its number.                                                      *)
HostPing ==
    /\ PingsToo /\ api = "up" /\ hrt.ping_seq < MaxIsoPing
    /\ hrt.proc = "run" /\ ~hrt.shutting
    /\ api' = "ping_post"
    /\ hrt' = [hrt EXCEPT !.ping_seq = @ + 1]
    /\ UNCHANGED <<lp, kid, down, up, log>>

HostPingPost ==
    /\ api = "ping_post"
    /\ api' = IF hrt.proc = "run" THEN "ping_wait" ELSE "up"
    /\ down' = IF hrt.proc = "run" THEN Append(down, IsoPingFrame(hrt.ping_seq)) ELSE down
    /\ log' = [log EXCEPT !.stale = @ \/ hrt.proc = "free"]
    /\ UNCHANGED <<lp, hrt, kid, up>>

HostPingOk ==
    /\ api = "ping_wait" /\ hrt.pong_seq >= hrt.ping_seq
    /\ api' = "up"
    /\ log' = [log EXCEPT !.wrong = @ \/ hrt.ping_seq \notin log.answered]
    /\ UNCHANGED <<lp, hrt, kid, down, up>>

(* 1, the time is over, or -1, the runtime is shutting down *)
HostPingGivesUp ==
    /\ api = "ping_wait" /\ hrt.pong_seq < hrt.ping_seq
    /\ api' = "up"
    /\ UNCHANGED <<lp, hrt, kid, down, up, log>>

(* qz_host_destroy *)
HostDestroy ==
    /\ api \in {"up", "idled"}
    /\ api' = "stop"
    /\ hrt' = [hrt EXCEPT !.shutting = TRUE]
    /\ UNCHANGED <<lp, kid, down, up, log>>

-----------------------------------------------------------------------------
(* The loop thread of the host: host_thread_main *)

(* host_wake_cb, one message at a time once it has started *)
LoopWake ==
    /\ lp = "run" /\ ~hrt.shutting /\ hrt.fifo # << >>
    /\ lp' = "drain"
    /\ UNCHANGED <<api, hrt, kid, down, up, log>>

LoopDrain ==
    /\ lp = "drain" /\ hrt.fifo # << >>
    /\ down' = IF kid.st = "gone" THEN down ELSE Append(down, Head(hrt.fifo))
    /\ hrt' = [hrt EXCEPT !.fifo = Tail(@)]
    /\ lp' = IF Len(hrt.fifo) = 1 THEN "run" ELSE lp
    /\ UNCHANGED <<api, kid, up, log>>

(* host_proc_msg_cb of a frame; a message may be answered from message_cb,     *)
(* which runs on the loop thread.                                             *)
LoopRead(replies) ==
    /\ lp = "run" /\ up # << >> /\ hrt.proc = "run"
    /\ LET f == Head(up)
           answer == replies /\ f.k = "msg" /\ ~hrt.shutting /\ log.posted < MaxIsoPost
           h == CASE f.k = "ready" -> [hrt EXCEPT !.ready = TRUE]
                  [] f.k = "failed" -> [hrt EXCEPT !.ready = TRUE, !.ready_err = TRUE]
                  [] f.k = "ack"   -> [hrt EXCEPT !.idle_ack = TRUE]
                  [] f.k = "pong"  -> [hrt EXCEPT !.pong_seq = f.n]
                  [] OTHER -> hrt
       IN  /\ replies => f.k = "msg"
           /\ hrt' = IF answer THEN Pushed(h, PostFrame(log.posted + 1)) ELSE h
           /\ log' = IF answer THEN [log EXCEPT !.posted = @ + 1] ELSE log
    /\ up' = Tail(up)
    /\ UNCHANGED <<api, lp, kid, down>>

(* Faulty variant: every end is reported as a crash. *)
AlarmedLoopEof ==
    /\ lp = "run" /\ up = << >> /\ kid.st = "gone" /\ hrt.proc = "run"
    /\ hrt' = [hrt EXCEPT !.proc = "dead", !.ready = TRUE, !.shutting = TRUE,
                          !.ready_err = @ \/ ~hrt.ready]
    /\ kid' = [kid EXCEPT !.reaped = TRUE]
    /\ log' = [log EXCEPT !.crashes = @ + 1]
    /\ UNCHANGED <<api, lp, down, up>>

(* The end of the channel: proc_peer_dead reaps, host_proc_msg_cb sees no      *)
(* payload; one that nobody asked for is reported to message_cb.               *)
LoopEof ==
    /\ lp = "run" /\ up = << >> /\ kid.st = "gone" /\ hrt.proc = "run"
    /\ hrt' = [hrt EXCEPT !.proc = "dead", !.ready = TRUE, !.shutting = TRUE,
                          !.ready_err = @ \/ ~hrt.ready]
    /\ kid' = [kid EXCEPT !.reaped = TRUE]
    /\ log' = [log EXCEPT !.crashes = IF hrt.ready /\ ~hrt.idle_ack /\ ~hrt.shutting
                                      THEN @ + 1 ELSE @]
    /\ UNCHANGED <<api, lp, down, up>>

(* Faulty variant: a child that still runs is left behind. *)
OrphaningLoopEnd ==
    /\ lp = "run" /\ hrt.shutting
    /\ lp' = "closed"
    /\ hrt' = [hrt EXCEPT !.proc = "free", !.ready = TRUE, !.ready_err = @ \/ ~hrt.ready]
    /\ UNCHANGED <<api, kid, down, up, log>>

(* After the loop: qz_proc_terminate asks, waits and kills; the child is       *)
(* reaped, the handle freed and the loop closed.                              *)
LoopEnd ==
    /\ lp = "run" /\ hrt.shutting
    /\ lp' = "closed"
    /\ kid' = [kid EXCEPT !.st = "gone", !.reaped = TRUE]
    /\ hrt' = [hrt EXCEPT !.proc = "free", !.ready = TRUE, !.ready_err = @ \/ ~hrt.ready]
    /\ UNCHANGED <<api, down, up, log>>

-----------------------------------------------------------------------------
(* The child: main of rt_main.c *)

(* The handshake, the loop, the endpoint, the runtime or the read pump cannot  *)
(* be had: the process ends without CONTROL{ready}.                           *)
KidBootFails ==
    /\ kid.st = "boot"
    /\ kid' = [kid EXCEPT !.st = "gone"]
    /\ log' = [log EXCEPT !.died = TRUE]
    /\ UNCHANGED <<api, lp, hrt, down, up>>

(* The initial program ends and CONTROL{ready} goes up; after a failure the    *)
(* process ends.                                                              *)
KidBoot(ok) ==
    /\ kid.st = "boot"
    /\ kid' = [kid EXCEPT !.st = IF ok THEN "run" ELSE "gone"]
    /\ up' = Append(up, Ctl(IF ok THEN "ready" ELSE "failed"))
    /\ log' = [log EXCEPT !.evaled = ok, !.died = ~ok]
    /\ UNCHANGED <<api, lp, hrt, down>>

(* process_rx: a ping is answered at once, the request to end when idle sets a *)
(* flag, a message goes to the queue of the runtime.                          *)
KidRead ==
    /\ kid.st = "run" /\ down # << >>
    /\ LET f == Head(down)
       IN  /\ kid' = CASE f.k = "msg"  -> [kid EXCEPT !.q = Append(@, f.n)]
                       [] f.k = "idle" -> [kid EXCEPT !.wait_idle = TRUE]
                       [] OTHER -> kid
           /\ up' = IF f.k = "ping" THEN Append(up, IsoPongFrame(f.n)) ELSE up
           /\ log' = IF f.k = "ping" THEN [log EXCEPT !.answered = @ \cup {f.n}] ELSE log
    /\ down' = Tail(down)
    /\ UNCHANGED <<api, lp, hrt>>

(* child_wake_cb: a message is dispatched, its script may send one back        *)
(* (server_emit_cb).                                                          *)
KidDispatch(echo) ==
    /\ kid.st = "run" /\ kid.q # << >>
    /\ echo => kid.sent < MaxEcho
    /\ kid' = [kid EXCEPT !.q = Tail(@), !.sent = IF echo THEN @ + 1 ELSE @]
    /\ log' = [log EXCEPT !.served = Append(@, Head(kid.q))]
    /\ up' = IF echo THEN Append(up, Ctl("msg")) ELSE up
    /\ UNCHANGED <<api, lp, hrt, down>>

(* The main loop finds qz_loop_idle, answers and ends. *)
KidIdle ==
    /\ kid.st = "run" /\ kid.wait_idle /\ kid.q = << >>
    /\ kid' = [kid EXCEPT !.st = "gone"]
    /\ up' = Append(up, Ctl("ack"))
    /\ UNCHANGED <<api, lp, hrt, down, log>>

(* The child dies. *)
KidCrash ==
    /\ kid.st = "run"
    /\ kid' = [kid EXCEPT !.st = "gone"]
    /\ log' = [log EXCEPT !.died = TRUE]
    /\ UNCHANGED <<api, lp, hrt, down, up>>

IsoHost ==
    \/ HostStart \/ HostStartFails \/ HostReady \/ HostJoin
    \/ HostPost \/ HostWaitIdle \/ HostIdleJoin
    \/ HostPing \/ HostPingPost \/ HostPingOk \/ HostPingGivesUp \/ HostDestroy

IsoLoop == LoopWake \/ LoopDrain \/ (\E a \in {FALSE, Replies} : LoopRead(a)) \/ LoopEof \/ LoopEnd

IsoKid ==
    \/ KidBootFails \/ KidRead \/ KidIdle
    \/ \E b \in BOOLEAN : KidBoot(b) \/ KidDispatch(b)

IsoNext == IsoHost \/ IsoLoop \/ IsoKid \/ KidCrash

IsoSpec == IsoInit /\ [][IsoNext]_isoVars

(* The loop thread and the child are scheduled, and the host thread leaves its *)
(* waits.                                                                     *)
IsoFairness ==
    /\ WF_isoVars(IsoLoop) /\ WF_isoVars(IsoKid)
    /\ WF_isoVars(HostReady \/ HostJoin \/ HostIdleJoin \/ HostPingPost \/ HostPingOk)

-----------------------------------------------------------------------------
(* Properties *)

(* The actors are at a known place, and the frames are those of the protocol. *)
IsoTypeOK ==
    /\ api \in {"start", "wait_ready", "up", "idle", "idled", "ping_post", "ping_wait",
                "stop", "stop_failed", "gone", "failed"}
    /\ lp \in {"none", "run", "drain", "closed"}
    /\ hrt.proc \in {"none", "run", "dead", "free"}
    /\ kid.st \in {"none", "boot", "run", "gone"}
    /\ \A i \in DOMAIN down : down[i].k \in {"msg", "idle", "ping"}
    /\ \A i \in DOMAIN up : up[i].k \in {"msg", "ready", "failed", "ack", "pong"}

(* qz_create succeeds only if the initial program of the child ended well,     *)
(* however the child's death and its frames interleave with the wait.          *)
CreateIsTruthful ==
    api \in {"up", "idle", "idled", "ping_post", "ping_wait"} => log.evaled

(* qz_wait_idle that returns with the child's answer has had every message     *)
(* posted before it dispatched, in order.                                     *)
IdleServesEarlier ==
    /\ api = "idled" /\ hrt.idle_ack => Len(log.served) >= log.early
    /\ log.served = [i \in 1 .. Len(log.served) |-> i]

(* message_cb is told of an exit at most once, and only of a child that died   *)
(* of itself or whose initial program failed: never after an answered idle     *)
(* request or while the host is shutting it down.                             *)
CrashIsTrue == log.crashes <= 1 /\ (log.crashes = 1 => log.died)

(* The loop thread is joined once, and the runtime is only gone when that      *)
(* thread has ended.                                                          *)
LoopJoinedOnce ==
    /\ log.joins <= 1
    /\ api = "gone" => lp = "closed"

(* After qz_destroy, and after a qz_create that failed, no child is left.      *)
NoOrphan == api \in {"gone", "failed"} => kid.st = "gone" /\ kid.reaped

(* A ping that succeeds was answered by the child. *)
IsoPingTruthful == ~log.wrong

(* What the host learns of a child process it cannot see: qz_create succeeds    *)
(* only if the initial program did, message_cb hears of a crash only when there *)
(* was one, a ping that succeeds was answered, and an idle child has served the *)
(* posts before the wait.                                                       *)
HostIsToldTheTruth ==
    /\ CreateIsTruthful /\ CrashIsTrue /\ IsoPingTruthful /\ IdleServesEarlier

(* However the host ends (a failed create, idle, destroy, a crash of the child) *)
(* the loop thread is joined once and no child process is left behind.          *)
ChildEndsOnce ==
    /\ IsoTypeOK /\ LoopJoinedOnce /\ NoOrphan

(* A child that dies makes the host's waits end: qz_create and qz_wait_idle    *)
(* return.                                                                    *)
IsoWaitsEnd == api \in {"wait_ready", "idle", "stop", "stop_failed"} ~> api \in {"up", "idled", "gone", "failed"}

(* Known not to hold, see the README. *)
(* Every message that was accepted is dispatched before qz_wait_idle returns   *)
(* with the child's answer, as it is in the thread backend.                    *)
AllPostsServed == api = "idled" /\ hrt.idle_ack => Len(log.served) = log.posted

(* Known not to hold, see the README. *)
(* Only one thread writes to the channel at a time. *)
OneWriter == ~(api = "ping_post" /\ lp = "drain")

(* Known not to hold, see the README. *)
(* A ping finds the process handle that it checked. *)
PingFindsProc == ~log.stale
=============================================================================
