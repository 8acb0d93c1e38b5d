---------------------------- MODULE ProcHandles ----------------------------
(***************************************************************************)
(* Child processes as the parent's loop thread sees them: the table of     *)
(* process handles (src/src/bridge.c), the read pump, the ping and the end  *)
(* of a process (src/src/ipc_process.c), and the ProcessWorker objects of   *)
(* src/polyfill/src/worker.js.                                             *)
(*                                                                         *)
(* A process is named by the number of the call of processSpawn that made  *)
(* it.  The channel carries whole frames, as IpcTx shows: application       *)
(* frames are numbered from 1 per process, and the PONG that answers ping s *)
(* is MaxFrame + s.  Everything the parent does happens on one thread; what *)
(* makes it hard is that JS is called in the middle of the read pump, and   *)
(* that the ping reads the same channel.                                    *)
(***************************************************************************)
EXTENDS Naturals, Sequences, FiniteSets

CONSTANTS
    MaxHandles,   \* QZ_MAX_PROC_HANDLES (64 in the code)
    MaxSpawn,     \* bound: calls of processSpawn
    MaxFrame,     \* bound: application frames a child sends
    MaxPing,      \* bound: pings of one process
    Reentrant,    \* TRUE if a message handler may start a process
    PingBusy      \* TRUE if a child that is sending frames may be pinged

ASSUME ProcAssumption ==
    /\ MaxHandles \in Nat \ {0} /\ MaxSpawn \in Nat
    /\ MaxFrame \in Nat /\ MaxPing \in Nat
    /\ {Reentrant, PingBusy} \subseteq BOOLEAN

Slots == 1 .. MaxHandles
Inc == 1 .. MaxSpawn
None == 0
Pong(s) == MaxFrame + s
IsPong(f) == f > MaxFrame
SeqOf(f) == f - MaxFrame   \* the envelope's corr

VARIABLES
    handle,     \* handle[h]: the process in rt->proc_handles[h], None if not live
    user,       \* user[k]: proc->msg_user, a slot and not a process
    pstate,     \* pstate[k]: proc->state, "none", "run" or "dead"
    freed,      \* freed[k]: proc->freed
    child,      \* child[k]: "none", "alive", "closed", "zombie" or "reaped"
    dead,       \* dead[k]: ProcessWorker._dead
    ended,      \* ended[k]: JS has called terminate() on the Worker
    sock,       \* sock[k]: frames on the way to the parent
    rbuf,       \* rbuf[k]: frames read and not consumed
    sent,       \* sent[k]: application frames the child has sent
    ask,        \* ask[k]: the PINGs the child has not answered
    pings,      \* pings[k]: proc->ping_seq
    pongs,      \* pongs[k]: proc->pong_seq
    rxproc,     \* the process whose frames proc_process_rx is consuming
    incb,       \* TRUE while JS runs under bridge_proc_msg_cb
    pinging,    \* the process qz_proc_ping waits for
    spawned, over,  \* calls of processSpawn; the runtime has been torn down
    got,        \* history: got[k], frames of k that its own Worker received
    cross,      \* history: a frame of k reached the Worker of another process
    alarm,      \* history: a ping gave the wrong answer
    reaps       \* history: reaps[k], successful waitpid calls

tableVars == <<handle, user, spawned, over>>
lifeVars == <<pstate, freed, child, dead, ended, reaps>>
wireVars == <<sock, rbuf, sent>>
pingVars == <<ask, pings, pongs, pinging, alarm>>
pumpVars == <<rxproc, incb>>
procVars == <<tableVars, lifeVars, wireVars, pingVars, pumpVars, got, cross>>

ProcInit ==
    /\ handle = [h \in Slots |-> None] /\ user = [k \in Inc |-> None]
    /\ pstate = [k \in Inc |-> "none"] /\ child = [k \in Inc |-> "none"]
    /\ freed = [k \in Inc |-> FALSE] /\ dead = [k \in Inc |-> FALSE]
    /\ ended = [k \in Inc |-> FALSE]
    /\ sock = [k \in Inc |-> << >>] /\ rbuf = [k \in Inc |-> << >>]
    /\ sent = [k \in Inc |-> 0]
    /\ ask = [k \in Inc |-> << >>] /\ pings = [k \in Inc |-> 0] /\ pongs = [k \in Inc |-> 0]
    /\ rxproc = None /\ incb = FALSE /\ pinging = None
    /\ spawned = 0 /\ over = FALSE
    /\ got = [k \in Inc |-> << >>] /\ cross = FALSE /\ alarm = FALSE
    /\ reaps = [k \in Inc |-> 0]

(* The loop may call back, or start a JS task. *)
Idle == rxproc = None /\ pinging = None /\ ~over

(* JS is running or may run: a task of its own, or a message handler. *)
JsRuns == pinging = None /\ (rxproc = None \/ incb) /\ ~over

(* kill if needed and waitpid: afterwards proc->pid is -1. *)
Reaped(k) ==
    /\ child' = [child EXCEPT ![k] = "reaped"]
    /\ reaps' = [reaps EXCEPT ![k] = IF child[k] = "reaped" THEN @ ELSE @ + 1]

-----------------------------------------------------------------------------
(* processSpawn *)

FreeSlots == {h \in Slots : handle[h] = None}

MaySpawn == JsRuns /\ spawned < MaxSpawn /\ (Reentrant \/ rxproc = None)

(* fork, handshake, a free handle, and the read pump is started. *)
Spawn ==
    /\ MaySpawn /\ FreeSlots # {}
    /\ LET k == spawned + 1
           h == CHOOSE i \in FreeSlots : \A j \in FreeSlots : i <= j IN
         /\ spawned' = k
         /\ handle' = [handle EXCEPT ![h] = k]
         /\ user' = [user EXCEPT ![k] = h]
         /\ pstate' = [pstate EXCEPT ![k] = "run"]
         /\ child' = [child EXCEPT ![k] = "alive"]
    /\ UNCHANGED <<over, freed, dead, ended, reaps, wireVars, pingVars, pumpVars, got, cross>>

(* No handshake in five seconds, or no handle is free: the child is killed and  *)
(* reaped, the structure freed, and processSpawn throws.                        *)
SpawnFail ==
    /\ MaySpawn
    /\ LET k == spawned + 1 IN
         /\ spawned' = k
         /\ child' = [child EXCEPT ![k] = "reaped"]
         /\ reaps' = [reaps EXCEPT ![k] = 1]
         /\ pstate' = [pstate EXCEPT ![k] = "dead"]
         /\ freed' = [freed EXCEPT ![k] = TRUE]
         /\ dead' = [dead EXCEPT ![k] = TRUE]
    /\ UNCHANGED <<handle, user, over, ended, wireVars, pingVars, pumpVars, got, cross>>

-----------------------------------------------------------------------------
(* The child process (rt_main.c): it sends, answers a PING, closes and exits *)

ChildSend(k) ==
    /\ child[k] = "alive" /\ sent[k] < MaxFrame
    /\ PingBusy \/ pinging # k
    /\ sent' = [sent EXCEPT ![k] = @ + 1]
    /\ sock' = [sock EXCEPT ![k] = Append(@, sent[k] + 1)]
    /\ UNCHANGED <<tableVars, lifeVars, rbuf, pingVars, pumpVars, got, cross>>

ChildPong(k) ==
    /\ child[k] = "alive" /\ ask[k] # << >>
    /\ ask' = [ask EXCEPT ![k] = Tail(@)]
    /\ sock' = [sock EXCEPT ![k] = Append(@, Pong(Head(ask[k])))]
    /\ UNCHANGED <<tableVars, lifeVars, rbuf, sent, pings, pongs, pinging, alarm, pumpVars,
                   got, cross>>

(* The channel closes first, by close() or by the death of the process. *)
ChildEnd(k) ==
    /\ child[k] \in {"alive", "closed"}
    /\ child' = [child EXCEPT ![k] = IF @ = "alive" THEN "closed" ELSE "zombie"]
    /\ UNCHANGED <<tableVars, pstate, freed, dead, ended, reaps, wireVars, pingVars,
                   pumpVars, got, cross>>

-----------------------------------------------------------------------------
(* The read pump: proc_read_cb, proc_process_rx, bridge_proc_msg_cb *)

(* Faulty variant: reading is not stopped when the process is released. *)
UnstoppedReading(k) == user[k] # None

(* The read pump of k is running: until the end of file or uv_read_stop. *)
Reading(k) == pstate[k] = "run" /\ ~freed[k]

Read(k) ==
    /\ Idle /\ Reading(k) /\ sock[k] # << >>
    /\ \E n \in 1 .. Len(sock[k]) :
         /\ rbuf' = [rbuf EXCEPT ![k] = @ \o SubSeq(sock[k], 1, n)]
         /\ sock' = [sock EXCEPT ![k] = SubSeq(@, n + 1, Len(@))]
    /\ rxproc' = k
    /\ UNCHANGED <<tableVars, lifeVars, sent, pingVars, incb, got, cross>>

(* A PONG is taken here, not by JS. *)
RxPong ==
    /\ rxproc # None /\ ~incb /\ pinging = None
    /\ rbuf[rxproc] # << >> /\ IsPong(Head(rbuf[rxproc]))
    /\ pongs' = [pongs EXCEPT ![rxproc] = SeqOf(Head(rbuf[rxproc]))]
    /\ rbuf' = [rbuf EXCEPT ![rxproc] = Tail(@)]
    /\ UNCHANGED <<tableVars, lifeVars, sock, sent, ask, pings, pinging, alarm, pumpVars,
                   got, cross>>

(* A frame is handed to whoever holds the slot; to nobody if it is not live. *)
RxFrame ==
    /\ rxproc # None /\ ~incb /\ pinging = None
    /\ rbuf[rxproc] # << >> /\ ~IsPong(Head(rbuf[rxproc]))
    /\ LET owner == handle[user[rxproc]] IN
         /\ incb' = (owner # None)
         /\ got' = IF owner = rxproc
                   THEN [got EXCEPT ![rxproc] = Append(@, Head(rbuf[rxproc]))] ELSE got
         /\ cross' = (cross \/ owner \notin {None, rxproc})
         /\ rbuf' = IF owner = None THEN [rbuf EXCEPT ![rxproc] = Tail(@)] ELSE rbuf
    /\ UNCHANGED <<tableVars, lifeVars, sock, sent, pingVars, rxproc>>

(* The handler returns and the frame is consumed. *)
CbReturn ==
    /\ rxproc # None /\ incb /\ pinging = None
    /\ incb' = FALSE
    /\ rbuf' = [rbuf EXCEPT ![rxproc] = Tail(@)]
    /\ UNCHANGED <<tableVars, lifeVars, sock, sent, pingVars, rxproc, got, cross>>

(* No complete frame is left. *)
RxEnd ==
    /\ rxproc # None /\ ~incb /\ pinging = None
    /\ rbuf[rxproc] = << >>
    /\ rxproc' = None
    /\ UNCHANGED <<tableVars, lifeVars, wireVars, pingVars, incb, got, cross>>

(* End of file: proc_peer_dead reaps the child, after SIGKILL if it has not      *)
(* exited yet, and tells JS, which marks the worker dead and may raise an error. *)
ReadEof(k) ==
    /\ Idle /\ Reading(k) /\ child[k] \in {"closed", "zombie"} /\ sock[k] = << >>
    /\ pstate' = [pstate EXCEPT ![k] = "dead"]
    /\ dead' = [dead EXCEPT ![k] = TRUE]
    /\ Reaped(k)
    /\ UNCHANGED <<tableVars, freed, ended, wireVars, pingVars, pumpVars, got, cross>>

-----------------------------------------------------------------------------
(* Worker.prototype.terminate and qz_thread_teardown *)

SlotsOf(ks) == {h \in Slots : handle[h] \in ks}

(* qz_proc_terminate and qz_proc_free of the processes ks: reaped if they were   *)
(* not yet, and their handles released.                                          *)
Release(ks) ==
    /\ child' = [k \in Inc |-> IF k \in ks THEN "reaped" ELSE child[k]]
    /\ reaps' = [k \in Inc |-> IF k \in ks /\ child[k] # "reaped" THEN reaps[k] + 1
                                                                  ELSE reaps[k]]
    /\ pstate' = [k \in Inc |-> IF k \in ks THEN "dead" ELSE pstate[k]]
    /\ freed' = [k \in Inc |-> freed[k] \/ k \in ks]
    /\ handle' = [h \in Slots |-> IF handle[h] \in ks THEN None ELSE handle[h]]

(* A worker that is marked dead is not terminated again. *)
Terminate(k) ==
    /\ JsRuns /\ user[k] # None /\ ~ended[k]
    /\ ended' = [ended EXCEPT ![k] = TRUE]
    /\ dead' = [dead EXCEPT ![k] = TRUE]
    /\ IF dead[k] THEN UNCHANGED <<child, reaps, pstate, freed, handle>> ELSE Release({k})
    /\ UNCHANGED <<user, spawned, over, wireVars, pingVars, pumpVars, got, cross>>

Teardown ==
    /\ Idle
    /\ over' = TRUE
    /\ Release({k \in Inc : SlotsOf({k}) # {}})
    /\ UNCHANGED <<user, spawned, dead, ended, wireVars, pingVars, pumpVars, got, cross>>

-----------------------------------------------------------------------------
(* qz_proc_ping *)

PingStart(k) ==
    /\ JsRuns /\ user[k] # None /\ ~dead[k] /\ Reading(k) /\ pings[k] < MaxPing
    /\ PingBusy \/ (rxproc # k /\ sock[k] = << >> /\ rbuf[k] = << >>)
    /\ pings' = [pings EXCEPT ![k] = @ + 1]
    /\ ask' = [ask EXCEPT ![k] = Append(@, pings[k] + 1)]
    /\ pinging' = k
    /\ UNCHANGED <<tableVars, lifeVars, wireVars, pongs, alarm, pumpVars, got, cross>>

(* The PONGs at the head of buffer b: the wait stops at the first other frame. *)
Pongs(b) == {i \in DOMAIN b : \A j \in 1 .. i : IsPong(b[j])}

(* The wait reads the channel itself, and leaves what is not a PONG in the buffer. *)
PingRead ==
    /\ pinging # None /\ pongs[pinging] < pings[pinging] /\ sock[pinging] # << >>
    /\ LET b == rbuf[pinging] \o sock[pinging]
           n == Cardinality(Pongs(b)) IN
         /\ rbuf' = [rbuf EXCEPT ![pinging] = SubSeq(b, n + 1, Len(b))]
         /\ pongs' = IF n = 0 THEN pongs ELSE [pongs EXCEPT ![pinging] = SeqOf(b[n])]
    /\ sock' = [sock EXCEPT ![pinging] = << >>]
    /\ UNCHANGED <<tableVars, lifeVars, sent, ask, pings, pinging, alarm, pumpVars, got, cross>>

(* 0: the PONG is there. *)
PingOk ==
    /\ pinging # None /\ pongs[pinging] >= pings[pinging]
    /\ alarm' = (alarm \/ \E i \in DOMAIN ask[pinging] : ask[pinging][i] = pings[pinging])
    /\ pinging' = None
    /\ UNCHANGED <<tableVars, lifeVars, wireVars, ask, pings, pongs, pumpVars, got, cross>>

(* 1: the time is over; "the loop of the peer is blocked". *)
PingTimeout ==
    /\ pinging # None /\ pongs[pinging] < pings[pinging]
    /\ alarm' = (alarm \/ \E i \in DOMAIN rbuf[pinging] :
                              rbuf[pinging][i] = Pong(pings[pinging]))
    /\ pinging' = None
    /\ UNCHANGED <<tableVars, lifeVars, wireVars, ask, pings, pongs, pumpVars, got, cross>>

(* -1: end of file; the read pump will meet it again. *)
PingDead ==
    /\ pinging # None /\ pongs[pinging] < pings[pinging]
    /\ child[pinging] # "alive" /\ sock[pinging] = << >>
    /\ pinging' = None
    /\ UNCHANGED <<tableVars, lifeVars, wireVars, ask, pings, pongs, alarm, pumpVars, got, cross>>

Finished == over /\ UNCHANGED procVars

-----------------------------------------------------------------------------
Pump == RxPong \/ RxFrame \/ CbReturn \/ RxEnd
Ping == PingRead \/ PingOk \/ PingTimeout \/ PingDead

ProcNext ==
    \/ Pump \/ Ping \/ Spawn \/ SpawnFail \/ Teardown
    \/ \E k \in Inc :
         \/ ChildSend(k) \/ ChildPong(k) \/ ChildEnd(k)
         \/ Read(k) \/ ReadEof(k) \/ Terminate(k) \/ PingStart(k)
    \/ Finished

ProcSpec == ProcInit /\ [][ProcNext]_procVars

(* The loop turns, handlers return, a ping has a deadline. *)
ProcFairness ==
    /\ WF_procVars(Pump) /\ WF_procVars(Ping)
    /\ \A k \in Inc : WF_procVars(Read(k)) /\ WF_procVars(ReadEof(k))

ProcLiveSpec == ProcSpec /\ ProcFairness

-----------------------------------------------------------------------------
(* Properties *)

(* Every variable keeps its type; JS runs under the pump only while it is at a frame. *)
ProcTypeOK ==
    /\ handle \in [Slots -> Inc \cup {None}] /\ user \in [Inc -> Slots \cup {None}]
    /\ pstate \in [Inc -> {"none", "run", "dead"}]
    /\ child \in [Inc -> {"none", "alive", "closed", "zombie", "reaped"}]
    /\ {freed, dead, ended} \subseteq [Inc -> BOOLEAN]
    /\ \A k \in Inc : \A b \in {sock[k], rbuf[k], got[k]} :
         \A i \in DOMAIN b : b[i] \in 1 .. MaxFrame + MaxPing
    /\ \A k \in Inc : \A i \in DOMAIN ask[k] : ask[k][i] \in 1 .. MaxPing
    /\ {sent, pings, pongs, reaps} \subseteq [Inc -> Nat]
    /\ rxproc \in Inc \cup {None} /\ pinging \in Inc \cup {None}
    /\ {incb, over, cross, alarm} \subseteq BOOLEAN /\ spawned \in 0 .. MaxSpawn
    /\ incb => rxproc # None /\ rbuf[rxproc] # << >>

(* Every child is waited for at most once, a structure is only freed when its    *)
(* child has been reaped, and the teardown of the runtime leaves no child behind *)
(* (qz_proc_terminate, proc_peer_dead, qz_proc_free, qz_thread_teardown 0.5).     *)
ReapedOnce ==
    \A k \in Inc :
      /\ reaps[k] <= 1
      /\ freed[k] \/ over => child[k] \in {"none", "reaped"}
      /\ pstate[k] = "dead" => child[k] = "reaped"

(* A Worker object only ever receives frames of its own process (the slot in      *)
(* msg_user of bridge_proc_msg_cb).                                               *)
NoCrossDelivery == ~cross

(* A Worker receives the frames of its process in order, each once, none missing. *)
FramesInOrder == \A k \in Inc : got[k] = [i \in 1 .. Len(got[k]) |-> i]

(* qz_proc_ping says that the peer is well only if it has answered this very ping, *)
(* and that it is blocked only if that answer has not arrived.                     *)
PingTruthful == ~alarm

(* Once JS has terminated a Worker its handle can be used by another process. *)
TerminatedIsReleased == \A k \in Inc : ended[k] => SlotsOf({k}) = {}

(* A frame that was read does not stay in the buffer: it is dispatched, or the   *)
(* process is at its end.                                                         *)
FramesConsumed ==
    \A k \in Inc : rbuf[k] # << >> ~> (rbuf[k] = << >> \/ pstate[k] = "dead" \/ over)

(* The end of a child is noticed: it is reaped and JS is told. *)
EndIsNoticed ==
    \A k \in Inc : child[k] = "zombie" ~> (child[k] = "reaped" \/ over)

(* Whatever a handler does, only a frame of a process whose Worker JS has         *)
(* terminated can reach the Worker that has its slot now.                          *)
StraysAreOfTheTerminated == [][cross' # cross => ended[rxproc]]_procVars

(* Whatever is under way when it is asked, qz_proc_ping never says 0 of a peer     *)
(* that has not answered this ping.                                                *)
WellMeansAnswered == [][PingOk => alarm' = alarm]_procVars

(* What the parent may rely on while children come, answer, die and are     *)
(* terminated and slots pass from one to the next: each child is waited for *)
(* once, its frames reach its own worker object, in order, and a ping that  *)
(* succeeds was answered by the child it was sent to.                       *)
ChildrenAreServed ==
    /\ ProcTypeOK /\ ReapedOnce /\ NoCrossDelivery /\ FramesInOrder /\ PingTruthful

(* The same where a handler may start a process or a busy child may be pinged. *)
ChildrenAreKept ==
    /\ ProcTypeOK /\ ReapedOnce /\ FramesInOrder
    /\ Reentrant \/ NoCrossDelivery
    /\ PingBusy \/ PingTruthful
=============================================================================
