---------------------------- MODULE WorkerSlots ----------------------------
(***************************************************************************)
(* Web Workers on the thread backend: the parent's table of worker slots   *)
(* (src/src/worker.c), the pal functions that reach it (src/src/bridge.c)  *)
(* and the Worker objects of the polyfill (src/polyfill/src/worker.js).    *)
(*                                                                         *)
(* A worker is named by the number of the call of new Worker that made it; *)
(* its id is the index of its slot and is used again after the slot has    *)
(* been reaped.  The parent's inbound queue is used through what MsgFifo   *)
(* promises: a place is claimed, then linked, and readers stop at the      *)
(* first place that is not linked yet.                                     *)
(***************************************************************************)
EXTENDS Naturals, Sequences, FiniteSets

CONSTANTS
    MaxWorkers,    \* QZ_MAX_WORKERS (16 in the code)
    MaxSpawn,      \* bound: calls of new Worker
    MaxEmit        \* bound: messages a worker posts to its parent

ASSUME WorkerAssumption ==
    MaxWorkers \in Nat \ {0} /\ MaxSpawn \in Nat /\ MaxEmit \in Nat

Ids == 1 .. MaxWorkers
Inc == 1 .. MaxSpawn        \* incarnations: one per call of new Worker
None == 0

VARIABLES
    slot,        \* slot[i]: the incarnation whose qz_worker_t is in parent->workers[i-1]
    workers,     \* workers[i]: the Worker object worker.js has under id i
    id,          \* id[k]: w->id
    wsd, rsd,    \* w->shutting_down and w->self->shutting_down
    self,        \* self[k]: w->self, "none", "live" or "freed" (NULL in the code)
    thread,      \* where worker k's thread is
    wake,        \* the pending flag of self->wake
    inq,         \* messages in the worker's own inbound queue
    err,         \* self->ready_err
    emitted,     \* messages worker k has claimed a place for
    queue,       \* the parent's inbound queue: records [src, id, linked]
    pc, idx,     \* where the parent thread is, and at which slot
    cur,         \* the incarnation being created
    spawned,     \* calls of new Worker so far
    joins,       \* history: joins[k], calls of uv_thread_join on w->thread
    misrouted,   \* history: a message reached a Worker object that is not its sender's
    gapped       \* history: a slot was given back while a push was between claim and link

tableVars == <<slot, workers, id>>
workerVars == <<wsd, rsd, self, thread, wake, inq, err, emitted>>
parentVars == <<pc, idx, cur, spawned>>
histVars == <<joins, misrouted, gapped>>
vars == <<tableVars, workerVars, queue, parentVars, histVars>>

Init ==
    /\ slot = [i \in Ids |-> None] /\ workers = [i \in Ids |-> None]
    /\ id = [k \in Inc |-> None]
    /\ wsd = [k \in Inc |-> FALSE] /\ rsd = [k \in Inc |-> FALSE]
    /\ self = [k \in Inc |-> "none"]
    /\ thread = [k \in Inc |-> "none"]
    /\ wake = [k \in Inc |-> FALSE]
    /\ inq = [k \in Inc |-> 0]
    /\ err = [k \in Inc |-> FALSE]
    /\ emitted = [k \in Inc |-> 0]
    /\ queue = << >>
    /\ pc = "js" /\ idx = 1 /\ cur = None /\ spawned = 0
    /\ joins = [k \in Inc |-> 0] /\ misrouted = FALSE /\ gapped = FALSE

-----------------------------------------------------------------------------
(* The parent's inbound queue *)

Claim(src, i) == queue' = Append(queue, [src |-> src, id |-> i, linked |-> FALSE])

Link(src) ==
    queue' = [n \in DOMAIN queue |->
                IF queue[n].src = src
                THEN [src |-> src, id |-> queue[n].id, linked |-> TRUE] ELSE queue[n]]

(* The places a reader of the links can see. *)
Visible == {n \in DOMAIN queue : \A m \in 1 .. n : queue[m].linked}

(* qz_worker_msg_queued *)
MsgQueued(i) == \E n \in Visible : queue[n].id = i

-----------------------------------------------------------------------------
(* A worker's thread: qz_worker_thread_main, qz_worker_wake_cb, js_pal_worker_* *)

At(k, s) == thread[k] = s
To(k, s) == thread' = [thread EXCEPT ![k] = s]

(* The loop, the async or the runtime cannot be set up: ready_err. *)
WorkerInitFail(k) ==
    /\ At(k, "init")
    /\ err' = [err EXCEPT ![k] = TRUE]
    /\ To(k, "failed")
    /\ UNCHANGED <<tableVars, wsd, rsd, self, wake, inq, emitted, queue, parentVars, histVars>>

(* thread_ready is set; the thread tears its runtime down and ends. *)
WorkerFailExit(k) ==
    /\ At(k, "failed")
    /\ To(k, "exited")
    /\ UNCHANGED <<tableVars, wsd, rsd, self, wake, inq, err, emitted, queue, parentVars, histVars>>

WorkerInit(k) ==
    /\ At(k, "init")
    /\ To(k, "script")
    /\ UNCHANGED <<tableVars, wsd, rsd, self, wake, inq, err, emitted, queue, parentVars, histVars>>

InJS(k) == thread[k] \in {"script", "js"}

(* js_pal_worker_emit: qz_msg_push into the parent's queue. *)
EmitClaim(k) ==
    /\ InJS(k) /\ emitted[k] < MaxEmit
    /\ Claim(k, id[k])
    /\ emitted' = [emitted EXCEPT ![k] = @ + 1]
    /\ To(k, IF At(k, "script") THEN "script_link" ELSE "js_link")
    /\ UNCHANGED <<tableVars, wsd, rsd, self, wake, inq, err, parentVars, histVars>>

EmitLink(k) ==
    /\ thread[k] \in {"script_link", "js_link"}
    /\ Link(k)
    /\ To(k, IF At(k, "script_link") THEN "script" ELSE "js")
    /\ UNCHANGED <<tableVars, wsd, rsd, self, wake, inq, err, emitted, parentVars,
                   histVars>>

(* qz_worker_terminate, called by the parent or by the worker's own close(). *)
TerminateStores(k) ==
    /\ wsd' = [wsd EXCEPT ![k] = TRUE]
    /\ IF self[k] = "live"
       THEN rsd' = [rsd EXCEPT ![k] = TRUE] /\ wake' = [wake EXCEPT ![k] = TRUE]
       ELSE UNCHANGED <<rsd, wake>>

WorkerClose(k) ==
    /\ InJS(k)
    /\ TerminateStores(k)
    /\ UNCHANGED <<tableVars, self, thread, inq, err, emitted, queue, parentVars,
                   histVars>>

(* The script or a callback is over; after the script, thread_ready is set. *)
WorkerJsEnd(k) ==
    /\ InJS(k)
    /\ To(k, "head")
    /\ UNCHANGED <<tableVars, wsd, rsd, self, wake, inq, err, emitted, queue, parentVars, histVars>>

(* The loop condition, before and after uv_run. *)
WorkerHead(k) ==
    /\ At(k, "head")
    /\ To(k, IF rsd[k] \/ wsd[k] THEN "teardown" ELSE "uv_run")
    /\ UNCHANGED <<tableVars, wsd, rsd, self, wake, inq, err, emitted, queue, parentVars, histVars>>

(* uv_run delivers the wake-up: the queue is drained and dispatched, unless the *)
(* runtime is shutting down.                                                     *)
WorkerWake(k) ==
    /\ At(k, "uv_run") /\ wake[k]
    /\ wake' = [wake EXCEPT ![k] = FALSE]
    /\ IF rsd[k] THEN To(k, "head") /\ UNCHANGED inq
                 ELSE To(k, "js") /\ inq' = [inq EXCEPT ![k] = 0]
    /\ UNCHANGED <<tableVars, wsd, rsd, self, err, emitted, queue, parentVars,
                   histVars>>

(* A timer or request of the worker's own reports. *)
WorkerEvent(k) ==
    /\ At(k, "uv_run")
    /\ To(k, "js")
    /\ UNCHANGED <<tableVars, wsd, rsd, self, wake, inq, err, emitted, queue, parentVars, histVars>>

(* qz_thread_teardown of the worker's runtime, and the end of the thread. *)
WorkerTeardown(k) ==
    /\ At(k, "teardown")
    /\ inq' = [inq EXCEPT ![k] = 0]
    /\ To(k, "exited")
    /\ UNCHANGED <<tableVars, wsd, rsd, self, wake, err, emitted, queue, parentVars,
                   histVars>>

-----------------------------------------------------------------------------
(* The parent: qz_worker_create behind new Worker *)

(* new Worker begins with qz_worker_reap. *)
SpawnBegin ==
    /\ pc = "js" /\ spawned < MaxSpawn
    /\ spawned' = spawned + 1
    /\ cur' = spawned + 1
    /\ pc' = "reap" /\ idx' = 1
    /\ UNCHANGED <<tableVars, workerVars, queue, histVars>>

NextSlot == IF idx < MaxWorkers THEN idx' = idx + 1 /\ UNCHANGED pc
                                ELSE idx' = 1 /\ pc' = "create"

AskedToExit(i) == slot[i] # None /\ wsd[slot[i]]

(* A slot that is empty or whose worker was not asked to exit is left alone. *)
ReapSkip ==
    /\ pc = "reap"
    /\ ~AskedToExit(idx)
    /\ NextSlot
    /\ UNCHANGED <<tableVars, workerVars, queue, cur, spawned, histVars>>

(* uv_thread_join, then the worker's runtime is freed, if not done before. *)
Join(k) ==
    /\ At(k, "exited")
    /\ joins' = [joins EXCEPT ![k] = @ + 1]
    /\ self' = [self EXCEPT ![k] = "freed"]

(* Faulty variant: a slot is reused though a message of its worker is queued. *)
EagerReap ==
    /\ pc = "reap" /\ AskedToExit(idx)
    /\ IF self[slot[idx]] = "live" THEN Join(slot[idx]) ELSE UNCHANGED <<joins, self>>
    /\ slot' = [slot EXCEPT ![idx] = None]
    /\ gapped' = (gapped \/ (slot'[idx] = None /\ Visible # DOMAIN queue))
    /\ NextSlot
    /\ UNCHANGED <<workers, id, wsd, rsd, thread, wake, inq, err, emitted, queue, cur, spawned, misrouted>>

(* Faulty variant: the runtime is freed without waiting for the thread. *)
UnjoinedReap ==
    /\ pc = "reap" /\ AskedToExit(idx)
    /\ self' = [self EXCEPT ![slot[idx]] = "freed"]
    /\ slot' = IF MsgQueued(idx) THEN slot ELSE [slot EXCEPT ![idx] = None]
    /\ gapped' = (gapped \/ (slot'[idx] = None /\ Visible # DOMAIN queue))
    /\ NextSlot
    /\ UNCHANGED <<workers, id, wsd, rsd, thread, wake, inq, err, emitted, queue, cur, spawned, joins, misrouted>>

(* Faulty variant: the slot of a worker is given back, the worker left to itself. *)
ForgetfulReap ==
    /\ pc = "reap" /\ AskedToExit(idx)
    /\ slot' = IF MsgQueued(idx) THEN slot ELSE [slot EXCEPT ![idx] = None]
    /\ gapped' = (gapped \/ (slot'[idx] = None /\ Visible # DOMAIN queue))
    /\ NextSlot
    /\ UNCHANGED <<workers, id, wsd, rsd, self, thread, wake, inq, err, emitted, queue, cur, spawned, joins,
                   misrouted>>

(* A slot whose worker was asked to exit: join and free once, and give the slot  *)
(* back unless a message of the worker is still in the parent's queue.           *)
Reap ==
    /\ pc = "reap" /\ AskedToExit(idx)
    /\ IF self[slot[idx]] = "live" THEN Join(slot[idx]) ELSE UNCHANGED <<joins, self>>
    /\ slot' = IF MsgQueued(idx) THEN slot ELSE [slot EXCEPT ![idx] = None]
    /\ gapped' = (gapped \/ (slot'[idx] = None /\ Visible # DOMAIN queue))
    /\ NextSlot
    /\ UNCHANGED <<workers, id, wsd, rsd, thread, wake, inq, err, emitted, queue, cur, spawned, misrouted>>

FreeSlots == {i \in Ids : slot[i] = None}

(* No slot (BUSY), no memory or no thread: new Worker throws. *)
CreateFail ==
    /\ pc = "create"
    /\ pc' = "js" /\ cur' = None
    /\ UNCHANGED <<tableVars, workerVars, queue, idx, spawned, histVars>>

(* The first free slot is taken and the thread started. *)
CreateThread ==
    /\ pc = "create" /\ FreeSlots # {}
    /\ LET i == CHOOSE j \in FreeSlots : \A h \in FreeSlots : j <= h IN
         /\ slot' = [slot EXCEPT ![i] = cur]
         /\ id' = [id EXCEPT ![cur] = i]
    /\ self' = [self EXCEPT ![cur] = "live"]
    /\ To(cur, "init")
    /\ pc' = "spin"
    /\ UNCHANGED <<workers, wsd, rsd, wake, inq, err, emitted, queue, idx, cur,
                   spawned, histVars>>

(* thread_ready is seen: the id is returned and worker.js registers the object. *)
CreateReturn ==
    /\ pc = "spin"
    /\ thread[cur] \notin {"init", "script", "script_link", "failed"} /\ ~err[cur]
    /\ workers' = [workers EXCEPT ![id[cur]] = cur]
    /\ pc' = "js" /\ cur' = None
    /\ UNCHANGED <<slot, id, workerVars, queue, idx, spawned, histVars>>

(* ready_err: join, free, clear the slot, throw. *)
CreateError ==
    /\ pc = "spin" /\ err[cur]
    /\ Join(cur)
    /\ slot' = [slot EXCEPT ![id[cur]] = None]
    /\ pc' = "js" /\ cur' = None
    /\ UNCHANGED <<workers, id, wsd, rsd, thread, wake, inq, err, emitted, queue, idx, spawned, misrouted, gapped>>

-----------------------------------------------------------------------------
(* The parent: methods of a Worker object, and dispatch *)

(* A script has Worker object k, whose slot may be another worker's by now. *)
Usable(k) == pc = "js" /\ id[k] # None /\ ~err[k]

(* js_pal_worker_post through qz_worker_get and qz_worker_post: dropped if the    *)
(* slot is empty (it throws), shutting down or already released.                  *)
Post(k) ==
    /\ Usable(k)
    /\ LET w == slot[id[k]] IN
         /\ w # None /\ ~wsd[w] /\ self[w] = "live"
         /\ inq[w] = 0
         /\ inq' = [inq EXCEPT ![w] = 1]
         /\ wake' = [wake EXCEPT ![w] = TRUE]
    /\ UNCHANGED <<tableVars, wsd, rsd, self, thread, err, emitted, queue, parentVars, histVars>>

(* Faulty variant: a worker blocked in uv_run is not woken. *)
SilentTerminate(k) ==
    /\ Usable(k)
    /\ workers' = [workers EXCEPT ![id[k]] = None]
    /\ LET w == slot[id[k]] IN
         IF w = None THEN UNCHANGED <<wsd, rsd>>
         ELSE wsd' = [wsd EXCEPT ![w] = TRUE] /\ rsd' = [rsd EXCEPT ![w] = TRUE]
    /\ UNCHANGED <<slot, id, self, thread, wake, inq, err, emitted, queue, parentVars, histVars>>

(* Worker.prototype.terminate: pal.workerTerminate(id), then workers.delete(id). *)
Terminate(k) ==
    /\ Usable(k)
    /\ workers' = [workers EXCEPT ![id[k]] = None]
    /\ LET w == slot[id[k]] IN
         IF w = None THEN UNCHANGED <<wsd, rsd, wake>> ELSE TerminateStores(w)
    /\ UNCHANGED <<slot, id, self, thread, inq, err, emitted, queue, parentVars,
                   histVars>>

(* qz_wake_cb takes a message; __qz_dispatch__ looks its source id up. *)
Dispatch ==
    /\ pc = "js" /\ queue # << >> /\ queue[1].linked
    /\ queue' = Tail(queue)
    /\ LET m == queue[1] IN
         misrouted' = (misrouted \/ (m.id # None /\ workers[m.id] \notin {None, m.src}))
    /\ UNCHANGED <<tableVars, workerVars, parentVars, joins, gapped>>

-----------------------------------------------------------------------------
(* The parent's teardown, step 0, and the drain of step 1 *)

TeardownBegin ==
    /\ pc = "js"
    /\ pc' = "td_terminate" /\ idx' = 1
    /\ UNCHANGED <<tableVars, workerVars, queue, cur, spawned, histVars>>

TdTerminate ==
    /\ pc = "td_terminate"
    /\ IF slot[idx] = None THEN UNCHANGED <<wsd, rsd, wake>> ELSE TerminateStores(slot[idx])
    /\ pc' = "td_join"
    /\ UNCHANGED <<tableVars, self, thread, inq, err, emitted, queue, idx, cur,
                   spawned, histVars>>

TdJoin ==
    /\ pc = "td_join"
    /\ IF slot[idx] # None /\ self[slot[idx]] = "live"
       THEN Join(slot[idx]) ELSE UNCHANGED <<joins, self>>
    /\ slot' = [slot EXCEPT ![idx] = None]
    /\ IF idx < MaxWorkers
       THEN idx' = idx + 1 /\ pc' = "td_terminate" /\ UNCHANGED queue
       ELSE /\ idx' = 1 /\ pc' = "done"
            /\ queue' = SubSeq(queue, Cardinality(Visible) + 1, Len(queue))
    /\ UNCHANGED <<workers, id, wsd, rsd, thread, wake, inq, err, emitted, cur,
                   spawned, misrouted, gapped>>

Finished ==
    /\ pc = "done"
    /\ \A k \in Inc : thread[k] \in {"none", "exited"}
    /\ UNCHANGED vars

-----------------------------------------------------------------------------
WorkerStep(k) ==
    \/ WorkerInitFail(k) \/ WorkerFailExit(k) \/ WorkerInit(k)
    \/ EmitLink(k) \/ WorkerJsEnd(k) \/ WorkerHead(k) \/ WorkerWake(k) \/ WorkerTeardown(k)

ParentInCall ==
    \/ ReapSkip \/ Reap \/ CreateFail \/ CreateThread \/ CreateReturn \/ CreateError
    \/ TdTerminate \/ TdJoin

Next ==
    \/ ParentInCall \/ SpawnBegin \/ Dispatch \/ TeardownBegin
    \/ \E k \in Inc :
         \/ WorkerStep(k) \/ EmitClaim(k) \/ WorkerClose(k) \/ WorkerEvent(k)
         \/ Post(k) \/ Terminate(k)
    \/ Finished

Spec == Init /\ [][Next]_vars

(* The operating system runs the threads, and the scripts of the workers come    *)
(* to an end: a worker's JS is not required to post, close or keep running.       *)
Fairness ==
    /\ WF_vars(ParentInCall)
    /\ \A k \in Inc : WF_vars(WorkerStep(k))

LiveSpec == Spec /\ Fairness

-----------------------------------------------------------------------------
(* Properties *)

ThreadStates ==
    {"none", "init", "failed", "script", "script_link", "head", "uv_run", "js", "js_link",
     "teardown", "exited"}

(* Every variable keeps its type, and a slot never holds two workers' ids. *)
TypeOK ==
    /\ slot \in [Ids -> Inc \cup {None}] /\ workers \in [Ids -> Inc \cup {None}]
    /\ id \in [Inc -> Ids \cup {None}]
    /\ {wsd, rsd, wake, err} \subseteq [Inc -> BOOLEAN]
    /\ self \in [Inc -> {"none", "live", "freed"}]
    /\ thread \in [Inc -> ThreadStates]
    /\ inq \in [Inc -> 0 .. 1] /\ emitted \in [Inc -> 0 .. MaxEmit]
    /\ \A n \in DOMAIN queue : queue[n].src \in Inc /\ queue[n].id \in Ids \cup {None}
    /\ pc \in {"js", "reap", "create", "spin", "td_terminate", "td_join", "done"}
    /\ idx \in Ids /\ cur \in Inc \cup {None} /\ spawned \in 0 .. MaxSpawn
    /\ joins \in [Inc -> Nat] /\ {misrouted, gapped} \subseteq BOOLEAN

(* Of qz_worker_reap ("a left-over message would be dispatched to the new          *)
(* worker"): no message of one worker is delivered to the Worker object of         *)
(* another, however ids are reused.                                                *)
NoMisrouting == ~misrouted

(* The same, as long as no slot was given back while another worker was between    *)
(* the claim of a place in the queue and the link to it.                           *)
LinkedAreNotMisrouted == misrouted => gapped

(* Of qz_worker_reap ("self is no longer referenced by any thread"): a worker's    *)
(* runtime is freed only after its thread has ended, and its thread is joined      *)
(* exactly once before.                                                            *)
FreedAfterJoin ==
    \A k \in Inc :
      /\ joins[k] <= 1
      /\ self[k] = "freed" => thread[k] = "exited" /\ joins[k] = 1

(* Of step 0 of qz_thread_teardown: when the parent's teardown is over no worker   *)
(* thread is left and every worker's runtime has been freed.                       *)
NoWorkerOutlivesParent ==
    pc = "done" => \A k \in Inc : thread[k] \in {"none", "exited"} /\ self[k] # "live"

(* Known not to hold, see the README. *)
(* Of js_pal_worker_terminate ("already terminated or absent: idempotent"):        *)
(* terminate on one Worker object never asks another worker to exit.               *)
TerminateIsLocal ==
    [][\A k \in Inc : Terminate(k) => \A w \in Inc \ {k} : wsd'[w] = wsd[w]]_vars

(* What the reuse of ids leaves of it: terminate on a Worker object whose own       *)
(* worker has not been joined yet asks no other worker to exit, whoever had the    *)
(* slot before and whatever was terminated through stale objects.                  *)
TerminateIsOwn ==
    [][\A k \in Inc : Terminate(k) /\ joins[k] = 0 =>
          \A w \in Inc \ {k} : wsd'[w] = wsd[w]]_vars

(* Of qz_worker_create and qz_thread_teardown: neither waits for ever, because a   *)
(* worker that was asked to exit is woken and ends.                                *)
ParentCallsReturn == pc \notin {"js", "done"} ~> pc \in {"js", "done"}

(* A worker's runtime is freed only when its thread has been joined, whoever  *)
(* ended it, and at the parent's teardown no worker thread is left that could *)
(* still push to the parent's queue.                                          *)
WorkersAreJoined ==
    /\ TypeOK /\ FreedAfterJoin /\ NoWorkerOutlivesParent
=============================================================================
