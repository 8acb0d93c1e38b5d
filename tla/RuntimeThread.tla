--------------------------- MODULE RuntimeThread ---------------------------
(***************************************************************************)
(* The life of one qzjs runtime in THREAD mode: the host's qz_create,      *)
(* qz_post_message, qz_wait_idle and qz_destroy (src/src/qzjs.c), and the  *)
(* internal thread with its event loop, idle detection and teardown        *)
(* (src/src/thread.c, qz_thread_teardown in src/src/qzjs.c).               *)
(*                                                                         *)
(* The inbound queue is used through what MsgFifo promises: a post claims  *)
(* its place, links it, and sends the wake-up, in three steps that other   *)
(* threads may separate; the consumer reads only up to the first unlinked  *)
(* place.  JavaScript is abstracted to what the event loop can tell apart: *)
(* a task may queue a job, start a timer, a thread-pool request or the     *)
(* streaming HTTP operation.                                               *)
(***************************************************************************)
EXTENDS Naturals, Sequences, FiniteSets

CONSTANTS
    Posters,       \* threads that call qz_post_message
    HostThread,    \* the thread that called qz_create, one of Posters
    MaxPost,       \* bound: posts per thread
    MaxWork,       \* bound: jobs, timers, requests and streams JS starts itself
    PumpRounds,    \* rounds of uv_run in step 2.5 of the teardown (16 in the code)
    FailableInit,  \* initialisation steps that may fail
    JobsMayThrow   \* TRUE if JS_ExecutePendingJob may report an exception

InitSteps == {"loop_init", "async_init", "endpoint_init", "runtime_init", "eval"}

ASSUME ThreadAssumption ==
    /\ HostThread \in Posters
    /\ MaxPost \in Nat /\ MaxWork \in Nat
    /\ PumpRounds \in Nat \ {0}
    /\ FailableInit \subseteq InitSteps
    /\ JobsMayThrow \in BOOLEAN

VARIABLES
    host,          \* where the host thread is in its API call
    thread_ready, ready_err, shutting_down, wait_idle, thread_joined,
    pc,            \* where the internal thread is
    round,         \* rounds of step 2.5 already run
    loop,          \* rt->loop: "none", "open", "closed"
    wakeInit,      \* uv_async_init(&rt->wake) has succeeded
    wake,          \* the pending flag of rt->wake
    jsrt,          \* rt->jsrt: "none", "live", "freed"
    queue,         \* the inbound queue: records [m, linked]
    pstate,        \* pstate[p]: "idle", "link", "send"
    posted,        \* posted[p]: posts p has started
    jobs,          \* pending JS jobs, each by the task it stems from
    timers,        \* active timer handles
    pool, done,    \* requests in the thread pool; completed, callback not run
    stream,        \* rt->active_stream
    budget,        \* work JS may still start
    dispatched,    \* history: messages handed to JS
    promised,      \* history: messages the consumer could reach when qz_wait_idle was called
    idleExit,      \* history: the thread decided to exit because it was idle
    threw,         \* history: some job threw
    joins,         \* history: calls of uv_thread_join on rt->thread
    misuse         \* history: accesses to objects that no longer or do not exist

flagVars == <<thread_ready, ready_err, shutting_down, wait_idle, thread_joined>>
queueVars == <<queue, pstate, posted>>
workVars == <<jobs, timers, pool, done, stream, budget>>
objVars == <<loop, wakeInit, jsrt>>
histVars == <<dispatched, promised, idleExit, threw, joins, misuse>>
vars == <<host, flagVars, pc, round, wake, objVars, queueVars, workVars, histVars>>

Messages == Posters \X (1 .. MaxPost)
EmptyQueue == queue = << >>
HeadLinked == ~EmptyQueue /\ queue[1].linked

Init ==
    /\ host = "new"
    /\ thread_ready = FALSE /\ ready_err = FALSE /\ shutting_down = FALSE
    /\ wait_idle = FALSE /\ thread_joined = FALSE
    /\ pc = "none" /\ round = 0
    /\ loop = "none" /\ wakeInit = FALSE /\ wake = FALSE /\ jsrt = "none"
    /\ queue = << >>
    /\ pstate = [p \in Posters |-> "idle"]
    /\ posted = [p \in Posters |-> 0]
    /\ jobs = << >> /\ timers = 0 /\ pool = 0 /\ done = 0 /\ stream = FALSE
    /\ budget = MaxWork
    /\ dispatched = << >> /\ promised = {} /\ idleExit = FALSE /\ threw = FALSE
    /\ joins = 0 /\ misuse = {}

-----------------------------------------------------------------------------
(* What a JavaScript task may do *)

(* One task of the script: nothing, or one of the things the loop can see.   *)
(* q is the job queue the task finds, origin the task its jobs stem from.    *)
RunTask(q, origin) ==
    \/ jobs' = q /\ UNCHANGED <<timers, pool, done, stream, budget>>
    \/ /\ budget > 0
       /\ budget' = budget - 1
       /\ \/ jobs' = Append(q, origin) /\ UNCHANGED <<timers, pool, done, stream>>
          \/ jobs' = q /\ timers' = timers + 1 /\ UNCHANGED <<pool, done, stream>>
          \/ jobs' = q /\ pool' = pool + 1 /\ UNCHANGED <<timers, done, stream>>
          \/ /\ jobs' = q /\ ~stream /\ stream' = TRUE
             /\ UNCHANGED <<timers, pool, done>>

(* A C completion that calls resolve or on_end: it needs the JSRuntime. *)
CallJS(what) ==
    misuse' = IF jsrt = "live" THEN misuse ELSE misuse \cup {what}

(* uv_async_send(&rt->wake); a closed handle ignores it. *)
SendWake ==
    IF wakeInit
    THEN /\ wake' = (wake \/ loop = "open")
         /\ UNCHANGED misuse
    ELSE /\ misuse' = misuse \cup {"uninitialised wake"}
         /\ UNCHANGED wake

-----------------------------------------------------------------------------
(* Posting threads: qz_post_message, any thread *)

MayPost(p) ==
    /\ pstate[p] = "idle" /\ posted[p] < MaxPost
    /\ \/ host = "up"
       \/ p # HostThread /\ host = "waiting" /\ pc # "exited"

PostClaim(p) ==
    /\ MayPost(p)
    /\ posted' = [posted EXCEPT ![p] = @ + 1]
    /\ queue' = Append(queue, [m |-> <<p, posted[p] + 1>>, linked |-> FALSE])
    /\ pstate' = [pstate EXCEPT ![p] = "link"]
    /\ UNCHANGED <<host, flagVars, pc, round, wake, objVars, workVars, histVars>>

PostLink(p) ==
    /\ pstate[p] = "link"
    /\ queue' = [i \in DOMAIN queue |->
                   IF queue[i].m = <<p, posted[p]>>
                   THEN [m |-> queue[i].m, linked |-> TRUE] ELSE queue[i]]
    /\ pstate' = [pstate EXCEPT ![p] = "send"]
    /\ UNCHANGED <<host, flagVars, pc, round, wake, objVars, posted, workVars,
                   histVars>>

PostSend(p) ==
    /\ pstate[p] = "send"
    /\ pstate' = [pstate EXCEPT ![p] = "idle"]
    /\ SendWake
    /\ UNCHANGED <<host, flagVars, pc, round, objVars, queue, posted, workVars,
                   dispatched, promised, idleExit, threw, joins>>

-----------------------------------------------------------------------------
(* The host's calls *)

HostFree == host = "up" /\ pstate[HostThread] = "idle"

(* qz_create: script and bytecode are copied and the thread is started, or NULL is *)
(* returned without a thread.                                                      *)
Create ==
    /\ host = "new"
    /\ \/ host' = "create" /\ pc' = "loop_init"
       \/ host' = "unborn" /\ UNCHANGED pc
    /\ UNCHANGED <<flagVars, round, wake, objVars, queueVars, workVars, histVars>>

(* qz_create leaves its spin on thread_ready. *)
CreateReturn ==
    /\ host = "create" /\ thread_ready
    /\ host' = IF ready_err THEN "destroy" ELSE "up"
    /\ UNCHANGED <<flagVars, pc, round, wake, objVars, queueVars, workVars, histVars>>

(* qz_wait_idle: the store of wait_idle ... *)
WaitIdle ==
    /\ HostFree
    /\ wait_idle' = TRUE
    /\ promised' = {queue[i].m : i \in {j \in DOMAIN queue : \A k \in 1 .. j : queue[k].linked}}
    /\ host' = "waitsend"
    /\ UNCHANGED <<thread_ready, ready_err, shutting_down, thread_joined, pc, round,
                   wake, objVars, queueVars, workVars, dispatched, idleExit, threw,
                   joins, misuse>>

(* ... then the wake-up, then the join. *)
WaitIdleSend ==
    /\ host = "waitsend"
    /\ host' = "waiting"
    /\ SendWake
    /\ UNCHANGED <<flagVars, pc, round, objVars, queueVars, workVars, dispatched,
                   promised, idleExit, threw, joins>>

WaitIdleReturn ==
    /\ host = "waiting" /\ pc = "exited"
    /\ joins' = joins + 1
    /\ thread_joined' = TRUE
    /\ host' = "idle"
    /\ UNCHANGED <<thread_ready, ready_err, shutting_down, wait_idle, pc, round, wake,
                   objVars, queueVars, workVars, dispatched, promised, idleExit,
                   threw, misuse>>

(* qz_destroy: from a running host, after qz_wait_idle, or from a failed       *)
(* qz_create.  The host calls it when no thread is inside qz_post_message.     *)
Destroy ==
    /\ \/ host = "destroy"
       \/ host \in {"up", "idle"} /\ \A p \in Posters : pstate[p] = "idle"
    /\ shutting_down' = TRUE
    /\ host' = "destroysend"
    /\ UNCHANGED <<thread_ready, ready_err, wait_idle, thread_joined, pc, round, wake,
                   objVars, queueVars, workVars, histVars>>

DestroySend ==
    /\ host = "destroysend"
    /\ SendWake
    /\ host' = "join"
    /\ UNCHANGED <<flagVars, pc, round, objVars, queueVars, workVars, dispatched,
                   promised, idleExit, threw, joins>>

(* The join (unless qz_wait_idle has done it), then free(rt). *)
DestroyFree ==
    /\ host = "join"
    /\ \/ thread_joined /\ UNCHANGED joins
       \/ ~thread_joined /\ pc = "exited" /\ joins' = joins + 1
    /\ host' = IF ready_err THEN "null" ELSE "freed"
    /\ UNCHANGED <<flagVars, pc, round, wake, objVars, queueVars, workVars, dispatched,
                   promised, idleExit, threw, misuse>>

-----------------------------------------------------------------------------
(* qz_thread_main: initialisation *)

InitNext ==
    [loop_init |-> "async_init", async_init |-> "endpoint_init",
     endpoint_init |-> "runtime_init", runtime_init |-> "eval", eval |-> "ready"]

(* One step succeeds; evaluating the script and the bytecode runs a task. *)
InitStep ==
    /\ pc \in InitSteps
    /\ pc' = InitNext[pc]
    /\ loop' = IF pc = "loop_init" THEN "open" ELSE loop
    /\ wakeInit' = (wakeInit \/ pc = "async_init")
    /\ jsrt' = IF pc = "runtime_init" THEN "live" ELSE jsrt
    /\ IF pc = "eval" THEN RunTask(jobs, "io") ELSE UNCHANGED workVars
    /\ UNCHANGED <<host, flagVars, round, wake, queueVars, histVars>>

(* One step fails; a script that throws may have started work before. *)
InitFail ==
    /\ pc \in FailableInit
    /\ pc' = "ready"
    /\ ready_err' = TRUE
    /\ IF pc = "eval" THEN RunTask(jobs, "io") ELSE UNCHANGED workVars
    /\ UNCHANGED <<host, thread_ready, shutting_down, wait_idle, thread_joined, round,
                   wake, objVars, queueVars, histVars>>

Ready ==
    /\ pc = "ready"
    /\ thread_ready' = TRUE
    /\ pc' = CASE ~ready_err -> "head"
               [] ready_err /\ loop = "open" -> "td_drain"
               [] OTHER -> "exited"
    /\ UNCHANGED <<host, ready_err, shutting_down, wait_idle, thread_joined, round,
                   wake, objVars, queueVars, workVars, histVars>>

-----------------------------------------------------------------------------
(* qz_thread_main: the loop.  "poll" is a uv_run that has handled no event    *)
(* yet and blocks for one; "more" one that may handle more or return.          *)

LoopHead ==
    /\ pc = "head"
    /\ pc' = IF shutting_down THEN "td_drain" ELSE "poll"
    /\ UNCHANGED <<host, flagVars, round, wake, objVars, queueVars, workVars, histVars>>

(* The event a callback reports: a timer fires, a request's work_done runs, or *)
(* the stream ends.  Each resolves a promise, which queues a job.              *)
Event ==
    /\ jobs' = Append(jobs, "io")
    /\ \/ timers > 0 /\ timers' = timers - 1 /\ UNCHANGED <<done, stream>>
       \/ done > 0 /\ done' = done - 1 /\ UNCHANGED <<timers, stream>>
       \/ stream /\ stream' = FALSE /\ UNCHANGED <<timers, done>>
    /\ UNCHANGED <<pool, budget>>

PollEvent ==
    /\ pc \in {"poll", "more"}
    /\ Event
    /\ CallJS("callback without JSRuntime")
    /\ pc' = "more"
    /\ UNCHANGED <<host, flagVars, round, wake, objVars, queueVars, dispatched, promised,
                   idleExit, threw, joins>>

(* libuv clears the pending flag and runs qz_wake_cb. *)
PollWake ==
    /\ pc \in {"poll", "more"}
    /\ wake
    /\ wake' = FALSE
    /\ pc' = IF shutting_down THEN "more" ELSE "wake_cb"
    /\ UNCHANGED <<host, flagVars, round, objVars, queueVars, workVars, histVars>>

(* Faulty variant: the microtasks of a message are left for later. *)
BatchedWakePop ==
    /\ pc = "wake_cb"
    /\ HeadLinked
    /\ queue' = Tail(queue)
    /\ dispatched' = Append(dispatched, queue[1].m)
    /\ RunTask(jobs, "msg")
    /\ CallJS("dispatch without JSRuntime")
    /\ UNCHANGED <<host, flagVars, pc, round, wake, objVars, pstate, posted, promised,
                   idleExit, threw, joins>>

(* qz_wake_cb takes a message and dispatches it; its microtasks follow. *)
WakePop ==
    /\ pc = "wake_cb"
    /\ HeadLinked
    /\ queue' = Tail(queue)
    /\ dispatched' = Append(dispatched, queue[1].m)
    /\ RunTask(jobs, "msg")
    /\ CallJS("dispatch without JSRuntime")
    /\ pc' = "wake_flush"
    /\ UNCHANGED <<host, flagVars, round, wake, objVars, pstate, posted, promised,
                   idleExit, threw, joins>>

WakeEnd ==
    /\ pc = "wake_cb"
    /\ ~HeadLinked
    /\ pc' = "more"
    /\ UNCHANGED <<host, flagVars, round, wake, objVars, queueVars, workVars, histVars>>

(* uv_run returns; the loop leaves if a shutdown was requested meanwhile. *)
RunReturn ==
    /\ pc = "more"
    /\ pc' = IF shutting_down THEN "td_drain" ELSE "flush"
    /\ UNCHANGED <<host, flagVars, round, wake, objVars, queueVars, workVars, histVars>>

(* qz_flush_microtasks and the two job loops of the teardown: jobs run until  *)
(* none is left or one throws.                                                *)
AfterFlush ==
    [wake_flush |-> "wake_cb", flush |-> "idle_query", idle_flush |-> "idle_decide",
     td_jobs |-> "td_pump", td_pumpjobs |-> "td_pump"]

RunJob ==
    /\ pc \in DOMAIN AfterFlush
    /\ jobs # << >>
    /\ RunTask(Tail(jobs), Head(jobs))
    /\ \/ UNCHANGED <<pc, threw>>
       \/ JobsMayThrow /\ threw' = TRUE /\ pc' = AfterFlush[pc]
    /\ UNCHANGED <<host, flagVars, round, wake, objVars, queueVars, dispatched, promised,
                   idleExit, joins, misuse>>

FlushEnd ==
    /\ pc \in DOMAIN AfterFlush
    /\ jobs = << >>
    /\ pc' = AfterFlush[pc]
    /\ UNCHANGED <<host, flagVars, round, wake, objVars, queueVars, workVars, histVars>>

(* Faulty variant: qz_loop_idle does not look at the inbound queue. *)
BlindIdleQuery ==
    /\ pc = "idle_query"
    /\ pc' = IF wait_idle THEN "idle_flush" ELSE "head"
    /\ UNCHANGED <<host, flagVars, round, wake, objVars, queueVars, workVars, histVars>>

(* wait_idle is read; then qz_loop_idle begins with qz_msg_has_pending. *)
IdleQuery ==
    /\ pc = "idle_query"
    /\ pc' = IF wait_idle /\ ~HeadLinked THEN "idle_flush" ELSE "head"
    /\ UNCHANGED <<host, flagVars, round, wake, objVars, queueVars, workVars, histVars>>

Busy == jobs # << >> \/ timers > 0 \/ stream \/ pool + done > 0

(* The rest of qz_loop_idle: left-over jobs, active handles, active requests. *)
IdleDecide ==
    /\ pc = "idle_decide"
    /\ IF Busy
       THEN pc' = "head" /\ UNCHANGED <<shutting_down, idleExit>>
       ELSE pc' = "td_drain" /\ shutting_down' = TRUE /\ idleExit' = TRUE
    /\ UNCHANGED <<host, thread_ready, ready_err, wait_idle, thread_joined, round, wake,
                   objVars, queueVars, workVars, dispatched, promised, threw, joins,
                   misuse>>

-----------------------------------------------------------------------------
(* qz_thread_teardown *)

(* Step 1: everything up to the first unlinked place is dropped. *)
TdDrain ==
    /\ pc = "td_drain"
    /\ IF HeadLinked
       THEN queue' = Tail(queue) /\ UNCHANGED pc
       ELSE pc' = "td_stream" /\ UNCHANGED queue
    /\ UNCHANGED <<host, flagVars, round, wake, objVars, pstate, posted, workVars,
                   histVars>>

(* Step 1.5: uv_io_http_abort calls the on_end of the stream and then aborts    *)
(* the head of the registry until the registry is empty.  Operations leave it   *)
(* in their close callbacks, which need the loop this thread does not run now:   *)
(* "td_spin".                                                                   *)
TdStream ==
    /\ pc = "td_stream"
    /\ IF stream
       THEN /\ pc' = "td_spin" /\ jobs' = Append(jobs, "io")
            /\ CallJS("on_end without JSRuntime")
       ELSE pc' = "td_jobs" /\ UNCHANGED <<jobs, misuse>>
    /\ UNCHANGED <<host, flagVars, round, wake, objVars, queueVars, timers, pool, done,
                   stream, budget, dispatched, promised, idleExit, threw, joins>>

(* Step 2.5: one uv_run(UV_RUN_NOWAIT): every completion queued so far runs,  *)
(* timers that are due fire, a stream started meanwhile may end.              *)
TdPump ==
    /\ pc = "td_pump" /\ round < PumpRounds
    /\ round' = round + 1
    /\ wake' = FALSE
    /\ \E fired \in 0 .. timers, ended \in {FALSE, stream} :
         /\ timers' = timers - fired
         /\ stream' = (stream /\ ~ended)
         /\ jobs' = jobs \o [i \in 1 .. done + fired + (IF ended THEN 1 ELSE 0) |-> "io"]
         /\ done' = 0
         /\ IF done + fired > 0 \/ ended
            THEN CallJS("callback without JSRuntime") ELSE UNCHANGED misuse
    /\ pc' = "td_pumpjobs"
    /\ UNCHANGED <<host, flagVars, objVars, queueVars, pool, budget, dispatched, promised,
                   idleExit, threw, joins>>

(* Steps 4 and 5: the contexts cancel their timers and drop their jobs, then *)
(* the JSRuntime is freed.                                                    *)
TdFree ==
    /\ pc = "td_pump" /\ round = PumpRounds
    /\ pc' = "td_close"
    /\ jsrt' = IF jsrt = "live" THEN "freed" ELSE jsrt
    /\ jobs' = << >> /\ timers' = 0
    /\ UNCHANGED <<host, flagVars, round, wake, loop, wakeInit, queueVars, pool, done,
                   stream, budget, histVars>>

(* Step 7: all handles are closed, the loop runs once more, which delivers    *)
(* the completions queued by now, and is closed unless a request is active.   *)
TdClose ==
    /\ pc = "td_close"
    /\ pc' = "exited"
    /\ IF done > 0 THEN CallJS("callback without JSRuntime") ELSE UNCHANGED misuse
    /\ done' = 0
    /\ wake' = FALSE
    /\ loop' = IF pool > 0 THEN loop ELSE "closed"
    /\ UNCHANGED <<host, flagVars, round, wakeInit, jsrt, queueVars, jobs, timers, pool,
                   stream, budget, dispatched, promised, idleExit, threw, joins>>

(* External: a pool thread finishes a request and hands it to rt->loop. *)
PoolFinish ==
    /\ pool > 0
    /\ pool' = pool - 1
    /\ done' = done + 1
    /\ misuse' = IF host \in {"freed", "null"}
                 THEN misuse \cup {"completion into a freed loop"} ELSE misuse
    /\ UNCHANGED <<host, flagVars, pc, round, wake, objVars, queueVars, jobs, timers,
                   stream, budget, dispatched, promised, idleExit, threw, joins>>

(* Everything has come to its end. *)
Finished ==
    /\ host = "unborn" \/ (host \in {"idle", "freed", "null"} /\ pc = "exited" /\ pool = 0)
    /\ \A p \in Posters : pstate[p] = "idle"
    /\ UNCHANGED vars

-----------------------------------------------------------------------------
ThreadStep ==
    \/ InitStep \/ InitFail \/ Ready
    \/ LoopHead \/ PollEvent \/ PollWake \/ WakePop \/ WakeEnd \/ RunReturn
    \/ RunJob \/ FlushEnd \/ IdleQuery \/ IdleDecide
    \/ TdDrain \/ TdStream \/ TdPump \/ TdFree \/ TdClose

HostReturn == CreateReturn \/ WaitIdleSend \/ WaitIdleReturn \/ DestroySend \/ DestroyFree

PostStep(p) == PostLink(p) \/ PostSend(p)

Next ==
    \/ Create \/ ThreadStep \/ HostReturn \/ WaitIdle \/ Destroy
    \/ \E p \in Posters : PostClaim(p) \/ PostStep(p)
    \/ PoolFinish \/ Finished

Spec == Init /\ [][Next]_vars

(* The operating system runs the threads, the pool finishes its requests, a   *)
(* due timer and an ended stream are reported; a qz_destroy inside qz_create   *)
(* is not the host's choice.                                                   *)
Fairness ==
    /\ WF_vars(ThreadStep) /\ WF_vars(HostReturn) /\ WF_vars(PoolFinish)
    /\ WF_vars(host = "destroy" /\ Destroy)
    /\ \A p \in Posters : WF_vars(PostStep(p))

LiveSpec == Spec /\ Fairness

-----------------------------------------------------------------------------
(* Properties *)

InCall == {"create", "waitsend", "waiting", "destroy", "destroysend", "join"}

(* Every variable keeps its type; the queue holds each message at most once    *)
(* and a request or timer is never counted below zero.                         *)
TypeOK ==
    /\ host \in InCall \cup {"new", "unborn", "up", "idle", "freed", "null"}
    /\ \A f \in {thread_ready, ready_err, shutting_down, wait_idle, thread_joined,
                 wakeInit, wake, stream, idleExit, threw} : f \in BOOLEAN
    /\ pc \in InitSteps \cup DOMAIN AfterFlush \cup
              {"ready", "head", "poll", "more", "wake_cb", "idle_query", "idle_decide",
               "td_drain", "td_stream", "td_spin", "td_pump", "td_close", "exited", "none"}
    /\ round \in 0 .. PumpRounds
    /\ loop \in {"none", "open", "closed"} /\ jsrt \in {"none", "live", "freed"}
    /\ queue \in Seq([m : Messages, linked : BOOLEAN])
    /\ pstate \in [Posters -> {"idle", "link", "send"}]
    /\ posted \in [Posters -> 0 .. MaxPost]
    /\ jobs \in Seq({"msg", "io"})
    /\ {timers, pool, done, budget, joins} \subseteq Nat
    /\ dispatched \in Seq(Messages) /\ promised \subseteq Messages

(* Of qz_wait_idle ("auto-exit once there is no pending async work") and       *)
(* qz_loop_idle ("an empty message queue"): when the thread exits because it   *)
(* is idle, it has dispatched every message that was in the queue when         *)
(* qz_wait_idle was called and not behind a post still in progress then.       *)
WaitIdleServesPosts ==
    idleExit => promised \subseteq {dispatched[i] : i \in DOMAIN dispatched}

(* Of qz_loop_idle and qz_thread_teardown: after an exit on idle the teardown  *)
(* runs no callback on a freed JSRuntime and cancels no timer, stream or       *)
(* request that JavaScript had started.                                        *)
IdleExitIsClean ==
    idleExit => /\ misuse = {}
                /\ timers = 0 /\ ~stream /\ pool + done = 0 /\ jobs = << >>

(* Of step 2.5 of qz_thread_teardown ("the completion callback needs a live    *)
(* ctx and jsrt"): no completion runs after JS_FreeRuntime, none reaches a     *)
(* freed loop, whichever way the runtime is shut down.                         *)
CompletionsBeforeFree ==
    misuse \cap {"callback without JSRuntime", "on_end without JSRuntime",
                 "completion into a freed loop"} = {}

(* Of qz_create ("Returns NULL on failure"): a create that fails does not      *)
(* touch a wake handle that was never initialised.                             *)
FailedCreateIsClean == "uninitialised wake" \notin misuse

(* Of qz_destroy: rt->thread is joined once, also after qz_wait_idle.          *)
JoinedOnce == joins <= 1 /\ (host \in {"freed", "null"} => joins = 1)

(* Of qz_wake_cb ("each message is a task, its microtasks run first"): when a  *)
(* message is dispatched no job of an earlier message is pending, unless some  *)
(* job threw.                                                                  *)
MessageIsATask ==
    [][dispatched' # dispatched /\ ~threw => \A i \in DOMAIN jobs : jobs[i] # "msg"]_vars

(* Of qz_create, qz_wait_idle and qz_destroy: every call returns, unless a job   *)
(* threw and left the jobs behind it in the queue (qz_flush_microtasks), or the  *)
(* runtime is shut down during a streaming request (uv_io_http_abort).           *)
HostCallsReturn ==
    host \in InCall ~> \/ host \notin InCall
                       \/ threw /\ jobs # << >>
                       \/ pc = "td_spin"

(* The end of a runtime, whoever brings it about: an exit on idle comes after   *)
(* the posts that qz_wait_idle was to wait for, leaves no job, timer or request *)
(* behind, and the thread is joined exactly once.                               *)
ThreadExitIsSound ==
    /\ TypeOK /\ WaitIdleServesPosts /\ IdleExitIsClean /\ JoinedOnce
=============================================================================
