--------------------------- MODULE RuntimeProofs ----------------------------
(***************************************************************************)
(* Proofs about a runtime as its host sees it: on a thread (RuntimeThread) *)
(* or in a process (IsolatedHost), the relay of storage requests to a      *)
(* process (StorageRelay), the engine that runtimes on threads share       *)
(* (WamrShared) and the debugger of a runtime (Debugger).  The parts are   *)
(* independent of each other.                                              *)
(***************************************************************************)
EXTENDS RuntimeThread, IsolatedHost, StorageRelay, WamrShared, Debugger,
        SequenceTheorems, WellFoundedInduction, TLAPS

-----------------------------------------------------------------------------
(***************************************************************************)
(* Proofs about RuntimeThread, for any number of posting threads, messages  *)
(* and pieces of work, any number of rounds in the teardown and any set of  *)
(* initialisation steps that may fail.                                      *)
(*                                                                         *)
(* The inductive invariant has three parts.  Phase ties the host's place in *)
(* the API to the place of the thread and to the objects that exist there;  *)
(* Promise says where a message is that qz_wait_idle has to wait for; Tasks *)
(* says when a job of a message may be pending.                             *)
(***************************************************************************)

Items == [m : Messages, linked : BOOLEAN]
Origins == {"msg", "io"}

Serving ==
    {"head", "poll", "more", "wake_cb", "wake_flush", "flush", "idle_query", "idle_flush",
     "idle_decide"}
Ending ==
    {"td_drain", "td_stream", "td_spin", "td_jobs", "td_pump", "td_pumpjobs", "td_close",
     "exited"}
Starting == InitSteps \cup {"ready"}

PlaceTypes ==
    /\ host \in {"create", "waitsend", "waiting", "destroy", "destroysend", "join",
                 "new", "unborn", "up", "idle", "freed", "null"}
    /\ pc \in Starting \cup Serving \cup Ending \cup {"none"}
    /\ round \in 0 .. PumpRounds
    /\ loop \in {"none", "open", "closed"} /\ jsrt \in {"none", "live", "freed"}
    /\ joins \in Nat

FlagTypes ==
    /\ thread_ready \in BOOLEAN /\ ready_err \in BOOLEAN /\ shutting_down \in BOOLEAN
    /\ wait_idle \in BOOLEAN /\ thread_joined \in BOOLEAN
    /\ wakeInit \in BOOLEAN /\ wake \in BOOLEAN /\ stream \in BOOLEAN
    /\ idleExit \in BOOLEAN /\ threw \in BOOLEAN

QueueTypes ==
    /\ queue \in Seq(Items)
    /\ pstate \in [Posters -> {"idle", "link", "send"}]
    /\ posted \in [Posters -> 0 .. MaxPost]
    /\ dispatched \in Seq(Messages) /\ promised \subseteq Messages

WorkTypes ==
    /\ jobs \in Seq(Origins)
    /\ timers \in Nat /\ pool \in Nat /\ done \in Nat /\ budget \in Nat

Types == PlaceTypes /\ FlagTypes /\ QueueTypes /\ WorkTypes

(* The runtime came up: qz_create has returned it, or will. *)
CameUp == thread_ready /\ ~ready_err /\ wakeInit

(* Where the thread is, which objects it has, what the host may be doing. *)
ThreadPhase ==
    /\ pc = "none" => host \in {"new", "unborn"} /\ ~thread_ready /\ ~ready_err
    /\ pc \in Starting => host = "create" /\ ~thread_ready
    /\ pc \in {"none"} \cup Starting \cup Serving => misuse = {}
    /\ pc \in InitSteps => ~ready_err
    /\ pc \in {"endpoint_init", "runtime_init", "eval"} => wakeInit
    /\ pc = "eval" => jsrt = "live"
    /\ pc = "ready" /\ ~ready_err => wakeInit /\ jsrt = "live"
    /\ pc \in Serving => CameUp /\ jsrt = "live"
    /\ pc \in {"idle_flush", "idle_decide"} => wait_idle

HostPhase ==
    /\ host = "new" => pc = "none"
    /\ host \in {"up", "waitsend", "waiting", "idle"} => CameUp
    /\ host \in {"destroy", "destroysend", "join", "freed", "null"} => thread_ready
    /\ thread_ready /\ ~ready_err => wakeInit
    /\ host \in {"new", "unborn", "create", "up"} => ~wait_idle
    /\ \A p \in Posters : pstate[p] # "idle" => CameUp

(* The thread is joined by qz_wait_idle or by qz_destroy. *)
JoinPhase ==
    /\ thread_joined => pc = "exited" /\ host \in {"idle", "destroysend", "join", "freed", "null"}
    /\ host \in {"freed", "null"} => pc = "exited"
    /\ joins = IF thread_joined \/ host \in {"freed", "null"} THEN 1 ELSE 0

(* After an exit on idle there is nothing left that could call back. *)
IdlePhase ==
    idleExit => /\ pc \in Ending /\ wait_idle /\ CameUp /\ misuse = {}
                /\ timers = 0 /\ ~stream /\ pool = 0 /\ done = 0 /\ jobs = << >>

Phase == ThreadPhase /\ HostPhase /\ JoinPhase /\ IdlePhase

Delivered(m) == \E i \in DOMAIN dispatched : dispatched[i] = m
Reachable(m) ==
    \E j \in DOMAIN queue : queue[j].m = m /\ \A k \in 1 .. j : queue[k].linked

(* A promised message stays within the consumer's reach until it is           *)
(* dispatched, and is dispatched before the thread finds itself idle.         *)
Promise ==
    /\ ~wait_idle => promised = {}
    /\ pc \in Ending \/ \A m \in promised : Delivered(m) \/ Reachable(m)
    /\ pc \in {"idle_flush", "idle_decide"} \/ idleExit => \A m \in promised : Delivered(m)

(* Jobs of a message are pending only while its microtasks run. *)
Tasks == threw \/ pc = "wake_flush" \/ \A i \in DOMAIN jobs : jobs[i] # "msg"

RtInv == Types /\ Phase /\ Promise /\ Tasks

-----------------------------------------------------------------------------
(* What the steps leave alone *)

LEMMA QueueSame ==
    ASSUME QueueTypes, UNCHANGED <<queue, pstate, posted, dispatched, promised>>
    PROVE  QueueTypes'
  BY DEF QueueTypes

LEMMA WorkSame ==
    ASSUME WorkTypes, UNCHANGED <<jobs, timers, pool, done, budget>>
    PROVE  WorkTypes'
  BY DEF WorkTypes

(* A promise is kept by a step that does not touch the queue, what was         *)
(* dispatched and what was promised, and does not bring the thread to where it *)
(* thinks itself idle.                                                         *)
LEMMA PromiseSame ==
    ASSUME Promise, UNCHANGED <<wait_idle, queue, dispatched, promised, idleExit>>,
           pc \in Ending => pc' \in Ending,
           pc' \in {"idle_flush", "idle_decide"} => pc \in {"idle_flush", "idle_decide"}
    PROVE  Promise'
  BY DEF Promise, Delivered, Reachable

LEMMA TasksSame ==
    ASSUME Tasks, UNCHANGED jobs, threw => threw',
           pc = "wake_flush" => pc' = "wake_flush"
    PROVE  Tasks'
  BY DEF Tasks

(* One task of the script, with the jobs q before it. *)
LEMMA TaskTypes ==
    ASSUME WorkTypes, FlagTypes, NEW q \in Seq(Origins), NEW o \in Origins, RunTask(q, o)
    PROVE  /\ WorkTypes' /\ stream' \in BOOLEAN
           /\ jobs' = q \/ jobs' = Append(q, o)
  <1>1. Append(q, o) \in Seq(Origins)
    OBVIOUS
  <1>2. jobs' \in Seq(Origins) /\ (jobs' = q \/ jobs' = Append(q, o))
    BY <1>1 DEF RunTask
  <1>3. timers' \in Nat /\ pool' \in Nat /\ done' \in Nat /\ budget' \in Nat
    BY DEF WorkTypes, RunTask
  <1>4. stream' \in BOOLEAN
    BY DEF FlagTypes, RunTask
  <1> QED
    BY <1>2, <1>3, <1>4 DEF WorkTypes

(* A job that stems from a callback is no job of a message. *)
LEMMA TasksIo ==
    ASSUME WorkTypes, Tasks, jobs' = jobs \/ jobs' = Append(jobs, "io"), threw => threw',
           pc = "wake_flush" => pc' = "wake_flush"
    PROVE  Tasks'
  <1>1. CASE threw \/ pc = "wake_flush"
    BY <1>1 DEF Tasks
  <1>2. CASE ~threw /\ pc # "wake_flush"
    <2>1. \A i \in DOMAIN jobs : jobs[i] # "msg"
      BY <1>2 DEF Tasks
    <2>2. \A i \in DOMAIN jobs' : jobs'[i] # "msg"
      BY <2>1 DEF WorkTypes
    <2> QED
      BY <2>2 DEF Tasks
  <1> QED
    BY <1>1, <1>2

LEMMA InitHolds == Init => RtInv
  <1> SUFFICES ASSUME Init PROVE RtInv
    OBVIOUS
  <1>1. PlaceTypes /\ FlagTypes
    <2>1. 0 \in 0 .. PumpRounds /\ 0 \in Nat
      BY ThreadAssumption
    <2>2. PlaceTypes
      BY <2>1 DEF Init, PlaceTypes
    <2>3. FlagTypes
      BY DEF Init, FlagTypes
    <2> QED
      BY <2>2, <2>3
  <1>2. << >> \in Seq(Items) /\ << >> \in Seq(Messages) /\ << >> \in Seq(Origins)
    OBVIOUS
  <1>3. QueueTypes
    BY <1>2, ThreadAssumption DEF Init, QueueTypes
  <1>4. WorkTypes
    BY <1>2, ThreadAssumption DEF Init, WorkTypes
  <1>5. Phase /\ Promise /\ Tasks
    BY DEF Init, Phase, ThreadPhase, HostPhase, JoinPhase, IdlePhase, Promise, Tasks,
           Starting, Serving, Ending, InitSteps
  <1> QED
    BY <1>1, <1>3, <1>4, <1>5 DEF RtInv, Types

LEMMA CreateKeeps ==
    ASSUME RtInv, Create PROVE RtInv'
  <1> USE DEF RtInv, Types
  <1>1. PlaceTypes'
    BY ThreadAssumption DEF PlaceTypes, Starting, Serving, Ending, InitSteps, Create,
       flagVars, queueVars, workVars, objVars, histVars
  <1>2. FlagTypes'
    BY DEF FlagTypes, Create, flagVars, queueVars, workVars, objVars, histVars
  <1>3. QueueTypes'
    BY QueueSame DEF Create, flagVars, queueVars, workVars, objVars, histVars
  <1>4. WorkTypes'
    BY WorkSame DEF Create, flagVars, queueVars, workVars, objVars, histVars
  <1>5. ThreadPhase'
    BY DEF FlagTypes, Phase, ThreadPhase, HostPhase, JoinPhase, IdlePhase, CameUp,
       Starting, Serving, Ending, InitSteps, Create, flagVars, queueVars, workVars,
       objVars, histVars
  <1>6. HostPhase'
    BY ThreadAssumption DEF FlagTypes, PlaceTypes, QueueTypes, Phase, ThreadPhase,
       HostPhase, JoinPhase, IdlePhase, CameUp, Starting, Serving, Ending, InitSteps,
       Create, flagVars, queueVars, workVars, objVars, histVars
  <1>7. JoinPhase'
    BY DEF FlagTypes, PlaceTypes, Phase, ThreadPhase, HostPhase, JoinPhase, IdlePhase,
       CameUp, Starting, Serving, Ending, InitSteps, Create, flagVars, queueVars,
       workVars, objVars, histVars
  <1>8. IdlePhase'
    BY DEF FlagTypes, PlaceTypes, Phase, ThreadPhase, HostPhase, JoinPhase, IdlePhase,
       CameUp, Starting, Serving, Ending, InitSteps, Create, flagVars, queueVars,
       workVars, objVars, histVars
  <1>9. Promise'
    BY PromiseSame DEF Phase, ThreadPhase, HostPhase, JoinPhase, IdlePhase, CameUp,
       Starting, Serving, Ending, InitSteps, Create, flagVars, queueVars, workVars,
       objVars, histVars
  <1>10. Tasks'
    BY TasksSame DEF Phase, ThreadPhase, HostPhase, JoinPhase, IdlePhase, CameUp,
       Starting, Serving, Ending, InitSteps, Create, flagVars, queueVars, workVars,
       objVars, histVars
  <1> QED
    BY <1>1, <1>2, <1>3, <1>4, <1>5, <1>6, <1>7, <1>8, <1>9, <1>10 DEF Phase

LEMMA CreateReturnKeeps ==
    ASSUME RtInv, CreateReturn PROVE RtInv'
  <1> USE DEF RtInv, Types
  <1>1. PlaceTypes'
    BY ThreadAssumption DEF PlaceTypes, Starting, Serving, Ending, InitSteps,
       CreateReturn, flagVars, queueVars, workVars, objVars, histVars
  <1>2. FlagTypes'
    BY DEF FlagTypes, CreateReturn, flagVars, queueVars, workVars, objVars, histVars
  <1>3. QueueTypes'
    BY QueueSame DEF CreateReturn, flagVars, queueVars, workVars, objVars, histVars
  <1>4. WorkTypes'
    BY WorkSame DEF CreateReturn, flagVars, queueVars, workVars, objVars, histVars
  <1>5. ThreadPhase'
    BY DEF FlagTypes, Phase, ThreadPhase, HostPhase, JoinPhase, IdlePhase, CameUp,
       Starting, Serving, Ending, InitSteps, CreateReturn, flagVars, queueVars,
       workVars, objVars, histVars
  <1>6. HostPhase'
    BY ThreadAssumption DEF FlagTypes, PlaceTypes, QueueTypes, Phase, ThreadPhase,
       HostPhase, JoinPhase, IdlePhase, CameUp, Starting, Serving, Ending, InitSteps,
       CreateReturn, flagVars, queueVars, workVars, objVars, histVars
  <1>7. JoinPhase'
    BY DEF FlagTypes, PlaceTypes, Phase, ThreadPhase, HostPhase, JoinPhase, IdlePhase,
       CameUp, Starting, Serving, Ending, InitSteps, CreateReturn, flagVars, queueVars,
       workVars, objVars, histVars
  <1>8. IdlePhase'
    BY DEF FlagTypes, PlaceTypes, Phase, ThreadPhase, HostPhase, JoinPhase, IdlePhase,
       CameUp, Starting, Serving, Ending, InitSteps, CreateReturn, flagVars, queueVars,
       workVars, objVars, histVars
  <1>9. Promise'
    BY PromiseSame DEF Phase, ThreadPhase, HostPhase, JoinPhase, IdlePhase, CameUp,
       Starting, Serving, Ending, InitSteps, CreateReturn, flagVars, queueVars,
       workVars, objVars, histVars
  <1>10. Tasks'
    BY TasksSame DEF Phase, ThreadPhase, HostPhase, JoinPhase, IdlePhase, CameUp,
       Starting, Serving, Ending, InitSteps, CreateReturn, flagVars, queueVars,
       workVars, objVars, histVars
  <1> QED
    BY <1>1, <1>2, <1>3, <1>4, <1>5, <1>6, <1>7, <1>8, <1>9, <1>10 DEF Phase

LEMMA WaitIdleKeeps ==
    ASSUME RtInv, WaitIdle PROVE RtInv'
  <1> USE DEF RtInv, Types
  <1>1. PlaceTypes'
    BY ThreadAssumption DEF PlaceTypes, Starting, Serving, Ending, InitSteps, WaitIdle,
       flagVars, queueVars, workVars, objVars, histVars, HostFree
  <1>2. FlagTypes'
    BY DEF FlagTypes, WaitIdle, flagVars, queueVars, workVars, objVars, histVars,
       HostFree
  <1>3. QueueTypes'
    <2>1. \A i \in DOMAIN queue : queue[i] \in Items
      BY DEF QueueTypes
    <2>2. \A i \in DOMAIN queue : queue[i].m \in Messages
      BY <2>1 DEF Items
    <2>3. promised' \subseteq Messages
      BY <2>2 DEF WaitIdle
    <2> QED
      BY <2>3 DEF WaitIdle, QueueTypes, queueVars
  <1>4. WorkTypes'
    BY WorkSame DEF WaitIdle, flagVars, queueVars, workVars, objVars, histVars,
       HostFree
  <1>5. ThreadPhase'
    BY DEF FlagTypes, Phase, ThreadPhase, HostPhase, JoinPhase, IdlePhase, CameUp,
       Starting, Serving, Ending, InitSteps, WaitIdle, flagVars, queueVars, workVars,
       objVars, histVars, HostFree
  <1>6. HostPhase'
    BY ThreadAssumption DEF FlagTypes, PlaceTypes, QueueTypes, Phase, ThreadPhase,
       HostPhase, JoinPhase, IdlePhase, CameUp, Starting, Serving, Ending, InitSteps,
       WaitIdle, flagVars, queueVars, workVars, objVars, histVars, HostFree
  <1>7. JoinPhase'
    BY DEF FlagTypes, PlaceTypes, Phase, ThreadPhase, HostPhase, JoinPhase, IdlePhase,
       CameUp, Starting, Serving, Ending, InitSteps, WaitIdle, flagVars, queueVars,
       workVars, objVars, histVars, HostFree
  <1>8. IdlePhase'
    BY DEF FlagTypes, PlaceTypes, Phase, ThreadPhase, HostPhase, JoinPhase, IdlePhase,
       CameUp, Starting, Serving, Ending, InitSteps, WaitIdle, flagVars, queueVars,
       workVars, objVars, histVars, HostFree
  <1>9. Promise'
    <2>1. wait_idle' /\ UNCHANGED <<pc, queue, dispatched, idleExit>>
      BY DEF WaitIdle, queueVars
    <2>2. pc \notin {"idle_flush", "idle_decide"}
      BY DEF WaitIdle, HostFree, Phase, ThreadPhase, HostPhase
    <2>3. \A m \in promised' : Reachable(m)
      BY DEF WaitIdle, Reachable
    <2>4. ASSUME idleExit PROVE \A m \in promised' : Delivered(m)
      BY <2>4 DEF WaitIdle, HostFree, Phase, HostPhase, IdlePhase
    <2> QED
      BY <2>1, <2>2, <2>3, <2>4 DEF Promise, Delivered, Reachable
  <1>10. Tasks'
    BY TasksSame DEF Phase, ThreadPhase, HostPhase, JoinPhase, IdlePhase, CameUp,
       Starting, Serving, Ending, InitSteps, WaitIdle, flagVars, queueVars, workVars,
       objVars, histVars, HostFree
  <1> QED
    BY <1>1, <1>2, <1>3, <1>4, <1>5, <1>6, <1>7, <1>8, <1>9, <1>10 DEF Phase

LEMMA WaitIdleSendKeeps ==
    ASSUME RtInv, WaitIdleSend PROVE RtInv'
  <1> USE DEF RtInv, Types
  <1>1. PlaceTypes'
    BY ThreadAssumption DEF PlaceTypes, Starting, Serving, Ending, InitSteps,
       WaitIdleSend, flagVars, queueVars, workVars, objVars, histVars, SendWake
  <1>2. FlagTypes'
    BY DEF FlagTypes, WaitIdleSend, flagVars, queueVars, workVars, objVars, histVars,
       SendWake
  <1>3. QueueTypes'
    BY QueueSame DEF WaitIdleSend, flagVars, queueVars, workVars, objVars, histVars,
       SendWake
  <1>4. WorkTypes'
    BY WorkSame DEF WaitIdleSend, flagVars, queueVars, workVars, objVars, histVars,
       SendWake
  <1>5. ThreadPhase'
    BY DEF FlagTypes, Phase, ThreadPhase, HostPhase, JoinPhase, IdlePhase, CameUp,
       Starting, Serving, Ending, InitSteps, WaitIdleSend, flagVars, queueVars,
       workVars, objVars, histVars, SendWake
  <1>6. HostPhase'
    BY ThreadAssumption DEF FlagTypes, PlaceTypes, QueueTypes, Phase, ThreadPhase,
       HostPhase, JoinPhase, IdlePhase, CameUp, Starting, Serving, Ending, InitSteps,
       WaitIdleSend, flagVars, queueVars, workVars, objVars, histVars, SendWake
  <1>7. JoinPhase'
    BY DEF FlagTypes, PlaceTypes, Phase, ThreadPhase, HostPhase, JoinPhase, IdlePhase,
       CameUp, Starting, Serving, Ending, InitSteps, WaitIdleSend, flagVars, queueVars,
       workVars, objVars, histVars, SendWake
  <1>8. IdlePhase'
    BY DEF FlagTypes, PlaceTypes, Phase, ThreadPhase, HostPhase, JoinPhase, IdlePhase,
       CameUp, Starting, Serving, Ending, InitSteps, WaitIdleSend, flagVars, queueVars,
       workVars, objVars, histVars, SendWake
  <1>9. Promise'
    BY PromiseSame DEF Phase, ThreadPhase, HostPhase, JoinPhase, IdlePhase, CameUp,
       Starting, Serving, Ending, InitSteps, WaitIdleSend, flagVars, queueVars,
       workVars, objVars, histVars, SendWake
  <1>10. Tasks'
    BY TasksSame DEF Phase, ThreadPhase, HostPhase, JoinPhase, IdlePhase, CameUp,
       Starting, Serving, Ending, InitSteps, WaitIdleSend, flagVars, queueVars,
       workVars, objVars, histVars, SendWake
  <1> QED
    BY <1>1, <1>2, <1>3, <1>4, <1>5, <1>6, <1>7, <1>8, <1>9, <1>10 DEF Phase

LEMMA WaitIdleReturnKeeps ==
    ASSUME RtInv, WaitIdleReturn PROVE RtInv'
  <1> USE DEF RtInv, Types
  <1>1. PlaceTypes'
    BY ThreadAssumption DEF PlaceTypes, Starting, Serving, Ending, InitSteps,
       WaitIdleReturn, flagVars, queueVars, workVars, objVars, histVars
  <1>2. FlagTypes'
    BY DEF FlagTypes, WaitIdleReturn, flagVars, queueVars, workVars, objVars, histVars
  <1>3. QueueTypes'
    BY QueueSame DEF WaitIdleReturn, flagVars, queueVars, workVars, objVars, histVars
  <1>4. WorkTypes'
    BY WorkSame DEF WaitIdleReturn, flagVars, queueVars, workVars, objVars, histVars
  <1>5. ThreadPhase'
    BY DEF FlagTypes, Phase, ThreadPhase, HostPhase, JoinPhase, IdlePhase, CameUp,
       Starting, Serving, Ending, InitSteps, WaitIdleReturn, flagVars, queueVars,
       workVars, objVars, histVars
  <1>6. HostPhase'
    BY ThreadAssumption DEF FlagTypes, PlaceTypes, QueueTypes, Phase, ThreadPhase,
       HostPhase, JoinPhase, IdlePhase, CameUp, Starting, Serving, Ending, InitSteps,
       WaitIdleReturn, flagVars, queueVars, workVars, objVars, histVars
  <1>7. JoinPhase'
    BY DEF FlagTypes, PlaceTypes, Phase, ThreadPhase, HostPhase, JoinPhase, IdlePhase,
       CameUp, Starting, Serving, Ending, InitSteps, WaitIdleReturn, flagVars,
       queueVars, workVars, objVars, histVars
  <1>8. IdlePhase'
    BY DEF FlagTypes, PlaceTypes, Phase, ThreadPhase, HostPhase, JoinPhase, IdlePhase,
       CameUp, Starting, Serving, Ending, InitSteps, WaitIdleReturn, flagVars,
       queueVars, workVars, objVars, histVars
  <1>9. Promise'
    BY PromiseSame DEF Phase, ThreadPhase, HostPhase, JoinPhase, IdlePhase, CameUp,
       Starting, Serving, Ending, InitSteps, WaitIdleReturn, flagVars, queueVars,
       workVars, objVars, histVars
  <1>10. Tasks'
    BY TasksSame DEF Phase, ThreadPhase, HostPhase, JoinPhase, IdlePhase, CameUp,
       Starting, Serving, Ending, InitSteps, WaitIdleReturn, flagVars, queueVars,
       workVars, objVars, histVars
  <1> QED
    BY <1>1, <1>2, <1>3, <1>4, <1>5, <1>6, <1>7, <1>8, <1>9, <1>10 DEF Phase

LEMMA DestroyKeeps ==
    ASSUME RtInv, Destroy PROVE RtInv'
  <1> USE DEF RtInv, Types
  <1>1. PlaceTypes'
    BY ThreadAssumption DEF PlaceTypes, Starting, Serving, Ending, InitSteps, Destroy,
       flagVars, queueVars, workVars, objVars, histVars
  <1>2. FlagTypes'
    BY DEF FlagTypes, Destroy, flagVars, queueVars, workVars, objVars, histVars
  <1>3. QueueTypes'
    BY QueueSame DEF Destroy, flagVars, queueVars, workVars, objVars, histVars
  <1>4. WorkTypes'
    BY WorkSame DEF Destroy, flagVars, queueVars, workVars, objVars, histVars
  <1>5. ThreadPhase'
    BY DEF FlagTypes, Phase, ThreadPhase, HostPhase, JoinPhase, IdlePhase, CameUp,
       Starting, Serving, Ending, InitSteps, Destroy, flagVars, queueVars, workVars,
       objVars, histVars
  <1>6. HostPhase'
    BY ThreadAssumption DEF FlagTypes, PlaceTypes, QueueTypes, Phase, ThreadPhase,
       HostPhase, JoinPhase, IdlePhase, CameUp, Starting, Serving, Ending, InitSteps,
       Destroy, flagVars, queueVars, workVars, objVars, histVars
  <1>7. JoinPhase'
    BY DEF FlagTypes, PlaceTypes, Phase, ThreadPhase, HostPhase, JoinPhase, IdlePhase,
       CameUp, Starting, Serving, Ending, InitSteps, Destroy, flagVars, queueVars,
       workVars, objVars, histVars
  <1>8. IdlePhase'
    BY DEF FlagTypes, PlaceTypes, Phase, ThreadPhase, HostPhase, JoinPhase, IdlePhase,
       CameUp, Starting, Serving, Ending, InitSteps, Destroy, flagVars, queueVars,
       workVars, objVars, histVars
  <1>9. Promise'
    BY PromiseSame DEF Phase, ThreadPhase, HostPhase, JoinPhase, IdlePhase, CameUp,
       Starting, Serving, Ending, InitSteps, Destroy, flagVars, queueVars, workVars,
       objVars, histVars
  <1>10. Tasks'
    BY TasksSame DEF Phase, ThreadPhase, HostPhase, JoinPhase, IdlePhase, CameUp,
       Starting, Serving, Ending, InitSteps, Destroy, flagVars, queueVars, workVars,
       objVars, histVars
  <1> QED
    BY <1>1, <1>2, <1>3, <1>4, <1>5, <1>6, <1>7, <1>8, <1>9, <1>10 DEF Phase

LEMMA DestroySendKeeps ==
    ASSUME RtInv, DestroySend PROVE RtInv'
  <1> USE DEF RtInv, Types
  <1>1. PlaceTypes'
    BY ThreadAssumption DEF PlaceTypes, Starting, Serving, Ending, InitSteps,
       DestroySend, flagVars, queueVars, workVars, objVars, histVars, SendWake
  <1>2. FlagTypes'
    BY DEF FlagTypes, DestroySend, flagVars, queueVars, workVars, objVars, histVars,
       SendWake
  <1>3. QueueTypes'
    BY QueueSame DEF DestroySend, flagVars, queueVars, workVars, objVars, histVars,
       SendWake
  <1>4. WorkTypes'
    BY WorkSame DEF DestroySend, flagVars, queueVars, workVars, objVars, histVars,
       SendWake
  <1>5. ThreadPhase'
    BY DEF FlagTypes, Phase, ThreadPhase, HostPhase, JoinPhase, IdlePhase, CameUp,
       Starting, Serving, Ending, InitSteps, DestroySend, flagVars, queueVars,
       workVars, objVars, histVars, SendWake
  <1>6. HostPhase'
    BY ThreadAssumption DEF FlagTypes, PlaceTypes, QueueTypes, Phase, ThreadPhase,
       HostPhase, JoinPhase, IdlePhase, CameUp, Starting, Serving, Ending, InitSteps,
       DestroySend, flagVars, queueVars, workVars, objVars, histVars, SendWake
  <1>7. JoinPhase'
    BY DEF FlagTypes, PlaceTypes, Phase, ThreadPhase, HostPhase, JoinPhase, IdlePhase,
       CameUp, Starting, Serving, Ending, InitSteps, DestroySend, flagVars, queueVars,
       workVars, objVars, histVars, SendWake
  <1>8. IdlePhase'
    BY DEF FlagTypes, PlaceTypes, Phase, ThreadPhase, HostPhase, JoinPhase, IdlePhase,
       CameUp, Starting, Serving, Ending, InitSteps, DestroySend, flagVars, queueVars,
       workVars, objVars, histVars, SendWake
  <1>9. Promise'
    BY PromiseSame DEF Phase, ThreadPhase, HostPhase, JoinPhase, IdlePhase, CameUp,
       Starting, Serving, Ending, InitSteps, DestroySend, flagVars, queueVars,
       workVars, objVars, histVars, SendWake
  <1>10. Tasks'
    BY TasksSame DEF Phase, ThreadPhase, HostPhase, JoinPhase, IdlePhase, CameUp,
       Starting, Serving, Ending, InitSteps, DestroySend, flagVars, queueVars,
       workVars, objVars, histVars, SendWake
  <1> QED
    BY <1>1, <1>2, <1>3, <1>4, <1>5, <1>6, <1>7, <1>8, <1>9, <1>10 DEF Phase

LEMMA DestroyFreeKeeps ==
    ASSUME RtInv, DestroyFree PROVE RtInv'
  <1> USE DEF RtInv, Types
  <1>1. PlaceTypes'
    BY ThreadAssumption DEF PlaceTypes, Starting, Serving, Ending, InitSteps,
       DestroyFree, flagVars, queueVars, workVars, objVars, histVars
  <1>2. FlagTypes'
    BY DEF FlagTypes, DestroyFree, flagVars, queueVars, workVars, objVars, histVars
  <1>3. QueueTypes'
    BY QueueSame DEF DestroyFree, flagVars, queueVars, workVars, objVars, histVars
  <1>4. WorkTypes'
    BY WorkSame DEF DestroyFree, flagVars, queueVars, workVars, objVars, histVars
  <1>5. ThreadPhase'
    BY DEF FlagTypes, Phase, ThreadPhase, HostPhase, JoinPhase, IdlePhase, CameUp,
       Starting, Serving, Ending, InitSteps, DestroyFree, flagVars, queueVars,
       workVars, objVars, histVars
  <1>6. HostPhase'
    BY ThreadAssumption DEF FlagTypes, PlaceTypes, QueueTypes, Phase, ThreadPhase,
       HostPhase, JoinPhase, IdlePhase, CameUp, Starting, Serving, Ending, InitSteps,
       DestroyFree, flagVars, queueVars, workVars, objVars, histVars
  <1>7. JoinPhase'
    BY DEF FlagTypes, PlaceTypes, Phase, ThreadPhase, HostPhase, JoinPhase, IdlePhase,
       CameUp, Starting, Serving, Ending, InitSteps, DestroyFree, flagVars, queueVars,
       workVars, objVars, histVars
  <1>8. IdlePhase'
    BY DEF FlagTypes, PlaceTypes, Phase, ThreadPhase, HostPhase, JoinPhase, IdlePhase,
       CameUp, Starting, Serving, Ending, InitSteps, DestroyFree, flagVars, queueVars,
       workVars, objVars, histVars
  <1>9. Promise'
    BY PromiseSame DEF Phase, ThreadPhase, HostPhase, JoinPhase, IdlePhase, CameUp,
       Starting, Serving, Ending, InitSteps, DestroyFree, flagVars, queueVars,
       workVars, objVars, histVars
  <1>10. Tasks'
    BY TasksSame DEF Phase, ThreadPhase, HostPhase, JoinPhase, IdlePhase, CameUp,
       Starting, Serving, Ending, InitSteps, DestroyFree, flagVars, queueVars,
       workVars, objVars, histVars
  <1> QED
    BY <1>1, <1>2, <1>3, <1>4, <1>5, <1>6, <1>7, <1>8, <1>9, <1>10 DEF Phase

LEMMA InitStepKeeps ==
    ASSUME RtInv, InitStep PROVE RtInv'
  <1> USE DEF RtInv, Types
  <1>0. /\ WorkTypes' /\ stream' \in BOOLEAN
        /\ jobs' = jobs \/ jobs' = Append(jobs, "io")
    <2>1. CASE pc = "eval"
      BY <2>1, TaskTypes DEF InitStep, WorkTypes, Origins
    <2>2. CASE pc # "eval"
      BY <2>2, WorkSame DEF InitStep, workVars, FlagTypes
    <2> QED
      BY <2>1, <2>2
  <1>00. pc' \in Starting /\ pc \in InitSteps
    BY DEF InitStep, InitNext, InitSteps, Starting
  <1>1. PlaceTypes'
    BY ThreadAssumption DEF PlaceTypes, Starting, Serving, Ending, InitSteps, InitStep,
       flagVars, queueVars, workVars, objVars, histVars, InitNext
  <1>2. FlagTypes'
    <2>1. wakeInit' \in BOOLEAN
      BY DEF InitStep
    <2> QED
      BY <1>0, <2>1 DEF FlagTypes, InitStep, flagVars, histVars
  <1>3. QueueTypes'
    BY QueueSame DEF InitStep, flagVars, queueVars, workVars, objVars, histVars,
       InitNext
  <1>4. WorkTypes'
    BY <1>0
  <1>5. ThreadPhase'
    <2>1. /\ pc = "loop_init" => pc' = "async_init"
          /\ pc = "async_init" => pc' = "endpoint_init"
          /\ pc = "endpoint_init" => pc' = "runtime_init"
          /\ pc = "runtime_init" => pc' = "eval" /\ jsrt' = "live"
          /\ pc = "eval" => pc' = "ready" /\ jsrt' = jsrt
      BY DEF InitStep, InitNext
    <2>2. (wakeInit => wakeInit') /\ (pc = "async_init" => wakeInit')
      BY DEF InitStep
    <2> QED
      BY <1>00, <2>1, <2>2 DEF InitStep, Phase, ThreadPhase, flagVars, histVars, Starting,
         InitSteps, Serving
  <1>6. HostPhase'
    BY ThreadAssumption DEF FlagTypes, PlaceTypes, QueueTypes, Phase, ThreadPhase,
       HostPhase, JoinPhase, IdlePhase, CameUp, Starting, Serving, Ending, InitSteps,
       InitStep, flagVars, queueVars, workVars, objVars, histVars, InitNext
  <1>7. JoinPhase'
    BY DEF FlagTypes, PlaceTypes, Phase, ThreadPhase, HostPhase, JoinPhase, IdlePhase,
       CameUp, Starting, Serving, Ending, InitSteps, InitStep, flagVars, queueVars,
       workVars, objVars, histVars, InitNext
  <1>8. IdlePhase'
    BY DEF FlagTypes, PlaceTypes, Phase, ThreadPhase, HostPhase, JoinPhase, IdlePhase,
       CameUp, Starting, Serving, Ending, InitSteps, InitStep, flagVars, queueVars,
       workVars, objVars, histVars, InitNext
  <1>9. Promise'
    BY PromiseSame DEF Phase, ThreadPhase, HostPhase, JoinPhase, IdlePhase, CameUp,
       Starting, Serving, Ending, InitSteps, InitStep, flagVars, queueVars, workVars,
       objVars, histVars, InitNext
  <1>10. Tasks'
    BY <1>0, <1>00, TasksIo DEF InitStep, histVars, InitSteps
  <1> QED
    BY <1>1, <1>2, <1>3, <1>4, <1>5, <1>6, <1>7, <1>8, <1>9, <1>10 DEF Phase

LEMMA InitFailKeeps ==
    ASSUME RtInv, InitFail PROVE RtInv'
  <1> USE DEF RtInv, Types
  <1> pc \in InitSteps
    BY ThreadAssumption DEF InitFail
  <1>0. /\ WorkTypes' /\ stream' \in BOOLEAN
        /\ jobs' = jobs \/ jobs' = Append(jobs, "io")
    <2>1. CASE pc = "eval"
      BY <2>1, TaskTypes DEF InitFail, WorkTypes, Origins
    <2>2. CASE pc # "eval"
      BY <2>2, WorkSame DEF InitFail, workVars, FlagTypes
    <2> QED
      BY <2>1, <2>2
  <1>1. PlaceTypes'
    BY ThreadAssumption DEF PlaceTypes, Starting, Serving, Ending, InitSteps, InitFail,
       flagVars, queueVars, workVars, objVars, histVars
  <1>2. FlagTypes'
    BY <1>0 DEF FlagTypes, InitFail, flagVars, objVars, histVars
  <1>3. QueueTypes'
    BY QueueSame DEF InitFail, flagVars, queueVars, workVars, objVars, histVars
  <1>4. WorkTypes'
    BY <1>0
  <1>5. ThreadPhase'
    BY DEF FlagTypes, Phase, ThreadPhase, HostPhase, JoinPhase, IdlePhase, CameUp,
       Starting, Serving, Ending, InitSteps, InitFail, flagVars, queueVars, workVars,
       objVars, histVars
  <1>6. HostPhase'
    BY ThreadAssumption DEF FlagTypes, PlaceTypes, QueueTypes, Phase, ThreadPhase,
       HostPhase, JoinPhase, IdlePhase, CameUp, Starting, Serving, Ending, InitSteps,
       InitFail, flagVars, queueVars, workVars, objVars, histVars
  <1>7. JoinPhase'
    BY DEF FlagTypes, PlaceTypes, Phase, ThreadPhase, HostPhase, JoinPhase, IdlePhase,
       CameUp, Starting, Serving, Ending, InitSteps, InitFail, flagVars, queueVars,
       workVars, objVars, histVars
  <1>8. IdlePhase'
    BY DEF FlagTypes, PlaceTypes, Phase, ThreadPhase, HostPhase, JoinPhase, IdlePhase,
       CameUp, Starting, Serving, Ending, InitSteps, InitFail, flagVars, queueVars,
       workVars, objVars, histVars
  <1>9. Promise'
    BY PromiseSame DEF Phase, ThreadPhase, HostPhase, JoinPhase, IdlePhase, CameUp,
       Starting, Serving, Ending, InitSteps, InitFail, flagVars, queueVars, workVars,
       objVars, histVars
  <1>10. Tasks'
    BY <1>0, TasksIo DEF InitFail, histVars, InitSteps
  <1> QED
    BY <1>1, <1>2, <1>3, <1>4, <1>5, <1>6, <1>7, <1>8, <1>9, <1>10 DEF Phase

LEMMA ReadyKeeps ==
    ASSUME RtInv, Ready PROVE RtInv'
  <1> USE DEF RtInv, Types
  <1>1. PlaceTypes'
    BY ThreadAssumption DEF PlaceTypes, Starting, Serving, Ending, InitSteps, Ready,
       flagVars, queueVars, workVars, objVars, histVars
  <1>2. FlagTypes'
    BY DEF FlagTypes, Ready, flagVars, queueVars, workVars, objVars, histVars
  <1>3. QueueTypes'
    BY QueueSame DEF Ready, flagVars, queueVars, workVars, objVars, histVars
  <1>4. WorkTypes'
    BY WorkSame DEF Ready, flagVars, queueVars, workVars, objVars, histVars
  <1>5. ThreadPhase'
    BY DEF FlagTypes, Phase, ThreadPhase, HostPhase, JoinPhase, IdlePhase, CameUp,
       Starting, Serving, Ending, InitSteps, Ready, flagVars, queueVars, workVars,
       objVars, histVars
  <1>6. HostPhase'
    BY ThreadAssumption DEF FlagTypes, PlaceTypes, QueueTypes, Phase, ThreadPhase,
       HostPhase, JoinPhase, IdlePhase, CameUp, Starting, Serving, Ending, InitSteps,
       Ready, flagVars, queueVars, workVars, objVars, histVars
  <1>7. JoinPhase'
    BY DEF FlagTypes, PlaceTypes, Phase, ThreadPhase, HostPhase, JoinPhase, IdlePhase,
       CameUp, Starting, Serving, Ending, InitSteps, Ready, flagVars, queueVars,
       workVars, objVars, histVars
  <1>8. IdlePhase'
    BY DEF FlagTypes, PlaceTypes, Phase, ThreadPhase, HostPhase, JoinPhase, IdlePhase,
       CameUp, Starting, Serving, Ending, InitSteps, Ready, flagVars, queueVars,
       workVars, objVars, histVars
  <1>9. Promise'
    BY PromiseSame DEF Phase, ThreadPhase, HostPhase, JoinPhase, IdlePhase, CameUp,
       Starting, Serving, Ending, InitSteps, Ready, flagVars, queueVars, workVars,
       objVars, histVars
  <1>10. Tasks'
    BY TasksSame DEF Phase, ThreadPhase, HostPhase, JoinPhase, IdlePhase, CameUp,
       Starting, Serving, Ending, InitSteps, Ready, flagVars, queueVars, workVars,
       objVars, histVars
  <1> QED
    BY <1>1, <1>2, <1>3, <1>4, <1>5, <1>6, <1>7, <1>8, <1>9, <1>10 DEF Phase

LEMMA LoopHeadKeeps ==
    ASSUME RtInv, LoopHead PROVE RtInv'
  <1> USE DEF RtInv, Types
  <1>1. PlaceTypes'
    BY ThreadAssumption DEF PlaceTypes, Starting, Serving, Ending, InitSteps, LoopHead,
       flagVars, queueVars, workVars, objVars, histVars
  <1>2. FlagTypes'
    BY DEF FlagTypes, LoopHead, flagVars, queueVars, workVars, objVars, histVars
  <1>3. QueueTypes'
    BY QueueSame DEF LoopHead, flagVars, queueVars, workVars, objVars, histVars
  <1>4. WorkTypes'
    BY WorkSame DEF LoopHead, flagVars, queueVars, workVars, objVars, histVars
  <1>5. ThreadPhase'
    BY DEF FlagTypes, Phase, ThreadPhase, HostPhase, JoinPhase, IdlePhase, CameUp,
       Starting, Serving, Ending, InitSteps, LoopHead, flagVars, queueVars, workVars,
       objVars, histVars
  <1>6. HostPhase'
    BY ThreadAssumption DEF FlagTypes, PlaceTypes, QueueTypes, Phase, ThreadPhase,
       HostPhase, JoinPhase, IdlePhase, CameUp, Starting, Serving, Ending, InitSteps,
       LoopHead, flagVars, queueVars, workVars, objVars, histVars
  <1>7. JoinPhase'
    BY DEF FlagTypes, PlaceTypes, Phase, ThreadPhase, HostPhase, JoinPhase, IdlePhase,
       CameUp, Starting, Serving, Ending, InitSteps, LoopHead, flagVars, queueVars,
       workVars, objVars, histVars
  <1>8. IdlePhase'
    BY DEF FlagTypes, PlaceTypes, Phase, ThreadPhase, HostPhase, JoinPhase, IdlePhase,
       CameUp, Starting, Serving, Ending, InitSteps, LoopHead, flagVars, queueVars,
       workVars, objVars, histVars
  <1>9. Promise'
    BY PromiseSame DEF Phase, ThreadPhase, HostPhase, JoinPhase, IdlePhase, CameUp,
       Starting, Serving, Ending, InitSteps, LoopHead, flagVars, queueVars, workVars,
       objVars, histVars
  <1>10. Tasks'
    BY TasksSame DEF Phase, ThreadPhase, HostPhase, JoinPhase, IdlePhase, CameUp,
       Starting, Serving, Ending, InitSteps, LoopHead, flagVars, queueVars, workVars,
       objVars, histVars
  <1> QED
    BY <1>1, <1>2, <1>3, <1>4, <1>5, <1>6, <1>7, <1>8, <1>9, <1>10 DEF Phase

LEMMA PollEventKeeps ==
    ASSUME RtInv, PollEvent PROVE RtInv'
  <1> USE DEF RtInv, Types
  <1>1. PlaceTypes'
    BY ThreadAssumption DEF PlaceTypes, Starting, Serving, Ending, InitSteps,
       PollEvent, flagVars, queueVars, workVars, objVars, histVars, Event, CallJS
  <1>2. FlagTypes'
    BY DEF FlagTypes, PollEvent, flagVars, queueVars, workVars, objVars, histVars,
       Event, CallJS
  <1>3. QueueTypes'
    BY QueueSame DEF PollEvent, flagVars, queueVars, workVars, objVars, histVars,
       Event, CallJS
  <1>4. WorkTypes'
    <2>1. jobs' = Append(jobs, "io") /\ jobs \in Seq(Origins) /\ "io" \in Origins
      BY DEF WorkTypes, PollEvent, Event, Origins
    <2>2. timers \in Nat /\ done \in Nat /\ pool \in Nat /\ budget \in Nat
      BY DEF WorkTypes
    <2>3. timers' = timers \/ (timers > 0 /\ timers' = timers - 1)
      BY DEF PollEvent, Event
    <2>4. done' = done \/ (done > 0 /\ done' = done - 1)
      BY DEF PollEvent, Event
    <2>5. pool' = pool /\ budget' = budget
      BY DEF PollEvent, Event
    <2>6. timers' \in Nat /\ done' \in Nat
      BY <2>2, <2>3, <2>4
    <2>7. jobs' \in Seq(Origins)
      BY <2>1
    <2> QED
      BY <2>2, <2>5, <2>6, <2>7 DEF WorkTypes
  <1>5. ThreadPhase'
    BY DEF FlagTypes, Phase, ThreadPhase, HostPhase, JoinPhase, IdlePhase, CameUp,
       Starting, Serving, Ending, InitSteps, PollEvent, flagVars, queueVars, workVars,
       objVars, histVars, Event, CallJS
  <1>6. HostPhase'
    BY ThreadAssumption DEF FlagTypes, PlaceTypes, QueueTypes, Phase, ThreadPhase,
       HostPhase, JoinPhase, IdlePhase, CameUp, Starting, Serving, Ending, InitSteps,
       PollEvent, flagVars, queueVars, workVars, objVars, histVars, Event, CallJS
  <1>7. JoinPhase'
    BY DEF FlagTypes, PlaceTypes, Phase, ThreadPhase, HostPhase, JoinPhase, IdlePhase,
       CameUp, Starting, Serving, Ending, InitSteps, PollEvent, flagVars, queueVars,
       workVars, objVars, histVars, Event, CallJS
  <1>8. IdlePhase'
    BY DEF FlagTypes, PlaceTypes, Phase, ThreadPhase, HostPhase, JoinPhase, IdlePhase,
       CameUp, Starting, Serving, Ending, InitSteps, PollEvent, flagVars, queueVars,
       workVars, objVars, histVars, Event, CallJS
  <1>9. Promise'
    BY PromiseSame DEF Phase, ThreadPhase, HostPhase, JoinPhase, IdlePhase, CameUp,
       Starting, Serving, Ending, InitSteps, PollEvent, flagVars, queueVars, workVars,
       objVars, histVars, Event, CallJS
  <1>10. Tasks'
    BY TasksIo DEF PollEvent, Event, histVars
  <1> QED
    BY <1>1, <1>2, <1>3, <1>4, <1>5, <1>6, <1>7, <1>8, <1>9, <1>10 DEF Phase

LEMMA PollWakeKeeps ==
    ASSUME RtInv, PollWake PROVE RtInv'
  <1> USE DEF RtInv, Types
  <1>1. PlaceTypes'
    BY ThreadAssumption DEF PlaceTypes, Starting, Serving, Ending, InitSteps, PollWake,
       flagVars, queueVars, workVars, objVars, histVars
  <1>2. FlagTypes'
    BY DEF FlagTypes, PollWake, flagVars, queueVars, workVars, objVars, histVars
  <1>3. QueueTypes'
    BY QueueSame DEF PollWake, flagVars, queueVars, workVars, objVars, histVars
  <1>4. WorkTypes'
    BY WorkSame DEF PollWake, flagVars, queueVars, workVars, objVars, histVars
  <1>5. ThreadPhase'
    BY DEF FlagTypes, Phase, ThreadPhase, HostPhase, JoinPhase, IdlePhase, CameUp,
       Starting, Serving, Ending, InitSteps, PollWake, flagVars, queueVars, workVars,
       objVars, histVars
  <1>6. HostPhase'
    BY ThreadAssumption DEF FlagTypes, PlaceTypes, QueueTypes, Phase, ThreadPhase,
       HostPhase, JoinPhase, IdlePhase, CameUp, Starting, Serving, Ending, InitSteps,
       PollWake, flagVars, queueVars, workVars, objVars, histVars
  <1>7. JoinPhase'
    BY DEF FlagTypes, PlaceTypes, Phase, ThreadPhase, HostPhase, JoinPhase, IdlePhase,
       CameUp, Starting, Serving, Ending, InitSteps, PollWake, flagVars, queueVars,
       workVars, objVars, histVars
  <1>8. IdlePhase'
    BY DEF FlagTypes, PlaceTypes, Phase, ThreadPhase, HostPhase, JoinPhase, IdlePhase,
       CameUp, Starting, Serving, Ending, InitSteps, PollWake, flagVars, queueVars,
       workVars, objVars, histVars
  <1>9. Promise'
    BY PromiseSame DEF Phase, ThreadPhase, HostPhase, JoinPhase, IdlePhase, CameUp,
       Starting, Serving, Ending, InitSteps, PollWake, flagVars, queueVars, workVars,
       objVars, histVars
  <1>10. Tasks'
    BY TasksSame DEF Phase, ThreadPhase, HostPhase, JoinPhase, IdlePhase, CameUp,
       Starting, Serving, Ending, InitSteps, PollWake, flagVars, queueVars, workVars,
       objVars, histVars
  <1> QED
    BY <1>1, <1>2, <1>3, <1>4, <1>5, <1>6, <1>7, <1>8, <1>9, <1>10 DEF Phase

LEMMA WakePopKeeps ==
    ASSUME RtInv, WakePop PROVE RtInv'
  <1> USE DEF RtInv, Types
  <1>0. /\ WorkTypes' /\ stream' \in BOOLEAN
    BY TaskTypes DEF WakePop, WorkTypes, Origins
  <1>00. /\ queue # << >> /\ queue[1] \in Items /\ queue[1].m \in Messages /\ queue[1].linked
    <2>1. queue # << >> /\ queue \in Seq(Items) /\ queue[1].linked
      BY DEF WakePop, QueueTypes, HeadLinked, EmptyQueue
    <2>2. queue[1] \in Items
      BY <2>1
    <2> QED
      BY <2>1, <2>2 DEF Items
  <1>000. /\ \A i \in DOMAIN dispatched : i \in DOMAIN dispatched'
                                        /\ dispatched'[i] = dispatched[i]
          /\ Len(dispatched) + 1 \in DOMAIN dispatched'
          /\ dispatched'[Len(dispatched) + 1] = queue[1].m
    <2>1. dispatched \in Seq(Messages) /\ dispatched' = Append(dispatched, queue[1].m)
      BY DEF WakePop, QueueTypes
    <2> QED
      BY <1>00, <2>1, AppendProperties
  <1>1. PlaceTypes'
    BY ThreadAssumption DEF PlaceTypes, Starting, Serving, Ending, InitSteps, WakePop,
       flagVars, queueVars, workVars, objVars, histVars, CallJS
  <1>2. FlagTypes'
    BY <1>0 DEF FlagTypes, WakePop, flagVars, objVars
  <1>3. QueueTypes'
    <2>1. Tail(queue) \in Seq(Items)
      BY <1>00 DEF QueueTypes
    <2>2. Append(dispatched, queue[1].m) \in Seq(Messages)
      BY <1>00 DEF QueueTypes
    <2> QED
      BY <2>1, <2>2 DEF WakePop, QueueTypes
  <1>4. WorkTypes'
    BY <1>0
  <1>5. ThreadPhase'
    BY DEF FlagTypes, Phase, ThreadPhase, HostPhase, JoinPhase, IdlePhase, CameUp,
       Starting, Serving, Ending, InitSteps, WakePop, flagVars, queueVars, workVars,
       objVars, histVars, CallJS
  <1>6. HostPhase'
    BY ThreadAssumption DEF FlagTypes, PlaceTypes, QueueTypes, Phase, ThreadPhase,
       HostPhase, JoinPhase, IdlePhase, CameUp, Starting, Serving, Ending, InitSteps,
       WakePop, flagVars, queueVars, workVars, objVars, histVars, CallJS
  <1>7. JoinPhase'
    BY DEF FlagTypes, PlaceTypes, Phase, ThreadPhase, HostPhase, JoinPhase, IdlePhase,
       CameUp, Starting, Serving, Ending, InitSteps, WakePop, flagVars, queueVars,
       workVars, objVars, histVars, CallJS
  <1>8. IdlePhase'
    BY DEF FlagTypes, PlaceTypes, Phase, ThreadPhase, HostPhase, JoinPhase, IdlePhase,
       CameUp, Starting, Serving, Ending, InitSteps, WakePop, flagVars, queueVars,
       workVars, objVars, histVars, CallJS
  <1>9. Promise'
    <2>1. ASSUME NEW m, Delivered(m) \/ Reachable(m)
          PROVE  Delivered(m)' \/ Reachable(m)'
      <3>1. CASE Delivered(m)
        <4>1. PICK i \in DOMAIN dispatched : dispatched[i] = m
          BY <3>1 DEF Delivered
        <4>2. i \in DOMAIN dispatched' /\ dispatched'[i] = m
          BY <1>000, <4>1
        <4> QED
          BY <4>2 DEF Delivered
      <3>2. CASE Reachable(m)
        <4>1. PICK j \in DOMAIN queue : queue[j].m = m /\ \A k \in 1 .. j : queue[k].linked
          BY <3>2 DEF Reachable
        <4>2. CASE j = 1
          <5>1. Len(dispatched) + 1 \in DOMAIN dispatched'
                /\ dispatched'[Len(dispatched) + 1] = m
            BY <1>000, <4>1, <4>2
          <5> QED
            BY <5>1 DEF Delivered
        <4>3. CASE j # 1
          <5>1. j \in 2 .. Len(queue)
            BY <4>1, <4>3 DEF QueueTypes
          <5>2. queue' = Tail(queue) /\ queue \in Seq(Items)
            BY DEF WakePop, QueueTypes
          <5>3. \A k \in 1 .. Len(queue) - 1 : k \in DOMAIN queue' /\ queue'[k] = queue[k + 1]
            BY <1>00, <5>2
          <5>4. j - 1 \in DOMAIN queue' /\ queue'[j - 1].m = m
            BY <4>1, <5>1, <5>2, <5>3
          <5>5. \A k \in 1 .. j - 1 : queue'[k].linked
            BY <4>1, <5>1, <5>2, <5>3
          <5> QED
            BY <5>4, <5>5 DEF Reachable
        <4> QED
          BY <4>2, <4>3
      <3> QED
        BY <2>1, <3>1, <3>2
    <2>2. pc = "wake_cb" /\ pc' = "wake_flush" /\ UNCHANGED <<promised, idleExit, wait_idle>>
      BY DEF WakePop, flagVars
    <2>3. ~idleExit
      BY <2>2 DEF Phase, IdlePhase, Ending
    <2> QED
      BY <2>1, <2>2, <2>3 DEF Promise, Ending
  <1>10. Tasks'
    BY DEF WakePop, Tasks
  <1> QED
    BY <1>1, <1>2, <1>3, <1>4, <1>5, <1>6, <1>7, <1>8, <1>9, <1>10 DEF Phase

LEMMA WakeEndKeeps ==
    ASSUME RtInv, WakeEnd PROVE RtInv'
  <1> USE DEF RtInv, Types
  <1>1. PlaceTypes'
    BY ThreadAssumption DEF PlaceTypes, Starting, Serving, Ending, InitSteps, WakeEnd,
       flagVars, queueVars, workVars, objVars, histVars
  <1>2. FlagTypes'
    BY DEF FlagTypes, WakeEnd, flagVars, queueVars, workVars, objVars, histVars
  <1>3. QueueTypes'
    BY QueueSame DEF WakeEnd, flagVars, queueVars, workVars, objVars, histVars
  <1>4. WorkTypes'
    BY WorkSame DEF WakeEnd, flagVars, queueVars, workVars, objVars, histVars
  <1>5. ThreadPhase'
    BY DEF FlagTypes, Phase, ThreadPhase, HostPhase, JoinPhase, IdlePhase, CameUp,
       Starting, Serving, Ending, InitSteps, WakeEnd, flagVars, queueVars, workVars,
       objVars, histVars
  <1>6. HostPhase'
    BY ThreadAssumption DEF FlagTypes, PlaceTypes, QueueTypes, Phase, ThreadPhase,
       HostPhase, JoinPhase, IdlePhase, CameUp, Starting, Serving, Ending, InitSteps,
       WakeEnd, flagVars, queueVars, workVars, objVars, histVars
  <1>7. JoinPhase'
    BY DEF FlagTypes, PlaceTypes, Phase, ThreadPhase, HostPhase, JoinPhase, IdlePhase,
       CameUp, Starting, Serving, Ending, InitSteps, WakeEnd, flagVars, queueVars,
       workVars, objVars, histVars
  <1>8. IdlePhase'
    BY DEF FlagTypes, PlaceTypes, Phase, ThreadPhase, HostPhase, JoinPhase, IdlePhase,
       CameUp, Starting, Serving, Ending, InitSteps, WakeEnd, flagVars, queueVars,
       workVars, objVars, histVars
  <1>9. Promise'
    BY PromiseSame DEF Phase, ThreadPhase, HostPhase, JoinPhase, IdlePhase, CameUp,
       Starting, Serving, Ending, InitSteps, WakeEnd, flagVars, queueVars, workVars,
       objVars, histVars
  <1>10. Tasks'
    BY TasksSame DEF Phase, ThreadPhase, HostPhase, JoinPhase, IdlePhase, CameUp,
       Starting, Serving, Ending, InitSteps, WakeEnd, flagVars, queueVars, workVars,
       objVars, histVars
  <1> QED
    BY <1>1, <1>2, <1>3, <1>4, <1>5, <1>6, <1>7, <1>8, <1>9, <1>10 DEF Phase

LEMMA RunReturnKeeps ==
    ASSUME RtInv, RunReturn PROVE RtInv'
  <1> USE DEF RtInv, Types
  <1>1. PlaceTypes'
    BY ThreadAssumption DEF PlaceTypes, Starting, Serving, Ending, InitSteps,
       RunReturn, flagVars, queueVars, workVars, objVars, histVars
  <1>2. FlagTypes'
    BY DEF FlagTypes, RunReturn, flagVars, queueVars, workVars, objVars, histVars
  <1>3. QueueTypes'
    BY QueueSame DEF RunReturn, flagVars, queueVars, workVars, objVars, histVars
  <1>4. WorkTypes'
    BY WorkSame DEF RunReturn, flagVars, queueVars, workVars, objVars, histVars
  <1>5. ThreadPhase'
    BY DEF FlagTypes, Phase, ThreadPhase, HostPhase, JoinPhase, IdlePhase, CameUp,
       Starting, Serving, Ending, InitSteps, RunReturn, flagVars, queueVars, workVars,
       objVars, histVars
  <1>6. HostPhase'
    BY ThreadAssumption DEF FlagTypes, PlaceTypes, QueueTypes, Phase, ThreadPhase,
       HostPhase, JoinPhase, IdlePhase, CameUp, Starting, Serving, Ending, InitSteps,
       RunReturn, flagVars, queueVars, workVars, objVars, histVars
  <1>7. JoinPhase'
    BY DEF FlagTypes, PlaceTypes, Phase, ThreadPhase, HostPhase, JoinPhase, IdlePhase,
       CameUp, Starting, Serving, Ending, InitSteps, RunReturn, flagVars, queueVars,
       workVars, objVars, histVars
  <1>8. IdlePhase'
    BY DEF FlagTypes, PlaceTypes, Phase, ThreadPhase, HostPhase, JoinPhase, IdlePhase,
       CameUp, Starting, Serving, Ending, InitSteps, RunReturn, flagVars, queueVars,
       workVars, objVars, histVars
  <1>9. Promise'
    BY PromiseSame DEF Phase, ThreadPhase, HostPhase, JoinPhase, IdlePhase, CameUp,
       Starting, Serving, Ending, InitSteps, RunReturn, flagVars, queueVars, workVars,
       objVars, histVars
  <1>10. Tasks'
    BY TasksSame DEF Phase, ThreadPhase, HostPhase, JoinPhase, IdlePhase, CameUp,
       Starting, Serving, Ending, InitSteps, RunReturn, flagVars, queueVars, workVars,
       objVars, histVars
  <1> QED
    BY <1>1, <1>2, <1>3, <1>4, <1>5, <1>6, <1>7, <1>8, <1>9, <1>10 DEF Phase

LEMMA RunJobKeeps ==
    ASSUME RtInv, RunJob PROVE RtInv'
  <1> USE DEF RtInv, Types
  <1>00. Head(jobs) \in Origins /\ Tail(jobs) \in Seq(Origins)
    BY DEF RunJob, WorkTypes
  <1>0. /\ WorkTypes' /\ stream' \in BOOLEAN
        /\ jobs' = Tail(jobs) \/ jobs' = Append(Tail(jobs), Head(jobs))
    <2>1. RunTask(Tail(jobs), Head(jobs))
      BY DEF RunJob
    <2> QED
      BY <1>00, <2>1, TaskTypes
  <1>1. PlaceTypes'
    BY ThreadAssumption DEF PlaceTypes, Starting, Serving, Ending, InitSteps, RunJob,
       flagVars, queueVars, workVars, objVars, histVars, AfterFlush
  <1>2. FlagTypes'
    BY <1>0 DEF FlagTypes, RunJob, flagVars, objVars
  <1>3. QueueTypes'
    BY QueueSame DEF RunJob, flagVars, queueVars, workVars, objVars, histVars,
       AfterFlush
  <1>4. WorkTypes'
    BY <1>0
  <1>5. ThreadPhase'
    BY DEF FlagTypes, Phase, ThreadPhase, HostPhase, JoinPhase, IdlePhase, CameUp,
       Starting, Serving, Ending, InitSteps, RunJob, flagVars, queueVars, workVars,
       objVars, histVars, AfterFlush
  <1>6. HostPhase'
    BY ThreadAssumption DEF FlagTypes, PlaceTypes, QueueTypes, Phase, ThreadPhase,
       HostPhase, JoinPhase, IdlePhase, CameUp, Starting, Serving, Ending, InitSteps,
       RunJob, flagVars, queueVars, workVars, objVars, histVars, AfterFlush
  <1>7. JoinPhase'
    BY DEF FlagTypes, PlaceTypes, Phase, ThreadPhase, HostPhase, JoinPhase, IdlePhase,
       CameUp, Starting, Serving, Ending, InitSteps, RunJob, flagVars, queueVars,
       workVars, objVars, histVars, AfterFlush
  <1>8. IdlePhase'
    BY DEF FlagTypes, PlaceTypes, Phase, ThreadPhase, HostPhase, JoinPhase, IdlePhase,
       CameUp, Starting, Serving, Ending, InitSteps, RunJob, flagVars, queueVars,
       workVars, objVars, histVars, AfterFlush
  <1>9. Promise'
    BY PromiseSame DEF Phase, ThreadPhase, HostPhase, JoinPhase, IdlePhase, CameUp,
       Starting, Serving, Ending, InitSteps, RunJob, flagVars, queueVars, workVars,
       objVars, histVars, AfterFlush
  <1>10. Tasks'
    <2>1. CASE threw \/ threw' \/ pc' = "wake_flush"
      BY <2>1 DEF Tasks, RunJob
    <2>2. CASE ~threw /\ ~threw' /\ pc' # "wake_flush"
      <3>1. pc' = pc
        BY <2>2 DEF RunJob
      <3>2. \A i \in DOMAIN jobs : jobs[i] # "msg"
        BY <2>2, <3>1 DEF Tasks
      <3>3. jobs # << >> /\ jobs \in Seq(Origins)
        BY DEF RunJob, WorkTypes
      <3>4. Head(jobs) # "msg"
        BY <3>2, <3>3
      <3>5. \A i \in DOMAIN Tail(jobs) : Tail(jobs)[i] # "msg"
        BY <3>2, <3>3
      <3>6. \A i \in DOMAIN Append(Tail(jobs), Head(jobs)) :
                Append(Tail(jobs), Head(jobs))[i] # "msg"
        BY <1>00, <3>4, <3>5
      <3> QED
        BY <1>0, <3>5, <3>6 DEF Tasks
    <2> QED
      BY <2>1, <2>2
  <1> QED
    BY <1>1, <1>2, <1>3, <1>4, <1>5, <1>6, <1>7, <1>8, <1>9, <1>10 DEF Phase

LEMMA FlushEndKeeps ==
    ASSUME RtInv, FlushEnd PROVE RtInv'
  <1> USE DEF RtInv, Types
  <1>1. PlaceTypes'
    BY ThreadAssumption DEF PlaceTypes, Starting, Serving, Ending, InitSteps, FlushEnd,
       flagVars, queueVars, workVars, objVars, histVars, AfterFlush
  <1>2. FlagTypes'
    BY DEF FlagTypes, FlushEnd, flagVars, queueVars, workVars, objVars, histVars,
       AfterFlush
  <1>3. QueueTypes'
    BY QueueSame DEF FlushEnd, flagVars, queueVars, workVars, objVars, histVars,
       AfterFlush
  <1>4. WorkTypes'
    BY WorkSame DEF FlushEnd, flagVars, queueVars, workVars, objVars, histVars,
       AfterFlush
  <1>5. ThreadPhase'
    BY DEF FlagTypes, Phase, ThreadPhase, HostPhase, JoinPhase, IdlePhase, CameUp,
       Starting, Serving, Ending, InitSteps, FlushEnd, flagVars, queueVars, workVars,
       objVars, histVars, AfterFlush
  <1>6. HostPhase'
    BY ThreadAssumption DEF FlagTypes, PlaceTypes, QueueTypes, Phase, ThreadPhase,
       HostPhase, JoinPhase, IdlePhase, CameUp, Starting, Serving, Ending, InitSteps,
       FlushEnd, flagVars, queueVars, workVars, objVars, histVars, AfterFlush
  <1>7. JoinPhase'
    BY DEF FlagTypes, PlaceTypes, Phase, ThreadPhase, HostPhase, JoinPhase, IdlePhase,
       CameUp, Starting, Serving, Ending, InitSteps, FlushEnd, flagVars, queueVars,
       workVars, objVars, histVars, AfterFlush
  <1>8. IdlePhase'
    BY DEF FlagTypes, PlaceTypes, Phase, ThreadPhase, HostPhase, JoinPhase, IdlePhase,
       CameUp, Starting, Serving, Ending, InitSteps, FlushEnd, flagVars, queueVars,
       workVars, objVars, histVars, AfterFlush
  <1>9. Promise'
    BY PromiseSame DEF Phase, ThreadPhase, HostPhase, JoinPhase, IdlePhase, CameUp,
       Starting, Serving, Ending, InitSteps, FlushEnd, flagVars, queueVars, workVars,
       objVars, histVars, AfterFlush
  <1>10. Tasks'
    BY DEF FlushEnd, workVars, Tasks
  <1> QED
    BY <1>1, <1>2, <1>3, <1>4, <1>5, <1>6, <1>7, <1>8, <1>9, <1>10 DEF Phase

LEMMA IdleQueryKeeps ==
    ASSUME RtInv, IdleQuery PROVE RtInv'
  <1> USE DEF RtInv, Types
  <1>1. PlaceTypes'
    BY ThreadAssumption DEF PlaceTypes, Starting, Serving, Ending, InitSteps,
       IdleQuery, flagVars, queueVars, workVars, objVars, histVars
  <1>2. FlagTypes'
    BY DEF FlagTypes, IdleQuery, flagVars, queueVars, workVars, objVars, histVars
  <1>3. QueueTypes'
    BY QueueSame DEF IdleQuery, flagVars, queueVars, workVars, objVars, histVars
  <1>4. WorkTypes'
    BY WorkSame DEF IdleQuery, flagVars, queueVars, workVars, objVars, histVars
  <1>5. ThreadPhase'
    BY DEF FlagTypes, Phase, ThreadPhase, HostPhase, JoinPhase, IdlePhase, CameUp,
       Starting, Serving, Ending, InitSteps, IdleQuery, flagVars, queueVars, workVars,
       objVars, histVars
  <1>6. HostPhase'
    BY ThreadAssumption DEF FlagTypes, PlaceTypes, QueueTypes, Phase, ThreadPhase,
       HostPhase, JoinPhase, IdlePhase, CameUp, Starting, Serving, Ending, InitSteps,
       IdleQuery, flagVars, queueVars, workVars, objVars, histVars
  <1>7. JoinPhase'
    BY DEF FlagTypes, PlaceTypes, Phase, ThreadPhase, HostPhase, JoinPhase, IdlePhase,
       CameUp, Starting, Serving, Ending, InitSteps, IdleQuery, flagVars, queueVars,
       workVars, objVars, histVars
  <1>8. IdlePhase'
    BY DEF FlagTypes, PlaceTypes, Phase, ThreadPhase, HostPhase, JoinPhase, IdlePhase,
       CameUp, Starting, Serving, Ending, InitSteps, IdleQuery, flagVars, queueVars,
       workVars, objVars, histVars
  <1>9. Promise'
    <2>1. CASE pc' = "head"
      BY <2>1, PromiseSame DEF IdleQuery, flagVars, queueVars, histVars, Ending
    <2>2. CASE pc' # "head"
      <3>1. wait_idle /\ ~HeadLinked /\ pc' = "idle_flush" /\ pc = "idle_query"
        BY <2>2 DEF IdleQuery
      <3>2. ASSUME NEW m, Reachable(m) PROVE FALSE
        <4>1. PICK j \in DOMAIN queue : queue[j].m = m /\ \A k \in 1 .. j : queue[k].linked
          BY <3>2 DEF Reachable
        <4>2. queue # << >> /\ 1 \in 1 .. j
          BY <4>1 DEF QueueTypes
        <4> QED
          BY <3>1, <4>1, <4>2 DEF HeadLinked, EmptyQueue
      <3>3. \A m \in promised : Delivered(m)
        BY <3>1, <3>2 DEF Promise, Ending
      <3>4. UNCHANGED <<wait_idle, promised, dispatched, idleExit>>
        BY DEF IdleQuery, flagVars, histVars
      <3> QED
        BY <3>1, <3>3, <3>4 DEF Promise, Delivered
    <2> QED
      BY <2>1, <2>2
  <1>10. Tasks'
    BY TasksSame DEF Phase, ThreadPhase, HostPhase, JoinPhase, IdlePhase, CameUp,
       Starting, Serving, Ending, InitSteps, IdleQuery, flagVars, queueVars, workVars,
       objVars, histVars
  <1> QED
    BY <1>1, <1>2, <1>3, <1>4, <1>5, <1>6, <1>7, <1>8, <1>9, <1>10 DEF Phase

LEMMA IdleDecideKeeps ==
    ASSUME RtInv, IdleDecide PROVE RtInv'
  <1> USE DEF RtInv, Types
  <1>1. PlaceTypes'
    BY ThreadAssumption DEF PlaceTypes, Starting, Serving, Ending, InitSteps,
       IdleDecide, flagVars, queueVars, workVars, objVars, histVars, Busy
  <1>2. FlagTypes'
    BY DEF FlagTypes, IdleDecide, flagVars, queueVars, workVars, objVars, histVars,
       Busy
  <1>3. QueueTypes'
    BY QueueSame DEF IdleDecide, flagVars, queueVars, workVars, objVars, histVars, Busy
  <1>4. WorkTypes'
    BY WorkSame DEF IdleDecide, flagVars, queueVars, workVars, objVars, histVars, Busy
  <1>5. ThreadPhase'
    BY DEF FlagTypes, Phase, ThreadPhase, HostPhase, JoinPhase, IdlePhase, CameUp,
       Starting, Serving, Ending, InitSteps, IdleDecide, flagVars, queueVars, workVars,
       objVars, histVars, Busy
  <1>6. HostPhase'
    BY ThreadAssumption DEF FlagTypes, PlaceTypes, QueueTypes, Phase, ThreadPhase,
       HostPhase, JoinPhase, IdlePhase, CameUp, Starting, Serving, Ending, InitSteps,
       IdleDecide, flagVars, queueVars, workVars, objVars, histVars, Busy
  <1>7. JoinPhase'
    BY DEF FlagTypes, PlaceTypes, Phase, ThreadPhase, HostPhase, JoinPhase, IdlePhase,
       CameUp, Starting, Serving, Ending, InitSteps, IdleDecide, flagVars, queueVars,
       workVars, objVars, histVars, Busy
  <1>8. IdlePhase'
    <2>1. CASE Busy
      BY <2>1 DEF IdleDecide, Phase, ThreadPhase, IdlePhase, CameUp, Ending, Serving, objVars
    <2>2. CASE ~Busy
      <3>1. timers = 0 /\ ~stream /\ pool = 0 /\ done = 0 /\ jobs = << >>
        BY <2>2 DEF Busy, WorkTypes
      <3>2. CameUp /\ wait_idle /\ misuse = {}
        BY DEF IdleDecide, Phase, ThreadPhase, Serving
      <3> QED
        BY <2>2, <3>1, <3>2 DEF IdleDecide, IdlePhase, CameUp, Ending, workVars, objVars
    <2> QED
      BY <2>1, <2>2
  <1>9. Promise'
    <2>1. pc = "idle_decide" /\ UNCHANGED <<wait_idle, promised, dispatched, queue>>
      BY DEF IdleDecide, queueVars
    <2>2. pc' = "head" \/ pc' = "td_drain"
      BY DEF IdleDecide
    <2>3. \A m \in promised : Delivered(m)
      BY <2>1 DEF Promise
    <2> QED
      BY <2>1, <2>2, <2>3 DEF Promise, Delivered, Reachable
  <1>10. Tasks'
    BY TasksSame DEF Phase, ThreadPhase, HostPhase, JoinPhase, IdlePhase, CameUp,
       Starting, Serving, Ending, InitSteps, IdleDecide, flagVars, queueVars, workVars,
       objVars, histVars, Busy
  <1> QED
    BY <1>1, <1>2, <1>3, <1>4, <1>5, <1>6, <1>7, <1>8, <1>9, <1>10 DEF Phase

LEMMA TdDrainKeeps ==
    ASSUME RtInv, TdDrain PROVE RtInv'
  <1> USE DEF RtInv, Types
  <1>1. PlaceTypes'
    BY ThreadAssumption DEF PlaceTypes, Starting, Serving, Ending, InitSteps, TdDrain,
       flagVars, queueVars, workVars, objVars, histVars
  <1>2. FlagTypes'
    BY DEF FlagTypes, TdDrain, flagVars, queueVars, workVars, objVars, histVars
  <1>3. QueueTypes'
    <2>1. queue' \in Seq(Items)
      <3>1. queue \in Seq(Items)
        BY DEF QueueTypes
      <3>2. queue' = queue \/ (queue # << >> /\ queue' = Tail(queue))
        BY DEF TdDrain, HeadLinked, EmptyQueue
      <3> QED
        BY <3>1, <3>2
    <2> QED
      BY <2>1 DEF TdDrain, QueueTypes, histVars
  <1>4. WorkTypes'
    BY WorkSame DEF TdDrain, flagVars, queueVars, workVars, objVars, histVars
  <1>5. ThreadPhase'
    BY DEF FlagTypes, Phase, ThreadPhase, HostPhase, JoinPhase, IdlePhase, CameUp,
       Starting, Serving, Ending, InitSteps, TdDrain, flagVars, queueVars, workVars,
       objVars, histVars
  <1>6. HostPhase'
    BY ThreadAssumption DEF FlagTypes, PlaceTypes, QueueTypes, Phase, ThreadPhase,
       HostPhase, JoinPhase, IdlePhase, CameUp, Starting, Serving, Ending, InitSteps,
       TdDrain, flagVars, queueVars, workVars, objVars, histVars
  <1>7. JoinPhase'
    BY DEF FlagTypes, PlaceTypes, Phase, ThreadPhase, HostPhase, JoinPhase, IdlePhase,
       CameUp, Starting, Serving, Ending, InitSteps, TdDrain, flagVars, queueVars,
       workVars, objVars, histVars
  <1>8. IdlePhase'
    BY DEF FlagTypes, PlaceTypes, Phase, ThreadPhase, HostPhase, JoinPhase, IdlePhase,
       CameUp, Starting, Serving, Ending, InitSteps, TdDrain, flagVars, queueVars,
       workVars, objVars, histVars
  <1>9. Promise'
    <2>1. pc \in Ending /\ pc' \in Ending
      BY DEF TdDrain, Ending
    <2>2. UNCHANGED <<wait_idle, promised, dispatched, idleExit>>
      BY DEF TdDrain, flagVars, histVars
    <2> QED
      BY <2>1, <2>2 DEF Promise, Delivered, Ending
  <1>10. Tasks'
    BY TasksSame DEF Phase, ThreadPhase, HostPhase, JoinPhase, IdlePhase, CameUp,
       Starting, Serving, Ending, InitSteps, TdDrain, flagVars, queueVars, workVars,
       objVars, histVars
  <1> QED
    BY <1>1, <1>2, <1>3, <1>4, <1>5, <1>6, <1>7, <1>8, <1>9, <1>10 DEF Phase

LEMMA TdStreamKeeps ==
    ASSUME RtInv, TdStream PROVE RtInv'
  <1> USE DEF RtInv, Types
  <1>1. PlaceTypes'
    BY ThreadAssumption DEF PlaceTypes, Starting, Serving, Ending, InitSteps, TdStream,
       flagVars, queueVars, workVars, objVars, histVars, CallJS
  <1>2. FlagTypes'
    BY DEF FlagTypes, TdStream, flagVars, queueVars, workVars, objVars, histVars,
       CallJS
  <1>3. QueueTypes'
    BY QueueSame DEF TdStream, flagVars, queueVars, workVars, objVars, histVars, CallJS
  <1>4. WorkTypes'
    <2>1. jobs' \in Seq(Origins)
      <3>1. jobs \in Seq(Origins) /\ "io" \in Origins
        BY DEF WorkTypes, Origins
      <3>2. jobs' = jobs \/ jobs' = Append(jobs, "io")
        BY DEF TdStream
      <3> QED
        BY <3>1, <3>2
    <2> QED
      BY <2>1 DEF TdStream, WorkTypes
  <1>5. ThreadPhase'
    BY DEF FlagTypes, Phase, ThreadPhase, HostPhase, JoinPhase, IdlePhase, CameUp,
       Starting, Serving, Ending, InitSteps, TdStream, flagVars, queueVars, workVars,
       objVars, histVars, CallJS
  <1>6. HostPhase'
    BY ThreadAssumption DEF FlagTypes, PlaceTypes, QueueTypes, Phase, ThreadPhase,
       HostPhase, JoinPhase, IdlePhase, CameUp, Starting, Serving, Ending, InitSteps,
       TdStream, flagVars, queueVars, workVars, objVars, histVars, CallJS
  <1>7. JoinPhase'
    BY DEF FlagTypes, PlaceTypes, Phase, ThreadPhase, HostPhase, JoinPhase, IdlePhase,
       CameUp, Starting, Serving, Ending, InitSteps, TdStream, flagVars, queueVars,
       workVars, objVars, histVars, CallJS
  <1>8. IdlePhase'
    BY DEF FlagTypes, PlaceTypes, Phase, ThreadPhase, HostPhase, JoinPhase, IdlePhase,
       CameUp, Starting, Serving, Ending, InitSteps, TdStream, flagVars, queueVars,
       workVars, objVars, histVars, CallJS
  <1>9. Promise'
    BY PromiseSame DEF Phase, ThreadPhase, HostPhase, JoinPhase, IdlePhase, CameUp,
       Starting, Serving, Ending, InitSteps, TdStream, flagVars, queueVars, workVars,
       objVars, histVars, CallJS
  <1>10. Tasks'
    BY TasksIo DEF TdStream
  <1> QED
    BY <1>1, <1>2, <1>3, <1>4, <1>5, <1>6, <1>7, <1>8, <1>9, <1>10 DEF Phase

LEMMA TdPumpKeeps ==
    ASSUME RtInv, TdPump PROVE RtInv'
  <1> USE DEF RtInv, Types
  <1>0. PICK fired \in 0 .. timers, ended \in {FALSE, stream} :
          /\ timers' = timers - fired
          /\ stream' = (stream /\ ~ended)
          /\ jobs' = jobs \o [i \in 1 .. done + fired + (IF ended THEN 1 ELSE 0) |-> "io"]
          /\ done' = 0
          /\ IF done + fired > 0 \/ ended
             THEN CallJS("callback without JSRuntime") ELSE UNCHANGED misuse
    BY DEF TdPump
  <1> DEFINE n == done + fired + (IF ended THEN 1 ELSE 0)
             more == [i \in 1 .. n |-> "io"]
  <1>a. n \in Nat /\ fired \in Nat /\ fired <= timers
    BY DEF WorkTypes
  <1>d. /\ timers' = timers - fired /\ done' = 0
        /\ misuse' # misuse => done + fired > 0 \/ ended
    BY <1>0
  <1>b. more \in Seq(Origins) /\ Len(more) = n /\ \A i \in 1 .. n : more[i] = "io"
    BY <1>a DEF Origins
  <1>c. jobs' = jobs \o more
    BY <1>0
  <1> HIDE DEF n, more
  <1>1. PlaceTypes'
    <2>1. round' \in 0 .. PumpRounds
      <3>1. round' = round + 1 /\ round < PumpRounds /\ round \in 0 .. PumpRounds
        BY DEF TdPump, PlaceTypes
      <3> QED
        BY <3>1, ThreadAssumption
    <2> QED
      BY <2>1 DEF TdPump, PlaceTypes, Ending, objVars
  <1>2. FlagTypes'
    <2>1. stream' \in BOOLEAN
      BY <1>0
    <2> QED
      BY <2>1 DEF TdPump, FlagTypes, flagVars, objVars
  <1>3. QueueTypes'
    BY QueueSame DEF TdPump, flagVars, queueVars, workVars, objVars, histVars, CallJS
  <1>4. WorkTypes'
    <2>1. jobs' \in Seq(Origins)
      BY <1>b, <1>c DEF WorkTypes
    <2>2. timers' \in Nat /\ done' \in Nat
      BY <1>a, <1>d DEF WorkTypes
    <2> QED
      BY <2>1, <2>2 DEF TdPump, WorkTypes
  <1>5. ThreadPhase'
    BY DEF FlagTypes, Phase, ThreadPhase, HostPhase, JoinPhase, IdlePhase, CameUp,
       Starting, Serving, Ending, InitSteps, TdPump, flagVars, queueVars, workVars,
       objVars, histVars, CallJS
  <1>6. HostPhase'
    BY ThreadAssumption DEF FlagTypes, PlaceTypes, QueueTypes, Phase, ThreadPhase,
       HostPhase, JoinPhase, IdlePhase, CameUp, Starting, Serving, Ending, InitSteps,
       TdPump, flagVars, queueVars, workVars, objVars, histVars, CallJS
  <1>7. JoinPhase'
    BY DEF FlagTypes, PlaceTypes, Phase, ThreadPhase, HostPhase, JoinPhase, IdlePhase,
       CameUp, Starting, Serving, Ending, InitSteps, TdPump, flagVars, queueVars,
       workVars, objVars, histVars, CallJS
  <1>8. IdlePhase'
    <2> SUFFICES ASSUME idleExit PROVE IdlePhase'
      BY DEF TdPump, IdlePhase
    <2>1. /\ CameUp /\ wait_idle /\ misuse = {} /\ timers = 0 /\ ~stream /\ pool = 0 /\ done = 0
          /\ jobs = << >>
      BY DEF Phase, IdlePhase
    <2>2. fired = 0
      BY <1>a, <2>1
    <2>3. ~ended
      BY <2>1
    <2>a. ~stream'
      BY <1>0, <2>1
    <2>b. misuse' = {} /\ timers' = 0 /\ done' = 0
      BY <1>d, <2>1, <2>2, <2>3
    <2>4. n = 0
      BY <2>1, <2>2, <2>3 DEF n
    <2>5. more = << >>
      BY <1>b, <2>4
    <2>6. jobs' = << >>
      BY <1>c, <2>1, <2>5
    <2> QED
      BY <2>1, <2>a, <2>b, <2>6 DEF TdPump, IdlePhase, CameUp, flagVars, objVars, Ending
  <1>9. Promise'
    BY PromiseSame DEF Phase, ThreadPhase, HostPhase, JoinPhase, IdlePhase, CameUp,
       Starting, Serving, Ending, InitSteps, TdPump, flagVars, queueVars, workVars,
       objVars, histVars, CallJS
  <1>10. Tasks'
    <2>1. CASE threw
      BY <2>1 DEF Tasks, TdPump
    <2>2. CASE ~threw
      <3>1. \A i \in DOMAIN jobs : jobs[i] # "msg"
        BY <2>2 DEF Tasks, TdPump
      <3>2. \A i \in DOMAIN (jobs \o more) : (jobs \o more)[i] # "msg"
        BY <1>a, <1>b, <3>1 DEF WorkTypes
      <3> QED
        BY <1>c, <3>2 DEF Tasks
    <2> QED
      BY <2>1, <2>2
  <1> QED
    BY <1>1, <1>2, <1>3, <1>4, <1>5, <1>6, <1>7, <1>8, <1>9, <1>10 DEF Phase

LEMMA TdFreeKeeps ==
    ASSUME RtInv, TdFree PROVE RtInv'
  <1> USE DEF RtInv, Types
  <1>1. PlaceTypes'
    BY ThreadAssumption DEF PlaceTypes, Starting, Serving, Ending, InitSteps, TdFree,
       flagVars, queueVars, workVars, objVars, histVars
  <1>2. FlagTypes'
    BY DEF FlagTypes, TdFree, flagVars, queueVars, workVars, objVars, histVars
  <1>3. QueueTypes'
    BY QueueSame DEF TdFree, flagVars, queueVars, workVars, objVars, histVars
  <1>4. WorkTypes'
    <2>1. << >> \in Seq(Origins)
      OBVIOUS
    <2> QED
      BY <2>1 DEF TdFree, WorkTypes
  <1>5. ThreadPhase'
    BY DEF FlagTypes, Phase, ThreadPhase, HostPhase, JoinPhase, IdlePhase, CameUp,
       Starting, Serving, Ending, InitSteps, TdFree, flagVars, queueVars, workVars,
       objVars, histVars
  <1>6. HostPhase'
    BY ThreadAssumption DEF FlagTypes, PlaceTypes, QueueTypes, Phase, ThreadPhase,
       HostPhase, JoinPhase, IdlePhase, CameUp, Starting, Serving, Ending, InitSteps,
       TdFree, flagVars, queueVars, workVars, objVars, histVars
  <1>7. JoinPhase'
    BY DEF FlagTypes, PlaceTypes, Phase, ThreadPhase, HostPhase, JoinPhase, IdlePhase,
       CameUp, Starting, Serving, Ending, InitSteps, TdFree, flagVars, queueVars,
       workVars, objVars, histVars
  <1>8. IdlePhase'
    BY DEF FlagTypes, PlaceTypes, Phase, ThreadPhase, HostPhase, JoinPhase, IdlePhase,
       CameUp, Starting, Serving, Ending, InitSteps, TdFree, flagVars, queueVars,
       workVars, objVars, histVars
  <1>9. Promise'
    BY PromiseSame DEF Phase, ThreadPhase, HostPhase, JoinPhase, IdlePhase, CameUp,
       Starting, Serving, Ending, InitSteps, TdFree, flagVars, queueVars, workVars,
       objVars, histVars
  <1>10. Tasks'
    BY DEF TdFree, Tasks
  <1> QED
    BY <1>1, <1>2, <1>3, <1>4, <1>5, <1>6, <1>7, <1>8, <1>9, <1>10 DEF Phase

LEMMA TdCloseKeeps ==
    ASSUME RtInv, TdClose PROVE RtInv'
  <1> USE DEF RtInv, Types
  <1>1. PlaceTypes'
    BY ThreadAssumption DEF PlaceTypes, Starting, Serving, Ending, InitSteps, TdClose,
       flagVars, queueVars, workVars, objVars, histVars, CallJS
  <1>2. FlagTypes'
    BY DEF FlagTypes, TdClose, flagVars, queueVars, workVars, objVars, histVars, CallJS
  <1>3. QueueTypes'
    BY QueueSame DEF TdClose, flagVars, queueVars, workVars, objVars, histVars, CallJS
  <1>4. WorkTypes'
    BY DEF TdClose, WorkTypes
  <1>5. ThreadPhase'
    BY DEF FlagTypes, Phase, ThreadPhase, HostPhase, JoinPhase, IdlePhase, CameUp,
       Starting, Serving, Ending, InitSteps, TdClose, flagVars, queueVars, workVars,
       objVars, histVars, CallJS
  <1>6. HostPhase'
    BY ThreadAssumption DEF FlagTypes, PlaceTypes, QueueTypes, Phase, ThreadPhase,
       HostPhase, JoinPhase, IdlePhase, CameUp, Starting, Serving, Ending, InitSteps,
       TdClose, flagVars, queueVars, workVars, objVars, histVars, CallJS
  <1>7. JoinPhase'
    BY DEF FlagTypes, PlaceTypes, Phase, ThreadPhase, HostPhase, JoinPhase, IdlePhase,
       CameUp, Starting, Serving, Ending, InitSteps, TdClose, flagVars, queueVars,
       workVars, objVars, histVars, CallJS
  <1>8. IdlePhase'
    BY DEF FlagTypes, PlaceTypes, Phase, ThreadPhase, HostPhase, JoinPhase, IdlePhase,
       CameUp, Starting, Serving, Ending, InitSteps, TdClose, flagVars, queueVars,
       workVars, objVars, histVars, CallJS
  <1>9. Promise'
    BY PromiseSame DEF Phase, ThreadPhase, HostPhase, JoinPhase, IdlePhase, CameUp,
       Starting, Serving, Ending, InitSteps, TdClose, flagVars, queueVars, workVars,
       objVars, histVars, CallJS
  <1>10. Tasks'
    BY TasksSame DEF Phase, ThreadPhase, HostPhase, JoinPhase, IdlePhase, CameUp,
       Starting, Serving, Ending, InitSteps, TdClose, flagVars, queueVars, workVars,
       objVars, histVars, CallJS
  <1> QED
    BY <1>1, <1>2, <1>3, <1>4, <1>5, <1>6, <1>7, <1>8, <1>9, <1>10 DEF Phase

LEMMA PoolFinishKeeps ==
    ASSUME RtInv, PoolFinish PROVE RtInv'
  <1> USE DEF RtInv, Types
  <1>0. pool \in Nat /\ done \in Nat /\ pool > 0 /\ pool' = pool - 1 /\ done' = done + 1
    BY DEF PoolFinish, WorkTypes
  <1>1. PlaceTypes'
    BY ThreadAssumption DEF PlaceTypes, Starting, Serving, Ending, InitSteps,
       PoolFinish, flagVars, queueVars, workVars, objVars, histVars
  <1>2. FlagTypes'
    BY DEF FlagTypes, PoolFinish, flagVars, queueVars, workVars, objVars, histVars
  <1>3. QueueTypes'
    BY QueueSame DEF PoolFinish, flagVars, queueVars, workVars, objVars, histVars
  <1>4. WorkTypes'
    <2>1. pool' \in Nat /\ done' \in Nat
      BY <1>0
    <2> QED
      BY <2>1 DEF PoolFinish, WorkTypes
  <1>5. ThreadPhase'
    BY DEF FlagTypes, Phase, ThreadPhase, HostPhase, JoinPhase, IdlePhase, CameUp,
       Starting, Serving, Ending, InitSteps, PoolFinish, flagVars, queueVars, workVars,
       objVars, histVars
  <1>6. HostPhase'
    BY ThreadAssumption DEF FlagTypes, PlaceTypes, QueueTypes, Phase, ThreadPhase,
       HostPhase, JoinPhase, IdlePhase, CameUp, Starting, Serving, Ending, InitSteps,
       PoolFinish, flagVars, queueVars, workVars, objVars, histVars
  <1>7. JoinPhase'
    BY DEF FlagTypes, PlaceTypes, Phase, ThreadPhase, HostPhase, JoinPhase, IdlePhase,
       CameUp, Starting, Serving, Ending, InitSteps, PoolFinish, flagVars, queueVars,
       workVars, objVars, histVars
  <1>8. IdlePhase'
    <2>1. ~idleExit
      BY <1>0 DEF Phase, IdlePhase
    <2> QED
      BY <2>1 DEF PoolFinish, IdlePhase
  <1>9. Promise'
    BY PromiseSame DEF Phase, ThreadPhase, HostPhase, JoinPhase, IdlePhase, CameUp,
       Starting, Serving, Ending, InitSteps, PoolFinish, flagVars, queueVars, workVars,
       objVars, histVars
  <1>10. Tasks'
    BY TasksSame DEF Phase, ThreadPhase, HostPhase, JoinPhase, IdlePhase, CameUp,
       Starting, Serving, Ending, InitSteps, PoolFinish, flagVars, queueVars, workVars,
       objVars, histVars
  <1> QED
    BY <1>1, <1>2, <1>3, <1>4, <1>5, <1>6, <1>7, <1>8, <1>9, <1>10 DEF Phase

LEMMA PostClaimKeeps ==
    ASSUME RtInv, NEW p \in Posters, PostClaim(p) PROVE RtInv'
  <1> USE DEF RtInv, Types
  <1>a. <<p, posted[p] + 1>> \in Messages
    BY ThreadAssumption DEF PostClaim, MayPost, QueueTypes, Messages
  <1> DEFINE new == [m |-> <<p, posted[p] + 1>>, linked |-> FALSE]
  <1>b. new \in Items
    BY <1>a DEF Items
  <1>c. queue' = Append(queue, new) /\ queue \in Seq(Items)
    BY DEF PostClaim, QueueTypes
  <1> HIDE DEF new
  <1>1. PlaceTypes'
    BY ThreadAssumption DEF PlaceTypes, Starting, Serving, Ending, InitSteps,
       PostClaim, flagVars, queueVars, workVars, objVars, histVars, MayPost
  <1>2. FlagTypes'
    BY DEF FlagTypes, PostClaim, flagVars, queueVars, workVars, objVars, histVars,
       MayPost
  <1>3. QueueTypes'
    <2>1. queue' \in Seq(Items)
      BY <1>b, <1>c
    <2>2. posted' \in [Posters -> 0 .. MaxPost] /\ pstate' \in [Posters -> {"idle", "link", "send"}]
      BY ThreadAssumption DEF PostClaim, MayPost, QueueTypes
    <2> QED
      BY <2>1, <2>2 DEF PostClaim, QueueTypes, histVars
  <1>4. WorkTypes'
    BY WorkSame DEF PostClaim, flagVars, queueVars, workVars, objVars, histVars,
       MayPost
  <1>5. ThreadPhase'
    BY DEF FlagTypes, Phase, ThreadPhase, HostPhase, JoinPhase, IdlePhase, CameUp,
       Starting, Serving, Ending, InitSteps, PostClaim, flagVars, queueVars, workVars,
       objVars, histVars, MayPost
  <1>6. HostPhase'
    BY ThreadAssumption DEF FlagTypes, PlaceTypes, QueueTypes, Phase, ThreadPhase,
       HostPhase, JoinPhase, IdlePhase, CameUp, Starting, Serving, Ending, InitSteps,
       PostClaim, flagVars, queueVars, workVars, objVars, histVars, MayPost
  <1>7. JoinPhase'
    BY DEF FlagTypes, PlaceTypes, Phase, ThreadPhase, HostPhase, JoinPhase, IdlePhase,
       CameUp, Starting, Serving, Ending, InitSteps, PostClaim, flagVars, queueVars,
       workVars, objVars, histVars, MayPost
  <1>8. IdlePhase'
    BY DEF FlagTypes, PlaceTypes, Phase, ThreadPhase, HostPhase, JoinPhase, IdlePhase,
       CameUp, Starting, Serving, Ending, InitSteps, PostClaim, flagVars, queueVars,
       workVars, objVars, histVars, MayPost
  <1>9. Promise'
    <2>1. ASSUME NEW m, Reachable(m) PROVE Reachable(m)'
      <3>1. PICK j \in DOMAIN queue : queue[j].m = m /\ \A k \in 1 .. j : queue[k].linked
        BY <2>1 DEF Reachable
      <3>2. \A k \in 1 .. j : k \in DOMAIN queue' /\ queue'[k] = queue[k]
        BY <1>b, <1>c, <3>1
      <3>3. j \in 1 .. j
        BY <1>c, <3>1
      <3> QED
        BY <3>1, <3>2, <3>3 DEF Reachable
    <2> QED
      BY <2>1 DEF PostClaim, Promise, Delivered, flagVars, histVars
  <1>10. Tasks'
    BY TasksSame DEF Phase, ThreadPhase, HostPhase, JoinPhase, IdlePhase, CameUp,
       Starting, Serving, Ending, InitSteps, PostClaim, flagVars, queueVars, workVars,
       objVars, histVars, MayPost
  <1> QED
    BY <1>1, <1>2, <1>3, <1>4, <1>5, <1>6, <1>7, <1>8, <1>9, <1>10 DEF Phase

LEMMA PostLinkKeeps ==
    ASSUME RtInv, NEW p \in Posters, PostLink(p) PROVE RtInv'
  <1> USE DEF RtInv, Types
  <1>a. queue \in Seq(Items)
    BY DEF QueueTypes
  <1>b. /\ DOMAIN queue' = DOMAIN queue
        /\ \A i \in DOMAIN queue : /\ queue'[i] \in Items
                                   /\ queue'[i].m = queue[i].m
                                   /\ queue[i].linked => queue'[i].linked
    <2>1. DOMAIN queue' = DOMAIN queue
      BY DEF PostLink
    <2>2. ASSUME NEW i \in DOMAIN queue
          PROVE  /\ queue'[i] \in Items /\ queue'[i].m = queue[i].m
                 /\ queue[i].linked => queue'[i].linked
      <3>1. queue[i] \in Items
        BY <1>a
      <3>2. queue'[i] = [m |-> queue[i].m, linked |-> TRUE] \/ queue'[i] = queue[i]
        BY DEF PostLink
      <3>3. CASE queue'[i] = queue[i]
        BY <3>1, <3>3
      <3>4. CASE queue'[i] = [m |-> queue[i].m, linked |-> TRUE]
        <4>1. queue[i].m \in Messages
          BY <3>1 DEF Items
        <4> QED
          BY <3>4, <4>1 DEF Items
      <3> QED
        BY <3>2, <3>3, <3>4
    <2> QED
      BY <2>1, <2>2
  <1>1. PlaceTypes'
    BY ThreadAssumption DEF PlaceTypes, Starting, Serving, Ending, InitSteps, PostLink,
       flagVars, queueVars, workVars, objVars, histVars
  <1>2. FlagTypes'
    BY DEF FlagTypes, PostLink, flagVars, queueVars, workVars, objVars, histVars
  <1>3. QueueTypes'
    <2>1. queue' \in Seq(Items)
      <3>1. PICK n \in Nat : DOMAIN queue = 1 .. n
        BY <1>a
      <3>2. DOMAIN queue' = 1 .. n /\ queue' = [i \in 1 .. n |-> queue'[i]]
        BY <1>b, <3>1 DEF PostLink
      <3>3. queue' \in [1 .. n -> Items]
        BY <1>b, <3>1, <3>2
      <3> QED
        BY <3>3, SeqDef
    <2>2. pstate' \in [Posters -> {"idle", "link", "send"}]
      BY DEF PostLink, QueueTypes
    <2> QED
      BY <2>1, <2>2 DEF PostLink, QueueTypes, histVars
  <1>4. WorkTypes'
    BY WorkSame DEF PostLink, flagVars, queueVars, workVars, objVars, histVars
  <1>5. ThreadPhase'
    BY DEF FlagTypes, Phase, ThreadPhase, HostPhase, JoinPhase, IdlePhase, CameUp,
       Starting, Serving, Ending, InitSteps, PostLink, flagVars, queueVars, workVars,
       objVars, histVars
  <1>6. HostPhase'
    BY ThreadAssumption DEF FlagTypes, PlaceTypes, QueueTypes, Phase, ThreadPhase,
       HostPhase, JoinPhase, IdlePhase, CameUp, Starting, Serving, Ending, InitSteps,
       PostLink, flagVars, queueVars, workVars, objVars, histVars
  <1>7. JoinPhase'
    BY DEF FlagTypes, PlaceTypes, Phase, ThreadPhase, HostPhase, JoinPhase, IdlePhase,
       CameUp, Starting, Serving, Ending, InitSteps, PostLink, flagVars, queueVars,
       workVars, objVars, histVars
  <1>8. IdlePhase'
    BY DEF FlagTypes, PlaceTypes, Phase, ThreadPhase, HostPhase, JoinPhase, IdlePhase,
       CameUp, Starting, Serving, Ending, InitSteps, PostLink, flagVars, queueVars,
       workVars, objVars, histVars
  <1>9. Promise'
    <2>1. ASSUME NEW m, Reachable(m) PROVE Reachable(m)'
      <3>1. PICK j \in DOMAIN queue : queue[j].m = m /\ \A k \in 1 .. j : queue[k].linked
        BY <2>1 DEF Reachable
      <3>2. \A k \in 1 .. j : k \in DOMAIN queue
        BY <1>a, <3>1
      <3> QED
        BY <1>b, <3>1, <3>2 DEF Reachable
    <2> QED
      BY <2>1 DEF PostLink, Promise, Delivered, flagVars, histVars
  <1>10. Tasks'
    BY TasksSame DEF Phase, ThreadPhase, HostPhase, JoinPhase, IdlePhase, CameUp,
       Starting, Serving, Ending, InitSteps, PostLink, flagVars, queueVars, workVars,
       objVars, histVars
  <1> QED
    BY <1>1, <1>2, <1>3, <1>4, <1>5, <1>6, <1>7, <1>8, <1>9, <1>10 DEF Phase

LEMMA PostSendKeeps ==
    ASSUME RtInv, NEW p \in Posters, PostSend(p) PROVE RtInv'
  <1> USE DEF RtInv, Types
  <1>1. PlaceTypes'
    BY ThreadAssumption DEF PlaceTypes, Starting, Serving, Ending, InitSteps, PostSend,
       flagVars, queueVars, workVars, objVars, histVars, SendWake
  <1>2. FlagTypes'
    BY DEF FlagTypes, PostSend, flagVars, queueVars, workVars, objVars, histVars,
       SendWake
  <1>3. QueueTypes'
    BY DEF PostSend, QueueTypes
  <1>4. WorkTypes'
    BY WorkSame DEF PostSend, flagVars, queueVars, workVars, objVars, histVars,
       SendWake
  <1>5. ThreadPhase'
    BY DEF FlagTypes, Phase, ThreadPhase, HostPhase, JoinPhase, IdlePhase, CameUp,
       Starting, Serving, Ending, InitSteps, PostSend, flagVars, queueVars, workVars,
       objVars, histVars, SendWake
  <1>6. HostPhase'
    BY ThreadAssumption DEF FlagTypes, PlaceTypes, QueueTypes, Phase, ThreadPhase,
       HostPhase, JoinPhase, IdlePhase, CameUp, Starting, Serving, Ending, InitSteps,
       PostSend, flagVars, queueVars, workVars, objVars, histVars, SendWake
  <1>7. JoinPhase'
    BY DEF FlagTypes, PlaceTypes, Phase, ThreadPhase, HostPhase, JoinPhase, IdlePhase,
       CameUp, Starting, Serving, Ending, InitSteps, PostSend, flagVars, queueVars,
       workVars, objVars, histVars, SendWake
  <1>8. IdlePhase'
    BY DEF FlagTypes, PlaceTypes, Phase, ThreadPhase, HostPhase, JoinPhase, IdlePhase,
       CameUp, Starting, Serving, Ending, InitSteps, PostSend, flagVars, queueVars,
       workVars, objVars, histVars, SendWake
  <1>9. Promise'
    BY PromiseSame DEF Phase, ThreadPhase, HostPhase, JoinPhase, IdlePhase, CameUp,
       Starting, Serving, Ending, InitSteps, PostSend, flagVars, queueVars, workVars,
       objVars, histVars, SendWake
  <1>10. Tasks'
    BY TasksSame DEF Phase, ThreadPhase, HostPhase, JoinPhase, IdlePhase, CameUp,
       Starting, Serving, Ending, InitSteps, PostSend, flagVars, queueVars, workVars,
       objVars, histVars, SendWake
  <1> QED
    BY <1>1, <1>2, <1>3, <1>4, <1>5, <1>6, <1>7, <1>8, <1>9, <1>10 DEF Phase

LEMMA NextPreserves == RtInv /\ [Next]_vars => RtInv'
  <1> SUFFICES ASSUME RtInv, [Next]_vars PROVE RtInv'
    OBVIOUS
  <1>1. CASE ThreadStep
    BY <1>1, InitStepKeeps, InitFailKeeps, ReadyKeeps, LoopHeadKeeps, PollEventKeeps,
       PollWakeKeeps, WakePopKeeps, WakeEndKeeps, RunReturnKeeps, RunJobKeeps,
       FlushEndKeeps, IdleQueryKeeps, IdleDecideKeeps, TdDrainKeeps, TdStreamKeeps,
       TdPumpKeeps, TdFreeKeeps, TdCloseKeeps DEF ThreadStep
  <1>2. CASE HostReturn
    BY <1>2, CreateReturnKeeps, WaitIdleSendKeeps, WaitIdleReturnKeeps, DestroySendKeeps,
       DestroyFreeKeeps DEF HostReturn
  <1>3. CASE \E p \in Posters : PostClaim(p) \/ PostStep(p)
    BY <1>3, PostClaimKeeps, PostLinkKeeps, PostSendKeeps DEF PostStep
  <1>4. CASE UNCHANGED vars
    <2> USE <1>4 DEF vars, flagVars, queueVars, workVars, objVars, histVars, RtInv, Types
    <2>1. Types'
      BY DEF PlaceTypes, FlagTypes, QueueTypes, WorkTypes
    <2>2. Phase'
      BY DEF Phase, ThreadPhase, HostPhase, JoinPhase, IdlePhase, CameUp
    <2> QED
      BY <2>1, <2>2, PromiseSame, TasksSame
  <1> QED
    BY <1>1, <1>2, <1>3, <1>4, CreateKeeps, WaitIdleKeeps, DestroyKeeps, PoolFinishKeeps
       DEF Next, Finished

-----------------------------------------------------------------------------
(* The invariant holds in every state the threads reach. *)
THEOREM RtInvHolds == Spec => []RtInv
  BY InitHolds, NextPreserves, PTL DEF Spec

LEMMA InvImpliesExit == RtInv => ThreadExitIsSound
  <1> SUFFICES ASSUME RtInv PROVE ThreadExitIsSound
    OBVIOUS
  <1> USE DEF RtInv, Types
  <1>1. TypeOK
    <2>1. \A f \in {thread_ready, ready_err, shutting_down, wait_idle, thread_joined,
                    wakeInit, wake, stream, idleExit, threw} : f \in BOOLEAN
      BY DEF FlagTypes
    <2>2. host \in InCall \cup {"new", "unborn", "up", "idle", "freed", "null"}
      BY DEF PlaceTypes, InCall
    <2>3. pc \in InitSteps \cup DOMAIN AfterFlush \cup
              {"ready", "head", "poll", "more", "wake_cb", "idle_query", "idle_decide",
               "td_drain", "td_stream", "td_spin", "td_pump", "td_close", "exited", "none"}
      BY DEF PlaceTypes, AfterFlush, Starting, Serving, Ending
    <2> QED
      BY <2>1, <2>2, <2>3 DEF TypeOK, PlaceTypes, QueueTypes, WorkTypes, Items, Origins
  <1>2. WaitIdleServesPosts
    BY DEF Promise, Delivered, WaitIdleServesPosts
  <1>3. IdleExitIsClean
    BY DEF Phase, IdlePhase, IdleExitIsClean
  <1>4. JoinedOnce
    BY DEF Phase, JoinPhase, JoinedOnce
  <1> QED
    BY <1>1, <1>2, <1>3, <1>4 DEF ThreadExitIsSound

(* Whoever brings the end of a runtime about, it is sound: a thread that exits *)
(* because it is idle has dispatched what qz_wait_idle was to wait for and     *)
(* leaves nothing behind that could call back, and it is joined exactly once;  *)
(* for any number of threads that post and any amount of work (qz_wait_idle,   *)
(* qz_destroy, qz_loop_idle, qz_thread_teardown).                              *)
THEOREM ThreadEndsSoundly == Spec => []ThreadExitIsSound
  BY RtInvHolds, InvImpliesExit, PTL

LEMMA DispatchIsTask ==
    RtInv /\ [Next]_vars =>
        [dispatched' # dispatched /\ ~threw => \A i \in DOMAIN jobs : jobs[i] # "msg"]_vars
  <1> SUFFICES ASSUME RtInv, Next, dispatched' # dispatched, ~threw
               PROVE  \A i \in DOMAIN jobs : jobs[i] # "msg"
    BY DEF vars
  <1>1. pc = "wake_cb"
    <2> USE DEF histVars
    <2>1. CASE ThreadStep
      BY <2>1 DEF ThreadStep, InitStep, InitFail, Ready, LoopHead, PollEvent, PollWake,
         WakePop, WakeEnd, RunReturn, RunJob, FlushEnd, IdleQuery, IdleDecide, TdDrain,
         TdStream, TdPump, TdFree, TdClose
    <2>2. CASE HostReturn
      BY <2>2 DEF HostReturn, CreateReturn, WaitIdleSend, WaitIdleReturn, DestroySend,
         DestroyFree
    <2>3. CASE \E p \in Posters : PostClaim(p) \/ PostStep(p)
      BY <2>3 DEF PostClaim, PostStep, PostLink, PostSend
    <2>4. CASE Create \/ WaitIdle \/ Destroy \/ PoolFinish \/ Finished
      BY <2>4 DEF Create, WaitIdle, Destroy, PoolFinish, Finished, vars
    <2> QED
      BY <2>1, <2>2, <2>3, <2>4 DEF Next
  <1> QED
    BY <1>1 DEF RtInv, Tasks

(* Each message is a task of its own: no message is dispatched while a job of  *)
(* an earlier one is pending, unless some job threw (qz_wake_cb,               *)
(* qz_flush_microtasks).                                                       *)
THEOREM MessagesAreTasks == Spec => MessageIsATask
  BY RtInvHolds, DispatchIsTask, PTL DEF Spec, MessageIsATask

-----------------------------------------------------------------------------
(***************************************************************************)
(* Proofs about IsolatedHost, for any number of posts, echoes and pings and *)
(* a child that may die at any moment.                                      *)
(*                                                                         *)
(* The inductive invariant follows the three actors apart: IsoLife orders   *)
(* the ends of the loop thread, the handle and the child; IsoTold, IsoPings *)
(* and IsoAsked say what a frame under way, or the lack of one, proves;     *)
(* IsoInOrder, IsoComplete and IsoServed number the messages through the    *)
(* host's queue, the channel and the child's queue, without a gap as long   *)
(* as the child lives, so that the request to end finds all of the earlier  *)
(* ones read.                                                               *)
(***************************************************************************)

DownFrames == [k : {"msg", "idle", "ping"}, n : Nat]
UpFrames == [k : {"msg", "ready", "failed", "ack", "pong"}, n : Nat]

HostRec ==
    [shutting : BOOLEAN, ready : BOOLEAN, ready_err : BOOLEAN, idle_ack : BOOLEAN,
     joined : BOOLEAN, fifo : Seq(DownFrames), proc : {"none", "run", "dead", "free"},
     ping_seq : Nat, pong_seq : Nat]
KidRec ==
    [st : {"none", "boot", "run", "gone"}, q : Seq(Nat), wait_idle : BOOLEAN,
     reaped : BOOLEAN, sent : Nat]
LogRec ==
    [posted : Nat, early : Nat, served : Seq(Nat), answered : SUBSET Nat, crashes : Nat,
     died : BOOLEAN, evaled : BOOLEAN, joins : Nat, wrong : BOOLEAN, stale : BOOLEAN]

IsoTypes ==
    /\ api \in {"start", "wait_ready", "up", "idle", "idled", "ping_post", "ping_wait",
                "stop", "stop_failed", "gone", "failed"}
    /\ lp \in {"none", "run", "drain", "closed"}
    /\ hrt \in HostRec /\ kid \in KidRec /\ log \in LogRec
    /\ down \in Seq(DownFrames) /\ up \in Seq(UpFrames)

(* The loop thread, the process handle and the child end in this order, and    *)
(* the join is counted once.                                                   *)
IsoLife ==
    /\ hrt.joined => lp = "closed" /\ api \in {"idled", "stop", "gone", "failed"}
    /\ log.joins = IF hrt.joined THEN 1 ELSE 0
    /\ lp = "closed" => kid.st = "gone" /\ kid.reaped /\ hrt.proc = "free"
    /\ api = "gone" => lp = "closed"
    /\ api = "failed" => kid.st = "gone" /\ kid.reaped
    /\ api = "start" => lp = "none" /\ kid.st = "none" /\ hrt.proc = "none"
    /\ lp = "none" => api \in {"start", "failed"}
    /\ kid.st = "none" => api = "start"
    /\ kid.st \in {"boot", "run"} => hrt.proc = "run"

(* What the host was told of the initial program and of a crash. *)
IsoTold ==
    /\ hrt.ready /\ ~hrt.ready_err => log.evaled
    /\ \A i \in DOMAIN up : up[i].k = "ready" => log.evaled
    /\ kid.st \in {"none", "boot"} => ~log.evaled /\ ~log.died
    /\ api \in {"up", "idle", "idled", "ping_post", "ping_wait"} => log.evaled
    /\ log.crashes <= 1 /\ (log.crashes = 1 => log.died)
    /\ hrt.proc \in {"none", "run"} => log.crashes = 0
    /\ kid.st = "gone" /\ hrt.proc = "run" =>
          log.died \/ hrt.idle_ack \/ \E i \in DOMAIN up : up[i].k = "ack"

(* An answer that is under way, or has come, was given by the child. *)
IsoPings ==
    /\ \A i \in DOMAIN down : down[i].k = "ping" => down[i].n <= hrt.ping_seq
    /\ \A i \in DOMAIN up : up[i].k = "pong" => up[i].n <= hrt.ping_seq
                                                /\ up[i].n \in log.answered
    /\ hrt.pong_seq <= hrt.ping_seq
    /\ hrt.pong_seq = 0 \/ hrt.pong_seq \in log.answered
    /\ api \in {"ping_post", "ping_wait"} => hrt.ping_seq # 0
    /\ \A i \in DOMAIN hrt.fifo : hrt.fifo[i].k # "ping"
    /\ ~log.wrong

(* Before qz_wait_idle there is no request to end, and no answer to it. *)
Asking == api \in {"start", "wait_ready", "up", "ping_post", "ping_wait"}
IsoAsked ==
    Asking => /\ ~kid.wait_idle /\ ~hrt.idle_ack
              /\ \A i \in DOMAIN down : down[i].k # "idle"
              /\ \A i \in DOMAIN hrt.fifo : hrt.fifo[i].k # "idle"
              /\ \A i \in DOMAIN up : up[i].k # "ack"

Base == Len(log.served) + Len(kid.q)

(* The messages that the child has not read follow what it has read, without a *)
(* gap and in order, and those behind the request to end are later ones.       *)
IsoInOrder ==
    /\ \A i, j \in DOMAIN down :
          i < j /\ down[j].k = "msg" =>
              /\ down[i].k = "msg" => down[i].n < down[j].n
              /\ down[i].k = "idle" => log.early < down[j].n
    /\ \A i, j \in DOMAIN hrt.fifo :
          i < j /\ hrt.fifo[j].k = "msg" =>
              /\ hrt.fifo[i].k = "msg" => hrt.fifo[i].n < hrt.fifo[j].n
              /\ hrt.fifo[i].k = "idle" => log.early < hrt.fifo[j].n
    /\ \A i \in DOMAIN down, j \in DOMAIN hrt.fifo :
          hrt.fifo[j].k = "msg" =>
              /\ down[i].k = "msg" => down[i].n < hrt.fifo[j].n
              /\ down[i].k = "idle" => log.early < hrt.fifo[j].n
    /\ \A i \in DOMAIN down : down[i].k = "msg" => down[i].n <= log.posted
    /\ \A i \in DOMAIN hrt.fifo : hrt.fifo[i].k = "msg" => hrt.fifo[i].n <= log.posted

IsoComplete ==
    kid.st # "gone" =>
        /\ Base <= log.posted
        /\ \A n \in Nat : Base < n /\ n <= log.posted =>
               \/ \E i \in DOMAIN down : down[i] = PostFrame(n)
               \/ \E i \in DOMAIN hrt.fifo : hrt.fifo[i] = PostFrame(n)
        /\ \A i \in DOMAIN down : down[i].k = "msg" => Base < down[i].n
        /\ \A i \in DOMAIN hrt.fifo : hrt.fifo[i].k = "msg" => Base < hrt.fifo[i].n

IsoServed ==
    /\ \A i \in DOMAIN log.served : log.served[i] = i
    /\ \A i \in DOMAIN kid.q : kid.q[i] = Len(log.served) + i
    /\ log.early <= log.posted
    /\ kid.wait_idle => log.early <= Base
    /\ \A i \in DOMAIN up : up[i].k = "ack" => log.early <= Len(log.served)
    /\ hrt.idle_ack => log.early <= Len(log.served)

IsoInv ==
    /\ IsoTypes /\ IsoLife /\ IsoTold /\ IsoPings
    /\ IsoAsked /\ IsoInOrder /\ IsoComplete /\ IsoServed

-----------------------------------------------------------------------------
(* Types of fields, and what a longer sequence of frames holds *)

LEMMA IsoFields ==
    ASSUME IsoTypes
    PROVE  /\ log.posted \in Nat /\ log.posted + 1 \in Nat /\ log.joins \in Nat
           /\ log.joins + 1 \in Nat /\ log.crashes \in Nat /\ log.crashes + 1 \in Nat
           /\ log.early \in Nat /\ kid.sent \in Nat /\ kid.sent + 1 \in Nat
           /\ hrt.ping_seq \in Nat /\ hrt.ping_seq + 1 \in Nat /\ hrt.pong_seq \in Nat
           /\ PostFrame(log.posted + 1) \in DownFrames /\ Ctl("idle") \in DownFrames
           /\ IsoPingFrame(hrt.ping_seq) \in DownFrames
           /\ hrt.fifo \in Seq(DownFrames) /\ kid.q \in Seq(Nat) /\ log.served \in Seq(Nat)
           /\ Append(hrt.fifo, PostFrame(log.posted + 1)) \in Seq(DownFrames)
           /\ Append(hrt.fifo, Ctl("idle")) \in Seq(DownFrames)
           /\ Len(kid.q) \in Nat /\ Len(log.served) \in Nat /\ Base \in Nat
           /\ hrt.fifo # << >> => Tail(hrt.fifo) \in Seq(DownFrames)
                                 /\ Head(hrt.fifo) \in DownFrames
  <1>1. /\ log.posted \in Nat /\ log.joins \in Nat /\ log.crashes \in Nat
        /\ log.early \in Nat /\ kid.sent \in Nat
        /\ hrt.ping_seq \in Nat /\ hrt.pong_seq \in Nat
        /\ hrt.fifo \in Seq(DownFrames) /\ kid.q \in Seq(Nat) /\ log.served \in Seq(Nat)
    <2>1. hrt.ping_seq \in Nat /\ hrt.pong_seq \in Nat /\ hrt.fifo \in Seq(DownFrames)
      BY DEF IsoTypes, HostRec
    <2>2. kid.sent \in Nat /\ kid.q \in Seq(Nat)
      BY DEF IsoTypes, KidRec
    <2>3. /\ log.posted \in Nat /\ log.joins \in Nat /\ log.crashes \in Nat
          /\ log.early \in Nat /\ log.served \in Seq(Nat)
      BY DEF IsoTypes, LogRec
    <2> QED
      BY <2>1, <2>2, <2>3
  <1>2. /\ log.posted + 1 \in Nat /\ log.joins + 1 \in Nat /\ log.crashes + 1 \in Nat
        /\ kid.sent + 1 \in Nat /\ hrt.ping_seq + 1 \in Nat
    BY <1>1, SMTT(30)
  <1>3. /\ PostFrame(log.posted + 1) \in DownFrames /\ Ctl("idle") \in DownFrames
        /\ IsoPingFrame(hrt.ping_seq) \in DownFrames
    BY <1>1, <1>2 DEF PostFrame, Ctl, IsoPingFrame, DownFrames
  <1>4. /\ Append(hrt.fifo, PostFrame(log.posted + 1)) \in Seq(DownFrames)
        /\ Append(hrt.fifo, Ctl("idle")) \in Seq(DownFrames)
    BY <1>1, <1>3
  <1>5. Len(kid.q) \in Nat /\ Len(log.served) \in Nat
    BY <1>1
  <1>6. Base \in Nat
    <2>1. \A m, n \in Nat : m + n \in Nat
      OBVIOUS
    <2> QED
      BY <1>5, <2>1 DEF Base
  <1>7. hrt.fifo # << >> => Tail(hrt.fifo) \in Seq(DownFrames)
                            /\ Head(hrt.fifo) \in DownFrames
    BY <1>1
  <1> QED
    BY <1>1, <1>2, <1>3, <1>4, <1>5, <1>6, <1>7

LEMMA FrameTypes ==
    ASSUME IsoTypes
    PROVE  /\ \A i \in DOMAIN down : down[i] \in DownFrames /\ down[i].n \in Nat
           /\ \A i \in DOMAIN hrt.fifo : hrt.fifo[i] \in DownFrames /\ hrt.fifo[i].n \in Nat
           /\ \A i \in DOMAIN up : up[i] \in UpFrames /\ up[i].n \in Nat
  <1>1. /\ \A i \in DOMAIN down : down[i] \in DownFrames
        /\ \A i \in DOMAIN hrt.fifo : hrt.fifo[i] \in DownFrames
        /\ \A i \in DOMAIN up : up[i] \in UpFrames
    BY DEF IsoTypes, HostRec
  <1> QED
    BY <1>1 DEF DownFrames, UpFrames

LEMMA AppendAt ==
    ASSUME NEW S, NEW s \in Seq(S), NEW e \in S
    PROVE  /\ Append(s, e) \in Seq(S)
           /\ \A i \in DOMAIN s : i \in DOMAIN Append(s, e) /\ Append(s, e)[i] = s[i]
                                   /\ i < Len(s) + 1
           /\ Len(s) + 1 \in DOMAIN Append(s, e) /\ Append(s, e)[Len(s) + 1] = e
           /\ \A i \in DOMAIN Append(s, e) :
                 /\ i \in Nat
                 /\ \/ i \in DOMAIN s /\ Append(s, e)[i] = s[i] /\ i < Len(s) + 1
                    \/ i = Len(s) + 1 /\ Append(s, e)[i] = e
           /\ Len(Append(s, e)) = Len(s) + 1 /\ Len(s) \in Nat
  OBVIOUS

LEMMA TailAt ==
    ASSUME NEW S, NEW s \in Seq(S), s # << >>
    PROVE  /\ Tail(s) \in Seq(S) /\ Head(s) \in S /\ 1 \in DOMAIN s /\ s[1] = Head(s)
           /\ \A i \in DOMAIN Tail(s) : /\ i + 1 \in DOMAIN s /\ Tail(s)[i] = s[i + 1]
                                         /\ i \in Nat /\ 1 < i + 1
           /\ \A i \in DOMAIN s : i = 1 \/ (i - 1 \in DOMAIN Tail(s) /\ Tail(s)[i - 1] = s[i])
           /\ Len(Tail(s)) = Len(s) - 1 /\ Len(s) \in Nat
  OBVIOUS

(* A frame goes up. *)
LEMMA UpAppend ==
    ASSUME IsoTypes, NEW f \in UpFrames, up' = Append(up, f)
    PROVE  /\ up' \in Seq(UpFrames)
           /\ \A i \in DOMAIN up' : (i \in DOMAIN up /\ up'[i] = up[i]) \/ up'[i] = f
           /\ \A i \in DOMAIN up : i \in DOMAIN up' /\ up'[i] = up[i]
           /\ \E i \in DOMAIN up' : up'[i] = f
  <1>1. PICK s \in Seq(UpFrames) : s = up
    BY DEF IsoTypes
  <1> QED
    BY <1>1, AppendAt

LEMMA OrderSame ==
    ASSUME IsoInOrder, UNCHANGED <<down, hrt.fifo, log.early, log.posted>>
    PROVE  IsoInOrder'
  BY DEF IsoInOrder

LEMMA CompleteSame ==
    ASSUME IsoComplete, UNCHANGED <<down, hrt.fifo, log.posted, log.served, kid.q>>,
           kid'.st # "gone" => kid.st # "gone"
    PROVE  IsoComplete'
  BY DEF IsoComplete, Base

LEMMA ServedSame ==
    ASSUME IsoServed, UNCHANGED <<up, log.served, log.early, log.posted, kid.q>>,
           kid'.wait_idle => kid.wait_idle, hrt'.idle_ack => hrt.idle_ack
    PROVE  IsoServed'
  <1>1. Base' = Base
    BY DEF Base
  <1>2. kid'.wait_idle => log'.early <= Base'
    BY <1>1 DEF IsoServed
  <1>3. /\ \A i \in DOMAIN up' : up'[i].k = "ack" => log'.early <= Len(log'.served)
        /\ hrt'.idle_ack => log'.early <= Len(log'.served)
    BY DEF IsoServed
  <1>4. /\ \A i \in DOMAIN log'.served : log'.served[i] = i
        /\ \A i \in DOMAIN kid'.q : kid'.q[i] = Len(log'.served) + i
        /\ log'.early <= log'.posted
    BY DEF IsoServed
  <1> QED
    BY <1>2, <1>3, <1>4 DEF IsoServed

(* A message is posted behind all others. *)
LEMMA OrderPush ==
    ASSUME IsoTypes, IsoInOrder, log.early <= log.posted,
           UNCHANGED <<down, log.early>>, log'.posted = log.posted + 1,
           hrt'.fifo = Append(hrt.fifo, PostFrame(log.posted + 1))
    PROVE  IsoInOrder'
  <1>1. /\ hrt.fifo \in Seq(DownFrames) /\ log.posted \in Nat /\ log.early \in Nat
        /\ PostFrame(log.posted + 1) \in DownFrames /\ down \in Seq(DownFrames)
    BY DEF IsoTypes, HostRec, LogRec, PostFrame, DownFrames
  <1>2. \A i \in DOMAIN hrt'.fifo :
           \/ i \in DOMAIN hrt.fifo /\ hrt'.fifo[i] = hrt.fifo[i]
           \/ i = Len(hrt.fifo) + 1 /\ hrt'.fifo[i] = PostFrame(log.posted + 1)
    BY <1>1
  <1>3. \A i \in DOMAIN hrt.fifo : hrt.fifo[i].n \in Nat /\ i < Len(hrt.fifo) + 1
    BY <1>1, FrameTypes
  <1>4. \A i \in DOMAIN down : down[i].n \in Nat
    BY FrameTypes
  <1>5. PostFrame(log.posted + 1).k = "msg" /\ PostFrame(log.posted + 1).n = log.posted + 1
    BY DEF PostFrame
  <1>6. \A i \in DOMAIN hrt'.fifo : hrt'.fifo[i].k = "msg" => hrt'.fifo[i].n <= log'.posted
    BY <1>1, <1>2, <1>3, <1>5 DEF IsoInOrder
  <1>7. \A i \in DOMAIN down : down[i].k = "msg" => down[i].n <= log'.posted
    BY <1>1, <1>4 DEF IsoInOrder
  <1>8. ASSUME NEW i \in DOMAIN hrt'.fifo, NEW j \in DOMAIN hrt'.fifo, i < j,
               hrt'.fifo[j].k = "msg"
        PROVE  /\ hrt'.fifo[i].k = "msg" => hrt'.fifo[i].n < hrt'.fifo[j].n
               /\ hrt'.fifo[i].k = "idle" => log.early < hrt'.fifo[j].n
    <2>1. i \in DOMAIN hrt.fifo /\ hrt'.fifo[i] = hrt.fifo[i]
      BY <1>1, <1>2, <1>8
    <2>2. CASE j \in DOMAIN hrt.fifo /\ hrt'.fifo[j] = hrt.fifo[j]
      BY <1>8, <2>1, <2>2 DEF IsoInOrder
    <2>3. CASE hrt'.fifo[j] = PostFrame(log.posted + 1)
      <3>1. hrt'.fifo[j].n = log.posted + 1 /\ log.early <= log.posted /\ log.posted \in Nat
        BY <1>1, <1>5, <2>3
      <3>2. hrt.fifo[i] \in DownFrames
        BY <1>1, <2>1
      <3>3. hrt.fifo[i].k = "msg" => hrt.fifo[i].n <= log.posted /\ hrt.fifo[i].n \in Nat
        BY <2>1, <3>2, FrameTypes DEF IsoInOrder
      <3>4. log.early \in Nat
        BY IsoFields
      <3> QED
        BY <2>1, <3>1, <3>3, <3>4, SMTT(30)
    <2> QED
      BY <1>2, <2>2, <2>3
  <1>9. ASSUME NEW i \in DOMAIN down, NEW j \in DOMAIN hrt'.fifo, hrt'.fifo[j].k = "msg"
        PROVE  /\ down[i].k = "msg" => down[i].n < hrt'.fifo[j].n
               /\ down[i].k = "idle" => log.early < hrt'.fifo[j].n
    <2>2. CASE j \in DOMAIN hrt.fifo /\ hrt'.fifo[j] = hrt.fifo[j]
      BY <1>9, <2>2 DEF IsoInOrder
    <2>3. CASE hrt'.fifo[j] = PostFrame(log.posted + 1)
      BY <1>1, <1>4, <1>5, <2>3 DEF IsoInOrder
    <2> QED
      BY <1>2, <2>2, <2>3
  <1> QED
    BY <1>6, <1>7, <1>8, <1>9 DEF IsoInOrder

LEMMA CompletePush ==
    ASSUME IsoTypes, IsoComplete, IsoServed, UNCHANGED <<down, log.served, kid>>,
           log'.posted = log.posted + 1,
           hrt'.fifo = Append(hrt.fifo, PostFrame(log.posted + 1))
    PROVE  IsoComplete'
  <1> SUFFICES ASSUME kid.st # "gone" PROVE IsoComplete'
    BY DEF IsoComplete
  <1>1. /\ hrt.fifo \in Seq(DownFrames) /\ log.posted \in Nat
        /\ PostFrame(log.posted + 1) \in DownFrames /\ Base \in Nat /\ Base' = Base
        /\ Base <= log.posted /\ Base <= log'.posted
    <2>1. Base' = Base
      BY DEF Base
    <2>2. /\ hrt.fifo \in Seq(DownFrames) /\ log.posted \in Nat
          /\ PostFrame(log.posted + 1) \in DownFrames /\ Base \in Nat
      BY IsoFields
    <2>3. Base <= log.posted
      BY DEF IsoComplete
    <2> QED
      BY <2>1, <2>2, <2>3
  <1>2. /\ \A i \in DOMAIN hrt'.fifo :
              \/ i \in DOMAIN hrt.fifo /\ hrt'.fifo[i] = hrt.fifo[i]
              \/ hrt'.fifo[i] = PostFrame(log.posted + 1)
        /\ \A i \in DOMAIN hrt.fifo : i \in DOMAIN hrt'.fifo /\ hrt'.fifo[i] = hrt.fifo[i]
        /\ \E i \in DOMAIN hrt'.fifo : hrt'.fifo[i] = PostFrame(log.posted + 1)
    <2>1. /\ Len(hrt.fifo) + 1 \in DOMAIN hrt'.fifo
          /\ hrt'.fifo[Len(hrt.fifo) + 1] = PostFrame(log.posted + 1)
      BY <1>1
    <2> QED
      BY <1>1, <2>1
  <1>3. \A n \in Nat : Base < n /\ n <= log'.posted =>
            (Base < n /\ n <= log.posted) \/ n = log.posted + 1
    BY <1>1
  <1>4. ASSUME NEW n \in Nat, Base < n, n <= log'.posted
        PROVE  \/ \E i \in DOMAIN down : down[i] = PostFrame(n)
               \/ \E i \in DOMAIN hrt'.fifo : hrt'.fifo[i] = PostFrame(n)
    <2>1. CASE n <= log.posted
      BY <1>2, <1>4, <2>1 DEF IsoComplete
    <2>2. CASE n = log.posted + 1
      BY <1>2, <2>2
    <2> QED
      BY <1>3, <1>4, <2>1, <2>2
  <1>5. \A i \in DOMAIN hrt'.fifo : hrt'.fifo[i].k = "msg" => Base < hrt'.fifo[i].n
    <2>1. Base < PostFrame(log.posted + 1).n
      BY <1>1 DEF PostFrame
    <2> QED
      BY <1>2, <2>1 DEF IsoComplete
  <1> QED
    BY <1>1, <1>4, <1>5 DEF IsoComplete

(* A message in the queue of the host is neither a ping nor a request. *)
LEMMA PushedKinds ==
    ASSUME IsoTypes, hrt'.fifo = Append(hrt.fifo, PostFrame(log.posted + 1))
    PROVE  \A i \in DOMAIN hrt'.fifo :
               \/ i \in DOMAIN hrt.fifo /\ hrt'.fifo[i] = hrt.fifo[i]
               \/ hrt'.fifo[i].k = "msg"
  <1>1. PICK s \in Seq(DownFrames), e \in DownFrames : s = hrt.fifo /\ e = PostFrame(log.posted + 1)
    BY IsoFields
  <1>2. e.k = "msg"
    BY <1>1 DEF PostFrame
  <1>3. hrt'.fifo = Append(s, e)
    BY <1>1
  <1> QED
    BY <1>1, <1>2, <1>3, AppendAt

-----------------------------------------------------------------------------
(* The steps of the host thread *)

LEMMA HostStartKeeps ==
    ASSUME IsoInv, HostStart PROVE IsoInv'
  <1> USE DEF IsoInv
  <1>0. /\ hrt' \in HostRec
        /\ hrt'.proc = "run"
        /\ hrt'.shutting = hrt.shutting /\ hrt'.ready = hrt.ready
        /\ hrt'.ready_err = hrt.ready_err /\ hrt'.idle_ack = hrt.idle_ack
        /\ hrt'.joined = hrt.joined /\ hrt'.fifo = hrt.fifo
        /\ hrt'.ping_seq = hrt.ping_seq /\ hrt'.pong_seq = hrt.pong_seq
        /\ kid' \in KidRec
        /\ kid'.st = "boot"
        /\ kid'.q = kid.q /\ kid'.wait_idle = kid.wait_idle /\ kid'.reaped = kid.reaped
        /\ kid'.sent = kid.sent
        /\ log' = log
    BY IsoFields, IsoAssumption DEF IsoTypes, HostRec, KidRec, LogRec, HostStart,
       DownFrames, PostFrame, Ctl
  <1>1. IsoTypes'
    BY <1>0 DEF IsoTypes, DownFrames, UpFrames, PostFrame, Ctl, HostStart
  <1>2. IsoLife'
    BY <1>0 DEF IsoTypes, HostRec, KidRec, LogRec, IsoLife, HostStart
  <1>3. IsoTold'
    BY <1>0 DEF IsoTypes, HostRec, KidRec, LogRec, IsoLife, IsoTold, HostStart
  <1>4. IsoPings'
    BY <1>0 DEF IsoTypes, HostRec, KidRec, LogRec, IsoPings, HostStart
  <1>5. IsoAsked'
    BY <1>0 DEF IsoTypes, HostRec, KidRec, LogRec, Asking, IsoAsked, HostStart
  <1>6. IsoInOrder'
    BY <1>0, OrderSame DEF HostStart
  <1>7. IsoComplete'
    BY <1>0, CompleteSame DEF IsoLife, HostStart
  <1>8. IsoServed'
    BY <1>0, ServedSame DEF HostStart
  <1> QED
    BY <1>1, <1>2, <1>3, <1>4, <1>5, <1>6, <1>7, <1>8

LEMMA HostStartFailsKeeps ==
    ASSUME IsoInv, HostStartFails PROVE IsoInv'
  <1> USE DEF IsoInv
  <1>0. /\ hrt' \in HostRec
        /\ hrt'.proc = "free"
        /\ hrt'.shutting = hrt.shutting /\ hrt'.ready = hrt.ready
        /\ hrt'.ready_err = hrt.ready_err /\ hrt'.idle_ack = hrt.idle_ack
        /\ hrt'.joined = hrt.joined /\ hrt'.fifo = hrt.fifo
        /\ hrt'.ping_seq = hrt.ping_seq /\ hrt'.pong_seq = hrt.pong_seq
        /\ kid' \in KidRec
        /\ kid'.st = "gone"
        /\ kid'.reaped = TRUE
        /\ kid'.q = kid.q /\ kid'.wait_idle = kid.wait_idle /\ kid'.sent = kid.sent
        /\ log' = log
    BY IsoFields, IsoAssumption DEF IsoTypes, HostRec, KidRec, LogRec, HostStartFails,
       DownFrames, PostFrame, Ctl
  <1>1. IsoTypes'
    BY <1>0 DEF IsoTypes, DownFrames, UpFrames, PostFrame, Ctl, HostStartFails
  <1>2. IsoLife'
    BY <1>0 DEF IsoTypes, HostRec, KidRec, LogRec, IsoLife, HostStartFails
  <1>3. IsoTold'
    BY <1>0 DEF IsoTypes, HostRec, KidRec, LogRec, IsoLife, IsoTold, HostStartFails
  <1>4. IsoPings'
    BY <1>0 DEF IsoTypes, HostRec, KidRec, LogRec, IsoPings, HostStartFails
  <1>5. IsoAsked'
    BY <1>0 DEF IsoTypes, HostRec, KidRec, LogRec, Asking, IsoAsked, HostStartFails
  <1>6. IsoInOrder'
    BY <1>0, OrderSame DEF HostStartFails
  <1>7. IsoComplete'
    BY <1>0, CompleteSame DEF IsoLife, HostStartFails
  <1>8. IsoServed'
    BY <1>0, ServedSame DEF HostStartFails
  <1> QED
    BY <1>1, <1>2, <1>3, <1>4, <1>5, <1>6, <1>7, <1>8

LEMMA HostReadyKeeps ==
    ASSUME IsoInv, HostReady PROVE IsoInv'
  <1> USE DEF IsoInv
  <1>0. /\ hrt' \in HostRec
        /\ hrt'.shutting = (hrt.shutting \/ hrt.ready_err)
        /\ hrt'.ready = hrt.ready /\ hrt'.ready_err = hrt.ready_err
        /\ hrt'.idle_ack = hrt.idle_ack /\ hrt'.joined = hrt.joined
        /\ hrt'.fifo = hrt.fifo /\ hrt'.proc = hrt.proc /\ hrt'.ping_seq = hrt.ping_seq
        /\ hrt'.pong_seq = hrt.pong_seq
        /\ kid' = kid
        /\ log' = log
    BY IsoFields, IsoAssumption DEF IsoTypes, HostRec, KidRec, LogRec, HostReady,
       DownFrames, PostFrame, Ctl
  <1>1. IsoTypes'
    BY <1>0 DEF IsoTypes, DownFrames, UpFrames, PostFrame, Ctl, HostReady
  <1>2. IsoLife'
    BY <1>0 DEF IsoTypes, HostRec, KidRec, LogRec, IsoLife, HostReady
  <1>3. IsoTold'
    BY <1>0 DEF IsoTypes, HostRec, KidRec, LogRec, IsoLife, IsoTold, HostReady
  <1>4. IsoPings'
    BY <1>0 DEF IsoTypes, HostRec, KidRec, LogRec, IsoPings, HostReady
  <1>5. IsoAsked'
    BY <1>0 DEF IsoTypes, HostRec, KidRec, LogRec, Asking, IsoAsked, HostReady
  <1>6. IsoInOrder'
    BY <1>0, OrderSame DEF HostReady
  <1>7. IsoComplete'
    BY <1>0, CompleteSame DEF IsoLife, HostReady
  <1>8. IsoServed'
    BY <1>0, ServedSame DEF HostReady
  <1> QED
    BY <1>1, <1>2, <1>3, <1>4, <1>5, <1>6, <1>7, <1>8

LEMMA HostJoinKeeps ==
    ASSUME IsoInv, HostJoin PROVE IsoInv'
  <1> USE DEF IsoInv
  <1>0. /\ hrt' \in HostRec
        /\ hrt'.joined = TRUE
        /\ hrt'.shutting = hrt.shutting /\ hrt'.ready = hrt.ready
        /\ hrt'.ready_err = hrt.ready_err /\ hrt'.idle_ack = hrt.idle_ack
        /\ hrt'.fifo = hrt.fifo /\ hrt'.proc = hrt.proc /\ hrt'.ping_seq = hrt.ping_seq
        /\ hrt'.pong_seq = hrt.pong_seq
        /\ kid' = kid
        /\ log' \in LogRec
        /\ log'.joins = (IF hrt.joined THEN log.joins ELSE log.joins + 1)
        /\ log'.posted = log.posted /\ log'.early = log.early /\ log'.served = log.served
        /\ log'.answered = log.answered /\ log'.crashes = log.crashes
        /\ log'.died = log.died /\ log'.evaled = log.evaled /\ log'.wrong = log.wrong
        /\ log'.stale = log.stale
    BY IsoFields, IsoAssumption DEF IsoTypes, HostRec, KidRec, LogRec, HostJoin,
       DownFrames, PostFrame, Ctl
  <1>1. IsoTypes'
    BY <1>0 DEF IsoTypes, DownFrames, UpFrames, PostFrame, Ctl, HostJoin
  <1>2. IsoLife'
    <2>1. /\ api \in {"stop", "stop_failed"} /\ (hrt.joined \/ lp = "closed")
          /\ api' = (IF api = "stop" THEN "gone" ELSE "failed") /\ lp' = lp
      BY DEF HostJoin
    <2>2. hrt.joined \in BOOLEAN /\ log.joins = (IF hrt.joined THEN 1 ELSE 0)
      BY DEF IsoTypes, HostRec, IsoLife
    <2>3. lp = "closed"
      BY <2>1 DEF IsoLife
    <2>4. log'.joins = 1
      BY <1>0, <2>2
    <2> QED
      BY <1>0, <2>1, <2>3, <2>4 DEF IsoLife
  <1>3. IsoTold'
    BY <1>0 DEF IsoTypes, HostRec, KidRec, LogRec, IsoLife, IsoTold, HostJoin
  <1>4. IsoPings'
    BY <1>0 DEF IsoTypes, HostRec, KidRec, LogRec, IsoPings, HostJoin
  <1>5. IsoAsked'
    BY <1>0 DEF IsoTypes, HostRec, KidRec, LogRec, Asking, IsoAsked, HostJoin
  <1>6. IsoInOrder'
    BY <1>0, OrderSame DEF HostJoin
  <1>7. IsoComplete'
    BY <1>0, CompleteSame DEF IsoLife, HostJoin
  <1>8. IsoServed'
    BY <1>0, ServedSame DEF HostJoin
  <1> QED
    BY <1>1, <1>2, <1>3, <1>4, <1>5, <1>6, <1>7, <1>8

LEMMA HostPostKeeps ==
    ASSUME IsoInv, HostPost PROVE IsoInv'
  <1> USE DEF IsoInv
  <1>0. /\ hrt' \in HostRec
        /\ hrt'.fifo = Append(hrt.fifo, PostFrame(log.posted + 1))
        /\ hrt'.shutting = hrt.shutting /\ hrt'.ready = hrt.ready
        /\ hrt'.ready_err = hrt.ready_err /\ hrt'.idle_ack = hrt.idle_ack
        /\ hrt'.joined = hrt.joined /\ hrt'.proc = hrt.proc
        /\ hrt'.ping_seq = hrt.ping_seq /\ hrt'.pong_seq = hrt.pong_seq
        /\ kid' = kid
        /\ log' \in LogRec
        /\ log'.posted = log.posted + 1
        /\ log'.early = log.early /\ log'.served = log.served
        /\ log'.answered = log.answered /\ log'.crashes = log.crashes
        /\ log'.died = log.died /\ log'.evaled = log.evaled /\ log'.joins = log.joins
        /\ log'.wrong = log.wrong /\ log'.stale = log.stale
    BY IsoFields, IsoAssumption DEF IsoTypes, HostRec, KidRec, LogRec, HostPost,
       Pushed, DownFrames, PostFrame, Ctl
  <1>1. IsoTypes'
    BY <1>0 DEF IsoTypes, DownFrames, UpFrames, PostFrame, Ctl, HostPost, Pushed
  <1>2. IsoLife'
    BY <1>0 DEF IsoTypes, HostRec, KidRec, LogRec, IsoLife, HostPost, Pushed
  <1>3. IsoTold'
    BY <1>0 DEF IsoTypes, HostRec, KidRec, LogRec, IsoLife, IsoTold, HostPost, Pushed
  <1>4. IsoPings'
    <2>1. \A i \in DOMAIN hrt'.fifo : hrt'.fifo[i].k # "ping"
      BY <1>0, PushedKinds DEF IsoPings
    <2> QED
      BY <1>0, <2>1 DEF IsoPings, HostPost
  <1>5. IsoAsked'
    <2>1. ASSUME Asking PROVE \A i \in DOMAIN hrt'.fifo : hrt'.fifo[i].k # "idle"
      BY <1>0, <2>1, PushedKinds DEF IsoAsked
    <2> QED
      BY <1>0, <2>1 DEF Asking, IsoAsked, HostPost
  <1>6. IsoInOrder'
    BY <1>0, OrderPush DEF IsoServed, HostPost
  <1>7. IsoComplete'
    BY <1>0, CompletePush DEF HostPost
  <1>8. IsoServed'
    <2>1. log.early <= log.posted + 1
      <3>1. log.early <= log.posted
        BY DEF IsoServed
      <3>2. log.early \in Nat /\ log.posted \in Nat
        BY IsoFields
      <3> QED
        BY <3>1, <3>2
    <2> QED
      BY <1>0, <2>1 DEF IsoServed, Base, HostPost
  <1> QED
    BY <1>1, <1>2, <1>3, <1>4, <1>5, <1>6, <1>7, <1>8

LEMMA HostWaitIdleKeeps ==
    ASSUME IsoInv, HostWaitIdle PROVE IsoInv'
  <1> USE DEF IsoInv
  <1>0. /\ hrt' \in HostRec
        /\ hrt'.fifo = Append(hrt.fifo, Ctl("idle"))
        /\ hrt'.shutting = hrt.shutting /\ hrt'.ready = hrt.ready
        /\ hrt'.ready_err = hrt.ready_err /\ hrt'.idle_ack = hrt.idle_ack
        /\ hrt'.joined = hrt.joined /\ hrt'.proc = hrt.proc
        /\ hrt'.ping_seq = hrt.ping_seq /\ hrt'.pong_seq = hrt.pong_seq
        /\ kid' = kid
        /\ log' \in LogRec
        /\ log'.early = log.posted
        /\ log'.posted = log.posted /\ log'.served = log.served
        /\ log'.answered = log.answered /\ log'.crashes = log.crashes
        /\ log'.died = log.died /\ log'.evaled = log.evaled /\ log'.joins = log.joins
        /\ log'.wrong = log.wrong /\ log'.stale = log.stale
    BY IsoFields, IsoAssumption DEF IsoTypes, HostRec, KidRec, LogRec, HostWaitIdle,
       Pushed, DownFrames, PostFrame, Ctl
  <1>p. /\ \A i \in DOMAIN hrt'.fifo :
              \/ i \in DOMAIN hrt.fifo /\ hrt'.fifo[i] = hrt.fifo[i] /\ i < Len(hrt.fifo) + 1
              \/ i = Len(hrt.fifo) + 1 /\ hrt'.fifo[i] = Ctl("idle")
        /\ \A i \in DOMAIN hrt.fifo : i \in DOMAIN hrt'.fifo /\ hrt'.fifo[i] = hrt.fifo[i]
        /\ Len(hrt.fifo) \in Nat /\ \A i \in DOMAIN hrt'.fifo : i \in Nat
    <2>1. PICK s \in Seq(DownFrames), e \in DownFrames : s = hrt.fifo /\ e = Ctl("idle")
      BY IsoFields
    <2>2. hrt'.fifo = Append(s, e) /\ s = hrt.fifo
      BY <1>0, <2>1
    <2>3. /\ Append(s, e) \in Seq(DownFrames) /\ Len(s) \in Nat
          /\ \A i \in DOMAIN Append(s, e) :
                /\ i \in Nat
                /\ \/ i \in DOMAIN s /\ Append(s, e)[i] = s[i] /\ i < Len(s) + 1
                   \/ i = Len(s) + 1 /\ Append(s, e)[i] = e
          /\ \A i \in DOMAIN s : i \in DOMAIN Append(s, e) /\ Append(s, e)[i] = s[i]
      BY <2>1, AppendAt
    <2> QED
      BY <2>1, <2>2, <2>3
  <1>q. Ctl("idle").k = "idle"
    BY DEF Ctl
  <1>1. IsoTypes'
    BY <1>0 DEF IsoTypes, DownFrames, UpFrames, PostFrame, Ctl, HostWaitIdle, Pushed
  <1>2. IsoLife'
    BY <1>0 DEF IsoTypes, HostRec, KidRec, LogRec, IsoLife, HostWaitIdle, Pushed
  <1>3. IsoTold'
    BY <1>0 DEF IsoTypes, HostRec, KidRec, LogRec, IsoLife, IsoTold, HostWaitIdle,
       Pushed
  <1>4. IsoPings'
    <2>1. \A i \in DOMAIN hrt'.fifo : hrt'.fifo[i].k # "ping"
      BY <1>p, <1>q DEF IsoPings
    <2> QED
      BY <1>0, <2>1 DEF IsoPings, HostWaitIdle
  <1>5. IsoAsked'
    BY <1>0 DEF IsoTypes, HostRec, KidRec, LogRec, Asking, IsoAsked, HostWaitIdle,
       Pushed
  <1>6. IsoInOrder'
    <2>1. /\ \A i \in DOMAIN down : down[i].k # "idle"
          /\ \A i \in DOMAIN hrt.fifo : hrt.fifo[i].k # "idle"
      BY DEF HostWaitIdle, Asking, IsoAsked
    <2>2. \A i, j \in DOMAIN hrt'.fifo : i < j /\ hrt'.fifo[j].k = "msg" =>
              /\ i \in DOMAIN hrt.fifo /\ j \in DOMAIN hrt.fifo
              /\ hrt'.fifo[i] = hrt.fifo[i] /\ hrt'.fifo[j] = hrt.fifo[j]
      BY <1>p, <1>q
    <2>3. \A i \in DOMAIN hrt'.fifo : hrt'.fifo[i].k = "msg" =>
              i \in DOMAIN hrt.fifo /\ hrt'.fifo[i] = hrt.fifo[i]
      BY <1>p, <1>q
    <2>4. down' = down /\ log'.posted = log.posted
      BY <1>0 DEF HostWaitIdle
    <2> QED
      BY <2>1, <2>2, <2>3, <2>4 DEF IsoInOrder
  <1>7. IsoComplete'
    <2>1. down' = down /\ kid' = kid /\ log'.posted = log.posted /\ Base' = Base
      BY <1>0 DEF HostWaitIdle, Base
    <2>2. /\ \A i \in DOMAIN hrt'.fifo : hrt'.fifo[i].k = "msg" =>
                 i \in DOMAIN hrt.fifo /\ hrt'.fifo[i] = hrt.fifo[i]
          /\ \A i \in DOMAIN hrt.fifo : i \in DOMAIN hrt'.fifo /\ hrt'.fifo[i] = hrt.fifo[i]
      BY <1>p, <1>q
    <2> QED
      BY <2>1, <2>2 DEF IsoComplete
  <1>8. IsoServed'
    <2>1. ~kid.wait_idle /\ ~hrt.idle_ack /\ \A i \in DOMAIN up : up[i].k # "ack"
      BY DEF HostWaitIdle, Asking, IsoAsked
    <2>2. log'.early <= log'.posted
      BY <1>0, IsoFields
    <2> QED
      BY <1>0, <2>1, <2>2 DEF IsoServed, Base, HostWaitIdle
  <1> QED
    BY <1>1, <1>2, <1>3, <1>4, <1>5, <1>6, <1>7, <1>8

LEMMA HostIdleJoinKeeps ==
    ASSUME IsoInv, HostIdleJoin PROVE IsoInv'
  <1> USE DEF IsoInv
  <1>0. /\ hrt' \in HostRec
        /\ hrt'.joined = TRUE
        /\ hrt'.shutting = hrt.shutting /\ hrt'.ready = hrt.ready
        /\ hrt'.ready_err = hrt.ready_err /\ hrt'.idle_ack = hrt.idle_ack
        /\ hrt'.fifo = hrt.fifo /\ hrt'.proc = hrt.proc /\ hrt'.ping_seq = hrt.ping_seq
        /\ hrt'.pong_seq = hrt.pong_seq
        /\ kid' = kid
        /\ log' \in LogRec
        /\ log'.joins = log.joins + 1
        /\ log'.posted = log.posted /\ log'.early = log.early /\ log'.served = log.served
        /\ log'.answered = log.answered /\ log'.crashes = log.crashes
        /\ log'.died = log.died /\ log'.evaled = log.evaled /\ log'.wrong = log.wrong
        /\ log'.stale = log.stale
    BY IsoFields, IsoAssumption DEF IsoTypes, HostRec, KidRec, LogRec, HostIdleJoin,
       DownFrames, PostFrame, Ctl
  <1>1. IsoTypes'
    BY <1>0 DEF IsoTypes, DownFrames, UpFrames, PostFrame, Ctl, HostIdleJoin
  <1>2. IsoLife'
    BY <1>0 DEF IsoTypes, HostRec, KidRec, LogRec, IsoLife, HostIdleJoin
  <1>3. IsoTold'
    BY <1>0 DEF IsoTypes, HostRec, KidRec, LogRec, IsoLife, IsoTold, HostIdleJoin
  <1>4. IsoPings'
    BY <1>0 DEF IsoTypes, HostRec, KidRec, LogRec, IsoPings, HostIdleJoin
  <1>5. IsoAsked'
    BY <1>0 DEF IsoTypes, HostRec, KidRec, LogRec, Asking, IsoAsked, HostIdleJoin
  <1>6. IsoInOrder'
    BY <1>0, OrderSame DEF HostIdleJoin
  <1>7. IsoComplete'
    BY <1>0, CompleteSame DEF IsoLife, HostIdleJoin
  <1>8. IsoServed'
    BY <1>0, ServedSame DEF HostIdleJoin
  <1> QED
    BY <1>1, <1>2, <1>3, <1>4, <1>5, <1>6, <1>7, <1>8

LEMMA HostPingKeeps ==
    ASSUME IsoInv, HostPing PROVE IsoInv'
  <1> USE DEF IsoInv
  <1>0. /\ hrt' \in HostRec
        /\ hrt'.ping_seq = hrt.ping_seq + 1
        /\ hrt'.shutting = hrt.shutting /\ hrt'.ready = hrt.ready
        /\ hrt'.ready_err = hrt.ready_err /\ hrt'.idle_ack = hrt.idle_ack
        /\ hrt'.joined = hrt.joined /\ hrt'.fifo = hrt.fifo /\ hrt'.proc = hrt.proc
        /\ hrt'.pong_seq = hrt.pong_seq
        /\ kid' = kid
        /\ log' = log
    BY IsoFields, IsoAssumption DEF IsoTypes, HostRec, KidRec, LogRec, HostPing,
       DownFrames, PostFrame, Ctl
  <1>1. IsoTypes'
    BY <1>0 DEF IsoTypes, DownFrames, UpFrames, PostFrame, Ctl, HostPing
  <1>2. IsoLife'
    BY <1>0 DEF IsoTypes, HostRec, KidRec, LogRec, IsoLife, HostPing
  <1>3. IsoTold'
    BY <1>0 DEF IsoTypes, HostRec, KidRec, LogRec, IsoLife, IsoTold, HostPing
  <1>4. IsoPings'
    <2>1. \A n \in Nat : n <= hrt.ping_seq => n <= hrt.ping_seq + 1
      BY IsoFields
    <2>2. hrt.ping_seq + 1 # 0
      BY IsoFields
    <2>3. /\ \A i \in DOMAIN down : down[i].k = "ping" => down[i].n <= hrt'.ping_seq
          /\ \A i \in DOMAIN up : up[i].k = "pong" => up[i].n <= hrt'.ping_seq
          /\ hrt.pong_seq <= hrt'.ping_seq
      BY <1>0, <2>1, FrameTypes, IsoFields DEF IsoPings
    <2> QED
      BY <1>0, <2>2, <2>3 DEF IsoPings, HostPing
  <1>5. IsoAsked'
    BY <1>0 DEF IsoTypes, HostRec, KidRec, LogRec, Asking, IsoAsked, HostPing
  <1>6. IsoInOrder'
    BY <1>0, OrderSame DEF HostPing
  <1>7. IsoComplete'
    BY <1>0, CompleteSame DEF IsoLife, HostPing
  <1>8. IsoServed'
    BY <1>0, ServedSame DEF HostPing
  <1> QED
    BY <1>1, <1>2, <1>3, <1>4, <1>5, <1>6, <1>7, <1>8

LEMMA HostPingPostKeeps ==
    ASSUME IsoInv, HostPingPost PROVE IsoInv'
  <1> USE DEF IsoInv
  <1>0. /\ hrt' = hrt
        /\ kid' = kid
        /\ log' \in LogRec
        /\ log'.stale = (log.stale \/ hrt.proc = "free")
        /\ log'.posted = log.posted /\ log'.early = log.early /\ log'.served = log.served
        /\ log'.answered = log.answered /\ log'.crashes = log.crashes
        /\ log'.died = log.died /\ log'.evaled = log.evaled /\ log'.joins = log.joins
        /\ log'.wrong = log.wrong
    BY IsoFields, IsoAssumption DEF IsoTypes, HostRec, KidRec, LogRec, HostPingPost,
       DownFrames, PostFrame, Ctl
  <1>a. CASE hrt.proc # "run"
    <2> USE <1>a
    <2>1. UNCHANGED <<lp, hrt, kid, up, down>> /\ api' = "up" /\ api = "ping_post"
      BY DEF HostPingPost
    <2>2. IsoTypes' /\ IsoLife' /\ IsoTold' /\ IsoPings' /\ IsoAsked'
      BY <1>0, <2>1 DEF IsoTypes, IsoLife, IsoTold, IsoPings, IsoAsked, Asking
    <2>3. IsoInOrder' /\ IsoComplete' /\ IsoServed'
      BY <1>0, <2>1, OrderSame, CompleteSame, ServedSame
    <2> QED
      BY <2>2, <2>3
  <1> SUFFICES ASSUME hrt.proc = "run" PROVE IsoInv'
    BY <1>a
  <1>b. UNCHANGED <<lp, hrt, kid, up>> /\ api' = "ping_wait" /\ api = "ping_post"
    BY DEF HostPingPost
  <1>c. down' = Append(down, IsoPingFrame(hrt.ping_seq))
    BY DEF HostPingPost
  <1>d. IsoPingFrame(hrt.ping_seq).k = "ping" /\ IsoPingFrame(hrt.ping_seq).n = hrt.ping_seq
    BY DEF IsoPingFrame
  <1>p. /\ \A i \in DOMAIN down' :
              \/ i \in DOMAIN down /\ down'[i] = down[i] /\ i < Len(down) + 1
              \/ i = Len(down) + 1 /\ down'[i] = IsoPingFrame(hrt.ping_seq)
        /\ \A i \in DOMAIN down : i \in DOMAIN down' /\ down'[i] = down[i]
        /\ Len(down) \in Nat /\ down' \in Seq(DownFrames)
    <2>1. PICK s \in Seq(DownFrames), e \in DownFrames :
              s = down /\ e = IsoPingFrame(hrt.ping_seq)
      BY IsoFields DEF IsoTypes
    <2>2. down' = Append(s, e)
      BY <1>c, <2>1
    <2>3. /\ Append(s, e) \in Seq(DownFrames) /\ Len(s) \in Nat
          /\ \A i \in DOMAIN Append(s, e) :
                /\ i \in Nat
                /\ \/ i \in DOMAIN s /\ Append(s, e)[i] = s[i] /\ i < Len(s) + 1
                   \/ i = Len(s) + 1 /\ Append(s, e)[i] = e
          /\ \A i \in DOMAIN s : i \in DOMAIN Append(s, e) /\ Append(s, e)[i] = s[i]
      BY <2>1, AppendAt
    <2> QED
      BY <2>1, <2>2, <2>3
  <1>1. IsoTypes'
    BY <1>0, <1>b, <1>p DEF IsoTypes
  <1>2. IsoLife'
    BY <1>0 DEF IsoTypes, HostRec, KidRec, LogRec, IsoLife, HostPingPost
  <1>3. IsoTold'
    BY <1>0 DEF IsoTypes, HostRec, KidRec, LogRec, IsoLife, IsoTold, HostPingPost
  <1>4. IsoPings'
    <2>1. hrt.ping_seq <= hrt.ping_seq
      BY IsoFields
    <2>2. \A i \in DOMAIN down' : down'[i].k = "ping" => down'[i].n <= hrt.ping_seq
      BY <1>d, <1>p, <2>1 DEF IsoPings
    <2> QED
      BY <1>0, <1>b, <2>2 DEF IsoPings
  <1>5. IsoAsked'
    BY <1>0, <1>b, <1>d, <1>p DEF IsoAsked, Asking
  <1>6. IsoInOrder'
    <2>1. \A i \in DOMAIN down' : down'[i].k # "ping" =>
              i \in DOMAIN down /\ down'[i] = down[i]
      BY <1>d, <1>p
    <2> QED
      BY <1>0, <1>b, <2>1 DEF IsoInOrder
  <1>7. IsoComplete'
    <2>1. \A i \in DOMAIN down' : down'[i].k = "msg" =>
              i \in DOMAIN down /\ down'[i] = down[i]
      BY <1>d, <1>p
    <2>2. Base' = Base
      BY <1>0, <1>b DEF Base
    <2> QED
      BY <1>0, <1>b, <1>p, <2>1, <2>2 DEF IsoComplete
  <1>8. IsoServed'
    BY <1>0, ServedSame DEF HostPingPost
  <1> QED
    BY <1>1, <1>2, <1>3, <1>4, <1>5, <1>6, <1>7, <1>8

LEMMA HostPingOkKeeps ==
    ASSUME IsoInv, HostPingOk PROVE IsoInv'
  <1> USE DEF IsoInv
  <1>0. /\ hrt' = hrt
        /\ kid' = kid
        /\ log' \in LogRec
        /\ log'.wrong = (log.wrong \/ hrt.ping_seq \notin log.answered)
        /\ log'.posted = log.posted /\ log'.early = log.early /\ log'.served = log.served
        /\ log'.answered = log.answered /\ log'.crashes = log.crashes
        /\ log'.died = log.died /\ log'.evaled = log.evaled /\ log'.joins = log.joins
        /\ log'.stale = log.stale
    BY IsoFields, IsoAssumption DEF IsoTypes, HostRec, KidRec, LogRec, HostPingOk,
       DownFrames, PostFrame, Ctl
  <1>1. IsoTypes'
    BY <1>0 DEF IsoTypes, DownFrames, UpFrames, PostFrame, Ctl, HostPingOk
  <1>2. IsoLife'
    BY <1>0 DEF IsoTypes, HostRec, KidRec, LogRec, IsoLife, HostPingOk
  <1>3. IsoTold'
    BY <1>0 DEF IsoTypes, HostRec, KidRec, LogRec, IsoLife, IsoTold, HostPingOk
  <1>4. IsoPings'
    BY <1>0, SMTT(30) DEF IsoTypes, HostRec, KidRec, LogRec, IsoPings, HostPingOk
  <1>5. IsoAsked'
    BY <1>0 DEF IsoTypes, HostRec, KidRec, LogRec, Asking, IsoAsked, HostPingOk
  <1>6. IsoInOrder'
    BY <1>0, OrderSame DEF HostPingOk
  <1>7. IsoComplete'
    BY <1>0, CompleteSame DEF IsoLife, HostPingOk
  <1>8. IsoServed'
    BY <1>0, ServedSame DEF HostPingOk
  <1> QED
    BY <1>1, <1>2, <1>3, <1>4, <1>5, <1>6, <1>7, <1>8

LEMMA HostPingGivesUpKeeps ==
    ASSUME IsoInv, HostPingGivesUp PROVE IsoInv'
  <1> USE DEF IsoInv
  <1>0. /\ hrt' = hrt
        /\ kid' = kid
        /\ log' = log
    BY IsoFields, IsoAssumption DEF IsoTypes, HostRec, KidRec, LogRec, HostPingGivesUp,
       DownFrames, PostFrame, Ctl
  <1>1. IsoTypes'
    BY <1>0 DEF IsoTypes, DownFrames, UpFrames, PostFrame, Ctl, HostPingGivesUp
  <1>2. IsoLife'
    BY <1>0 DEF IsoTypes, HostRec, KidRec, LogRec, IsoLife, HostPingGivesUp
  <1>3. IsoTold'
    BY <1>0 DEF IsoTypes, HostRec, KidRec, LogRec, IsoLife, IsoTold, HostPingGivesUp
  <1>4. IsoPings'
    BY <1>0 DEF IsoTypes, HostRec, KidRec, LogRec, IsoPings, HostPingGivesUp
  <1>5. IsoAsked'
    BY <1>0 DEF IsoTypes, HostRec, KidRec, LogRec, Asking, IsoAsked, HostPingGivesUp
  <1>6. IsoInOrder'
    BY <1>0, OrderSame DEF HostPingGivesUp
  <1>7. IsoComplete'
    BY <1>0, CompleteSame DEF IsoLife, HostPingGivesUp
  <1>8. IsoServed'
    BY <1>0, ServedSame DEF HostPingGivesUp
  <1> QED
    BY <1>1, <1>2, <1>3, <1>4, <1>5, <1>6, <1>7, <1>8

LEMMA HostDestroyKeeps ==
    ASSUME IsoInv, HostDestroy PROVE IsoInv'
  <1> USE DEF IsoInv
  <1>0. /\ hrt' \in HostRec
        /\ hrt'.shutting = TRUE
        /\ hrt'.ready = hrt.ready /\ hrt'.ready_err = hrt.ready_err
        /\ hrt'.idle_ack = hrt.idle_ack /\ hrt'.joined = hrt.joined
        /\ hrt'.fifo = hrt.fifo /\ hrt'.proc = hrt.proc /\ hrt'.ping_seq = hrt.ping_seq
        /\ hrt'.pong_seq = hrt.pong_seq
        /\ kid' = kid
        /\ log' = log
    BY IsoFields, IsoAssumption DEF IsoTypes, HostRec, KidRec, LogRec, HostDestroy,
       DownFrames, PostFrame, Ctl
  <1>1. IsoTypes'
    BY <1>0 DEF IsoTypes, DownFrames, UpFrames, PostFrame, Ctl, HostDestroy
  <1>2. IsoLife'
    BY <1>0 DEF IsoTypes, HostRec, KidRec, LogRec, IsoLife, HostDestroy
  <1>3. IsoTold'
    BY <1>0 DEF IsoTypes, HostRec, KidRec, LogRec, IsoLife, IsoTold, HostDestroy
  <1>4. IsoPings'
    BY <1>0 DEF IsoTypes, HostRec, KidRec, LogRec, IsoPings, HostDestroy
  <1>5. IsoAsked'
    BY <1>0 DEF IsoTypes, HostRec, KidRec, LogRec, Asking, IsoAsked, HostDestroy
  <1>6. IsoInOrder'
    BY <1>0, OrderSame DEF HostDestroy
  <1>7. IsoComplete'
    BY <1>0, CompleteSame DEF IsoLife, HostDestroy
  <1>8. IsoServed'
    BY <1>0, ServedSame DEF HostDestroy
  <1> QED
    BY <1>1, <1>2, <1>3, <1>4, <1>5, <1>6, <1>7, <1>8

-----------------------------------------------------------------------------
(* The steps of the loop thread *)

LEMMA LoopWakeKeeps ==
    ASSUME IsoInv, LoopWake PROVE IsoInv'
  <1> USE DEF IsoInv
  <1>0. /\ hrt' = hrt
        /\ kid' = kid
        /\ log' = log
    BY IsoFields, IsoAssumption DEF IsoTypes, HostRec, KidRec, LogRec, LoopWake,
       DownFrames, PostFrame, Ctl
  <1>1. IsoTypes'
    BY <1>0 DEF IsoTypes, DownFrames, UpFrames, PostFrame, Ctl, LoopWake
  <1>2. IsoLife'
    BY <1>0 DEF IsoTypes, HostRec, KidRec, LogRec, IsoLife, LoopWake
  <1>3. IsoTold'
    BY <1>0 DEF IsoTypes, HostRec, KidRec, LogRec, IsoLife, IsoTold, LoopWake
  <1>4. IsoPings'
    BY <1>0 DEF IsoTypes, HostRec, KidRec, LogRec, IsoPings, LoopWake
  <1>5. IsoAsked'
    BY <1>0 DEF IsoTypes, HostRec, KidRec, LogRec, Asking, IsoAsked, LoopWake
  <1>6. IsoInOrder'
    BY <1>0, OrderSame DEF LoopWake
  <1>7. IsoComplete'
    BY <1>0, CompleteSame DEF IsoLife, LoopWake
  <1>8. IsoServed'
    BY <1>0, ServedSame DEF LoopWake
  <1> QED
    BY <1>1, <1>2, <1>3, <1>4, <1>5, <1>6, <1>7, <1>8

LEMMA LoopDrainKeeps ==
    ASSUME IsoInv, LoopDrain PROVE IsoInv'
  <1> USE DEF IsoInv
  <1>0. /\ hrt' \in HostRec
        /\ hrt'.fifo = Tail(hrt.fifo)
        /\ hrt'.shutting = hrt.shutting /\ hrt'.ready = hrt.ready
        /\ hrt'.ready_err = hrt.ready_err /\ hrt'.idle_ack = hrt.idle_ack
        /\ hrt'.joined = hrt.joined /\ hrt'.proc = hrt.proc
        /\ hrt'.ping_seq = hrt.ping_seq /\ hrt'.pong_seq = hrt.pong_seq
        /\ kid' = kid
        /\ log' = log
    BY IsoFields, IsoAssumption DEF IsoTypes, HostRec, KidRec, LogRec, LoopDrain,
       DownFrames, PostFrame, Ctl
  <1>a. PICK f \in DownFrames : f = Head(hrt.fifo) /\ hrt'.fifo = Tail(hrt.fifo)
    BY <1>0, IsoFields DEF LoopDrain
  <1>b. /\ \A i \in DOMAIN hrt'.fifo : /\ i + 1 \in DOMAIN hrt.fifo /\ i \in Nat /\ 1 < i + 1
                                       /\ hrt'.fifo[i] = hrt.fifo[i + 1]
        /\ \A i \in DOMAIN hrt.fifo :
               i = 1 \/ (i - 1 \in DOMAIN hrt'.fifo /\ hrt'.fifo[i - 1] = hrt.fifo[i])
        /\ 1 \in DOMAIN hrt.fifo /\ hrt.fifo[1] = f
    <2>1. PICK s \in Seq(DownFrames) : s = hrt.fifo
      BY IsoFields
    <2>2. s # << >> /\ hrt'.fifo = Tail(s) /\ f = Head(s)
      BY <1>a, <2>1 DEF LoopDrain
    <2> QED
      BY <2>1, <2>2, TailAt
  <1>c. \A i, j \in DOMAIN hrt'.fifo : i < j => i + 1 < j + 1
    BY <1>b
  <1>d. /\ lp = "drain" /\ lp' \in {"run", "drain"} /\ UNCHANGED <<api, kid, up, log>>
        /\ down' = IF kid.st = "gone" THEN down ELSE Append(down, f)
    BY <1>a DEF LoopDrain
  <1>p. ASSUME kid.st # "gone"
        PROVE  /\ \A i \in DOMAIN down' : \/ i \in DOMAIN down /\ down'[i] = down[i]
                                                             /\ i < Len(down) + 1
                                          \/ i = Len(down) + 1 /\ down'[i] = f
               /\ \A i \in DOMAIN down : i \in DOMAIN down' /\ down'[i] = down[i]
               /\ \E i \in DOMAIN down' : down'[i] = f
               /\ Len(down) \in Nat /\ down' \in Seq(DownFrames)
    <2>1. PICK s \in Seq(DownFrames) : s = down
      BY DEF IsoTypes
    <2>2. down' = Append(s, f)
      BY <1>d, <1>p, <2>1
    <2> QED
      BY <2>1, <2>2, AppendAt
  <1>q. \A i \in DOMAIN down' : \/ i \in DOMAIN down /\ down'[i] = down[i]
                                \/ down'[i] = f
    BY <1>d, <1>p
  <1>1. IsoTypes'
    BY <1>0, <1>d, <1>p DEF IsoTypes
  <1>2. IsoLife'
    BY <1>0, <1>d DEF IsoLife
  <1>3. IsoTold'
    BY <1>0, <1>d DEF IsoTold
  <1>4. IsoPings'
    <2>1. f.k # "ping"
      BY <1>b DEF IsoPings
    <2> QED
      BY <1>0, <1>b, <1>d, <1>q, <2>1 DEF IsoPings
  <1>5. IsoAsked'
    BY <1>0, <1>b, <1>d, <1>q DEF IsoAsked, Asking
  <1>6. IsoInOrder'
    <2>1. \A i, j \in DOMAIN hrt'.fifo : i < j /\ hrt'.fifo[j].k = "msg" =>
              /\ hrt'.fifo[i].k = "msg" => hrt'.fifo[i].n < hrt'.fifo[j].n
              /\ hrt'.fifo[i].k = "idle" => log.early < hrt'.fifo[j].n
      BY <1>b, <1>c DEF IsoInOrder
    <2>2. \A j \in DOMAIN hrt'.fifo : hrt'.fifo[j].k = "msg" =>
              /\ f.k = "msg" => f.n < hrt'.fifo[j].n
              /\ f.k = "idle" => log.early < hrt'.fifo[j].n
      BY <1>b DEF IsoInOrder
    <2>3. \A i \in DOMAIN down', j \in DOMAIN hrt'.fifo : hrt'.fifo[j].k = "msg" =>
              /\ down'[i].k = "msg" => down'[i].n < hrt'.fifo[j].n
              /\ down'[i].k = "idle" => log.early < hrt'.fifo[j].n
      BY <1>b, <1>q, <2>2 DEF IsoInOrder
    <2>4. ASSUME NEW i \in DOMAIN down', NEW j \in DOMAIN down', i < j, down'[j].k = "msg"
          PROVE  /\ down'[i].k = "msg" => down'[i].n < down'[j].n
                 /\ down'[i].k = "idle" => log.early < down'[j].n
      <3>1. CASE kid.st = "gone"
        BY <1>d, <2>4, <3>1 DEF IsoInOrder
      <3>2. CASE kid.st # "gone"
        <4>1. i \in DOMAIN down /\ down'[i] = down[i]
          BY <1>p, <2>4, <3>2
        <4>2. CASE j \in DOMAIN down /\ down'[j] = down[j]
          BY <2>4, <4>1, <4>2 DEF IsoInOrder
        <4>3. CASE down'[j] = f
          BY <1>b, <2>4, <4>1, <4>3 DEF IsoInOrder
        <4> QED
          BY <1>q, <4>2, <4>3
      <3> QED
        BY <3>1, <3>2
    <2>5. /\ \A i \in DOMAIN down' : down'[i].k = "msg" => down'[i].n <= log.posted
          /\ \A i \in DOMAIN hrt'.fifo : hrt'.fifo[i].k = "msg" => hrt'.fifo[i].n <= log.posted
      BY <1>b, <1>q DEF IsoInOrder
    <2> QED
      BY <1>d, <2>1, <2>3, <2>4, <2>5 DEF IsoInOrder
  <1>7. IsoComplete'
    <2>1. Base' = Base
      BY <1>d DEF Base
    <2> SUFFICES ASSUME kid.st # "gone" PROVE IsoComplete'
      BY <1>d DEF IsoComplete
    <2>2. \A i \in DOMAIN hrt.fifo :
              \/ \E j \in DOMAIN down' : down'[j] = hrt.fifo[i]
              \/ \E j \in DOMAIN hrt'.fifo : hrt'.fifo[j] = hrt.fifo[i]
      BY <1>b, <1>p
    <2>3. /\ \A i \in DOMAIN down' : down'[i].k = "msg" => Base < down'[i].n
          /\ \A i \in DOMAIN hrt'.fifo : hrt'.fifo[i].k = "msg" => Base < hrt'.fifo[i].n
      BY <1>b, <1>q DEF IsoComplete
    <2>4. ASSUME NEW n \in Nat, Base < n, n <= log.posted
          PROVE  \/ \E i \in DOMAIN down' : down'[i] = PostFrame(n)
                 \/ \E i \in DOMAIN hrt'.fifo : hrt'.fifo[i] = PostFrame(n)
      <3>1. \/ \E i \in DOMAIN down : down[i] = PostFrame(n)
            \/ \E i \in DOMAIN hrt.fifo : hrt.fifo[i] = PostFrame(n)
        BY <2>4 DEF IsoComplete
      <3> QED
        BY <1>p, <2>2, <3>1
    <2> QED
      BY <1>d, <2>1, <2>3, <2>4 DEF IsoComplete
  <1>8. IsoServed'
    BY <1>0, <1>d, ServedSame
  <1> QED
    BY <1>1, <1>2, <1>3, <1>4, <1>5, <1>6, <1>7, <1>8

LEMMA LoopReadKeeps ==
    ASSUME IsoInv, NEW a \in {FALSE, Replies}, LoopRead(a) PROVE IsoInv'
  <1> USE DEF IsoInv
  <1>a. PICK f : f = Head(up)
    OBVIOUS
  <1>b. /\ up # << >> /\ up' = Tail(up) /\ f \in UpFrames /\ up \in Seq(UpFrames)
        /\ UNCHANGED <<api, lp, kid, down>> /\ hrt.proc = "run" /\ lp = "run"
    BY <1>a DEF LoopRead, IsoTypes
  <1>c. /\ \A i \in DOMAIN up' : i + 1 \in DOMAIN up /\ up'[i] = up[i + 1]
        /\ \A i \in DOMAIN up : i = 1 \/ (i - 1 \in DOMAIN up' /\ up'[i - 1] = up[i])
        /\ up' \in Seq(UpFrames)
    BY <1>b
  <1>k. 1 \in DOMAIN up /\ up[1] = f
    BY <1>a, <1>b
  <1>d. DEFINE h == CASE f.k = "ready" -> [hrt EXCEPT !.ready = TRUE]
                      [] f.k = "failed" -> [hrt EXCEPT !.ready = TRUE, !.ready_err = TRUE]
                      [] f.k = "ack" -> [hrt EXCEPT !.idle_ack = TRUE]
                      [] f.k = "pong" -> [hrt EXCEPT !.pong_seq = f.n]
                      [] OTHER -> hrt
  <1>e. /\ h \in HostRec
        /\ h.shutting = hrt.shutting /\ h.joined = hrt.joined /\ h.proc = hrt.proc
        /\ h.ping_seq = hrt.ping_seq /\ h.fifo = hrt.fifo
        /\ h.ready = (IF f.k \in {"ready", "failed"} THEN TRUE ELSE hrt.ready)
        /\ h.ready_err = (IF f.k = "failed" THEN TRUE ELSE hrt.ready_err)
        /\ h.idle_ack = (IF f.k = "ack" THEN TRUE ELSE hrt.idle_ack)
        /\ h.pong_seq = (IF f.k = "pong" THEN f.n ELSE hrt.pong_seq)
    <2>1. CASE f.k = "ready"
      BY <1>b, <2>1 DEF IsoTypes, HostRec, UpFrames
    <2>2. CASE f.k = "failed"
      BY <1>b, <2>2 DEF IsoTypes, HostRec, UpFrames
    <2>3. CASE f.k = "ack"
      BY <1>b, <2>3 DEF IsoTypes, HostRec, UpFrames
    <2>4. CASE f.k = "pong"
      BY <1>b, <2>4 DEF IsoTypes, HostRec, UpFrames
    <2>5. CASE f.k = "msg"
      BY <1>b, <2>5 DEF IsoTypes, HostRec, UpFrames
    <2> QED
      BY <1>b, <2>1, <2>2, <2>3, <2>4, <2>5 DEF UpFrames
  <1>g. \/ hrt' = h /\ log' = log
        \/ /\ f.k = "msg"
           /\ hrt' = [h EXCEPT !.fifo = Append(@, PostFrame(log.posted + 1))]
           /\ log' = [log EXCEPT !.posted = @ + 1]
    BY <1>a DEF LoopRead, Pushed
  <1> HIDE DEF h
  <1>0. /\ hrt' \in HostRec /\ log' \in LogRec
        /\ hrt'.shutting = hrt.shutting /\ hrt'.joined = hrt.joined /\ hrt'.proc = hrt.proc
        /\ hrt'.ping_seq = hrt.ping_seq
        /\ hrt'.ready = (IF f.k \in {"ready", "failed"} THEN TRUE ELSE hrt.ready)
        /\ hrt'.ready_err = (IF f.k = "failed" THEN TRUE ELSE hrt.ready_err)
        /\ hrt'.idle_ack = (IF f.k = "ack" THEN TRUE ELSE hrt.idle_ack)
        /\ hrt'.pong_seq = (IF f.k = "pong" THEN f.n ELSE hrt.pong_seq)
        /\ log'.early = log.early /\ log'.served = log.served
        /\ log'.answered = log.answered /\ log'.crashes = log.crashes
        /\ log'.died = log.died /\ log'.evaled = log.evaled /\ log'.joins = log.joins
        /\ log'.wrong = log.wrong
        /\ \/ hrt'.fifo = hrt.fifo /\ log'.posted = log.posted
           \/ /\ hrt'.fifo = Append(hrt.fifo, PostFrame(log.posted + 1))
              /\ log'.posted = log.posted + 1
    <2>1. CASE hrt' = h /\ log' = log
      <3>1. log \in LogRec
        BY DEF IsoTypes
      <3> QED
        BY <1>e, <2>1, <3>1
    <2>2. CASE hrt' = [h EXCEPT !.fifo = Append(@, PostFrame(log.posted + 1))]
               /\ log' = [log EXCEPT !.posted = @ + 1]
      BY <1>e, <2>2, IsoFields DEF IsoTypes, HostRec, LogRec
    <2> QED
      BY <1>g, <2>1, <2>2
  <1>1. IsoTypes'
    BY <1>0, <1>b, <1>c DEF IsoTypes
  <1>2. IsoLife'
    BY <1>0, <1>b DEF IsoLife
  <1>3. IsoTold'
    <2>1. hrt'.ready /\ ~hrt'.ready_err => log'.evaled
      <3>1. CASE f.k = "ready"
        BY <1>0, <1>k, <3>1 DEF IsoTold
      <3>2. CASE f.k # "ready"
        BY <1>0, <3>2 DEF IsoTold
      <3> QED
        BY <3>1, <3>2
    <2>2. \A i \in DOMAIN up' : up'[i].k = "ready" => log'.evaled
      BY <1>0, <1>c DEF IsoTold
    <2>3. kid'.st = "gone" /\ hrt'.proc = "run" =>
              log'.died \/ hrt'.idle_ack \/ \E i \in DOMAIN up' : up'[i].k = "ack"
      <3>1. CASE f.k = "ack"
        BY <1>0, <3>1
      <3>2. CASE f.k # "ack"
        <4>1. /\ kid'.st = kid.st /\ hrt'.proc = hrt.proc /\ log'.died = log.died
              /\ hrt'.idle_ack = hrt.idle_ack
          BY <1>0, <1>b, <3>2
        <4>2. kid.st = "gone" /\ hrt.proc = "run" =>
                  log.died \/ hrt.idle_ack \/ \E i \in DOMAIN up : up[i].k = "ack"
          BY DEF IsoTold
        <4>3. ASSUME NEW i \in DOMAIN up, up[i].k = "ack"
              PROVE  \E j \in DOMAIN up' : up'[j].k = "ack"
          <5>1. i # 1
            BY <1>k, <3>2, <4>3
          <5>2. i - 1 \in DOMAIN up' /\ up'[i - 1] = up[i]
            BY <1>c, <5>1
          <5> QED
            BY <4>3, <5>2
        <4> QED
          BY <4>1, <4>2, <4>3
      <3> QED
        BY <3>1, <3>2
    <2> QED
      BY <1>0, <1>b, <2>1, <2>2, <2>3 DEF IsoTold
  <1>4. IsoPings'
    <2>1. \A i \in DOMAIN hrt'.fifo : hrt'.fifo[i].k # "ping"
      BY <1>0, PushedKinds DEF IsoPings
    <2>2. \A i \in DOMAIN up' : up'[i].k = "pong" => up'[i].n <= hrt'.ping_seq
                                                    /\ up'[i].n \in log'.answered
      BY <1>0, <1>c DEF IsoPings
    <2>3. /\ hrt'.pong_seq <= hrt'.ping_seq
          /\ hrt'.pong_seq = 0 \/ hrt'.pong_seq \in log'.answered
      BY <1>0, <1>k DEF IsoPings
    <2> QED
      BY <1>0, <1>b, <2>1, <2>2, <2>3 DEF IsoPings
  <1>5. IsoAsked'
    <2>1. ASSUME Asking PROVE \A i \in DOMAIN hrt'.fifo : hrt'.fifo[i].k # "idle"
      BY <1>0, <2>1, PushedKinds DEF IsoAsked
    <2> QED
      BY <1>0, <1>b, <1>c, <1>k, <2>1, SMTT(30) DEF IsoTypes, HostRec, KidRec, LogRec, Asking, IsoAsked
  <1>6. IsoInOrder'
    <2>1. CASE hrt'.fifo = hrt.fifo /\ log'.posted = log.posted
      BY <1>0, <1>b, <2>1, OrderSame
    <2>2. CASE hrt'.fifo = Append(hrt.fifo, PostFrame(log.posted + 1))
               /\ log'.posted = log.posted + 1
      BY <1>0, <1>b, <2>2, OrderPush DEF IsoServed
    <2> QED
      BY <1>0, <2>1, <2>2
  <1>7. IsoComplete'
    <2>1. CASE hrt'.fifo = hrt.fifo /\ log'.posted = log.posted
      BY <1>0, <1>b, <2>1, CompleteSame
    <2>2. CASE hrt'.fifo = Append(hrt.fifo, PostFrame(log.posted + 1))
               /\ log'.posted = log.posted + 1
      BY <1>0, <1>b, <2>2, CompletePush
    <2> QED
      BY <1>0, <2>1, <2>2
  <1>8. IsoServed'
    <2>1. \A i \in DOMAIN up' : up'[i].k = "ack" => log.early <= Len(log.served)
      BY <1>c DEF IsoServed
    <2>2. hrt'.idle_ack => log.early <= Len(log.served)
      BY <1>0, <1>k DEF IsoServed
    <2>3. log.early <= log'.posted
      <3>1. log.early <= log.posted /\ log.early <= log.posted + 1
        <4>1. log.early <= log.posted
          BY DEF IsoServed
        <4>2. log.early \in Nat /\ log.posted \in Nat
          BY IsoFields
        <4> QED
          BY <4>1, <4>2
      <3> QED
        BY <1>0, <3>1
    <2> QED
      BY <1>0, <1>b, <2>1, <2>2, <2>3 DEF IsoServed, Base
  <1> QED
    BY <1>1, <1>2, <1>3, <1>4, <1>5, <1>6, <1>7, <1>8

LEMMA LoopEofKeeps ==
    ASSUME IsoInv, LoopEof PROVE IsoInv'
  <1> USE DEF IsoInv
  <1>0. /\ hrt' \in HostRec
        /\ hrt'.proc = "dead"
        /\ hrt'.ready = TRUE
        /\ hrt'.shutting = TRUE
        /\ hrt'.ready_err = (hrt.ready_err \/ ~hrt.ready)
        /\ hrt'.idle_ack = hrt.idle_ack /\ hrt'.joined = hrt.joined
        /\ hrt'.fifo = hrt.fifo /\ hrt'.ping_seq = hrt.ping_seq
        /\ hrt'.pong_seq = hrt.pong_seq
        /\ kid' \in KidRec
        /\ kid'.reaped = TRUE
        /\ kid'.st = kid.st /\ kid'.q = kid.q /\ kid'.wait_idle = kid.wait_idle
        /\ kid'.sent = kid.sent
        /\ log' \in LogRec
        /\ log'.crashes = (IF hrt.ready /\ ~hrt.idle_ack /\ ~hrt.shutting THEN log.crashes + 1 ELSE log.crashes)
        /\ log'.posted = log.posted /\ log'.early = log.early /\ log'.served = log.served
        /\ log'.answered = log.answered /\ log'.died = log.died
        /\ log'.evaled = log.evaled /\ log'.joins = log.joins /\ log'.wrong = log.wrong
        /\ log'.stale = log.stale
    BY IsoFields, IsoAssumption DEF IsoTypes, HostRec, KidRec, LogRec, LoopEof,
       DownFrames, PostFrame, Ctl
  <1>1. IsoTypes'
    BY <1>0 DEF IsoTypes, DownFrames, UpFrames, PostFrame, Ctl, LoopEof
  <1>2. IsoLife'
    BY <1>0 DEF IsoTypes, HostRec, KidRec, LogRec, IsoLife, LoopEof
  <1>3. IsoTold'
    <2>1. /\ hrt.proc = "run" /\ kid.st = "gone" /\ up = << >> /\ up' = up /\ api' = api
      BY DEF LoopEof
    <2>2. log.crashes = 0 /\ (log.died \/ hrt.idle_ack)
      BY <2>1 DEF IsoTold
    <2>3. hrt'.ready /\ ~hrt'.ready_err => log'.evaled
      BY <1>0 DEF IsoTold
    <2>4. log'.crashes <= 1 /\ (log'.crashes = 1 => log'.died)
      BY <1>0, <2>2
    <2>5. /\ \A i \in DOMAIN up' : up'[i].k = "ready" => log'.evaled
          /\ kid'.st \in {"none", "boot"} => ~log'.evaled /\ ~log'.died
          /\ api' \in {"up", "idle", "idled", "ping_post", "ping_wait"} => log'.evaled
      BY <1>0, <2>1 DEF IsoTold
    <2> QED
      BY <1>0, <2>3, <2>4, <2>5 DEF IsoTold
  <1>4. IsoPings'
    BY <1>0 DEF IsoTypes, HostRec, KidRec, LogRec, IsoPings, LoopEof
  <1>5. IsoAsked'
    BY <1>0 DEF IsoTypes, HostRec, KidRec, LogRec, Asking, IsoAsked, LoopEof
  <1>6. IsoInOrder'
    BY <1>0, OrderSame DEF LoopEof
  <1>7. IsoComplete'
    BY <1>0, CompleteSame DEF IsoLife, LoopEof
  <1>8. IsoServed'
    BY <1>0, ServedSame DEF LoopEof
  <1> QED
    BY <1>1, <1>2, <1>3, <1>4, <1>5, <1>6, <1>7, <1>8

LEMMA LoopEndKeeps ==
    ASSUME IsoInv, LoopEnd PROVE IsoInv'
  <1> USE DEF IsoInv
  <1>0. /\ hrt' \in HostRec
        /\ hrt'.proc = "free"
        /\ hrt'.ready = TRUE
        /\ hrt'.ready_err = (hrt.ready_err \/ ~hrt.ready)
        /\ hrt'.shutting = hrt.shutting /\ hrt'.idle_ack = hrt.idle_ack
        /\ hrt'.joined = hrt.joined /\ hrt'.fifo = hrt.fifo
        /\ hrt'.ping_seq = hrt.ping_seq /\ hrt'.pong_seq = hrt.pong_seq
        /\ kid' \in KidRec
        /\ kid'.st = "gone"
        /\ kid'.reaped = TRUE
        /\ kid'.q = kid.q /\ kid'.wait_idle = kid.wait_idle /\ kid'.sent = kid.sent
        /\ log' = log
    BY IsoFields, IsoAssumption DEF IsoTypes, HostRec, KidRec, LogRec, LoopEnd,
       DownFrames, PostFrame, Ctl
  <1>1. IsoTypes'
    BY <1>0 DEF IsoTypes, DownFrames, UpFrames, PostFrame, Ctl, LoopEnd
  <1>2. IsoLife'
    BY <1>0 DEF IsoTypes, HostRec, KidRec, LogRec, IsoLife, LoopEnd
  <1>3. IsoTold'
    BY <1>0, SMTT(30) DEF IsoTypes, HostRec, KidRec, LogRec, IsoLife, IsoTold, LoopEnd
  <1>4. IsoPings'
    BY <1>0 DEF IsoTypes, HostRec, KidRec, LogRec, IsoPings, LoopEnd
  <1>5. IsoAsked'
    BY <1>0 DEF IsoTypes, HostRec, KidRec, LogRec, Asking, IsoAsked, LoopEnd
  <1>6. IsoInOrder'
    BY <1>0, OrderSame DEF LoopEnd
  <1>7. IsoComplete'
    BY <1>0, CompleteSame DEF IsoLife, LoopEnd
  <1>8. IsoServed'
    BY <1>0, ServedSame DEF LoopEnd
  <1> QED
    BY <1>1, <1>2, <1>3, <1>4, <1>5, <1>6, <1>7, <1>8

-----------------------------------------------------------------------------
(* The steps of the child *)

LEMMA KidBootFailsKeeps ==
    ASSUME IsoInv, KidBootFails PROVE IsoInv'
  <1> USE DEF IsoInv
  <1>0. /\ hrt' = hrt
        /\ kid' \in KidRec
        /\ kid'.st = "gone"
        /\ kid'.q = kid.q /\ kid'.wait_idle = kid.wait_idle /\ kid'.reaped = kid.reaped
        /\ kid'.sent = kid.sent
        /\ log' \in LogRec
        /\ log'.died = TRUE
        /\ log'.posted = log.posted /\ log'.early = log.early /\ log'.served = log.served
        /\ log'.answered = log.answered /\ log'.crashes = log.crashes
        /\ log'.evaled = log.evaled /\ log'.joins = log.joins /\ log'.wrong = log.wrong
        /\ log'.stale = log.stale
    BY IsoFields, IsoAssumption DEF IsoTypes, HostRec, KidRec, LogRec, KidBootFails,
       DownFrames, PostFrame, Ctl
  <1>1. IsoTypes'
    BY <1>0 DEF IsoTypes, DownFrames, UpFrames, PostFrame, Ctl, KidBootFails
  <1>2. IsoLife'
    BY <1>0 DEF IsoTypes, HostRec, KidRec, LogRec, IsoLife, KidBootFails
  <1>3. IsoTold'
    BY <1>0 DEF IsoTypes, HostRec, KidRec, LogRec, IsoLife, IsoTold, KidBootFails
  <1>4. IsoPings'
    BY <1>0 DEF IsoTypes, HostRec, KidRec, LogRec, IsoPings, KidBootFails
  <1>5. IsoAsked'
    BY <1>0 DEF IsoTypes, HostRec, KidRec, LogRec, Asking, IsoAsked, KidBootFails
  <1>6. IsoInOrder'
    BY <1>0, OrderSame DEF KidBootFails
  <1>7. IsoComplete'
    BY <1>0, CompleteSame DEF IsoLife, KidBootFails
  <1>8. IsoServed'
    BY <1>0, ServedSame DEF KidBootFails
  <1> QED
    BY <1>1, <1>2, <1>3, <1>4, <1>5, <1>6, <1>7, <1>8

LEMMA KidBootKeeps ==
    ASSUME IsoInv, NEW b \in BOOLEAN, KidBoot(b) PROVE IsoInv'
  <1> USE DEF IsoInv
  <1>0. /\ hrt' = hrt
        /\ kid' \in KidRec
        /\ kid'.st = (IF b THEN "run" ELSE "gone")
        /\ kid'.q = kid.q /\ kid'.wait_idle = kid.wait_idle /\ kid'.reaped = kid.reaped
        /\ kid'.sent = kid.sent
        /\ log' \in LogRec
        /\ log'.evaled = b
        /\ log'.died = (~b)
        /\ log'.posted = log.posted /\ log'.early = log.early /\ log'.served = log.served
        /\ log'.answered = log.answered /\ log'.crashes = log.crashes
        /\ log'.joins = log.joins /\ log'.wrong = log.wrong /\ log'.stale = log.stale
    BY IsoFields, IsoAssumption DEF IsoTypes, HostRec, KidRec, LogRec, KidBoot,
       DownFrames, PostFrame, Ctl
  <1> DEFINE e == Ctl(IF b THEN "ready" ELSE "failed")
  <1>a. e \in UpFrames /\ up' = Append(up, e)
    BY DEF KidBoot, Ctl, UpFrames
  <1>b. /\ up' \in Seq(UpFrames)
        /\ \A i \in DOMAIN up' : (i \in DOMAIN up /\ up'[i] = up[i]) \/ up'[i] = e
        /\ \A i \in DOMAIN up : i \in DOMAIN up' /\ up'[i] = up[i]
        /\ \E i \in DOMAIN up' : up'[i] = e
    BY <1>a, UpAppend
  <1>c. e.k = (IF b THEN "ready" ELSE "failed")
    BY DEF Ctl
  <1> HIDE DEF e
  <1>d. kid.st = "boot" /\ UNCHANGED <<api, lp, hrt, down>>
    BY DEF KidBoot
  <1>1. IsoTypes'
    BY <1>0, <1>b, <1>d DEF IsoTypes
  <1>2. IsoLife'
    BY <1>0 DEF IsoTypes, HostRec, KidRec, LogRec, IsoLife, KidBoot
  <1>3. IsoTold'
    <2>1. \A i \in DOMAIN up' : up'[i].k = "ready" => log'.evaled
      BY <1>0, <1>b, <1>c, <1>d DEF IsoTold
    <2>2. hrt'.ready /\ ~hrt'.ready_err => log'.evaled
      BY <1>0, <1>d DEF IsoTold
    <2>3. api \notin {"up", "idle", "idled", "ping_post", "ping_wait"}
      BY <1>d DEF IsoTold
    <2>4. hrt.proc = "run" /\ log.crashes = 0 /\ ~log.evaled
      BY <1>d DEF IsoTold, IsoLife
    <2>5. kid'.st = "gone" => log'.died
      BY <1>0
    <2> QED
      BY <1>0, <1>d, <2>1, <2>2, <2>3, <2>4, <2>5 DEF IsoTold
  <1>4. IsoPings'
    BY <1>0, <1>b, <1>c, <1>d DEF IsoPings
  <1>5. IsoAsked'
    BY <1>0, <1>b, <1>c, <1>d DEF IsoAsked, Asking
  <1>6. IsoInOrder'
    BY <1>0, OrderSame DEF KidBoot
  <1>7. IsoComplete'
    BY <1>0, CompleteSame DEF IsoLife, KidBoot
  <1>8. IsoServed'
    <2>1. \A i \in DOMAIN up' : up'[i].k = "ack" => log.early <= Len(log.served)
      BY <1>b, <1>c DEF IsoServed
    <2>2. Base' = Base
      BY <1>0 DEF Base
    <2> QED
      BY <1>0, <1>d, <2>1, <2>2 DEF IsoServed
  <1> QED
    BY <1>1, <1>2, <1>3, <1>4, <1>5, <1>6, <1>7, <1>8

LEMMA KidReadKeeps ==
    ASSUME IsoInv, KidRead PROVE IsoInv'
  <1> USE DEF IsoInv
  <1>a. PICK f : f = Head(down)
    OBVIOUS
  <1>b. /\ down # << >> /\ down' = Tail(down) /\ f \in DownFrames /\ down \in Seq(DownFrames)
        /\ UNCHANGED <<api, lp, hrt>> /\ kid.st = "run"
    BY <1>a DEF KidRead, IsoTypes
  <1>c. /\ \A i \in DOMAIN down' : i + 1 \in DOMAIN down /\ down'[i] = down[i + 1]
        /\ \A i \in DOMAIN down : i = 1 \/ (i - 1 \in DOMAIN down' /\ down'[i - 1] = down[i])
        /\ down' \in Seq(DownFrames) /\ \A i \in DOMAIN down : i \in Nat /\ i >= 1
    BY <1>b
  <1>k. 1 \in DOMAIN down /\ down[1] = f
    BY <1>a, <1>b
  <1>d. kid' = (CASE f.k = "msg" -> [kid EXCEPT !.q = Append(@, f.n)]
                  [] f.k = "idle" -> [kid EXCEPT !.wait_idle = TRUE]
                  [] OTHER -> kid)
    BY <1>a DEF KidRead
  <1>e. /\ up' = IF f.k = "ping" THEN Append(up, IsoPongFrame(f.n)) ELSE up
        /\ log' = IF f.k = "ping" THEN [log EXCEPT !.answered = @ \cup {f.n}] ELSE log
    BY <1>a DEF KidRead
  <1>0. /\ kid' \in KidRec /\ log' \in LogRec /\ up' \in Seq(UpFrames)
        /\ kid'.st = "run" /\ kid'.reaped = kid.reaped
        /\ kid'.q = (IF f.k = "msg" THEN Append(kid.q, f.n) ELSE kid.q)
        /\ kid'.wait_idle = (IF f.k = "idle" THEN TRUE ELSE kid.wait_idle)
        /\ log'.posted = log.posted /\ log'.early = log.early /\ log'.served = log.served
        /\ log'.answered = (IF f.k = "ping" THEN log.answered \cup {f.n} ELSE log.answered)
        /\ log'.crashes = log.crashes
        /\ log'.died = log.died /\ log'.evaled = log.evaled /\ log'.joins = log.joins
        /\ log'.wrong = log.wrong
    <2>1. CASE f.k = "msg"
      <3>1. f.n \in Nat /\ Append(kid.q, f.n) \in Seq(Nat)
        BY <1>b, IsoFields DEF DownFrames
      <3>2. kid' = [kid EXCEPT !.q = Append(@, f.n)] /\ log' = log /\ up' = up
        BY <1>d, <1>e, <2>1
      <3> QED
        BY <1>b, <2>1, <3>1, <3>2 DEF IsoTypes, KidRec, LogRec
    <2>2. CASE f.k = "idle"
      BY <1>b, <1>d, <1>e, <2>2 DEF IsoTypes, KidRec, LogRec, DownFrames
    <2>3. CASE f.k = "ping"
      <3>1. f.n \in Nat /\ IsoPongFrame(f.n) \in UpFrames
        BY <1>b DEF DownFrames, UpFrames, IsoPongFrame
      <3>2. up' \in Seq(UpFrames)
        BY <1>e, <2>3, <3>1 DEF IsoTypes
      <3>3. kid' = kid
        BY <1>d, <2>3
      <3>4. log' = [log EXCEPT !.answered = @ \cup {f.n}]
        BY <1>e, <2>3
      <3> QED
        BY <1>b, <2>3, <3>1, <3>2, <3>3, <3>4 DEF IsoTypes, KidRec, LogRec
    <2> QED
      BY <1>b, <2>1, <2>2, <2>3 DEF DownFrames
  <1>m. \A i \in DOMAIN up' : \/ i \in DOMAIN up /\ up'[i] = up[i]
                              \/ f.k = "ping" /\ up'[i] = IsoPongFrame(f.n)
    <2>1. f.n \in Nat /\ IsoPongFrame(f.n) \in UpFrames
      BY <1>b DEF DownFrames, UpFrames, IsoPongFrame
    <2>2. CASE f.k = "ping"
      BY <1>e, <2>1, <2>2 DEF IsoTypes
    <2>3. CASE f.k # "ping"
      BY <1>e, <2>3
    <2> QED
      BY <2>2, <2>3
  <1>n. \A i \in DOMAIN up : i \in DOMAIN up' /\ up'[i] = up[i]
    <2>1. f.n \in Nat /\ IsoPongFrame(f.n) \in UpFrames
      BY <1>b DEF DownFrames, UpFrames, IsoPongFrame
    <2> QED
      BY <1>e, <2>1 DEF IsoTypes
  <1>o. IsoPongFrame(f.n).k = "pong" /\ IsoPongFrame(f.n).n = f.n
    BY DEF IsoPongFrame
  <1>s. Base \in Nat /\ f.n \in Nat /\ log.posted \in Nat /\ log.early \in Nat
    BY <1>b DEF Base, IsoTypes, LogRec, KidRec, DownFrames
  (* The next message is the one behind what was read so far. *)
  <1>p. ASSUME f.k = "msg" PROVE f.n = Base + 1
    <2>1. Base < f.n /\ f.n <= log.posted
      BY <1>b, <1>k, <1>p DEF IsoComplete, IsoInOrder
    <2>2. SUFFICES ASSUME f.n # Base + 1 PROVE FALSE
      OBVIOUS
    <2>3. Base + 1 \in Nat /\ Base < Base + 1 /\ Base + 1 <= log.posted /\ Base + 1 < f.n
      BY <1>s, <2>1, <2>2
    <2>4. \/ \E i \in DOMAIN down : down[i] = PostFrame(Base + 1)
          \/ \E i \in DOMAIN hrt.fifo : hrt.fifo[i] = PostFrame(Base + 1)
      BY <1>b, <2>3 DEF IsoComplete
    <2>5. PostFrame(Base + 1).k = "msg" /\ PostFrame(Base + 1).n = Base + 1
      BY DEF PostFrame
    <2>6. ASSUME NEW i \in DOMAIN down, down[i] = PostFrame(Base + 1) PROVE FALSE
      <3>1. i # 1 /\ 1 < i
        BY <1>c, <1>k, <2>3, <2>5, <2>6
      <3>2. f.n < Base + 1
        BY <1>k, <1>p, <2>5, <2>6, <3>1 DEF IsoInOrder
      <3> QED
        BY <1>s, <2>3, <3>2
    <2>7. ASSUME NEW i \in DOMAIN hrt.fifo, hrt.fifo[i] = PostFrame(Base + 1) PROVE FALSE
      <3>1. f.n < Base + 1
        BY <1>k, <1>p, <2>5, <2>7 DEF IsoInOrder
      <3> QED
        BY <1>s, <2>3, <3>1
    <2> QED
      BY <2>4, <2>6, <2>7
  <1>q. Base' = IF f.k = "msg" THEN Base + 1 ELSE Base
    <2>1. CASE f.k = "msg"
      BY <1>0, <1>s, <2>1 DEF Base, IsoTypes, KidRec, LogRec
    <2>2. CASE f.k # "msg"
      BY <1>0, <2>2 DEF Base
    <2> QED
      BY <2>1, <2>2
  <1>1. IsoTypes'
    BY <1>0, <1>b, <1>c DEF IsoTypes
  <1>2. IsoLife'
    BY <1>0, <1>b DEF IsoLife
  <1>3. IsoTold'
    BY <1>0, <1>b, <1>m, <1>n, <1>o DEF IsoLife, IsoTold
  <1>4. IsoPings'
    <2>1. \A i \in DOMAIN down' : down'[i].k = "ping" => down'[i].n <= hrt'.ping_seq
      BY <1>b, <1>c DEF IsoPings
    <2>2. \A i \in DOMAIN up' : up'[i].k = "pong" => up'[i].n <= hrt'.ping_seq
                                                    /\ up'[i].n \in log'.answered
      BY <1>0, <1>b, <1>k, <1>m, <1>o DEF IsoPings
    <2> QED
      BY <1>0, <1>b, <2>1, <2>2 DEF IsoPings
  <1>5. IsoAsked'
    BY <1>0, <1>b, <1>c, <1>k, <1>m, <1>o, SMTT(30) DEF Asking, IsoAsked
  <1>6. IsoInOrder'
    <2>1. \A i, j \in DOMAIN down' : i < j => i + 1 \in DOMAIN down /\ j + 1 \in DOMAIN down
              /\ i + 1 < j + 1 /\ down'[i] = down[i + 1] /\ down'[j] = down[j + 1]
      BY <1>b, <1>c
    <2> QED
      BY <1>0, <1>b, <1>c, <2>1 DEF IsoInOrder
  <1>7. IsoComplete'
    <2>1. ASSUME NEW n \in Nat, Base' < n, n <= log'.posted
          PROVE  \/ \E i \in DOMAIN down' : down'[i] = PostFrame(n)
                 \/ \E i \in DOMAIN hrt'.fifo : hrt'.fifo[i] = PostFrame(n)
      <3>1. Base < n /\ n <= log.posted /\ (f.k = "msg" => f.n < n)
        BY <1>0, <1>p, <1>q, <1>s, <2>1
      <3>2. f # PostFrame(n)
        BY <1>s, <3>1 DEF PostFrame
      <3>3. \/ \E i \in DOMAIN down : down[i] = PostFrame(n)
            \/ \E i \in DOMAIN hrt.fifo : hrt.fifo[i] = PostFrame(n)
        <4>1. kid.st # "gone"
          BY <1>b
        <4>2. \A m \in Nat : Base < m /\ m <= log.posted =>
                  \/ \E i \in DOMAIN down : down[i] = PostFrame(m)
                  \/ \E i \in DOMAIN hrt.fifo : hrt.fifo[i] = PostFrame(m)
          BY <4>1 DEF IsoComplete
        <4> HIDE DEF IsoInv
        <4> QED
          BY <3>1, <4>2
      <3>4. ASSUME NEW i \in DOMAIN down, down[i] = PostFrame(n)
            PROVE  \E j \in DOMAIN down' : down'[j] = PostFrame(n)
        <4>1. i # 1
          BY <1>k, <3>2, <3>4
        <4>2. i - 1 \in DOMAIN down' /\ down'[i - 1] = PostFrame(n)
          BY <1>c, <3>4, <4>1
        <4> QED
          BY <4>2
      <3>5. hrt' = hrt
        BY <1>b
      <3> QED
        BY <3>3, <3>4, <3>5
    <2>2. ASSUME NEW i \in DOMAIN down', down'[i].k = "msg" PROVE Base' < down'[i].n
      <3>1. i + 1 \in DOMAIN down /\ down'[i] = down[i + 1] /\ 1 < i + 1 /\ down[i + 1].n \in Nat
        BY <1>b, <1>c, FrameTypes
      <3>2. Base < down[i + 1].n
        BY <1>b, <2>2, <3>1 DEF IsoComplete
      <3>3. f.k = "msg" => f.n < down[i + 1].n
        BY <1>k, <2>2, <3>1 DEF IsoInOrder
      <3> QED
        BY <1>p, <1>q, <1>s, <3>1, <3>2, <3>3
    <2>3. ASSUME NEW i \in DOMAIN hrt.fifo, hrt.fifo[i].k = "msg" PROVE Base' < hrt.fifo[i].n
      <3>1. hrt.fifo[i].n \in Nat
        BY FrameTypes
      <3>2. Base < hrt.fifo[i].n
        BY <1>b, <2>3 DEF IsoComplete
      <3>3. f.k = "msg" => f.n < hrt.fifo[i].n
        BY <1>k, <2>3 DEF IsoInOrder
      <3> QED
        BY <1>p, <1>q, <1>s, <3>1, <3>2, <3>3
    <2>4. Base' <= log'.posted
      <3>1. Base <= log.posted /\ (f.k = "msg" => f.n <= log.posted)
        BY <1>b, <1>k DEF IsoComplete, IsoInOrder
      <3> QED
        BY <1>0, <1>p, <1>q, <3>1
    <2> QED
      BY <1>b, <2>1, <2>2, <2>3, <2>4 DEF IsoComplete
  <1>8. IsoServed'
    <2>1. \A i \in DOMAIN kid'.q : kid'.q[i] = Len(log'.served) + i
      <3>1. CASE f.k = "msg"
        <4>1. PICK q \in Seq(Nat), s \in Seq(Nat), m \in Nat :
                  q = kid.q /\ s = log.served /\ m = f.n
          BY <1>s, IsoFields
        <4>2. kid'.q = Append(q, m) /\ m = (Len(s) + Len(q)) + 1
          BY <1>0, <1>p, <3>1, <4>1 DEF Base
        <4>3. /\ Len(s) \in Nat /\ Len(q) \in Nat
              /\ \A i \in DOMAIN Append(q, m) :
                    \/ i \in DOMAIN q /\ Append(q, m)[i] = q[i]
                    \/ i = Len(q) + 1 /\ Append(q, m)[i] = m
          BY <4>1, AppendAt
        <4>4. m = Len(s) + (Len(q) + 1)
          BY <4>2, <4>3
        <4>5. \A i \in DOMAIN q : q[i] = Len(s) + i
          BY <4>1 DEF IsoServed
        <4>6. \A i \in DOMAIN Append(q, m) : Append(q, m)[i] = Len(s) + i
          BY <4>3, <4>4, <4>5
        <4> QED
          BY <1>0, <4>1, <4>2, <4>6
      <3>2. CASE f.k # "msg"
        BY <1>0, <3>2 DEF IsoServed
      <3> QED
        BY <3>1, <3>2
    <2>2. kid'.wait_idle => log'.early <= Base'
      <3>1. CASE f.k = "idle"
        <4>1. SUFFICES ASSUME Base < log.early PROVE FALSE
          BY <1>0, <1>q, <1>s, <3>1
        <4>2. Base + 1 <= log.posted /\ Base + 1 \in Nat /\ Base < Base + 1 /\ Base + 1 <= log.early
          BY <1>s, <4>1 DEF IsoServed
        <4>3. \/ \E i \in DOMAIN down : down[i] = PostFrame(Base + 1)
              \/ \E i \in DOMAIN hrt.fifo : hrt.fifo[i] = PostFrame(Base + 1)
          BY <1>b, <4>2 DEF IsoComplete
        <4>4. PostFrame(Base + 1).k = "msg" /\ PostFrame(Base + 1).n = Base + 1
          BY DEF PostFrame
        <4>5. ASSUME NEW i \in DOMAIN down, down[i] = PostFrame(Base + 1) PROVE FALSE
          <5>1. i # 1 /\ 1 < i
            BY <1>c, <1>k, <3>1, <4>4, <4>5
          <5>2. log.early < Base + 1
            BY <1>k, <3>1, <4>4, <4>5, <5>1 DEF IsoInOrder
          <5> QED
            BY <1>s, <4>2, <5>2
        <4>6. ASSUME NEW i \in DOMAIN hrt.fifo, hrt.fifo[i] = PostFrame(Base + 1) PROVE FALSE
          <5>1. log.early < Base + 1
            BY <1>k, <3>1, <4>4, <4>6 DEF IsoInOrder
          <5> QED
            BY <1>s, <4>2, <5>1
        <4> QED
          BY <4>3, <4>5, <4>6
      <3>2. CASE f.k # "idle"
        BY <1>0, <1>q, <1>s, <3>2 DEF IsoServed
      <3> QED
        BY <3>1, <3>2
    <2>3. \A i \in DOMAIN up' : up'[i].k = "ack" => log'.early <= Len(log'.served)
      BY <1>0, <1>m, <1>o DEF IsoServed
    <2> QED
      BY <1>0, <1>b, <2>1, <2>2, <2>3 DEF IsoServed
  <1> QED
    BY <1>1, <1>2, <1>3, <1>4, <1>5, <1>6, <1>7, <1>8

LEMMA KidDispatchKeeps ==
    ASSUME IsoInv, NEW b \in BOOLEAN, KidDispatch(b) PROVE IsoInv'
  <1> USE DEF IsoInv
  <1>a. PICK q \in Seq(Nat), s \in Seq(Nat), m \in Nat :
            q = kid.q /\ s = log.served /\ m = Head(q) /\ q # << >>
    <2>1. PICK q \in Seq(Nat), s \in Seq(Nat) : q = kid.q /\ s = log.served
      BY IsoFields
    <2>2. q # << >>
      BY <2>1 DEF KidDispatch
    <2>3. Head(q) \in Nat
      BY <2>2, TailAt
    <2> QED
      BY <2>1, <2>2, <2>3
  <1>b. /\ kid' = [kid EXCEPT !.q = Tail(q), !.sent = IF b THEN kid.sent + 1 ELSE kid.sent]
        /\ log' = [log EXCEPT !.served = Append(s, m)]
        /\ UNCHANGED <<api, lp, hrt, down>> /\ kid.st = "run"
        /\ up' = IF b THEN Append(up, Ctl("msg")) ELSE up
    BY <1>a DEF KidDispatch
  <1>c. /\ Tail(q) \in Seq(Nat) /\ Append(s, m) \in Seq(Nat) /\ Len(s) \in Nat /\ Len(q) \in Nat
        /\ Len(Append(s, m)) = Len(s) + 1 /\ Len(Tail(q)) = Len(q) - 1
        /\ 1 \in DOMAIN q /\ m = q[1]
        /\ \A i \in DOMAIN Tail(q) : i + 1 \in DOMAIN q /\ Tail(q)[i] = q[i + 1] /\ i \in Nat
        /\ \A i \in DOMAIN Append(s, m) : \/ i \in DOMAIN s /\ Append(s, m)[i] = s[i]
                                          \/ i = Len(s) + 1 /\ Append(s, m)[i] = m
    BY <1>a, AppendAt, TailAt, SMTT(30)
  <1>0. /\ hrt' = hrt /\ kid' \in KidRec /\ log' \in LogRec
        /\ kid'.st = kid.st /\ kid'.wait_idle = kid.wait_idle /\ kid'.reaped = kid.reaped
        /\ kid'.q = Tail(q) /\ log'.served = Append(s, m)
        /\ log'.posted = log.posted /\ log'.early = log.early
        /\ log'.answered = log.answered /\ log'.crashes = log.crashes
        /\ log'.died = log.died /\ log'.evaled = log.evaled /\ log'.joins = log.joins
        /\ log'.wrong = log.wrong
    BY <1>b, <1>c, IsoFields DEF IsoTypes, KidRec, LogRec
  <1>d. Ctl("msg") \in UpFrames /\ Ctl("msg").k = "msg"
    BY DEF Ctl, UpFrames
  <1>e. /\ up' \in Seq(UpFrames)
        /\ \A i \in DOMAIN up' : (i \in DOMAIN up /\ up'[i] = up[i]) \/ up'[i] = Ctl("msg")
        /\ \A i \in DOMAIN up : i \in DOMAIN up' /\ up'[i] = up[i]
    <2>1. CASE b
      BY <1>b, <1>d, <2>1, UpAppend
    <2>2. CASE ~b
      BY <1>b, <2>2 DEF IsoTypes
    <2> QED
      BY <2>1, <2>2
  <1>f. Base' = Base
    <2>1. Base = Len(s) + Len(q) /\ Base' = Len(Append(s, m)) + Len(Tail(q))
      BY <1>0, <1>a DEF Base
    <2> QED
      BY <1>c, <2>1
  <1>1. IsoTypes'
    BY <1>0, <1>b, <1>e DEF IsoTypes
  <1>2. IsoLife'
    BY <1>0, <1>b DEF IsoLife
  <1>3. IsoTold'
    BY <1>0, <1>b, <1>d, <1>e DEF IsoTold
  <1>4. IsoPings'
    BY <1>0, <1>b, <1>d, <1>e DEF IsoPings
  <1>5. IsoAsked'
    BY <1>0, <1>b, <1>d, <1>e DEF IsoAsked, Asking
  <1>6. IsoInOrder'
    BY <1>0, <1>b, OrderSame
  <1>7. IsoComplete'
    BY <1>0, <1>b, <1>f DEF IsoComplete
  <1>8. IsoServed'
    <2>1. m = Len(s) + 1
      BY <1>a, <1>c DEF IsoServed
    <2>2. \A i \in DOMAIN Append(s, m) : Append(s, m)[i] = i
      BY <1>a, <1>c, <2>1 DEF IsoServed
    <2>3. \A i \in DOMAIN Tail(q) : Tail(q)[i] = Len(s) + 1 + i
      <3>1. \A i \in DOMAIN Tail(q) : Tail(q)[i] = Len(s) + (i + 1)
        BY <1>a, <1>c DEF IsoServed
      <3> QED
        BY <1>c, <3>1
    <2>4. log.early <= Len(s) => log.early <= Len(s) + 1
      BY <1>c, IsoFields
    <2>5. \A i \in DOMAIN up' : up'[i].k = "ack" => log.early <= Len(s) + 1
      BY <1>a, <1>d, <1>e, <2>4 DEF IsoServed
    <2>6. hrt.idle_ack => log.early <= Len(s) + 1
      BY <1>a, <2>4 DEF IsoServed
    <2>7. kid'.wait_idle => log.early <= Base'
      BY <1>0, <1>f DEF IsoServed
    <2>8. log'.early <= log'.posted
      BY <1>0 DEF IsoServed
    <2> QED
      BY <1>0, <1>b, <1>c, <2>2, <2>3, <2>5, <2>6, <2>7, <2>8 DEF IsoServed
  <1> QED
    BY <1>1, <1>2, <1>3, <1>4, <1>5, <1>6, <1>7, <1>8

LEMMA KidIdleKeeps ==
    ASSUME IsoInv, KidIdle PROVE IsoInv'
  <1> USE DEF IsoInv
  <1>0. /\ hrt' = hrt
        /\ kid' \in KidRec
        /\ kid'.st = "gone"
        /\ kid'.q = kid.q /\ kid'.wait_idle = kid.wait_idle /\ kid'.reaped = kid.reaped
        /\ kid'.sent = kid.sent
        /\ log' = log
    BY IsoFields, IsoAssumption DEF IsoTypes, HostRec, KidRec, LogRec, KidIdle,
       DownFrames, PostFrame, Ctl
  <1>a. Ctl("ack") \in UpFrames /\ up' = Append(up, Ctl("ack"))
    BY DEF KidIdle, Ctl, UpFrames
  <1>b. /\ up' \in Seq(UpFrames)
        /\ \A i \in DOMAIN up' : (i \in DOMAIN up /\ up'[i] = up[i]) \/ up'[i] = Ctl("ack")
        /\ \A i \in DOMAIN up : i \in DOMAIN up' /\ up'[i] = up[i]
        /\ \E i \in DOMAIN up' : up'[i] = Ctl("ack")
    BY <1>a, UpAppend
  <1>c. Ctl("ack").k = "ack"
    BY DEF Ctl
  <1>d. /\ kid.st = "run" /\ kid.wait_idle /\ kid.q = << >>
        /\ UNCHANGED <<api, lp, hrt, down, log>>
    BY DEF KidIdle
  <1>1. IsoTypes'
    BY <1>0, <1>b, <1>d DEF IsoTypes
  <1>2. IsoLife'
    BY <1>0 DEF IsoTypes, HostRec, KidRec, LogRec, IsoLife, KidIdle
  <1>3. IsoTold'
    <2>1. \A i \in DOMAIN up' : up'[i].k = "ready" => log'.evaled
      BY <1>b, <1>c, <1>d DEF IsoTold
    <2>2. \E i \in DOMAIN up' : up'[i].k = "ack"
      BY <1>b, <1>c
    <2> QED
      BY <1>0, <1>d, <2>1, <2>2 DEF IsoTold
  <1>4. IsoPings'
    BY <1>0, <1>b, <1>c, <1>d DEF IsoPings
  <1>5. IsoAsked'
    BY <1>0, <1>b, <1>c, <1>d DEF IsoAsked, Asking
  <1>6. IsoInOrder'
    BY <1>0, OrderSame DEF KidIdle
  <1>7. IsoComplete'
    BY <1>0, CompleteSame DEF IsoLife, KidIdle
  <1>8. IsoServed'
    <2>1. log.early <= Len(log.served)
      <3>1. Len(kid.q) = 0
        BY <1>d
      <3> QED
        BY <1>d, <3>1, IsoFields DEF IsoServed, Base
    <2>2. Base' = Base
      BY <1>0, <1>d DEF Base
    <2> QED
      BY <1>0, <1>b, <1>d, <2>1, <2>2 DEF IsoServed
  <1> QED
    BY <1>1, <1>2, <1>3, <1>4, <1>5, <1>6, <1>7, <1>8

LEMMA KidCrashKeeps ==
    ASSUME IsoInv, KidCrash PROVE IsoInv'
  <1> USE DEF IsoInv
  <1>0. /\ hrt' = hrt
        /\ kid' \in KidRec
        /\ kid'.st = "gone"
        /\ kid'.q = kid.q /\ kid'.wait_idle = kid.wait_idle /\ kid'.reaped = kid.reaped
        /\ kid'.sent = kid.sent
        /\ log' \in LogRec
        /\ log'.died = TRUE
        /\ log'.posted = log.posted /\ log'.early = log.early /\ log'.served = log.served
        /\ log'.answered = log.answered /\ log'.crashes = log.crashes
        /\ log'.evaled = log.evaled /\ log'.joins = log.joins /\ log'.wrong = log.wrong
        /\ log'.stale = log.stale
    BY IsoFields, IsoAssumption DEF IsoTypes, HostRec, KidRec, LogRec, KidCrash,
       DownFrames, PostFrame, Ctl
  <1>1. IsoTypes'
    BY <1>0 DEF IsoTypes, DownFrames, UpFrames, PostFrame, Ctl, KidCrash
  <1>2. IsoLife'
    BY <1>0 DEF IsoTypes, HostRec, KidRec, LogRec, IsoLife, KidCrash
  <1>3. IsoTold'
    BY <1>0 DEF IsoTypes, HostRec, KidRec, LogRec, IsoLife, IsoTold, KidCrash
  <1>4. IsoPings'
    BY <1>0 DEF IsoTypes, HostRec, KidRec, LogRec, IsoPings, KidCrash
  <1>5. IsoAsked'
    BY <1>0 DEF IsoTypes, HostRec, KidRec, LogRec, Asking, IsoAsked, KidCrash
  <1>6. IsoInOrder'
    BY <1>0, OrderSame DEF KidCrash
  <1>7. IsoComplete'
    BY <1>0, CompleteSame DEF IsoLife, KidCrash
  <1>8. IsoServed'
    BY <1>0, ServedSame DEF KidCrash
  <1> QED
    BY <1>1, <1>2, <1>3, <1>4, <1>5, <1>6, <1>7, <1>8

-----------------------------------------------------------------------------
(* The theorems *)

LEMMA IsoInitHolds == IsoInit => IsoInv
  <1> SUFFICES ASSUME IsoInit PROVE IsoInv
    OBVIOUS
  <1> USE DEF IsoInit
  <1>1. << >> \in Seq(Nat) /\ << >> \in Seq(DownFrames) /\ << >> \in Seq(UpFrames)
    OBVIOUS
  <1>2. Len(<< >>) = 0 /\ DOMAIN << >> = {}
    OBVIOUS
  <1>3. IsoTypes
    BY <1>1 DEF IsoTypes, HostRec, KidRec, LogRec
  <1>4. IsoLife /\ IsoTold
    BY <1>2 DEF IsoLife, IsoTold
  <1>5. IsoPings /\ IsoAsked /\ IsoInOrder
    BY <1>2 DEF IsoPings, IsoAsked, IsoInOrder
  <1>6. Base = 0
    BY <1>2 DEF Base
  <1>7. IsoComplete
    BY <1>2, <1>6 DEF IsoComplete
  <1>8. IsoServed
    BY <1>2, <1>6 DEF IsoServed
  <1> QED
    BY <1>3, <1>4, <1>5, <1>7, <1>8 DEF IsoInv

LEMMA IsoStutterKeeps == IsoInv /\ UNCHANGED isoVars => IsoInv'
  <1> SUFFICES ASSUME IsoInv, UNCHANGED isoVars PROVE IsoInv'
    OBVIOUS
  <1> USE DEF IsoInv, isoVars
  <1>1. IsoTypes' /\ IsoLife' /\ IsoTold'
    BY DEF IsoTypes, IsoLife, IsoTold
  <1>2. IsoPings' /\ IsoAsked'
    BY DEF IsoPings, IsoAsked, Asking
  <1>3. IsoInOrder' /\ IsoComplete' /\ IsoServed'
    BY OrderSame, CompleteSame, ServedSame
  <1> QED
    BY <1>1, <1>2, <1>3

LEMMA IsoNextKeeps == IsoInv /\ [IsoNext]_isoVars => IsoInv'
  <1> SUFFICES ASSUME IsoInv, [IsoNext]_isoVars PROVE IsoInv'
    OBVIOUS
  <1>1. CASE IsoHost
    BY <1>1, HostStartKeeps, HostStartFailsKeeps, HostReadyKeeps, HostJoinKeeps,
       HostPostKeeps, HostWaitIdleKeeps, HostIdleJoinKeeps, HostPingKeeps,
       HostPingPostKeeps, HostPingOkKeeps, HostPingGivesUpKeeps, HostDestroyKeeps
    DEF IsoHost
  <1>2. CASE IsoLoop
    BY <1>2, LoopWakeKeeps, LoopDrainKeeps, LoopReadKeeps, LoopEofKeeps, LoopEndKeeps
    DEF IsoLoop
  <1>3. CASE IsoKid
    BY <1>3, KidBootFailsKeeps, KidReadKeeps, KidIdleKeeps, KidBootKeeps,
       KidDispatchKeeps
    DEF IsoKid
  <1>4. CASE KidCrash
    BY <1>4, KidCrashKeeps
  <1>5. CASE UNCHANGED isoVars
    BY <1>5, IsoStutterKeeps
  <1> QED
    BY <1>1, <1>2, <1>3, <1>4, <1>5 DEF IsoNext

(* The invariant holds in every state that the three actors reach. *)
THEOREM IsoInvHolds == IsoSpec => []IsoInv
  BY IsoInitHolds, IsoNextKeeps, PTL DEF IsoSpec

LEMMA IsoInvTells == IsoInv => HostIsToldTheTruth
  <1> SUFFICES ASSUME IsoInv PROVE HostIsToldTheTruth
    OBVIOUS
  <1>1. CreateIsTruthful /\ CrashIsTrue /\ IsoPingTruthful
    BY DEF IsoInv, IsoTold, IsoPings, CreateIsTruthful, CrashIsTrue, IsoPingTruthful
  <1>2. api = "idled" /\ hrt.idle_ack => Len(log.served) >= log.early
    BY IsoFields DEF IsoInv, IsoServed
  <1>3. log.served = [i \in 1 .. Len(log.served) |-> i]
    <2>1. PICK s \in Seq(Nat) : s = log.served
      BY IsoFields DEF IsoInv
    <2>2. \A i \in 1 .. Len(s) : s[i] = i
      BY <2>1 DEF IsoInv, IsoServed
    <2>3. s = [i \in 1 .. Len(s) |-> s[i]]
      OBVIOUS
    <2> QED
      BY <2>1, <2>2, <2>3
  <1> QED
    BY <1>1, <1>2, <1>3 DEF HostIsToldTheTruth, IdleServesEarlier

LEMMA IsoInvEnds == IsoInv => ChildEndsOnce
  <1> SUFFICES ASSUME IsoInv PROVE ChildEndsOnce
    OBVIOUS
  <1>1. IsoTypeOK
    <2>1. /\ \A i \in DOMAIN down : down[i] \in DownFrames
          /\ \A i \in DOMAIN up : up[i] \in UpFrames
      BY FrameTypes DEF IsoInv
    <2> QED
      BY <2>1 DEF IsoInv, IsoTypes, IsoTypeOK, HostRec, KidRec, DownFrames, UpFrames
  <1>2. LoopJoinedOnce /\ NoOrphan
    BY DEF IsoInv, IsoLife, LoopJoinedOnce, NoOrphan
  <1> QED
    BY <1>1, <1>2 DEF ChildEndsOnce

(* Whatever the host is told of the child is true, for any number of posts,    *)
(* pings and echoes, wherever the child dies: qz_create succeeds only after the *)
(* initial program did, a crash is reported at most once and only when there    *)
(* was one, a ping that succeeds was answered, and an answered qz_wait_idle has  *)
(* served the earlier posts in order (host_proc_msg_cb, process_rx).            *)
THEOREM HostHearsTheTruth == IsoSpec => []HostIsToldTheTruth
  BY IsoInvHolds, IsoInvTells, PTL

(* However qz_create, qz_wait_idle and qz_destroy end, the loop thread is       *)
(* joined once and no child process is left behind (host_stop_thread,           *)
(* host_thread_main).                                                           *)
THEOREM NoChildLeftBehind == IsoSpec => []ChildEndsOnce
  BY IsoInvHolds, IsoInvEnds, PTL

-----------------------------------------------------------------------------
(* Requests of storage on their way through a worker *)

(* Every set of numbers that is not empty has a least one. *)
LEMMA Least ==
    ASSUME NEW S, S \subseteq Nat, S # {}
    PROVE  \E m \in S : \A n \in S : m <= n
  <1>1. PICK m \in S : \A n \in S : ~(<<n, m>> \in OpToRel(<, Nat))
    BY NatLessThanWellFounded, WFMin, Zenon
  <1>2. ASSUME NEW n \in S, ~(m <= n) PROVE FALSE
    <2>1. n \in Nat /\ m \in Nat /\ n < m
      BY <1>2
    <2>2. <<n, m>> \in OpToRel(<, Nat)
      BY <2>1 DEF OpToRel
    <2> QED
      BY <1>1, <1>2, <2>2, Zenon
  <1> QED
    BY <1>2

RelaySpec == RelayInit /\ [][RelayNext]_relayVars

Frames == [corr : Nat, for : Procs]
SlotRec == [up : Nat, down : Nat, child : Procs]
Lives == {"none", "run", "dead"}

RelayTypes ==
    /\ life \in [Procs \cup {"owner"} -> Lives]
    /\ seq \in [Procs -> Nat] /\ wait \in [Procs -> Nat]
    /\ relays \in [1 .. MaxRelays -> SlotRec]
    /\ kidUp \in [Kids -> Seq(Frames)] /\ kidDown \in [Kids -> Seq(Frames)]
    /\ ownUp \in Seq(Frames) /\ ownDown \in Seq(Frames)
    /\ answers \in [Procs -> Seq(Procs)] /\ refused \subseteq Kids
    /\ \A p \in Procs : wait[p] <= seq[p]

(* What is on the channel of a child is the child's. *)
KidFrames ==
    \A c \in Kids :
        /\ \A k \in DOMAIN kidUp[c] : kidUp[c][k].for = c
        /\ \A k \in DOMAIN kidDown[c] : kidDown[c][k].for = c

(* A frame between relay and owner has a number that the relay has used: its   *)
(* own call's if the relay waits under that number, a child's if a slot names it. *)
Numbered(f) ==
    /\ f.corr \in 1 .. seq[RelayId]
    /\ f.corr = wait[RelayId] => f.for = RelayId
    /\ \A i \in 1 .. MaxRelays : relays[i].up = f.corr => relays[i].child = f.for

OwnFrames ==
    /\ \A k \in DOMAIN ownUp : Numbered(ownUp[k])
    /\ \A k \in DOMAIN ownDown : Numbered(ownDown[k])

(* A number is in one slot, which is a child's. *)
SlotsDiffer ==
    /\ \A i \in 1 .. MaxRelays : relays[i].up <= seq[RelayId]
    /\ \A i \in 1 .. MaxRelays : relays[i].up # 0 => relays[i].child \in Kids
    /\ \A i, j \in 1 .. MaxRelays : i # j /\ relays[i].up # 0 => relays[i].up # relays[j].up

RelayInv ==
    /\ RelayTypes /\ KidFrames /\ OwnFrames /\ SlotsDiffer
    /\ SyncAnswerIsOwn /\ SlotsAreInFlight

LEMMA RelayIds ==
    /\ RelayId \in Procs /\ RelayId \notin Kids /\ Kids \subseteq Procs
    /\ "owner" \notin Procs /\ "owner" # RelayId
  BY RelayAssumption DEF Procs, RelayId

(* What a longer and a shorter queue of frames hold. *)
LEMMA AppendFrame ==
    ASSUME NEW s \in Seq(Frames), NEW f \in Frames
    PROVE  /\ Append(s, f) \in Seq(Frames)
           /\ \A k \in DOMAIN Append(s, f) :
                 \/ k \in DOMAIN s /\ Append(s, f)[k] = s[k]
                 \/ Append(s, f)[k] = f
           /\ \A k \in DOMAIN s : k \in DOMAIN Append(s, f) /\ Append(s, f)[k] = s[k]
           /\ Len(s) + 1 \in DOMAIN Append(s, f) /\ Append(s, f)[Len(s) + 1] = f
  OBVIOUS

LEMMA TailFrames ==
    ASSUME NEW s \in Seq(Frames), s # << >>
    PROVE  /\ Tail(s) \in Seq(Frames) /\ Head(s) \in Frames
           /\ 1 \in DOMAIN s /\ Head(s) = s[1]
           /\ \A k \in DOMAIN Tail(s) : k + 1 \in DOMAIN s /\ Tail(s)[k] = s[k + 1]
           /\ \A k \in DOMAIN s : k # 1 => k - 1 \in DOMAIN Tail(s) /\ Tail(s)[k - 1] = s[k]
  OBVIOUS

LEMMA FrameIsOne ==
    ASSUME NEW corr \in Nat, NEW p \in Procs
    PROVE  Frame(corr, p) \in Frames /\ Frame(corr, p).corr = corr /\ Frame(corr, p).for = p
  BY DEF Frame, Frames

-----------------------------------------------------------------------------
(* Steps that leave numbers, slots and the relay's wait alone *)

LEMMA KidSpawnsKeeps ==
    ASSUME RelayInv, NEW c \in Kids, KidSpawns(c) PROVE RelayInv'
  <1>1. life' \in [Procs \cup {"owner"} -> Lives]
    BY DEF KidSpawns, RelayInv, RelayTypes, Lives
  <1>2. UNCHANGED <<seq, wait, relays, kidUp, kidDown, ownUp, ownDown, answers, refused>>
    BY DEF KidSpawns
  <1>3. RelayTypes'
    BY <1>1, <1>2 DEF RelayInv, RelayTypes
  <1>4. KidFrames' /\ SlotsDiffer'
    BY <1>2 DEF RelayInv, KidFrames, SlotsDiffer
  <1>5. OwnFrames'
    BY <1>2 DEF RelayInv, OwnFrames, Numbered
  <1>6. SyncAnswerIsOwn' /\ SlotsAreInFlight'
    BY <1>2 DEF RelayInv, SyncAnswerIsOwn, SlotsAreInFlight
  <1> QED
    BY <1>3, <1>4, <1>5, <1>6 DEF RelayInv

LEMMA KidDiesKeeps ==
    ASSUME RelayInv, NEW c \in Kids, KidDies(c) PROVE RelayInv'
  <1>1. /\ life' \in [Procs \cup {"owner"} -> Lives]
        /\ wait' \in [Procs -> Nat] /\ wait'[RelayId] = wait[RelayId]
        /\ \A p \in Procs : wait'[p] <= seq[p]
    BY RelayIds DEF KidDies, RelayInv, RelayTypes, Lives
  <1>2. /\ kidUp' \in [Kids -> Seq(Frames)] /\ kidDown' \in [Kids -> Seq(Frames)]
        /\ \A d \in Kids : kidUp'[d] = kidUp[d] \/ kidUp'[d] = << >>
        /\ \A d \in Kids : kidDown'[d] = kidDown[d] \/ kidDown'[d] = << >>
    BY DEF KidDies, RelayInv, RelayTypes
  <1>3. UNCHANGED <<seq, relays, ownUp, ownDown, answers, refused>>
    BY DEF KidDies
  <1>4. KidFrames'
    <2>1. ASSUME NEW d \in Kids
          PROVE  /\ \A k \in DOMAIN kidUp'[d] : kidUp'[d][k].for = d
                 /\ \A k \in DOMAIN kidDown'[d] : kidDown'[d][k].for = d
      <3>1. DOMAIN << >> = {}
        OBVIOUS
      <3>2. kidUp'[d] = kidUp[d] \/ kidUp'[d] = << >>
        BY <1>2
      <3>3. kidDown'[d] = kidDown[d] \/ kidDown'[d] = << >>
        BY <1>2
      <3>4. /\ \A k \in DOMAIN kidUp[d] : kidUp[d][k].for = d
            /\ \A k \in DOMAIN kidDown[d] : kidDown[d][k].for = d
        BY DEF RelayInv, KidFrames
      <3> QED
        BY <3>1, <3>2, <3>3, <3>4, Zenon
    <2> QED
      BY <2>1 DEF KidFrames
  <1>5. RelayTypes'
    BY <1>1, <1>2, <1>3 DEF RelayInv, RelayTypes
  <1> QED
    BY <1>1, <1>3, <1>4, <1>5 DEF RelayInv, OwnFrames, Numbered, SlotsDiffer,
       SyncAnswerIsOwn, SlotsAreInFlight

LEMMA EndsKeep ==
    ASSUME RelayInv, OwnerDies \/ \E p \in Procs : Orphan(p) PROVE RelayInv'
  <1>1. /\ life' \in [Procs \cup {"owner"} -> Lives]
        /\ wait' \in [Procs -> Nat] /\ wait'[RelayId] \in {wait[RelayId], 0}
        /\ \A p \in Procs : wait'[p] <= seq[p]
    <2>1. CASE OwnerDies
      BY <2>1, RelayIds DEF OwnerDies, RelayInv, RelayTypes, Lives
    <2>2. ASSUME NEW p \in Procs, Orphan(p)
          PROVE  /\ life' = [life EXCEPT ![p] = "dead"] /\ wait' = [wait EXCEPT ![p] = 0]
      BY <2>2 DEF Orphan
    <2>3. ASSUME NEW p \in Procs, Orphan(p) 
          PROVE  /\ life' \in [Procs \cup {"owner"} -> Lives]
                 /\ wait' \in [Procs -> Nat] /\ wait'[RelayId] \in {wait[RelayId], 0}
                 /\ \A q \in Procs : wait'[q] <= seq[q]
      <3>1. /\ life \in [Procs \cup {"owner"} -> Lives] /\ seq \in [Procs -> Nat]
            /\ wait \in [Procs -> Nat] /\ \A q \in Procs : wait[q] <= seq[q]
        BY DEF RelayInv, RelayTypes
      <3>2. life' = [life EXCEPT ![p] = "dead"] /\ wait' = [wait EXCEPT ![p] = 0]
        BY <2>2, <2>3
      <3>3. life' \in [Procs \cup {"owner"} -> Lives]
        BY <3>1, <3>2 DEF Lives
      <3>4. wait' \in [Procs -> Nat] /\ \A q \in Procs : wait'[q] \in {wait[q], 0}
        BY <3>1, <3>2
      <3> QED
        BY <3>1, <3>3, <3>4, RelayIds
    <2> QED
      BY <2>1, <2>3
  <1>2. UNCHANGED <<seq, relays, kidUp, kidDown, ownUp, ownDown, answers, refused>>
    BY DEF OwnerDies, Orphan
  <1>3. RelayTypes' /\ KidFrames' /\ SlotsDiffer' /\ SyncAnswerIsOwn' /\ SlotsAreInFlight'
    BY <1>1, <1>2 DEF RelayInv, RelayTypes, KidFrames, SlotsDiffer, SyncAnswerIsOwn,
       SlotsAreInFlight
  <1>4. ASSUME NEW f, Numbered(f) PROVE Numbered(f)'
    BY <1>1, <1>2, <1>4 DEF Numbered
  <1>5. OwnFrames'
    BY <1>2, <1>4 DEF RelayInv, OwnFrames
  <1> QED
    BY <1>3, <1>5 DEF RelayInv

(* A call: the frame carries a number that nothing else has. *)
LEMMA StorageSyncKeeps ==
    ASSUME RelayInv, NEW p \in Procs, StorageSync(p) PROVE RelayInv'
  <1>0. /\ RelayTypes /\ KidFrames /\ OwnFrames /\ SlotsDiffer /\ SyncAnswerIsOwn
        /\ SlotsAreInFlight
    BY DEF RelayInv
  <1>1. /\ UNCHANGED <<life, relays, kidDown, ownDown, answers, refused>>
        /\ seq' = [seq EXCEPT ![p] = @ + 1] /\ wait' = [wait EXCEPT ![p] = seq[p] + 1]
    BY DEF StorageSync
  <1>2. /\ seq \in [Procs -> Nat] /\ wait \in [Procs -> Nat] /\ seq[p] \in Nat
        /\ \A q \in Procs : wait[q] <= seq[q]
    BY <1>0 DEF RelayTypes
  <1>3. /\ seq' \in [Procs -> Nat] /\ wait' \in [Procs -> Nat]
        /\ \A q \in Procs : wait'[q] <= seq'[q] /\ seq[q] <= seq'[q]
    BY <1>1, <1>2
  <1>4. PICK f \in Frames : f = Frame(seq[p] + 1, p) /\ f.corr = seq[p] + 1 /\ f.for = p
    BY <1>2, FrameIsOne
  <1>5. CASE p = RelayId
    <2>1. ownUp' = Append(ownUp, f) /\ kidUp' = kidUp /\ ownUp \in Seq(Frames)
      BY <1>0, <1>4, <1>5 DEF StorageSync, RelayTypes
    <2>2. /\ ownUp' \in Seq(Frames)
          /\ \A k \in DOMAIN ownUp' : (k \in DOMAIN ownUp /\ ownUp'[k] = ownUp[k]) \/ ownUp'[k] = f
          /\ \A k \in DOMAIN ownUp : k \in DOMAIN ownUp' /\ ownUp'[k] = ownUp[k]
      BY <2>1, AppendFrame
    <2>3. seq'[RelayId] = seq[RelayId] + 1 /\ wait'[RelayId] = seq[RelayId] + 1
      BY <1>1, <1>2, <1>5
    <2>4. Numbered(f)'
      BY <1>1, <1>2, <1>4, <1>5, <2>3, <1>0 DEF Numbered, SlotsDiffer, RelayTypes, SlotRec
    <2>5. ASSUME NEW g, Numbered(g) PROVE Numbered(g)'
      BY <1>1, <1>2, <1>5, <2>3, <2>5 DEF Numbered
    <2>6. OwnFrames'
      BY <1>0, <1>1, <2>2, <2>4, <2>5 DEF OwnFrames
    <2>7. KidFrames' /\ SyncAnswerIsOwn'
      BY <1>0, <1>1, <2>1 DEF KidFrames, SyncAnswerIsOwn
    <2>8. SlotsDiffer'
      <3>1. relays' = relays /\ seq[RelayId] \in Nat /\ seq'[RelayId] = seq[RelayId] + 1
        BY <1>1, <1>2, <1>5, <2>3
      <3>2. \A i \in 1 .. MaxRelays : relays[i].up \in Nat
        BY <1>0 DEF RelayTypes, SlotRec
      <3>3. \A i \in 1 .. MaxRelays : relays[i].up <= seq[RelayId] + 1
        BY <1>0, <3>1, <3>2 DEF SlotsDiffer
      <3> QED
        BY <1>0, <3>1, <3>3 DEF SlotsDiffer
    <2>9. SlotsAreInFlight'
      BY <1>0, <1>1, <2>2 DEF SlotsAreInFlight
    <2>10. RelayTypes'
      BY <1>0, <1>1, <1>3, <2>1, <2>2 DEF RelayTypes
    <2> QED
      BY <2>6, <2>7, <2>8, <2>9, <2>10 DEF RelayInv
  <1>6. CASE p # RelayId
    <2>1. p \in Kids /\ kidUp' = [kidUp EXCEPT ![p] = Append(@, f)] /\ ownUp' = ownUp
      BY <1>4, <1>6 DEF StorageSync, Procs
    <2>2. kidUp \in [Kids -> Seq(Frames)] /\ kidUp[p] \in Seq(Frames)
      BY <1>0, <2>1 DEF RelayTypes
    <2>3. /\ kidUp'[p] = Append(kidUp[p], f) /\ kidUp'[p] \in Seq(Frames)
          /\ \A c \in Kids \ {p} : kidUp'[c] = kidUp[c]
          /\ \A k \in DOMAIN kidUp'[p] :
                (k \in DOMAIN kidUp[p] /\ kidUp'[p][k] = kidUp[p][k]) \/ kidUp'[p][k] = f
      BY <2>1, <2>2, AppendFrame, SMTT(30)
    <2>4. kidUp' \in [Kids -> Seq(Frames)]
      BY <2>1, <2>2, <2>3
    <2>5. seq'[RelayId] = seq[RelayId] /\ wait'[RelayId] = wait[RelayId]
      BY <1>1, <1>2, <1>6, RelayIds
    <2>6. KidFrames'
      <3>1. kidDown' = kidDown /\ f.for = p
        BY <1>1, <1>4
      <3>2. ASSUME NEW c \in Kids, NEW k \in DOMAIN kidUp'[c] PROVE kidUp'[c][k].for = c
        <4>1. CASE c = p
          BY <1>0, <2>1, <2>3, <3>1, <3>2, <4>1 DEF KidFrames
        <4>2. CASE c # p
          BY <1>0, <2>3, <3>2, <4>2 DEF KidFrames
        <4> QED
          BY <4>1, <4>2
      <3> QED
        BY <1>0, <3>1, <3>2 DEF KidFrames
    <2>7. RelayTypes'
      BY <1>0, <1>1, <1>3, <2>1, <2>4 DEF RelayTypes
    <2> QED
      BY <1>0, <1>1, <2>1, <2>5, <2>6, <2>7 DEF RelayInv, OwnFrames, Numbered, SlotsDiffer,
         SyncAnswerIsOwn, SlotsAreInFlight
  <1> QED
    BY <1>5, <1>6

(* A request of a child goes up under a new number, or nowhere. *)
LEMMA StorageRelayKeeps ==
    ASSUME RelayInv, NEW c \in Kids, StorageRelay(c) PROVE RelayInv'
  <1>0. /\ RelayTypes /\ KidFrames /\ OwnFrames /\ SlotsDiffer /\ SyncAnswerIsOwn
        /\ SlotsAreInFlight
    BY DEF RelayInv
  <1>1. /\ UNCHANGED <<life, wait, kidDown, ownDown, answers>> /\ wait[RelayId] = 0
        /\ kidUp[c] # << >> /\ kidUp' = [kidUp EXCEPT ![c] = Tail(@)]
    BY DEF StorageRelay
  <1>2. PICK f : f = Head(kidUp[c])
    OBVIOUS
  <1>3. kidUp \in [Kids -> Seq(Frames)] /\ kidUp[c] \in Seq(Frames)
    BY <1>0 DEF RelayTypes
  <1>4. /\ f \in Frames /\ f.for = c /\ Tail(kidUp[c]) \in Seq(Frames)
        /\ \A k \in DOMAIN Tail(kidUp[c]) :
              k + 1 \in DOMAIN kidUp[c] /\ Tail(kidUp[c])[k] = kidUp[c][k + 1]
    BY <1>0, <1>1, <1>2, <1>3, TailFrames DEF KidFrames
  <1>5. /\ kidUp' \in [Kids -> Seq(Frames)] /\ kidUp'[c] = Tail(kidUp[c])
        /\ \A d \in Kids \ {c} : kidUp'[d] = kidUp[d]
    BY <1>1, <1>3, <1>4
  <1>6. KidFrames'
    BY <1>0, <1>1, <1>4, <1>5 DEF KidFrames
  <1>7. RelayId \in Procs /\ seq \in [Procs -> Nat] /\ seq[RelayId] \in Nat
    BY <1>0, RelayIds DEF RelayTypes
  <1> DEFINE free == {i \in 1 .. MaxRelays : relays[i].up = 0}
  <1>8. CASE free = {}
    <2>1. refused' = refused \cup {c} /\ UNCHANGED <<seq, relays, ownUp>>
      BY <1>8 DEF StorageRelay
    <2> QED
      BY <1>0, <1>1, <1>5, <1>6, <2>1 DEF RelayInv, RelayTypes, OwnFrames, Numbered,
         SlotsDiffer, SyncAnswerIsOwn, SlotsAreInFlight
  <1>9. CASE free # {}
    <2>1. PICK n : n = CHOOSE i \in free : \A j \in free : i <= j
      OBVIOUS
    <2>2. n \in 1 .. MaxRelays /\ relays[n].up = 0
      <3>1. free \subseteq Nat
        OBVIOUS
      <3>2. \E i \in free : \A j \in free : i <= j
        BY <1>9, <3>1, Least, Zenon
      <3>3. n \in free
        BY <2>1, <3>2, Zenon
      <3> QED
        BY <3>3
    <2>3. /\ seq' = [seq EXCEPT ![RelayId] = seq[RelayId] + 1]
          /\ relays' = [relays EXCEPT ![n] =
                            [up |-> seq[RelayId] + 1, down |-> f.corr, child |-> c]]
          /\ ownUp' = Append(ownUp, Frame(seq[RelayId] + 1, f.for))
          /\ refused' = refused
      BY <1>2, <1>9, <2>1 DEF StorageRelay
    <2> HIDE DEF free
    <2>4. PICK g \in Frames : /\ g = Frame(seq[RelayId] + 1, c) /\ g.corr = seq[RelayId] + 1
                              /\ g.for = c
      BY <1>7, RelayIds, FrameIsOne
    <2>5. ownUp' = Append(ownUp, g) /\ ownUp \in Seq(Frames)
      BY <1>0, <1>4, <2>3, <2>4 DEF RelayTypes
    <2>6. /\ ownUp' \in Seq(Frames)
          /\ \A k \in DOMAIN ownUp' : (k \in DOMAIN ownUp /\ ownUp'[k] = ownUp[k]) \/ ownUp'[k] = g
          /\ \A k \in DOMAIN ownUp : k \in DOMAIN ownUp' /\ ownUp'[k] = ownUp[k]
          /\ Len(ownUp) + 1 \in DOMAIN ownUp' /\ ownUp'[Len(ownUp) + 1] = g
      BY <2>5, AppendFrame
    <2>7. PICK s \in SlotRec : /\ s = [up |-> seq[RelayId] + 1, down |-> f.corr, child |-> c]
                               /\ s.up = seq[RelayId] + 1 /\ s.child = c
      <3>1. f.corr \in Nat /\ c \in Procs /\ seq[RelayId] + 1 \in Nat
        BY <1>4, <1>7, RelayIds DEF Frames
      <3>2. [up |-> seq[RelayId] + 1, down |-> f.corr, child |-> c] \in SlotRec
        BY <3>1 DEF SlotRec
      <3> QED
        BY <3>2
    <2>8. /\ relays \in [1 .. MaxRelays -> SlotRec]
          /\ relays' \in [1 .. MaxRelays -> SlotRec]
          /\ relays'[n] = s /\ \A i \in (1 .. MaxRelays) \ {n} : relays'[i] = relays[i]
      BY <1>0, <2>2, <2>3, <2>7 DEF RelayTypes
    <2>9. seq' \in [Procs -> Nat] /\ seq'[RelayId] = seq[RelayId] + 1
          /\ \A p \in Procs : seq[p] <= seq'[p]
      BY <1>7, <2>3
    <2>10. \A i \in 1 .. MaxRelays : relays[i].up \in Nat /\ relays[i].up <= seq[RelayId]
      BY <1>0, <2>8 DEF SlotsDiffer, SlotRec
    <2>11. Numbered(g)'
      <3>1. g.corr \in 1 .. seq'[RelayId] /\ g.corr # wait'[RelayId]
        BY <1>1, <1>7, <2>4, <2>9
      <3>2. ASSUME NEW i \in 1 .. MaxRelays, relays'[i].up = g.corr PROVE relays'[i].child = g.for
        <4>1. i = n
          BY <1>7, <2>4, <2>8, <2>10, <3>2
        <4> QED
          BY <2>4, <2>7, <2>8, <4>1
      <3> QED
        BY <3>1, <3>2 DEF Numbered
    <2>12. ASSUME NEW h, Numbered(h) PROVE Numbered(h)'
      <3>1. h.corr \in 1 .. seq'[RelayId] /\ h.corr # seq[RelayId] + 1
        BY <1>7, <2>9, <2>12 DEF Numbered
      <3>2. h.corr = wait'[RelayId] => h.for = RelayId
        BY <1>1, <2>12 DEF Numbered
      <3>3. ASSUME NEW i \in 1 .. MaxRelays, relays'[i].up = h.corr PROVE relays'[i].child = h.for
        BY <2>7, <2>8, <2>12, <3>1, <3>3 DEF Numbered
      <3> QED
        BY <3>1, <3>2, <3>3 DEF Numbered
    <2>13. OwnFrames'
      BY <1>0, <1>1, <2>6, <2>11, <2>12 DEF OwnFrames
    <2>14. SlotsDiffer'
      <3>1. \A i \in 1 .. MaxRelays : relays'[i].up <= seq'[RelayId]
        BY <1>7, <2>7, <2>8, <2>9, <2>10
      <3>2. \A i \in 1 .. MaxRelays : relays'[i].up # 0 => relays'[i].child \in Kids
        BY <1>0, <2>7, <2>8 DEF SlotsDiffer
      <3>3. ASSUME NEW i \in 1 .. MaxRelays, NEW j \in 1 .. MaxRelays, i # j, relays'[i].up # 0
            PROVE  relays'[i].up # relays'[j].up
        <4>1. CASE i = n
          BY <1>7, <2>7, <2>8, <2>10, <3>3, <4>1
        <4>2. CASE j = n
          BY <1>7, <2>7, <2>8, <2>10, <3>3, <4>2
        <4>3. CASE i # n /\ j # n
          BY <1>0, <2>8, <3>3, <4>3 DEF SlotsDiffer
        <4> QED
          BY <4>1, <4>2, <4>3
      <3> QED
        BY <3>1, <3>2, <3>3 DEF SlotsDiffer
    <2>15. SlotsAreInFlight'
      BY <1>0, <1>1, <2>4, <2>6, <2>7, <2>8 DEF SlotsAreInFlight
    <2>16. RelayTypes'
      <3>1. \A p \in Procs : wait'[p] <= seq'[p]
        BY <1>0, <1>1, <2>9 DEF RelayTypes
      <3> QED
        BY <1>0, <1>1, <1>5, <2>3, <2>6, <2>8, <2>9, <3>1 DEF RelayTypes
    <2> QED
      BY <1>0, <1>1, <1>6, <2>13, <2>14, <2>15, <2>16 DEF RelayInv, SyncAnswerIsOwn
  <1> QED
    BY <1>8, <1>9

(* The owner answers under the number of the request. *)
LEMMA StorageDispatchKeeps ==
    ASSUME RelayInv, StorageDispatch PROVE RelayInv'
  <1>0. /\ RelayTypes /\ KidFrames /\ OwnFrames /\ SlotsDiffer /\ SyncAnswerIsOwn
        /\ SlotsAreInFlight
    BY DEF RelayInv
  <1>1. PICK f : f = Head(ownUp)
    OBVIOUS
  <1>2. /\ UNCHANGED <<life, seq, wait, relays, kidUp, kidDown, answers, refused>>
        /\ ownUp # << >> /\ ownUp' = Tail(ownUp) /\ ownDown' = Append(ownDown, f)
        /\ ownUp \in Seq(Frames) /\ ownDown \in Seq(Frames)
    BY <1>0, <1>1 DEF StorageDispatch, RelayTypes
  <1>3. /\ ownUp' \in Seq(Frames) /\ f \in Frames /\ 1 \in DOMAIN ownUp /\ f = ownUp[1]
        /\ \A k \in DOMAIN ownUp' : k + 1 \in DOMAIN ownUp /\ ownUp'[k] = ownUp[k + 1]
        /\ \A k \in DOMAIN ownUp : k # 1 => k - 1 \in DOMAIN ownUp' /\ ownUp'[k - 1] = ownUp[k]
    BY <1>1, <1>2, TailFrames
  <1>4. /\ ownDown' \in Seq(Frames)
        /\ \A k \in DOMAIN ownDown' :
              (k \in DOMAIN ownDown /\ ownDown'[k] = ownDown[k]) \/ ownDown'[k] = f
        /\ \A k \in DOMAIN ownDown : k \in DOMAIN ownDown' /\ ownDown'[k] = ownDown[k]
        /\ Len(ownDown) + 1 \in DOMAIN ownDown' /\ ownDown'[Len(ownDown) + 1] = f
    BY <1>2, <1>3, AppendFrame
  <1>5. \A h : Numbered(h) => Numbered(h)'
    BY <1>2 DEF Numbered
  <1>6. OwnFrames'
    BY <1>0, <1>3, <1>4, <1>5 DEF OwnFrames
  <1>7. SlotsAreInFlight'
    <2>1. ASSUME NEW i \in 1 .. MaxRelays, relays[i].up # 0
          PROVE  \/ \E k \in DOMAIN ownUp' : ownUp'[k].corr = relays[i].up
                 \/ \E k \in DOMAIN ownDown' : ownDown'[k].corr = relays[i].up
      <3>1. CASE \E k \in DOMAIN ownUp : ownUp[k].corr = relays[i].up
        <4>1. PICK k \in DOMAIN ownUp : ownUp[k].corr = relays[i].up
          BY <3>1
        <4>2. CASE k = 1
          BY <1>3, <1>4, <4>1, <4>2
        <4>3. CASE k # 1
          BY <1>3, <4>1, <4>3
        <4> QED
          BY <4>2, <4>3
      <3>2. CASE \E k \in DOMAIN ownDown : ownDown[k].corr = relays[i].up
        BY <1>4, <3>2
      <3> QED
        BY <1>0, <2>1, <3>1, <3>2 DEF SlotsAreInFlight
    <2> QED
      BY <1>2, <2>1 DEF SlotsAreInFlight
  <1> QED
    BY <1>0, <1>2, <1>3, <1>4, <1>6, <1>7 DEF RelayInv, RelayTypes, KidFrames, SlotsDiffer,
       SyncAnswerIsOwn

(* The relay takes an answer: its own, a child's, or nobody's any more. *)
LEMMA RelayRxKeeps ==
    ASSUME RelayInv, RelayRx PROVE RelayInv'
  <1>0. /\ RelayTypes /\ KidFrames /\ OwnFrames /\ SlotsDiffer /\ SyncAnswerIsOwn
        /\ SlotsAreInFlight
    BY DEF RelayInv
  <1>1. PICK f : f = Head(ownDown)
    OBVIOUS
  <1>2. /\ UNCHANGED <<life, seq, kidUp, ownUp, refused>>
        /\ ownDown # << >> /\ ownDown' = Tail(ownDown) /\ ownDown \in Seq(Frames)
    BY <1>0 DEF RelayRx, RelayTypes
  <1>3. /\ ownDown' \in Seq(Frames) /\ f \in Frames /\ 1 \in DOMAIN ownDown /\ f = ownDown[1]
        /\ \A k \in DOMAIN ownDown' : k + 1 \in DOMAIN ownDown /\ ownDown'[k] = ownDown[k + 1]
        /\ \A k \in DOMAIN ownDown :
              k # 1 => k - 1 \in DOMAIN ownDown' /\ ownDown'[k - 1] = ownDown[k]
    BY <1>1, <1>2, TailFrames
  <1>4. Numbered(f) /\ f.corr # 0
    BY <1>0, <1>3 DEF OwnFrames, Numbered
  (* What is left of the frames and slots, when no slot names f any more. *)
  <1>5. ASSUME \A h : Numbered(h) => Numbered(h)' PROVE OwnFrames'
    BY <1>0, <1>2, <1>3, <1>5 DEF OwnFrames
  <1>6. ASSUME NEW i \in 1 .. MaxRelays, relays[i].up # 0, relays[i].up # f.corr
        PROVE  \/ \E k \in DOMAIN ownUp' : ownUp'[k].corr = relays[i].up
               \/ \E k \in DOMAIN ownDown' : ownDown'[k].corr = relays[i].up
    <2>1. CASE \E k \in DOMAIN ownUp : ownUp[k].corr = relays[i].up
      BY <1>2, <2>1
    <2>2. CASE \E k \in DOMAIN ownDown : ownDown[k].corr = relays[i].up
      <3>1. PICK k \in DOMAIN ownDown : ownDown[k].corr = relays[i].up
        BY <2>2
      <3>2. k # 1
        BY <1>3, <1>6, <3>1
      <3> QED
        BY <1>3, <3>1, <3>2
    <2> QED
      BY <1>0, <1>6, <2>1, <2>2 DEF SlotsAreInFlight
  <1>7. CASE wait[RelayId] # 0 /\ f.corr = wait[RelayId]
    <2>1. /\ UNCHANGED <<relays, kidDown>> /\ wait' = [wait EXCEPT ![RelayId] = 0]
          /\ answers' = [answers EXCEPT ![RelayId] = Append(@, f.for)]
      BY <1>1, <1>7 DEF RelayRx, Answer
    <2>2. f.for = RelayId
      BY <1>4, <1>7 DEF Numbered
    <2>3. RelayTypes'
      BY <1>0, <1>2, <1>3, <2>1, <2>2, RelayIds DEF RelayTypes
    <2>4. SyncAnswerIsOwn'
      <3>1. answers[RelayId] \in Seq(Procs) /\ answers \in [Procs -> Seq(Procs)]
        BY <1>0, RelayIds DEF RelayTypes
      <3>2. \A i \in DOMAIN answers'[RelayId] : answers'[RelayId][i] = RelayId
        BY <1>0, <2>1, <2>2, <3>1, RelayIds DEF SyncAnswerIsOwn
      <3>3. \A p \in Procs \ {RelayId} : answers'[p] = answers[p]
        BY <2>1, <3>1
      <3> QED
        BY <1>0, <3>2, <3>3 DEF SyncAnswerIsOwn
    <2>5. \A h : Numbered(h) => Numbered(h)'
      BY <1>0, <1>2, <2>1, RelayIds DEF Numbered, RelayTypes
    <2>6. \A i \in 1 .. MaxRelays : relays[i].up # f.corr
      BY <1>0, <1>4, <2>2, RelayIds DEF Numbered, SlotsDiffer
    <2>7. SlotsAreInFlight'
      BY <1>6, <2>1, <2>6 DEF SlotsAreInFlight
    <2>8. KidFrames' /\ SlotsDiffer'
      BY <1>0, <1>2, <2>1 DEF KidFrames, SlotsDiffer
    <2> QED
      BY <1>5, <2>3, <2>4, <2>5, <2>7, <2>8 DEF RelayInv
  <1>8. CASE ~(wait[RelayId] # 0 /\ f.corr = wait[RelayId])
    <2>1. UNCHANGED <<wait, answers>>
      BY <1>1, <1>8 DEF RelayRx
    <2>2. CASE Matches(f) = {}
      <3>1. UNCHANGED <<relays, kidDown>>
        BY <1>1, <1>8, <2>2 DEF RelayRx
      <3>2. \A i \in 1 .. MaxRelays : relays[i].up # f.corr
        BY <2>2 DEF Matches
      <3>3. SlotsAreInFlight'
        BY <1>6, <3>1, <3>2 DEF SlotsAreInFlight
      <3>4. \A h : Numbered(h) => Numbered(h)'
        BY <1>2, <2>1, <3>1 DEF Numbered
      <3> QED
        BY <1>0, <1>2, <1>3, <1>5, <2>1, <3>1, <3>3, <3>4
           DEF RelayInv, RelayTypes, KidFrames, SlotsDiffer, SyncAnswerIsOwn
    <2>3. CASE Matches(f) # {}
      <3>1. PICK i : i = CHOOSE m \in Matches(f) : TRUE
        OBVIOUS
      <3>2. i \in 1 .. MaxRelays /\ relays[i].up = f.corr
        BY <2>3, <3>1 DEF Matches
      <3>3. /\ kidDown' = IF Runs(relays[i].child)
                          THEN [kidDown EXCEPT ![relays[i].child] =
                                    Append(@, Frame(relays[i].down, f.for))]
                          ELSE kidDown
            /\ relays' = [relays EXCEPT ![i] = FreeRelay]
        BY <1>1, <1>8, <2>3, <3>1 DEF RelayRx
      <3>4. PICK c \in Kids : c = relays[i].child /\ f.for = c
        BY <1>0, <1>4, <3>2 DEF Numbered, SlotsDiffer
      <3>5. PICK g \in Frames : g = Frame(relays[i].down, f.for) /\ g.for = c
        <4>1. relays[i].down \in Nat /\ c \in Procs
          BY <1>0, <3>2, RelayIds DEF RelayTypes, SlotRec
        <4>2. Frame(relays[i].down, c) \in Frames /\ Frame(relays[i].down, c).for = c
          BY <4>1, FrameIsOne
        <4> QED
          BY <3>4, <4>2
      <3>6. /\ kidDown' \in [Kids -> Seq(Frames)]
            /\ \A d \in Kids : \A k \in DOMAIN kidDown'[d] :
                  \/ k \in DOMAIN kidDown[d] /\ kidDown'[d][k] = kidDown[d][k]
                  \/ d = c /\ kidDown'[d][k] = g
        <4>1. kidDown \in [Kids -> Seq(Frames)] /\ kidDown[c] \in Seq(Frames)
          BY <1>0 DEF RelayTypes
        <4>2. kidDown' = kidDown \/ kidDown' = [kidDown EXCEPT ![c] = Append(kidDown[c], g)]
          BY <3>3, <3>4, <3>5
        <4>3. CASE kidDown' = kidDown
          BY <4>1, <4>3
        <4>4. CASE kidDown' = [kidDown EXCEPT ![c] = Append(kidDown[c], g)]
          BY <4>1, <4>4, AppendFrame
        <4> QED
          BY <4>2, <4>3, <4>4
      <3>7. KidFrames'
        BY <1>0, <1>2, <3>5, <3>6 DEF KidFrames
      <3>8. /\ relays \in [1 .. MaxRelays -> SlotRec] /\ relays' \in [1 .. MaxRelays -> SlotRec]
            /\ relays'[i] = FreeRelay /\ FreeRelay.up = 0
            /\ \A j \in (1 .. MaxRelays) \ {i} : relays'[j] = relays[j]
        BY <1>0, <3>2, <3>3, RelayIds DEF RelayTypes, FreeRelay, SlotRec
      <3>9. ASSUME NEW h, Numbered(h) PROVE Numbered(h)'
        BY <1>2, <2>1, <3>8, <3>9 DEF Numbered
      <3>10. SlotsDiffer'
        <4>1. seq[RelayId] \in Nat
          BY <1>0, RelayIds DEF RelayTypes
        <4>2. ASSUME NEW j \in 1 .. MaxRelays
              PROVE  /\ relays'[j].up <= seq'[RelayId]
                     /\ relays'[j].up # 0 => relays'[j].child \in Kids
          BY <1>0, <1>2, <3>8, <4>1 DEF SlotsDiffer
        <4>3. ASSUME NEW j \in 1 .. MaxRelays, NEW k \in 1 .. MaxRelays, j # k, relays'[j].up # 0
              PROVE  relays'[j].up # relays'[k].up
          BY <1>0, <3>8, <4>3 DEF SlotsDiffer
        <4> QED
          BY <4>2, <4>3 DEF SlotsDiffer
      <3>11. ASSUME NEW j \in 1 .. MaxRelays, relays'[j].up # 0
             PROVE  j # i /\ relays'[j] = relays[j] /\ relays[j].up # f.corr
        BY <1>0, <1>4, <3>2, <3>8, <3>11 DEF SlotsDiffer
      <3>12. SlotsAreInFlight'
        BY <1>6, <3>11 DEF SlotsAreInFlight
      <3>13. OwnFrames'
        BY <1>5, <3>9
      <3>14. RelayTypes'
        BY <1>0, <1>2, <1>3, <2>1, <3>6, <3>8 DEF RelayTypes
      <3> QED
        BY <1>0, <2>1, <3>7, <3>10, <3>12, <3>13, <3>14 DEF RelayInv, SyncAnswerIsOwn
    <2> QED
      BY <2>2, <2>3
  <1> QED
    BY <1>7, <1>8

(* A child takes an answer, which is the one it waits for or an old one. *)
LEMMA KidRxKeeps ==
    ASSUME RelayInv, NEW c \in Kids, KidRx(c) PROVE RelayInv'
  <1>0. /\ RelayTypes /\ KidFrames /\ OwnFrames /\ SlotsDiffer /\ SyncAnswerIsOwn
        /\ SlotsAreInFlight
    BY DEF RelayInv
  <1>1. PICK f : f = Head(kidDown[c])
    OBVIOUS
  <1>2. /\ UNCHANGED <<life, seq, relays, kidUp, ownUp, ownDown, refused>>
        /\ kidDown[c] # << >> /\ kidDown' = [kidDown EXCEPT ![c] = Tail(@)]
        /\ kidDown \in [Kids -> Seq(Frames)] /\ kidDown[c] \in Seq(Frames)
    BY <1>0 DEF KidRx, RelayTypes
  <1>3. /\ Tail(kidDown[c]) \in Seq(Frames) /\ f.for = c
        /\ \A k \in DOMAIN Tail(kidDown[c]) :
              k + 1 \in DOMAIN kidDown[c] /\ Tail(kidDown[c])[k] = kidDown[c][k + 1]
    BY <1>0, <1>1, <1>2, TailFrames DEF KidFrames
  <1>4. kidDown' \in [Kids -> Seq(Frames)] /\ KidFrames'
    BY <1>0, <1>2, <1>3 DEF KidFrames
  <1>5. c \in Procs /\ c # RelayId
    BY RelayIds
  <1>6. /\ wait' \in [Procs -> Nat] /\ wait'[RelayId] = wait[RelayId]
        /\ \A p \in Procs : wait'[p] <= seq[p]
        /\ answers' \in [Procs -> Seq(Procs)]
        /\ SyncAnswerIsOwn'
    <2>1. /\ wait \in [Procs -> Nat] /\ seq \in [Procs -> Nat]
          /\ answers \in [Procs -> Seq(Procs)] /\ answers[c] \in Seq(Procs)
          /\ \A p \in Procs : wait[p] <= seq[p]
      BY <1>0, <1>5 DEF RelayTypes
    <2>2. CASE UNCHANGED <<wait, answers>>
      BY <1>0, <2>1, <2>2 DEF SyncAnswerIsOwn
    <2>3. CASE Answer(c, f)
      <3>1. wait' = [wait EXCEPT ![c] = 0] /\ answers' = [answers EXCEPT ![c] = Append(@, c)]
        BY <1>3, <2>3 DEF Answer
      <3>2. /\ wait' \in [Procs -> Nat] /\ wait'[RelayId] = wait[RelayId]
            /\ \A p \in Procs : wait'[p] <= seq[p]
        BY <1>5, <2>1, <3>1, RelayIds
      <3>3. /\ answers' \in [Procs -> Seq(Procs)]
            /\ \A i \in DOMAIN answers'[c] : answers'[c][i] = c
        BY <1>0, <1>5, <2>1, <3>1 DEF SyncAnswerIsOwn
      <3>4. \A p \in Procs \ {c} : answers'[p] = answers[p]
        BY <2>1, <3>1
      <3> QED
        BY <1>0, <3>2, <3>3, <3>4 DEF SyncAnswerIsOwn
    <2> QED
      BY <1>1, <2>2, <2>3 DEF KidRx
  <1>7. RelayTypes'
    BY <1>0, <1>2, <1>4, <1>6 DEF RelayTypes
  <1> QED
    BY <1>0, <1>2, <1>4, <1>6, <1>7 DEF RelayInv, OwnFrames, Numbered, SlotsDiffer,
       SlotsAreInFlight

LEMMA RelayInitHolds == RelayInit => RelayInv
  <1> SUFFICES ASSUME RelayInit PROVE RelayInv
    OBVIOUS
  <1>1. FreeRelay \in SlotRec /\ FreeRelay.up = 0
    BY RelayIds DEF FreeRelay, SlotRec
  <1>2. RelayTypes
    BY <1>1, RelayIds DEF RelayInit, RelayTypes, Lives
  <1>3. KidFrames /\ OwnFrames /\ SyncAnswerIsOwn
    BY DEF RelayInit, KidFrames, OwnFrames, SyncAnswerIsOwn
  <1>4. SlotsDiffer /\ SlotsAreInFlight
    BY <1>1, RelayIds DEF RelayInit, SlotsDiffer, SlotsAreInFlight
  <1> QED
    BY <1>2, <1>3, <1>4 DEF RelayInv

LEMMA RelayNextKeeps == RelayInv /\ [RelayNext]_relayVars => RelayInv'
  <1> SUFFICES ASSUME RelayInv, [RelayNext]_relayVars PROVE RelayInv'
    OBVIOUS
  <1>1. CASE UNCHANGED relayVars
    BY <1>1 DEF relayVars, RelayInv, RelayTypes, KidFrames, OwnFrames, Numbered, SlotsDiffer,
       SyncAnswerIsOwn, SlotsAreInFlight
  <1>2. CASE RelayNext
    BY <1>2, KidSpawnsKeeps, KidDiesKeeps, EndsKeep, StorageSyncKeeps, StorageRelayKeeps,
       StorageDispatchKeeps, RelayRxKeeps, KidRxKeeps DEF RelayNext
  <1> QED
    BY <1>1, <1>2

(* AnswersAreOwn: a storage call returns the answer to its own request, and a   *)
(* slot of the relay is taken only while its request is under way, however many *)
(* children ask, die or are replaced (js_pal_storage_relay, process_rx).        *)
THEOREM AnswersReachTheirCalls == RelaySpec => []AnswersAreOwn
  <1>1. RelayInv => AnswersAreOwn
    BY RelayIds DEF RelayInv, RelayTypes, AnswersAreOwn, RelayTypeOK, Lives, SlotRec
  <1> QED
    BY <1>1, RelayInitHolds, RelayNextKeeps, PTL DEF RelaySpec

-----------------------------------------------------------------------------
(* The WebAssembly engine that runtimes on threads share *)

WamrSpec == WamrInit /\ [][WamrNext]_wamrVars

Groups == WThreads \X (1 .. MaxLoads)

(* A thread that is not idle has begun a load, whose group is its own. *)
WamrTypes ==
    /\ WamrTypeOK /\ natives \in Seq(Groups) /\ DOMAIN linked = WThreads
    /\ \A t \in WThreads : wpc[t] # "idle" => loads[t] > 0

(* What a thread registered is on the list as long as it needs it. *)
OwnListed ==
    \A t \in WThreads : wpc[t] \in {"link", "built"} =>
        \E i \in DOMAIN natives : natives[i] = Group(t)

(* The one thread between registration and second load has the newest group;   *)
(* a module that is built is linked to its own, which is in the list.           *)
Registered ==
    \A t \in WThreads :
        /\ InPlace(t, "link") => natives # << >> /\ natives[1] = Group(t)
        /\ InPlace(t, "built") =>
               linked[t] = Group(t) /\ \E i \in DOMAIN natives : natives[i] = Group(t)

(* What removing the first occurrence of an element does to a sequence: the others *)
(* stay in it, nothing comes in, and the head stays the head.                  *)
LEMMA RemoveFirstFacts ==
    ASSUME NEW T, NEW s \in Seq(T), NEW e
    PROVE  /\ RemoveFirst(s, e) \in Seq(T)
           /\ \A i \in DOMAIN s : s[i] # e =>
                  \E j \in DOMAIN RemoveFirst(s, e) : RemoveFirst(s, e)[j] = s[i]
           /\ s # << >> /\ s[1] # e =>
                  RemoveFirst(s, e) # << >> /\ RemoveFirst(s, e)[1] = s[1]
  <1>1. CASE ~ \E i \in 1 .. Len(s) : s[i] = e
    BY <1>1 DEF RemoveFirst
  <1>2. CASE \E i \in 1 .. Len(s) : s[i] = e
    <2> DEFINE I == {i \in 1 .. Len(s) : s[i] = e}
    <2>1. PICK m \in I : \A i \in I : ~(<<i, m>> \in OpToRel(<, Nat))
      <3>1. I \subseteq Nat /\ I # {}
        BY <1>2
      <3> QED
        BY <3>1, NatLessThanWellFounded, WFMin, Zenon
    <2>2. m \in 1 .. Len(s) /\ s[m] = e /\ \A i \in I : m <= i
      <3>1. ASSUME NEW i \in I, ~(m <= i) PROVE FALSE
        <4>1. i \in Nat /\ m \in Nat /\ i < m
          BY <3>1
        <4>2. <<i, m>> \in OpToRel(<, Nat)
          BY <4>1 DEF OpToRel
        <4> QED
          BY <2>1, <4>2
      <3> QED
        BY <3>1
    <2>3. PICK n : n = SelectInSeq(s, LAMBDA v : v = e)
      OBVIOUS
    <2>4. n = Min(I)
      BY <2>3, <1>2 DEF SelectInSeq
    <2>5. n \in 1 .. Len(s) /\ s[n] = e
      BY <2>2, <2>4 DEF Min
    <2>6. RemoveFirst(s, e) = SubSeq(s, 1, n - 1) \o SubSeq(s, n + 1, Len(s))
      BY <1>2, <2>3 DEF RemoveFirst, RemoveAt
    <2> HIDE DEF I
    <2>7. PICK a, b : a = SubSeq(s, 1, n - 1) /\ b = SubSeq(s, n + 1, Len(s))
      OBVIOUS
    <2>8. /\ a \in Seq(T) /\ Len(a) = n - 1 /\ \A i \in 1 .. n - 1 : a[i] = s[i]
          /\ b \in Seq(T) /\ Len(b) = Len(s) - n
          /\ \A i \in 1 .. Len(s) - n : b[i] = s[n + i]
      BY <2>5, <2>7
    <2>9. /\ a \o b \in Seq(T) /\ Len(a \o b) = Len(s) - 1
          /\ \A i \in 1 .. n - 1 : (a \o b)[i] = s[i]
          /\ \A i \in n .. Len(s) - 1 : (a \o b)[i] = s[i + 1]
      <3>1. /\ a \o b \in Seq(T) /\ Len(a \o b) = Len(s) - 1
            /\ \A i \in 1 .. Len(s) - 1 :
                  (a \o b)[i] = IF i <= n - 1 THEN a[i] ELSE b[i - (n - 1)]
        <4>1. Len(a) + Len(b) = Len(s) - 1 /\ Len(a) = n - 1
          BY <2>5, <2>8
        <4>2. /\ a \o b \in Seq(T) /\ Len(a \o b) = Len(a) + Len(b)
              /\ \A i \in 1 .. Len(a) + Len(b) :
                    (a \o b)[i] = IF i <= Len(a) THEN a[i] ELSE b[i - Len(a)]
          BY <2>8, ConcatProperties
        <4> QED
          BY <4>1, <4>2
      <3>2. ASSUME NEW i \in n .. Len(s) - 1 PROVE (a \o b)[i] = s[i + 1]
        <4>1. i - (n - 1) \in 1 .. Len(s) - n /\ n + (i - (n - 1)) = i + 1
              /\ i \in 1 .. Len(s) - 1 /\ ~(i <= n - 1)
          BY <2>5
        <4> QED
          BY <2>8, <3>1, <4>1
      <3>3. ASSUME NEW i \in 1 .. n - 1 PROVE (a \o b)[i] = s[i]
        BY <2>5, <2>8, <3>1
      <3> QED
        BY <3>1, <3>2, <3>3
    <2>10. RemoveFirst(s, e) = a \o b
      BY <2>6, <2>7
    <2>11. ASSUME NEW i \in DOMAIN s, s[i] # e
           PROVE  \E j \in DOMAIN (a \o b) : (a \o b)[j] = s[i]
      <3>1. DOMAIN (a \o b) = 1 .. Len(s) - 1 /\ i \in 1 .. Len(s) /\ Len(s) \in Nat
        BY <2>9
      <3>2. CASE i < n
        <4>1. i \in 1 .. n - 1 /\ i \in 1 .. Len(s) - 1
          BY <2>5, <3>1, <3>2
        <4> QED
          BY <2>9, <3>1, <4>1
      <3>3. CASE i > n
        <4>1. i - 1 \in n .. Len(s) - 1 /\ i - 1 \in 1 .. Len(s) - 1 /\ (i - 1) + 1 = i
          BY <2>5, <3>1, <3>3
        <4> QED
          BY <2>9, <3>1, <4>1
      <3> QED
        BY <2>5, <2>11, <3>1, <3>2, <3>3
    <2>12. ASSUME s # << >>, s[1] # e
           PROVE  a \o b # << >> /\ (a \o b)[1] = s[1]
      <3>1. 1 \in 1 .. n - 1
        BY <2>5, <2>12
      <3> QED
        BY <2>5, <2>9, <3>1
    <2> QED
      BY <2>9, <2>10, <2>11, <2>12
  <1> QED
    BY <1>1, <1>2

LEMMA GroupFacts ==
    ASSUME WamrTypes, NEW t \in WThreads
    PROVE  /\ Group(t)[1] = t
           /\ wpc[t] # "idle" => Group(t) \in Groups
  BY WamrAssumption DEF WamrTypes, WamrTypeOK, Group, Groups

(* A sequence of groups is a list of them. *)
LEMMA GroupsListed ==
    ASSUME NEW s \in Seq(Groups) PROVE ToSet(s) \subseteq Groups
  BY DEF ToSet

(* The engine and the word that guards it; whatever threads register. *)
LEMMA EngineKeeps ==
    ASSUME WamrTypes, EngineStartsOnce, [WamrNext]_wamrVars
    PROVE  EngineStartsOnce'
  <1>1. CASE UNCHANGED wamrVars
    BY <1>1 DEF wamrVars, EngineStartsOnce, InPlace
  <1>2. ASSUME NEW t \in WThreads, EnsureRuntime(t) PROVE EngineStartsOnce'
    BY <1>2 DEF EnsureRuntime, EngineStartsOnce, InPlace, Go, WamrTypes, WamrTypeOK
  <1>3. ASSUME NEW t \in WThreads, InitDone(t) PROVE EngineStartsOnce'
    BY <1>3 DEF InitDone, EngineStartsOnce, InPlace, Go, WamrTypes, WamrTypeOK
  <1>4. ASSUME NEW t \in WThreads, InitError(t) PROVE EngineStartsOnce'
    BY <1>4 DEF InitError, EngineStartsOnce, InPlace, Go, WamrTypes, WamrTypeOK
  <1>5. ASSUME NEW t \in WThreads, SpinEnds(t) PROVE EngineStartsOnce'
    BY <1>5 DEF SpinEnds, EngineStartsOnce, InPlace, Go, WamrTypes, WamrTypeOK
  <1>6. ASSUME NEW t \in WThreads,
               RegisterImports(t) \/ LinkImports(t) \/ LinkError(t) \/ UnloadModule(t)
        PROVE  EngineStartsOnce'
    BY <1>6 DEF RegisterImports, LinkImports, LinkError, UnloadModule, EngineStartsOnce,
                InPlace, Go, WamrTypes, WamrTypeOK
  <1> QED
    BY <1>1, <1>2, <1>3, <1>4, <1>5, <1>6 DEF WamrNext

LEMMA WamrTypesKeep ==
    ASSUME WamrTypes, [WamrNext]_wamrVars
    PROVE  WamrTypes'
  <1> USE WamrAssumption
  <1>1. CASE UNCHANGED wamrVars
    BY <1>1 DEF wamrVars, WamrTypes, WamrTypeOK
  <1>2. ASSUME NEW t \in WThreads, EnsureRuntime(t) PROVE WamrTypes'
    BY <1>2 DEF EnsureRuntime, InPlace, Go, WamrTypes, WamrTypeOK
  <1>3. ASSUME NEW t \in WThreads, InitDone(t) \/ InitError(t) \/ SpinEnds(t) PROVE WamrTypes'
    BY <1>3, SMTT(30) DEF InitDone, InitError, SpinEnds, InPlace, Go, WamrTypes, WamrTypeOK
  <1>4. ASSUME NEW t \in WThreads, RegisterImports(t) PROVE WamrTypes'
    <2>1. natives' \in Seq(Groups)
      BY <1>4, GroupFacts DEF RegisterImports, InPlace, WamrTypes
    <2> QED
      BY <1>4, <2>1, GroupsListed
         DEF RegisterImports, InPlace, Go, WamrTypes, WamrTypeOK, Groups
  <1>5. ASSUME NEW t \in WThreads, LinkImports(t) PROVE WamrTypes'
    BY <1>5 DEF LinkImports, InPlace, Go, WamrTypes, WamrTypeOK
  <1>6. ASSUME NEW t \in WThreads, LinkError(t) \/ UnloadModule(t) PROVE WamrTypes'
    <2>1. natives' \in Seq(Groups)
      BY <1>6, RemoveFirstFacts DEF LinkError, UnloadModule, UnregisterNatives, WamrTypes
    <2> QED
      BY <1>6, <2>1, GroupsListed
         DEF LinkError, UnloadModule, InPlace, Go, WamrTypes, WamrTypeOK, Groups
  <1> QED
    BY <1>1, <1>2, <1>3, <1>4, <1>5, <1>6 DEF WamrNext

LEMMA RegisteredKeeps ==
    ASSUME Overlap = FALSE, WamrTypes, Registered, [WamrNext]_wamrVars
    PROVE  Registered'
  <1>1. CASE UNCHANGED wamrVars
    BY <1>1 DEF wamrVars, Registered, InPlace, Group
  <1>2. ASSUME NEW t \in WThreads, EnsureRuntime(t) PROVE Registered'
    BY <1>2 DEF EnsureRuntime, InPlace, Go, WamrTypes, WamrTypeOK, Registered, Group
  <1>3. ASSUME NEW t \in WThreads, InitDone(t) \/ InitError(t) \/ SpinEnds(t) PROVE Registered'
    BY <1>3 DEF InitDone, InitError, SpinEnds, InPlace, Go, WamrTypes, WamrTypeOK,
                Registered, Group
  <1>4. ASSUME NEW t \in WThreads, RegisterImports(t) PROVE Registered'
    <2>1. Group(t) \in Groups /\ natives \in Seq(Groups) /\ natives' = <<Group(t)>> \o natives
      BY <1>4, GroupFacts DEF RegisterImports, InPlace, WamrTypes
    <2>2. /\ natives' # << >> /\ natives'[1] = Group(t)
          /\ \A i \in DOMAIN natives : i + 1 \in DOMAIN natives' /\ natives'[i + 1] = natives[i]
      BY <2>1
    <2>3. \A u \in WThreads : ~InPlace(u, "link")
      BY <1>4 DEF RegisterImports
    <2>4. loads' = loads /\ linked' = linked /\ wpc' = [wpc EXCEPT ![t] = "link"]
      BY <1>4 DEF RegisterImports, Go
    <2> QED
      BY <2>2, <2>3, <2>4 DEF Registered, InPlace, Group, WamrTypes, WamrTypeOK
  <1>5. ASSUME NEW t \in WThreads, LinkImports(t) PROVE Registered'
    <2>1. /\ natives # << >> /\ natives[1] = Group(t) /\ natives \in Seq(Groups)
          /\ linked' = [linked EXCEPT ![t] = Head(natives)] /\ natives' = natives
          /\ loads' = loads /\ wpc' = [wpc EXCEPT ![t] = "built"]
      BY <1>5 DEF LinkImports, InPlace, Go, Registered, WamrTypes
    <2>2. Head(natives) = Group(t) /\ 1 \in DOMAIN natives
      BY <2>1
    <2> QED
      BY <2>1, <2>2 DEF Registered, InPlace, Group, WamrTypes, WamrTypeOK
  <1>6. ASSUME NEW t \in WThreads, LinkError(t) \/ UnloadModule(t) PROVE Registered'
    <2>1. /\ natives \in Seq(Groups) /\ natives' = RemoveFirst(natives, Group(t))
          /\ loads' = loads /\ wpc' = [wpc EXCEPT ![t] = "idle"]
          /\ \A u \in WThreads \ {t} : linked'[u] = linked[u]
      BY <1>6 DEF LinkError, UnloadModule, UnregisterNatives, Go, WamrTypes
    <2>2. /\ \A i \in DOMAIN natives : natives[i] # Group(t) =>
                \E j \in DOMAIN natives' : natives'[j] = natives[i]
          /\ natives # << >> /\ natives[1] # Group(t) =>
                 natives' # << >> /\ natives'[1] = natives[1]
      BY <2>1, RemoveFirstFacts
    <2>3. ASSUME NEW u \in WThreads, wpc'[u] # "idle"
          PROVE  u # t /\ wpc'[u] = wpc[u] /\ Group(u) # Group(t) /\ Group(u)' = Group(u)
                 /\ linked'[u] = linked[u]
      <3>1. u # t
        BY <2>1, <2>3 DEF WamrTypes, WamrTypeOK
      <3> QED
        BY <2>1, <3>1, GroupFacts DEF WamrTypes, WamrTypeOK, Group
    <2> QED
      BY <2>2, <2>3 DEF Registered, InPlace
  <1> QED
    BY <1>1, <1>2, <1>3, <1>4, <1>5, <1>6 DEF WamrNext

LEMMA OwnListedKeeps ==
    ASSUME WamrTypes, OwnListed, [WamrNext]_wamrVars
    PROVE  OwnListed'
  <1>1. CASE UNCHANGED wamrVars
    BY <1>1 DEF wamrVars, OwnListed, InPlace, Group
  <1>2. ASSUME NEW t \in WThreads, EnsureRuntime(t) PROVE OwnListed'
    BY <1>2 DEF EnsureRuntime, InPlace, Go, WamrTypes, WamrTypeOK, OwnListed, Group
  <1>3. ASSUME NEW t \in WThreads, InitDone(t) \/ InitError(t) \/ SpinEnds(t) PROVE OwnListed'
    BY <1>3 DEF InitDone, InitError, SpinEnds, InPlace, Go, WamrTypes, WamrTypeOK,
                OwnListed, Group
  <1>4. ASSUME NEW t \in WThreads, RegisterImports(t) PROVE OwnListed'
    <2>1. Group(t) \in Groups /\ natives \in Seq(Groups) /\ natives' = <<Group(t)>> \o natives
      BY <1>4, GroupFacts DEF RegisterImports, InPlace, WamrTypes
    <2>2. /\ natives' # << >> /\ natives'[1] = Group(t)
          /\ \A i \in DOMAIN natives : i + 1 \in DOMAIN natives' /\ natives'[i + 1] = natives[i]
      BY <2>1
    <2>4. loads' = loads /\ linked' = linked /\ wpc' = [wpc EXCEPT ![t] = "link"]
      BY <1>4 DEF RegisterImports, Go
    <2>5. 1 \in DOMAIN natives' /\ \A u \in WThreads : Group(u)' = Group(u)
      BY <2>1, <2>4 DEF Group
    <2>6. ASSUME NEW u \in WThreads, u # t, wpc'[u] \in {"link", "built"}
          PROVE  \E i \in DOMAIN natives' : natives'[i] = Group(u)
      <3>1. wpc[u] \in {"link", "built"}
        BY <2>4, <2>6 DEF WamrTypes, WamrTypeOK
      <3>2. PICK i \in DOMAIN natives : natives[i] = Group(u)
        BY <3>1 DEF OwnListed
      <3> QED
        BY <2>2, <3>2
    <2> QED
      BY <2>2, <2>5, <2>6 DEF OwnListed
  <1>5. ASSUME NEW t \in WThreads, LinkImports(t) PROVE OwnListed'
    BY <1>5 DEF LinkImports, InPlace, Go, OwnListed, Group, WamrTypes, WamrTypeOK
  <1>6. ASSUME NEW t \in WThreads, LinkError(t) \/ UnloadModule(t) PROVE OwnListed'
    <2>1. /\ natives \in Seq(Groups) /\ natives' = RemoveFirst(natives, Group(t))
          /\ loads' = loads /\ wpc' = [wpc EXCEPT ![t] = "idle"]
          /\ \A u \in WThreads \ {t} : linked'[u] = linked[u]
      BY <1>6 DEF LinkError, UnloadModule, UnregisterNatives, Go, WamrTypes
    <2>2. /\ \A i \in DOMAIN natives : natives[i] # Group(t) =>
                \E j \in DOMAIN natives' : natives'[j] = natives[i]
          /\ natives # << >> /\ natives[1] # Group(t) =>
                 natives' # << >> /\ natives'[1] = natives[1]
      BY <2>1, RemoveFirstFacts
    <2>3. ASSUME NEW u \in WThreads, wpc'[u] # "idle"
          PROVE  u # t /\ wpc'[u] = wpc[u] /\ Group(u) # Group(t) /\ Group(u)' = Group(u)
                 /\ linked'[u] = linked[u]
      <3>1. u # t
        BY <2>1, <2>3 DEF WamrTypes, WamrTypeOK
      <3> QED
        BY <2>1, <3>1, GroupFacts DEF WamrTypes, WamrTypeOK, Group
    <2> QED
      BY <2>2, <2>3 DEF OwnListed, InPlace
  <1> QED
    BY <1>1, <1>2, <1>3, <1>4, <1>5, <1>6 DEF WamrNext

LEMMA WamrInitHolds == WamrInit => WamrTypes /\ EngineStartsOnce /\ Registered /\ OwnListed
  BY WamrAssumption
     DEF WamrInit, WamrTypes, WamrTypeOK, EngineStartsOnce, Registered, OwnListed, InPlace,
         Groups, ToSet

(* The engine of the process is initialised by one thread at a time and used    *)
(* by none before it is up, also when registrations overlap (wamr_ensure_runtime). *)
THEOREM EngineStartsSafely == WamrSpec => [](WamrTypeOK /\ EngineStartsOnce)
  <1>1. WamrInit => WamrTypes /\ EngineStartsOnce
    BY WamrInitHolds
  <1>2. WamrTypes /\ EngineStartsOnce /\ [WamrNext]_wamrVars => (WamrTypes /\ EngineStartsOnce)'
    BY EngineKeeps, WamrTypesKeep
  <1>3. WamrTypes => WamrTypeOK
    BY DEF WamrTypes
  <1> QED
    BY <1>1, <1>2, <1>3, PTL DEF WamrSpec

(* Threads that load modules at the same time, registrations that overlap        *)
(* included: the engine is started once, and what a thread registered stays on   *)
(* the list while it links and while its module lives, so that only a module     *)
(* that was linked to another thread's symbols can miss a slot; and where no two *)
(* threads register and link at the same time none does                          *)
(* (wamr_register_module_imports).                                                *)
THEOREM EngineSharedSafely == WamrSpec => []EngineServesAll
  <1> DEFINE I == WamrTypes /\ EngineStartsOnce /\ OwnListed /\ (Overlap \/ Registered)
  <1>1. WamrInit => I
    BY WamrInitHolds
  <1>2. I /\ [WamrNext]_wamrVars => I'
    <2> SUFFICES ASSUME I, [WamrNext]_wamrVars PROVE I'
      OBVIOUS
    <2>1. WamrTypes' /\ EngineStartsOnce' /\ OwnListed'
      BY EngineKeeps, WamrTypesKeep, OwnListedKeeps
    <2>2. CASE Overlap
      BY <2>1, <2>2
    <2>3. CASE ~Overlap
      BY <2>1, <2>3, RegisteredKeeps, WamrAssumption
    <2> QED
      BY <2>2, <2>3
  <1>3. I => EngineServesAll
    BY DEF WamrTypes, Registered, OwnListed, EngineServesAll, OwnImportsStay, ImportFindsSlot, ToSet
  <1> QED
    BY <1>1, <1>2, <1>3, PTL DEF WamrSpec

-----------------------------------------------------------------------------
(* The debugger *)

DbgSpec == DbgInit /\ [][DbgNext]_dbgVars

DbgStates ==
    [mode : {"none", "over", "into", "out"}, stepLine : Nat, lastStop : Nat,
     pause : BOOLEAN, stopped : BOOLEAN, pos : Nat]

DbgTypes ==
    /\ dphase \in {"config", "run", "watch", "cond"} /\ dstate \in DbgStates
    /\ bps \in Bps /\ condAt \in Nat /\ pumps \in Nat
    /\ gen \in 0 .. MaxStops /\ snap \in Nat /\ stepFrom \in Nat
    /\ inWire \in Seq(Requests) /\ inBuf \in Seq(Requests)
    /\ asked \in Nat /\ answered \in Nat

(* A request that was sent is answered, in the pipe or in the buffer. *)
RequestsCounted == asked = answered + Len(inWire) + Len(inBuf)

(* A stop remembers its own place as that of a step to come ... *)
StopIsPlaced == dstate.stopped => dstate.stepLine = dstate.pos

(* ... and a step from a line goes on until another one is reached. *)
StepIsUnderWay ==
    stepFrom # NoLine =>
        /\ ~dstate.stopped /\ dstate.mode \in {"over", "out"} /\ dstate.stepLine = stepFrom

DbgInv ==
    /\ DbgTypes /\ RequestsCounted /\ OnePump /\ FramesAreCurrent /\ StopIsPlaced
    /\ StepIsUnderWay /\ StepMoves

LEMMA DbgInitHolds == ASSUME DbgInit PROVE DbgInv
  <1>1. DbgTypes
    BY DbgAssumption DEF DbgInit, DbgTypes, DbgStates, Bps, NoLine
  <1>2. PICK entry \in BOOLEAN :
            dstate = [mode |-> "none", stepLine |-> NoLine, lastStop |-> NoLine,
                      pause |-> entry, stopped |-> FALSE, pos |-> NoLine]
    BY DEF DbgInit
  <1> QED
    BY <1>1, <1>2 DEF DbgInit, DbgInv, RequestsCounted, OnePump, FramesAreCurrent, StopIsPlaced,
       StepIsUnderWay, StepMoves, NoLine

LEMMA WherePlaces ==
    ASSUME NEW l \in Lines \cup {Text}
    PROVE  Where(l) \in Nat \ {0}
  BY DbgAssumption DEF Where, Text

(* A request is taken from the buffer, or from the pipe whose rest goes there. *)
LEMMA TakesOne ==
    ASSUME DbgTypes, RequestsCounted, TakesAndAnswers, inBuf # << >> \/ inWire # << >>
    PROVE  /\ inWire' \in Seq(Requests) /\ inBuf' \in Seq(Requests)
           /\ answered' \in Nat /\ RequestsCounted' /\ Message \in Requests
  <1>1. CASE inBuf # << >>
    <2>1. inBuf' = Tail(inBuf) /\ inWire' = inWire /\ Message = Head(inBuf)
      BY <1>1 DEF TakesAndAnswers, Message
    <2>2. /\ Tail(inBuf) \in Seq(Requests) /\ Len(Tail(inBuf)) = Len(inBuf) - 1
          /\ Head(inBuf) \in Requests /\ Len(inBuf) \in Nat /\ Len(inWire) \in Nat
      BY <1>1 DEF DbgTypes
    <2> QED
      BY <2>1, <2>2 DEF TakesAndAnswers, DbgTypes, RequestsCounted
  <1>2. CASE inBuf = << >>
    <2>1. inBuf' = Tail(inWire) /\ inWire' = << >> /\ Message = Head(inWire) /\ inWire # << >>
      BY <1>2 DEF TakesAndAnswers, Message
    <2>2. /\ Tail(inWire) \in Seq(Requests) /\ Len(Tail(inWire)) = Len(inWire) - 1
          /\ Head(inWire) \in Requests /\ Len(inWire) \in Nat /\ Len(inBuf) = 0
      BY <1>2, <2>1 DEF DbgTypes
    <2> QED
      BY <2>1, <2>2 DEF TakesAndAnswers, DbgTypes, RequestsCounted
  <1> QED
    BY <1>1, <1>2

LEMMA SendsKeeps ==
    ASSUME DbgInv, NEW req \in Requests, ClientSends(req)
    PROVE  DbgInv'
  <1>1. /\ inWire' = Append(inWire, req) /\ asked' = asked + 1
        /\ UNCHANGED <<dphase, dstate, bps, condAt, pumps, gen, snap, inBuf, answered, dbgHist>>
    BY DEF ClientSends
  <1>2. /\ inWire' \in Seq(Requests) /\ Len(inWire') = Len(inWire) + 1
        /\ Len(inWire) \in Nat /\ Len(inBuf) \in Nat
    BY <1>1 DEF DbgInv, DbgTypes
  <1>3. DbgTypes'
    BY <1>1, <1>2 DEF DbgInv, DbgTypes, dbgHist
  <1>4. RequestsCounted'
    BY <1>1, <1>2 DEF DbgInv, DbgTypes, RequestsCounted
  <1> QED
    BY <1>1, <1>3, <1>4 DEF DbgInv, OnePump, FramesAreCurrent, StopIsPlaced, StepIsUnderWay,
       StepMoves, dbgHist

(* Configuration and the timer take a request and leave the stop alone. *)
LEMMA ServiceKeeps ==
    ASSUME DbgInv, DapConfigure \/ DapService
    PROVE  DbgInv'
  <1>1. /\ UNCHANGED <<condAt, pumps, gen, snap, stepFrom, moved>>
        /\ dphase' \in {"config", "run", "watch", "cond"}
    BY DEF DapConfigure, DapService, dbgHist, DbgInv, DbgTypes
  <1>2. /\ bps' \in Bps /\ inWire' \in Seq(Requests) /\ inBuf' \in Seq(Requests)
        /\ answered' \in Nat /\ asked' = asked /\ RequestsCounted'
    <2>1. CASE /\ TakesAndAnswers /\ SetBreakpoints(Message)
               /\ inBuf # << >> \/ inWire # << >>
      BY <2>1, TakesOne DEF DbgInv, DbgTypes, TakesAndAnswers, SetBreakpoints
    <2>2. CASE UNCHANGED <<chanVars, bps>>
      BY <2>2 DEF DbgInv, DbgTypes, RequestsCounted, chanVars
    <2> QED
      BY <2>1, <2>2 DEF DapConfigure, DapService, Readable
  <1>3. \/ dstate' = dstate
        \/ \E b \in BOOLEAN : dstate' = [dstate EXCEPT !.pause = b]
    BY DEF DapConfigure, DapService, DbgInv, DbgTypes, DbgStates
  <1>4. /\ dstate' \in DbgStates
        /\ dstate'.mode = dstate.mode /\ dstate'.stepLine = dstate.stepLine
        /\ dstate'.stopped = dstate.stopped /\ dstate'.pos = dstate.pos
    BY <1>3 DEF DbgInv, DbgTypes, DbgStates
  <1> QED
    BY <1>1, <1>2, <1>4 DEF DbgInv, DbgTypes, OnePump, FramesAreCurrent, StopIsPlaced,
       StepIsUnderWay, StepMoves

(* The record of the debugger after a stop at a place. *)
LEMMA StopRecord ==
    ASSUME NEW d \in DbgStates, NEW place \in Nat, NEW pause \in BOOLEAN
    PROVE  LET e == [d EXCEPT !.mode = "none", !.stepLine = place, !.lastStop = place,
                              !.pause = pause, !.stopped = TRUE, !.pos = place]
           IN  e.stopped /\ e.stepLine = e.pos /\ e \in DbgStates
  BY DEF DbgStates

(* A stop at a place: of the program, or after a condition that was true. *)
LEMMA StopKeeps ==
    ASSUME DbgInv, ~dstate.stopped, gen < MaxStops, NEW place \in Nat, NEW pause \in BOOLEAN,
           dstate' = [dstate EXCEPT !.mode = "none", !.stepLine = place, !.lastStop = place,
                                    !.pause = pause, !.stopped = TRUE, !.pos = place],
           gen' = gen + 1, snap' = 0, pumps' = pumps + 1, stepFrom' = NoLine, moved',
           dphase' \in {"config", "run", "watch", "cond"}, condAt' \in Nat,
           UNCHANGED <<bps, chanVars>>
    PROVE  DbgInv'
  <1>0. dstate \in DbgStates
    BY DEF DbgInv, DbgTypes
  <1>1. /\ dstate'.stopped /\ dstate'.stepLine = dstate'.pos /\ dstate' \in DbgStates
    BY <1>0, StopRecord
  <1>2. pumps = 0 /\ gen' \in 0 .. MaxStops /\ pumps' = 1 /\ stepFrom' \in Nat
    <2>1. gen \in 0 .. MaxStops /\ pumps \in Nat /\ pumps <= 1 /\ pumps # 1
      BY DEF DbgInv, DbgTypes, OnePump
    <2> QED
      BY <2>1, DbgAssumption DEF NoLine
  <1>3. DbgTypes' /\ RequestsCounted'
    BY <1>1, <1>2 DEF DbgInv, DbgTypes, RequestsCounted, chanVars
  <1> QED
    BY <1>1, <1>2, <1>3 DEF DbgInv, OnePump, FramesAreCurrent, StopIsPlaced,
       StepIsUnderWay, StepMoves, NoLine

(* A place that the program runs over. *)
LEMMA PassKeeps ==
    ASSUME DbgInv, ~dstate.stopped, NEW place \in Nat,
           dstate' = [dstate EXCEPT !.pos = place],
           stepFrom' \in {stepFrom, NoLine},
           dphase' \in {"config", "run", "watch", "cond"}, condAt' \in Nat,
           UNCHANGED <<bps, pumps, gen, snap, chanVars, moved>>
    PROVE  DbgInv'
  <1>1. /\ dstate' \in DbgStates /\ ~dstate'.stopped
        /\ dstate'.mode = dstate.mode /\ dstate'.stepLine = dstate.stepLine
    BY DEF DbgInv, DbgTypes, DbgStates
  <1> QED
    BY <1>1 DEF DbgInv, DbgTypes, OnePump, FramesAreCurrent, StopIsPlaced,
       StepIsUnderWay, StepMoves, RequestsCounted, NoLine, chanVars

LEMMA DispatchKeeps ==
    ASSUME DbgInv, NEW l \in Lines \cup {Text}, NEW debugger \in BOOLEAN, Dispatch(l, debugger)
    PROVE  DbgInv'
  <1>1. ~dstate.stopped /\ Where(l) \in Nat \ {0} /\ dphase \in {"run", "cond"}
    BY WherePlaces DEF Dispatch
  <1>2. ASSUME NEW reason, Stop(l, reason), reason = "step" => StepReason(l)
        PROVE  DbgInv'
    <2>1. ~(reason = "step" /\ stepFrom = Where(l))
      BY <1>1, <1>2 DEF StepReason, DbgInv, StepIsUnderWay, NoLine
    <2>2. moved'
      BY <1>2, <2>1 DEF Stop, DbgInv, StepMoves
    <2>3. PICK pause \in BOOLEAN : pause = IF reason = "pause" THEN FALSE ELSE dstate.pause
      BY DEF DbgInv, DbgTypes, DbgStates
    <2>4. dstate' = [dstate EXCEPT !.mode = "none", !.stepLine = Where(l), !.lastStop = Where(l),
                                   !.pause = pause, !.stopped = TRUE, !.pos = Where(l)]
      BY <1>2, <2>3 DEF Stop, DbgInv, DbgTypes, DbgStates
    <2>5. /\ gen < MaxStops /\ gen' = gen + 1 /\ snap' = 0 /\ pumps' = pumps + 1
          /\ stepFrom' = NoLine /\ UNCHANGED <<dphase, condAt, bps, chanVars>>
      BY <1>2 DEF Stop
    <2>6. dphase' \in {"config", "run", "watch", "cond"} /\ condAt' \in Nat
      BY <1>1, <2>5 DEF DbgInv, DbgTypes
    <2> QED
      BY <1>1, <2>2, <2>4, <2>5, <2>6, StopKeeps
  <1>3. ASSUME NEW over, PassBy(l, over) PROVE DbgInv'
    BY <1>1, <1>3, PassKeeps DEF PassBy, DbgInv, DbgTypes
  <1>4. ASSUME dphase' = "cond", condAt' = l, l \in Lines,
               UNCHANGED <<dstate, bps, pumps, gen, snap, chanVars, dbgHist>>
        PROVE  DbgInv'
    BY <1>4, DbgAssumption DEF DbgInv, DbgTypes, OnePump, FramesAreCurrent, StopIsPlaced,
       StepIsUnderWay, StepMoves, RequestsCounted, chanVars, dbgHist
  <1>5. \/ \E reason : Stop(l, reason) /\ (reason = "step" => StepReason(l))
        \/ \E over : PassBy(l, over)
        \/ /\ dphase' = "cond" /\ condAt' = l /\ l \in Lines
           /\ UNCHANGED <<dstate, bps, pumps, gen, snap, chanVars, dbgHist>>
    <2>1. "breakpoint" # "step" /\ "pause" # "step" /\ "cond" # "off"
      OBVIOUS
    <2>2. Armed(l) = "cond" => l \in Lines
      BY <2>1 DEF Armed
    <2> QED
      BY <2>1, <2>2 DEF Dispatch
  <1> QED
    BY <1>2, <1>3, <1>4, <1>5

LEMMA CondEndsKeeps ==
    ASSUME DbgInv, NEW true \in BOOLEAN, CondEnds(true)
    PROVE  DbgInv'
  <1>1. /\ ~dstate.stopped /\ dphase' = "run" /\ condAt' = NoLine /\ stepFrom' = NoLine
        /\ UNCHANGED <<bps, chanVars, polling, moved>> /\ condAt \in Nat /\ condAt' \in Nat
    BY DEF CondEnds, DbgInv, DbgTypes, NoLine
  <1>2. CASE true
    <2>1. /\ gen < MaxStops /\ gen' = gen + 1 /\ snap' = 0 /\ pumps' = pumps + 1
          /\ dstate' = [dstate EXCEPT !.mode = "none", !.stepLine = condAt, !.lastStop = condAt,
                                      !.pause = dstate.pause, !.stopped = TRUE, !.pos = condAt]
      BY <1>2 DEF CondEnds, DbgInv, DbgTypes, DbgStates
    <2>2. moved' /\ dstate.pause \in BOOLEAN
      BY <1>1 DEF DbgInv, StepMoves, DbgTypes, DbgStates
    <2> QED
      BY <1>1, <2>1, <2>2, StopKeeps
  <1>3. CASE ~true
    BY <1>1, <1>3, PassKeeps DEF CondEnds
  <1> QED
    BY <1>2, <1>3

LEMMA PumpKeeps == ASSUME DbgInv, DapPump PROVE DbgInv'
  <1>1. pumps = 1 /\ dstate.stopped /\ stepFrom = NoLine /\ UNCHANGED <<bps, condAt, gen, moved>>
    BY DEF DapPump, DbgInv, DbgTypes, OnePump, StepIsUnderWay
  <1>2. CASE Readable /\ TakesAndAnswers
    <2>1. /\ inWire' \in Seq(Requests) /\ inBuf' \in Seq(Requests)
          /\ answered' \in Nat /\ asked' = asked /\ RequestsCounted'
      BY <1>2, TakesOne DEF DbgInv, Readable, TakesAndAnswers
    <2>2. CASE Message \in Flow
      <3>1. /\ dstate' = [dstate EXCEPT
                   !.mode = Mode(Message), !.stopped = FALSE,
                   !.stepLine = IF Message \in {"continue", "disconnect"} THEN NoLine ELSE @]
            /\ pumps' = pumps - 1 /\ snap' = snap /\ dphase' = dphase
            /\ stepFrom' = IF Message \in {"next", "stepOut"} THEN dstate.pos ELSE NoLine
        BY <1>2, <2>2 DEF DapPump, Readable
      <3>2. /\ Mode(Message) \in {"none", "over", "into", "out"}
            /\ Message \in {"next", "stepOut"} =>
                  Mode(Message) \in {"over", "out"} /\ Message \notin {"continue", "disconnect"}
        BY DEF Mode
      <3>3. /\ dstate' \in DbgStates /\ ~dstate'.stopped
            /\ dstate'.mode = Mode(Message) /\ dstate.stepLine = dstate.pos
            /\ dstate'.stepLine \in {NoLine, dstate.stepLine}
            /\ Message \notin {"continue", "disconnect"} => dstate'.stepLine = dstate.stepLine
        BY <1>1, <3>1, <3>2 DEF DbgInv, DbgTypes, DbgStates, StopIsPlaced, NoLine
      <3>4. stepFrom' \in Nat /\ StepIsUnderWay'
        BY <3>1, <3>2, <3>3 DEF DbgInv, DbgTypes, DbgStates, StepIsUnderWay, NoLine
      <3> QED
        BY <1>1, <2>1, <3>1, <3>3, <3>4 DEF DbgInv, DbgTypes, OnePump, FramesAreCurrent,
           StopIsPlaced, StepMoves
    <2>3. CASE Message \notin Flow
      <3>1. /\ dstate' = [dstate EXCEPT !.pause = @ \/ Message = "pause"]
            /\ snap' = IF Message \in {"stackTrace", "evaluate"} /\ snap = 0 THEN gen ELSE snap
            /\ dphase' = IF Message = "evaluate" THEN "watch" ELSE dphase
            /\ UNCHANGED <<pumps, stepFrom>>
        BY <1>2, <2>3 DEF DapPump, Readable
      <3>2. /\ dstate' \in DbgStates /\ dstate'.stopped = dstate.stopped
            /\ dstate'.mode = dstate.mode /\ dstate'.stepLine = dstate.stepLine
            /\ dstate'.pos = dstate.pos
        BY <3>1 DEF DbgInv, DbgTypes, DbgStates
      <3> QED
        BY <1>1, <2>1, <3>1, <3>2 DEF DbgInv, DbgTypes, OnePump, FramesAreCurrent,
           StopIsPlaced, StepMoves, StepIsUnderWay
    <2> QED
      BY <2>2, <2>3
  <1>3. CASE /\ dstate' = [dstate EXCEPT !.stopped = FALSE] /\ pumps' = pumps - 1
             /\ UNCHANGED <<chanVars, snap, stepFrom, dphase>>
    <2>1. dstate' \in DbgStates /\ ~dstate'.stopped
      BY <1>3 DEF DbgInv, DbgTypes, DbgStates
    <2> QED
      BY <1>1, <1>3, <2>1 DEF DbgInv, DbgTypes, OnePump, FramesAreCurrent, StopIsPlaced,
         StepMoves, StepIsUnderWay, RequestsCounted, chanVars
  <1> QED
    BY <1>2, <1>3 DEF DapPump

LEMMA DbgInvKeeps == ASSUME DbgInv, [DbgNext]_dbgVars PROVE DbgInv'
  <1>1. CASE UNCHANGED dbgVars
    BY <1>1 DEF dbgVars, DbgInv, DbgTypes, RequestsCounted, OnePump, FramesAreCurrent,
       StopIsPlaced, StepIsUnderWay, StepMoves
  <1>2. CASE ClientCloses \/ WatchEnds
    BY <1>2 DEF ClientCloses, WatchEnds, DbgInv, DbgTypes, RequestsCounted, OnePump,
       FramesAreCurrent, StopIsPlaced, StepIsUnderWay, StepMoves, chanVars, dbgHist
  <1>3. ASSUME NEW l \in Lines, WatchDispatch(l) PROVE DbgInv'
    BY <1>1, <1>3 DEF WatchDispatch
  <1> QED
    BY <1>1, <1>2, <1>3, SendsKeeps, ServiceKeeps, DispatchKeeps, CondEndsKeeps, PumpKeeps
       DEF DbgNext

(* Of debugger.c and debugger_dap.c: for every program, number of stops and     *)
(* requests, pipelined or not, one pump serves the client at a time, the frames *)
(* it is shown are those of this stop, and a step ends on another line.         *)
THEOREM StopsStaySound == DbgSpec => []StopsAreSound
  <1>1. DbgInv => StopsAreSound
    BY DEF DbgInv, DbgTypes, DbgStates, StopsAreSound, DbgTypeOK, RequestsCounted
  <1> QED
    BY <1>1, DbgInitHolds, DbgInvKeeps, PTL DEF DbgSpec
=============================================================================
