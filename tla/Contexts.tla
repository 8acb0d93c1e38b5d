------------------------------ MODULE Contexts ------------------------------
(***************************************************************************)
(* The contexts of a runtime (src/src/context.c, src/src/extension.c): one  *)
(* JSContext per slot, of which slot 0 is the main one.  Scripts spawn,     *)
(* suspend, resume and destroy other contexts, from inside the script that  *)
(* initialises a context too, so the operations nest.                       *)
(***************************************************************************)
EXTENDS Integers, Sequences, FiniteSets

CONSTANTS
    MaxContexts,     \* QZ_MAX_CONTEXTS
    MaxInstances,    \* bound: contexts ever created
    MaxDepth,        \* bound: scripts that run inside one another
    MaxTasks         \* bound: tasks

ASSUME ContextsAssumption == MaxContexts \in Nat \ {0} /\ MaxInstances \in Nat /\ MaxDepth \in Nat

Slots == 0 .. MaxContexts - 1
Instances == 1 .. MaxInstances
Bad == 0                       \* no instance

VARIABLES
    contexts,        \* contexts[]: the instance in a slot, Bad for NULL
    active_ctx_id,
    context_count,
    alive,           \* instances whose qz_ctx_t is allocated
    born,            \* instances created
    frames,          \* scripts that run, the innermost last: who waits for it and in what instance it runs
    ctxJobs,         \* instances with pending jobs
    strayJobs,       \* destroyed instances with jobs queued since, in the same list of the runtime
    ctxIo,           \* instances with an I/O operation under way
    extState,        \* runtime-wide state of the extensions (wasm3_env, ec_drbg): its generation, 0 for NULL
    extMade,         \* generations made
    usesExt,         \* of each instance: the generation its objects were made with, 0 if none
    stateFile,       \* of each line of contexts: its file, "none", "torn" or "whole"
    tasks,           \* tasks run so far
    heir,            \* history: of each instance the first one of its line (resumed from its state)
    given,           \* history: lines a script destroyed, or resumed over while they were alive
    nested,          \* history: a spawn or resume returned to the initial script of another
    freedUse         \* history: a spawn or resume went on with a qz_ctx_t that is freed

ctxVars == <<contexts, active_ctx_id, context_count, alive, born, frames, ctxJobs, ctxIo,
             extState, extMade, usesExt, stateFile, tasks, heir, given, nested, strayJobs, freedUse>>

CtxInit ==
    /\ contexts = [s \in Slots |-> Bad] /\ active_ctx_id = -1 /\ context_count = 0
    /\ alive = {} /\ born = 0 /\ frames = << >> /\ ctxJobs = {} /\ ctxIo = {}
    /\ extState = 0 /\ extMade = 0 /\ usesExt = [i \in Instances |-> 0]
    /\ stateFile = [i \in Instances |-> "none"] /\ tasks = 0
    /\ heir = [i \in Instances |-> i] /\ given = {} /\ nested = FALSE
    /\ strayJobs = {} /\ freedUse = FALSE

-----------------------------------------------------------------------------
(* The state a context operation works on, as a record, and its operations. *)

Table == [tab |-> contexts, active |-> active_ctx_id, n |-> context_count, alive |-> alive,
          jobs |-> ctxJobs, ext |-> extState, made |-> extMade, born |-> born]

SetTable(t) ==
    /\ contexts' = t.tab /\ active_ctx_id' = t.active /\ context_count' = t.n
    /\ alive' = t.alive /\ ctxJobs' = t.jobs /\ extState' = t.ext /\ extMade' = t.made
    /\ born' = t.born

(* qz_ext_init_all: a wasm extension makes the runtime's environment if there  *)
(* is none.  A hook that fails ends it, and create_at undoes the registration  *)
(* only: the hooks that succeeded are not destroyed.                           *)
ExtInit(t) == IF t.ext = 0 THEN [t EXCEPT !.ext = t.made + 1, !.made = @ + 1] ELSE t

(* qz_ctx_create_at: registered and made active before the polyfill runs. *)
CreateAt(t, slot) ==
    ExtInit([t EXCEPT !.tab[slot] = t.born + 1, !.n = @ + 1, !.active = slot,
                      !.alive = @ \cup {t.born + 1}, !.born = @ + 1])

(* The registration is undone: pal object, bytecode or an extension failed. *)
CreateFails(t, slot) ==
    [CreateAt(t, slot) EXCEPT !.tab[slot] = Bad, !.n = t.n, !.active = t.active, !.alive = t.alive]

(* Faulty variant: jobs of the context stay in the runtime's list. *)
UndrainedDestroy(t, i) ==
    LET slot == CHOOSE s \in Slots : t.tab[s] = i IN
    [t EXCEPT !.ext = 0, !.tab[slot] = Bad, !.n = @ - 1, !.alive = @ \ {i},
              !.active = IF @ = slot THEN -1 ELSE @]

(* qz_ctx_destroy: qz_ext_destroy_all frees what the extensions keep on the     *)
(* runtime; timers are cancelled; the jobs of the context are dropped.          *)
Destroy(t, i) ==
    LET slot == CHOOSE s \in Slots : t.tab[s] = i IN
    [t EXCEPT !.ext = 0, !.jobs = @ \ {i}, !.tab[slot] = Bad, !.n = @ - 1, !.alive = @ \ {i},
              !.active = IF @ = slot THEN -1 ELSE @]

BackToMain(t) == IF t.tab[0] # Bad THEN [t EXCEPT !.active = 0] ELSE t

Free(t) == {s \in Slots : t.tab[s] = Bad}
FirstFree(t) == CHOOSE s \in Free(t) : \A r \in Free(t) : s <= r

-----------------------------------------------------------------------------
Running == frames # << >>
Top == frames[Len(frames)]
CanCreate == born < MaxInstances

(* qz_thread_init: the main context. *)
Boot ==
    /\ born = 0 /\ CanCreate /\ SetTable(CreateAt(Table, 0))
    /\ UNCHANGED <<frames, ctxIo, usesExt, stateFile, tasks, heir, given, nested>>

(* A job, a completed request or a message of the host begins to run; what a stray *)
(* job does when it runs is not modelled.                                           *)
BeginJob(i) ==
    /\ ~Running /\ tasks < MaxTasks /\ i \in ctxJobs \cap alive
    /\ ctxJobs' = ctxJobs \ {i} /\ tasks' = tasks + 1
    /\ frames' = <<[call |-> "task", self |-> i, from |-> Bad]>>
    /\ UNCHANGED <<contexts, active_ctx_id, context_count, alive, born, ctxIo, extState, extMade,
                   usesExt, stateFile, heir, given, nested>>

BeginMessage ==
    /\ ~Running /\ tasks < MaxTasks /\ contexts[0] # Bad
    /\ tasks' = tasks + 1 /\ frames' = <<[call |-> "task", self |-> contexts[0], from |-> Bad]>>
    /\ UNCHANGED <<contexts, active_ctx_id, context_count, alive, born, ctxJobs, ctxIo, extState,
                   extMade, usesExt, stateFile, heir, given, nested>>

(* bridge_io_done of an operation of i: the promise's reaction is queued. *)
IoDone(i) ==
    /\ ~Running /\ i \in ctxIo \cap alive
    /\ ctxIo' = ctxIo \ {i} /\ ctxJobs' = ctxJobs \cup {i}
    /\ UNCHANGED <<contexts, active_ctx_id, context_count, alive, born, frames, extState, extMade,
                   usesExt, stateFile, tasks, heir, given, nested>>

(* What a script does in its own context. *)
QueueJob ==
    /\ Running /\ Top.self \in alive /\ ctxJobs' = ctxJobs \cup {Top.self}
    /\ UNCHANGED <<contexts, active_ctx_id, context_count, alive, born, frames, ctxIo, extState,
                   extMade, usesExt, stateFile, tasks, heir, given, nested>>

(* A script that destroyed its own context still runs, and queues a job after the  *)
(* ones of the context were dropped; its timers and I/O find no qz_ctx_t.           *)
StrayJob ==
    /\ Running /\ Top.self \notin alive
    /\ strayJobs' = strayJobs \cup {Top.self}
    /\ UNCHANGED <<contexts, active_ctx_id, context_count, alive, born, frames, ctxJobs, ctxIo,
                   extState, extMade, usesExt, stateFile, tasks, heir, given, nested, freedUse>>

StartIo ==
    /\ Running /\ Top.self \in alive /\ ctxIo = {}            \* bound: one operation under way
    /\ ctxIo' = {Top.self}
    /\ UNCHANGED <<contexts, active_ctx_id, context_count, alive, born, frames, ctxJobs, extState,
                   extMade, usesExt, stateFile, tasks, heir, given, nested>>

UseExtension ==
    /\ Running /\ Top.self \in alive /\ extState # 0
    /\ \A i \in Instances : usesExt[i] = 0                     \* bound: one context uses it
    /\ usesExt' = [usesExt EXCEPT ![Top.self] = extState]
    /\ UNCHANGED <<contexts, active_ctx_id, context_count, alive, born, frames, ctxJobs, ctxIo,
                   extState, extMade, stateFile, tasks, heir, given, nested>>

-----------------------------------------------------------------------------
(* js_pal_context_*, called by the script that runs: they need the runtime only,  *)
(* so that a script whose context is destroyed can go on calling them.             *)

InScript == Running /\ Top.self \in alive
Calling == Running /\ UNCHANGED nested
Returns == /\ frames' = SubSeq(frames, 1, Len(frames) - 1)
           /\ nested' = (nested \/ frames[Len(frames) - 1].call # "task")

(* qz_ctx_spawn: the initial script runs in the new context, inside this call. *)
Spawn ==
    /\ Calling /\ Len(frames) < MaxDepth /\ CanCreate /\ Free(Table) # {}
    /\ SetTable(CreateAt(Table, FirstFree(Table)))
    /\ frames' = Append(frames, [call |-> "spawn", self |-> born + 1, from |-> Bad])
    /\ UNCHANGED <<ctxIo, usesExt, stateFile, tasks, heir, given>>

(* qz_ctx_create fails: contextSpawn throws. *)
SpawnFails ==
    /\ Calling /\ CanCreate /\ Free(Table) # {}
    /\ SetTable(CreateFails(Table, FirstFree(Table)))
    /\ given' = given \cup {born + 1}
    /\ UNCHANGED <<frames, ctxIo, usesExt, stateFile, tasks, heir>>

(* qz_ctx_serialize: the state is written and then the context destroyed; a     *)
(* write that fails leaves a torn file and the context.                         *)
Serialize(id, written) ==
    /\ Calling /\ contexts[id] # Bad /\ id # active_ctx_id
    /\ stateFile' = [stateFile EXCEPT ![heir[contexts[id]]] = IF written THEN "whole" ELSE "torn"]
    /\ SetTable(IF written THEN Destroy(Table, contexts[id]) ELSE Table)
    /\ UNCHANGED <<frames, ctxIo, usesExt, tasks, heir, given>>

(* What was left in the slot is destroyed first. *)
Cleared(id) == IF contexts[id] # Bad THEN Destroy(Table, contexts[id]) ELSE Table
GivenUp(id) == IF contexts[id] # Bad THEN given \cup {heir[contexts[id]]} ELSE given

(* qz_ctx_rebuild, up to the script that runs in the new context.  The state    *)
(* is restored when the script has returned.                                    *)
Rebuild(id, line) ==
    /\ Calling /\ stateFile[line] # "none" /\ id # active_ctx_id /\ Len(frames) < MaxDepth /\ CanCreate
    /\ SetTable(CreateAt(Cleared(id), id))
    /\ given' = GivenUp(id)
    /\ frames' = Append(frames, [call |-> "rebuild", self |-> born + 1, from |-> line])
    /\ UNCHANGED <<ctxIo, usesExt, stateFile, tasks, heir>>

RebuildFails(id) ==
    /\ Calling /\ id # active_ctx_id /\ CanCreate
    /\ SetTable(CreateFails(Cleared(id), id))
    /\ given' = GivenUp(id) \cup {born + 1}
    /\ UNCHANGED <<frames, ctxIo, usesExt, stateFile, tasks, heir>>

DestroyId(id) ==
    /\ Calling /\ contexts[id] # Bad /\ id # active_ctx_id
    /\ SetTable(Destroy(Table, contexts[id]))
    /\ given' = GivenUp(id)
    /\ UNCHANGED <<frames, ctxIo, usesExt, stateFile, tasks, heir>>

-----------------------------------------------------------------------------
(* A script ends, and with it the call that waited for it. *)

(* A task of a child context may have destroyed its own. *)
TaskEnds ==
    /\ Running /\ Top.call = "task"
    /\ frames' = << >>
    /\ UNCHANGED <<contexts, active_ctx_id, context_count, alive, born, ctxJobs, ctxIo, extState,
                   extMade, usesExt, stateFile, tasks, heir, given, nested>>

SpawnEnds(threw) ==
    /\ InScript /\ Top.call = "spawn"
    /\ SetTable(BackToMain(IF threw THEN Destroy(Table, Top.self) ELSE Table))
    /\ given' = IF threw THEN given \cup {Top.self} ELSE given
    /\ Returns
    /\ UNCHANGED <<ctxIo, usesExt, stateFile, tasks, heir>>

(* The initial script destroyed its own context (the main one was made the active *)
(* one by a call of its own) and returned: spawn has no more use for the qz_ctx_t. *)
OwnGone ==
    /\ Running /\ Top.call = "spawn" /\ Top.self \notin alive
    /\ SetTable(BackToMain(Table))
    /\ Returns
    /\ UNCHANGED <<ctxIo, usesExt, stateFile, tasks, heir, given>>

(* It threw, and spawn destroys the freed context once more; or it was to be       *)
(* resumed, and rebuild restores or destroys what is freed.  Nothing is said of     *)
(* the runtime after that.                                                         *)
UseFreed ==
    /\ Running /\ Top.call # "task" /\ Top.self \notin alive
    /\ freedUse' = TRUE
    /\ UNCHANGED <<contexts, active_ctx_id, context_count, alive, born, frames, ctxJobs, ctxIo,
                   extState, extMade, usesExt, stateFile, tasks, heir, given, nested, strayJobs>>

(* qz_ctx_restore_bytes succeeds with the bytes that were captured. *)
Restored(line) == stateFile[line] = "whole"

(* The state goes back into the new context: it carries on the line.  A script  *)
(* that throws, a file that is torn or a resume hook that fails destroys it.    *)
RebuildEnds(threw) ==
    /\ InScript /\ Top.call = "rebuild"
    /\ LET ok == ~threw /\ Restored(Top.from) IN
          /\ SetTable(IF ok THEN BackToMain(Table) ELSE Destroy(BackToMain(Table), Top.self))
          /\ heir' = IF ok THEN [heir EXCEPT ![Top.self] = Top.from] ELSE heir
          /\ given' = IF ok THEN given ELSE given \cup {Top.self}
    /\ Returns
    /\ UNCHANGED <<ctxIo, usesExt, stateFile, tasks>>

CtxStep ==
    \/ Boot \/ BeginMessage \/ QueueJob \/ StartIo \/ UseExtension
    \/ \E i \in Instances : BeginJob(i) \/ IoDone(i)
    \/ Spawn \/ SpawnFails \/ TaskEnds \/ OwnGone
    \/ \E id \in Slots : RebuildFails(id) \/ DestroyId(id)
    \/ \E id \in Slots, line \in Instances : Rebuild(id, line)
    \/ \E id \in Slots, written \in BOOLEAN : Serialize(id, written)
    \/ \E threw \in BOOLEAN : SpawnEnds(threw) \/ RebuildEnds(threw)

CtxNext ==
    /\ ~freedUse
    /\ \/ CtxStep /\ UNCHANGED <<strayJobs, freedUse>>
       \/ StrayJob \/ UseFreed

CtxSpec == CtxInit /\ [][CtxNext]_ctxVars

-----------------------------------------------------------------------------
CtxTypeOK ==
    /\ contexts \in [Slots -> Instances \cup {Bad}] /\ active_ctx_id \in -1 .. MaxContexts - 1
    /\ context_count \in 0 .. MaxContexts
    /\ alive \subseteq Instances /\ born \in 0 .. MaxInstances
    /\ ctxJobs \subseteq Instances /\ ctxIo \subseteq Instances
    /\ extState \in 0 .. extMade /\ stateFile \in [Instances -> {"none", "torn", "whole"}]

(* Of create_at, destroy and their failure paths: context_count, which status    *)
(* reports, is the number of contexts, and a slot holds a live context of its     *)
(* own or nothing, however the calls nest and fail.                               *)
TableIsTrue ==
    /\ context_count = Cardinality({s \in Slots : contexts[s] # Bad})
    /\ {contexts[s] : s \in Slots} \ {Bad} = alive
    /\ \A r, s \in Slots : contexts[r] = contexts[s] /\ r # s => contexts[r] = Bad

(* Of the comment at context.c:259 ("a remaining entry holds a dangling ctx       *)
(* pointer"): a pending job belongs to a live context, unless a script that had   *)
(* destroyed its own context queued it afterwards (NoStrayJob).                   *)
JobsFindContext == ctxJobs \subseteq alive

(* Of spawn and rebuild ("the host only sees the main one"): whenever no script   *)
(* runs, the main context is the active one, so that the host's messages and      *)
(* evaluations go there (an initial script may have destroyed the main one).      *)
MainIsActive == ~Running /\ contexts[0] # Bad => active_ctx_id = 0

(* Of the busy checks: the context whose initial script runs is not destroyed     *)
(* under it, as long as no spawn or resume that its script called has returned    *)
(* (which makes the main context the active one).                        *)
InitialisedIsAlive ==
    ~nested /\ Running => Top.call = "task" \/ Top.self \in alive

(* Of suspend and resume: a line of contexts that no script destroyed and no      *)
(* resume ran over is alive or its last state is on disk, whatever write failed.  *)
StateIsKept ==
    \A i \in 1 .. born :
        \/ heir[i] \in given
        \/ \E j \in alive : heir[j] = heir[i]
        \/ stateFile[heir[i]] = "whole"

(* The table of contexts while scripts spawn, suspend, resume and destroy      *)
(* contexts from inside each other, their own included, up to the first use of *)
(* a freed one (NoFreedUse): counts and slots agree, no job outlives a context *)
(* unless a script of that context outlived it, the host finds the main        *)
(* context active, and a suspended context has its state on disk.              *)
ContextsAreSound ==
    /\ CtxTypeOK /\ TableIsTrue /\ JobsFindContext /\ MainIsActive /\ InitialisedIsAlive
    /\ StateIsKept

(* Known not to hold, see the README. *)
(* Of qz_internal.h:564 ("QZ_ERR_BUSY: one cannot suspend, destroy or rebuild the  *)
(* context one is running in"): every script that runs has its context.             *)
RunningIsAlive == \A k \in DOMAIN frames : frames[k].self \in alive

(* Known not to hold, see the README. *)
(* Of the comment at context.c:259: no job is pending for a destroyed context.      *)
NoStrayJob == strayJobs = {}

(* Known not to hold, see the README. *)
(* Of spawn and rebuild: the context they work on outlives the script they run.     *)
NoFreedUse == ~freedUse

(* Known not to hold, see the README. *)
(* Of suspend-restore-design.md 4.4 (the runtime-wide state of extensions lives   *)
(* on when a context is suspended): the objects of a live context were made with  *)
(* the extension state that the runtime has now.                                  *)
ExtStateSurvives == \A i \in alive : usesExt[i] # 0 => extState = usesExt[i]

(* Known not to hold, see the README. *)
(* Of the same design, 5.2 (I/O belongs to the runtime, suspending a context does *)
(* not touch it): a completion finds the context it was started in.               *)
IoFindsContext == ctxIo \subseteq alive
=============================================================================
