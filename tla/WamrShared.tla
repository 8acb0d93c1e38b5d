----------------------------- MODULE WamrShared -----------------------------
(***************************************************************************)
(* What runtimes on different threads share in src/src/ext_wamr.c: the      *)
(* state word of the process-wide engine, which wamr_ensure_runtime guards  *)
(* with a compare-and-swap and a spin, and WAMR's list of native symbols,   *)
(* in which the module constructor registers the imports of a module before *)
(* it loads the module a second time to have them linked.                  *)
(*                                                                         *)
(* Every thread builds one module after another; all of them import from a  *)
(* module of the same name, such as "env", as most do.                      *)
(***************************************************************************)
EXTENDS Naturals, Sequences, SequencesExt

CONSTANTS
    WThreads,    \* threads that use WebAssembly
    NoThread,    \* the owner of no slot
    MaxLoads,    \* bound: modules a thread builds
    Overlap      \* TRUE if two threads may register and link at the same time

ASSUME WamrAssumption ==
    NoThread \notin WThreads /\ MaxLoads \in Nat /\ Overlap \in BOOLEAN

VARIABLES
    initialized,   \* g_wamr_state.initialized: 0, 1 (ready) or 2 (in progress)
    wpc,           \* wpc[t]: where thread t is in the module constructor
    natives,       \* WAMR's list of symbol groups: <<thread, number>>, newest first
    linked,        \* linked[t]: the group that the module of t is linked to
    loads,         \* loads[t]: modules thread t has begun
    initFailed     \* history: has wasm_runtime_init failed?

wamrVars == <<initialized, wpc, natives, linked, loads, initFailed>>

Unlinked == <<NoThread, 0>>
Group(t) == <<t, loads[t]>>

WamrInit ==
    /\ initialized = 0 /\ wpc = [t \in WThreads |-> "idle"]
    /\ natives = << >> /\ linked = [t \in WThreads |-> Unlinked]
    /\ loads = [t \in WThreads |-> 0] /\ initFailed = FALSE

InPlace(t, s) == wpc[t] = s
Go(t, s) == wpc' = [wpc EXCEPT ![t] = s]

(* Faulty variant: the word is read and only set once the engine is up. *)
LooseEnsureRuntime(t) ==
    /\ InPlace(t, "idle") /\ loads[t] < MaxLoads
    /\ loads' = [loads EXCEPT ![t] = @ + 1]
    /\ Go(t, IF initialized = 0 THEN "init" ELSE "spin")
    /\ UNCHANGED <<initialized, natives, linked, initFailed>>

(* wamr_ensure_runtime: the thread that swaps 0 for 2 initialises the engine. *)
EnsureRuntime(t) ==
    /\ InPlace(t, "idle") /\ loads[t] < MaxLoads
    /\ loads' = [loads EXCEPT ![t] = @ + 1]
    /\ Go(t, IF initialized = 0 THEN "init" ELSE "spin")
    /\ initialized' = IF initialized = 0 THEN 2 ELSE initialized
    /\ UNCHANGED <<natives, linked, initFailed>>

(* wasm_runtime_init succeeds, and the word says so. *)
InitDone(t) ==
    /\ InPlace(t, "init") /\ Go(t, "load")
    /\ initialized' = 1
    /\ UNCHANGED <<natives, linked, loads, initFailed>>

(* wasm_runtime_init fails: the word goes back to 0 and the constructor throws. *)
InitError(t) ==
    /\ InPlace(t, "init") /\ Go(t, "idle")
    /\ initialized' = 0 /\ initFailed' = TRUE
    /\ UNCHANGED <<natives, linked, loads>>

(* sched_yield until the word is 1. *)
SpinEnds(t) ==
    /\ InPlace(t, "spin") /\ initialized = 1 /\ Go(t, "load")
    /\ UNCHANGED <<initialized, natives, linked, loads, initFailed>>

(* wamr_register_module_imports, after the first load has told the imports. *)
RegisterImports(t) ==
    /\ InPlace(t, "load")
    /\ Overlap \/ \A u \in WThreads : ~InPlace(u, "link")
    /\ natives' = <<Group(t)>> \o natives
    /\ Go(t, "link")
    /\ UNCHANGED <<initialized, linked, loads, initFailed>>

(* The second wasm_runtime_load resolves each import in the first group that    *)
(* has the name, and replaces the module of the first load.                     *)
LinkImports(t) ==
    /\ InPlace(t, "link")
    /\ linked' = [linked EXCEPT ![t] = Head(natives)]
    /\ Go(t, "built")
    /\ UNCHANGED <<initialized, natives, loads, initFailed>>

(* wasm_runtime_unregister_natives: the first group that is t's leaves the list. *)
UnregisterNatives(t) == natives' = RemoveFirst(natives, Group(t))

(* A registration or a second load that fails gives back what was registered. *)
LinkError(t) ==
    /\ InPlace(t, "link")
    /\ UnregisterNatives(t)
    /\ Go(t, "idle")
    /\ UNCHANGED <<initialized, linked, loads, initFailed>>

(* wamr_module_finalizer: the module is unloaded, its group unregistered and    *)
(* its slots freed.                                                             *)
UnloadModule(t) ==
    /\ InPlace(t, "built")
    /\ UnregisterNatives(t)
    /\ linked' = [linked EXCEPT ![t] = Unlinked]
    /\ Go(t, "idle")
    /\ UNCHANGED <<initialized, loads, initFailed>>

WamrNext == \E t \in WThreads :
    \/ EnsureRuntime(t) \/ InitDone(t) \/ InitError(t) \/ SpinEnds(t)
    \/ RegisterImports(t) \/ LinkImports(t) \/ LinkError(t) \/ UnloadModule(t)

(* A thread that initialises or spins is scheduled. *)
WamrFairness == \A t \in WThreads :
    WF_wamrVars(InitDone(t) \/ InitError(t)) /\ WF_wamrVars(SpinEnds(t))

-----------------------------------------------------------------------------
(* Properties *)

(* The word, the places of threads and the groups have their types. *)
WamrTypeOK ==
    /\ initialized \in 0 .. 2
    /\ wpc \in [WThreads -> {"idle", "init", "spin", "load", "link", "built"}]
    /\ ToSet(natives) \subseteq WThreads \X (1 .. MaxLoads)
    /\ loads \in [WThreads -> 0 .. MaxLoads]

(* The engine is initialised by one thread at a time, once it is up no thread  *)
(* initialises it again, and no thread loads a module before it is up.         *)
EngineStartsOnce ==
    /\ \A t, u \in WThreads : InPlace(t, "init") /\ InPlace(u, "init") => t = u
    /\ \A t \in WThreads : InPlace(t, "init") => initialized = 2
    /\ \A t \in WThreads : wpc[t] \in {"load", "link", "built"} => initialized = 1

(* A call that a module makes of an import finds its slot: the group that the  *)
(* module is linked to is registered as long as the module lives, when         *)
(* registration and second load of two threads do not overlap.                 *)
ImportFindsSlot == \A t \in WThreads : InPlace(t, "built") => linked[t] \in ToSet(natives)

(* Whatever overlaps, what a thread registered stays registered while it links   *)
(* and while its module lives: a thread that unregisters takes away its own.     *)
(* So an import that finds no slot was linked to the group of another thread.    *)
OwnImportsStay == \A t \in WThreads :
    wpc[t] \in {"link", "built"} => Group(t) \in ToSet(natives)

(* A thread that waits for the engine gets it, unless an initialisation fails. *)
EnsureEnds == \A t \in WThreads :
    (wpc[t] \in {"init", "spin"}) ~> (wpc[t] \notin {"init", "spin"} \/ initFailed)

(* Threads that load modules at the same time: the engine of the process is   *)
(* started by one of them, nobody uses it before it is up, and an import that *)
(* was registered is found by its own module.                                 *)
EngineIsShared ==
    /\ WamrTypeOK /\ EngineStartsOnce /\ ImportFindsSlot

(* The same where the registrations of two threads may overlap. *)
EngineServesAll ==
    /\ WamrTypeOK /\ EngineStartsOnce /\ OwnImportsStay
    /\ Overlap \/ ImportFindsSlot
=============================================================================
