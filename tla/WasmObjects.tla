---------------------------- MODULE WasmObjects -----------------------------
(***************************************************************************)
(* The lifetime of WebAssembly objects in the two extensions,               *)
(* src/src/ext_wasm3.c and src/src/ext_wamr.c (a build has one of them).    *)
(* JS objects wrap native memory: a Module a parsed module, an Instance a   *)
(* runtime that owns the linear memory, an export something inside that     *)
(* runtime.  The references between the wrappers, and which of them the     *)
(* cycle collector of QuickJS is told of (gc_mark), decide when a finalizer *)
(* frees native memory.                                                    *)
(*                                                                         *)
(* An object is <<kind, id>>.  An instance i has one function, at most one  *)
(* mutable global, one memory with its ArrayBuffer, and one imported JS     *)
(* function, which may refer back to the instance, as these often do.       *)
(*                                                                         *)
(* Calls between JS and WebAssembly in src/src/ext_wamr.c.  An exported      *)
(* function runs in the engine, which calls imported JS functions, which     *)
(* may call exports again, of the same or of another instance.  An import's  *)
(* JS exception waits in pending_exception of the instance's wrap while the  *)
(* engine unwinds, and the exported function throws it again.                *)
(***************************************************************************)
EXTENDS Naturals, Sequences

CONSTANTS
    MaxWModules, MaxWInstances,   \* bounds: modules and instances, numbered as they are made
    MaxPages                      \* bound: pages of a memory; its declared maximum

ASSUME WasmAssumption == {MaxWModules, MaxWInstances} \subseteq Nat /\ MaxPages \in Nat \ {0}

WModules == 1 .. MaxWModules
WInstances == 1 .. MaxWInstances
NoObj == 0   \* JS_UNDEFINED

VARIABLES
    engine,       \* "wasm3" or "wamr"
    liveObjs,     \* JS objects that are not finalized
    roots,        \* those a JS variable holds
    parsed,       \* parsed[m]: "none", "own", "runtime" (its owner) or "freed"
    instRef,      \* wasm3: the instance_ref of module m
    moduleOf,     \* the module_obj of instance i
    native,       \* native[i]: the runtime, "none", "live" or "freed"
    captures,     \* instances whose import function refers to them
    pages, seen,  \* pages of the memory, and current_pages of its wrapper
    block, wraps, \* the memory block (it moves when it grows), and the one the buffer wraps
    refusedLink,  \* history: modules of which an instantiation failed after the load
    twice         \* history: was native memory freed twice?

wasmVars == <<engine, liveObjs, roots, parsed, instRef, moduleOf, native, captures, pages, seen,
              block, wraps, refusedLink, twice>>
memVars == <<pages, seen, block, wraps>>

Exports(i) == {<<"func", i>>, <<"mem", i>>, <<"global", i>>}
PartsOf(i) == Exports(i) \cup {<<"inst", i>>, <<"buf", i>>, <<"import", i>>}

WasmInit ==
    /\ engine \in {"wasm3", "wamr"}
    /\ liveObjs = {} /\ roots = {}
    /\ parsed = [m \in WModules |-> "none"] /\ instRef = [m \in WModules |-> NoObj]
    /\ moduleOf = [i \in WInstances |-> NoObj] /\ native = [i \in WInstances |-> "none"]
    /\ captures = {}
    /\ pages = [i \in WInstances |-> 1] /\ seen = pages
    /\ block = [i \in WInstances |-> 0] /\ wraps = block
    /\ refusedLink = {} /\ twice = FALSE

-----------------------------------------------------------------------------
(* References *)

(* Properties of objects, which JS code and the collector see. *)
Properties(o) ==
    LET i == o[2]
    IN  CASE o[1] = "inst" -> Exports(i) \cap liveObjs       \* exports
          [] o[1] = "mem" -> {<<"buf", i>>}             \* buffer
          [] o[1] = "import" -> IF i \in captures THEN {<<"inst", i>>} ELSE {}
          [] OTHER -> {}

(* Faulty variant: a memory does not hold the instance it belongs to. *)
LooseHeld(o) ==
    LET i == o[2]
    IN  CASE o[1] = "module" -> IF instRef[i] = NoObj THEN {} ELSE {<<"inst", instRef[i]>>}
          [] o[1] = "inst" -> {<<"module", moduleOf[i]>>, <<"import", i>>}
          [] o[1] = "global" -> {<<"inst", i>>}
          [] o[1] = "func" -> IF engine = "wasm3" THEN {<<"inst", i>>} ELSE {}
          [] OTHER -> {}

(* Values held in the C structures behind the objects. *)
Held(o) ==
    LET i == o[2]
    IN  CASE o[1] = "module" -> IF instRef[i] = NoObj THEN {} ELSE {<<"inst", instRef[i]>>}
          [] o[1] = "inst" -> {<<"module", moduleOf[i]>>, <<"import", i>>}
          [] o[1] = "global" -> {<<"inst", i>>}
          [] o[1] \in {"func", "mem"} -> IF engine = "wasm3" THEN {<<"inst", i>>} ELSE {}
          [] OTHER -> {}     \* wamr_mem_owner_t: its instance_ref is never assigned

(* The held values that a gc_mark function shows: all of wasm3's, none of WAMR's. *)
Marked(o) == IF engine = "wasm3" THEN Held(o) ELSE {}

Targets(S) == UNION {Properties(o) \cup Held(o) : o \in S}

(* Closure of S under R: no chain is longer than the number of kinds of objects. *)
Reach(S, R(_)) ==
    LET step(T) == T \cup UNION {R(o) : o \in T}
    IN  step(step(step(step(step(step(S))))))

Refers(o) == Properties(o) \cup Held(o)
Visible(o) == Properties(o) \cup Marked(o)
Reachable == Reach(roots, Refers) \cap liveObjs

-----------------------------------------------------------------------------
(* Constructors *)

NewNumber(i) == native[i] = "none" /\ \A j \in 1 .. i - 1 : native[j] # "none"

(* wasm3_module_constructor, wamr_module_constructor *)
NewModule(m) ==
    /\ parsed[m] = "none" /\ \A n \in 1 .. m - 1 : parsed[n] # "none"
    /\ parsed' = [parsed EXCEPT ![m] = "own"]
    /\ liveObjs' = liveObjs \cup {<<"module", m>>} /\ roots' = roots \cup {<<"module", m>>}
    /\ UNCHANGED <<engine, instRef, moduleOf, native, captures, memVars, refusedLink, twice>>

(* A missing import, or a function that does not compile: wasm3 has loaded the  *)
(* module into the new runtime by then, and frees both.                         *)
LinkFails(m) ==
    /\ <<"module", m>> \in roots
    /\ engine = "wasm3" /\ parsed[m] = "own"
    /\ parsed' = [parsed EXCEPT ![m] = "freed"]
    /\ refusedLink' = refusedLink \cup {m}
    /\ UNCHANGED <<engine, liveObjs, roots, instRef, moduleOf, native, captures, memVars, twice>>

(* An importObject that is no object: the runtime is not freed, nor held. *)
LinkLeaks(m) ==
    /\ <<"module", m>> \in roots
    /\ engine = "wasm3" /\ parsed[m] = "own"
    /\ parsed' = [parsed EXCEPT ![m] = "runtime"]
    /\ UNCHANGED <<engine, liveObjs, roots, instRef, moduleOf, native, captures, memVars, refusedLink, twice>>

(* wasm3_instance_constructor, wamr_instance_constructor.  wasm3 loads a module *)
(* once: m3_LoadModule refuses one that a runtime has.                          *)
NewInstance(m, i, capturing, globals) ==
    /\ <<"module", m>> \in roots /\ NewNumber(i)
    /\ parsed[m] = "own"
    /\ native' = [native EXCEPT ![i] = "live"]
    /\ moduleOf' = [moduleOf EXCEPT ![i] = m]
    /\ parsed' = [parsed EXCEPT ![m] = IF engine = "wasm3" THEN "runtime" ELSE @]
    /\ instRef' = [instRef EXCEPT ![m] = IF engine = "wasm3" THEN i ELSE @]
    /\ captures' = IF capturing THEN captures \cup {i} ELSE captures
    /\ liveObjs' = liveObjs \cup (IF globals THEN PartsOf(i) ELSE PartsOf(i) \ {<<"global", i>>})
    /\ roots' = roots \cup {<<"inst", i>>}
    /\ UNCHANGED <<engine, memVars, refusedLink, twice>>

-----------------------------------------------------------------------------
(* JS code *)

Drop(o) ==
    /\ o \in roots /\ roots' = roots \ {o}
    /\ UNCHANGED <<engine, liveObjs, parsed, instRef, moduleOf, native, captures, memVars, refusedLink, twice>>

(* A buffer refers to nothing, so that whether JS holds one changes nothing. *)
Take(o) ==
    /\ o \notin roots /\ o[1] \notin {"import", "buf"}
    /\ \E h \in roots : o \in Properties(h)
    /\ roots' = roots \cup {o}
    /\ UNCHANGED <<engine, liveObjs, parsed, instRef, moduleOf, native, captures, memVars, refusedLink, twice>>

(* wasm3_memory_grow by one page: ResizeMemory to the count that the wrapper   *)
(* remembers plus one, and wasm3_memory_refresh_buffer, which detaches the old *)
(* buffer.  WAMR's exported memory has no grow.                                *)
MemoryGrow(i) ==
    /\ engine = "wasm3" /\ <<"mem", i>> \in roots
    /\ seen[i] + 1 <= MaxPages
    /\ pages' = [pages EXCEPT ![i] = seen[i] + 1]
    /\ seen' = [seen EXCEPT ![i] = seen[i] + 1]
    /\ block' = [block EXCEPT ![i] = @ + 1]
    /\ wraps' = [wraps EXCEPT ![i] = block[i] + 1]
    /\ liveObjs' = liveObjs \cup {<<"buf", i>>}
    /\ UNCHANGED <<engine, roots, parsed, instRef, moduleOf, native, captures, refusedLink, twice>>

(* wasm3_call_func, wamr_call_exported_func of a function that executes          *)
(* memory.grow: the extension is not told.  (A function of WAMR whose instance  *)
(* is gone is not called: what it would do is undefined.)                       *)
CallGrows(i) ==
    /\ <<"func", i>> \in roots /\ native[i] = "live"
    /\ pages[i] < MaxPages
    /\ pages' = [pages EXCEPT ![i] = @ + 1]
    /\ block' = [block EXCEPT ![i] = @ + 1]
    /\ UNCHANGED <<engine, liveObjs, roots, parsed, instRef, moduleOf, native, captures, seen, wraps,
                   refusedLink, twice>>

-----------------------------------------------------------------------------
(* Finalizers *)

(* wasm3_module_finalizer frees a module that was never loaded, the instance's  *)
(* finalizer frees the runtime with the module in it; wamr_module_finalizer     *)
(* unloads the module, wamr_instance_finalizer deinstantiates.                  *)
Finalize(S) ==
    LET insts == {i \in WInstances : <<"inst", i>> \in S}
        mods == {m \in WModules : <<"module", m>> \in S /\ parsed[m] = "own"}
        byRuntime == {m \in WModules : engine = "wasm3" /\ \E i \in insts : moduleOf[i] = m}
    IN  /\ liveObjs' = liveObjs \ S
        /\ native' = [i \in WInstances |-> IF i \in insts THEN "freed" ELSE native[i]]
        /\ parsed' = [m \in WModules |-> IF m \in byRuntime \cup mods THEN "freed" ELSE parsed[m]]
        /\ twice' = (twice \/ \E m \in byRuntime \cup mods : parsed[m] = "freed")
        /\ UNCHANGED <<engine, roots, instRef, moduleOf, captures, memVars, refusedLink>>

(* External, QuickJS: an object that nothing refers to is freed at once; the    *)
(* collector frees what only garbage refers to, as far as it sees references:   *)
(* a reference it does not see keeps its target.                               *)
Unreferred == {o \in liveObjs : o \notin roots /\ o \notin Targets(liveObjs)}
Pinned == UNION {Held(o) \ Marked(o) : o \in liveObjs}
Cyclic == liveObjs \ Reach(roots \cup Pinned, Visible)

ReleaseObj(o) == o \in Unreferred /\ Finalize({o})
Collect == Unreferred = {} /\ Cyclic # {} /\ Finalize(Cyclic)

(* The refcounts are dealt with before JS code goes on. *)
WasmNext ==
    \/ \E o \in liveObjs : ReleaseObj(o)
    \/ Collect
    \/ /\ Unreferred = {}
       /\ \/ \E m \in WModules : NewModule(m) \/ LinkFails(m) \/ LinkLeaks(m)
          \/ \E m \in WModules, i \in WInstances, c, g \in BOOLEAN : NewInstance(m, i, c, g)
          \/ \E o \in liveObjs : Drop(o) \/ Take(o)
          \/ \E i \in WInstances : MemoryGrow(i) \/ CallGrows(i)

-----------------------------------------------------------------------------
(* Properties *)

(* Owners, engines and pages have their types. *)
WasmTypeOK ==
    /\ engine \in {"wasm3", "wamr"} /\ roots \subseteq liveObjs
    /\ parsed \in [WModules -> {"none", "own", "runtime", "freed"}]
    /\ native \in [WInstances -> {"none", "live", "freed"}]
    /\ pages \in [WInstances -> 1 .. MaxPages]

(* The data of a parsed module is freed by one owner, in whatever order the    *)
(* finalizers of a module and of its instance run.                             *)
ParsedFreedOnce == ~twice

(* What JS can still call or read finds its runtime: wasm3's functions,        *)
(* memories and globals, and WAMR's globals.                                   *)
ExportFindsRuntime ==
    \A i \in WInstances, k \in {"func", "mem", "global"} :
        <<k, i>> \in Reachable /\ (engine = "wasm3" \/ k = "global") => native[i] = "live"

(* Module.exports, Module.imports and a new Instance find the module's data    *)
(* while the Module is alive, however its instance went, unless an             *)
(* instantiation failed to link.                                               *)
ModuleFindsData ==
    \A m \in WModules :
        <<"module", m>> \in Reachable /\ m \notin refusedLink => parsed[m] # "freed"

(* wasm3: nothing that JS cannot reach stays allocated, cycles through import  *)
(* functions, exports and modules included.                                    *)
NoGarbageStays ==
    engine = "wasm3" /\ Unreferred = {} /\ Cyclic = {} => liveObjs = Reachable

(* The ArrayBuffer of a reachable memory wraps the block the memory is in, as  *)
(* long as the module did not grow the memory itself.                          *)
BufferIsCurrent ==
    \A i \in WInstances :
        <<"mem", i>> \in Reachable /\ native[i] = "live" /\ pages[i] = seen[i]
            => wraps[i] = block[i]

-----------------------------------------------------------------------------
(* Calls between JS and WebAssembly *)

CONSTANTS CallInsts,     \* instances of a module
          WFuncs,        \* the functions it imports
          Throwables,    \* JS exceptions
          MaxFrames,     \* bound on nested calls
          Undefined      \* JS_UNDEFINED

ASSUME CallsAssumption == MaxFrames \in Nat /\ Undefined \notin Throwables

VARIABLES
    wphase,     \* of each instance: "none", "live" (custom data set) or "gone"
    closures,   \* its import_closures
    pendingExc, \* its pending_exception
    engineExc,  \* whether the engine holds an exception for it
    wframes,    \* nested calls, the innermost last
    trapped,    \* history: instances with a trap of their own
    unfound,    \* history: imports that a live instance looked up in vain
    mistold     \* history: exceptions thrown to the caller of an export that are not those of its call

callVars == <<wphase, closures, pendingExc, engineExc, wframes, trapped, unfound, mistold>>

CallsInit ==
    /\ wphase = [n \in CallInsts |-> "none"] /\ closures = [n \in CallInsts |-> {}]
    /\ pendingExc = [n \in CallInsts |-> Undefined] /\ engineExc = [n \in CallInsts |-> FALSE]
    /\ wframes = << >> /\ trapped = {} /\ unfound = {} /\ mistold = {}

TopFrame == wframes[Len(wframes)]
Below == SubSeq(wframes, 1, Len(wframes) - 1)
JsRuns == wframes # << >> => TopFrame.kind = "import"
WasmRuns == wframes # << >> /\ TopFrame.kind = "export" /\ ~TopFrame.unwinds

ExportFrame(n) == [kind |-> "export", inst |-> n, unwinds |-> FALSE, thrown |-> Undefined]
ImportFrame(n) == [kind |-> "import", inst |-> n, unwinds |-> FALSE, thrown |-> Undefined]

-----------------------------------------------------------------------------
(* wamr_build_instance_imports: every declared import is a function of importObject *)
(* that can be called from here, or none is bound.                                  *)
BuildInstanceImports(given) == IF given = WFuncs THEN given ELSE {}

(* wamr_instance_constructor.  given: the imports that importObject has; start: the start *)
(* function of the module calls one of them, which finds no custom data; fits: there is   *)
(* memory for the rest.                                                                   *)
NewWasmInstance(n, given, start, fits) ==
    /\ JsRuns /\ wphase[n] = "none"
    /\ BuildInstanceImports(given) # {} /\ ~start /\ fits
    /\ wphase' = [wphase EXCEPT ![n] = "live"]
    /\ closures' = [closures EXCEPT ![n] = BuildInstanceImports(given)]
    /\ UNCHANGED <<pendingExc, engineExc, wframes, trapped, unfound, mistold>>

(* wamr_instance_finalizer, wamr_free_instance_imports: nothing of the instance is in use. *)
WasmInstanceGone(n) ==
    /\ wphase[n] = "live" /\ \A d \in DOMAIN wframes : wframes[d].inst # n
    /\ wphase' = [wphase EXCEPT ![n] = "gone"]
    /\ closures' = [closures EXCEPT ![n] = {}]
    /\ pendingExc' = [pendingExc EXCEPT ![n] = Undefined]
    /\ UNCHANGED <<engineExc, wframes, trapped, unfound, mistold>>

(* wamr_call_exported_func up to the engine: arguments that convert. *)
CallExport(n) ==
    /\ JsRuns /\ wphase[n] = "live" /\ Len(wframes) < MaxFrames
    /\ wframes' = Append(wframes, ExportFrame(n))
    /\ UNCHANGED <<wphase, closures, pendingExc, engineExc, trapped, unfound, mistold>>

(* The engine meets an instruction that traps. *)
Trap ==
    /\ WasmRuns
    /\ engineExc' = [engineExc EXCEPT ![TopFrame.inst] = TRUE]
    /\ wframes' = [wframes EXCEPT ![Len(wframes)].unwinds = TRUE]
    /\ trapped' = trapped \cup {TopFrame.inst}
    /\ UNCHANGED <<wphase, closures, pendingExc, unfound, mistold>>

(* wamr_import_dispatch up to the call of the JS function. *)
ImportDispatch(f) ==
    LET n == TopFrame.inst IN
    /\ WasmRuns /\ Len(wframes) < MaxFrames
    /\ IF f \in closures[n]
       THEN /\ wframes' = Append(wframes, ImportFrame(n))
            /\ UNCHANGED <<engineExc, unfound>>
       ELSE /\ engineExc' = [engineExc EXCEPT ![n] = TRUE]
            /\ wframes' = [wframes EXCEPT ![Len(wframes)].unwinds = TRUE]
            /\ unfound' = unfound \cup {f}
    /\ UNCHANGED <<wphase, closures, pendingExc, trapped, mistold>>

(* The function has returned, or thrown e, or its value does not convert, which throws e. *)
ImportReturns ==
    /\ wframes # << >> /\ TopFrame.kind = "import"
    /\ wframes' = [Below EXCEPT ![Len(Below)].unwinds = engineExc[TopFrame.inst]]
    /\ UNCHANGED <<wphase, closures, pendingExc, engineExc, trapped, unfound, mistold>>

ImportThrows(e) ==
    /\ wframes # << >> /\ TopFrame.kind = "import"
    /\ pendingExc' = [pendingExc EXCEPT ![TopFrame.inst] = e]
    /\ engineExc' = [engineExc EXCEPT ![TopFrame.inst] = TRUE]
    /\ wframes' = [Below EXCEPT ![Len(Below)].unwinds = TRUE, ![Len(Below)].thrown = e]
    /\ UNCHANGED <<wphase, closures, trapped, unfound, mistold>>

Rethrows(n) == engineExc[n] /\ pendingExc[n] # Undefined

(* wamr_call_exported_func behind the engine: the call has succeeded if the engine holds *)
(* no exception; it throws the pending one, or a TypeError with the engine's message.    *)
ExportEnds ==
    LET n == TopFrame.inst IN
    /\ wframes # << >> /\ TopFrame.kind = "export"
    /\ pendingExc' = [pendingExc EXCEPT ![n] = IF Rethrows(n) THEN Undefined ELSE @]
    /\ engineExc' = [engineExc EXCEPT ![n] = @ /\ ~Rethrows(n)]
    /\ mistold' = IF engineExc[n] /\ pendingExc[n] # TopFrame.thrown
                  THEN mistold \cup {pendingExc[n]} ELSE mistold
    /\ wframes' = Below
    /\ UNCHANGED <<wphase, closures, trapped, unfound>>

CallsNext ==
    \/ \E n \in CallInsts, given \in SUBSET WFuncs, start, fits \in BOOLEAN :
          NewWasmInstance(n, given, start, fits)
    \/ \E n \in CallInsts : WasmInstanceGone(n) \/ CallExport(n)
    \/ \E f \in WFuncs : ImportDispatch(f)
    \/ \E e \in Throwables : ImportThrows(e)
    \/ Trap \/ ImportReturns \/ ExportEnds

-----------------------------------------------------------------------------
CallsTypeOK ==
    /\ wphase \in [CallInsts -> {"none", "live", "gone"}]
    /\ closures \in [CallInsts -> SUBSET WFuncs]
    /\ pendingExc \in [CallInsts -> Throwables \cup {Undefined}]
    /\ engineExc \in [CallInsts -> BOOLEAN]
    /\ Len(wframes) <= MaxFrames

(* Of ext_wamr.c ("propagate the original JS exception"): what an exported function *)
(* throws for an import is what that import has thrown in this very call, however   *)
(* calls of the instances nest and whatever was thrown and caught before.           *)
ThrownIsOwn == mistold = {}

(* An exception that an import threw is over with the call that rethrew it: outside *)
(* all calls the engine holds one only for an instance that trapped by itself.      *)
ThrowIsOver ==
    wframes = << >> => \A n \in CallInsts : engineExc[n] => n \in trapped

(* A live instance has a function for every import that its code can call. *)
BoundIsFound == unfound = {}
=============================================================================
