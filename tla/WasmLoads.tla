----------------------------- MODULE WasmLoads ------------------------------
(***************************************************************************)
(* WebAssembly.validate, compile, instantiate and the two streaming forms  *)
(* (ext_wasm3.c, ext_wamr.c): what a call owns at each of its steps, and   *)
(* the bytes it loads from.                                                *)
(*                                                                         *)
(* A call owns references to the module, the instance and the object       *)
(* {module, instance} that it makes; it gives them to the promise or       *)
(* releases them.  refs counts the references from outside (C variables,   *)
(* the promise, the properties of the object): the ones between an         *)
(* instance and its module are the matter of WasmObjects.  A module that   *)
(* is an argument belongs to the caller and is not counted.  The calls of  *)
(* one script read the same buffer.  JS_NewObject is taken to succeed:     *)
(* the code does not look at its result.                                   *)
(*                                                                         *)
(* WebAssembly.Table of ext_wasm3.c: an array of counted references that   *)
(* the script reads, writes and lengthens.                                 *)
(*                                                                         *)
(* The conversion of an argument may run a script, which may use the same  *)
(* table: the call of grow and what it does are two steps.  After that     *)
(* nothing of the script runs before the function returns.                 *)
(***************************************************************************)
EXTENDS Integers, Sequences, FiniteSets

CONSTANTS
    LoadCalls       \* calls of the functions above

VARIABLES
    loader,         \* the extension that is linked: "wasm3" or "wamr"
    loadOf,         \* one record per call
    source,         \* the script's bytes: "pristine" or "rewritten"
    validated       \* history: was validate called?

loadVars == <<loader, loadOf, source, validated>>

LoadValues == {"mod", "inst", "obj"}
NoRefs == [v \in LoadValues |-> 0]
FreshLoad == [form |-> "none", streaming |-> FALSE, at |-> "idle", refs |-> NoRefs,
              value |-> "none", end |-> "none", from |-> "pristine"]

LoadsInit ==
    /\ loader \in {"wasm3", "wamr"}
    /\ loadOf = [c \in LoadCalls |-> FreshLoad]
    /\ source = "pristine" /\ validated = FALSE

LoadAt(c, places) == loadOf[c].at \in places
SetLoad(c, r) == loadOf' = [loadOf EXCEPT ![c] = r]

(* JS_FreeValue; the object holds one reference to each of the two others. *)
Freed(r, v) ==
    IF v = "obj" /\ r.refs["obj"] = 1
    THEN [r EXCEPT !.refs = [w \in LoadValues |-> @[w] - 1]]
    ELSE [r EXCEPT !.refs[v] = @ - 1]

(* The functions throw; the streaming forms call them in an async function. *)
Fails(r) == [r EXCEPT !.at = "done", !.end = IF r.streaming THEN "rejected" ELSE "thrown"]

-----------------------------------------------------------------------------
CallLoad(c, form, streaming) ==
    /\ LoadAt(c, {"idle"}) /\ (streaming => form \in {"compile", "bytes"})
    /\ SetLoad(c, [FreshLoad EXCEPT !.form = form, !.streaming = streaming,
                       !.at = IF streaming THEN "source" ELSE IF form = "module" THEN "instance"
                              ELSE "module"])
    /\ UNCHANGED <<loader, source, validated>>

(* await src, then await r.arrayBuffer() *)
StreamStep(c, ok) ==
    /\ LoadAt(c, {"source", "buffer"})
    /\ SetLoad(c, IF ~ok THEN Fails(loadOf[c])
                  ELSE [loadOf[c] EXCEPT !.at = IF @ = "source" THEN "buffer" ELSE "module"])
    /\ UNCHANGED <<loader, source, validated>>

(* wamr loads from the caller's buffer, and wasm_runtime_load rewrites it. *)
Validates(c) ==
    /\ LoadAt(c, {"module"}) /\ loadOf[c].form = "validate"
    /\ SetLoad(c, [loadOf[c] EXCEPT !.at = "done", !.end = "told"])
    /\ source' = IF loader = "wamr" THEN "rewritten" ELSE source
    /\ validated' = TRUE
    /\ UNCHANGED loader

AfterModule(form) == IF form = "compile" THEN "promise" ELSE "instance"

(* The Module constructor copies the bytes; wamr copies them once more for the *)
(* load that links the imports.                                                *)
MakesModule(c, imports) ==
    /\ LoadAt(c, {"module"}) /\ loadOf[c].form # "validate"
    /\ SetLoad(c, [loadOf[c] EXCEPT !.at = AfterModule(loadOf[c].form), !.refs["mod"] = 1,
                                   !.from = source])
    /\ UNCHANGED <<loader, source, validated>>

(* No buffer, or bytes that do not parse *)
ModuleRefused(c) ==
    /\ LoadAt(c, {"module"})
    /\ SetLoad(c, Fails(loadOf[c]))
    /\ UNCHANGED <<loader, source, validated>>

MakesInstance(c) ==
    /\ LoadAt(c, {"instance"})
    /\ SetLoad(c, [loadOf[c] EXCEPT !.at = "promise", !.refs["inst"] = 1])
    /\ UNCHANGED <<loader, source, validated>>

(* module_result is JS_UNDEFINED when the module was the argument. *)
InstanceRefused(c) ==
    /\ LoadAt(c, {"instance"})
    /\ SetLoad(c, Fails(IF loadOf[c].form = "bytes" THEN Freed(loadOf[c], "mod") ELSE loadOf[c]))
    /\ UNCHANGED <<loader, source, validated>>

(* JS_NewPromiseCapability fails. *)
PromiseRefused(c) ==
    /\ LoadAt(c, {"promise"})
    /\ SetLoad(c, Fails([loadOf[c] EXCEPT !.refs = NoRefs]))
    /\ UNCHANGED <<loader, source, validated>>

(* What the promise is resolved with *)
Result(form) == CASE form = "compile" -> "mod" [] form = "module" -> "inst" [] OTHER -> "obj"

(* The result goes into the object, the promise takes a reference of its own,   *)
(* the call gives up its.                                                       *)
Resolves(c) ==
    /\ LoadAt(c, {"promise"})
    /\ LET r == loadOf[c]
           made == IF r.form = "bytes" THEN [r EXCEPT !.refs["obj"] = 1] ELSE r
           kept == [made EXCEPT !.value = Result(r.form), !.refs[Result(r.form)] = @ + 1]
       IN  SetLoad(c, [Freed(kept, Result(r.form)) EXCEPT !.at = "done", !.end = "fulfilled"])
    /\ UNCHANGED <<loader, source, validated>>

(* The script lets go of the promise. *)
DropsPromise(c) ==
    /\ LoadAt(c, {"done"}) /\ loadOf[c].end = "fulfilled"
    /\ SetLoad(c, [Freed(loadOf[c], loadOf[c].value) EXCEPT !.end = "dropped", !.value = "none"])
    /\ UNCHANGED <<loader, source, validated>>

LoadsNext == \E c \in LoadCalls :
    \/ \E form \in {"validate", "compile", "bytes", "module"}, s \in BOOLEAN : CallLoad(c, form, s)
    \/ \E ok \in BOOLEAN : StreamStep(c, ok) \/ MakesModule(c, ok)
    \/ Validates(c) \/ ModuleRefused(c) \/ MakesInstance(c) \/ InstanceRefused(c)
    \/ PromiseRefused(c) \/ Resolves(c) \/ DropsPromise(c)

-----------------------------------------------------------------------------
LoadsTypeOK ==
    \A c \in LoadCalls :
        /\ loadOf[c].at \in {"idle", "source", "buffer", "module", "instance", "promise", "done"}
        /\ loadOf[c].end \in {"none", "told", "thrown", "rejected", "fulfilled", "dropped"}
        /\ loadOf[c].refs \in [LoadValues -> Int]

(* What a call makes before it has its promise *)
MadeBy(form) == CASE form = "compile" -> {"mod"} [] form = "module" -> {"inst"} [] OTHER -> {"mod", "inst"}

(* What a call, or the promise it was given to, still uses *)
InUse(r) ==
    CASE r.at = "instance" /\ r.form = "bytes" -> {"mod"}
      [] r.at = "promise" -> MadeBy(r.form)
      [] r.end = "fulfilled" -> MadeBy(r.form) \cup {Result(r.form)}
      [] OTHER -> {}

(* Of wasm3_wasm_instantiate and wamr_wasm_instantiate ("consumed by            *)
(* JS_SetPropertyStr ... Do not free them again"): at every step of a call,     *)
(* after it failed at any of them and after its promise is let go, there is one *)
(* reference to each value still in use and none to the others.                 *)
ReferencesAddUp ==
    \A c \in LoadCalls : \A v \in LoadValues :
        loadOf[c].refs[v] = IF v \in InUse(loadOf[c]) THEN 1 ELSE 0

(* Of wamr_module_constructor ("the re-load must copy the pristine bytes from   *)
(* the caller's buffer"): as long as the script does not call validate, every   *)
(* module is loaded from the bytes the script gave.                             *)
LoadsPristine == ~validated => \A c \in LoadCalls : loadOf[c].from = "pristine"

(* Known not to hold, see the README. *)
(* The same whatever the script calls: wamr_wasm_validate loads from the        *)
(* caller's buffer itself, which wasm_runtime_load rewrites.                    *)
AlwaysPristine == \A c \in LoadCalls : loadOf[c].from = "pristine"

-----------------------------------------------------------------------------
(* Tables *)

CONSTANTS
    Tables, Elems,  \* tables, and objects that scripts put into them
    Null,           \* JS_NULL
    MaxSlots,       \* bound on the length of a table
    MaxGrows        \* bound on calls of grow inside each other

ASSUME TablesAssumption ==
    /\ IsFiniteSet(Tables) /\ Null \notin Elems
    /\ MaxSlots \in Nat /\ MaxSlots >= 2    \* tables are made with up to two slots

VARIABLES
    tabs,           \* the tables: [life, slots, max]; max = 0 is no maximum
    refs,           \* the reference counts of the objects
    scriptHas,      \* objects that a script refers to
    growing         \* calls of grow that convert their argument: [tab, size]

tabVars == <<tabs, refs, scriptHas, growing>>

NoTable == [life |-> "none", slots |-> << >>, max |-> 0]

TablesInit ==
    /\ tabs = [x \in Tables |-> NoTable] /\ refs = [o \in Elems |-> 1] /\ scriptHas = Elems
    /\ growing = << >>

SlotsOf(s, o) == {j \in 1 .. Len(s) : s[j] = o}
Live(x) == tabs[x].life = "live"
Length(x) == Len(tabs[x].slots)

-----------------------------------------------------------------------------
(* wasm3_table_constructor: a maximum that is not given is stored as 0. *)
NewTable(x, initial, maximum) ==
    /\ tabs[x].life = "none"
    /\ tabs' = [tabs EXCEPT ![x] = [life |-> "live", slots |-> [j \in 1 .. initial |-> Null],
                                    max |-> maximum]]
    /\ UNCHANGED <<refs, scriptHas, growing>>

TableSet(x, j, v) ==
    /\ Live(x) /\ j \in 1 .. Length(x) /\ v \in scriptHas \cup {Null}
    /\ refs' = [o \in Elems |-> refs[o] - (IF o = tabs[x].slots[j] THEN 1 ELSE 0)
                                        + (IF o = v THEN 1 ELSE 0)]
    /\ tabs' = [tabs EXCEPT ![x].slots[j] = v]
    /\ UNCHANGED <<scriptHas, growing>>

(* get gives the script a reference of its own. *)
TableGet(x, j) ==
    /\ Live(x) /\ j \in 1 .. Length(x)
    /\ LET o == tabs[x].slots[j] IN
          /\ o \in Elems \ scriptHas
          /\ refs' = [refs EXCEPT ![o] = @ + 1] /\ scriptHas' = scriptHas \cup {o}
    /\ UNCHANGED <<tabs, growing>>

(* wasm3_table_grow, up to JS_ToInt32 of the argument *)
TableGrowCalled(x) ==
    /\ Live(x) /\ Len(growing) < MaxGrows
    /\ growing' = Append(growing, [tab |-> x, size |-> Length(x)])
    /\ UNCHANGED <<tabs, refs, scriptHas>>

(* The array is lengthened and the new slots hold the given value. *)
TableGrow(delta, fill) ==
    /\ growing # << >> /\ fill \in scriptHas \cup {Null}
    /\ LET x == growing[Len(growing)].tab
           size == Length(x) + delta
       IN  /\ (tabs[x].max = 0 \/ size <= tabs[x].max) /\ size <= MaxSlots
           /\ tabs' = [tabs EXCEPT ![x].slots = [j \in 1 .. size |->
                           IF j <= Length(x) THEN tabs[x].slots[j] ELSE fill]]
           /\ refs' = [o \in Elems |-> IF o = fill THEN refs[o] + delta ELSE refs[o]]
    /\ growing' = SubSeq(growing, 1, Len(growing) - 1)
    /\ UNCHANGED <<scriptHas>>

(* The conversion throws, delta is negative, the maximum would be exceeded, the *)
(* size overflows or there is no memory.                                        *)
TableGrowThrows ==
    /\ growing # << >>
    /\ growing' = SubSeq(growing, 1, Len(growing) - 1)
    /\ UNCHANGED <<tabs, refs, scriptHas>>

(* The script lets go of an object it made or got. *)
ScriptDrops(o) ==
    /\ o \in scriptHas
    /\ scriptHas' = scriptHas \ {o} /\ refs' = [refs EXCEPT ![o] = @ - 1]
    /\ UNCHANGED <<tabs, growing>>

(* wasm3_table_finalizer, once no call uses the table *)
TableFinalizer(x) ==
    /\ Live(x) /\ \A j \in 1 .. Len(growing) : growing[j].tab # x
    /\ refs' = [o \in Elems |-> refs[o] - Cardinality(SlotsOf(tabs[x].slots, o))]
    /\ tabs' = [tabs EXCEPT ![x] = [NoTable EXCEPT !.life = "gone"]]
    /\ UNCHANGED <<scriptHas, growing>>

TablesNext ==
    \/ \E x \in Tables :
          \/ \E n \in 0 .. 2, m \in {0, 2} : NewTable(x, n, m)
          \/ \E j \in 1 .. MaxSlots :
                TableGet(x, j) \/ \E v \in Elems \cup {Null} : TableSet(x, j, v)
          \/ TableGrowCalled(x) \/ TableFinalizer(x)
    \/ \E n \in 0 .. 2, v \in Elems \cup {Null} : TableGrow(n, v)
    \/ TableGrowThrows
    \/ \E o \in Elems : ScriptDrops(o)

-----------------------------------------------------------------------------
TablesTypeOK ==
    /\ refs \in [Elems -> Int] /\ scriptHas \subseteq Elems
    /\ \A x \in Tables : Length(x) <= MaxSlots

(* Of the slots of the tables: an object is counted once for every slot of a    *)
(* live table that holds it and once for the script, so that it is freed        *)
(* neither early nor never, also when the conversion of an argument of grow     *)
(* uses the table that is to grow.                                              *)
SlotsAreCounted ==
    \A o \in Elems :
        LET holding == {p \in Tables \X (1 .. MaxSlots) :
                           Live(p[1]) /\ p[2] \in SlotsOf(tabs[p[1]].slots, o)}
        IN  refs[o] = Cardinality(holding) + (IF o \in scriptHas THEN 1 ELSE 0)
=============================================================================
