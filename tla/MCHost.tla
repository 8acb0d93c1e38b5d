------------------------------- MODULE MCHost -------------------------------
(***************************************************************************)
(* The parts of a runtime that serve its scripts, each on a small instance: *)
(* timers, contexts, file operations, localStorage, the stores of the       *)
(* runtime, WebAssembly (objects, calls, loading, tables), compression        *)
(* streams and native crypto calls.  They share no state, so that one of     *)
(* them moves in a behaviour and the others stay as they began.              *)
(***************************************************************************)
EXTENDS Timers, Contexts, FsOps, Services

CONSTANTS ta, tb, ti,        \* two timeouts and an interval
          ft, fr, fw, fx, fq, fl,  \* operations on a file
          k1, k2, k3, v1, v2,    \* keys and values of the store
          o1, o2, u1, u2,    \* requests and proxies
          n1, n2, f1, f2, e1, e2, \* instances, imports and exceptions
          d1, d2, t1, j1, j2, \* loads, tables, objects in them
          h1, h2             \* compression streams

VARIABLE part                \* the part that moves

MCCalls == {ta, tb, ti}
MCIntervals == {ti}

vars == <<timerVars, ctxVars, fsVars, lsVars, storeVars, wasmVars, callVars,
          loadVars, tabVars, zVars, cryptoVars, part>>

Parts == {"timers", "contexts", "files", "localStorage", "stores", "wasm", "calls", "loads", "tables",
          "zstreams", "crypto"}

HostInit ==
    /\ part \in Parts
    /\ TimersInit /\ CtxInit /\ FsInit /\ LsInit /\ StoresInit /\ WasmInit
    /\ CallsInit /\ LoadsInit /\ TablesInit /\ ZInit /\ CryptoInit
    /\ engine = "wasm3" \/ part = "wasm"
    /\ loader = "wasm3" \/ part = "loads"

HostNext ==
    /\ UNCHANGED part
    /\ IF part = "timers" THEN TimersNext ELSE UNCHANGED timerVars
    /\ IF part = "contexts" THEN CtxNext ELSE UNCHANGED ctxVars
    /\ IF part = "files" THEN FsNext ELSE UNCHANGED fsVars
    /\ IF part = "localStorage" THEN LsNext ELSE UNCHANGED lsVars
    /\ IF part = "stores" THEN StoresNext ELSE UNCHANGED storeVars
    /\ IF part = "wasm" THEN WasmNext ELSE UNCHANGED wasmVars
    /\ IF part = "calls" THEN CallsNext ELSE UNCHANGED callVars
    /\ IF part = "loads" THEN LoadsNext ELSE UNCHANGED loadVars
    /\ IF part = "tables" THEN TablesNext ELSE UNCHANGED tabVars
    /\ IF part = "zstreams" THEN ZNext ELSE UNCHANGED zVars
    /\ IF part = "crypto" THEN CryptoNext ELSE UNCHANGED cryptoVars

Spec == HostInit /\ [][HostNext]_vars /\ TimersFairness
=============================================================================
