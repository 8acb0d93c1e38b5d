-------------------------- MODULE MCRuntimeThread --------------------------
(***************************************************************************)
(* The two kinds of main runtime for TLC, the one on a thread of the host  *)
(* and the one in a process of its own, the debugger of a runtime, and the *)
(* WebAssembly engine that runtimes on threads share.  They share no state, *)
(* so that one of them moves in a behaviour and the others stay as they      *)
(* began.                                                                  *)
(***************************************************************************)
EXTENDS RuntimeThread, IsolatedHost, Debugger, WamrShared

CONSTANTS t1, t2, t3   \* threads that use WebAssembly

VARIABLE part          \* the part that moves

mainVars == <<vars, isoVars, dbgVars, wamrVars, part>>

MainInit ==
    /\ part \in {"thread", "process", "debugger", "wamr"}
    /\ Init /\ IsoInit /\ DbgInit /\ WamrInit
    /\ part = "debugger" \/ ~dstate.pause

MainNext ==
    /\ UNCHANGED part
    /\ IF part = "thread" THEN Next ELSE UNCHANGED vars
    /\ IF part = "process" THEN IsoNext ELSE UNCHANGED isoVars
    /\ IF part = "debugger" THEN DbgNext ELSE UNCHANGED dbgVars
    /\ IF part = "wamr" THEN WamrNext ELSE UNCHANGED wamrVars

(* Whoever waits for a runtime comes to an end: the host in its calls, in both  *)
(* backends, the client of the debugger, a program that was asked to pause, and *)
(* a thread that waits for another to start the engine.                         *)
WaitsEnd ==
    /\ HostCallsReturn /\ IsoWaitsEnd /\ RequestsAnswered /\ PauseStops /\ EnsureEnds

MainSpec ==
    /\ MainInit /\ [][MainNext]_mainVars
    /\ Fairness /\ IsoFairness
    /\ DbgFairness /\ WamrFairness
=============================================================================
