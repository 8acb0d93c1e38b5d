---------------------------- MODULE MCMsgQueue ----------------------------
(***************************************************************************)
(* The ways of a message into a runtime, for TLC: the queue between threads, *)
(* the socket between processes, and the process handles that frames from a  *)
(* socket are read through.  They share no state, so that one of them moves  *)
(* in a behaviour and the others stay as they began.                         *)
(*                                                                         *)
(* MsgQueue has two producers with two pushes each, which interleave, and   *)
(* fewer heap addresses than messages, so that a node that was freed is     *)
(* allocated again for a later message.  IpcTx has frames larger than what  *)
(* is left of the socket buffer, so that a write is cut short.  ProcHandles  *)
(* has two processes for two handles, either of which may take the slot of   *)
(* the other.                                                                *)
(***************************************************************************)
EXTENDS MsgQueue, IpcTx, ProcHandles

VARIABLE part   \* the part that moves

wayVars == <<vars, txVars, procVars, part>>

WaysInit == part \in {"queue", "socket", "processes"} /\ Init /\ TxInit /\ ProcInit

WaysNext ==
    /\ UNCHANGED part
    /\ IF part = "queue" THEN Next ELSE UNCHANGED vars
    /\ IF part = "socket" THEN TxNext ELSE UNCHANGED txVars
    /\ IF part = "processes" THEN ProcNext ELSE UNCHANGED procVars

(* Nothing waits for ever on the way in: a pushed message is dispatched     *)
(* although wake-ups coalesce, a frame arrives although the socket is full, *)
(* what was read is consumed, and the end of a child is noticed.            *)
MessagesArrive ==
    /\ EveryClaimDispatched /\ EveryFrameArrives /\ FramesConsumed /\ EndIsNoticed

WaysSpec == WaysInit /\ [][WaysNext]_wayVars /\ Fairness /\ TxFairness /\ ProcFairness
=============================================================================
