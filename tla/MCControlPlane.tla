--------------------------- MODULE MCControlPlane --------------------------
(***************************************************************************)
(* The control plane for TLC: the host, two connections and a child, with  *)
(* two commands that use different correls, and the endpoints of two        *)
(* runtimes, each of which starts twice.  Commands and endpoints share no    *)
(* state, so that one of them moves in a behaviour and the other stays.     *)
(***************************************************************************)
EXTENDS ControlPlane, CtlEndpoint

VARIABLE part   \* the part that moves

ctlVars == <<vars, epVars, part>>

CtlInit == part \in {"commands", "endpoints"} /\ Init /\ EpInit

CtlNext ==
    /\ UNCHANGED part
    /\ IF part = "commands" THEN Next ELSE UNCHANGED vars
    /\ IF part = "endpoints" THEN EpNext ELSE UNCHANGED epVars

CtlSpec == CtlInit /\ [][CtlNext]_ctlVars /\ Fairness
=============================================================================
