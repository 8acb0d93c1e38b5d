------------------------------ MODULE Debugger ------------------------------
(***************************************************************************)
(* The step debugger: the debug core (src/src/debugger.c) that the engine   *)
(* calls before each opcode, and the DAP front end (src/src/debugger_dap.c) *)
(* that reads requests from a stream, blocking inside the hook while the    *)
(* program is stopped and polling from a timer while it runs.               *)
(*                                                                         *)
(* The program is any sequence of dispatches at Lines of one file.  A       *)
(* condition of a breakpoint and a watch expression are JS too: they run     *)
(* through the same hook, at lines of the program (functions they call) or  *)
(* at line 1 of their own text, written Text here.                          *)
(***************************************************************************)
EXTENDS Naturals, Sequences, FiniteSets

CONSTANTS
    Lines,        \* lines of the program, the first of them 1
    MaxReq,       \* bound: requests of the client
    MaxStops,     \* bound: stops, below the 16 bits of a frame id
    Pipelines     \* does the client send before the last answer came?

ASSUME DbgAssumption ==
    /\ Lines \subseteq Nat \ {0} /\ MaxReq \in Nat /\ MaxStops \in Nat /\ Pipelines \in BOOLEAN

VARIABLES
    dphase,       \* "config" (qz_dap_configure), "run", "watch" or "cond"
    dstate,       \* struct qz_debug without the tables; lastStop: last_stop_line
    bps,          \* the breakpoint table: line -> "off", "plain", "cond"
    condAt,       \* the line whose condition is being evaluated, or 0
    pumps,        \* dap_on_stopped calls on the stack
    gen, snap,    \* frame_generation, and the generation of dbg->frames or 0
    inWire, inBuf,\* requests in the pipe, and in the buffer of the FILE
    hangup,       \* the client closed its end
    polling,      \* dap_timer_active
    asked, answered,   \* history: requests sent and answered
    stepFrom,     \* history: line of a stop left by next or stepOut, or 0
    moved,        \* history: did every such step stop on another line?
    missed        \* history: lines whose breakpoint was passed by

dbgVars == <<dphase, dstate, bps, condAt, pumps, gen, snap, inWire, inBuf, hangup, polling,
             asked, answered, stepFrom, moved, missed>>
chanVars == <<inWire, inBuf, hangup, asked, answered>>
dbgHist == <<stepFrom, moved, missed>>

NoLine == 0
Text == 0        \* a place in the text of a condition
Bps == [Lines -> {"off", "plain", "cond"}]
Flow == {"continue", "next", "stepIn", "stepOut", "disconnect"}
Requests == Flow \cup {"pause", "stackTrace", "evaluate", "setBreakpoints", "configurationDone"}

DbgInit ==
    /\ dphase = "config"
    /\ \E entry \in BOOLEAN :     \* qz_debug_stop_on_entry
           dstate = [mode |-> "none", stepLine |-> NoLine, lastStop |-> NoLine,
                     pause |-> entry, stopped |-> FALSE, pos |-> NoLine]
    /\ bps = [l \in Lines |-> "off"]
    /\ condAt = NoLine /\ pumps = 0 /\ gen = 0 /\ snap = 0
    /\ inWire = << >> /\ inBuf = << >> /\ hangup = FALSE
    /\ polling = TRUE /\ asked = 0 /\ answered = 0
    /\ stepFrom = NoLine /\ moved = TRUE /\ missed = {}

-----------------------------------------------------------------------------
(* The client *)

ClientSends(req) ==
    /\ ~hangup /\ asked < MaxReq
    /\ ~Pipelines => asked = answered
    /\ inWire' = Append(inWire, req)
    /\ asked' = asked + 1
    /\ UNCHANGED <<dphase, dstate, bps, condAt, pumps, gen, snap, inBuf, hangup, polling,
                   answered, dbgHist>>

ClientCloses ==
    /\ ~hangup /\ hangup' = TRUE
    /\ UNCHANGED <<dphase, dstate, bps, condAt, pumps, gen, snap, inWire, inBuf, polling, asked,
                   answered, dbgHist>>

-----------------------------------------------------------------------------
(* dap_read_message and dap_poll_message.  A read takes all that is in the pipe  *)
(* into the buffer of the FILE; poll looks at the pipe only, and an end of the   *)
(* client hides what is left in it.                                             *)
Readable == inWire # << >> /\ ~hangup
Message == IF inBuf # << >> THEN Head(inBuf) ELSE Head(inWire)

(* One request is taken, and answered by dap_send_response. *)
TakesAndAnswers ==
    /\ IF inBuf # << >> THEN inBuf' = Tail(inBuf) /\ UNCHANGED inWire
                        ELSE inBuf' = Tail(inWire) /\ inWire' = << >>
    /\ answered' = answered + 1
    /\ UNCHANGED <<hangup, asked>>

(* dap_handle_set_breakpoints replaces the whole table. *)
SetBreakpoints(req) == IF req = "setBreakpoints" THEN bps' \in Bps ELSE UNCHANGED bps

(* qz_dap_configure reads without polling, until configurationDone, disconnect *)
(* or the end of the stream; qz_create goes on in each case.                    *)
DapConfigure ==
    /\ dphase = "config"
    /\ \/ /\ inBuf # << >> \/ inWire # << >>
          /\ TakesAndAnswers
          /\ SetBreakpoints(Message)
          /\ dphase' = IF Message \in {"configurationDone", "disconnect"} THEN "run" ELSE "config"
       \/ /\ inBuf = << >> /\ inWire = << >> /\ hangup
          /\ dphase' = "run"
          /\ UNCHANGED <<chanVars, bps>>
    /\ UNCHANGED <<dstate, condAt, pumps, gen, snap, polling, dbgHist>>

(* qz_dap_service, from the timer, between two turns of JS: one request *)
DapService ==
    /\ dphase = "run" /\ pumps = 0 /\ polling
    /\ \/ /\ Readable /\ TakesAndAnswers
          /\ SetBreakpoints(Message)
          /\ dstate' = [dstate EXCEPT !.pause = @ \/ Message = "pause"]
          /\ polling' = (Message # "disconnect")
       \/ hangup /\ polling' = FALSE /\ UNCHANGED <<chanVars, bps, dstate>>
    /\ UNCHANGED <<dphase, condAt, pumps, gen, snap, dbgHist>>

-----------------------------------------------------------------------------
(* The hook.  Where(l): the line number the hook sees.                         *)
Where(l) == IF l = Text THEN 1 ELSE l
Armed(l) == IF l = Text THEN "off" ELSE bps[l]

PauseReason == dstate.pause

StepReason(l) ==
    \/ dstate.mode = "into"       \* step_filename is never set
    \/ dstate.mode \in {"over", "out"} /\ (dstate.stepLine = NoLine \/ Where(l) # dstate.stepLine)

(* The program stops: dap_on_stopped sends the event and pumps requests. *)
Stop(l, reason) ==
    /\ gen < MaxStops
    /\ dstate' = [dstate EXCEPT !.mode = "none", !.stepLine = Where(l), !.lastStop = Where(l),
                                !.pause = IF reason = "pause" THEN FALSE ELSE @,
                                !.stopped = TRUE, !.pos = Where(l)]
    /\ gen' = gen + 1 /\ snap' = 0 /\ pumps' = pumps + 1
    /\ moved' = (moved /\ ~(reason = "step" /\ stepFrom = Where(l)))
    /\ stepFrom' = NoLine
    /\ UNCHANGED <<dphase, bps, condAt, chanVars, polling, missed>>

PassBy(l, over) ==
    /\ dstate' = [dstate EXCEPT !.pos = Where(l)]
    /\ missed' = missed \cup over
    /\ UNCHANGED <<dphase, bps, condAt, pumps, gen, snap, chanVars, polling, stepFrom, moved>>

(* qz_debug_on_dispatch before an opcode of line l, in the program or in the    *)
(* text of a condition; debugger: is the opcode a debugger statement?          *)
Dispatch(l, debugger) ==
    /\ dphase \in {"run", "cond"} /\ ~dstate.stopped
    /\ l = Text => dphase = "cond"
    /\ debugger => l # Text
    /\ \/ debugger /\ Stop(l, "breakpoint")
       \/ ~debugger /\ PauseReason /\ Stop(l, "pause")
       \/ ~debugger /\ ~PauseReason /\ StepReason(l) /\ Stop(l, "step")
       \/ /\ ~debugger /\ ~PauseReason /\ ~StepReason(l)
          /\ \/ Armed(l) = "off" /\ PassBy(l, {})
             \/ /\ Armed(l) # "off" /\ dstate.lastStop = l
                /\ PassBy(l, IF dstate.pos # l THEN {l} ELSE {})
             \/ Armed(l) = "plain" /\ dstate.lastStop # l /\ Stop(l, "breakpoint")
             \/ /\ Armed(l) = "cond" /\ dstate.lastStop # l
                /\ dphase = "run"     \* bound: a condition inside a condition is not followed
                /\ dphase' = "cond" /\ condAt' = l
                /\ UNCHANGED <<dstate, bps, pumps, gen, snap, chanVars, polling, dbgHist>>

(* bp_condition_true returns: 0 goes on, 1 and an error stop.  The condition    *)
(* was started before the stop, so its own stops went through the hook.        *)
CondEnds(true) ==
    /\ dphase = "cond" /\ ~dstate.stopped
    /\ LET l == condAt
       IN  IF true
           THEN /\ gen < MaxStops
                /\ dstate' = [dstate EXCEPT !.mode = "none", !.stepLine = l, !.lastStop = l,
                                            !.stopped = TRUE, !.pos = l]
                /\ gen' = gen + 1 /\ snap' = 0 /\ pumps' = pumps + 1
           ELSE dstate' = [dstate EXCEPT !.pos = l] /\ UNCHANGED <<gen, snap, pumps>>
    /\ dphase' = "run" /\ condAt' = NoLine
    /\ stepFrom' = NoLine
    /\ UNCHANGED <<bps, chanVars, polling, moved, missed>>

(* qz_debug_evaluate runs the expression inside the pump. *)
WatchEnds ==
    /\ dphase = "watch"
    /\ dphase' = IF condAt = NoLine THEN "run" ELSE "cond"
    /\ UNCHANGED <<dstate, bps, condAt, pumps, gen, snap, chanVars, polling, dbgHist>>

(* Faulty variant: a watch expression can stop too. *)
NestingWatchDispatch(l) ==
    /\ dphase = "watch" /\ Armed(l) # "off"
    /\ Stop(l, "breakpoint")

(* The hook during a watch expression: dbg->stopped. *)
WatchDispatch(l) ==
    /\ dphase = "watch" /\ dstate.stopped
    /\ UNCHANGED dbgVars

-----------------------------------------------------------------------------
Mode(req) == CASE req = "next" -> "over" [] req = "stepIn" -> "into" [] req = "stepOut" -> "out"
               [] OTHER -> "none"

(* dap_on_stopped: a request, until a flow command or the end of the client.    *)
(* setBreakpoints is acknowledged and nothing more.                            *)
DapPump ==
    /\ pumps > 0 /\ dphase # "watch"
    /\ \/ /\ Readable /\ TakesAndAnswers
          /\ IF Message \in Flow
             THEN /\ dstate' = [dstate EXCEPT
                         !.mode = Mode(Message), !.stopped = FALSE,
                         !.stepLine = IF Message \in {"continue", "disconnect"} THEN NoLine ELSE @]
                  /\ pumps' = pumps - 1
                  /\ stepFrom' = IF Message \in {"next", "stepOut"} THEN dstate.pos ELSE NoLine
                  /\ UNCHANGED <<snap, dphase>>
             ELSE /\ dstate' = [dstate EXCEPT !.pause = @ \/ Message = "pause"]
                  /\ snap' = IF Message \in {"stackTrace", "evaluate"} /\ snap = 0 THEN gen ELSE snap
                  /\ dphase' = IF Message = "evaluate" THEN "watch" ELSE dphase
                  /\ UNCHANGED <<pumps, stepFrom>>
       \/ /\ hangup
          /\ dstate' = [dstate EXCEPT !.stopped = FALSE] /\ pumps' = pumps - 1
          /\ UNCHANGED <<chanVars, snap, stepFrom, dphase>>
    /\ UNCHANGED <<bps, condAt, gen, polling, moved, missed>>

(* The turn of JS is over when the loop polls: any number of dispatches may      *)
(* come first.                                                                 *)
AnyDispatch == \E l \in Lines \cup {Text}, d \in BOOLEAN : Dispatch(l, d)

DbgNext ==
    \/ \E req \in Requests : ClientSends(req)
    \/ ClientCloses \/ DapConfigure \/ DapService \/ DapPump
    \/ \E l \in Lines \cup {Text}, d \in BOOLEAN : Dispatch(l, d)
    \/ \E true \in BOOLEAN : CondEnds(true)
    \/ WatchEnds
    \/ \E l \in Lines : WatchDispatch(l)

(* The thread reads its requests and runs its JS; conditions and expressions   *)
(* end.                                                                        *)
DbgFairness ==
    /\ WF_dbgVars(DapConfigure) /\ WF_dbgVars(DapPump)
    /\ SF_dbgVars(DapService)
    /\ WF_dbgVars(AnyDispatch)
    /\ SF_dbgVars(\E true \in BOOLEAN : CondEnds(true)) /\ WF_dbgVars(WatchEnds)

-----------------------------------------------------------------------------
(* Properties *)

(* The session's fields have their types. *)
DbgTypeOK ==
    /\ dphase \in {"config", "run", "watch", "cond"} /\ bps \in Bps
    /\ dstate.mode \in {"none", "over", "into", "out"}
    /\ answered <= asked /\ pumps \in Nat /\ gen <= MaxStops

(* There is one pump at a time, although watch expressions, conditions and the *)
(* program all run through the hook.                                           *)
OnePump == pumps <= 1 /\ (pumps = 1 <=> dstate.stopped)

(* What the client is shown while the program is stopped are the frames of     *)
(* this stop, and never a snapshot of an earlier one whose values are freed.   *)
FramesAreCurrent == dstate.stopped /\ snap # 0 => snap = gen

(* Stepping over a line, or out, ends on another line. *)
StepMoves == moved

(* Stops of the program, with conditions and watch expressions that run through *)
(* the same hook: one pump serves the client at a time, the frames it hands out *)
(* are those of the present stop, and a step does not stop where it began.      *)
StopsAreSound ==
    /\ DbgTypeOK /\ OnePump /\ FramesAreCurrent /\ StepMoves

(* A client that waits for each answer gets one, whatever state the program is *)
(* in, as long as it stays connected and the session polls; at the bound of    *)
(* the stops nothing runs.                                                     *)
RequestsAnswered ==
    \A n \in 1 .. MaxReq :
        asked >= n ~> answered >= n \/ hangup \/ ~polling \/ gen = MaxStops

(* A requested pause stops the program. *)
PauseStops == dstate.pause /\ dphase # "config" ~> dstate.stopped \/ gen = MaxStops

(* Known not to hold, see the README. *)
(* The program stops whenever it comes to a line that has a breakpoint. *)
BreakpointsHit == missed = {}
=============================================================================
