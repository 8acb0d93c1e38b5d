------------------------------- MODULE Timers -------------------------------
(***************************************************************************)
(* setTimeout and setInterval: the slots of timers of a context             *)
(* (src/src/bridge.c) and the table of callbacks above them                 *)
(* (src/polyfill/src/timers.js).  A timer that fires frees its slot and     *)
(* queues a promise reaction; the reactions run after all timers that were  *)
(* due.                                                                     *)
(***************************************************************************)
EXTENDS Naturals, Sequences, FiniteSets

CONSTANTS
    Calls,         \* calls of setTimeout and setInterval
    Intervals,     \* those of setInterval
    MaxHandles,    \* QZ_MAX_HANDLES
    MaxTicks,      \* bound: ticks of an interval
    NoCall

ASSUME TimersAssumption ==
    /\ Intervals \subseteq Calls /\ MaxHandles \in Nat \ {0}
    /\ NoCall \notin Calls /\ "script" \notin Calls

Handles == 0 .. MaxHandles - 1
Timeouts == Calls \ Intervals

VARIABLES
    handles,       \* handles[]: the call whose timer is in the slot
    handle_count,
    uv,            \* of each call: its libuv timer, "none", "armed", "closed"
    entries,       \* timerEntries, by handle: a call of setTimeout
    interval,      \* of each setInterval: "new", "active" or "stopped"
    palHandle,     \* of each call: the handle timerStart returned last, MaxHandles if none
    jobs,          \* reactions: calls whose promise is resolved
    jsRunning,     \* the call whose callback runs, "script" or NoCall
    flushing,      \* the loop runs reactions
    ctxGone,       \* the context is destroyed
    ran, cleared,  \* history: calls whose callback ran, that were cleared
    wrong,         \* history: calls whose reaction ran a callback that is not its own
    ticks,         \* history: of each interval
    clashed,       \* history: calls that went by the number of one slot at the same time
    stolen         \* history: calls whose entry the clear of another call took away

timerVars == <<handles, handle_count, uv, entries, interval, palHandle, jobs, jsRunning,
               flushing, ctxGone, ran, cleared, wrong, ticks, clashed, stolen>>

TimersInit ==
    /\ handles = [h \in Handles |-> NoCall] /\ handle_count = 0
    /\ uv = [c \in Calls |-> "none"]
    /\ entries = [h \in Handles |-> NoCall]
    /\ interval = [c \in Intervals |-> "new"]
    /\ palHandle = [c \in Calls |-> MaxHandles]
    /\ jobs = << >> /\ jsRunning = "script" /\ flushing = FALSE /\ ctxGone = FALSE
    /\ ran = {} /\ cleared = {} /\ wrong = {}
    /\ ticks = [c \in Intervals |-> 0] /\ clashed = {} /\ stolen = {}

-----------------------------------------------------------------------------
(* js_pal_timer_start and js_pal_timer_stop *)

FreeSlots == {h \in 0 .. handle_count - 1 : handles[h] = NoCall}
Full == FreeSlots = {} /\ handle_count >= MaxHandles
NextHandle == IF FreeSlots # {} THEN CHOOSE h \in FreeSlots : \A k \in FreeSlots : h <= k
              ELSE handle_count

(* The calls that go by a handle: by an entry, a reaction or a running interval. *)
NamedBy(h) ==
    {c \in Calls : \/ entries[h] = c
                   \/ \E i \in DOMAIN jobs : jobs[i] = c /\ palHandle[c] = h
                   \/ c \in Intervals /\ interval[c] = "active" /\ palHandle[c] = h}

(* The calls that clash when c gets the slot h. *)
ClashAt(c, h) == IF NamedBy(h) \subseteq {c} THEN {} ELSE NamedBy(h) \cup {c}

TimerStart(c) ==
    /\ ~Full
    /\ handles' = [handles EXCEPT ![NextHandle] = c]
    /\ handle_count' = IF NextHandle = handle_count THEN handle_count + 1 ELSE handle_count
    /\ uv' = [uv EXCEPT ![c] = "armed"]
    /\ palHandle' = [palHandle EXCEPT ![c] = NextHandle]
    /\ clashed' = clashed \cup ClashAt(c, NextHandle)

(* timerStop ends whatever timer is in the slot (qz_timer_cancel). *)
TimerStop(h) ==
    IF h < handle_count /\ handles[h] # NoCall
    THEN /\ handles' = [handles EXCEPT ![h] = NoCall]
         /\ uv' = [uv EXCEPT ![handles[h]] = "closed"]
    ELSE UNCHANGED <<handles, uv>>

-----------------------------------------------------------------------------
(* timers.js *)

InJs == jsRunning # NoCall /\ ~ctxGone

SetTimeout(c) ==
    /\ InJs /\ uv[c] = "none" /\ c \in Timeouts
    /\ TimerStart(c)
    /\ entries' = [entries EXCEPT ![NextHandle] = c]
    /\ UNCHANGED <<interval, jobs, jsRunning, flushing, ctxGone, ran, cleared, wrong, ticks, stolen>>

SetInterval(c) ==
    /\ InJs /\ uv[c] = "none" /\ c \in Intervals
    /\ TimerStart(c)
    /\ interval' = [interval EXCEPT ![c] = "active"]
    /\ UNCHANGED <<entries, jobs, jsRunning, flushing, ctxGone, ran, cleared, wrong, ticks, stolen>>

(* With all slots taken timerStart throws; the uv timer is closed again.       *)
(* setInterval has made its entry by then, but its caller gets the exception.  *)
SetThrows(c) ==
    /\ InJs /\ uv[c] = "none" /\ Full
    /\ uv' = [uv EXCEPT ![c] = "closed"]
    /\ UNCHANGED <<handles, handle_count, entries, interval, palHandle, jobs, jsRunning,
                   flushing, ctxGone, ran, cleared, wrong, ticks, clashed, stolen>>

(* Faulty variant: the entry is taken away and the timer goes on. *)
LazyClearTimeout(c) ==
    /\ InJs /\ c \in Timeouts /\ palHandle[c] # MaxHandles
    /\ cleared' = cleared \cup ({c} \ ran)
    /\ entries' = [entries EXCEPT ![palHandle[c]] = NoCall]
    /\ UNCHANGED <<handles, uv, handle_count, interval, palHandle, jobs, jsRunning,
                   flushing, ctxGone, ran, wrong, ticks, clashed, stolen>>

(* clearTimeout with the handle that setTimeout returned for c, at any time: if c *)
(* has run or been cleared, the entry that is under the number now is another's.  *)
ClearTimeout(c) ==
    /\ InJs /\ c \in Timeouts /\ palHandle[c] # MaxHandles
    /\ cleared' = cleared \cup ({c} \ ran)
    /\ IF entries[palHandle[c]] = NoCall
       THEN UNCHANGED <<entries, handles, uv, stolen>>
       ELSE /\ stolen' = stolen \cup ({entries[palHandle[c]]} \ {c})
            /\ entries' = [entries EXCEPT ![palHandle[c]] = NoCall]
            /\ TimerStop(palHandle[c])
    /\ UNCHANGED <<handle_count, interval, palHandle, jobs, jsRunning, flushing, ctxGone, ran,
                   wrong, ticks, clashed>>

(* clearInterval, in the callback of the interval too: the slot it names is     *)
(* then no longer its own.                                                      *)
ClearInterval(c) ==
    /\ InJs /\ c \in Intervals /\ interval[c] = "active"
    /\ interval' = [interval EXCEPT ![c] = "stopped"]
    /\ cleared' = cleared \cup {c}
    /\ TimerStop(palHandle[c])
    /\ UNCHANGED <<handle_count, entries, palHandle, jobs, jsRunning, flushing, ctxGone, ran,
                   wrong, ticks, clashed, stolen>>

(* The script or a callback of setTimeout returns. *)
Return ==
    /\ InJs /\ jsRunning \notin Intervals
    /\ jsRunning' = NoCall
    /\ UNCHANGED <<handles, handle_count, uv, entries, interval, palHandle, jobs, flushing,
                   ctxGone, ran, cleared, wrong, ticks, clashed, stolen>>

(* The callback of an interval returns and scheduleNext starts the next timer;  *)
(* if that throws the interval ends.                                            *)
IntervalReturn ==
    /\ InJs /\ jsRunning \in Intervals
    /\ jsRunning' = NoCall
    /\ IF interval[jsRunning] = "active" /\ ~Full THEN TimerStart(jsRunning)
       ELSE UNCHANGED <<handles, handle_count, uv, palHandle, clashed>>
    /\ UNCHANGED <<entries, interval, jobs, flushing, ctxGone, ran, cleared, wrong, ticks, stolen>>

-----------------------------------------------------------------------------
(* The loop *)

(* qz_timer_cb, one-shot: every timer that is due before any reaction runs. *)
TimerCb(c) ==
    /\ jsRunning = NoCall /\ ~flushing /\ ~ctxGone /\ uv[c] = "armed"
    /\ c \in Intervals => ticks[c] < MaxTicks
    /\ uv' = [uv EXCEPT ![c] = "closed"]
    /\ handles' = [handles EXCEPT ![palHandle[c]] = NoCall]
    /\ jobs' = Append(jobs, c)
    /\ ticks' = IF c \in Intervals THEN [ticks EXCEPT ![c] = @ + 1] ELSE ticks
    /\ UNCHANGED <<handle_count, entries, interval, palHandle, jsRunning, flushing, ctxGone,
                   ran, cleared, wrong, clashed, stolen>>

Flush ==
    /\ jsRunning = NoCall /\ ~ctxGone /\ flushing = (jobs = << >>)
    /\ flushing' = ~flushing
    /\ UNCHANGED <<handles, handle_count, uv, entries, interval, palHandle, jobs, jsRunning,
                   ctxGone, ran, cleared, wrong, ticks, clashed, stolen>>

(* Faulty variant: the reactions behind the first are forgotten. *)
DroppingReaction ==
    /\ jsRunning = NoCall /\ ~ctxGone /\ flushing /\ jobs # << >>
    /\ LET c == Head(jobs) IN
       /\ jobs' = << >>
       /\ IF c \in Intervals
          THEN /\ jsRunning' = IF interval[c] = "active" THEN c ELSE NoCall
               /\ ran' = IF interval[c] = "active" THEN ran \cup {c} ELSE ran
               /\ UNCHANGED <<entries, wrong>>
          ELSE /\ jsRunning' = entries[palHandle[c]]
               /\ ran' = (ran \cup {entries[palHandle[c]]}) \ {NoCall}
               /\ wrong' = IF entries[palHandle[c]] \in {c, NoCall} THEN wrong ELSE wrong \cup {c}
               /\ entries' = [entries EXCEPT ![palHandle[c]] = NoCall]
    /\ UNCHANGED <<handles, handle_count, uv, interval, palHandle, flushing, ctxGone, cleared,
                   ticks, clashed, stolen>>

(* A reaction.  That of setTimeout looks its callback up by the handle. *)
Reaction ==
    /\ jsRunning = NoCall /\ ~ctxGone /\ flushing /\ jobs # << >>
    /\ LET c == Head(jobs) IN
       /\ jobs' = Tail(jobs)
       /\ IF c \in Intervals
          THEN /\ jsRunning' = IF interval[c] = "active" THEN c ELSE NoCall
               /\ ran' = IF interval[c] = "active" THEN ran \cup {c} ELSE ran
               /\ UNCHANGED <<entries, wrong>>
          ELSE /\ jsRunning' = entries[palHandle[c]]
               /\ ran' = (ran \cup {entries[palHandle[c]]}) \ {NoCall}
               /\ wrong' = IF entries[palHandle[c]] \in {c, NoCall} THEN wrong ELSE wrong \cup {c}
               /\ entries' = [entries EXCEPT ![palHandle[c]] = NoCall]
    /\ UNCHANGED <<handles, handle_count, uv, interval, palHandle, flushing, ctxGone, cleared,
                   ticks, clashed, stolen>>

(* qz_ctx_destroy: the timers in the slots below handle_count are cancelled,    *)
(* the reactions of the context dropped.                                        *)
CleanupResources ==
    /\ ~ctxGone /\ jsRunning = NoCall
    /\ ctxGone' = TRUE
    /\ uv' = [c \in Calls |-> IF \E h \in 0 .. handle_count - 1 : handles[h] = c
                              THEN "closed" ELSE uv[c]]
    /\ handles' = [h \in Handles |-> IF h < handle_count THEN NoCall ELSE handles[h]]
    /\ handle_count' = 0
    /\ jobs' = << >>
    /\ UNCHANGED <<entries, interval, palHandle, jsRunning, flushing, ran, cleared, wrong,
                   ticks, clashed, stolen>>

TimersNext ==
    \/ \E c \in Calls : SetTimeout(c) \/ SetInterval(c) \/ SetThrows(c)
    \/ \E c \in Calls : ClearTimeout(c) \/ ClearInterval(c) \/ TimerCb(c)
    \/ Return \/ IntervalReturn \/ Flush \/ Reaction \/ CleanupResources

TimersSpec == TimersInit /\ [][TimersNext]_timerVars

(* The loop runs, scripts return, a timer that is armed becomes due. *)
TimersFairness ==
    /\ WF_timerVars(Return \/ IntervalReturn)
    /\ WF_timerVars(Flush \/ Reaction)
    /\ \A c \in Calls : WF_timerVars(~flushing /\ TimerCb(c)) /\ SF_timerVars(TimerCb(c))

-----------------------------------------------------------------------------
TimersTypeOK ==
    /\ handles \in [Handles -> Calls \cup {NoCall}] /\ handle_count \in 0 .. MaxHandles
    /\ uv \in [Calls -> {"none", "armed", "closed"}]
    /\ entries \in [Handles -> Timeouts \cup {NoCall}]
    /\ interval \in [Intervals -> {"new", "active", "stopped"}]
    /\ palHandle \in [Calls -> 0 .. MaxHandles]
    /\ \A i \in DOMAIN jobs : jobs[i] \in Calls /\ palHandle[jobs[i]] \in Handles
    /\ jsRunning \in Calls \cup {NoCall, "script"}
    /\ ran \subseteq Calls /\ cleared \subseteq Calls /\ wrong \subseteq Calls
    /\ clashed \subseteq Calls /\ stolen \subseteq Calls

(* Of timer_start, timer_cb and timer_cancel: a timer that libuv may still fire  *)
(* is in exactly one slot below handle_count, its own, so that destroying the    *)
(* context reaches it; and after that no timer is armed.                         *)
ArmedIsInSlot ==
    /\ \A c \in Calls : uv[c] = "armed" <=>
           \E h \in 0 .. handle_count - 1 : handles[h] = c
    /\ \A h \in Handles : handles[h] # NoCall => palHandle[handles[h]] = h

(* Of timers.js and the slots: a reaction runs the callback of its own call unless *)
(* its slot was given out to another call before the reaction ran; and of the       *)
(* other calls none runs that was cleared in time or lost its entry to a clear of   *)
(* an old handle, and no timer of theirs goes on.                                   *)
ReactionIsOwn ==
    /\ wrong \subseteq clashed
    /\ \A c \in Timeouts \ clashed :
          c \in cleared \cup stolen => c \notin ran /\ uv[c] # "armed"

(* A timer that libuv will report is in the slot its handle names, and a       *)
(* reaction that runs a callback runs its own, however the script clears old   *)
(* and new handles, unless its slot was given out while it was still to run.   *)
TimersAreOwn ==
    /\ TimersTypeOK /\ ArmedIsInSlot /\ ReactionIsOwn

(* Known not to hold, see the README. *)
(* Of docs/js-api/timers.md ("Run `callback` after `delay` ms"): what runs when a *)
(* timer has fired is its own callback.                                           *)
CallbackIsOwn == wrong = {}

(* Known not to hold, see the README. *)
(* Of docs/js-api/timers.md ("Passing an invalid handle (already cleared, garbage *)
(* value) is silently ignored"): a clear takes nothing away from another call     *)
(* unless the two clashed before.                                                 *)
StaleClearIsIgnored == stolen \subseteq clashed

(* Of the loop: a callback of setTimeout runs unless the context goes, the call or  *)
(* an old handle of its number is cleared, or its own slot is given out or was      *)
(* still named when it got it.                                                      *)
TimeoutRuns ==
    \A c \in Timeouts :
        uv[c] = "armed" ~> (c \in ran \cup cleared \cup stolen \cup clashed \/ ctxGone)
=============================================================================
