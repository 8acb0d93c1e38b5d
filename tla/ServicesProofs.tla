--------------------------- MODULE ServicesProofs ---------------------------
(***************************************************************************)
(* Proofs about what serves the scripts of a runtime: the timers (Timers), *)
(* file operations (FsOps), contexts (Contexts), what is stored and the    *)
(* native memory behind the objects of a script (Services), for any number *)
(* of calls, operations, instances, processes, keys, objects and streams.  *)
(***************************************************************************)
EXTENDS Timers, FsOps, Contexts, Services, SequenceTheorems, FiniteSetTheorems,
        WellFoundedInduction, TLAPS

-----------------------------------------------------------------------------
(* A fact about numbers that several parts need *)

(* Every set of numbers that is not empty has a least one. *)
LEMMA Least ==
    ASSUME NEW S, S \subseteq Nat, S # {}
    PROVE  \E m \in S : \A n \in S : m <= n
  <1>1. PICK m \in S : \A n \in S : ~(<<n, m>> \in OpToRel(<, Nat))
    BY NatLessThanWellFounded, WFMin, Zenon
  <1>2. ASSUME NEW n \in S, ~(m <= n) PROVE FALSE
    <2>1. n \in Nat /\ m \in Nat /\ n < m
      BY <1>2
    <2>2. <<n, m>> \in OpToRel(<, Nat)
      BY <2>1 DEF OpToRel
    <2> QED
      BY <1>1, <1>2, <2>2, Zenon
  <1> QED
    BY <1>2

-----------------------------------------------------------------------------
(* Timers and their reactions *)

TimerTypes ==
    /\ handles \in [Handles -> Calls \cup {NoCall}] /\ handle_count \in 0 .. MaxHandles
    /\ uv \in [Calls -> {"none", "armed", "closed"}]
    /\ entries \in [Handles -> Timeouts \cup {NoCall}]
    /\ interval \in [Intervals -> {"new", "active", "stopped"}]
    /\ palHandle \in [Calls -> 0 .. MaxHandles]
    /\ jobs \in Seq(Calls) /\ jsRunning \in Calls \cup {NoCall, "script"}
    /\ ran \subseteq Calls /\ cleared \subseteq Calls
    /\ wrong \subseteq Calls /\ clashed \subseteq Calls /\ stolen \subseteq Calls

(* Nothing is in the slots from handle_count on. *)
SlotsBelowCount == \A h \in Handles : handles[h] # NoCall => h < handle_count

(* A call is in one place: in a slot, among the reactions or, an interval, in *)
(* its callback.                                                              *)
CallIsOnce ==
    /\ \A i \in DOMAIN jobs : uv[jobs[i]] = "closed" /\ palHandle[jobs[i]] \in Handles
    /\ \A i, j \in DOMAIN jobs : jobs[i] = jobs[j] => i = j
    /\ jsRunning \in Intervals =>
          uv[jsRunning] = "closed" /\ \A i \in DOMAIN jobs : jobs[i] # jsRunning

(* Calls that run no more: their callback ran or they lost their entry. *)
Spent == ran \cup cleared \cup stolen

(* A call that was not made has no handle and no history. *)
NewCalls ==
    \A c \in Timeouts : uv[c] = "none" => palHandle[c] = MaxHandles /\ c \notin Spent

(* An entry is under the handle of its call. *)
EntriesNamed == \A h \in Handles : entries[h] # NoCall => palHandle[entries[h]] = h

(* Of the calls that never clashed: *)
(* one that is to come has its entry, and one that is spent does not; *)
OwnEntries ==
    \A c \in Timeouts \ clashed : palHandle[c] # MaxHandles =>
        /\ c \notin Spent => entries[palHandle[c]] = c
        /\ c \in Spent => entries[palHandle[c]] # c

(* a timer under the number of their entry is their own; *)
EntryOwnsSlot ==
    \A h \in Handles : entries[h] \in Calls \ clashed => handles[h] \in {entries[h], NoCall}

(* a reaction finds its own call or none; *)
OwnReactions ==
    \A i \in DOMAIN jobs : jobs[i] \in Timeouts =>
        \/ entries[palHandle[jobs[i]]] \in {jobs[i], NoCall}
        \/ jobs[i] \in clashed /\ entries[palHandle[jobs[i]]] \in clashed

(* and a call that is spent has no timer, and did not run if it lost its entry. *)
OverIsOver ==
    \A c \in Timeouts \ clashed :
        /\ c \in Spent => uv[c] # "armed"
        /\ c \in cleared \cup stolen => c \notin ran

Unclashed ==
    /\ OwnEntries /\ EntryOwnsSlot /\ OwnReactions /\ OverIsOver
    /\ wrong \subseteq clashed

TimerInv ==
    /\ TimerTypes /\ ArmedIsInSlot /\ SlotsBelowCount /\ CallIsOnce /\ NewCalls
    /\ EntriesNamed /\ Unclashed

LEMMA TimerInitHolds == ASSUME TimersInit PROVE TimerInv
  <1>1. TimerTypes
    BY TimersAssumption DEF TimersInit, TimerTypes, Handles
  <1>2. /\ ArmedIsInSlot /\ SlotsBelowCount /\ NewCalls /\ EntriesNamed
    BY TimersAssumption DEF TimersInit, ArmedIsInSlot, SlotsBelowCount, NewCalls, EntriesNamed,
       Handles, Timeouts, Spent
  <1>3. CallIsOnce
    BY TimersAssumption DEF TimersInit, CallIsOnce
  <1>4. Unclashed
    BY TimersAssumption DEF TimersInit, Unclashed, OwnEntries, EntryOwnsSlot, OwnReactions,
       OverIsOver, Timeouts, Spent
  <1> QED
    BY <1>1, <1>2, <1>3, <1>4 DEF TimerInv

LEMMA BelowMore ==
    ASSUME NEW n \in Nat, NEW m \in Nat, n <= m, NEW h \in 0 .. n - 1
    PROVE  h \in 0 .. m - 1
  OBVIOUS

LEMMA SlotsBelow ==
    ASSUME NEW n \in Nat, n <= MaxHandles, NEW h \in 0 .. n - 1
    PROVE  h \in Handles
  BY TimersAssumption DEF Handles

(* The slot that a new timer gets is free. *)
LEMMA NextIsFree ==
    ASSUME TimerTypes, SlotsBelowCount, ~Full
    PROVE  NextHandle \in Handles /\ NextHandle <= handle_count /\ handles[NextHandle] = NoCall
  <1>1. handle_count \in Nat /\ handle_count <= MaxHandles /\ MaxHandles \in Nat
    BY TimersAssumption DEF TimerTypes
  <1>2. CASE FreeSlots # {}
    <2>1. FreeSlots \subseteq Nat
      BY <1>1 DEF FreeSlots
    <2>2. \E h \in FreeSlots : \A k \in FreeSlots : h <= k
      BY <1>2, <2>1, Least
    <2>3. NextHandle \in FreeSlots
      BY <1>2, <2>2 DEF NextHandle
    <2> QED
      BY <1>1, <2>3 DEF FreeSlots, Handles
  <1>3. CASE FreeSlots = {}
    <2>1. NextHandle = handle_count /\ handle_count < MaxHandles
      BY <1>1, <1>3 DEF NextHandle, Full
    <2>2. handle_count \in Handles
      BY <1>1, <2>1 DEF Handles
    <2> QED
      BY <1>1, <2>1, <2>2 DEF SlotsBelowCount
  <1> QED
    BY <1>2, <1>3

(* A timer that starts is armed and in its slot. *)
LEMMA StartKeepsSlots ==
    ASSUME TimerTypes, ArmedIsInSlot, SlotsBelowCount,
           NEW c \in Calls, uv[c] # "armed", TimerStart(c)
    PROVE  /\ handles' \in [Handles -> Calls \cup {NoCall}] /\ handle_count' \in 0 .. MaxHandles
           /\ uv' \in [Calls -> {"none", "armed", "closed"}] /\ uv'[c] = "armed"
           /\ palHandle' \in [Calls -> 0 .. MaxHandles] /\ palHandle'[c] = NextHandle
           /\ NextHandle \in Handles /\ handles[NextHandle] = NoCall
           /\ \A d \in Calls \ {c} : uv'[d] = uv[d] /\ palHandle'[d] = palHandle[d]
           /\ clashed' \subseteq Calls /\ clashed \subseteq clashed'
           /\ \A d \in NamedBy(NextHandle) : d # c => c \in clashed' /\ d \in clashed'
           /\ ArmedIsInSlot' /\ SlotsBelowCount'
  <1>1. NextHandle \in Handles /\ NextHandle <= handle_count /\ handles[NextHandle] = NoCall
    BY NextIsFree DEF TimerStart
  <1>2. /\ handle_count \in Nat /\ handle_count <= MaxHandles /\ MaxHandles \in Nat \ {0}
        /\ NoCall \notin Calls
    BY TimersAssumption DEF TimerTypes
  <1>3. NextHandle \in Nat /\ NextHandle < MaxHandles /\ NextHandle \in 0 .. MaxHandles
    BY <1>1, <1>2 DEF Handles
  <1>4. /\ handles' = [handles EXCEPT ![NextHandle] = c] /\ uv' = [uv EXCEPT ![c] = "armed"]
        /\ palHandle' = [palHandle EXCEPT ![c] = NextHandle]
        /\ handle_count' = IF NextHandle = handle_count THEN handle_count + 1 ELSE handle_count
        /\ clashed' = clashed \cup ClashAt(c, NextHandle)
    BY DEF TimerStart
  <1>5. /\ handle_count' \in Nat /\ handle_count <= handle_count' /\ handle_count' <= MaxHandles
        /\ NextHandle < handle_count' /\ NextHandle \in 0 .. handle_count' - 1
        /\ handle_count' = handle_count \/ handle_count = NextHandle
    BY <1>1, <1>2, <1>3, <1>4
  <1>6. /\ handles' \in [Handles -> Calls \cup {NoCall}] /\ handle_count' \in 0 .. MaxHandles
        /\ uv' \in [Calls -> {"none", "armed", "closed"}]
        /\ palHandle' \in [Calls -> 0 .. MaxHandles]
    BY <1>1, <1>2, <1>3, <1>4, <1>5 DEF TimerTypes
  <1>7. /\ handles'[NextHandle] = c /\ uv'[c] = "armed" /\ palHandle'[c] = NextHandle
        /\ \A d \in Calls \ {c} : uv'[d] = uv[d] /\ palHandle'[d] = palHandle[d]
        /\ \A h \in Handles \ {NextHandle} : handles'[h] = handles[h]
    BY <1>1, <1>4 DEF TimerTypes
  <1>8. SlotsBelowCount'
    BY <1>2, <1>5, <1>7 DEF SlotsBelowCount, Handles
  <1>9. \A h \in Handles : handles[h] # c
    BY <1>2 DEF ArmedIsInSlot, SlotsBelowCount, Handles
  <1>10. \A h \in Handles : handles'[h] # NoCall => palHandle'[handles'[h]] = h
    <2> TAKE h \in Handles
    <2>1. CASE h = NextHandle
      BY <1>7, <2>1
    <2>2. CASE h # NextHandle
      <3>1. handles'[h] = handles[h] /\ handles[h] # c /\ handles[h] \in Calls \cup {NoCall}
        BY <1>7, <1>9, <2>2 DEF TimerTypes
      <3> QED
        BY <1>7, <3>1 DEF ArmedIsInSlot
    <2> QED
      BY <2>1, <2>2
  <1>11. \A d \in Calls : uv'[d] = "armed" <=> \E h \in 0 .. handle_count' - 1 : handles'[h] = d
    <2> TAKE d \in Calls
    <2>1. CASE d = c
      BY <1>5, <1>7, <2>1
    <2>2. CASE d # c
      <3>1. uv'[d] = uv[d] /\ (uv[d] = "armed" <=> \E h \in 0 .. handle_count - 1 : handles[h] = d)
        BY <1>7, <2>2 DEF ArmedIsInSlot
      <3>2. ASSUME NEW h \in 0 .. handle_count - 1, handles[h] = d
            PROVE  h \in 0 .. handle_count' - 1 /\ handles'[h] = d
        <4>1. h \in Handles
          BY <1>2, <3>2, SlotsBelow
        <4>2. h \in 0 .. handle_count' - 1
          BY <1>2, <1>5, <3>2, BelowMore
        <4>3. h # NextHandle
          BY <1>1, <1>2, <3>2, Zenon
        <4> QED
          BY <1>7, <3>2, <4>1, <4>2, <4>3
      <3>3. ASSUME NEW h \in 0 .. handle_count' - 1, handles'[h] = d
            PROVE  h \in 0 .. handle_count - 1 /\ handles[h] = d
        <4>1. h \in Handles
          BY <1>5, <3>3, SlotsBelow
        <4>2. h # NextHandle
          BY <1>7, <2>2, <3>3
        <4>3. h \in 0 .. handle_count - 1
          BY <1>2, <1>3, <1>4, <3>3, <4>2
        <4> QED
          BY <1>7, <3>3, <4>1, <4>2, <4>3
      <3> QED
        BY <3>1, <3>2, <3>3
    <2> QED
      BY <2>1, <2>2
  <1>12. /\ clashed' \subseteq Calls /\ clashed \subseteq clashed'
         /\ \A d \in NamedBy(NextHandle) : d # c => c \in clashed' /\ d \in clashed'
    <2>1. ClashAt(c, NextHandle) \subseteq Calls
      BY DEF ClashAt, NamedBy
    <2>2. ASSUME NEW d \in NamedBy(NextHandle), d # c
          PROVE  c \in ClashAt(c, NextHandle) /\ d \in ClashAt(c, NextHandle)
      BY <2>2 DEF ClashAt
    <2> QED
      BY <1>4, <2>1, <2>2 DEF TimerTypes
  <1> QED
    BY <1>1, <1>6, <1>7, <1>8, <1>10, <1>11, <1>12 DEF ArmedIsInSlot

(* A slot is emptied, and the timer that was in it is closed; or nothing happens. *)
LEMMA EmptyKeepsSlots ==
    ASSUME TimerTypes, ArmedIsInSlot, SlotsBelowCount,
           NEW h \in Handles, handles[h] # NoCall,
           handles' = [handles EXCEPT ![h] = NoCall], uv' = [uv EXCEPT ![handles[h]] = "closed"],
           UNCHANGED <<handle_count, palHandle>>
    PROVE  /\ handles' \in [Handles -> Calls \cup {NoCall}]
           /\ uv' \in [Calls -> {"none", "armed", "closed"}]
           /\ handles[h] \in Calls /\ uv[handles[h]] = "armed" /\ uv'[handles[h]] = "closed"
           /\ palHandle[handles[h]] = h
           /\ \A d \in Calls : d # handles[h] => uv'[d] = uv[d]
           /\ ArmedIsInSlot' /\ SlotsBelowCount'
  <1>1. /\ handle_count \in Nat /\ handle_count <= MaxHandles /\ MaxHandles \in Nat \ {0}
        /\ NoCall \notin Calls /\ handles[h] \in Calls
    BY TimersAssumption DEF TimerTypes
  <1>2. PICK c \in Calls : c = handles[h]
    BY <1>1
  <1>3. palHandle[c] = h /\ h \in 0 .. handle_count - 1 /\ uv[c] = "armed"
    <2>1. h < handle_count /\ palHandle[c] = h
      BY <1>2 DEF SlotsBelowCount, ArmedIsInSlot
    <2>2. h \in 0 .. handle_count - 1
      BY <1>1, <2>1 DEF Handles
    <2> QED
      BY <1>2, <2>1, <2>2 DEF ArmedIsInSlot
  <1>4. /\ handles' \in [Handles -> Calls \cup {NoCall}] /\ handles'[h] = NoCall
        /\ \A k \in Handles \ {h} : handles'[k] = handles[k]
        /\ uv' \in [Calls -> {"none", "armed", "closed"}] /\ uv'[c] = "closed"
        /\ \A d \in Calls \ {c} : uv'[d] = uv[d]
    BY <1>2 DEF TimerTypes
  <1>5. \A k \in Handles : handles'[k] # NoCall => handles'[k] = handles[k] /\ handles[k] # c
    BY <1>1, <1>2, <1>3, <1>4 DEF ArmedIsInSlot
  <1>6. SlotsBelowCount' /\ \A k \in Handles : handles'[k] # NoCall => palHandle'[handles'[k]] = k
    BY <1>5 DEF SlotsBelowCount, ArmedIsInSlot
  <1>7. \A d \in Calls : uv'[d] = "armed" <=> \E k \in 0 .. handle_count' - 1 : handles'[k] = d
    <2> TAKE d \in Calls
    <2>1. \A k \in 0 .. handle_count - 1 : k \in Handles
      BY <1>1 DEF Handles
    <2>2. CASE d = c
      BY <1>1, <1>4, <1>5, <2>1, <2>2
    <2>3. CASE d # c
      BY <1>1, <1>2, <1>4, <1>5, <2>1, <2>3 DEF ArmedIsInSlot
    <2> QED
      BY <2>2, <2>3
  <1> QED
    BY <1>2, <1>3, <1>4, <1>6, <1>7 DEF ArmedIsInSlot

(* timerStop: one timer is closed that was armed, or none. *)
LEMMA StopKeepsSlots ==
    ASSUME TimerTypes, ArmedIsInSlot, SlotsBelowCount, NEW h \in 0 .. MaxHandles, TimerStop(h),
           UNCHANGED <<handle_count, palHandle>>
    PROVE  /\ handles' \in [Handles -> Calls \cup {NoCall}]
           /\ uv' \in [Calls -> {"none", "armed", "closed"}]
           /\ \A d \in Calls : uv'[d] = uv[d] \/ (uv[d] = "armed" /\ uv'[d] = "closed")
           /\ \A d \in Calls : palHandle[d] = h => uv'[d] # "armed"
           /\ \A k \in Handles : handles'[k] \in {handles[k], NoCall}
           /\ ArmedIsInSlot' /\ SlotsBelowCount'
  <1>0. handle_count \in Nat /\ handle_count <= MaxHandles
    BY TimersAssumption DEF TimerTypes
  <1>1. CASE h < handle_count /\ handles[h] # NoCall
    <2>1. h \in Handles
      BY <1>1, TimersAssumption DEF TimerTypes, Handles
    <2>2. handles' = [handles EXCEPT ![h] = NoCall] /\ uv' = [uv EXCEPT ![handles[h]] = "closed"]
      BY <1>1 DEF TimerStop
    <2>3. /\ handles' \in [Handles -> Calls \cup {NoCall}]
          /\ uv' \in [Calls -> {"none", "armed", "closed"}]
          /\ handles[h] \in Calls /\ uv[handles[h]] = "armed" /\ uv'[handles[h]] = "closed"
          /\ \A d \in Calls : d # handles[h] => uv'[d] = uv[d]
          /\ ArmedIsInSlot' /\ SlotsBelowCount'
      BY <1>1, <2>1, <2>2, EmptyKeepsSlots
    <2>4. \A d \in Calls : palHandle[d] = h => uv'[d] # "armed"
      <3> SUFFICES ASSUME NEW d \in Calls, palHandle[d] = h, uv[d] = "armed", d # handles[h]
                   PROVE  FALSE
        BY <2>3
      <3>1. PICK k \in 0 .. handle_count - 1 : handles[k] = d
        BY DEF ArmedIsInSlot
      <3>2. k \in Handles
        BY <1>0, <3>1, SlotsBelow
      <3>3. palHandle[d] = k
        BY <3>1, <3>2, TimersAssumption DEF ArmedIsInSlot
      <3> QED
        BY <3>1, <3>3
    <2>5. \A k \in Handles : handles'[k] \in {handles[k], NoCall}
      BY <2>1, <2>2 DEF TimerTypes
    <2> QED
      BY <2>3, <2>4, <2>5
  <1>2. CASE ~(h < handle_count /\ handles[h] # NoCall)
    <2>1. UNCHANGED <<handles, uv>>
      BY <1>2 DEF TimerStop
    <2>2. \A d \in Calls : palHandle[d] = h => uv[d] # "armed"
      <3> SUFFICES ASSUME NEW d \in Calls, palHandle[d] = h, uv[d] = "armed" PROVE FALSE
        OBVIOUS
      <3>1. PICK k \in 0 .. handle_count - 1 : handles[k] = d
        BY DEF ArmedIsInSlot
      <3>2. k \in Handles
        BY <1>0, <3>1, SlotsBelow
      <3>3. palHandle[d] = k
        BY <3>1, <3>2, TimersAssumption DEF ArmedIsInSlot
      <3>4. k < handle_count
        BY <3>1 DEF TimerTypes
      <3> QED
        BY <1>2, <3>1, <3>3, <3>4, TimersAssumption
    <2> QED
      BY <2>1, <2>2 DEF TimerTypes, ArmedIsInSlot, SlotsBelowCount
  <1> QED
    BY <1>1, <1>2

-----------------------------------------------------------------------------

LEMMA SetTimeoutKeeps ==
    ASSUME TimerInv, NEW c \in Calls, SetTimeout(c) PROVE TimerInv'
  <1>0. /\ TimerTypes /\ ArmedIsInSlot /\ SlotsBelowCount /\ CallIsOnce /\ NewCalls
        /\ EntriesNamed /\ Unclashed /\ NoCall \notin Calls /\ MaxHandles \notin Handles
    BY TimersAssumption DEF TimerInv, Handles
  <1>1. /\ uv[c] = "none" /\ c \in Timeouts /\ c \notin Intervals /\ TimerStart(c)
        /\ entries' = [entries EXCEPT ![NextHandle] = c]
        /\ UNCHANGED <<interval, jobs, jsRunning, ran, cleared, wrong, stolen>>
    BY DEF SetTimeout, Timeouts
  <1>2. PICK n : n = NextHandle
    OBVIOUS
  <1>3. /\ handles' \in [Handles -> Calls \cup {NoCall}] /\ handle_count' \in 0 .. MaxHandles
        /\ uv' \in [Calls -> {"none", "armed", "closed"}] /\ uv'[c] = "armed"
        /\ palHandle' \in [Calls -> 0 .. MaxHandles] /\ palHandle'[c] = n
        /\ n \in Handles /\ handles[n] = NoCall
        /\ \A d \in Calls \ {c} : uv'[d] = uv[d] /\ palHandle'[d] = palHandle[d]
        /\ clashed' \subseteq Calls /\ clashed \subseteq clashed'
        /\ \A d \in NamedBy(n) : d # c => c \in clashed' /\ d \in clashed'
        /\ ArmedIsInSlot' /\ SlotsBelowCount'
    BY <1>0, <1>1, <1>2, StartKeepsSlots
  <1>4. /\ entries' \in [Handles -> Timeouts \cup {NoCall}] /\ entries'[n] = c
        /\ \A h \in Handles \ {n} : entries'[h] = entries[h]
    BY <1>0, <1>1, <1>2, <1>3 DEF TimerTypes
  <1>5. TimerTypes'
    BY <1>0, <1>1, <1>3, <1>4 DEF TimerTypes
  <1>6. /\ \A i \in DOMAIN jobs : jobs[i] \in Calls \ {c} /\ palHandle'[jobs[i]] = palHandle[jobs[i]]
        /\ palHandle[c] = MaxHandles /\ c \notin Spent
    BY <1>0, <1>1, <1>3 DEF TimerTypes, CallIsOnce, NewCalls
  <1>7. CallIsOnce'
    <2>1. \A i \in DOMAIN jobs : uv'[jobs[i]] = uv[jobs[i]]
      BY <1>3, <1>6
    <2>2. jsRunning \in Intervals => uv'[jsRunning] = uv[jsRunning]
      BY <1>1, <1>3, TimersAssumption
    <2> QED
      BY <1>0, <1>1, <1>6, <2>1, <2>2 DEF CallIsOnce
  <1>8. NewCalls'
    BY <1>0, <1>1, <1>3 DEF NewCalls, Timeouts, Spent
  <1>9. EntriesNamed'
    <2> SUFFICES ASSUME NEW h \in Handles, entries'[h] # NoCall
                 PROVE  palHandle'[entries'[h]] = h
      BY DEF EntriesNamed
    <2>1. CASE h = n
      BY <1>3, <1>4, <2>1
    <2>2. CASE h # n
      <3>1. /\ entries'[h] = entries[h] /\ entries[h] \in Timeouts /\ palHandle[entries[h]] = h
            /\ entries[h] \in Calls \ {c}
        BY <1>0, <1>4, <1>6, <2>2 DEF EntriesNamed, TimerTypes, Timeouts
      <3> QED
        BY <1>3, <3>1
    <2> QED
      BY <2>1, <2>2
  <1>10. Unclashed'
    <2>1. /\ OwnEntries /\ EntryOwnsSlot /\ OwnReactions /\ OverIsOver /\ wrong \subseteq clashed
          /\ Spent' = Spent
      BY <1>0, <1>1 DEF Unclashed, Spent
    <2>2. ASSUME NEW d \in Timeouts \ clashed', d # c
          PROVE  /\ d \in Calls /\ d \notin clashed /\ palHandle'[d] = palHandle[d]
                 /\ uv'[d] = uv[d] /\ entries[n] # d
      BY <1>3, <2>2 DEF Timeouts, NamedBy
    <2>3. OwnEntries'
      <3> SUFFICES ASSUME NEW d \in Timeouts \ clashed', palHandle'[d] # MaxHandles
                   PROVE  /\ d \notin Spent' => entries'[palHandle'[d]] = d
                          /\ d \in Spent' => entries'[palHandle'[d]] # d
        BY DEF OwnEntries
      <3>1. CASE d = c
        BY <1>3, <1>4, <1>6, <2>1, <3>1
      <3>2. CASE d # c
        <4>1. /\ palHandle'[d] = palHandle[d] /\ palHandle[d] \in Handles
              /\ d \notin clashed /\ entries[n] # d
          BY <1>0, <2>2, <3>2, TimersAssumption DEF TimerTypes, Handles
        <4>2. CASE palHandle[d] = n
          BY <1>0, <1>4, <2>1, <3>2, <4>1, <4>2 DEF OwnEntries
        <4>3. CASE palHandle[d] # n
          BY <1>0, <1>4, <2>1, <4>1, <4>3 DEF OwnEntries
        <4> QED
          BY <4>2, <4>3
      <3> QED
        BY <3>1, <3>2
    <2>4. EntryOwnsSlot'
      <3> SUFFICES ASSUME NEW h \in Handles, entries'[h] \in Calls \ clashed'
                   PROVE  handles'[h] \in {entries'[h], NoCall}
        BY DEF EntryOwnsSlot
      <3>1. handles' = [handles EXCEPT ![n] = c]
        BY <1>1, <1>2 DEF TimerStart
      <3>2. CASE h = n
        BY <1>0, <1>3, <1>4, <3>1, <3>2 DEF TimerTypes
      <3>3. CASE h # n
        BY <1>0, <1>3, <1>4, <2>1, <3>1, <3>3 DEF TimerTypes, EntryOwnsSlot
      <3> QED
        BY <3>2, <3>3
    <2>5. OwnReactions'
      <3> SUFFICES ASSUME NEW i \in DOMAIN jobs, jobs[i] \in Timeouts
                   PROVE  \/ entries'[palHandle'[jobs[i]]] \in {jobs[i], NoCall}
                          \/ /\ jobs[i] \in clashed'
                             /\ entries'[palHandle'[jobs[i]]] \in clashed'
        BY <1>1 DEF OwnReactions
      <3>1. palHandle'[jobs[i]] = palHandle[jobs[i]] /\ palHandle[jobs[i]] \in Handles
        BY <1>0, <1>6 DEF CallIsOnce
      <3>2. CASE palHandle[jobs[i]] = n
        <4>1. jobs[i] \in NamedBy(n) /\ jobs[i] # c
          BY <1>6, <3>2 DEF NamedBy
        <4> QED
          BY <1>3, <1>4, <3>1, <3>2, <4>1
      <3>3. CASE palHandle[jobs[i]] # n
        BY <1>3, <1>4, <2>1, <3>1, <3>3 DEF OwnReactions
      <3> QED
        BY <3>2, <3>3
    <2>6. OverIsOver'
      <3> SUFFICES ASSUME NEW d \in Timeouts \ clashed'
                   PROVE  /\ d \in Spent' => uv'[d] # "armed"
                          /\ d \in cleared' \cup stolen' => d \notin ran'
        BY DEF OverIsOver
      <3>1. CASE d = c
        BY <1>1, <1>6, <2>1, <3>1 DEF Spent
      <3>2. CASE d # c
        BY <1>1, <2>1, <2>2, <3>2 DEF OverIsOver
      <3> QED
        BY <3>1, <3>2
    <2> QED
      BY <1>1, <1>3, <2>1, <2>3, <2>4, <2>5, <2>6 DEF Unclashed
  <1> QED
    BY <1>3, <1>5, <1>7, <1>8, <1>9, <1>10 DEF TimerInv

(* An interval starts its first timer, or the next. *)
LEMMA IntervalStarts ==
    ASSUME TimerInv, NEW c \in Intervals, uv[c] # "armed", TimerStart(c),
           \A i \in DOMAIN jobs : jobs[i] # c,
           jsRunning' \in {jsRunning, NoCall}, jsRunning' # c,
           interval' \in [Intervals -> {"new", "active", "stopped"}],
           UNCHANGED <<entries, jobs, ran, cleared, wrong, stolen>>
    PROVE  TimerInv'
  <1>0. /\ TimerTypes /\ ArmedIsInSlot /\ SlotsBelowCount /\ CallIsOnce /\ NewCalls
        /\ EntriesNamed /\ Unclashed /\ NoCall \notin Calls /\ c \in Calls /\ c \notin Timeouts
    BY TimersAssumption DEF TimerInv, Timeouts
  <1>1. /\ handles' \in [Handles -> Calls \cup {NoCall}] /\ handle_count' \in 0 .. MaxHandles
        /\ uv' \in [Calls -> {"none", "armed", "closed"}]
        /\ palHandle' \in [Calls -> 0 .. MaxHandles]
        /\ \A d \in Calls \ {c} : uv'[d] = uv[d] /\ palHandle'[d] = palHandle[d]
        /\ clashed' \subseteq Calls /\ clashed \subseteq clashed'
        /\ \A d \in NamedBy(NextHandle) : d # c => c \in clashed' /\ d \in clashed'
        /\ NextHandle \in Handles /\ handles' = [handles EXCEPT ![NextHandle] = c]
        /\ ArmedIsInSlot' /\ SlotsBelowCount'
    BY <1>0, StartKeepsSlots DEF TimerStart
  <1>2. TimerTypes'
    BY <1>0, <1>1 DEF TimerTypes
  <1>3. \A d \in Timeouts : d \in Calls /\ uv'[d] = uv[d] /\ palHandle'[d] = palHandle[d]
    BY <1>0, <1>1 DEF Timeouts
  <1>4. \A i \in DOMAIN jobs : /\ jobs[i] \in Calls /\ uv'[jobs[i]] = uv[jobs[i]]
                               /\ palHandle'[jobs[i]] = palHandle[jobs[i]]
    BY <1>0, <1>1 DEF TimerTypes
  <1>5. CallIsOnce'
    <2>1. jsRunning' \in Intervals => jsRunning' = jsRunning /\ uv'[jsRunning] = uv[jsRunning]
      BY <1>0, <1>1, TimersAssumption
    <2> QED
      BY <1>0, <1>4, <2>1 DEF CallIsOnce
  <1>6. NewCalls' /\ EntriesNamed'
    BY <1>0, <1>3 DEF NewCalls, EntriesNamed, TimerTypes, Spent
  <1>7. Unclashed'
    <2>1. /\ OwnEntries /\ EntryOwnsSlot /\ OwnReactions /\ OverIsOver /\ wrong \subseteq clashed
          /\ Spent' = Spent
      BY <1>0 DEF Unclashed, Spent
    <2>2. OwnEntries' /\ OverIsOver' /\ OwnReactions'
      BY <1>1, <1>3, <1>4, <2>1 DEF OwnEntries, OverIsOver, OwnReactions
    <2>3. EntryOwnsSlot'
      <3> SUFFICES ASSUME NEW h \in Handles, entries[h] \in Calls \ clashed'
                   PROVE  handles'[h] \in {entries[h], NoCall}
        BY <1>0 DEF EntryOwnsSlot
      <3>1. CASE h = NextHandle
        <4>1. entries[h] \in NamedBy(NextHandle) /\ entries[h] \in Timeouts
          BY <1>0, <3>1 DEF NamedBy, TimerTypes
        <4>2. entries[h] = c
          BY <1>1, <4>1
        <4> QED
          BY <1>0, <4>1, <4>2
      <3>2. CASE h # NextHandle
        BY <1>0, <1>1, <2>1, <3>2 DEF TimerTypes, EntryOwnsSlot
      <3> QED
        BY <3>1, <3>2
    <2> QED
      BY <1>0, <1>1, <2>1, <2>2, <2>3 DEF Unclashed
  <1> QED
    BY <1>1, <1>2, <1>5, <1>6, <1>7 DEF TimerInv

LEMMA SetIntervalKeeps ==
    ASSUME TimerInv, NEW c \in Calls, SetInterval(c) PROVE TimerInv'
  <1>1. /\ uv[c] = "none" /\ c \in Intervals /\ TimerStart(c)
        /\ interval' = [interval EXCEPT ![c] = "active"]
        /\ UNCHANGED <<entries, jobs, jsRunning, ran, cleared, wrong, stolen>>
    BY DEF SetInterval
  <1>2. /\ \A i \in DOMAIN jobs : jobs[i] # c
        /\ jsRunning # c /\ interval' \in [Intervals -> {"new", "active", "stopped"}]
    BY <1>1 DEF TimerInv, CallIsOnce, TimerTypes
  <1> QED
    BY <1>1, <1>2, IntervalStarts

LEMMA IntervalReturnKeeps == ASSUME TimerInv, IntervalReturn PROVE TimerInv'
  <1>1. /\ jsRunning \in Intervals /\ jsRunning' = NoCall /\ NoCall \notin Intervals
        /\ UNCHANGED <<entries, interval, jobs, ran, cleared, wrong, stolen>>
    BY TimersAssumption DEF IntervalReturn
  <1>2. uv[jsRunning] = "closed" /\ \A i \in DOMAIN jobs : jobs[i] # jsRunning
    BY <1>1 DEF TimerInv, CallIsOnce
  <1>3. CASE TimerStart(jsRunning)
    BY <1>1, <1>2, <1>3, IntervalStarts DEF TimerInv, TimerTypes
  <1>4. CASE UNCHANGED <<handles, handle_count, uv, palHandle, clashed>>
    BY <1>1, <1>4 DEF TimerInv, TimerTypes, ArmedIsInSlot, SlotsBelowCount, CallIsOnce, NewCalls,
       EntriesNamed, Unclashed, OwnEntries, EntryOwnsSlot, OwnReactions,
       OverIsOver, Spent
  <1> QED
    BY <1>3, <1>4 DEF IntervalReturn

LEMMA SetThrowsKeeps ==
    ASSUME TimerInv, NEW c \in Calls, SetThrows(c) PROVE TimerInv'
  <1>0. /\ TimerTypes /\ ArmedIsInSlot /\ SlotsBelowCount /\ CallIsOnce /\ NewCalls
        /\ EntriesNamed /\ Unclashed
    BY DEF TimerInv
  <1>1. /\ uv[c] = "none" /\ uv' = [uv EXCEPT ![c] = "closed"]
        /\ UNCHANGED <<handles, handle_count, entries, interval, palHandle, jobs, jsRunning, ran,
                       cleared, wrong, clashed, stolen>>
    BY DEF SetThrows
  <1>2. /\ uv' \in [Calls -> {"none", "armed", "closed"}]
        /\ \A d \in Calls : uv'[d] = "armed" <=> uv[d] = "armed"
        /\ \A d \in Calls : uv[d] = "closed" => uv'[d] = "closed"
        /\ \A d \in Calls : uv'[d] = "none" => uv[d] = "none"
    BY <1>0, <1>1 DEF TimerTypes
  <1>3. TimerTypes' /\ SlotsBelowCount' /\ EntriesNamed'
    BY <1>0, <1>1, <1>2 DEF TimerTypes, SlotsBelowCount, EntriesNamed
  <1>4. ArmedIsInSlot'
    BY <1>0, <1>1, <1>2 DEF ArmedIsInSlot
  <1>5. CallIsOnce' /\ NewCalls'
    BY <1>0, <1>1, <1>2, TimersAssumption DEF CallIsOnce, NewCalls, TimerTypes, Timeouts, Spent
  <1>6. Unclashed'
    BY <1>0, <1>1, <1>2 DEF Unclashed, OwnEntries, EntryOwnsSlot, OwnReactions,
       OverIsOver, Spent, Timeouts
  <1> QED
    BY <1>3, <1>4, <1>5, <1>6 DEF TimerInv

(* Closing timers that are armed leaves reactions and callbacks what they are. *)
LEMMA ClosingKeeps ==
    ASSUME TimerTypes, CallIsOnce,
           \A d \in Calls : uv'[d] = uv[d] \/ (uv[d] = "armed" /\ uv'[d] = "closed"),
           UNCHANGED <<palHandle, jobs, jsRunning>>
    PROVE  CallIsOnce'
  BY TimersAssumption DEF CallIsOnce, TimerTypes

LEMMA ClearTimeoutKeeps ==
    ASSUME TimerInv, NEW c \in Calls, ClearTimeout(c) PROVE TimerInv'
  <1>0. /\ TimerTypes /\ ArmedIsInSlot /\ SlotsBelowCount /\ CallIsOnce /\ NewCalls
        /\ EntriesNamed /\ Unclashed /\ NoCall \notin Calls
    BY TimersAssumption DEF TimerInv
  <1>1. /\ c \in Timeouts /\ palHandle[c] # MaxHandles
        /\ cleared' = cleared \cup ({c} \ ran)
        /\ UNCHANGED <<handle_count, interval, palHandle, jobs, jsRunning, ran, wrong, clashed>>
    BY DEF ClearTimeout
  <1>2. PICK h \in Handles : h = palHandle[c]
    BY <1>0, <1>1, TimersAssumption DEF TimerTypes, Handles
  <1>3. /\ handles' \in [Handles -> Calls \cup {NoCall}]
        /\ uv' \in [Calls -> {"none", "armed", "closed"}]
        /\ \A d \in Calls : uv'[d] = uv[d] \/ (uv[d] = "armed" /\ uv'[d] = "closed")
        /\ ArmedIsInSlot' /\ SlotsBelowCount'
        /\ entries' \in [Handles -> Timeouts \cup {NoCall}]
        /\ entries'[h] = NoCall /\ \A k \in Handles \ {h} : entries'[k] = entries[k]
        /\ entries[h] # NoCall => uv'[entries[h]] # "armed"
        /\ stolen' = stolen \cup ({entries[h]} \ {c, NoCall})
        /\ \A k \in Handles : handles'[k] \in {handles[k], NoCall}
    <2>1. CASE entries[h] = NoCall
      <3>1. UNCHANGED <<entries, handles, uv, stolen>>
        BY <1>0, <1>2, <2>1 DEF ClearTimeout
      <3> QED
        BY <1>0, <1>1, <2>1, <3>1, Zenon DEF TimerTypes, ArmedIsInSlot, SlotsBelowCount
    <2>2. CASE entries[h] # NoCall
      <3>1. /\ entries' = [entries EXCEPT ![h] = NoCall] /\ TimerStop(h)
            /\ stolen' = stolen \cup ({entries[h]} \ {c})
            /\ entries[h] \in Timeouts /\ palHandle[entries[h]] = h
        BY <1>0, <1>2, <2>2 DEF ClearTimeout, TimerTypes, EntriesNamed
      <3>2. h \in 0 .. MaxHandles
        BY TimersAssumption DEF Handles
      <3> QED
        <4>1. /\ handles' \in [Handles -> Calls \cup {NoCall}]
              /\ uv' \in [Calls -> {"none", "armed", "closed"}]
              /\ \A d \in Calls : uv'[d] = uv[d] \/ (uv[d] = "armed" /\ uv'[d] = "closed")
              /\ \A d \in Calls : palHandle[d] = h => uv'[d] # "armed"
              /\ \A k \in Handles : handles'[k] \in {handles[k], NoCall}
              /\ ArmedIsInSlot' /\ SlotsBelowCount'
          BY <1>0, <1>1, <3>1, <3>2, StopKeepsSlots
        <4>2. entries[h] \in Calls
          BY <3>1 DEF Timeouts
        <4>3. entries' \in [Handles -> Timeouts \cup {NoCall}]
          BY <1>0, <3>1 DEF TimerTypes
        <4> QED
          BY <1>0, <2>2, <3>1, <4>1, <4>2, <4>3 DEF TimerTypes
    <2> QED
      BY <2>1, <2>2
  <1>4. TimerTypes'
    <2>1. entries[h] \in Calls \cup {NoCall}
      BY <1>0 DEF TimerTypes, Timeouts
    <2> QED
      BY <1>0, <1>1, <1>3, <2>1 DEF TimerTypes
  <1>5. CallIsOnce'
    BY <1>0, <1>1, <1>3, ClosingKeeps
  <1>6. Spent' = Spent \cup {c} \cup ({entries[h]} \ {NoCall})
    BY <1>1, <1>3 DEF Spent
  <1>7. NewCalls'
    <2> SUFFICES ASSUME NEW d \in Timeouts, uv'[d] = "none"
                 PROVE  palHandle[d] = MaxHandles /\ d \notin Spent'
      BY <1>1 DEF NewCalls
    <2>1. palHandle[d] = MaxHandles /\ d \notin Spent
      BY <1>0, <1>3 DEF NewCalls, Timeouts
    <2>2. d # c /\ d # entries[h]
      BY <1>0, <1>1, <1>2, <2>1 DEF EntriesNamed, Timeouts
    <2> QED
      BY <1>6, <2>1, <2>2
  <1>8. EntriesNamed'
    BY <1>0, <1>1, <1>3 DEF EntriesNamed
  <1>9. Unclashed'
    <2>1. OwnEntries /\ EntryOwnsSlot /\ OwnReactions /\ OverIsOver /\ wrong \subseteq clashed
      BY <1>0 DEF Unclashed
    <2>2. \A d \in Timeouts : /\ d \in Calls /\ d # NoCall
                              /\ palHandle[d] # MaxHandles => palHandle[d] \in Handles
      BY <1>0, TimersAssumption DEF TimerTypes, Timeouts, Handles
    <2>3. OwnEntries'
      <3> SUFFICES ASSUME NEW d \in Timeouts \ clashed, palHandle[d] # MaxHandles
                   PROVE  /\ d \notin Spent' => entries'[palHandle[d]] = d
                          /\ d \in Spent' => entries'[palHandle[d]] # d
        BY <1>1 DEF OwnEntries
      <3>1. /\ d \notin Spent => entries[palHandle[d]] = d
            /\ d \in Spent => entries[palHandle[d]] # d
        BY <2>1 DEF OwnEntries
      <3>2. CASE palHandle[d] = h
        BY <1>3, <1>6, <2>2, <3>1, <3>2
      <3>3. CASE palHandle[d] # h
        <4>1. d # c /\ d # entries[h]
          BY <1>0, <1>2, <2>2, <3>3 DEF EntriesNamed
        <4> QED
          BY <1>3, <1>6, <2>2, <3>1, <3>3, <4>1
      <3> QED
        BY <3>2, <3>3
    <2>4. EntryOwnsSlot'
      BY <1>0, <1>1, <1>3, <2>1 DEF EntryOwnsSlot
    <2>5. OwnReactions'
      BY <1>0, <1>1, <1>3, <2>1 DEF OwnReactions, CallIsOnce
    <2>6. OverIsOver'
      <3> SUFFICES ASSUME NEW d \in Timeouts \ clashed
                   PROVE  /\ d \in Spent' => uv'[d] # "armed"
                          /\ d \in cleared' \cup stolen' => d \notin ran
        BY <1>1 DEF OverIsOver
      <3>1. uv'[d] = "armed" => uv[d] = "armed"
        BY <1>3, <2>2
      <3>2. d \in Spent => uv[d] # "armed" /\ (d \in cleared \cup stolen => d \notin ran)
        BY <2>1 DEF OverIsOver, Spent
      <3>3. CASE d = entries[h]
        <4>1. palHandle[d] = h /\ palHandle[d] # MaxHandles
          BY <1>0, <2>2, <3>3, TimersAssumption DEF EntriesNamed, Handles
        <4>2. d \notin Spent
          BY <2>1, <3>3, <4>1 DEF OwnEntries
        <4> QED
          BY <1>3, <2>2, <3>3, <4>2 DEF Spent
      <3>4. CASE d # entries[h] /\ d = c
        <4>1. d \in Spent
          BY <1>1, <1>2, <2>1, <3>4 DEF OwnEntries
        <4> QED
          BY <1>1, <1>3, <3>1, <3>2, <3>4, <4>1
      <3>5. CASE d # entries[h] /\ d # c
        BY <1>1, <1>3, <1>6, <3>1, <3>2, <3>5 DEF Spent
      <3> QED
        BY <3>3, <3>4, <3>5
    <2> QED
      BY <1>1, <2>1, <2>3, <2>4, <2>5, <2>6 DEF Unclashed
  <1> QED
    BY <1>3, <1>4, <1>5, <1>7, <1>8, <1>9 DEF TimerInv

LEMMA ClearIntervalKeeps ==
    ASSUME TimerInv, NEW c \in Calls, ClearInterval(c) PROVE TimerInv'
  <1>0. /\ TimerTypes /\ ArmedIsInSlot /\ SlotsBelowCount /\ CallIsOnce /\ NewCalls
        /\ EntriesNamed /\ Unclashed
    BY DEF TimerInv
  <1>1. /\ c \in Intervals /\ c \notin Timeouts /\ cleared' = cleared \cup {c}
        /\ interval' = [interval EXCEPT ![c] = "stopped"] /\ TimerStop(palHandle[c])
        /\ UNCHANGED <<handle_count, entries, palHandle, jobs, jsRunning, ran, wrong, clashed, stolen>>
    BY DEF ClearInterval, Timeouts
  <1>2. /\ handles' \in [Handles -> Calls \cup {NoCall}]
        /\ uv' \in [Calls -> {"none", "armed", "closed"}]
        /\ \A d \in Calls : uv'[d] = uv[d] \/ (uv[d] = "armed" /\ uv'[d] = "closed")
        /\ \A k \in Handles : handles'[k] \in {handles[k], NoCall}
        /\ ArmedIsInSlot' /\ SlotsBelowCount'
    <2>1. palHandle[c] \in 0 .. MaxHandles
      BY <1>0 DEF TimerTypes
    <2> QED
      BY <1>0, <1>1, <2>1, StopKeepsSlots
  <1>3. TimerTypes'
    BY <1>0, <1>1, <1>2 DEF TimerTypes
  <1>4. CallIsOnce'
    BY <1>0, <1>1, <1>2, ClosingKeeps
  <1>5. NewCalls' /\ EntriesNamed'
    BY <1>0, <1>1, <1>2 DEF NewCalls, Timeouts, EntriesNamed, Spent
  <1>6. Unclashed'
    BY <1>0, <1>1, <1>2 DEF Unclashed, OwnEntries, EntryOwnsSlot, OwnReactions,
       OverIsOver, Spent, Timeouts
  <1> QED
    BY <1>2, <1>3, <1>4, <1>5, <1>6 DEF TimerInv

LEMMA ReturnKeeps == ASSUME TimerInv, Return \/ Flush PROVE TimerInv'
  <1>1. /\ jsRunning' = NoCall \/ jsRunning' = jsRunning
        /\ UNCHANGED <<handles, handle_count, uv, entries, interval, palHandle, jobs, ran, cleared,
                       wrong, clashed, stolen>>
    BY DEF Return, Flush
  <1>2. CallIsOnce'
    BY <1>1, TimersAssumption DEF TimerInv, CallIsOnce
  <1> QED
    BY <1>1, <1>2 DEF TimerInv, TimerTypes, ArmedIsInSlot, SlotsBelowCount, NewCalls,
       EntriesNamed, Unclashed, OwnEntries, EntryOwnsSlot, OwnReactions,
       OverIsOver, Spent

LEMMA TimerCbKeeps ==
    ASSUME TimerInv, NEW c \in Calls, TimerCb(c) PROVE TimerInv'
  <1>0. /\ TimerTypes /\ ArmedIsInSlot /\ SlotsBelowCount /\ CallIsOnce /\ NewCalls
        /\ EntriesNamed /\ Unclashed
    BY DEF TimerInv
  <1>1. /\ uv[c] = "armed" /\ uv' = [uv EXCEPT ![c] = "closed"] /\ jobs' = Append(jobs, c)
        /\ handles' = [handles EXCEPT ![palHandle[c]] = NoCall]
        /\ jsRunning = NoCall /\ NoCall \notin Intervals
        /\ UNCHANGED <<handle_count, entries, interval, palHandle, jsRunning, ran, cleared,
                       wrong, clashed, stolen>>
    BY TimersAssumption DEF TimerCb
  <1>2. PICK h \in Handles : handles[h] = c /\ palHandle[c] = h
    <2>1. PICK h \in 0 .. handle_count - 1 : handles[h] = c
      BY <1>0, <1>1 DEF ArmedIsInSlot
    <2>2. handle_count \in Nat /\ handle_count <= MaxHandles
      BY <1>0, TimersAssumption DEF TimerTypes
    <2>3. h \in Handles
      BY <2>1, <2>2, SlotsBelow
    <2> QED
      BY <1>0, <2>1, <2>3, TimersAssumption DEF ArmedIsInSlot
  <1>3. handles[h] # NoCall
    BY <1>2, TimersAssumption
  <1>4. /\ handles' \in [Handles -> Calls \cup {NoCall}]
        /\ uv' \in [Calls -> {"none", "armed", "closed"}] /\ uv'[c] = "closed"
        /\ \A d \in Calls \ {c} : uv'[d] = uv[d]
        /\ ArmedIsInSlot' /\ SlotsBelowCount'
    <2>1. /\ handles' = [handles EXCEPT ![h] = NoCall]
          /\ uv' = [uv EXCEPT ![handles[h]] = "closed"]
          /\ UNCHANGED <<handle_count, palHandle>>
      BY <1>1, <1>2
    <2> QED
      BY <1>0, <1>2, <1>3, <2>1, EmptyKeepsSlots
  <1>5. /\ jobs' \in Seq(Calls)
        /\ \A i \in DOMAIN jobs' : \/ i \in DOMAIN jobs /\ jobs'[i] = jobs[i] /\ jobs[i] \in Calls \ {c}
                                   \/ i = Len(jobs) + 1 /\ jobs'[i] = c
    <2>1. jobs \in Seq(Calls) /\ \A i \in DOMAIN jobs : jobs[i] # c
      BY <1>0, <1>1 DEF TimerTypes, CallIsOnce
    <2> QED
      BY <1>1, <2>1
  <1>6. TimerTypes'
    BY <1>0, <1>1, <1>4, <1>5 DEF TimerTypes
  <1>7. CallIsOnce'
    <2>1. \A i \in DOMAIN jobs' : uv'[jobs'[i]] = "closed" /\ palHandle'[jobs'[i]] \in Handles
      BY <1>0, <1>1, <1>2, <1>4, <1>5 DEF CallIsOnce
    <2>2. \A i, j \in DOMAIN jobs' : jobs'[i] = jobs'[j] => i = j
      BY <1>0, <1>5 DEF CallIsOnce
    <2> QED
      BY <1>1, <2>1, <2>2 DEF CallIsOnce
  <1>8. NewCalls' /\ EntriesNamed'
    BY <1>0, <1>1, <1>4 DEF NewCalls, Timeouts, EntriesNamed, Spent
  <1>9. Unclashed'
    <2>1. /\ OwnEntries /\ EntryOwnsSlot /\ OwnReactions /\ OverIsOver /\ wrong \subseteq clashed
          /\ Spent' = Spent
      BY <1>0, <1>1 DEF Unclashed, Spent
    <2>2. c \in Timeouts => \/ entries[h] \in {c, NoCall}
                            \/ c \in clashed /\ entries[h] \in clashed
      <3> SUFFICES ASSUME c \in Timeouts, entries[h] \notin {c, NoCall}
                   PROVE  c \in clashed /\ entries[h] \in clashed
        OBVIOUS
      <3>1. entries[h] \in Calls
        BY <1>0 DEF TimerTypes, Timeouts
      <3>2. entries[h] \in clashed
        BY <1>2, <1>3, <2>1, <3>1 DEF EntryOwnsSlot
      <3>3. c \notin clashed => entries[h] = c
        BY <1>1, <1>2, <2>1, TimersAssumption DEF OverIsOver, OwnEntries, Handles
      <3> QED
        BY <3>2, <3>3
    <2>3. OwnReactions'
      BY <1>1, <1>2, <1>5, <2>1, <2>2 DEF OwnReactions
    <2>4. OwnEntries' /\ OverIsOver'
      BY <1>1, <1>4, <2>1 DEF OwnEntries, OverIsOver, Timeouts
    <2>5. EntryOwnsSlot'
      BY <1>0, <1>1, <1>2, <2>1 DEF EntryOwnsSlot, TimerTypes
    <2> QED
      BY <1>1, <2>1, <2>3, <2>4, <2>5 DEF Unclashed
  <1> QED
    BY <1>4, <1>6, <1>7, <1>8, <1>9 DEF TimerInv

LEMMA ReactionKeeps == ASSUME TimerInv, Reaction PROVE TimerInv'
  <1>0. /\ TimerTypes /\ ArmedIsInSlot /\ SlotsBelowCount /\ CallIsOnce /\ NewCalls
        /\ EntriesNamed /\ Unclashed /\ NoCall \notin Calls /\ Intervals \subseteq Calls
    BY TimersAssumption DEF TimerInv
  <1>1. /\ jobs # << >> /\ jobs' = Tail(jobs)
        /\ UNCHANGED <<handles, handle_count, uv, interval, palHandle, cleared, clashed, stolen>>
    BY DEF Reaction
  <1>2. PICK c : c = Head(jobs)
    OBVIOUS
  <1>3. /\ c \in Calls /\ 1 \in DOMAIN jobs /\ c = jobs[1] /\ jobs' \in Seq(Calls)
        /\ \A i \in DOMAIN jobs' : i + 1 \in DOMAIN jobs /\ jobs'[i] = jobs[i + 1] /\ i \in Nat \ {0}
    BY <1>0, <1>1, <1>2 DEF TimerTypes
  <1>4. /\ uv[c] = "closed" /\ palHandle[c] \in Handles
        /\ \A i \in DOMAIN jobs' : uv[jobs'[i]] = "closed" /\ palHandle[jobs'[i]] \in Handles
        /\ \A i \in DOMAIN jobs' : jobs'[i] # c
    BY <1>0, <1>3 DEF CallIsOnce
  <1>5. \A i, j \in DOMAIN jobs' : jobs'[i] = jobs'[j] => i = j
    <2> TAKE i, j \in DOMAIN jobs'
    <2>1. jobs[i + 1] = jobs[j + 1] => i + 1 = j + 1
      BY <1>0, <1>3 DEF CallIsOnce
    <2> QED
      BY <1>3, <2>1
  <1>6. CASE c \in Intervals
    <2>1. /\ jsRunning' \in {c, NoCall} /\ ran' \in {ran, ran \cup {c}} /\ c \notin Timeouts
          /\ UNCHANGED <<entries, wrong>>
      BY <1>1, <1>2, <1>6 DEF Reaction, Timeouts
    <2>2. TimerTypes'
      BY <1>0, <1>1, <1>3, <2>1 DEF TimerTypes
    <2>3. CallIsOnce'
      BY <1>0, <1>1, <1>4, <1>5, <2>1 DEF CallIsOnce
    <2>4. ArmedIsInSlot' /\ SlotsBelowCount' /\ NewCalls' /\ EntriesNamed'
      BY <1>0, <1>1, <2>1 DEF ArmedIsInSlot, SlotsBelowCount, NewCalls, EntriesNamed, Spent
    <2>5. Unclashed'
      BY <1>0, <1>1, <1>3, <2>1 DEF Unclashed, OwnEntries, EntryOwnsSlot, OwnReactions,
       OverIsOver, Spent
    <2> QED
      BY <2>2, <2>3, <2>4, <2>5 DEF TimerInv
  <1>7. CASE c \notin Intervals
    <2>1. PICK h \in Handles : h = palHandle[c]
      BY <1>4
    <2>2. /\ jsRunning' = entries[h] /\ ran' = (ran \cup {entries[h]}) \ {NoCall}
          /\ wrong' = IF entries[h] \in {c, NoCall} THEN wrong ELSE wrong \cup {c}
          /\ entries' = [entries EXCEPT ![h] = NoCall]
          /\ c \in Timeouts
      BY <1>1, <1>2, <1>3, <1>7, <2>1 DEF Reaction, Timeouts
    <2>3. /\ entries[h] \in Timeouts \cup {NoCall} /\ jsRunning' \notin Intervals
          /\ jsRunning' \in Calls \cup {NoCall} /\ ran' \subseteq Calls
          /\ entries' \in [Handles -> Timeouts \cup {NoCall}] /\ entries'[h] = NoCall
          /\ \A k \in Handles \ {h} : entries'[k] = entries[k]
      BY <1>0, <2>2 DEF TimerTypes, Timeouts
    <2>4. TimerTypes'
      BY <1>0, <1>1, <1>3, <2>2, <2>3 DEF TimerTypes
    <2>5. CallIsOnce'
      BY <1>1, <1>4, <1>5, <2>3 DEF CallIsOnce
    <2>6. ArmedIsInSlot' /\ SlotsBelowCount' /\ EntriesNamed'
      BY <1>0, <1>1, <2>3 DEF ArmedIsInSlot, SlotsBelowCount, EntriesNamed
    <2>7. NewCalls'
      <3> SUFFICES ASSUME NEW d \in Timeouts, uv[d] = "none"
                   PROVE  palHandle[d] = MaxHandles /\ d \notin ran' \cup cleared \cup stolen
        BY <1>1 DEF NewCalls, Spent
      <3>1. palHandle[d] = MaxHandles /\ d \notin ran \cup cleared \cup stolen
        BY <1>0 DEF NewCalls, Spent
      <3>2. MaxHandles \notin Handles
        BY TimersAssumption DEF Handles
      <3>3. entries[h] # NoCall => palHandle[entries[h]] = h
        BY <1>0 DEF EntriesNamed
      <3>4. d # entries[h]
        BY <1>0, <3>1, <3>2, <3>3 DEF Timeouts
      <3> QED
        BY <2>2, <3>1, <3>4
    <2>8. Unclashed'
      <3>1. OwnEntries /\ EntryOwnsSlot /\ OwnReactions /\ OverIsOver /\ wrong \subseteq clashed
        BY <1>0 DEF Unclashed
      <3>2. \/ entries[h] \in {c, NoCall}
            \/ c \in clashed /\ entries[h] \in clashed
        BY <1>3, <2>1, <2>2, <3>1 DEF OwnReactions
      <3>3. \A d \in Timeouts \ clashed : d # c => (d \in ran' <=> d \in ran)
        BY <2>2, <3>2, TimersAssumption DEF Timeouts
      <3>4. \A d \in Timeouts : /\ d \in Calls /\ d # NoCall
                                /\ palHandle[d] # MaxHandles => palHandle[d] \in Handles
        BY <1>0, TimersAssumption DEF TimerTypes, Timeouts, Handles
      <3>5. c \in Timeouts \ clashed =>
              /\ c \in Spent <=> entries[h] = NoCall
              /\ c \in Spent' /\ (c \in ran' <=> c \in ran \/ entries[h] = c)
        BY <1>1, <2>1, <2>2, <3>1, <3>2, <3>4, TimersAssumption DEF OwnEntries, Spent, Handles
      <3>6. OwnEntries'
        <4> SUFFICES ASSUME NEW d \in Timeouts \ clashed, palHandle[d] # MaxHandles
                     PROVE  /\ d \notin Spent' => entries'[palHandle[d]] = d
                            /\ d \in Spent' => entries'[palHandle[d]] # d
          BY <1>1 DEF OwnEntries
        <4>1. /\ d \notin Spent => entries[palHandle[d]] = d
              /\ d \in Spent => entries[palHandle[d]] # d
          BY <3>1 DEF OwnEntries
        <4>2. CASE d = c
          BY <2>1, <2>3, <3>4, <3>5, <4>2
        <4>3. CASE d # c
          <5>1. d \in Spent' <=> d \in Spent
            BY <1>1, <3>3, <4>3 DEF Spent
          <5>2. CASE palHandle[d] = h
            <6>1. entries[h] # d
              BY <3>2, <4>3, <3>4
            <6> QED
              BY <2>3, <3>4, <4>1, <5>1, <5>2, <6>1
          <5>3. CASE palHandle[d] # h
            BY <2>3, <3>4, <4>1, <5>1, <5>3
          <5> QED
            BY <5>2, <5>3
        <4> QED
          BY <4>2, <4>3
      <3>7. EntryOwnsSlot'
        BY <1>0, <1>1, <2>3, <3>1, TimersAssumption DEF EntryOwnsSlot
      <3>8. OwnReactions'
        BY <1>1, <1>3, <1>4, <2>3, <3>1 DEF OwnReactions
      <3>9. OverIsOver'
        <4> SUFFICES ASSUME NEW d \in Timeouts \ clashed
                     PROVE  /\ d \in Spent' => uv[d] # "armed"
                            /\ d \in cleared \cup stolen => d \notin ran'
          BY <1>1 DEF OverIsOver
        <4>1. /\ d \in Spent => uv[d] # "armed"
              /\ d \in cleared \cup stolen => d \notin ran
          BY <3>1 DEF OverIsOver
        <4>2. CASE d = c
          <5>1. d \in cleared \cup stolen => entries[h] = NoCall
            BY <3>5, <4>2 DEF Spent
          <5> QED
            BY <1>4, <3>4, <3>5, <4>1, <4>2, <5>1
        <4>3. CASE d # c
          BY <1>1, <3>3, <4>1, <4>3 DEF Spent
        <4> QED
          BY <4>2, <4>3
      <3> QED
        BY <1>1, <2>2, <3>1, <3>2, <3>6, <3>7, <3>8, <3>9 DEF Unclashed
    <2> QED
      BY <2>4, <2>5, <2>6, <2>7, <2>8 DEF TimerInv
  <1> QED
    BY <1>6, <1>7

LEMMA CleanupKeeps == ASSUME TimerInv, CleanupResources PROVE TimerInv'
  <1>0. /\ TimerTypes /\ ArmedIsInSlot /\ SlotsBelowCount /\ NewCalls
        /\ EntriesNamed /\ Unclashed
    BY DEF TimerInv
  <1>1. /\ uv' = [c \in Calls |-> IF \E h \in 0 .. handle_count - 1 : handles[h] = c
                                  THEN "closed" ELSE uv[c]]
        /\ handles' = [h \in Handles |-> IF h < handle_count THEN NoCall ELSE handles[h]]
        /\ handle_count' = 0 /\ jobs' = << >> /\ jsRunning = NoCall
        /\ UNCHANGED <<entries, interval, palHandle, jsRunning, ran, cleared, wrong, clashed, stolen>>
    BY DEF CleanupResources
  <1>2. /\ uv' \in [Calls -> {"none", "armed", "closed"}]
        /\ \A c \in Calls : uv'[c] # "armed" /\ (uv'[c] = "none" => uv[c] = "none")
    BY <1>0, <1>1 DEF TimerTypes, ArmedIsInSlot
  <1>3. handles' \in [Handles -> Calls \cup {NoCall}] /\ \A h \in Handles : handles'[h] = NoCall
    BY <1>0, <1>1 DEF TimerTypes, SlotsBelowCount
  <1>4. TimerTypes'
    <2>1. jobs' \in Seq(Calls) /\ handle_count' \in 0 .. MaxHandles
      BY <1>1, TimersAssumption
    <2> QED
      BY <1>0, <1>1, <1>2, <1>3, <2>1 DEF TimerTypes
  <1>5. ArmedIsInSlot' /\ SlotsBelowCount'
    BY <1>1, <1>2, <1>3 DEF ArmedIsInSlot, SlotsBelowCount
  <1>6. CallIsOnce'
    BY <1>1, TimersAssumption DEF CallIsOnce
  <1>7. NewCalls' /\ EntriesNamed'
    BY <1>0, <1>1, <1>2 DEF NewCalls, EntriesNamed, Timeouts, Spent
  <1>8. Unclashed'
    BY <1>0, <1>1, <1>2, <1>3 DEF Unclashed, OwnEntries, EntryOwnsSlot, OwnReactions,
       OverIsOver, Spent, Timeouts
  <1> QED
    BY <1>4, <1>5, <1>6, <1>7, <1>8 DEF TimerInv

LEMMA TimerInvKeeps == ASSUME TimerInv, [TimersNext]_timerVars PROVE TimerInv'
  <1>1. CASE UNCHANGED timerVars
    BY <1>1 DEF timerVars, TimerInv, TimerTypes, ArmedIsInSlot, SlotsBelowCount, CallIsOnce,
       NewCalls, EntriesNamed, Unclashed, OwnEntries, EntryOwnsSlot, OwnReactions,
       OverIsOver, Spent
  <1> QED
    BY <1>1, SetTimeoutKeeps, SetIntervalKeeps, SetThrowsKeeps, ClearTimeoutKeeps,
       ClearIntervalKeeps, TimerCbKeeps, ReturnKeeps, IntervalReturnKeeps, ReactionKeeps,
       CleanupKeeps DEF TimersNext

(* Of bridge.c and timers.js: with any number of calls and slots, however timers  *)
(* fire, are cleared with old and new handles, and scripts end, a timer that libuv  *)
(* may fire is in its own slot; a reaction runs its own callback unless two calls   *)
(* went by its slot; and of the calls that never did, none runs or has a timer      *)
(* after it was cleared or lost its entry.                                          *)
THEOREM TimersStayOwn == TimersSpec => []TimersAreOwn
  <1>1. TimerInv => TimersAreOwn
    BY DEF TimerInv, TimerTypes, CallIsOnce, Unclashed, OverIsOver, TimersAreOwn, TimersTypeOK,
       ReactionIsOwn, Spent
  <1> QED
    BY <1>1, TimerInitHolds, TimerInvKeeps, PTL DEF TimersSpec

-----------------------------------------------------------------------------
(* File operations *)

FsSpec == FsInit /\ [][FsNext]_fsVars

ByteSet == [by : FileOps \cup {NoOp}, n : Nat]

OpStates ==
    [at : {"new", "thrown", "open", "read", "probe", "write", "close", "done"},
     inode : Inodes \cup {0}, pos : Nat, cap : Nat, buf : Seq(ByteSet),
     owner : BOOLEAN, cb : BOOLEAN, err : BOOLEAN]

FsTypes ==
    /\ fop \in [FileOps -> OpStates] /\ told \in [FileOps -> Seq({"ok", "error"})]
    /\ backing \in [BinaryReads -> {"none", "live", "given", "freed", "twice"}]
    /\ link \in Inodes \cup {0} /\ content \in [Inodes -> Seq(ByteSet)]
    /\ disturbed \subseteq FileOps

(* Every inode but the first was made by a write, which keeps it. *)
Rooted(i) == i \in {0, 1} \/ \E w \in Writes : fop[w].inode = i

InodesAreRooted == Rooted(link) /\ \A o \in FileOps : Rooted(fop[o].inode)

(* Where an operation of each kind can be. *)
Placed(o) ==
    /\ fop[o].at \in {"read", "probe"} => o \in Reads
    /\ fop[o].at = "write" => o \in Writes
    /\ fop[o].at = "close" => o \in Reads \cup Writes
    /\ fop[o].at \in {"read", "probe", "write", "close"} => fop[o].inode # 0
    /\ fop[o].at \in {"new", "thrown", "open"} => fop[o].inode = 0 /\ fop[o].pos = 0

(* An operation that is being closed has told, or its callback will. *)
Answers(o) ==
    /\ fop[o].at = "done" => Len(told[o]) = 1
    /\ fop[o].at = "close" => (told[o] = << >> <=> fop[o].cb) /\ Len(told[o]) <= 1
    /\ fop[o].at \notin {"close", "done"} => told[o] = << >> /\ fop[o].cb

(* The store of an ArrayBuffer is live as long as the operation owns it. *)
Backed(o) ==
    /\ fop[o].owner => o \in BinaryReads /\ fop[o].at \notin {"new", "thrown", "open"}
    /\ fop[o].at = "probe" => fop[o].owner
    /\ fop[o].at = "close" /\ fop[o].owner => fop[o].cb /\ ~fop[o].err
    /\ fop[o].err => fop[o].at \in {"close", "done"}
    /\ o \in BinaryReads =>
          /\ ~fop[o].owner => backing[o] \in {"none", "freed"}
          /\ fop[o].owner /\ fop[o].at # "done" => backing[o] = "live"
          /\ fop[o].owner /\ fop[o].at = "done" => backing[o] = "given" /\ told[o] = <<"ok">>
          /\ fop[o].at \in {"new", "thrown", "open"} => backing[o] = "none"

(* A read has in its buffer what the file holds up to its place. *)
ReadSoFar(o) ==
    o \in Reads =>
        /\ Len(fop[o].buf) <= fop[o].cap
        /\ fop[o].at \in {"new", "thrown", "open"} => fop[o].buf = << >>
        /\ fop[o].at \in {"read", "probe"} => fop[o].pos = Len(fop[o].buf)
        /\ fop[o].at = "probe" => Len(fop[o].buf) = fop[o].cap
        /\ o \notin disturbed /\ (fop[o].at \in {"read", "probe"} \/ (fop[o].at = "close" /\ fop[o].cb))
            => /\ Len(fop[o].buf) <= Size(o)
               /\ \A k \in 1 .. Len(fop[o].buf) : fop[o].buf[k] = File(o)[k]
               /\ fop[o].owner => fop[o].cap = Size(o)
               /\ fop[o].at = "close" => Len(fop[o].buf) = Size(o)

(* A write has the rest of its bytes in its buffer, the others in the file. *)
WrittenSoFar(o) ==
    o \in Writes =>
        /\ fop[o].at = "open" => fop[o].buf = Bytes(o)
        /\ fop[o].at = "write" =>
              /\ fop[o].pos + Len(fop[o].buf) = DataLen
              /\ \A k \in 1 .. Len(fop[o].buf) : fop[o].buf[k] = Byte(o, fop[o].pos + k)
        /\ o \notin disturbed /\ (fop[o].at = "write" \/ (fop[o].at = "close" /\ fop[o].cb))
            => /\ Size(o) = fop[o].pos
               /\ \A k \in 1 .. Size(o) : File(o)[k] = Byte(o, k)
               /\ fop[o].at = "close" => fop[o].pos = DataLen

OpOk(o) == Placed(o) /\ Answers(o) /\ Backed(o) /\ ReadSoFar(o) /\ WrittenSoFar(o)

FsInv == FsTypes /\ InodesAreRooted /\ \A o \in FileOps : OpOk(o)

LEMMA InodeFacts == 1 \in Inodes /\ 0 \notin Inodes /\ Inodes \subseteq Nat
  <1>1. Cardinality(Writes) \in Nat
    BY FsAssumption, FS_CardinalityType
  <1> QED
    BY <1>1 DEF Inodes

LEMMA BytesAreBytes == ASSUME NEW o \in FileOps \cup {NoOp} PROVE Bytes(o) \in Seq(ByteSet)
  BY FsAssumption DEF Bytes, Byte, ByteSet

LEMMA FsInitHolds == ASSUME FsInit PROVE FsInv
  <1>1. FsTypes
    <2>0. [at |-> "new", inode |-> 0, pos |-> 0, cap |-> 0, buf |-> << >>,
           owner |-> FALSE, cb |-> TRUE, err |-> FALSE] \in OpStates
      <3>1. << >> \in Seq(ByteSet)
        OBVIOUS
      <3> QED
        BY <3>1 DEF OpStates
    <2>1. fop \in [FileOps -> OpStates] /\ told \in [FileOps -> Seq({"ok", "error"})]
      <3>1. << >> \in Seq({"ok", "error"})
        OBVIOUS
      <3> QED
        BY <2>0, <3>1 DEF FsInit
    <2>2. content \in [Inodes -> Seq(ByteSet)]
      BY BytesAreBytes DEF FsInit
    <2> QED
      BY <2>1, <2>2, InodeFacts DEF FsInit, FsTypes
  <1>2. InodesAreRooted
    BY DEF FsInit, InodesAreRooted, Rooted
  <1>3. ASSUME NEW o \in FileOps PROVE OpOk(o)
    <2>1. /\ fop[o] = [at |-> "new", inode |-> 0, pos |-> 0, cap |-> 0, buf |-> << >>,
                       owner |-> FALSE, cb |-> TRUE, err |-> FALSE]
          /\ told[o] = << >>
          /\ o \in BinaryReads => backing[o] = "none"
      BY DEF FsInit
    <2> QED
      BY <2>1 DEF OpOk, Placed, Answers, Backed, ReadSoFar, WrittenSoFar
  <1> QED
    BY <1>1, <1>2, <1>3 DEF FsInv

-----------------------------------------------------------------------------
(* A step of one operation *)

(* What others know of the file stays, or they are disturbed. *)
LEMMA OthersKeep ==
    ASSUME FsInv, NEW p \in FileOps, fop'[p] = fop[p], told'[p] = told[p],
           p \in BinaryReads => backing'[p] = backing[p], disturbed \subseteq disturbed',
           content' = content \/ (Busy(p) => p \in disturbed')
    PROVE  OpOk(p)'
  <1>0. OpOk(p)
    BY DEF FsInv
  <1>1. Placed(p)' /\ Answers(p)' /\ Backed(p)'
    BY <1>0 DEF OpOk, Placed, Answers, Backed
  <1>2. CASE content' = content
    <2>1. File(p)' = File(p) /\ Size(p)' = Size(p)
      BY <1>2 DEF File, Size
    <2>2. ReadSoFar(p)'
      BY <1>0, <2>1 DEF OpOk, ReadSoFar
    <2>3. WrittenSoFar(p)'
      BY <1>0, <2>1 DEF OpOk, WrittenSoFar
    <2> QED
      BY <1>1, <2>2, <2>3 DEF OpOk
  <1>3. CASE Busy(p) => p \in disturbed'
    <2>1. ReadSoFar(p)'
      BY <1>0, <1>3 DEF OpOk, ReadSoFar, Busy
    <2>2. WrittenSoFar(p)'
      BY <1>0, <1>3 DEF OpOk, WrittenSoFar, Busy
    <2> QED
      BY <1>1, <2>1, <2>2 DEF OpOk
  <1> QED
    BY <1>2, <1>3

LEMMA StepKeeps ==
    ASSUME FsInv, NEW o \in FileOps, NEW f \in OpStates, Set(o, f),
           told' \in [FileOps -> Seq({"ok", "error"})],
           backing' \in [BinaryReads -> {"none", "live", "given", "freed", "twice"}],
           link' \in Inodes \cup {0}, content' \in [Inodes -> Seq(ByteSet)],
           disturbed' \subseteq FileOps, disturbed \subseteq disturbed',
           \A p \in FileOps \ {o} : told'[p] = told[p],
           \A p \in BinaryReads \ {o} : backing'[p] = backing[p],
           content' = content \/ \A p \in FileOps \ {o} : Busy(p) => p \in disturbed',
           InodesAreRooted', OpOk(o)'
    PROVE  FsInv'
  <1>1. /\ fop' \in [FileOps -> OpStates] /\ fop'[o] = f
        /\ \A p \in FileOps \ {o} : fop'[p] = fop[p]
    BY DEF FsInv, FsTypes, Set
  <1>2. FsTypes'
    BY <1>1 DEF FsTypes
  <1>3. ASSUME NEW p \in FileOps \ {o} PROVE OpOk(p)'
    BY <1>1, <1>3, OthersKeep
  <1> QED
    BY <1>2, <1>3 DEF FsInv

(* An operation that finds its inode, keeps it or has none leaves them rooted. *)
LEMMA RootsKeep ==
    ASSUME FsInv, NEW o \in FileOps, NEW f \in OpStates, Set(o, f),
           f.inode \in {fop[o].inode, link}, link' \in {link, 0},
           o \in Writes => f.inode = fop[o].inode
    PROVE  InodesAreRooted'
  <1>1. /\ fop' \in [FileOps -> OpStates] /\ fop'[o] = f
        /\ \A p \in FileOps \ {o} : fop'[p] = fop[p]
    BY DEF FsInv, FsTypes, Set
  <1>2. \A w \in Writes : w \in FileOps /\ fop'[w].inode = fop[w].inode
    BY <1>1 DEF FileOps
  <1>3. \A i : Rooted(i) => Rooted(i)'
    BY <1>2 DEF Rooted
  <1>4. Rooted(link) /\ Rooted(fop[o].inode) /\ Rooted(0)
    BY DEF FsInv, InodesAreRooted, Rooted
  <1> QED
    BY <1>1, <1>3, <1>4 DEF FsInv, InodesAreRooted

-----------------------------------------------------------------------------
(* Answers at once *)

(* What is known of an operation and of what it may become. *)
LEMMA OpFacts ==
    ASSUME FsInv, NEW o \in FileOps
    PROVE  /\ fop[o] \in OpStates /\ OpOk(o)
           /\ told \in [FileOps -> Seq({"ok", "error"})] /\ told[o] \in Seq({"ok", "error"})
           /\ backing \in [BinaryReads -> {"none", "live", "given", "freed", "twice"}]
           /\ link \in Inodes \cup {0} /\ content \in [Inodes -> Seq(ByteSet)]
           /\ disturbed \subseteq FileOps
  BY DEF FsInv, FsTypes

LEMMA TellOnce ==
    ASSUME FsInv, NEW o \in FileOps, told[o] = << >>, NEW status \in {"ok", "error"},
           Tell(o, status)
    PROVE  /\ told' \in [FileOps -> Seq({"ok", "error"})]
           /\ told'[o] = <<status>> /\ Len(told'[o]) = 1 /\ told'[o] # << >>
           /\ \A p \in FileOps \ {o} : told'[p] = told[p]
  <1>1. Append(<< >>, status) = <<status>> /\ <<status>> \in Seq({"ok", "error"})
    OBVIOUS
  <1> QED
    BY <1>1 DEF Tell, FsInv, FsTypes

(* The record of an operation after the steps below. *)
LEMMA PlaceRecord ==
    ASSUME NEW r \in OpStates, NEW at \in {"thrown", "done", "close"}
    PROVE  \E f \in OpStates :
              /\ f = [r EXCEPT !.at = at] /\ f.at = at /\ f.inode = r.inode
              /\ f.pos = r.pos /\ f.cap = r.cap /\ f.buf = r.buf
              /\ f.owner = r.owner /\ f.cb = r.cb /\ f.err = r.err
  <1>1. [r EXCEPT !.at = at] \in OpStates
    BY DEF OpStates
  <1> QED
    BY <1>1 DEF OpStates

LEMMA FailRecord ==
    ASSUME NEW r \in OpStates
    PROVE  \E f \in OpStates :
              /\ f = [r EXCEPT !.at = "close", !.cb = FALSE] /\ f.at = "close" /\ ~f.cb
              /\ f.inode = r.inode /\ f.owner = r.owner /\ f.buf = r.buf /\ f.cap = r.cap
  <1>1. [r EXCEPT !.at = "close", !.cb = FALSE] \in OpStates
    BY DEF OpStates
  <1> QED
    BY <1>1 DEF OpStates

(* It never began, or the only request of it is over. *)
LEMMA EndsEarly ==
    ASSUME FsInv, NEW o \in FileOps, fop[o].at \in {"new", "open"},
           NEW at \in {"thrown", "done"}, Set(o, [fop[o] EXCEPT !.at = at]),
           at = "thrown" => told' = told,
           at = "done" => \E status \in {"ok", "error"} : Tell(o, status),
           backing' = backing, content' = content, link' \in {link, 0},
           disturbed' \subseteq FileOps, disturbed \subseteq disturbed'
    PROVE  FsInv'
  <1>0. fop[o] \in OpStates
    BY OpFacts
  <1>1. PICK f \in OpStates :
            /\ f = [fop[o] EXCEPT !.at = at] /\ f.at = at /\ f.inode = fop[o].inode
            /\ f.pos = fop[o].pos /\ f.cap = fop[o].cap /\ f.buf = fop[o].buf
            /\ f.owner = fop[o].owner /\ f.cb = fop[o].cb /\ f.err = fop[o].err
    <2>1. at \in {"thrown", "done", "close"}
      OBVIOUS
    <2> QED
      BY <1>0, <2>1, PlaceRecord, Zenon
  <1>2. told[o] = << >> /\ fop[o].inode = 0 /\ fop[o].pos = 0 /\ ~fop[o].owner /\ ~fop[o].err /\ fop[o].cb
    BY OpFacts DEF OpOk, Answers, Placed, Backed
  <1>3. /\ told' \in [FileOps -> Seq({"ok", "error"})]
        /\ at = "thrown" => told'[o] = << >>
        /\ at = "done" => Len(told'[o]) = 1
        /\ \A p \in FileOps \ {o} : told'[p] = told[p]
    BY <1>2, TellOnce, OpFacts
  <1>4. fop'[o] = f
    BY <1>1 DEF Set, FsInv, FsTypes
  <1>5. Placed(o)' /\ Answers(o)'
    BY <1>1, <1>2, <1>3, <1>4 DEF Placed, Answers
  <1>6. Backed(o)'
    BY <1>1, <1>2, <1>4, OpFacts DEF Backed, OpOk
  <1>7. ReadSoFar(o)' /\ WrittenSoFar(o)'
    BY <1>1, <1>4, OpFacts DEF ReadSoFar, WrittenSoFar, OpOk
  <1>8. InodesAreRooted'
    BY <1>1, RootsKeep
  <1> QED
    BY <1>1, <1>3, <1>5, <1>6, <1>7, <1>8, StepKeeps, OpFacts DEF OpOk, Set

(* Its request is sent off: a buffer of its own, and nothing else, is new. *)
LEMMA Begins ==
    ASSUME FsInv, NEW o \in FileOps, fop[o].at = "new",
           NEW cap \in Nat, NEW b \in Seq(ByteSet),
           Set(o, [fop[o] EXCEPT !.at = "open", !.cap = cap, !.buf = b]),
           o \in Reads => b = << >>, o \in Writes => b = Bytes(o),
           UNCHANGED <<told, backing, link, content>>,
           disturbed' \subseteq FileOps, disturbed \subseteq disturbed'
    PROVE  FsInv'
  <1>0. fop[o] \in OpStates
    BY OpFacts
  <1> DEFINE f == [fop[o] EXCEPT !.at = "open", !.cap = cap, !.buf = b]
  <1>1. /\ f \in OpStates /\ f.at = "open" /\ f.inode = fop[o].inode /\ f.pos = fop[o].pos
        /\ f.cap = cap /\ f.buf = b
        /\ f.owner = fop[o].owner /\ f.cb = fop[o].cb /\ f.err = fop[o].err
    BY <1>0 DEF OpStates
  <1>a. Set(o, f)
    OBVIOUS
  <1> HIDE DEF f
  <1>2. fop'[o] = f
    BY <1>a DEF Set, FsInv, FsTypes
  <1>3. Placed(o)' /\ Answers(o)' /\ Backed(o)'
    BY <1>1, <1>2, OpFacts DEF Placed, Answers, Backed, OpOk
  <1>4. ReadSoFar(o)' /\ WrittenSoFar(o)'
    BY <1>1, <1>2, FsAssumption DEF ReadSoFar, WrittenSoFar
  <1>5. InodesAreRooted'
    BY <1>1, <1>a, RootsKeep
  <1> QED
    BY <1>1, <1>a, <1>3, <1>4, <1>5, StepKeeps, OpFacts DEF OpOk

(* An error is told at once and the descriptor is closed. *)
LEMMA FailsAndCloses ==
    ASSUME FsInv, NEW o \in Reads \cup Writes, fop[o].at \in {"open", "read", "probe", "write"},
           NEW g \in OpStates, FailAndClose(o, g),
           g.inode # 0, ~g.owner, g.inode \in {fop[o].inode, link},
           o \in Reads => Len(g.buf) <= g.cap,
           o \in Writes => g.inode = fop[o].inode,
           backing' \in [BinaryReads -> {"none", "live", "given", "freed", "twice"}],
           \A p \in BinaryReads \ {o} : backing'[p] = backing[p],
           o \in BinaryReads => backing'[o] \in {"none", "freed"},
           UNCHANGED <<link, content, disturbed>>
    PROVE  FsInv'
  <1>0. o \in FileOps
    BY DEF FileOps
  <1>1. PICK f \in OpStates :
            /\ f = [g EXCEPT !.at = "close", !.cb = FALSE] /\ f.at = "close" /\ ~f.cb
            /\ f.inode = g.inode /\ f.owner = g.owner /\ f.buf = g.buf /\ f.cap = g.cap
    BY FailRecord
  <1>2. told[o] = << >>
    BY <1>0, OpFacts DEF OpOk, Answers
  <1>3. /\ told' \in [FileOps -> Seq({"ok", "error"})]
        /\ told'[o] # << >> /\ Len(told'[o]) = 1
        /\ \A p \in FileOps \ {o} : told'[p] = told[p]
    BY <1>0, <1>2, TellOnce DEF FailAndClose
  <1>4. Set(o, f) /\ fop'[o] = f
    BY <1>0, <1>1 DEF FailAndClose, Set, FsInv, FsTypes
  <1>5. Placed(o)' /\ Answers(o)' /\ Backed(o)'
    BY <1>1, <1>3, <1>4 DEF Placed, Answers, Backed
  <1>6. ReadSoFar(o)' /\ WrittenSoFar(o)'
    BY <1>1, <1>4 DEF ReadSoFar, WrittenSoFar
  <1>7. InodesAreRooted'
    BY <1>0, <1>1, <1>4, RootsKeep
  <1> QED
    BY <1>0, <1>3, <1>4, <1>5, <1>6, <1>7, StepKeeps, OpFacts DEF OpOk

LEMMA SameInode ==
    ASSUME NEW r \in OpStates PROVE r.cap \in Nat /\ r.buf \in Seq(ByteSet) /\ r.pos \in Nat
  BY DEF OpStates

LEMMA CallKeeps ==
    ASSUME FsInv, NEW o \in FileOps,
           FsRead(o) \/ FsReadBinary(o) \/ FsWrite(o) \/ FsRemove(o) \/ FsExists(o) \/ FsList(o)
    PROVE  FsInv'
  <1>1. /\ fop[o].at = "new" /\ fop[o] \in OpStates
        /\ fop[o].cap \in Nat /\ fop[o].buf \in Seq(ByteSet)
    BY OpFacts, SameInode DEF FsRead, FsReadBinary, FsWrite, FsRemove, FsExists, FsList, JsCalls, At
  <1>2. o \in Reads => fop[o].buf = << >>
    BY <1>1, OpFacts DEF OpOk, ReadSoFar
  <1>3. CASE Throws(o)
    BY <1>1, <1>3, EndsEarly, OpFacts DEF Throws
  <1>4. CASE StartFails(o)
    BY <1>1, <1>4, EndsEarly, OpFacts DEF StartFails
  <1>5. CASE o \in Reads /\ ReadEx(o)
    <2>1. PICK cap \in Nat : Set(o, [fop[o] EXCEPT !.at = "open", !.cap = cap])
      <3>1. 0 \in Nat /\ BufInit \in Nat
        BY FsAssumption
      <3> QED
        BY <1>5, <3>1 DEF ReadEx
    <2>2. [fop[o] EXCEPT !.at = "open", !.cap = cap]
            = [fop[o] EXCEPT !.at = "open", !.cap = cap, !.buf = fop[o].buf]
      BY <1>1 DEF OpStates
    <2>3. Set(o, [fop[o] EXCEPT !.at = "open", !.cap = cap, !.buf = fop[o].buf])
      BY <2>1, <2>2
    <2>4. disturbed' \subseteq FileOps /\ disturbed \subseteq disturbed'
      BY <1>5, OpFacts DEF ReadEx
    <2>5. o \notin Writes
      BY <1>5, FsAssumption
    <2> QED
      BY <1>1, <1>2, <1>5, <2>3, <2>4, <2>5, Begins DEF ReadEx
  <1>6. CASE o \in Writes /\ Write(o)
    <2>1. Bytes(o) \in Seq(ByteSet)
      BY BytesAreBytes
    <2>2. [fop[o] EXCEPT !.at = "open", !.buf = Bytes(o)]
            = [fop[o] EXCEPT !.at = "open", !.cap = fop[o].cap, !.buf = Bytes(o)]
      BY <1>1 DEF OpStates
    <2>3. Set(o, [fop[o] EXCEPT !.at = "open", !.cap = fop[o].cap, !.buf = Bytes(o)])
      BY <1>6, <2>2 DEF Write
    <2>4. disturbed' \subseteq FileOps /\ disturbed \subseteq disturbed'
      BY <1>6, OpFacts DEF Write
    <2>5. o \notin Reads
      BY <1>6, FsAssumption
    <2> QED
      BY <1>1, <1>6, <2>1, <2>3, <2>4, <2>5, Begins DEF Write
  <1>7. CASE o \in Removes \cup ExistsOps \cup Lists /\ Request(o)
    <2>1. [fop[o] EXCEPT !.at = "open"]
            = [fop[o] EXCEPT !.at = "open", !.cap = fop[o].cap, !.buf = fop[o].buf]
      BY <1>1 DEF OpStates
    <2>2. Set(o, [fop[o] EXCEPT !.at = "open", !.cap = fop[o].cap, !.buf = fop[o].buf])
      BY <1>7, <2>1 DEF Request
    <2>3. o \notin Reads /\ o \notin Writes
      BY <1>7, FsAssumption
    <2> QED
      BY <1>1, <1>7, <2>2, <2>3, Begins, OpFacts DEF Request
  <1> QED
    BY <1>3, <1>4, <1>5, <1>6, <1>7
       DEF FsRead, FsReadBinary, FsWrite, FsRemove, FsExists, FsList, Reads

LEMMA RequestOver ==
    ASSUME FsInv, NEW o \in FileOps, OpenFails(o) \/ ExistsCb(o) \/ ListCb(o) \/ RemoveCb(o)
    PROVE  FsInv'
  <1>1. fop[o].at = "open" /\ Set(o, [fop[o] EXCEPT !.at = "done"])
        /\ backing' = backing /\ content' = content /\ link' \in {link, 0}
    BY DEF OpenFails, ExistsCb, ListCb, RemoveCb, At
  <1>2. \E status \in {"ok", "error"} : Tell(o, status)
    BY DEF OpenFails, ExistsCb, ListCb, RemoveCb
  <1>3. disturbed' \subseteq FileOps /\ disturbed \subseteq disturbed'
    BY OpFacts DEF OpenFails, ExistsCb, ListCb, RemoveCb, Disturbs
  <1> QED
    BY <1>1, <1>2, <1>3, EndsEarly

-----------------------------------------------------------------------------
(* Errors *)

(* The store is released once, because the operation owned it. *)
LEMMA Releases ==
    ASSUME FsInv, NEW o \in Reads, fop[o].at \in {"read", "probe"}, ReleaseIfOwned(o)
    PROVE  /\ backing' \in [BinaryReads -> {"none", "live", "given", "freed", "twice"}]
           /\ \A p \in BinaryReads \ {o} : backing'[p] = backing[p]
           /\ o \in BinaryReads => backing'[o] \in {"none", "freed"}
  <1>1. o \in FileOps
    BY DEF FileOps
  <1>2. Backed(o) /\ backing \in [BinaryReads -> {"none", "live", "given", "freed", "twice"}]
    BY <1>1, OpFacts DEF OpOk
  <1>3. CASE fop[o].owner
    <2>1. o \in BinaryReads /\ backing[o] = "live" /\ backing' = [backing EXCEPT ![o] = "freed"]
      BY <1>2, <1>3 DEF Backed, ReleaseIfOwned, Release
    <2> QED
      BY <1>2, <2>1
  <1>4. CASE ~fop[o].owner
    BY <1>2, <1>4 DEF Backed, ReleaseIfOwned
  <1> QED
    BY <1>3, <1>4

LEMMA ReadErrorKeeps == ASSUME FsInv, NEW o \in Reads, ReadError(o) PROVE FsInv'
  <1>0. o \in FileOps /\ fop[o].at \in {"read", "probe"}
    BY DEF FileOps, ReadError, At
  <1>1. fop[o] \in OpStates /\ Placed(o) /\ ReadSoFar(o) /\ o \notin Writes
    BY <1>0, OpFacts, FsAssumption DEF OpOk
  <1> DEFINE g == [fop[o] EXCEPT !.err = TRUE, !.owner = FALSE]
  <1>2. g \in OpStates /\ g.inode = fop[o].inode /\ ~g.owner /\ g.buf = fop[o].buf /\ g.cap = fop[o].cap
    BY <1>1 DEF OpStates
  <1>3. FailAndClose(o, g) /\ UNCHANGED <<link, content, disturbed>> /\ ReleaseIfOwned(o)
    BY DEF ReadError
  <1> HIDE DEF g
  <1>4. g.inode # 0 /\ Len(g.buf) <= g.cap
    BY <1>0, <1>1, <1>2 DEF Placed, ReadSoFar
  <1> QED
    BY <1>0, <1>1, <1>2, <1>3, <1>4, Releases, FailsAndCloses

LEMMA RoomIsNat == ASSUME NEW a \in Nat, NEW b \in Nat, NEW c \in Nat, b <= a PROVE a - b \in Nat /\ c + (a - b) \in Nat
  OBVIOUS

LEMMA GrowFailsKeeps == ASSUME FsInv, NEW o \in Reads, GrowFails(o) PROVE FsInv'
  <1>0. o \in FileOps /\ fop[o].at = "read" /\ ~fop[o].owner
    BY DEF FileOps, GrowFails, At
  <1>1. fop[o] \in OpStates /\ Placed(o) /\ ReadSoFar(o) /\ Backed(o) /\ o \notin Writes
    BY <1>0, OpFacts, FsAssumption DEF OpOk
  <1>2. PICK n : n = fop[o].cap - Len(fop[o].buf)
    OBVIOUS
  <1>3. n \in Nat /\ fop[o].pos + n \in Nat
    <2>1. fop[o].cap \in Nat /\ Len(fop[o].buf) \in Nat /\ Len(fop[o].buf) <= fop[o].cap /\ fop[o].pos \in Nat
      BY <1>1 DEF OpStates, ReadSoFar
    <2> QED
      BY <1>2, <2>1, RoomIsNat, Zenon
  <1> DEFINE g == [fop[o] EXCEPT !.pos = @ + n]
  <1>4. g \in OpStates /\ g.inode = fop[o].inode /\ ~g.owner /\ g.buf = fop[o].buf /\ g.cap = fop[o].cap
    BY <1>0, <1>1, <1>3 DEF OpStates
  <1>5. FailAndClose(o, g) /\ UNCHANGED <<backing, link, content, disturbed>>
    BY <1>2 DEF GrowFails
  <1> HIDE DEF g
  <1>6. g.inode # 0 /\ Len(g.buf) <= g.cap
    BY <1>0, <1>1, <1>4 DEF Placed, ReadSoFar
  <1>7. o \in BinaryReads => backing[o] \in {"none", "freed"}
    BY <1>0, <1>1 DEF Backed
  <1> QED
    BY <1>0, <1>1, <1>4, <1>5, <1>6, <1>7, OpFacts, FailsAndCloses

LEMMA ReadOpenOomKeeps == ASSUME FsInv, NEW o \in BinaryReads, ReadOpenOom(o) PROVE FsInv'
  <1>0. o \in FileOps /\ o \in Reads /\ fop[o].at = "open" /\ link # 0
    BY DEF FileOps, Reads, ReadOpenOom, At
  <1>1. fop[o] \in OpStates /\ ReadSoFar(o) /\ Backed(o) /\ o \notin Writes /\ link \in Inodes \cup {0}
    BY <1>0, OpFacts, FsAssumption DEF OpOk
  <1> DEFINE g == [fop[o] EXCEPT !.inode = link]
  <1>2. g \in OpStates /\ g.inode = link /\ g.owner = fop[o].owner /\ g.buf = fop[o].buf /\ g.cap = fop[o].cap
    BY <1>1 DEF OpStates
  <1>3. FailAndClose(o, g) /\ UNCHANGED <<backing, link, content, disturbed>>
    BY DEF ReadOpenOom
  <1> HIDE DEF g
  <1>4. ~g.owner /\ Len(g.buf) <= g.cap /\ backing[o] \in {"none", "freed"}
    BY <1>0, <1>1, <1>2 DEF Backed, ReadSoFar
  <1> QED
    BY <1>0, <1>1, <1>2, <1>3, <1>4, OpFacts, FailsAndCloses

LEMMA ProbeOomKeeps == ASSUME FsInv, NEW o \in BinaryReads, ProbeOom(o) PROVE FsInv'
  <1>0. o \in FileOps /\ o \in Reads /\ fop[o].at = "probe"
    BY DEF FileOps, Reads, ProbeOom, At
  <1>1. fop[o] \in OpStates /\ Placed(o) /\ Backed(o) /\ o \notin Writes
    BY <1>0, OpFacts, FsAssumption DEF OpOk
  <1> DEFINE g == [fop[o] EXCEPT !.owner = FALSE, !.buf = << >>, !.pos = @ + 1]
  <1>2. g \in OpStates /\ g.inode = fop[o].inode /\ ~g.owner /\ g.buf = << >> /\ g.cap \in Nat
    <2>1. << >> \in Seq(ByteSet) /\ fop[o].pos + 1 \in Nat
      BY <1>1 DEF OpStates
    <2> QED
      BY <1>1, <2>1 DEF OpStates
  <1>3. FailAndClose(o, g) /\ UNCHANGED <<link, content, disturbed>> /\ ReleaseIfOwned(o)
    BY <1>0, <1>1 DEF ProbeOom, ReleaseIfOwned, Backed
  <1> HIDE DEF g
  <1>4. g.inode # 0 /\ Len(g.buf) <= g.cap
    BY <1>0, <1>1, <1>2 DEF Placed
  <1> QED
    BY <1>0, <1>1, <1>2, <1>3, <1>4, Releases, FailsAndCloses

LEMMA WriteErrorKeeps == ASSUME FsInv, NEW o \in Writes, WriteError(o) PROVE FsInv'
  <1>0. o \in FileOps /\ fop[o].at = "write"
    BY DEF FileOps, WriteError, At
  <1>1. fop[o] \in OpStates /\ Placed(o) /\ Backed(o) /\ o \notin Reads /\ o \notin BinaryReads
    BY <1>0, OpFacts, FsAssumption DEF OpOk, Reads
  <1>2. fop[o].inode # 0 /\ ~fop[o].owner
    BY <1>0, <1>1 DEF Placed, Backed
  <1> QED
    BY <1>0, <1>1, <1>2, OpFacts, FailsAndCloses DEF WriteError

-----------------------------------------------------------------------------
(* Reads *)

(* What a read may become when it goes on. *)
FsGoesOn(o, f) ==
    /\ f.at \in {"read", "probe", "close"} /\ f.inode # 0
    /\ f.inode = IF fop[o].at = "open" THEN link ELSE fop[o].inode
    /\ f.cb = fop[o].cb /\ f.err = fop[o].err
    /\ Len(f.buf) <= f.cap /\ (f.at # "close" => f.pos = Len(f.buf))
    /\ f.at = "probe" => f.owner /\ Len(f.buf) = f.cap

HasRead(f) ==
    LET c == content[f.inode] IN
    /\ Len(f.buf) <= Len(c) /\ \A k \in 1 .. Len(f.buf) : f.buf[k] = c[k]
    /\ f.owner => f.cap = Len(c)
    /\ f.at = "close" => Len(f.buf) = Len(c)

Stored(o, f, b) ==
    /\ b \in [BinaryReads -> {"none", "live", "given", "freed", "twice"}]
    /\ \A p \in BinaryReads \ {o} : b[p] = backing[p]
    /\ f.owner => o \in BinaryReads /\ b[o] = "live"
    /\ ~f.owner /\ o \in BinaryReads => b[o] \in {"none", "freed"}

(* Told, memory handed over and file stay as they are. *)
LEMMA ReadGoesOn ==
    ASSUME FsInv, NEW o \in Reads, fop[o].at \in {"open", "read", "probe"},
           NEW f \in OpStates, Set(o, f), FsGoesOn(o, f), Stored(o, f, backing'),
           o \notin disturbed => HasRead(f),
           UNCHANGED <<told, link, content, disturbed>>
    PROVE  FsInv'
  <1>0. o \in FileOps /\ o \notin Writes
    BY FsAssumption DEF FileOps
  <1>1. fop'[o] = f /\ told'[o] = told[o]
    BY <1>0 DEF Set, FsInv, FsTypes
  <1>2. told[o] = << >> /\ fop[o].cb /\ ~fop[o].err
    BY <1>0, OpFacts DEF OpOk, Answers, Backed
  <1>3. Placed(o)'
    BY <1>0, <1>1 DEF Placed, FsGoesOn
  <1>a. Answers(o)'
    <2>1. f.at # "done" /\ f.cb /\ told'[o] = << >> /\ Len(told'[o]) <= 1
      BY <1>1, <1>2 DEF FsGoesOn
    <2> QED
      BY <1>1, <2>1 DEF Answers
  <1>4. Backed(o)'
    BY <1>1, <1>2 DEF Backed, FsGoesOn, Stored
  <1>5. ReadSoFar(o)'
    BY <1>1, FsAssumption DEF ReadSoFar, File, Size, FsGoesOn, HasRead
  <1>6. WrittenSoFar(o)'
    BY <1>0 DEF WrittenSoFar
  <1>7. f.inode \in {fop[o].inode, link}
    BY DEF FsGoesOn
  <1>8. InodesAreRooted'
    BY <1>0, <1>7, RootsKeep
  <1>9. OpOk(o)'
    BY <1>3, <1>a, <1>4, <1>5, <1>6 DEF OpOk
  <1>10. /\ backing' \in [BinaryReads -> {"none", "live", "given", "freed", "twice"}]
         /\ \A p \in BinaryReads \ {o} : backing'[p] = backing[p]
    BY DEF Stored
  <1> QED
    BY <1>0, <1>8, <1>9, <1>10, StepKeeps, OpFacts

LEMMA ReadOpenKeeps ==
    ASSUME FsInv, NEW o \in Reads, NEW alloc \in BOOLEAN, ReadOpenCb(o, alloc)
    PROVE  FsInv'
  <1>0. o \in FileOps /\ fop[o].at = "open" /\ link # 0
    BY DEF FileOps, ReadOpenCb, At
  <1>1. /\ fop[o] \in OpStates /\ Placed(o) /\ Backed(o) /\ ReadSoFar(o)
        /\ link \in Inodes /\ content[link] \in Seq(ByteSet) /\ Len(content[link]) \in Nat
        /\ backing \in [BinaryReads -> {"none", "live", "given", "freed", "twice"}]
    BY <1>0, OpFacts DEF OpOk
  <1>2. PICK ow \in BOOLEAN, c \in Nat :
            /\ Set(o, [fop[o] EXCEPT !.at = "read", !.inode = link, !.owner = ow, !.cap = c])
            /\ ow => o \in BinaryReads /\ c = Len(content[link]) /\ backing' = [backing EXCEPT ![o] = "live"]
            /\ ~ow => backing' = backing
    <2> DEFINE zc == o \in BinaryReads /\ Len(content[link]) > 0 /\ alloc
               size == IF zc THEN Len(content[link]) ELSE BufInit
    <2>1. /\ Set(o, [fop[o] EXCEPT !.at = "read", !.inode = link, !.owner = zc, !.cap = size])
          /\ backing' = IF zc THEN [backing EXCEPT ![o] = "live"] ELSE backing
      BY DEF ReadOpenCb
    <2>2. zc \in BOOLEAN /\ (zc => o \in BinaryReads)
      OBVIOUS
    <2> HIDE DEF zc
    <2>3. size \in Nat /\ (zc => size = Len(content[link]))
      BY <1>1, FsAssumption
    <2> HIDE DEF size
    <2>4. /\ zc => o \in BinaryReads /\ size = Len(content[link]) /\ backing' = [backing EXCEPT ![o] = "live"]
          /\ ~zc => backing' = backing
      BY <2>1, <2>2, <2>3
    <2> QED
      BY <2>1, <2>2, <2>3, <2>4, Zenon
  <1> DEFINE f == [fop[o] EXCEPT !.at = "read", !.inode = link, !.owner = ow, !.cap = c]
  <1>3. /\ f \in OpStates /\ f.at = "read" /\ f.inode = link /\ f.owner = ow /\ f.cap = c
        /\ f.pos = fop[o].pos /\ f.buf = fop[o].buf /\ f.cb = fop[o].cb /\ f.err = fop[o].err
    <2>1. ow \in BOOLEAN /\ c \in Nat
      BY <1>2
    <2> QED
      BY <1>1, <2>1 DEF OpStates
  <1>4. Set(o, f)
    BY <1>2
  <1> HIDE DEF f
  <1>5. f.pos = 0 /\ f.buf = << >> /\ Len(f.buf) = 0
    BY <1>0, <1>1, <1>3 DEF Placed, ReadSoFar
  <1>6. Stored(o, f, backing')
    BY <1>0, <1>1, <1>2, <1>3 DEF Backed, Stored
  <1>7. c \in Nat /\ Len(f.buf) <= f.cap
    BY <1>2, <1>3, <1>5
  <1>8. FsGoesOn(o, f)
    BY <1>0, <1>3, <1>5, <1>7 DEF FsGoesOn
  <1>9. HasRead(f)
    BY <1>1, <1>2, <1>3, <1>5 DEF HasRead
  <1>10. UNCHANGED <<told, link, content, disturbed>>
    BY DEF ReadOpenCb
  <1> QED
    BY <1>0, <1>3, <1>4, <1>6, <1>8, <1>9, <1>10, ReadGoesOn

LEMMA ReadEofKeeps == ASSUME FsInv, NEW o \in Reads, ReadEof(o) PROVE FsInv'
  <1>0. o \in FileOps /\ fop[o].at \in {"read", "probe"}
    BY DEF FileOps, ReadEof, At
  <1>1. fop[o] \in OpStates /\ Placed(o) /\ Backed(o) /\ ReadSoFar(o)
    BY <1>0, OpFacts DEF OpOk
  <1>2. PICK f \in OpStates :
            /\ f = [fop[o] EXCEPT !.at = "close"] /\ f.at = "close" /\ f.inode = fop[o].inode
            /\ f.pos = fop[o].pos /\ f.cap = fop[o].cap /\ f.buf = fop[o].buf
            /\ f.owner = fop[o].owner /\ f.cb = fop[o].cb /\ f.err = fop[o].err
    BY <1>1, PlaceRecord, Zenon
  <1>3. Set(o, f) /\ UNCHANGED <<told, backing, link, content, disturbed>>
    BY <1>2 DEF ReadEof
  <1>4. f.inode # 0 /\ f.inode \in Inodes /\ content[f.inode] \in Seq(ByteSet) /\ f.buf \in Seq(ByteSet)
    BY <1>0, <1>1, <1>2, OpFacts DEF Placed, OpStates
  <1>5. FsGoesOn(o, f)
    BY <1>0, <1>1, <1>2, <1>4 DEF FsGoesOn, ReadSoFar
  <1>6. Stored(o, f, backing')
    BY <1>0, <1>1, <1>2, <1>3, OpFacts DEF Backed, Stored
  <1>7. o \notin disturbed => HasRead(f)
    <2>1. fop[o].pos >= Len(content[f.inode])
      BY <1>2 DEF ReadEof, Size, File
    <2>2. Len(f.buf) \in Nat /\ Len(content[f.inode]) \in Nat
      BY <1>4
    <2> QED
      BY <1>0, <1>1, <1>2, <2>1, <2>2 DEF ReadSoFar, Size, File, HasRead
  <1> QED
    BY <1>0, <1>2, <1>3, <1>5, <1>6, <1>7, ReadGoesOn

(* What n more bytes of the file leave in the buffer. *)
LEMMA ReadMore ==
    ASSUME NEW b \in Seq(ByteSet), NEW c \in Seq(ByteSet), NEW p \in Nat, NEW n \in Nat, p + n <= Len(c)
    PROVE  /\ b \o SubSeq(c, p + 1, p + n) \in Seq(ByteSet)
           /\ Len(b \o SubSeq(c, p + 1, p + n)) = Len(b) + n
           /\ \A k \in 1 .. Len(b) + n :
                 (b \o SubSeq(c, p + 1, p + n))[k] = IF k <= Len(b) THEN b[k] ELSE c[p + (k - Len(b))]
  <1> DEFINE d == SubSeq(c, p + 1, p + n)
  <1>1. d \in Seq(ByteSet) /\ Len(d) = n /\ \A k \in 1 .. n : d[k] = c[p + k]
    <2>1. \A k \in p + 1 .. p + n : c[k] \in ByteSet
      OBVIOUS
    <2>2. /\ d \in Seq(ByteSet) /\ Len(d) = IF p + 1 <= p + n THEN (p + n) - (p + 1) + 1 ELSE 0
          /\ \A k \in 1 .. (p + n) - (p + 1) + 1 : d[k] = c[p + 1 + k - 1]
      BY <2>1, SubSeqProperties
    <2> QED
      BY <2>2
  <1> HIDE DEF d
  <1>2. /\ b \o d \in Seq(ByteSet) /\ Len(b \o d) = Len(b) + Len(d)
        /\ \A k \in 1 .. Len(b) + Len(d) : (b \o d)[k] = IF k <= Len(b) THEN b[k] ELSE d[k - Len(b)]
    BY <1>1, ConcatProperties
  <1>3. /\ b \o d \in Seq(ByteSet) /\ Len(b \o d) = Len(b) + n
        /\ \A k \in 1 .. Len(b) + n : (b \o d)[k] = IF k <= Len(b) THEN b[k] ELSE c[p + (k - Len(b))]
    BY <1>1, <1>2
  <1> QED
    BY <1>3 DEF d

LEMMA MoreRoom ==
    ASSUME NEW c \in Nat, NEW p \in Nat, NEW n \in Nat
    PROVE  c + BufInit \in Nat /\ c + BufInit >= c /\ p + n \in Nat
  BY FsAssumption

LEMMA ReadCbKeeps == ASSUME FsInv, NEW o \in FileOps, NEW n \in 1 .. DataLen, ReadCb(o, n) PROVE FsInv'
  <1>0. fop[o].at = "read" /\ o \in Reads /\ fop[o].inode # 0 /\ n \in Nat \ {0}
    BY OpFacts, FsAssumption DEF ReadCb, At, OpOk, Placed
  <1>1. /\ fop[o] \in OpStates /\ Placed(o) /\ Backed(o) /\ ReadSoFar(o)
        /\ File(o) \in Seq(ByteSet) /\ fop[o].inode \in Inodes
        /\ fop[o].buf \in Seq(ByteSet) /\ fop[o].pos \in Nat /\ fop[o].cap \in Nat
    BY <1>0, OpFacts DEF OpOk, OpStates, File
  <1> DEFINE b == fop[o].buf \o SubSeq(File(o), fop[o].pos + 1, fop[o].pos + n)
             full == Len(b) = fop[o].cap
  <1>2. fop[o].pos + n <= Len(File(o)) /\ Len(fop[o].buf) + n <= fop[o].cap /\ fop[o].pos = Len(fop[o].buf)
    BY <1>0, <1>1 DEF ReadCb, Size, ReadSoFar
  <1>3. /\ b \in Seq(ByteSet) /\ Len(b) = Len(fop[o].buf) + n
        /\ \A k \in 1 .. Len(fop[o].buf) + n :
              b[k] = IF k <= Len(fop[o].buf) THEN fop[o].buf[k] ELSE File(o)[fop[o].pos + (k - Len(fop[o].buf))]
    <2>1. n \in Nat
      BY <1>0
    <2> QED
      BY <1>1, <1>2, <2>1, ReadMore
  <1>4. PICK at \in {"read", "probe"}, cap \in Nat, pos \in Nat :
            /\ Set(o, [fop[o] EXCEPT !.buf = b, !.pos = pos, !.at = at, !.cap = cap])
            /\ pos = fop[o].pos + n /\ cap >= fop[o].cap
            /\ at = "probe" => fop[o].owner /\ Len(b) = cap
            /\ fop[o].owner => cap = fop[o].cap
    <2> DEFINE f == [fop[o] EXCEPT !.buf = b, !.pos = @ + n]
               at == IF full /\ fop[o].owner THEN "probe" ELSE "read"
               cap == IF full /\ ~fop[o].owner THEN fop[o].cap + BufInit ELSE fop[o].cap
               pos == fop[o].pos + n
    <2>1. f.buf = b /\ f.cap = fop[o].cap /\ f.owner = fop[o].owner
      BY <1>1 DEF OpStates
    <2>2. Set(o, [f EXCEPT !.at = IF Len(f.buf) = f.cap /\ f.owner THEN "probe" ELSE "read",
                           !.cap = IF Len(f.buf) = f.cap /\ ~f.owner THEN @ + BufInit ELSE @])
      BY DEF ReadCb
    <2>3. Set(o, [f EXCEPT !.at = at, !.cap = cap])
      BY <2>1, <2>2
    <2>4. [f EXCEPT !.at = at, !.cap = cap] = [fop[o] EXCEPT !.buf = b, !.pos = pos, !.at = at, !.cap = cap]
      BY <1>1 DEF OpStates
    <2>5. /\ at \in {"read", "probe"} /\ cap \in Nat /\ pos \in Nat /\ cap >= fop[o].cap
          /\ at = "probe" => fop[o].owner /\ Len(b) = cap
          /\ fop[o].owner => cap = fop[o].cap
      <3>1. fop[o].cap + BufInit \in Nat /\ fop[o].cap + BufInit >= fop[o].cap /\ fop[o].pos + n \in Nat
        <4>1. n \in Nat
          BY <1>0
        <4> QED
          BY <1>1, <4>1, MoreRoom
      <3> HIDE DEF b
      <3>a. cap \in {fop[o].cap, fop[o].cap + BufInit}
        OBVIOUS
      <3>2. cap \in Nat /\ pos \in Nat /\ cap >= fop[o].cap
        <4> HIDE DEF cap
        <4> QED
          BY <1>1, <3>1, <3>a
      <3>3. at = "probe" => full /\ fop[o].owner
        OBVIOUS
      <3>4. fop[o].owner => cap = fop[o].cap
        OBVIOUS
      <3> QED
        BY <3>2, <3>3, <3>4
    <2>6. Set(o, [fop[o] EXCEPT !.buf = b, !.pos = pos, !.at = at, !.cap = cap]) /\ pos = fop[o].pos + n
      BY <2>3, <2>4
    <2> HIDE DEF at, cap, pos, b
    <2> QED
      BY <2>5, <2>6, Zenon
  <1> HIDE DEF b
  <1> DEFINE f == [fop[o] EXCEPT !.buf = b, !.pos = pos, !.at = at, !.cap = cap]
  <1>5. /\ f \in OpStates /\ f.at = at /\ f.inode = fop[o].inode /\ f.owner = fop[o].owner /\ f.cap = cap
        /\ f.pos = pos /\ f.buf = b /\ f.cb = fop[o].cb /\ f.err = fop[o].err
    <2>1. at \in {"read", "probe"} /\ cap \in Nat /\ pos \in Nat
      BY <1>4
    <2> QED
      BY <1>1, <1>3, <2>1 DEF OpStates
  <1>6. Set(o, f)
    BY <1>4
  <1> HIDE DEF f
  <1>7. FsGoesOn(o, f)
    <2>1. at \in {"read", "probe"} /\ cap \in Nat /\ pos \in Nat /\ n \in Nat
      BY <1>0, <1>4
    <2>2. Len(b) <= cap /\ pos = Len(b)
      <3>1. Len(b) = Len(fop[o].buf) + n /\ Len(fop[o].buf) + n <= fop[o].cap /\ fop[o].cap <= cap
        BY <1>2, <1>3, <1>4
      <3>2. Len(fop[o].buf) \in Nat
        BY <1>1
      <3>3. pos = Len(fop[o].buf) + n
        BY <1>2, <1>4
      <3> QED
        BY <1>1, <2>1, <3>1, <3>2, <3>3
    <2> QED
      BY <1>0, <1>4, <1>5, <2>1, <2>2 DEF FsGoesOn
  <1>8. Stored(o, f, backing')
    BY <1>0, <1>1, <1>5, OpFacts DEF Backed, Stored, ReadCb
  <1>9. o \notin disturbed => HasRead(f)
    <2> SUFFICES ASSUME o \notin disturbed PROVE HasRead(f)
      OBVIOUS
    <2>1. /\ \A k \in 1 .. Len(fop[o].buf) : fop[o].buf[k] = File(o)[k]
          /\ fop[o].owner => fop[o].cap = Len(File(o))
      BY <1>0, <1>1 DEF ReadSoFar, Size
    <2>2. \A k \in 1 .. Len(b) : b[k] = File(o)[k]
      <3>1. n \in Nat /\ Len(fop[o].buf) \in Nat
        BY <1>0, <1>1
      <3> SUFFICES ASSUME NEW k \in 1 .. Len(fop[o].buf) + n PROVE b[k] = File(o)[k]
        BY <1>3
      <3>2. CASE k <= Len(fop[o].buf)
        <4>1. k \in 1 .. Len(fop[o].buf)
          BY <3>1, <3>2
        <4> QED
          BY <1>3, <2>1, <3>2, <4>1
      <3>3. CASE ~(k <= Len(fop[o].buf))
        <4>1. fop[o].pos + (k - Len(fop[o].buf)) = k
          BY <1>2, <3>1
        <4> QED
          BY <1>3, <3>3, <4>1
      <3> QED
        BY <3>2, <3>3
    <2>3. Len(b) <= Len(File(o)) /\ f.at # "close" /\ (f.owner => f.cap = Len(File(o)))
      BY <1>2, <1>3, <1>4, <1>5, <2>1
    <2> QED
      BY <1>5, <2>2, <2>3 DEF HasRead, File
  <1> QED
    BY <1>0, <1>5, <1>6, <1>7, <1>8, <1>9, ReadGoesOn DEF ReadCb

(* A plain buffer takes over: the store is released. *)
LEMMA ProbeCbKeeps == ASSUME FsInv, NEW o \in BinaryReads, ProbeCb(o) PROVE FsInv'
  <1>0. fop[o].at = "probe" /\ o \in Reads /\ o \in FileOps /\ fop[o].inode # 0
    <2>1. o \in Reads /\ o \in FileOps
      BY DEF Reads, FileOps
    <2> QED
      BY <2>1, OpFacts DEF ProbeCb, At, OpOk, Placed
  <1>1. /\ fop[o] \in OpStates /\ Placed(o) /\ Backed(o) /\ ReadSoFar(o)
        /\ File(o) \in Seq(ByteSet) /\ fop[o].inode \in Inodes
        /\ fop[o].buf \in Seq(ByteSet) /\ fop[o].pos \in Nat /\ fop[o].cap \in Nat
    BY <1>0, OpFacts DEF OpOk, OpStates, File
  <1>2. fop[o].pos < Len(File(o)) /\ fop[o].pos = Len(fop[o].buf) /\ Len(fop[o].buf) = fop[o].cap
    BY <1>0, <1>1 DEF ProbeCb, Size, ReadSoFar
  <1> DEFINE b == Append(fop[o].buf, File(o)[fop[o].pos + 1])
             f == [fop[o] EXCEPT !.at = "read", !.cap = @ + BufInit, !.owner = FALSE, !.buf = b, !.pos = @ + 1]
  <1>3. /\ b \in Seq(ByteSet) /\ Len(b) = Len(fop[o].buf) + 1
        /\ \A k \in 1 .. Len(fop[o].buf) : b[k] = fop[o].buf[k]
        /\ b[Len(fop[o].buf) + 1] = File(o)[Len(fop[o].buf) + 1]
    <2>1. File(o)[fop[o].pos + 1] \in ByteSet
      BY <1>1, <1>2
    <2> QED
      BY <1>1, <1>2, <2>1, AppendProperties
  <1>4. Set(o, f)
    BY DEF ProbeCb
  <1> HIDE DEF b
  <1>5. /\ f \in OpStates /\ f.at = "read" /\ f.inode = fop[o].inode /\ ~f.owner /\ f.cap = fop[o].cap + BufInit
        /\ f.pos = fop[o].pos + 1 /\ f.buf = b /\ f.cb = fop[o].cb /\ f.err = fop[o].err
    <2>1. fop[o].cap + BufInit \in Nat /\ fop[o].pos + 1 \in Nat
      BY <1>1, FsAssumption
    <2> QED
      BY <1>1, <1>3, <2>1 DEF OpStates
  <1> HIDE DEF f
  <1>6. Len(f.buf) <= f.cap /\ f.pos = Len(f.buf)
    BY <1>1, <1>2, <1>3, <1>5, FsAssumption
  <1>7. FsGoesOn(o, f)
    BY <1>0, <1>5, <1>6 DEF FsGoesOn
  <1>8. Stored(o, f, backing')
    BY <1>0, <1>1, <1>5, OpFacts DEF Backed, Stored, ProbeCb, Release
  <1>9. o \notin disturbed => HasRead(f)
    <2> SUFFICES ASSUME o \notin disturbed PROVE HasRead(f)
      OBVIOUS
    <2>1. \A k \in 1 .. Len(fop[o].buf) : fop[o].buf[k] = File(o)[k]
      BY <1>0, <1>1 DEF ReadSoFar, Size
    <2>2. \A k \in 1 .. Len(b) : b[k] = File(o)[k]
      <3>1. PICK m \in Nat : m = Len(fop[o].buf)
        BY <1>1
      <3>2. \A k \in 1 .. m : b[k] = File(o)[k]
        BY <1>3, <2>1, <3>1
      <3>3. b[m + 1] = File(o)[m + 1] /\ Len(b) = m + 1
        BY <1>3, <3>1
      <3>4. \A k \in 1 .. m + 1 : k \in 1 .. m \/ k = m + 1
        BY <3>1
      <3> QED
        BY <3>2, <3>3, <3>4, Zenon
    <2>3. Len(b) <= Len(File(o)) /\ f.at # "close" /\ ~f.owner
      BY <1>1, <1>2, <1>3, <1>5
    <2> QED
      BY <1>5, <2>2, <2>3 DEF HasRead, File
  <1> QED
    BY <1>0, <1>4, <1>5, <1>7, <1>8, <1>9, ReadGoesOn DEF ProbeCb

LEMMA OneAnswer ==
    ASSUME NEW s \in Seq({"ok", "error"}), s # << >>, Len(s) <= 1
    PROVE  Len(s) = 1
  <1>1. Len(s) \in Nat \ {0}
    BY EmptySeq
  <1> QED
    BY <1>1

(* The descriptor is closed: who has not told tells now. *)
LEMMA Closes ==
    ASSUME FsInv, NEW o \in Reads \cup Writes, fop[o].at = "close",
           Set(o, [fop[o] EXCEPT !.at = "done"]),
           IF fop[o].cb THEN Tell(o, "ok") ELSE UNCHANGED told,
           backing' \in [BinaryReads -> {"none", "live", "given", "freed", "twice"}],
           \A p \in BinaryReads \ {o} : backing'[p] = backing[p],
           o \in BinaryReads => backing'[o] = IF fop[o].owner THEN "given" ELSE backing[o],
           UNCHANGED <<link, content, disturbed>>
    PROVE  FsInv'
  <1>0. o \in FileOps /\ fop[o] \in OpStates
    <2>1. o \in FileOps
      BY DEF FileOps
    <2> QED
      BY <2>1, OpFacts
  <1>1. PICK f \in OpStates :
            /\ f = [fop[o] EXCEPT !.at = "done"] /\ f.at = "done" /\ f.inode = fop[o].inode
            /\ f.pos = fop[o].pos /\ f.cap = fop[o].cap /\ f.buf = fop[o].buf
            /\ f.owner = fop[o].owner /\ f.cb = fop[o].cb /\ f.err = fop[o].err
    BY <1>0, PlaceRecord, Zenon
  <1>2. Set(o, f) /\ fop'[o] = f
    BY <1>0, <1>1 DEF Set, FsInv, FsTypes
  <1>3. /\ Placed(o) /\ Answers(o) /\ Backed(o) /\ ReadSoFar(o) /\ WrittenSoFar(o)
        /\ told \in [FileOps -> Seq({"ok", "error"})] /\ told[o] \in Seq({"ok", "error"})
    BY <1>0, OpFacts DEF OpOk
  <1>4. /\ told' \in [FileOps -> Seq({"ok", "error"})] /\ Len(told'[o]) = 1
        /\ fop[o].cb => told'[o] = <<"ok">>
        /\ \A p \in FileOps \ {o} : told'[p] = told[p]
    <2>1. CASE fop[o].cb
      <3>1. told[o] = << >> /\ Tell(o, "ok")
        BY <1>3, <2>1 DEF Answers
      <3> QED
        BY <1>0, <3>1, TellOnce
    <2>2. CASE ~fop[o].cb
      <3>1. told[o] # << >> /\ Len(told[o]) <= 1 /\ told' = told
        BY <1>3, <2>2 DEF Answers
      <3>3. Len(told[o]) = 1
        BY <1>3, <3>1, OneAnswer
      <3> QED
        BY <1>3, <2>2, <3>1, <3>3
    <2> QED
      BY <2>1, <2>2
  <1>5. Placed(o)' /\ Answers(o)'
    BY <1>1, <1>2, <1>3, <1>4 DEF Placed, Answers
  <1>6. Backed(o)'
    BY <1>1, <1>2, <1>3, <1>4 DEF Backed
  <1>7. ReadSoFar(o)' /\ WrittenSoFar(o)'
    BY <1>1, <1>2, <1>3 DEF ReadSoFar, WrittenSoFar
  <1>8. InodesAreRooted'
    BY <1>0, <1>1, <1>2, RootsKeep
  <1> QED
    BY <1>0, <1>2, <1>4, <1>5, <1>6, <1>7, <1>8, StepKeeps, OpFacts DEF OpOk

LEMMA ReadCloseKeeps == ASSUME FsInv, NEW o \in Reads, ReadCloseCb(o) PROVE FsInv'
  <1>1. o \in FileOps /\ fop[o].at = "close"
    BY DEF FileOps, ReadCloseCb, At
  <1>2. /\ Backed(o) /\ backing \in [BinaryReads -> {"none", "live", "given", "freed", "twice"}]
        /\ fop[o].owner => o \in BinaryReads /\ ~fop[o].err
    BY <1>1, OpFacts DEF OpOk, Backed
  <1>3. /\ backing' \in [BinaryReads -> {"none", "live", "given", "freed", "twice"}]
        /\ \A p \in BinaryReads \ {o} : backing'[p] = backing[p]
        /\ o \in BinaryReads => backing'[o] = IF fop[o].owner THEN "given" ELSE backing[o]
    BY <1>2 DEF ReadCloseCb
  <1> QED
    BY <1>1, <1>3, Closes DEF ReadCloseCb

LEMMA WriteCloseKeeps == ASSUME FsInv, NEW o \in Writes, WriteCloseCb(o) PROVE FsInv'
  <1>1. o \in FileOps /\ fop[o].at = "close" /\ o \notin BinaryReads
    BY FsAssumption DEF FileOps, Reads, WriteCloseCb, At
  <1> QED
    BY <1>1, Closes, OpFacts DEF WriteCloseCb

-----------------------------------------------------------------------------
(* Writes *)

(* What a write leaves of the file, by its definition. *)
LEMMA WrittenFacts ==
    ASSUME NEW c \in Seq(ByteSet), NEW pos \in Nat, NEW bytes \in Seq(ByteSet)
    PROVE  /\ Written(c, pos, bytes) \in Seq(ByteSet)
           /\ Len(c) = pos =>
                 /\ Len(Written(c, pos, bytes)) = pos + Len(bytes)
                 /\ \A k \in 1 .. pos + Len(bytes) :
                       Written(c, pos, bytes)[k] = IF k <= pos THEN c[k] ELSE bytes[k - pos]
  <1> DEFINE m == IF pos + Len(bytes) > Len(c) THEN pos + Len(bytes) ELSE Len(c)
             e(k) == IF k > pos /\ k <= pos + Len(bytes) THEN bytes[k - pos]
                     ELSE IF k <= Len(c) THEN c[k] ELSE Zero
  <1>1. m \in Nat /\ Zero \in ByteSet
    BY DEF Zero, Byte, ByteSet
  <1>2. \A k \in 1 .. m : e(k) \in ByteSet
    <2> SUFFICES ASSUME NEW k \in 1 .. m PROVE e(k) \in ByteSet
      OBVIOUS
    <2>1. CASE k > pos /\ k <= pos + Len(bytes)
      <3>1. k - pos \in 1 .. Len(bytes)
        BY <1>1, <2>1
      <3> QED
        BY <2>1, <3>1
    <2>2. CASE ~(k > pos /\ k <= pos + Len(bytes))
      BY <1>1, <2>2
    <2> QED
      BY <2>1, <2>2
  <1>3. Written(c, pos, bytes) = [k \in 1 .. m |-> e(k)]
    BY DEF Written
  <1>4. Written(c, pos, bytes) \in Seq(ByteSet) /\ Len(Written(c, pos, bytes)) = m
    <2> HIDE DEF m, e
    <2> QED
      BY <1>1, <1>2, <1>3
  <1>5. ASSUME Len(c) = pos
        PROVE  m = pos + Len(bytes) /\ \A k \in 1 .. m : e(k) = IF k <= pos THEN c[k] ELSE bytes[k - pos]
    BY <1>5
  <1> QED
    <2> HIDE DEF m, e
    <2> QED
      BY <1>1, <1>3, <1>4, <1>5

LEMMA WriteCbKeeps == ASSUME FsInv, NEW o \in FileOps, NEW n \in 1 .. DataLen, WriteCb(o, n) PROVE FsInv'
  <1>0. fop[o].at = "write" /\ o \in Writes /\ o \notin Reads /\ fop[o].inode # 0 /\ n \in Nat \ {0}
    BY OpFacts, FsAssumption DEF WriteCb, At, OpOk, Placed
  <1>1. /\ fop[o] \in OpStates /\ Placed(o) /\ Answers(o) /\ Backed(o) /\ WrittenSoFar(o)
        /\ File(o) \in Seq(ByteSet) /\ fop[o].inode \in Inodes
        /\ fop[o].buf \in Seq(ByteSet) /\ fop[o].pos \in Nat
    BY <1>0, OpFacts DEF OpOk, OpStates, File
  <1>2. /\ n \in Nat /\ n <= Len(fop[o].buf) /\ Len(fop[o].buf) \in Nat
        /\ fop[o].pos + Len(fop[o].buf) = DataLen
        /\ \A k \in 1 .. Len(fop[o].buf) : fop[o].buf[k] = Byte(o, fop[o].pos + k)
    BY <1>0, <1>1 DEF WriteCb, WrittenSoFar
  <1> DEFINE w == SubSeq(fop[o].buf, 1, n)
             rest == SubSeq(fop[o].buf, n + 1, Len(fop[o].buf))
             at == IF n = Len(fop[o].buf) THEN "close" ELSE "write"
             f == [fop[o] EXCEPT !.pos = @ + n, !.buf = rest, !.at = at]
  <1>3. /\ w \in Seq(ByteSet) /\ Len(w) = n
        /\ \A k \in 1 .. n : w[k] = fop[o].buf[k]
    <2>1. \A k \in 1 .. n : fop[o].buf[k] \in ByteSet
      BY <1>1, <1>2
    <2>2. /\ w \in Seq(ByteSet) /\ Len(w) = IF 1 <= n THEN n - 1 + 1 ELSE 0
          /\ \A k \in 1 .. n - 1 + 1 : w[k] = fop[o].buf[1 + k - 1]
      BY <1>2, <2>1, SubSeqProperties
    <2> HIDE DEF w
    <2>3. 1 <= n /\ n - 1 + 1 = n /\ \A k \in 1 .. n : 1 + k - 1 = k
      BY <1>0
    <2> QED
      BY <2>2, <2>3
  <1>4. /\ rest \in Seq(ByteSet) /\ Len(rest) = Len(fop[o].buf) - n
        /\ \A k \in 1 .. Len(fop[o].buf) - n : rest[k] = fop[o].buf[n + k]
    <2>1. \A k \in n + 1 .. Len(fop[o].buf) : fop[o].buf[k] \in ByteSet
      BY <1>1, <1>2
    <2>2. n + 1 \in Int /\ Len(fop[o].buf) \in Int
      BY <1>2
    <2>3. /\ rest \in Seq(ByteSet)
          /\ Len(rest) = IF n + 1 <= Len(fop[o].buf) THEN Len(fop[o].buf) - (n + 1) + 1 ELSE 0
          /\ \A k \in 1 .. Len(fop[o].buf) - (n + 1) + 1 : rest[k] = fop[o].buf[n + 1 + k - 1]
      BY <2>1, <2>2, SubSeqProperties
    <2> HIDE DEF rest
    <2>4. /\ Len(fop[o].buf) - (n + 1) + 1 = Len(fop[o].buf) - n
          /\ ~(n + 1 <= Len(fop[o].buf)) => Len(fop[o].buf) - n = 0
      BY <1>2
    <2>5. ASSUME NEW k \in 1 .. Len(fop[o].buf) - n PROVE n + 1 + k - 1 = n + k
      BY <1>2
    <2> QED
      BY <2>3, <2>4, <2>5
  <1>5. /\ Set(o, f)
        /\ content' = [content EXCEPT ![fop[o].inode] = Written(@, fop[o].pos, w)]
        /\ disturbed' = disturbed \cup {p \in FileOps \ {o} : Busy(p)}
        /\ UNCHANGED <<told, result, backing, link>>
    BY DEF WriteCb, Disturbs
  <1> HIDE DEF w, rest
  <1>6. at \in {"close", "write"} /\ fop[o].pos + n \in Nat /\ (at = "close" <=> n = Len(fop[o].buf))
    BY <1>1, <1>2
  <1> HIDE DEF at
  <1>7. /\ f \in OpStates /\ f.at = at /\ f.inode = fop[o].inode /\ f.owner = fop[o].owner
        /\ f.pos = fop[o].pos + n /\ f.buf = rest /\ f.cb = fop[o].cb /\ f.err = fop[o].err
    BY <1>1, <1>4, <1>6 DEF OpStates
  <1> HIDE DEF f
  <1>8. fop'[o] = f /\ told'[o] = told[o]
    BY <1>5 DEF Set, FsInv, FsTypes
  <1>9. /\ Written(File(o), fop[o].pos, w) \in Seq(ByteSet)
        /\ Size(o) = fop[o].pos =>
              /\ Len(Written(File(o), fop[o].pos, w)) = fop[o].pos + n
              /\ \A k \in 1 .. fop[o].pos + n :
                    Written(File(o), fop[o].pos, w)[k] = IF k <= fop[o].pos THEN File(o)[k] ELSE w[k - fop[o].pos]
    BY <1>1, <1>3, WrittenFacts DEF Size
  <1>10. content' \in [Inodes -> Seq(ByteSet)] /\ File(o)' = Written(File(o), fop[o].pos, w)
    BY <1>1, <1>5, <1>7, <1>8, <1>9, OpFacts DEF File
  <1>11. Placed(o)' /\ Answers(o)' /\ Backed(o)'
    <2>1. told[o] = << >> /\ fop[o].cb /\ ~fop[o].err /\ ~fop[o].owner /\ o \notin BinaryReads
      BY <1>0, <1>1 DEF Answers, Backed, Reads
    <2> QED
      <3>1. f.inode # 0 /\ f.cb /\ ~f.err /\ ~f.owner /\ f.at \in {"close", "write"} /\ told'[o] = << >>
            /\ Len(told'[o]) <= 1
        BY <1>0, <1>6, <1>7, <1>8, <2>1
      <3>2. Placed(o)'
        BY <1>0, <1>8, <3>1 DEF Placed
      <3>3. Answers(o)'
        BY <1>8, <3>1 DEF Answers
      <3>4. Backed(o)'
        BY <1>8, <2>1, <3>1 DEF Backed
      <3> QED
        BY <3>2, <3>3, <3>4
  <1>12. WrittenSoFar(o)'
    <2>1. at = "write" =>
             /\ f.pos + Len(f.buf) = DataLen
             /\ \A k \in 1 .. Len(f.buf) : f.buf[k] = Byte(o, f.pos + k)
      <3>1. f.pos + Len(f.buf) = DataLen
        BY <1>1, <1>2, <1>4, <1>7
      <3>2. ASSUME NEW k \in 1 .. Len(f.buf) PROVE f.buf[k] = Byte(o, f.pos + k)
        <4>1. k \in 1 .. Len(fop[o].buf) - n /\ n + k \in 1 .. Len(fop[o].buf)
          BY <1>2, <1>4, <1>7
        <4>2. fop[o].pos + (n + k) = f.pos + k
          BY <1>1, <1>2, <1>7, <4>1
        <4> QED
          BY <1>2, <1>4, <1>7, <4>1, <4>2
      <3> QED
        BY <3>1, <3>2
    <2>2. o \notin disturbed =>
             /\ Size(o)' = f.pos /\ \A k \in 1 .. f.pos : File(o)'[k] = Byte(o, k)
             /\ at = "close" => f.pos = DataLen
      <3> SUFFICES ASSUME o \notin disturbed
                   PROVE  /\ Size(o)' = f.pos /\ \A k \in 1 .. f.pos : File(o)'[k] = Byte(o, k)
                          /\ at = "close" => f.pos = DataLen
        OBVIOUS
      <3>1. Size(o) = fop[o].pos /\ \A k \in 1 .. fop[o].pos : File(o)[k] = Byte(o, k)
        BY <1>0, <1>1 DEF WrittenSoFar
      <3>2. Size(o)' = f.pos
        BY <1>7, <1>9, <1>10, <3>1 DEF Size
      <3>3. ASSUME NEW k \in 1 .. f.pos PROVE File(o)'[k] = Byte(o, k)
        <4>1. k \in 1 .. fop[o].pos + n
          BY <1>7, <3>3
        <4>2. CASE k <= fop[o].pos
          <5>1. k \in 1 .. fop[o].pos
            BY <1>1, <1>2, <4>1, <4>2
          <5> QED
            BY <1>9, <1>10, <3>1, <4>1, <4>2, <5>1
        <4>3. CASE ~(k <= fop[o].pos)
          <5> DEFINE i == k - fop[o].pos
          <5>1. i \in 1 .. n /\ fop[o].pos + i = k
            <6>1. k \in Nat /\ k <= fop[o].pos + n /\ fop[o].pos \in Nat /\ n \in Nat
              BY <1>1, <1>2, <4>1
            <6> QED
              BY <4>3, <6>1
          <5> HIDE DEF i
          <5>2. i \in 1 .. Len(fop[o].buf)
            BY <1>2, <5>1
          <5>3. Written(File(o), fop[o].pos, w)[k] = w[i]
            BY <1>9, <3>1, <4>1, <4>3 DEF i
          <5>4. w[i] = Byte(o, k)
            BY <1>2, <1>3, <5>1, <5>2
          <5> QED
            BY <1>10, <5>3, <5>4
        <4> QED
          BY <4>2, <4>3
      <3>4. at = "close" => f.pos = DataLen
        BY <1>1, <1>2, <1>6, <1>7
      <3> QED
        BY <3>2, <3>3, <3>4
    <2>3. o \notin disturbed' => o \notin disturbed
      BY <1>5
    <2> QED
      BY <1>6, <1>7, <1>8, <2>1, <2>2, <2>3 DEF WrittenSoFar
  <1>13. ReadSoFar(o)'
    BY <1>0 DEF ReadSoFar
  <1>14. InodesAreRooted'
    BY <1>5, <1>7, RootsKeep
  <1>15. /\ disturbed' \subseteq FileOps /\ disturbed \subseteq disturbed'
         /\ \A p \in FileOps \ {o} : Busy(p) => p \in disturbed'
    BY <1>5, OpFacts
  <1>16. OpOk(o)'
    BY <1>11, <1>12, <1>13 DEF OpOk
  <1> QED
    BY <1>5, <1>7, <1>10, <1>14, <1>15, <1>16, StepKeeps, OpFacts

LEMMA IntervalCount == ASSUME NEW m \in Nat PROVE Cardinality(1 .. m + 1) = m + 1
  BY FS_Interval

(* There is an inode for the file of one more write. *)
LEMMA InodeIsLeft ==
    ASSUME FsInv, NEW o \in Writes, fop[o].inode = 0, link = 0
    PROVE  Unused # {}
  <1> SUFFICES ASSUME Unused = {} PROVE FALSE
    OBVIOUS
  <1> DEFINE W == Writes \ {o}
             F == [w \in W |-> fop[w].inode]
             T == {fop[w].inode : w \in W}
             n == Cardinality(Writes)
  <1>1. n \in Nat /\ IsFiniteSet(W) /\ Cardinality(W) = n - 1
    BY FsAssumption, FS_CardinalityType, FS_RemoveElement
  <1>2. F \in Surjection(W, T)
    BY DEF Surjection
  <1>3. IsFiniteSet(T) /\ Cardinality(T) <= Cardinality(W) /\ Cardinality(T) \in Nat
    <2> HIDE DEF F, T, W
    <2> QED
      BY <1>1, <1>2, FS_Surjection, FS_CardinalityType
  <1>4. IsFiniteSet(T \cup {1}) /\ Cardinality(T \cup {1}) <= Cardinality(T) + 1 /\ Cardinality(T \cup {1}) \in Nat
    <2> HIDE DEF T
    <2>1. /\ IsFiniteSet(T \cup {1})
          /\ Cardinality(T \cup {1}) = IF 1 \in T THEN Cardinality(T) ELSE Cardinality(T) + 1
      BY <1>3, FS_AddElement
    <2>2. Cardinality(T) \in Nat
      BY <1>3
    <2> QED
      BY <2>1, <2>2
  <1>5. Inodes \subseteq T \cup {1}
    <2> SUFFICES ASSUME NEW i \in Inodes, i # 1 PROVE i \in T
      OBVIOUS
    <2>1. PICK p \in FileOps : fop[p].inode = i
      BY InodeFacts DEF Unused
    <2>2. PICK w \in Writes : fop[w].inode = i
      BY <2>1, InodeFacts DEF FsInv, InodesAreRooted, Rooted
    <2> QED
      BY <2>2, InodeFacts
  <1>6. Cardinality(Inodes) = n + 1
    <2>1. n \in Nat /\ Inodes = 1 .. n + 1
      BY <1>1 DEF Inodes
    <2> HIDE DEF n
    <2> QED
      BY <2>1, IntervalCount, Zenon
  <1>7. Cardinality(Inodes) <= Cardinality(T \cup {1})
    <2> HIDE DEF T
    <2> QED
      BY <1>4, <1>5, FS_Subset
  <1> HIDE DEF n, T, W
  <1> QED
    BY <1>1, <1>3, <1>4, <1>6, <1>7

LEMMA WriteOpenKeeps == ASSUME FsInv, NEW o \in Writes, WriteOpenCb(o) PROVE FsInv'
  <1>0. o \in FileOps /\ fop[o].at = "open" /\ o \notin Reads
    BY FsAssumption DEF FileOps, WriteOpenCb, At
  <1>1. /\ fop[o] \in OpStates /\ Placed(o) /\ Answers(o) /\ Backed(o) /\ WrittenSoFar(o)
        /\ fop[o].inode = 0 /\ fop[o].pos = 0 /\ fop[o].buf = Bytes(o)
    BY <1>0, OpFacts DEF OpOk, Placed, WrittenSoFar
  <1>2. link' \in Inodes /\ (link # 0 => link' = link)
    <2>1. CASE link # 0
      BY <1>0, <2>1, OpFacts DEF WriteOpenCb
    <2>2. CASE link = 0
      <3>1. link' = (CHOOSE i \in Unused : TRUE) /\ Unused # {}
        BY <1>1, <2>2, InodeIsLeft DEF WriteOpenCb
      <3> QED
        BY <2>2, <3>1 DEF Unused
    <2> QED
      BY <2>1, <2>2
  <1> DEFINE f == [fop[o] EXCEPT !.at = "write", !.inode = link']
  <1>3. /\ Set(o, f) /\ content' = [content EXCEPT ![link'] = << >>]
        /\ disturbed' = disturbed \cup {p \in FileOps \ {o} : Busy(p)}
        /\ UNCHANGED <<told, result, backing>>
    BY DEF WriteOpenCb, Disturbs
  <1>4. /\ f \in OpStates /\ f.at = "write" /\ f.inode = link' /\ f.owner = fop[o].owner
        /\ f.pos = fop[o].pos /\ f.buf = fop[o].buf /\ f.cb = fop[o].cb /\ f.err = fop[o].err
    BY <1>1, <1>2 DEF OpStates
  <1> HIDE DEF f
  <1>5. /\ fop' \in [FileOps -> OpStates] /\ fop'[o] = f /\ told'[o] = told[o]
        /\ \A p \in FileOps \ {o} : fop'[p] = fop[p]
    BY <1>0, <1>3, <1>4 DEF Set, FsInv, FsTypes
  <1>6. /\ content' \in [Inodes -> Seq(ByteSet)] /\ File(o)' = << >> /\ Size(o)' = 0
    <2>1. << >> \in Seq(ByteSet) /\ content \in [Inodes -> Seq(ByteSet)]
      BY <1>0, OpFacts
    <2> QED
      BY <1>2, <1>3, <1>4, <1>5, <2>1 DEF File, Size
  <1>7. f.inode # 0 /\ f.cb /\ ~f.err /\ ~f.owner /\ told'[o] = << >> /\ o \notin BinaryReads
    BY <1>0, <1>1, <1>2, <1>4, <1>5, InodeFacts DEF Answers, Backed, Reads
  <1>8. Placed(o)'
    BY <1>4, <1>5, <1>7 DEF Placed
  <1>9. Answers(o)'
    BY <1>4, <1>5, <1>7 DEF Answers
  <1>10. Backed(o)'
    BY <1>4, <1>5, <1>7 DEF Backed
  <1>11. WrittenSoFar(o)'
    <2>1. f.buf = Bytes(o) /\ f.pos = 0 /\ DataLen \in Nat
      BY <1>1, <1>4, FsAssumption
    <2>2. /\ f.pos + Len(f.buf) = DataLen
          /\ \A k \in 1 .. Len(f.buf) : f.buf[k] = Byte(o, f.pos + k)
      BY <2>1 DEF Bytes
    <2>3. /\ Size(o)' = f.pos
          /\ \A k \in 1 .. Size(o)' : File(o)'[k] = Byte(o, k)
      BY <1>6, <2>1
    <2> QED
      BY <1>4, <1>5, <2>2, <2>3 DEF WrittenSoFar
  <1>12. ReadSoFar(o)'
    BY <1>0 DEF ReadSoFar
  <1>13. InodesAreRooted'
    <2>1. \A i : Rooted(i) => Rooted(i)'
      <3> SUFFICES ASSUME NEW i, Rooted(i) PROVE Rooted(i)'
        OBVIOUS
      <3>1. CASE i \in {0, 1}
        BY <3>1 DEF Rooted
      <3>2. CASE i \notin {0, 1}
        <4>1. PICK w \in Writes : fop[w].inode = i
          BY <3>2 DEF Rooted
        <4>2. w \in FileOps \ {o}
          BY <1>1, <3>2, <4>1 DEF FileOps
        <4> QED
          BY <1>5, <4>1, <4>2 DEF Rooted
      <3> QED
        BY <3>1, <3>2
    <2>2. Rooted(link)'
      BY <1>4, <1>5 DEF Rooted
    <2>3. Rooted(fop[o].inode)'
      BY <1>5 DEF Rooted
    <2> QED
      BY <1>5, <2>1, <2>2, <2>3 DEF FsInv, InodesAreRooted
  <1>14. /\ disturbed' \subseteq FileOps /\ disturbed \subseteq disturbed'
         /\ \A p \in FileOps \ {o} : Busy(p) => p \in disturbed'
    BY <1>0, <1>3, OpFacts
  <1>15. OpOk(o)'
    BY <1>8, <1>9, <1>10, <1>11, <1>12 DEF OpOk
  <1> QED
    BY <1>0, <1>2, <1>3, <1>4, <1>6, <1>13, <1>14, <1>15, StepKeeps, OpFacts

-----------------------------------------------------------------------------
(* One step per action. *)
LEMMA FsInvKeeps == ASSUME FsInv, [FsNext]_fsVars PROVE FsInv'
  <1>1. CASE \E o \in FileOps : FsRead(o) \/ FsReadBinary(o) \/ FsWrite(o) \/ FsRemove(o) \/ FsExists(o) \/ FsList(o)
    BY <1>1, CallKeeps
  <1>2. CASE \E o \in Reads \cup Writes : OpenFails(o)
    BY <1>2, RequestOver DEF FileOps
  <1>3. CASE \E o \in Reads, alloc \in BOOLEAN : ReadOpenCb(o, alloc)
    BY <1>3, ReadOpenKeeps
  <1>4. CASE \E o \in Reads : ReadError(o) \/ ReadEof(o) \/ GrowFails(o) \/ ReadCloseCb(o)
    BY <1>4, ReadErrorKeeps, ReadEofKeeps, GrowFailsKeeps, ReadCloseKeeps
  <1>5. CASE \E o \in BinaryReads : ReadOpenOom(o) \/ ProbeCb(o) \/ ProbeOom(o)
    BY <1>5, ReadOpenOomKeeps, ProbeCbKeeps, ProbeOomKeeps
  <1>6. CASE \E o \in FileOps, n \in 1 .. DataLen : ReadCb(o, n) \/ WriteCb(o, n)
    BY <1>6, ReadCbKeeps, WriteCbKeeps
  <1>7. CASE \E o \in Writes : WriteOpenCb(o) \/ WriteError(o) \/ WriteCloseCb(o)
    BY <1>7, WriteOpenKeeps, WriteErrorKeeps, WriteCloseKeeps
  <1>8. CASE \E o \in FileOps : RemoveCb(o) \/ ExistsCb(o) \/ ListCb(o)
    BY <1>8, RequestOver
  <1>9. CASE UNCHANGED fsVars
    <2>1. /\ fop' = fop /\ told' = told /\ backing' = backing
          /\ link' = link /\ content' = content /\ disturbed' = disturbed
      BY <1>9 DEF fsVars
    <2>2. FsTypes' /\ InodesAreRooted'
      BY <2>1 DEF FsInv, FsTypes, InodesAreRooted, Rooted
    <2>3. ASSUME NEW o \in FileOps PROVE OpOk(o)'
      BY <2>1, OthersKeep
    <2> QED
      BY <2>2, <2>3 DEF FsInv
  <1> QED
    BY <1>1, <1>2, <1>3, <1>4, <1>5, <1>6, <1>7, <1>8, <1>9 DEF FsNext

LEMMA FsInvIsTrue == ASSUME FsInv PROVE FilesAreTrue
  <1>0. \A o \in FileOps : fop[o] \in OpStates /\ OpOk(o) /\ told[o] \in Seq({"ok", "error"})
    BY OpFacts
  <1>1. FsTypeOK
    <2>1. \A o \in FileOps : fop[o].at \in {"new", "thrown", "open", "read", "probe", "write", "close", "done"}
      BY <1>0 DEF OpStates
    <2>2. \A o \in Reads : Len(fop[o].buf) <= fop[o].cap
      BY <1>0 DEF FileOps, OpOk, ReadSoFar
    <2> QED
      BY <2>1, <2>2 DEF FsInv, FsTypes, FsTypeOK
  <1>2. SettledOnce
    <2> SUFFICES ASSUME NEW o \in FileOps
                 PROVE  /\ Len(told[o]) <= 1
                        /\ At(o, "done") => Len(told[o]) = 1
                        /\ told[o] # << >> => fop[o].at \in {"close", "done"}
      BY DEF SettledOnce
    <2>1. Answers(o)
      BY <1>0 DEF OpOk
    <2>2. told[o] = << >> => Len(told[o]) = 0
      OBVIOUS
    <2>3. Len(told[o]) <= 1
      <3>1. CASE fop[o].at = "done"
        <4>1. Len(told[o]) = 1
          BY <2>1, <3>1 DEF Answers
        <4> QED
          BY <4>1
      <3>2. CASE fop[o].at = "close"
        BY <2>1, <3>2 DEF Answers
      <3>3. CASE fop[o].at \notin {"close", "done"}
        <4>1. Len(told[o]) = 0
          BY <2>1, <2>2, <3>3 DEF Answers
        <4> QED
          BY <4>1
      <3> QED
        BY <3>1, <3>2, <3>3
    <2> QED
      BY <2>1, <2>3 DEF Answers, At
  <1>3. BackingOnce
    <2> SUFFICES ASSUME NEW o \in BinaryReads
                 PROVE  /\ backing[o] # "twice"
                        /\ At(o, "done") => backing[o] \in {"none", "given", "freed"}
                        /\ backing[o] = "given" => told[o] = <<"ok">>
      BY DEF BackingOnce
    <2>1. Backed(o) /\ fop[o] \in OpStates
      BY <1>0 DEF OpOk, FileOps, Reads
    <2>2. fop[o].owner \in BOOLEAN
      BY <2>1 DEF OpStates
    <2> QED
      BY <2>1, <2>2 DEF Backed, At
  <1>4. ReadIsTrue
    <2> SUFFICES ASSUME NEW o \in Reads, fop[o].at = "close", fop[o].cb, o \notin disturbed
                 PROVE  Delivered(o) = File(o)
      BY DEF ReadIsTrue, At
    <2>0. o \in FileOps
      BY DEF FileOps
    <2>1. /\ fop[o].buf \in Seq(ByteSet) /\ File(o) \in Seq(ByteSet)
          /\ Len(fop[o].buf) = Len(File(o)) /\ \A k \in 1 .. Len(fop[o].buf) : fop[o].buf[k] = File(o)[k]
          /\ fop[o].owner => fop[o].cap = Len(File(o))
      <3>1. fop[o] \in OpStates /\ ReadSoFar(o) /\ Placed(o) /\ content \in [Inodes -> Seq(ByteSet)]
        BY <2>0, <1>0, OpFacts DEF OpOk
      <3> QED
        BY <3>1 DEF OpStates, ReadSoFar, Placed, File, Size
    <2>2. fop[o].buf = File(o)
      BY <2>1
    <2>3. CASE fop[o].owner
      <3>1. Delivered(o) = fop[o].buf \o [k \in 1 .. fop[o].cap - Len(fop[o].buf) |-> Zero]
        BY <2>3 DEF Delivered
      <3>2. fop[o].cap - Len(fop[o].buf) = 0
        BY <2>1, <2>3
      <3>3. [k \in 1 .. 0 |-> Zero] = << >>
        OBVIOUS
      <3> QED
        BY <2>1, <2>2, <3>1, <3>2, <3>3, ConcatEmptySeq
    <2>4. CASE ~fop[o].owner
      BY <2>2, <2>4 DEF Delivered
    <2> QED
      BY <2>3, <2>4
  <1>5. WriteIsWhole
    <2> SUFFICES ASSUME NEW o \in Writes, fop[o].at = "close", fop[o].cb, o \notin disturbed
                 PROVE  File(o) = Bytes(o)
      BY DEF WriteIsWhole, At
    <2>0. o \in FileOps
      BY DEF FileOps
    <2>1. File(o) \in Seq(ByteSet) /\ Len(File(o)) = DataLen /\ \A k \in 1 .. DataLen : File(o)[k] = Byte(o, k)
      <3>1. fop[o] \in OpStates /\ WrittenSoFar(o) /\ Placed(o) /\ content \in [Inodes -> Seq(ByteSet)]
        BY <2>0, <1>0, OpFacts DEF OpOk
      <3> QED
        BY <3>1 DEF OpStates, WrittenSoFar, Placed, File, Size
    <2>2. Bytes(o) \in Seq(ByteSet) /\ Len(Bytes(o)) = DataLen /\ \A k \in 1 .. DataLen : Bytes(o)[k] = Byte(o, k)
      BY <2>0, BytesAreBytes, FsAssumption DEF Bytes
    <2> QED
      BY <2>1, <2>2
  <1> QED
    BY <1>1, <1>2, <1>3, <1>4, <1>5 DEF FilesAreTrue

(* Of uv_io.c and bridge.c: however the requests of concurrent operations are   *)
(* ordered and whatever of them fails, an operation settles its promise once,   *)
(* releases the store of a zero-copy result once, and what an undisturbed read  *)
(* delivers or an undisturbed write leaves behind is the file, byte for byte.   *)
THEOREM FilesStayTrue == FsSpec => []FilesAreTrue
  <1>1. FsInit => FsInv
    BY FsInitHolds
  <1>2. FsInv /\ [FsNext]_fsVars => FsInv'
    BY FsInvKeeps
  <1>3. FsInv => FilesAreTrue
    BY FsInvIsTrue
  <1> QED
    BY <1>1, <1>2, <1>3, PTL DEF FsSpec

-----------------------------------------------------------------------------
(* Contexts *)

Occupied(tab) == {s \in Slots : tab[s] # Bad}

CtxTables ==
    [tab : [Slots -> Instances \cup {Bad}], active : -1 .. MaxContexts - 1, n : Nat,
     alive : SUBSET Instances, jobs : SUBSET Instances, ext : Nat, made : Nat, born : Nat]

(* The table counts its contexts and holds each of them once. *)
Consistent(t) ==
    /\ t \in CtxTables /\ t.n = Cardinality(Occupied(t.tab))
    /\ {t.tab[s] : s \in Slots} \ {Bad} = t.alive
    /\ \A r, s \in Slots : t.tab[r] = t.tab[s] /\ r # s => t.tab[r] = Bad
    /\ t.jobs \subseteq t.alive /\ t.alive \subseteq 1 .. t.born
    /\ t.ext <= t.made /\ t.born <= MaxInstances

Scripts == [call : {"task", "spawn", "rebuild"}, self : Instances, from : Instances \cup {Bad}]

CtxTypes ==
    /\ frames \in Seq(Scripts) /\ nested \in BOOLEAN /\ ctxIo \subseteq Instances
    /\ stateFile \in [Instances -> {"none", "torn", "whole"}] /\ heir \in [Instances -> Instances]

(* The outermost script is a task; each other one initialises a context that  *)
(* is younger than those around it.                                           *)
Nesting ==
    \A k \in 1 .. Len(frames) :
        /\ frames[k].call = "task" <=> k = 1
        /\ frames[k].self <= born
        /\ frames[k].call = "rebuild" => frames[k].from # Bad
        /\ \A l \in 1 .. k - 1 : frames[l].self < frames[k].self

(* Nothing is known of an instance that is not created. *)
Unborn ==
    \A i \in Instances :
        /\ i > born => heir[i] = i /\ stateFile[i] = "none"
        /\ i <= born => heir[i] <= born

(* A context whose initial script runs is a line of its own, without a state. *)
Initialising ==
    \A k \in 2 .. Len(frames) :
        /\ heir[frames[k].self] = frames[k].self
        /\ frames[k].self \in alive =>
              /\ stateFile[frames[k].self] # "whole"
              /\ \A j \in Instances \ {frames[k].self} : heir[j] # frames[k].self

(* Main is active for a task; a context that is being initialised is, until a   *)
(* call from its script has returned.                                           *)
ActiveIsRight ==
    /\ (~Running \/ Top.call = "task") /\ contexts[0] # Bad => active_ctx_id = 0
    /\ ~nested /\ Running /\ Top.call # "task" =>
          active_ctx_id \in Slots /\ contexts[active_ctx_id] = Top.self

CtxInv ==
    /\ Consistent(Table) /\ CtxTypes /\ Nesting /\ Unborn /\ Initialising /\ ActiveIsRight
    /\ StateIsKept

-----------------------------------------------------------------------------
(* What the operations on the table return *)

LEMMA SlotFacts ==
    /\ Slots \subseteq Nat /\ 0 \in Slots /\ -1 \notin Slots /\ Slots \subseteq -1 .. MaxContexts - 1
    /\ IsFiniteSet(Slots) /\ Cardinality(Slots) = MaxContexts
  <1>1. 0 \in Int /\ MaxContexts - 1 \in Int /\ MaxContexts \in Nat \ {0}
    BY ContextsAssumption
  <1>2. IsFiniteSet(Slots) /\ Cardinality(Slots) = MaxContexts
    BY <1>1, FS_Interval DEF Slots
  <1> QED
    BY <1>1, <1>2 DEF Slots

LEMMA OccupiedFacts ==
    ASSUME NEW tab
    PROVE  /\ IsFiniteSet(Occupied(tab)) /\ Cardinality(Occupied(tab)) \in Nat
           /\ Cardinality(Occupied(tab)) <= MaxContexts
  <1>1. Occupied(tab) \in SUBSET Slots
    BY DEF Occupied
  <1> QED
    BY <1>1, SlotFacts, FS_Subset, FS_CardinalityType

(* The fields of the records. *)
LEMMA CreateFields ==
    ASSUME NEW t \in CtxTables, NEW slot \in Slots, t.born < MaxInstances
    PROVE  \E u \in CtxTables :
              /\ u = CreateAt(t, slot)
              /\ u.tab = [t.tab EXCEPT ![slot] = t.born + 1] /\ u.active = slot /\ u.n = t.n + 1
              /\ u.alive = t.alive \cup {t.born + 1} /\ u.jobs = t.jobs /\ u.born = t.born + 1
              /\ (t.ext <= t.made => u.ext <= u.made)
  <1> DEFINE v == [t EXCEPT !.tab[slot] = t.born + 1, !.n = @ + 1, !.active = slot,
                            !.alive = @ \cup {t.born + 1}, !.born = @ + 1]
             u == CreateAt(t, slot)
  <1>1. t.born + 1 \in Instances /\ t.n + 1 \in Nat /\ t.born + 1 \in Nat /\ t.made + 1 \in Nat
    <2>1. t.born \in Nat /\ t.n \in Nat /\ t.made \in Nat
      BY DEF CtxTables
    <2> QED
      BY <2>1, ContextsAssumption DEF Instances
  <1>2. slot \in -1 .. MaxContexts - 1
    BY SlotFacts
  <1>3. [t.tab EXCEPT ![slot] = t.born + 1] \in [Slots -> Instances \cup {Bad}]
    BY <1>1 DEF CtxTables
  <1>4. t.alive \cup {t.born + 1} \in SUBSET Instances
    BY <1>1 DEF CtxTables
  <1>5. /\ v \in CtxTables /\ v.tab = [t.tab EXCEPT ![slot] = t.born + 1] /\ v.active = slot /\ v.n = t.n + 1
        /\ v.alive = t.alive \cup {t.born + 1} /\ v.jobs = t.jobs /\ v.born = t.born + 1
        /\ v.ext = t.ext /\ v.made = t.made
    BY <1>1, <1>2, <1>3, <1>4 DEF CtxTables
  <1>6. u = IF v.ext = 0 THEN [v EXCEPT !.ext = v.made + 1, !.made = @ + 1] ELSE v
    BY DEF CreateAt, ExtInit
  <1> HIDE DEF v
  <1>7. u = CreateAt(t, slot)
    OBVIOUS
  <1> HIDE DEF u
  <1>8. /\ u \in CtxTables /\ u.tab = v.tab /\ u.active = v.active /\ u.n = v.n
        /\ u.alive = v.alive /\ u.jobs = v.jobs /\ u.born = v.born
        /\ (u.ext = v.ext /\ u.made = v.made) \/ (u.ext = v.made + 1 /\ u.made = v.made + 1)
    <2>1. CASE v.ext = 0
      <3>1. u = [v EXCEPT !.ext = v.made + 1, !.made = v.made + 1] /\ v.made + 1 \in Nat
        BY <1>1, <1>5, <1>6, <2>1
      <3> QED
        BY <1>5, <3>1 DEF CtxTables
    <2>2. CASE v.ext # 0
      BY <1>5, <1>6, <2>2
    <2> QED
      BY <2>1, <2>2
  <1>9. t.ext <= t.made => u.ext <= u.made
    <2>1. v.made + 1 <= v.made + 1
      BY <1>1, <1>5
    <2> QED
      BY <1>5, <1>8, <2>1
  <1>10. /\ u.tab = [t.tab EXCEPT ![slot] = t.born + 1] /\ u.active = slot /\ u.n = t.n + 1
         /\ u.alive = t.alive \cup {t.born + 1} /\ u.jobs = t.jobs /\ u.born = t.born + 1
    BY <1>5, <1>8
  <1>11. u \in CtxTables
    BY <1>8
  <1> QED
    BY <1>7, <1>9, <1>10, <1>11, Zenon

LEMMA TableTypes ==
    ASSUME NEW t \in CtxTables, NEW tab \in [Slots -> Instances \cup {Bad}], NEW act \in -1 .. MaxContexts - 1,
           NEW n \in Nat, NEW a \in SUBSET Instances, NEW j \in SUBSET Instances
    PROVE  [t EXCEPT !.ext = 0, !.jobs = j, !.tab = tab, !.n = n, !.alive = a, !.active = act] \in CtxTables
  BY DEF CtxTables

SlotOf(t, i) == CHOOSE s \in Slots : t.tab[s] = i

LEMMA DestroyFields ==
    ASSUME NEW t \in CtxTables, NEW i \in t.alive, SlotOf(t, i) \in Slots, t.n - 1 \in Nat
    PROVE  \E u \in CtxTables :
              /\ u = Destroy(t, i)
              /\ u.tab = [t.tab EXCEPT ![SlotOf(t, i)] = Bad] /\ u.n = t.n - 1
              /\ (t.active = SlotOf(t, i) => u.active = -1) /\ (t.active # SlotOf(t, i) => u.active = t.active)
              /\ u.alive = t.alive \ {i} /\ u.jobs = t.jobs \ {i} /\ u.born = t.born
              /\ u.ext = 0 /\ u.made = t.made
  <1>1. PICK slot : slot = SlotOf(t, i)
    OBVIOUS
  <1>2. Destroy(t, i) = [t EXCEPT !.ext = 0, !.jobs = @ \ {i}, !.tab[slot] = Bad, !.n = @ - 1, !.alive = @ \ {i},
                                  !.active = IF @ = slot THEN -1 ELSE @]
    BY <1>1 DEF Destroy, SlotOf
  <1>3. PICK act : act = IF t.active = slot THEN -1 ELSE t.active
    OBVIOUS
  <1>4. PICK tab : tab = [t.tab EXCEPT ![slot] = Bad]
    OBVIOUS
  <1>5. Destroy(t, i) = [t EXCEPT !.ext = 0, !.jobs = t.jobs \ {i}, !.tab = tab, !.n = t.n - 1,
                                  !.alive = t.alive \ {i}, !.active = act]
    <2>1. Destroy(t, i) = [t EXCEPT !.ext = 0, !.jobs = t.jobs \ {i}, !.tab = [t.tab EXCEPT ![slot] = Bad],
                                    !.n = t.n - 1, !.alive = t.alive \ {i},
                                    !.active = IF t.active = slot THEN -1 ELSE t.active]
      BY <1>2
    <2> QED
      BY <2>1, <1>3, <1>4, Zenon
  <1>6. /\ act \in -1 .. MaxContexts - 1 /\ tab \in [Slots -> Instances \cup {Bad}]
        /\ t.alive \ {i} \in SUBSET Instances /\ t.jobs \ {i} \in SUBSET Instances
    <2>1. /\ t.active \in -1 .. MaxContexts - 1 /\ t.tab \in [Slots -> Instances \cup {Bad}]
          /\ t.alive \in SUBSET Instances /\ t.jobs \in SUBSET Instances
      BY DEF CtxTables
    <2>2. -1 \in -1 .. MaxContexts - 1
      BY ContextsAssumption
    <2>3. act \in -1 .. MaxContexts - 1
      BY <1>3, <2>1, <2>2
    <2>4. tab \in [Slots -> Instances \cup {Bad}]
      BY <1>4, <2>1
    <2> QED
      BY <2>1, <2>3, <2>4
  <1>7. Destroy(t, i) \in CtxTables
    <2>1. [t EXCEPT !.ext = 0, !.jobs = t.jobs \ {i}, !.tab = tab, !.n = t.n - 1,
                    !.alive = t.alive \ {i}, !.active = act] \in CtxTables
      BY <1>6, TableTypes, Zenon
    <2> QED
      BY <1>5, <2>1, Zenon
  <1>8. PICK u \in CtxTables : u = Destroy(t, i)
    BY <1>7
  <1>9. /\ u.tab = tab /\ u.n = t.n - 1 /\ u.active = act
        /\ u.alive = t.alive \ {i} /\ u.jobs = t.jobs \ {i} /\ u.born = t.born
        /\ u.ext = 0 /\ u.made = t.made
    BY <1>5, <1>8 DEF CtxTables
  <1>10. /\ u.tab = [t.tab EXCEPT ![SlotOf(t, i)] = Bad] /\ u.n = t.n - 1
         /\ (t.active = SlotOf(t, i) => u.active = -1) /\ (t.active # SlotOf(t, i) => u.active = t.active)
         /\ u.alive = t.alive \ {i} /\ u.jobs = t.jobs \ {i} /\ u.born = t.born
         /\ u.ext = 0 /\ u.made = t.made
    BY <1>1, <1>3, <1>4, <1>9
  <1> QED
    BY <1>8, <1>10, Zenon

LEMMA CreateKeeps ==
    ASSUME NEW t, Consistent(t), NEW slot \in Slots, t.tab[slot] = Bad, t.born < MaxInstances
    PROVE  \E u \in CtxTables :
              /\ u = CreateAt(t, slot) /\ Consistent(u)
              /\ u.tab = [t.tab EXCEPT ![slot] = t.born + 1] /\ u.active = slot /\ u.n = t.n + 1
              /\ u.alive = t.alive \cup {t.born + 1} /\ u.jobs = t.jobs /\ u.born = t.born + 1
  <1>0. t \in CtxTables
    BY DEF Consistent
  <1>1. PICK u \in CtxTables :
              /\ u = CreateAt(t, slot)
              /\ u.tab = [t.tab EXCEPT ![slot] = t.born + 1] /\ u.active = slot /\ u.n = t.n + 1
              /\ u.alive = t.alive \cup {t.born + 1} /\ u.jobs = t.jobs /\ u.born = t.born + 1
              /\ (t.ext <= t.made => u.ext <= u.made)
    BY <1>0, CreateFields
  <1> DEFINE i == t.born + 1
  <1>2. /\ t.tab \in [Slots -> Instances \cup {Bad}] /\ t.born \in Nat /\ i \in Nat /\ i # Bad /\ i <= MaxInstances
        /\ \A j \in 1 .. t.born : j # i /\ j \in 1 .. i
        /\ i \in 1 .. i
    BY <1>0, ContextsAssumption DEF CtxTables, Bad
  <1>3. \A s \in Slots : t.tab[s] # Bad => t.tab[s] \in t.alive /\ t.tab[s] # i
    BY <1>2 DEF Consistent
  <1>4. u.n = Cardinality(Occupied(u.tab))
    <2>1. Occupied(u.tab) = Occupied(t.tab) \cup {slot} /\ slot \notin Occupied(t.tab)
      BY <1>1, <1>2 DEF Occupied
    <2>2. Cardinality(Occupied(t.tab) \cup {slot}) = Cardinality(Occupied(t.tab)) + 1
      BY <2>1, OccupiedFacts, FS_AddElement
    <2> QED
      BY <1>1, <2>1, <2>2 DEF Consistent
  <1>5. {u.tab[s] : s \in Slots} \ {Bad} = u.alive
    <2>1. {t.tab[s] : s \in Slots} \ {Bad} = t.alive
      BY DEF Consistent
    <2> QED
      BY <1>1, <1>2, <2>1
  <1>6. \A r, s \in Slots : u.tab[r] = u.tab[s] /\ r # s => u.tab[r] = Bad
    BY <1>1, <1>2, <1>3 DEF Consistent
  <1>7. u.jobs \subseteq u.alive /\ u.alive \subseteq 1 .. u.born
    BY <1>1, <1>2 DEF Consistent
  <1>8. u.ext <= u.made /\ u.born <= MaxInstances
    BY <1>1, <1>2 DEF Consistent
  <1>9. Consistent(u)
    BY <1>4, <1>5, <1>6, <1>7, <1>8 DEF Consistent
  <1> QED
    BY <1>1, <1>9, Zenon

LEMMA DestroyKeeps ==
    ASSUME NEW t, Consistent(t), NEW i \in t.alive
    PROVE  \E u \in CtxTables, slot \in Slots :
              /\ u = Destroy(t, i) /\ Consistent(u) /\ t.tab[slot] = i
              /\ u.tab = [t.tab EXCEPT ![slot] = Bad]
              /\ (t.active = slot => u.active = -1) /\ (t.active # slot => u.active = t.active)
              /\ u.alive = t.alive \ {i} /\ u.jobs = t.jobs \ {i} /\ u.born = t.born
  <1>0. t \in CtxTables /\ t.tab \in [Slots -> Instances \cup {Bad}] /\ t.made \in Nat /\ t.n \in Nat
    BY DEF Consistent, CtxTables
  <1>1. PICK slot \in Slots : slot = SlotOf(t, i) /\ t.tab[slot] = i /\ i # Bad
    BY DEF Consistent, SlotOf
  <1>2. /\ slot \in Occupied(t.tab)
        /\ Cardinality(Occupied(t.tab) \ {slot}) = t.n - 1 /\ t.n - 1 \in Nat
    <2>1. slot \in Occupied(t.tab)
      BY <1>1 DEF Occupied
    <2>2. /\ IsFiniteSet(Occupied(t.tab) \ {slot})
          /\ Cardinality(Occupied(t.tab) \ {slot}) = Cardinality(Occupied(t.tab)) - 1
      BY <2>1, OccupiedFacts, FS_RemoveElement
    <2>3. Cardinality(Occupied(t.tab) \ {slot}) \in Nat
      BY <2>2, FS_CardinalityType
    <2> QED
      BY <2>1, <2>2, <2>3 DEF Consistent
  <1>3. PICK u \in CtxTables :
              /\ u = Destroy(t, i)
              /\ u.tab = [t.tab EXCEPT ![slot] = Bad] /\ u.n = t.n - 1
              /\ (t.active = slot => u.active = -1) /\ (t.active # slot => u.active = t.active)
              /\ u.alive = t.alive \ {i} /\ u.jobs = t.jobs \ {i} /\ u.born = t.born
              /\ u.ext = 0 /\ u.made = t.made
    BY <1>0, <1>1, <1>2, DestroyFields
  <1>4. u.n = Cardinality(Occupied(u.tab))
    <2>1. Occupied(u.tab) = Occupied(t.tab) \ {slot}
      BY <1>0, <1>1, <1>3 DEF Occupied
    <2> QED
      BY <1>2, <1>3, <2>1
  <1>5. {u.tab[s] : s \in Slots} \ {Bad} = u.alive
    <2>1. {t.tab[s] : s \in Slots} \ {Bad} = t.alive
      BY DEF Consistent
    <2>2. \A s \in Slots \ {slot} : t.tab[s] # i
      BY <1>1 DEF Consistent
    <2>3. \A s \in Slots : u.tab[s] = IF s = slot THEN Bad ELSE t.tab[s]
      BY <1>0, <1>3
    <2> QED
      BY <1>1, <1>3, <2>1, <2>2, <2>3
  <1>6. \A r, s \in Slots : u.tab[r] = u.tab[s] /\ r # s => u.tab[r] = Bad
    BY <1>0, <1>3 DEF Consistent
  <1>7. u.jobs \subseteq u.alive /\ u.alive \subseteq 1 .. u.born /\ u.ext <= u.made /\ u.born <= MaxInstances
    BY <1>0, <1>3 DEF Consistent
  <1>8. Consistent(u)
    BY <1>4, <1>5, <1>6, <1>7 DEF Consistent
  <1>9. /\ u = Destroy(t, i) /\ Consistent(u) /\ t.tab[slot] = i
        /\ u.tab = [t.tab EXCEPT ![slot] = Bad]
        /\ (t.active = slot => u.active = -1) /\ (t.active # slot => u.active = t.active)
        /\ u.alive = t.alive \ {i} /\ u.jobs = t.jobs \ {i} /\ u.born = t.born
    BY <1>1, <1>3, <1>8
  <1> HIDE DEF Consistent
  <1>10. \E s \in Slots :
              /\ u = Destroy(t, i) /\ Consistent(u) /\ t.tab[s] = i
              /\ u.tab = [t.tab EXCEPT ![s] = Bad]
              /\ (t.active = s => u.active = -1) /\ (t.active # s => u.active = t.active)
              /\ u.alive = t.alive \ {i} /\ u.jobs = t.jobs \ {i} /\ u.born = t.born
    BY <1>1, <1>9, Zenon
  <1> QED
    BY <1>3, <1>10, Zenon

(* A creation that fails leaves the slot and the active context as they were. *)
LEMMA FailKeeps ==
    ASSUME NEW t, Consistent(t), NEW slot \in Slots, t.tab[slot] = Bad, t.born < MaxInstances
    PROVE  \E u \in CtxTables :
              /\ u = CreateFails(t, slot) /\ Consistent(u)
              /\ u.tab = t.tab /\ u.active = t.active
              /\ u.alive = t.alive /\ u.jobs = t.jobs /\ u.born = t.born + 1
  <1>0. t \in CtxTables /\ t.tab \in [Slots -> Instances \cup {Bad}] /\ t.born \in Nat
    BY DEF Consistent, CtxTables
  <1>1. PICK v \in CtxTables :
              /\ v = CreateAt(t, slot) /\ Consistent(v)
              /\ v.tab = [t.tab EXCEPT ![slot] = t.born + 1] /\ v.active = slot /\ v.n = t.n + 1
              /\ v.alive = t.alive \cup {t.born + 1} /\ v.jobs = t.jobs /\ v.born = t.born + 1
    BY CreateKeeps
  <1>2. CreateFails(t, slot) = [v EXCEPT !.tab[slot] = Bad, !.n = t.n, !.active = t.active, !.alive = t.alive]
    BY <1>1 DEF CreateFails
  <1>3. [v.tab EXCEPT ![slot] = Bad] = t.tab
    BY <1>0, <1>1
  <1>4. CreateFails(t, slot) = [v EXCEPT !.tab = t.tab, !.n = t.n, !.active = t.active, !.alive = t.alive]
    BY <1>2, <1>3
  <1>5. PICK u : u = [v EXCEPT !.tab = t.tab, !.n = t.n, !.active = t.active, !.alive = t.alive]
    OBVIOUS
  <1>6. /\ u \in CtxTables /\ u.tab = t.tab /\ u.n = t.n /\ u.active = t.active /\ u.alive = t.alive
        /\ u.jobs = v.jobs /\ u.born = v.born /\ u.ext = v.ext /\ u.made = v.made
    BY <1>0, <1>5 DEF CtxTables
  <1>7. u.jobs \subseteq u.alive /\ u.alive \subseteq 1 .. u.born
    BY <1>0, <1>1, <1>6 DEF Consistent
  <1>8. u.ext <= u.made /\ u.born <= MaxInstances
    BY <1>1, <1>6 DEF Consistent
  <1>9. Consistent(u)
    BY <1>6, <1>7, <1>8 DEF Consistent
  <1>10. u = CreateFails(t, slot) /\ u.jobs = t.jobs /\ u.born = t.born + 1
    BY <1>1, <1>4, <1>5, <1>6
  <1> QED
    BY <1>6, <1>9, <1>10

LEMMA BackKeeps ==
    ASSUME NEW t, Consistent(t)
    PROVE  \E u \in CtxTables :
              /\ u = BackToMain(t) /\ Consistent(u) /\ u.tab = t.tab
              /\ (t.tab[0] # Bad => u.active = 0) /\ (t.tab[0] = Bad => u.active = t.active)
              /\ u.alive = t.alive /\ u.jobs = t.jobs /\ u.born = t.born
  <1>0. t \in CtxTables
    BY DEF Consistent
  <1>1. CASE t.tab[0] # Bad
    <2>1. PICK u : u = [t EXCEPT !.active = 0]
      OBVIOUS
    <2>2. 0 \in -1 .. MaxContexts - 1
      BY SlotFacts
    <2>3. /\ u \in CtxTables /\ u.tab = t.tab /\ u.n = t.n /\ u.active = 0 /\ u.alive = t.alive
          /\ u.jobs = t.jobs /\ u.born = t.born /\ u.ext = t.ext /\ u.made = t.made
      BY <1>0, <2>1, <2>2 DEF CtxTables
    <2>4. Consistent(u)
      BY <2>3 DEF Consistent
    <2> QED
      BY <1>1, <2>1, <2>3, <2>4 DEF BackToMain
  <1>2. CASE t.tab[0] = Bad
    BY <1>0, <1>2 DEF BackToMain
  <1> QED
    BY <1>1, <1>2

LEMMA FirstFreeIsFree == ASSUME NEW t, Free(t) # {} PROVE FirstFree(t) \in Slots /\ t.tab[FirstFree(t)] = Bad
  <1>1. Free(t) \subseteq Nat
    BY SlotFacts DEF Free
  <1>2. \E s \in Free(t) : \A r \in Free(t) : s <= r
    BY <1>1, Least
  <1>3. FirstFree(t) \in Free(t)
    BY <1>2 DEF FirstFree
  <1> QED
    BY <1>3 DEF Free

(* The variables are the fields of the table. *)
LEMMA TableFields ==
    /\ Table.tab = contexts /\ Table.active = active_ctx_id /\ Table.n = context_count /\ Table.alive = alive
    /\ Table.jobs = ctxJobs /\ Table.ext = extState /\ Table.made = extMade /\ Table.born = born
  BY DEF Table

LEMMA SetsTable ==
    ASSUME NEW u \in CtxTables, SetTable(u)
    PROVE  /\ Table' = u
           /\ contexts' = u.tab /\ active_ctx_id' = u.active /\ context_count' = u.n /\ alive' = u.alive
           /\ ctxJobs' = u.jobs /\ extState' = u.ext /\ extMade' = u.made /\ born' = u.born
  <1>1. /\ contexts' = u.tab /\ active_ctx_id' = u.active /\ context_count' = u.n /\ alive' = u.alive
        /\ ctxJobs' = u.jobs /\ extState' = u.ext /\ extMade' = u.made /\ born' = u.born
    BY DEF SetTable
  <1>2. Table' = [tab |-> u.tab, active |-> u.active, n |-> u.n, alive |-> u.alive,
                  jobs |-> u.jobs, ext |-> u.ext, made |-> u.made, born |-> u.born]
    BY <1>1 DEF Table
  <1>3. Table' = u
    BY <1>2 DEF CtxTables
  <1> QED
    BY <1>1, <1>3

(* What the invariant says of the variables. *)
LEMMA CtxFacts ==
    ASSUME CtxInv
    PROVE  /\ contexts \in [Slots -> Instances \cup {Bad}] /\ born \in Nat /\ born <= MaxInstances
           /\ alive \subseteq Instances /\ alive \subseteq 1 .. born /\ ctxJobs \subseteq alive
           /\ {contexts[s] : s \in Slots} \ {Bad} = alive
           /\ \A r, s \in Slots : contexts[r] = contexts[s] /\ r # s => contexts[r] = Bad
           /\ active_ctx_id \in -1 .. MaxContexts - 1
           /\ Len(frames) \in Nat /\ frames \in Seq(Scripts)
  BY TableFields DEF CtxInv, Consistent, CtxTables, CtxTypes

-----------------------------------------------------------------------------
(* What the steps have in common *)

(* A line keeps a context that lives, or is given up. *)
LEMMA LinesKept ==
    ASSUME CtxInv, NEW u \in CtxTables, Consistent(u), SetTable(u), u.born \in {born, born + 1},
           heir' = heir, stateFile' = stateFile, given \subseteq given',
           u.alive \subseteq alive \cup {born + 1},
           u.born = born + 1 => born + 1 \in u.alive \cup given',
           \A j \in alive \ u.alive : heir[j] \in given'
    PROVE  Consistent(Table)' /\ Unborn' /\ StateIsKept'
  <1>1. born' = u.born /\ alive' = u.alive /\ Consistent(Table)'
    BY SetsTable
  <1>2. born \in Nat /\ u.born <= MaxInstances /\ Unborn /\ StateIsKept /\ u.born \in Nat
    BY CtxFacts DEF CtxInv, Consistent, CtxTables
  <1>3. Unborn'
    <2> SUFFICES ASSUME NEW i \in Instances
                 PROVE  /\ i > born' => heir[i] = i /\ stateFile[i] = "none"
                        /\ i <= born' => heir[i] <= born'
      BY DEF Unborn
    <2>1. /\ i \in Nat /\ heir[i] \in Nat
          /\ i > born => heir[i] = i /\ stateFile[i] = "none"
          /\ i <= born => heir[i] <= born
      BY <1>2, ContextsAssumption DEF Unborn, CtxInv, CtxTypes, Instances
    <2> QED
      BY <1>1, <1>2, <2>1
  <1>4. StateIsKept'
    <2> SUFFICES ASSUME NEW i \in 1 .. born'
                 PROVE  \/ heir[i] \in given'
                        \/ \E j \in alive' : heir[j] = heir[i]
                        \/ stateFile[heir[i]] = "whole"
      BY DEF StateIsKept
    <2>1. CASE i \in 1 .. born
      BY <1>1, <1>2, <2>1 DEF StateIsKept
    <2>2. CASE i \notin 1 .. born
      <3>1. i = born + 1 /\ u.born = born + 1 /\ i \in Instances /\ i > born
        BY <1>1, <1>2, <2>2, ContextsAssumption DEF Instances
      <3>2. heir[i] = i
        BY <1>2, <3>1 DEF Unborn
      <3> QED
        BY <1>1, <3>1, <3>2
    <2> QED
      BY <2>1, <2>2
  <1> QED
    BY <1>1, <1>3, <1>4

LEMMA Older == ASSUME NEW i \in Nat, NEW b \in Nat, i <= b PROVE i < b + 1 /\ i <= b + 1 /\ i # b + 1
  OBVIOUS

LEMMA InstancesAreNat == Instances \subseteq Nat /\ Bad \notin Instances
  BY ContextsAssumption DEF Instances, Bad

LEMMA ScriptFacts ==
    ASSUME CtxInv, NEW k \in 1 .. Len(frames)
    PROVE  /\ frames[k] \in Scripts /\ frames[k].self \in Instances /\ frames[k].self \in Nat
           /\ frames[k].self <= born /\ frames[k].self < born + 1 /\ frames[k].self <= born + 1
           /\ frames[k].self # born + 1
           /\ \A l \in 1 .. k - 1 : frames[l].self < frames[k].self
           /\ frames[k].call = "task" <=> k = 1
           /\ frames[k].call = "rebuild" => frames[k].from \in Instances
  <1>1. born \in Nat /\ Nesting /\ frames \in Seq(Scripts)
    BY CtxFacts DEF CtxInv
  <1>2. frames[k] \in Scripts
    BY <1>1
  <1>3. frames[k].self \in Instances /\ frames[k].from \in Instances \cup {Bad}
    BY <1>2 DEF Scripts
  <1>4. /\ frames[k].self <= born
        /\ \A l \in 1 .. k - 1 : frames[l].self < frames[k].self
        /\ frames[k].call = "rebuild" => frames[k].from # Bad
    BY <1>1 DEF Nesting
  <1>5. frames[k].call = "task" <=> k = 1
    BY <1>1 DEF Nesting
  <1>6. frames[k].self \in Nat
    BY <1>3, InstancesAreNat
  <1> QED
    BY <1>1, <1>2, <1>3, <1>4, <1>5, <1>6, Older

LEMMA ScriptsStay ==
    ASSUME CtxInv, frames' = frames, heir' = heir, stateFile' = stateFile,
           alive' \subseteq alive \cup {born + 1}, born' \in {born, born + 1}
    PROVE  Nesting' /\ Initialising'
  <1>1. born \in Nat /\ Nesting /\ Initialising /\ frames \in Seq(Scripts)
    BY CtxFacts DEF CtxInv
  <1>2. \A k \in 1 .. Len(frames) : frames[k].self \in Nat /\ frames[k].self <= born /\ frames[k].self # born + 1
    BY ScriptFacts
  <1>3. Nesting'
    <2>1. \A k \in 1 .. Len(frames) : frames[k].self <= born'
      BY <1>1, <1>2
    <2> QED
      BY <1>1, <2>1 DEF Nesting
  <1>4. Initialising'
    <2>1. \A k \in 2 .. Len(frames) : frames[k].self \in alive' => frames[k].self \in alive
      BY <1>1, <1>2
    <2> QED
      BY <1>1, <2>1 DEF Initialising
  <1> QED
    BY <1>3, <1>4

LEMMA AtLeastTwo == ASSUME NEW n \in Nat \ {0}, n # 1 PROVE n \in 2 .. n
  OBVIOUS

LEMMA LastButOne ==
    ASSUME NEW m \in Nat \ {0}, m # 1
    PROVE  m - 1 \in Nat \ {0} /\ m = m - 1 + 1 /\ m - 1 \in 1 .. m
  OBVIOUS

LEMMA TopFacts ==
    ASSUME CtxInv, Running
    PROVE  /\ Len(frames) \in Nat \ {0} /\ Top = frames[Len(frames)] /\ Top \in Scripts
           /\ Top.self \in Instances /\ Top.self <= born
           /\ Top.call = "task" <=> Len(frames) = 1
           /\ Top.call = "rebuild" => Top.from \in Instances
           /\ Top.call # "task" => heir[Top.self] = Top.self
  <1>1. Len(frames) \in Nat \ {0} /\ Nesting /\ Initialising /\ frames \in Seq(Scripts)
    BY CtxFacts, EmptySeq DEF CtxInv, Running
  <1>2. Len(frames) \in 1 .. Len(frames) /\ Top = frames[Len(frames)]
    BY <1>1 DEF Top
  <1>3. Top \in Scripts
    BY <1>1, <1>2
  <1>4. Top.self <= born /\ (Top.call = "task" <=> Len(frames) = 1) /\ (Top.call = "rebuild" => Top.from \in Instances)
    BY <1>2, ScriptFacts
  <1>5. Top.call # "task" => Len(frames) \in 2 .. Len(frames)
    BY <1>1, <1>4, AtLeastTwo, Zenon
  <1>6. Top.call # "task" => heir[Top.self] = Top.self
    BY <1>1, <1>2, <1>5 DEF Initialising
  <1> QED
    BY <1>1, <1>2, <1>3, <1>4, <1>6 DEF Scripts

LEMMA ScriptBegins ==
    ASSUME CtxInv, Running, born < MaxInstances,
           NEW call \in {"spawn", "rebuild"}, NEW from \in Instances \cup {Bad}, call = "rebuild" => from # Bad,
           frames' = Append(frames, [call |-> call, self |-> born + 1, from |-> from]),
           heir' = heir, stateFile' = stateFile, alive' \subseteq alive \cup {born + 1}, born' = born + 1
    PROVE  /\ frames' \in Seq(Scripts) /\ Nesting' /\ Initialising'
           /\ Running' /\ (Top.call)' = call /\ (Top.self)' = born + 1
  <1> DEFINE r == [call |-> call, self |-> born + 1, from |-> from]
             n == Len(frames)
  <1>1. n \in Nat \ {0} /\ born \in Nat /\ Nesting /\ Initialising /\ Unborn /\ frames \in Seq(Scripts)
    BY CtxFacts, TopFacts DEF CtxInv
  <1>2. born + 1 \in Instances
    BY <1>1, ContextsAssumption DEF Instances
  <1>3. r \in Scripts /\ r.call = call /\ r.self = born + 1 /\ r.from = from
    BY <1>2 DEF Scripts
  <1>4. frames' = Append(frames, r)
    OBVIOUS
  <1> HIDE DEF r, n
  <1>5. /\ frames' \in Seq(Scripts) /\ Len(frames') = n + 1 /\ frames'[n + 1] = r
        /\ \A k \in 1 .. n : frames'[k] = frames[k]
    BY <1>1, <1>3, <1>4, AppendProperties DEF n
  <1>6. \A k \in 1 .. n :
            /\ frames[k].self \in Nat /\ frames[k].self <= born + 1 /\ frames[k].self < born + 1
            /\ frames[k].self # born + 1
    BY ScriptFacts DEF n
  <1>7. Nesting'
    <2> SUFFICES ASSUME NEW k \in 1 .. n + 1
                 PROVE  /\ frames'[k].call = "task" <=> k = 1
                        /\ frames'[k].self <= born + 1
                        /\ frames'[k].call = "rebuild" => frames'[k].from # Bad
                        /\ \A l \in 1 .. k - 1 : frames'[l].self < frames'[k].self
      BY <1>5 DEF Nesting
    <2>1. CASE k \in 1 .. n
      <3>1. \A l \in 1 .. k - 1 : l \in 1 .. n
        BY <1>1, <2>1
      <3>2. frames[k].self <= born + 1
        BY <1>6, <2>1
      <3> QED
        BY <1>1, <1>5, <2>1, <3>1, <3>2 DEF Nesting, n
    <2>2. CASE k = n + 1
      <3>1. \A l \in 1 .. k - 1 : l \in 1 .. n /\ frames[l].self < born + 1
        BY <1>1, <1>6, <2>2
      <3>2. k # 1 /\ born + 1 <= born + 1
        BY <1>1, <2>2
      <3> QED
        BY <1>3, <1>5, <2>2, <3>1, <3>2
    <2>3. k \in 1 .. n \/ k = n + 1
      BY <1>1
    <2> QED
      BY <2>1, <2>2, <2>3
  <1>8. Initialising'
    <2> SUFFICES ASSUME NEW k \in 2 .. n + 1
                 PROVE  /\ heir[frames'[k].self] = frames'[k].self
                        /\ frames'[k].self \in alive' =>
                              /\ stateFile[frames'[k].self] # "whole"
                              /\ \A j \in Instances \ {frames'[k].self} : heir[j] # frames'[k].self
      BY <1>5 DEF Initialising
    <2>1. CASE k \in 2 .. n
      <3>1. k \in 1 .. n /\ frames[k].self # born + 1
        BY <1>1, <1>6, <2>1
      <3> QED
        BY <1>1, <1>5, <2>1, <3>1 DEF Initialising, n
    <2>2. CASE k = n + 1
      <3>1. frames'[k].self = born + 1
        BY <1>3, <1>5, <2>2
      <3>2. heir[born + 1] = born + 1 /\ stateFile[born + 1] = "none"
        BY <1>1, <1>2 DEF Unborn
      <3>3. ASSUME NEW j \in Instances \ {born + 1} PROVE heir[j] # born + 1
        <4>1. j \in Nat /\ heir[j] \in Nat
          BY ContextsAssumption, CtxFacts DEF Instances, CtxInv, CtxTypes
        <4>2. (j > born => heir[j] = j) /\ (j <= born => heir[j] <= born)
          BY <1>1 DEF Unborn
        <4> QED
          BY <1>1, <4>1, <4>2
      <3> QED
        BY <3>1, <3>2, <3>3
    <2>3. k \in 2 .. n \/ k = n + 1
      BY <1>1
    <2> QED
      BY <2>1, <2>2, <2>3
  <1>9. Running' /\ (Top.call)' = call /\ (Top.self)' = born + 1
    <2>1. frames' # << >>
      BY <1>1, <1>3, <1>4, AppendProperties
    <2>2. Top' = r
      BY <1>1, <1>5 DEF Top
    <2> QED
      BY <1>3, <2>1, <2>2 DEF Running
  <1> QED
    BY <1>5, <1>7, <1>8, <1>9

(* The script that waited runs on; a context that was restored joins its line. *)
LEMMA ScriptEnds ==
    ASSUME CtxInv, Running, Top.call # "task", frames' = SubSeq(frames, 1, Len(frames) - 1),
           \/ heir' = heir
           \/ stateFile[Top.from] = "whole" /\ heir' = [heir EXCEPT ![Top.self] = Top.from],
           stateFile' = stateFile, alive' \subseteq alive, born' = born
    PROVE  /\ Len(frames) - 1 \in 1 .. Len(frames) /\ frames' \in Seq(Scripts) /\ Nesting' /\ Initialising'
           /\ Running' /\ Top' = frames[Len(frames) - 1]
  <1> DEFINE n == Len(frames) - 1
  <1>1. /\ Len(frames) \in Nat \ {0} /\ n \in Nat \ {0} /\ Len(frames) = n + 1
        /\ n \in 1 .. Len(frames) /\ Top = frames[n + 1]
        /\ Nesting /\ Initialising /\ frames \in Seq(Scripts) /\ heir \in [Instances -> Instances]
        /\ Top.self \in Instances
    <2>1. Len(frames) \in Nat \ {0} /\ Len(frames) # 1 /\ Top = frames[Len(frames)] /\ Top.self \in Instances
      BY TopFacts
    <2>2. n \in Nat \ {0} /\ Len(frames) = n + 1 /\ n \in 1 .. Len(frames)
      BY <2>1, LastButOne, Zenon
    <2> QED
      BY <2>1, <2>2 DEF CtxInv, CtxTypes
  <1> HIDE DEF n
  <1>2. /\ frames' \in Seq(Scripts) /\ Len(frames') = n
        /\ \A k \in 1 .. n : frames'[k] = frames[k]
    <2>1. \A k \in 1 .. n : frames[k] \in Scripts
      BY <1>1
    <2>2. frames' = SubSeq(frames, 1, n)
      BY DEF n
    <2>3. /\ SubSeq(frames, 1, n) \in Seq(Scripts)
          /\ Len(SubSeq(frames, 1, n)) = IF 1 <= n THEN n - 1 + 1 ELSE 0
          /\ \A k \in 1 .. n - 1 + 1 : SubSeq(frames, 1, n)[k] = frames[1 + k - 1]
      BY <1>1, <2>1, SubSeqProperties
    <2>4. 1 <= n /\ n - 1 + 1 = n /\ \A k \in 1 .. n : 1 + k - 1 = k
      BY <1>1
    <2> QED
      BY <2>2, <2>3, <2>4
  <1>3. \A k \in 1 .. n : k \in 1 .. n + 1 /\ frames[k].self < Top.self /\ frames[k].self \in Instances
    <2>1. n + 1 \in 1 .. Len(frames) /\ \A k \in 1 .. n : k \in 1 .. Len(frames) /\ k \in 1 .. (n + 1) - 1
      BY <1>1
    <2>2. \A k \in 1 .. n : frames[k].self < frames[n + 1].self /\ frames[k].self \in Instances
      BY <2>1, ScriptFacts
    <2> QED
      BY <1>1, <2>1, <2>2
  <1>4. \A k \in 1 .. n : frames[k].self # Top.self
    <2> SUFFICES ASSUME NEW k \in 1 .. n PROVE frames[k].self # Top.self
      OBVIOUS
    <2>1. frames[k].self \in Nat /\ frames[k].self < Top.self
      BY <1>3, ContextsAssumption DEF Instances
    <2> QED
      BY <2>1
  <1>5. Nesting'
    <2>1. ASSUME NEW k \in 1 .. n
          PROVE  /\ frames'[k].call = "task" <=> k = 1
                 /\ frames'[k].self <= born'
                 /\ frames'[k].call = "rebuild" => frames'[k].from # Bad
                 /\ \A l \in 1 .. k - 1 : frames'[l].self < frames'[k].self
      <3>1. k \in 1 .. Len(frames) /\ \A l \in 1 .. k - 1 : l \in 1 .. n
        BY <1>1
      <3>2. /\ frames[k].call = "task" <=> k = 1
            /\ frames[k].self <= born
            /\ frames[k].call = "rebuild" => frames[k].from # Bad
            /\ \A l \in 1 .. k - 1 : frames[l].self < frames[k].self
        BY <1>1, <3>1, Zenon DEF Nesting
      <3>3. frames'[k] = frames[k] /\ born' = born /\ \A l \in 1 .. k - 1 : frames'[l] = frames[l]
        BY <1>2, <2>1, <3>1
      <3> QED
        BY <3>2, <3>3
    <2>2. Len(frames') = n
      BY <1>2
    <2> QED
      BY <2>1, <2>2, Zenon DEF Nesting
  <1>6. Initialising'
    <2>1. ASSUME NEW k \in 2 .. n
          PROVE  /\ heir'[frames'[k].self] = frames'[k].self
                 /\ frames'[k].self \in alive' =>
                       /\ stateFile'[frames'[k].self] # "whole"
                       /\ \A j \in Instances \ {frames'[k].self} : heir'[j] # frames'[k].self
      <3>1. k \in 1 .. n /\ k \in 2 .. Len(frames)
        BY <1>1
      <3>2. PICK i \in Instances : i = frames[k].self /\ i = frames'[k].self /\ i # Top.self
        BY <1>2, <1>3, <1>4, <3>1
      <3>3. heir[i] = i /\ (i \in alive => stateFile[i] # "whole" /\ \A j \in Instances \ {i} : heir[j] # i)
        BY <1>1, <3>1, <3>2 DEF Initialising
      <3>4. heir'[i] = i
        BY <1>1, <3>2, <3>3
      <3>5. ASSUME i \in alive', NEW j \in Instances \ {i} PROVE heir'[j] # i
        <4>1. i \in alive /\ stateFile[i] # "whole" /\ heir[j] # i
          BY <3>3, <3>5
        <4>2. CASE heir' = heir
          BY <4>1, <4>2
        <4>3. CASE stateFile[Top.from] = "whole" /\ heir' = [heir EXCEPT ![Top.self] = Top.from]
          BY <1>1, <4>1, <4>3
        <4> QED
          BY <4>2, <4>3
      <3>6. i \in alive' => stateFile'[i] # "whole"
        BY <3>3
      <3> QED
        BY <3>2, <3>4, <3>5, <3>6
    <2>2. Len(frames') = n
      BY <1>2
    <2> QED
      BY <2>1, <2>2, Zenon DEF Initialising
  <1>7. Running' /\ Top' = frames[n]
    <2>1. frames' # << >>
      BY <1>1, <1>2
    <2>2. Top' = frames'[n]
      BY <1>2 DEF Top
    <2> QED
      BY <1>1, <1>2, <2>1, <2>2 DEF Running
  <1> QED
    BY <1>1, <1>2, <1>5, <1>6, <1>7 DEF n

(* Only the jobs of the table change. *)
LEMMA JobsChange ==
    ASSUME CtxInv, UNCHANGED <<contexts, active_ctx_id, context_count, alive, born, extState, extMade>>,
           ctxJobs' \subseteq alive
    PROVE  Consistent(Table)'
  <1>1. Table \in CtxTables /\ Consistent(Table) /\ alive \subseteq Instances
    BY CtxFacts DEF CtxInv, Consistent
  <1>2. Table' = [Table EXCEPT !.jobs = ctxJobs']
    BY DEF Table
  <1>3. PICK u : u = [Table EXCEPT !.jobs = ctxJobs']
    OBVIOUS
  <1>4. /\ u \in CtxTables /\ u.tab = contexts /\ u.active = active_ctx_id /\ u.n = context_count /\ u.alive = alive
        /\ u.jobs = ctxJobs' /\ u.ext = extState /\ u.made = extMade /\ u.born = born
    BY <1>1, <1>3, TableFields DEF CtxTables
  <1>5. Consistent(u)
    BY <1>1, <1>4, TableFields DEF Consistent
  <1> QED
    BY <1>2, <1>3, <1>5

LEMMA LinesSame ==
    ASSUME CtxInv, UNCHANGED <<alive, born, stateFile, heir, given>>
    PROVE  Unborn' /\ StateIsKept'
  BY DEF CtxInv, Unborn, StateIsKept

LEMMA ActiveSame ==
    ASSUME CtxInv, UNCHANGED <<contexts, active_ctx_id, frames, nested>>
    PROVE  ActiveIsRight'
  BY DEF CtxInv, ActiveIsRight, Running, Top

(* The slot of another context is cleared. *)
LEMMA ActiveKept ==
    ASSUME CtxInv, UNCHANGED <<active_ctx_id, frames, nested>>, NEW id \in Slots, id # active_ctx_id,
           contexts' = [contexts EXCEPT ![id] = Bad]
    PROVE  ActiveIsRight'
  <1>1. \A s \in Slots : contexts'[s] # Bad => contexts[s] # Bad
    BY CtxFacts
  <1>2. active_ctx_id \in Slots => contexts'[active_ctx_id] = contexts[active_ctx_id]
    BY CtxFacts
  <1>3. Running' = Running /\ Top' = Top /\ 0 \in Slots /\ ActiveIsRight
    BY SlotFacts DEF Running, Top, CtxInv
  <1> QED
    BY <1>1, <1>2, <1>3 DEF ActiveIsRight

(* What was left in a slot is destroyed, and its line given up. *)
LEMMA ClearedKeeps ==
    ASSUME CtxInv, NEW id \in Slots, id # active_ctx_id
    PROVE  \E v \in CtxTables :
              /\ v = Cleared(id) /\ Consistent(v) /\ v.tab = [contexts EXCEPT ![id] = Bad]
              /\ v.active = active_ctx_id /\ v.born = born /\ v.alive \subseteq alive
              /\ given \subseteq GivenUp(id)
              /\ \A j \in alive \ v.alive : heir[j] \in GivenUp(id)
  <1>1. Consistent(Table) /\ Table \in CtxTables /\ contexts \in [Slots -> Instances \cup {Bad}]
    BY CtxFacts DEF CtxInv, Consistent
  <1>2. given \subseteq GivenUp(id)
    BY DEF GivenUp
  <1>3. CASE contexts[id] = Bad
    <2>1. [contexts EXCEPT ![id] = Bad] = contexts
      BY <1>1, <1>3
    <2> QED
      BY <1>1, <1>2, <1>3, <2>1, TableFields DEF Cleared
  <1>4. CASE contexts[id] # Bad
    <2>1. contexts[id] \in alive
      BY <1>4, CtxFacts
    <2>2. PICK v \in CtxTables, slot \in Slots :
              /\ v = Destroy(Table, contexts[id]) /\ Consistent(v) /\ contexts[slot] = contexts[id]
              /\ v.tab = [contexts EXCEPT ![slot] = Bad]
              /\ (active_ctx_id # slot => v.active = active_ctx_id)
              /\ v.alive = alive \ {contexts[id]} /\ v.born = born
      BY <1>1, <2>1, DestroyKeeps, TableFields
    <2>3. slot = id
      BY <1>4, <2>2, CtxFacts
    <2>4. \A j \in alive \ v.alive : heir[j] \in GivenUp(id)
      BY <1>4, <2>2 DEF GivenUp
    <2>5. v = Cleared(id)
      BY <1>4, <2>2 DEF Cleared
    <2>6. v.alive \subseteq alive
      BY <2>2
    <2> QED
      BY <1>2, <2>2, <2>3, <2>4, <2>5, <2>6
  <1> QED
    BY <1>3, <1>4

-----------------------------------------------------------------------------
(* The steps *)

LEMMA CtxStarts == CtxInit => CtxInv
  <1> SUFFICES ASSUME CtxInit PROVE CtxInv
    OBVIOUS
  <1>1. Table \in CtxTables
    <2>1. /\ contexts \in [Slots -> Instances \cup {Bad}] /\ active_ctx_id \in -1 .. MaxContexts - 1
          /\ context_count \in Nat /\ alive \in SUBSET Instances /\ ctxJobs \in SUBSET Instances
          /\ extState \in Nat /\ extMade \in Nat /\ born \in Nat
      BY ContextsAssumption DEF CtxInit
    <2> QED
      BY <2>1 DEF Table, CtxTables
  <1>2. Occupied(contexts) = {} /\ {contexts[s] : s \in Slots} \ {Bad} = {}
    BY DEF CtxInit, Occupied
  <1>3. context_count = Cardinality(Occupied(contexts))
    BY <1>2, FS_EmptySet DEF CtxInit
  <1>4. \A r, s \in Slots : contexts[r] = contexts[s] /\ r # s => contexts[r] = Bad
    BY DEF CtxInit
  <1>5. ctxJobs \subseteq alive /\ alive \subseteq 1 .. born /\ extState <= extMade /\ born <= MaxInstances
    BY ContextsAssumption DEF CtxInit
  <1>6. Consistent(Table)
    <2>1. {contexts[s] : s \in Slots} \ {Bad} = alive
      BY <1>2 DEF CtxInit
    <2> QED
      BY <1>1, <1>3, <1>4, <1>5, <2>1, TableFields DEF Consistent
  <1>7. frames = << >> /\ Len(frames) = 0 /\ born = 0 /\ ~Running
    BY EmptySeq DEF CtxInit, Running
  <1>8. CtxTypes
    BY EmptySeq DEF CtxInit, CtxTypes
  <1>9. Nesting /\ Initialising
    <2>1. 1 .. 0 = {} /\ 2 .. 0 = {}
      OBVIOUS
    <2> QED
      BY <1>7, <2>1 DEF Nesting, Initialising
  <1>10. Unborn
    <2>1. \A i \in Instances : ~(i <= 0)
      BY ContextsAssumption DEF Instances
    <2> QED
      BY <1>7, <2>1 DEF Unborn, CtxInit
  <1>11. ActiveIsRight
    <2>1. contexts[0] = Bad
      BY SlotFacts DEF CtxInit
    <2> QED
      BY <1>7, <2>1 DEF ActiveIsRight
  <1>12. StateIsKept
    BY <1>7 DEF StateIsKept
  <1> QED
    BY <1>6, <1>8, <1>9, <1>10, <1>11, <1>12 DEF CtxInv

(* A step that leaves the table, the scripts and the lines as they are. *)
LEMMA CtxSame ==
    ASSUME CtxInv,
           UNCHANGED <<contexts, active_ctx_id, context_count, alive, born, frames, ctxJobs, extState, extMade,
                       stateFile, heir, given, nested>>,
           ctxIo' \subseteq Instances
    PROVE  CtxInv'
  <1>1. Consistent(Table)'
    BY JobsChange, CtxFacts
  <1>2. Nesting' /\ Initialising'
    BY ScriptsStay
  <1>3. CtxTypes'
    BY DEF CtxInv, CtxTypes
  <1> QED
    BY <1>1, <1>2, <1>3, LinesSame, ActiveSame DEF CtxInv

LEMMA CreateHere ==
    ASSUME CtxInv, NEW slot \in Slots, contexts[slot] = Bad, born < MaxInstances
    PROVE  \E u \in CtxTables :
              /\ u = CreateAt(Table, slot) /\ Consistent(u)
              /\ u.tab = [contexts EXCEPT ![slot] = born + 1] /\ u.active = slot
              /\ u.alive = alive \cup {born + 1} /\ u.born = born + 1
  <1>1. PICK t : t = Table
    OBVIOUS
  <1>2. t.tab = contexts /\ t.alive = alive /\ t.born = born /\ Consistent(t)
    BY <1>1, TableFields DEF CtxInv
  <1>3. PICK u \in CtxTables :
              /\ u = CreateAt(t, slot) /\ Consistent(u)
              /\ u.tab = [t.tab EXCEPT ![slot] = t.born + 1] /\ u.active = slot
              /\ u.alive = t.alive \cup {t.born + 1} /\ u.born = t.born + 1
    BY <1>2, CreateKeeps
  <1>4. /\ u = CreateAt(Table, slot) /\ Consistent(u)
        /\ u.tab = [contexts EXCEPT ![slot] = born + 1] /\ u.active = slot
        /\ u.alive = alive \cup {born + 1} /\ u.born = born + 1
    BY <1>1, <1>2, <1>3
  <1> QED
    BY <1>3, <1>4, Zenon

LEMMA DestroyHere ==
    ASSUME CtxInv, NEW i \in alive
    PROVE  \E u \in CtxTables, slot \in Slots :
              /\ u = Destroy(Table, i) /\ Consistent(u) /\ contexts[slot] = i
              /\ u.tab = [contexts EXCEPT ![slot] = Bad]
              /\ (active_ctx_id # slot => u.active = active_ctx_id)
              /\ u.alive = alive \ {i} /\ u.born = born
  <1>1. PICK t : t = Table
    OBVIOUS
  <1>2. t.tab = contexts /\ t.alive = alive /\ t.born = born /\ t.active = active_ctx_id /\ Consistent(t)
    BY <1>1, TableFields, Zenon DEF CtxInv
  <1>3. PICK u \in CtxTables, slot \in Slots :
              /\ u = Destroy(t, i) /\ Consistent(u) /\ t.tab[slot] = i
              /\ u.tab = [t.tab EXCEPT ![slot] = Bad]
              /\ (t.active # slot => u.active = t.active)
              /\ u.alive = t.alive \ {i} /\ u.born = t.born
    <2>1. i \in t.alive /\ Consistent(t)
      BY <1>2
    <2> QED
      BY <2>1, DestroyKeeps
  <1>4. /\ u = Destroy(Table, i) /\ Consistent(u) /\ contexts[slot] = i
        /\ u.tab = [contexts EXCEPT ![slot] = Bad]
        /\ (active_ctx_id # slot => u.active = active_ctx_id)
        /\ u.alive = alive \ {i} /\ u.born = born
    BY <1>1, <1>2, <1>3
  <1> QED
    BY <1>3, <1>4, Zenon

LEMMA BornInstances == ASSUME CtxInv, NEW k \in 1 .. born PROVE k \in Instances /\ heir[k] \in Instances
  <1>1. k \in Instances
    BY CtxFacts, ContextsAssumption DEF Instances
  <1> QED
    BY <1>1 DEF CtxInv, CtxTypes

LEMMA CtxBoot == CtxInv /\ Boot => CtxInv'
  <1> SUFFICES ASSUME CtxInv, Boot PROVE CtxInv'
    OBVIOUS
  <1>1. born = 0 /\ born < MaxInstances /\ Consistent(Table) /\ 0 \in Slots
    BY SlotFacts DEF Boot, CanCreate, CtxInv
  <1>2. contexts[0] = Bad
    <2>1. alive = {}
      BY <1>1, CtxFacts
    <2> QED
      BY <1>1, <2>1, CtxFacts
  <1>3. PICK u \in CtxTables :
              /\ u = CreateAt(Table, 0) /\ Consistent(u) /\ u.active = 0
              /\ u.alive = alive \cup {born + 1} /\ u.born = born + 1
    BY <1>1, <1>2, CreateHere
  <1>4. SetTable(u) /\ frames' = frames /\ heir' = heir /\ stateFile' = stateFile /\ given' = given
    BY <1>3 DEF Boot
  <1>5. active_ctx_id' = 0 /\ alive' = alive \cup {born + 1} /\ born' = born + 1
    BY <1>3, <1>4, SetsTable
  <1>6. Consistent(Table)' /\ Unborn' /\ StateIsKept'
    <2>1. /\ u.born \in {born, born + 1} /\ given \subseteq given' /\ u.alive \subseteq alive \cup {born + 1}
          /\ born + 1 \in u.alive \cup given' /\ \A j \in alive \ u.alive : heir[j] \in given'
      BY <1>3, <1>4
    <2> QED
      BY <1>3, <1>4, <2>1, LinesKept
  <1>7. Nesting' /\ Initialising'
    BY <1>4, <1>5, ScriptsStay
  <1>8. CtxTypes'
    BY DEF CtxInv, CtxTypes, Boot
  <1>9. ActiveIsRight'
    <2>1. ASSUME Running PROVE FALSE
      <3>1. Top.self \in Instances /\ Top.self <= 0
        BY <1>1, <2>1, TopFacts
      <3> QED
        BY <3>1, ContextsAssumption DEF Instances
    <2>2. ~Running'
      BY <1>4, <2>1 DEF Running
    <2> QED
      BY <1>5, <2>2 DEF ActiveIsRight
  <1> QED
    BY <1>6, <1>7, <1>8, <1>9 DEF CtxInv

(* No script runs but a task that begins. *)
LEMMA TaskBegins ==
    ASSUME CtxInv, ~Running, NEW i \in alive,
           frames' = <<[call |-> "task", self |-> i, from |-> Bad]>>, ctxJobs' \subseteq alive,
           UNCHANGED <<contexts, active_ctx_id, context_count, alive, born, ctxIo, extState, extMade,
                       stateFile, heir, given, nested>>
    PROVE  CtxInv'
  <1> DEFINE r == [call |-> "task", self |-> i, from |-> Bad]
  <1>1. i \in Instances /\ i \in 1 .. born /\ born \in Nat
    BY CtxFacts
  <1>2. r \in Scripts /\ r.call = "task" /\ r.self = i
    BY <1>1 DEF Scripts
  <1>3. frames' = <<r>>
    OBVIOUS
  <1> HIDE DEF r
  <1>4. frames' \in Seq(Scripts) /\ Len(frames') = 1 /\ frames'[1] = r /\ frames' # << >>
    BY <1>2, <1>3
  <1>5. Consistent(Table)'
    BY JobsChange
  <1>6. CtxTypes'
    BY <1>4 DEF CtxInv, CtxTypes
  <1>7. Nesting'
    <2>1. i <= born /\ 1 .. 1 = {1} /\ 1 .. 1 - 1 = {}
      BY <1>1
    <2>2. \A k \in 1 .. Len(frames') : k = 1
      BY <1>4
    <2>3. \A l \in 1 .. 1 - 1 : FALSE
      BY <2>1
    <2> QED
      BY <1>2, <1>4, <2>1, <2>2, <2>3 DEF Nesting
  <1>8. Initialising'
    <2>1. 2 .. Len(frames') = {}
      BY <1>4
    <2> QED
      BY <2>1 DEF Initialising
  <1>9. ActiveIsRight'
    <2>1. (Top.call)' = "task"
      BY <1>2, <1>4 DEF Top
    <2> QED
      BY <2>1 DEF ActiveIsRight, CtxInv
  <1> QED
    BY <1>5, <1>6, <1>7, <1>8, <1>9, LinesSame DEF CtxInv

LEMMA CtxBeginJob == ASSUME CtxInv, NEW i \in Instances, BeginJob(i) PROVE CtxInv'
  <1>1. i \in alive /\ ctxJobs' \subseteq alive
    BY CtxFacts DEF BeginJob
  <1> QED
    BY <1>1, TaskBegins DEF BeginJob

LEMMA CtxBeginMessage == CtxInv /\ BeginMessage => CtxInv'
  <1> SUFFICES ASSUME CtxInv, BeginMessage PROVE CtxInv'
    OBVIOUS
  <1>1. contexts[0] \in alive /\ ctxJobs' \subseteq alive
    BY CtxFacts, SlotFacts DEF BeginMessage
  <1> QED
    BY <1>1, TaskBegins DEF BeginMessage

LEMMA CtxIoDone == ASSUME CtxInv, NEW i \in Instances, IoDone(i) PROVE CtxInv'
  <1>1. /\ ctxJobs' \subseteq alive /\ ctxIo' \subseteq Instances
        /\ UNCHANGED <<contexts, active_ctx_id, context_count, alive, born, frames, extState, extMade,
                       stateFile, heir, given, nested>>
    BY CtxFacts DEF IoDone, CtxInv, CtxTypes
  <1>2. Consistent(Table)'
    BY <1>1, JobsChange
  <1>3. Nesting' /\ Initialising'
    BY <1>1, ScriptsStay
  <1>4. CtxTypes'
    BY <1>1 DEF CtxInv, CtxTypes
  <1> QED
    BY <1>1, <1>2, <1>3, <1>4, LinesSame, ActiveSame DEF CtxInv

LEMMA CtxQueueJob == CtxInv /\ QueueJob => CtxInv'
  <1> SUFFICES ASSUME CtxInv, QueueJob PROVE CtxInv'
    OBVIOUS
  <1>1. /\ ctxJobs' \subseteq alive /\ ctxIo' \subseteq Instances
        /\ UNCHANGED <<contexts, active_ctx_id, context_count, alive, born, frames, extState, extMade,
                       stateFile, heir, given, nested>>
    BY CtxFacts DEF QueueJob, CtxInv, CtxTypes
  <1>2. Consistent(Table)'
    BY <1>1, JobsChange
  <1>3. Nesting' /\ Initialising'
    BY <1>1, ScriptsStay
  <1>4. CtxTypes'
    BY <1>1 DEF CtxInv, CtxTypes
  <1> QED
    BY <1>1, <1>2, <1>3, <1>4, LinesSame, ActiveSame DEF CtxInv

LEMMA CtxStartIo == CtxInv /\ (StartIo \/ UseExtension) => CtxInv'
  <1> SUFFICES ASSUME CtxInv, StartIo \/ UseExtension PROVE CtxInv'
    OBVIOUS
  <1>1. ctxIo' \subseteq Instances
    BY CtxFacts DEF StartIo, UseExtension, CtxInv, CtxTypes
  <1>2. UNCHANGED <<contexts, active_ctx_id, context_count, alive, born, frames, ctxJobs, extState, extMade,
                    stateFile, heir, given, nested>>
    BY DEF StartIo, UseExtension
  <1> QED
    BY <1>1, <1>2, CtxSame

LEMMA CtxSpawn == CtxInv /\ Spawn => CtxInv'
  <1> SUFFICES ASSUME CtxInv, Spawn PROVE CtxInv'
    OBVIOUS
  <1>1. /\ born < MaxInstances /\ Running /\ FirstFree(Table) \in Slots /\ contexts[FirstFree(Table)] = Bad
        /\ frames' = Append(frames, [call |-> "spawn", self |-> born + 1, from |-> Bad])
        /\ UNCHANGED <<ctxIo, stateFile, heir, given, nested>>
    BY FirstFreeIsFree, TableFields DEF Spawn, Calling, InScript, CanCreate
  <1>2. PICK slot \in Slots : slot = FirstFree(Table)
    BY <1>1
  <1>3. PICK u \in CtxTables :
              /\ u = CreateAt(Table, slot) /\ Consistent(u)
              /\ u.tab = [contexts EXCEPT ![slot] = born + 1] /\ u.active = slot
              /\ u.alive = alive \cup {born + 1} /\ u.born = born + 1
    BY <1>1, <1>2, CreateHere
  <1>4. SetTable(u)
    BY <1>2, <1>3 DEF Spawn
  <1>5. /\ contexts' = [contexts EXCEPT ![slot] = born + 1] /\ active_ctx_id' = slot
        /\ alive' = alive \cup {born + 1} /\ born' = born + 1
    BY <1>3, <1>4, SetsTable
  <1>6. Consistent(Table)' /\ Unborn' /\ StateIsKept'
    <2>1. /\ u.born \in {born, born + 1} /\ given \subseteq given' /\ u.alive \subseteq alive \cup {born + 1}
          /\ born + 1 \in u.alive \cup given' /\ \A j \in alive \ u.alive : heir[j] \in given'
      BY <1>1, <1>3
    <2> QED
      BY <1>1, <1>3, <1>4, <2>1, LinesKept
  <1>7. /\ frames' \in Seq(Scripts) /\ Nesting' /\ Initialising'
        /\ Running' /\ (Top.call)' = "spawn" /\ (Top.self)' = born + 1
    BY <1>1, <1>5, ScriptBegins
  <1>8. CtxTypes'
    BY <1>1, <1>7 DEF CtxInv, CtxTypes
  <1>9. ActiveIsRight'
    <2>1. active_ctx_id' \in Slots /\ contexts'[active_ctx_id'] = born + 1
      BY <1>5, CtxFacts
    <2> QED
      BY <1>7, <2>1 DEF ActiveIsRight
  <1> QED
    BY <1>6, <1>7, <1>8, <1>9 DEF CtxInv

(* A creation that fails, in a slot that is free or was cleared. *)
LEMMA NothingCreated ==
    ASSUME CtxInv, NEW v \in CtxTables, Consistent(v), NEW slot \in Slots, v.tab[slot] = Bad, born < MaxInstances,
           v.active = active_ctx_id, v.born = born, v.alive \subseteq alive,
           \A j \in alive \ v.alive : heir[j] \in given', given \subseteq given', born + 1 \in given',
           SetTable(CreateFails(v, slot)), UNCHANGED <<frames, ctxIo, stateFile, heir, nested>>,
           v.tab = contexts \/ \E id \in Slots : id # active_ctx_id /\ v.tab = [contexts EXCEPT ![id] = Bad]
    PROVE  CtxInv'
  <1>1. PICK u \in CtxTables :
              /\ u = CreateFails(v, slot) /\ Consistent(u)
              /\ u.tab = v.tab /\ u.active = v.active
              /\ u.alive = v.alive /\ u.born = v.born + 1
    BY FailKeeps
  <1>2. SetTable(u)
    BY <1>1
  <1>3. contexts' = v.tab /\ active_ctx_id' = active_ctx_id /\ alive' = v.alive /\ born' = born + 1
    BY <1>1, <1>2, SetsTable
  <1>4. Consistent(Table)' /\ Unborn' /\ StateIsKept'
    <2>1. /\ u.born \in {born, born + 1} /\ u.alive \subseteq alive \cup {born + 1}
          /\ born + 1 \in u.alive \cup given' /\ \A j \in alive \ u.alive : heir[j] \in given'
      BY <1>1
    <2> QED
      BY <1>1, <1>2, <2>1, LinesKept
  <1>5. Nesting' /\ Initialising'
    BY <1>3, ScriptsStay
  <1>6. CtxTypes'
    BY DEF CtxInv, CtxTypes
  <1>7. ActiveIsRight'
    BY <1>3, ActiveSame, ActiveKept
  <1> QED
    BY <1>4, <1>5, <1>6, <1>7 DEF CtxInv

LEMMA CtxSpawnFails == CtxInv /\ SpawnFails => CtxInv'
  <1> SUFFICES ASSUME CtxInv, SpawnFails PROVE CtxInv'
    OBVIOUS
  <1>1. /\ born < MaxInstances /\ FirstFree(Table) \in Slots /\ contexts[FirstFree(Table)] = Bad
        /\ given' = given \cup {born + 1} /\ UNCHANGED <<frames, ctxIo, stateFile, heir, nested>>
        /\ SetTable(CreateFails(Table, FirstFree(Table)))
    BY FirstFreeIsFree, TableFields DEF SpawnFails, Calling, CanCreate
  <1>2. PICK v \in CtxTables : v = Table /\ Consistent(v)
    BY DEF CtxInv, Consistent
  <1>3. v.tab = contexts /\ v.active = active_ctx_id /\ v.born = born /\ v.alive = alive
    BY <1>2, TableFields
  <1>4. PICK slot \in Slots : slot = FirstFree(Table)
    BY <1>1
  <1> QED
    BY <1>1, <1>2, <1>3, <1>4, NothingCreated

LEMMA CtxRebuildFails == ASSUME CtxInv, NEW id \in Slots, RebuildFails(id) PROVE CtxInv'
  <1>1. /\ born < MaxInstances /\ id # active_ctx_id /\ given' = GivenUp(id) \cup {born + 1}
        /\ SetTable(CreateFails(Cleared(id), id)) /\ UNCHANGED <<frames, ctxIo, stateFile, heir, nested>>
    BY DEF RebuildFails, Calling, CanCreate
  <1>2. PICK v \in CtxTables :
              /\ v = Cleared(id) /\ Consistent(v) /\ v.tab = [contexts EXCEPT ![id] = Bad]
              /\ v.active = active_ctx_id /\ v.born = born /\ v.alive \subseteq alive
              /\ given \subseteq GivenUp(id)
              /\ \A j \in alive \ v.alive : heir[j] \in GivenUp(id)
    BY <1>1, ClearedKeeps
  <1>3. v.tab[id] = Bad
    BY <1>2, CtxFacts
  <1>4. SetTable(CreateFails(v, id))
    BY <1>1, <1>2
  <1>5. given \subseteq given' /\ born + 1 \in given' /\ \A j \in alive \ v.alive : heir[j] \in given'
    BY <1>1, <1>2
  <1> QED
    BY <1>1, <1>2, <1>3, <1>4, <1>5, NothingCreated

LEMMA CtxRebuild == ASSUME CtxInv, NEW id \in Slots, NEW line \in Instances, Rebuild(id, line) PROVE CtxInv'
  <1>1. /\ born < MaxInstances /\ Running /\ id # active_ctx_id /\ given' = GivenUp(id)
        /\ frames' = Append(frames, [call |-> "rebuild", self |-> born + 1, from |-> line])
        /\ SetTable(CreateAt(Cleared(id), id)) /\ UNCHANGED <<ctxIo, stateFile, heir, nested>>
    BY DEF Rebuild, Calling, InScript, CanCreate
  <1>2. PICK v \in CtxTables :
              /\ v = Cleared(id) /\ Consistent(v) /\ v.tab = [contexts EXCEPT ![id] = Bad]
              /\ v.active = active_ctx_id /\ v.born = born /\ v.alive \subseteq alive
              /\ given \subseteq GivenUp(id)
              /\ \A j \in alive \ v.alive : heir[j] \in GivenUp(id)
    BY <1>1, ClearedKeeps
  <1>3. v.tab[id] = Bad /\ v.born < MaxInstances
    BY <1>1, <1>2, CtxFacts
  <1>4. PICK u \in CtxTables :
              /\ u = CreateAt(v, id) /\ Consistent(u)
              /\ u.tab = [v.tab EXCEPT ![id] = v.born + 1] /\ u.active = id
              /\ u.alive = v.alive \cup {v.born + 1} /\ u.born = v.born + 1
    <2>1. Consistent(v) /\ v.tab[id] = Bad /\ v.born < MaxInstances
      BY <1>2, <1>3
    <2> QED
      BY <2>1, CreateKeeps
  <1>5. SetTable(u)
    BY <1>1, <1>2, <1>4
  <1>6. contexts'[id] = born + 1 /\ active_ctx_id' = id /\ alive' = v.alive \cup {born + 1} /\ born' = born + 1
    <2>1. contexts' = u.tab /\ active_ctx_id' = u.active /\ alive' = u.alive /\ born' = u.born
      BY <1>4, <1>5, SetsTable
    <2>2. v.tab \in [Slots -> Instances \cup {Bad}] /\ v.born = born /\ v \in CtxTables
      BY <1>2 DEF CtxTables
    <2> QED
      BY <1>4, <2>1, <2>2
  <1>7. Consistent(Table)' /\ Unborn' /\ StateIsKept'
    <2>1. /\ u.born \in {born, born + 1} /\ given \subseteq given' /\ u.alive \subseteq alive \cup {born + 1}
          /\ born + 1 \in u.alive \cup given' /\ \A j \in alive \ u.alive : heir[j] \in given'
      BY <1>1, <1>2, <1>4
    <2> QED
      BY <1>1, <1>4, <1>5, <2>1, LinesKept
  <1>8. /\ frames' \in Seq(Scripts) /\ Nesting' /\ Initialising'
        /\ Running' /\ (Top.call)' = "rebuild" /\ (Top.self)' = born + 1
    <2>1. line # Bad /\ alive' \subseteq alive \cup {born + 1}
      BY <1>2, <1>6, InstancesAreNat
    <2> QED
      BY <1>1, <1>6, <2>1, ScriptBegins
  <1>9. CtxTypes'
    BY <1>1, <1>8 DEF CtxInv, CtxTypes
  <1>10. ActiveIsRight'
    BY <1>6, <1>8 DEF ActiveIsRight
  <1> QED
    BY <1>7, <1>8, <1>9, <1>10 DEF CtxInv

LEMMA CtxDestroyId == ASSUME CtxInv, NEW id \in Slots, DestroyId(id) PROVE CtxInv'
  <1>1. /\ id # active_ctx_id /\ given' = GivenUp(id) /\ SetTable(Cleared(id))
        /\ UNCHANGED <<frames, ctxIo, stateFile, heir, nested>>
    BY DEF DestroyId, Calling, Cleared
  <1>2. PICK v \in CtxTables :
              /\ v = Cleared(id) /\ Consistent(v) /\ v.tab = [contexts EXCEPT ![id] = Bad]
              /\ v.active = active_ctx_id /\ v.born = born /\ v.alive \subseteq alive
              /\ given \subseteq GivenUp(id)
              /\ \A j \in alive \ v.alive : heir[j] \in GivenUp(id)
    BY <1>1, ClearedKeeps
  <1>3. SetTable(v)
    BY <1>1, <1>2
  <1>4. contexts' = [contexts EXCEPT ![id] = Bad] /\ active_ctx_id' = active_ctx_id /\ alive' = v.alive /\ born' = born
    BY <1>2, <1>3, SetsTable
  <1>5. Consistent(Table)' /\ Unborn' /\ StateIsKept'
    <2>1. /\ v.born \in {born, born + 1} /\ given \subseteq given' /\ v.alive \subseteq alive \cup {born + 1}
          /\ v.born # born + 1 /\ \A j \in alive \ v.alive : heir[j] \in given'
      BY <1>1, <1>2, CtxFacts
    <2> QED
      BY <1>1, <1>2, <1>3, <2>1, LinesKept
  <1>6. Nesting' /\ Initialising'
    <2>1. alive' \subseteq alive \cup {born + 1}
      BY <1>2, <1>4
    <2> QED
      BY <1>1, <1>4, <2>1, ScriptsStay
  <1>7. CtxTypes'
    BY <1>1 DEF CtxInv, CtxTypes
  <1>8. ActiveIsRight'
    BY <1>1, <1>4, ActiveKept
  <1> QED
    BY <1>5, <1>6, <1>7, <1>8 DEF CtxInv

(* A write that fails leaves the context; one that succeeds leaves the state. *)
LEMMA CtxSerialize == ASSUME CtxInv, NEW id \in Slots, NEW written \in BOOLEAN, Serialize(id, written) PROVE CtxInv'
  <1>1. PICK i \in alive : i = contexts[id]
    BY CtxFacts DEF Serialize
  <1>2. /\ id # active_ctx_id /\ UNCHANGED <<frames, ctxIo, heir, given, nested>>
        /\ stateFile' = [stateFile EXCEPT ![heir[i]] = IF written THEN "whole" ELSE "torn"]
        /\ SetTable(IF written THEN Destroy(Table, i) ELSE Table)
    BY <1>1 DEF Serialize, Calling
  <1>3. PICK l \in Instances : l = heir[i]
    BY CtxFacts DEF CtxInv, CtxTypes
  <1>4. PICK st : st = IF written THEN "whole" ELSE "torn"
    OBVIOUS
  <1>5. /\ stateFile \in [Instances -> {"none", "torn", "whole"}]
        /\ stateFile' = [stateFile EXCEPT ![l] = st] /\ st \in {"torn", "whole"} /\ (st = "whole" <=> written)
    BY <1>2, <1>3, <1>4 DEF CtxInv, CtxTypes
  <1>6. PICK u \in CtxTables :
              /\ SetTable(u) /\ Consistent(u) /\ u.active = active_ctx_id /\ u.born = born
              /\ u.tab = [contexts EXCEPT ![id] = Bad] \/ u.tab = contexts
              /\ u.alive \subseteq alive /\ alive \ u.alive \subseteq {i}
              /\ (written => u.alive = alive \ {i}) /\ (~written => u.alive = alive)
    <2>0. contexts[id] # Bad /\ Consistent(Table) /\ Table \in CtxTables
      BY DEF Serialize, CtxInv, Consistent
    <2>1. CASE written
      <3>1. PICK u \in CtxTables, slot \in Slots :
                /\ u = Destroy(Table, i) /\ Consistent(u) /\ contexts[slot] = i
                /\ u.tab = [contexts EXCEPT ![slot] = Bad]
                /\ (active_ctx_id # slot => u.active = active_ctx_id)
                /\ u.alive = alive \ {i} /\ u.born = born
        BY DestroyHere
      <3>2. slot = id
        BY <1>1, <2>0, <3>1, CtxFacts
      <3>3. SetTable(u) /\ u.active = active_ctx_id
        BY <1>2, <2>1, <3>1, <3>2
      <3>4. u.alive \subseteq alive /\ alive \ u.alive \subseteq {i}
        BY <3>1
      <3> QED
        BY <2>1, <3>1, <3>2, <3>3, <3>4
    <2>2. CASE ~written
      <3>1. PICK u \in CtxTables : u = Table
        BY <2>0
      <3>2. /\ u.active = active_ctx_id /\ u.born = born /\ u.tab = contexts /\ u.alive = alive
            /\ SetTable(u) /\ Consistent(u)
        BY <1>2, <2>0, <2>2, <3>1, TableFields
      <3> QED
        BY <2>2, <3>1, <3>2
    <2> QED
      BY <2>1, <2>2
  <1>7. /\ contexts' = u.tab /\ active_ctx_id' = active_ctx_id /\ alive' = u.alive /\ born' = born
        /\ Consistent(Table)' /\ i \in 1 .. born /\ born \in Nat
    BY <1>6, SetsTable, CtxFacts
  <1>8. CtxTypes'
    BY <1>2, <1>5 DEF CtxInv, CtxTypes
  <1>9. Nesting'
    BY <1>2, <1>7 DEF CtxInv, Nesting
  <1>10. Unborn'
    <2>1. i \in Nat /\ l <= born /\ l \in Nat
      <3>1. i \in Instances /\ i <= born
        BY <1>7, CtxFacts
      <3> QED
        BY <1>3, <3>1, InstancesAreNat DEF CtxInv, Unborn
    <2>2. ASSUME NEW k \in Instances, k > born PROVE stateFile'[k] = "none"
      <3>1. k # l /\ stateFile[k] = "none"
        BY <1>7, <2>1, <2>2, InstancesAreNat DEF CtxInv, Unborn
      <3> QED
        BY <1>5, <3>1
    <2> QED
      BY <1>2, <1>7, <2>2 DEF CtxInv, Unborn
  <1>11. Initialising'
    <2>1. ASSUME NEW k \in 2 .. Len(frames), frames[k].self \in alive'
          PROVE  stateFile'[frames[k].self] # "whole"
      <3>1. frames[k].self \in alive /\ (written => frames[k].self # i)
        <4>1. CASE written
          <5>1. i \notin alive'
            BY <1>6, <1>7, <4>1
          <5> QED
            BY <1>6, <1>7, <2>1, <5>1
        <4>2. CASE ~written
          BY <1>6, <1>7, <2>1, <4>2
        <4> QED
          BY <4>1, <4>2
      <3>2. stateFile[frames[k].self] # "whole" /\ \A j \in Instances \ {frames[k].self} : heir[j] # frames[k].self
        BY <3>1 DEF CtxInv, Initialising
      <3>3. written => l # frames[k].self
        BY <1>3, <3>1, <3>2, CtxFacts
      <3> QED
        BY <1>5, <3>1, <3>2, <3>3, CtxFacts
    <2>2. \A k \in 2 .. Len(frames) : frames[k].self \in alive' => frames[k].self \in alive
      BY <1>6, <1>7
    <2> QED
      BY <1>2, <2>1, <2>2 DEF CtxInv, Initialising
  <1>12. ActiveIsRight'
    BY <1>2, <1>6, <1>7, ActiveSame, ActiveKept
  <1>13. StateIsKept'
    <2> SUFFICES ASSUME NEW k \in 1 .. born
                 PROVE  \/ heir[k] \in given
                        \/ \E j \in alive' : heir[j] = heir[k]
                        \/ stateFile'[heir[k]] = "whole"
      BY <1>2, <1>7 DEF StateIsKept
    <2>1. k \in Instances /\ heir[k] \in Instances
      BY BornInstances
    <2>2. \/ heir[k] \in given \/ (\E j \in alive : heir[j] = heir[k]) \/ stateFile[heir[k]] = "whole"
      BY DEF CtxInv, StateIsKept
    <2>3. CASE heir[k] = l
      <3>1. CASE written
        BY <1>5, <2>1, <2>3, <3>1
      <3>2. CASE ~written
        BY <1>3, <1>6, <1>7, <2>3, <3>2
      <3> QED
        BY <3>1, <3>2
    <2>4. CASE heir[k] # l
      <3>1. stateFile'[heir[k]] = stateFile[heir[k]]
        BY <1>5, <2>1, <2>4
      <3>2. \A j \in alive : heir[j] = heir[k] => j \in alive'
        BY <1>3, <1>6, <1>7, <2>4
      <3> QED
        BY <2>2, <3>1, <3>2
    <2> QED
      BY <2>3, <2>4
  <1> QED
    BY <1>7, <1>8, <1>9, <1>10, <1>11, <1>12, <1>13 DEF CtxInv

LEMMA CtxTaskEnds == CtxInv /\ TaskEnds => CtxInv'
  <1> SUFFICES ASSUME CtxInv, TaskEnds PROVE CtxInv'
    OBVIOUS
  <1>1. /\ Top.call = "task" /\ Running /\ frames' = << >> /\ ctxJobs' \subseteq alive
        /\ UNCHANGED <<contexts, active_ctx_id, context_count, alive, born, ctxIo, extState, extMade,
                       stateFile, heir, given, nested>>
    BY CtxFacts DEF TaskEnds
  <1>2. Consistent(Table)'
    BY <1>1, JobsChange
  <1>3. Nesting' /\ Initialising' /\ CtxTypes'
    <2>1. Len(frames') = 0 /\ 1 .. 0 = {} /\ 2 .. 0 = {} /\ frames' \in Seq(Scripts)
      BY <1>1, EmptySeq
    <2>2. Nesting' /\ Initialising'
      BY <2>1 DEF Nesting, Initialising
    <2> QED
      BY <1>1, <2>1, <2>2 DEF CtxInv, CtxTypes
  <1>4. ActiveIsRight'
    <2>1. ~Running'
      BY <1>1 DEF Running
    <2> QED
      BY <1>1, <2>1 DEF CtxInv, ActiveIsRight
  <1> QED
    BY <1>1, <1>2, <1>3, <1>4, LinesSame DEF CtxInv

(* A call that returns to the initial script of another is remembered. *)
LEMMA ActiveAfter ==
    ASSUME CtxInv, Running, Returns, Running', Top' = frames[Len(frames) - 1],
           contexts'[0] # Bad => active_ctx_id' = 0
    PROVE  ActiveIsRight' /\ nested' \in BOOLEAN
  <1>1. nested' = (nested \/ frames[Len(frames) - 1].call # "task") /\ nested \in BOOLEAN
    BY DEF Returns, CtxInv, CtxTypes
  <1>2. nested' \in BOOLEAN
    BY <1>1
  <1>3. ~nested' => (Top.call)' = "task"
    BY <1>1
  <1> QED
    BY <1>2, <1>3 DEF ActiveIsRight

(* The call of the script that ends returns, and its context may be destroyed. *)
LEMMA CallReturns ==
    ASSUME CtxInv, Running, Top.call # "task", Returns, UNCHANGED <<ctxIo, stateFile, heir>>,
           NEW u \in CtxTables, Consistent(u), SetTable(u), u.born = born,
           u.alive \subseteq alive, alive \ u.alive \subseteq {Top.self}, given \subseteq given',
           u.alive # alive => Top.self \in given', u.tab[0] # Bad => u.active = 0
    PROVE  CtxInv'
  <1>1. contexts' = u.tab /\ active_ctx_id' = u.active /\ alive' = u.alive /\ born' = born
    BY SetsTable
  <1>2. heir[Top.self] = Top.self
    BY TopFacts
  <1>3. Consistent(Table)' /\ Unborn' /\ StateIsKept'
    <2>1. \A j \in alive \ u.alive : heir[j] \in given'
      BY <1>2
    <2>2. u.born \in {born, born + 1} /\ u.born # born + 1 /\ u.alive \subseteq alive \cup {born + 1}
      BY CtxFacts
    <2> QED
      BY <2>1, <2>2, LinesKept
  <1>4. /\ frames' \in Seq(Scripts) /\ Nesting' /\ Initialising'
        /\ Running' /\ Top' = frames[Len(frames) - 1]
    BY <1>1, ScriptEnds DEF Returns
  <1>5. ActiveIsRight' /\ nested' \in BOOLEAN
    BY <1>1, <1>4, ActiveAfter
  <1>6. CtxTypes'
    BY <1>4, <1>5 DEF CtxInv, CtxTypes
  <1> QED
    BY <1>3, <1>4, <1>5, <1>6 DEF CtxInv

LEMMA CtxOwnGone == CtxInv /\ OwnGone => CtxInv'
  <1> SUFFICES ASSUME CtxInv, OwnGone PROVE CtxInv'
    OBVIOUS
  <1>1. /\ Running /\ Top.call # "task" /\ Returns /\ UNCHANGED <<ctxIo, stateFile, heir, given>>
        /\ SetTable(BackToMain(Table))
    BY DEF OwnGone
  <1>2. PICK u \in CtxTables :
              /\ u = BackToMain(Table) /\ Consistent(u) /\ u.tab = contexts
              /\ (contexts[0] # Bad => u.active = 0) /\ u.alive = alive /\ u.born = born
    BY BackKeeps, TableFields DEF CtxInv
  <1>3. SetTable(u) /\ u.alive \subseteq alive /\ alive \ u.alive \subseteq {Top.self} /\ given \subseteq given'
    BY <1>1, <1>2
  <1> QED
    BY <1>1, <1>2, <1>3, CallReturns

LEMMA CtxSpawnEnds == ASSUME CtxInv, NEW threw \in BOOLEAN, SpawnEnds(threw) PROVE CtxInv'
  <1>1. /\ Running /\ Top.call # "task" /\ Top.self \in alive /\ Returns /\ UNCHANGED <<ctxIo, stateFile, heir>>
        /\ SetTable(BackToMain(IF threw THEN Destroy(Table, Top.self) ELSE Table))
        /\ given' = IF threw THEN given \cup {Top.self} ELSE given
    BY DEF SpawnEnds, InScript
  <1>2. PICK v \in CtxTables :
              /\ v = (IF threw THEN Destroy(Table, Top.self) ELSE Table) /\ Consistent(v)
              /\ v.alive = (IF threw THEN alive \ {Top.self} ELSE alive) /\ v.born = born
    <2>0. Consistent(Table) /\ Table \in CtxTables
      BY DEF CtxInv, Consistent
    <2>1. CASE threw
      <3>1. PICK v \in CtxTables :
                v = Destroy(Table, Top.self) /\ Consistent(v) /\ v.alive = alive \ {Top.self} /\ v.born = born
        <4>1. PICK i \in alive : i = Top.self
          BY <1>1
        <4>2. PICK v \in CtxTables : v = Destroy(Table, i) /\ Consistent(v) /\ v.alive = alive \ {i} /\ v.born = born
          BY DestroyHere
        <4> QED
          BY <4>1, <4>2
      <3> QED
        BY <2>1, <3>1
    <2>2. CASE ~threw
      BY <2>0, <2>2, TableFields
    <2> QED
      BY <2>1, <2>2
  <1>3. PICK u \in CtxTables :
              /\ u = BackToMain(v) /\ Consistent(u) /\ u.tab = v.tab
              /\ (v.tab[0] # Bad => u.active = 0) /\ u.alive = v.alive /\ u.born = v.born
    BY <1>2, BackKeeps
  <1>4. SetTable(u) /\ u.alive \subseteq alive /\ alive \ u.alive \subseteq {Top.self} /\ given \subseteq given'
    BY <1>1, <1>2, <1>3
  <1>5. u.alive # alive => Top.self \in given'
    BY <1>1, <1>2, <1>3
  <1>6. u.tab[0] # Bad => u.active = 0
    BY <1>3
  <1> QED
    BY <1>1, <1>2, <1>3, <1>4, <1>5, <1>6, CallReturns

(* The context that was resumed carries on the line its state came from. *)
LEMMA LineJoined ==
    ASSUME CtxInv, Running, Top.call = "rebuild", Top.self \in alive, Restored(Top.from),
           heir' = [heir EXCEPT ![Top.self] = Top.from], UNCHANGED <<alive, born, stateFile, given>>
    PROVE  heir' \in [Instances -> Instances] /\ Unborn' /\ StateIsKept'
  <1>1. PICK i \in Instances : i = Top.self /\ i \in alive /\ heir[i] = i /\ i <= born /\ i \in Nat
    BY TopFacts, InstancesAreNat
  <1>2. PICK l \in Instances : l = Top.from /\ stateFile[l] = "whole" /\ l \in Nat
    BY TopFacts, InstancesAreNat DEF Restored
  <1>3. heir' = [heir EXCEPT ![i] = l] /\ heir \in [Instances -> Instances] /\ born \in Nat
    BY <1>1, <1>2, CtxFacts DEF CtxInv, CtxTypes
  <1>4. l <= born
    BY <1>2, <1>3 DEF CtxInv, Unborn
  <1>5. \A j \in Instances \ {i} : heir[j] # i /\ heir'[j] = heir[j]
    <2>1. PICK k : k = Len(frames) /\ k \in 2 .. k /\ frames[k].self = i
      BY <1>1, TopFacts, AtLeastTwo
    <2>2. frames[k].self \in alive /\ k \in 2 .. Len(frames)
      BY <1>1, <2>1
    <2>3. \A j \in Instances \ {i} : heir[j] # i
      BY <2>1, <2>2 DEF CtxInv, Initialising
    <2> QED
      BY <1>3, <2>3
  <1>6. heir'[i] = l
    BY <1>3
  <1>7. Unborn'
    <2> SUFFICES ASSUME NEW j \in Instances
                 PROVE  /\ j > born => heir'[j] = j /\ stateFile[j] = "none"
                        /\ j <= born => heir'[j] <= born
      BY DEF Unborn
    <2>1. /\ j > born => heir[j] = j /\ stateFile[j] = "none"
          /\ j <= born => heir[j] <= born
      BY DEF CtxInv, Unborn
    <2>2. CASE j = i
      <3>1. ~(j > born)
        BY <1>1, <1>3, <2>2
      <3> QED
        BY <1>4, <1>6, <2>2, <3>1
    <2>3. CASE j # i
      BY <1>5, <2>1, <2>3
    <2> QED
      BY <2>2, <2>3
  <1>8. StateIsKept'
    <2> SUFFICES ASSUME NEW k \in 1 .. born
                 PROVE  \/ heir'[k] \in given
                        \/ \E j \in alive : heir'[j] = heir'[k]
                        \/ stateFile[heir'[k]] = "whole"
      BY DEF StateIsKept
    <2>1. CASE k = i
      BY <1>2, <1>6, <2>1
    <2>2. CASE k # i
      <3>1. k \in Instances /\ heir'[k] = heir[k] /\ heir[k] # i
        BY <1>5, <2>2, BornInstances
      <3>2. \/ heir[k] \in given \/ (\E j \in alive : heir[j] = heir[k]) \/ stateFile[heir[k]] = "whole"
        BY DEF CtxInv, StateIsKept
      <3>3. ASSUME NEW j \in alive, heir[j] = heir[k] PROVE heir'[j] = heir[k]
        BY <1>1, <1>5, <3>1, <3>3, CtxFacts
      <3> QED
        BY <3>1, <3>2, <3>3
    <2> QED
      BY <2>1, <2>2
  <1>9. heir' \in [Instances -> Instances]
    BY <1>3
  <1> QED
    BY <1>7, <1>8, <1>9

LEMMA CtxRestores ==
    ASSUME CtxInv, RebuildEnds(FALSE), Restored(Top.from)
    PROVE  CtxInv'
  <1>1. /\ Running /\ Top.call = "rebuild" /\ Top.self \in alive /\ Returns /\ UNCHANGED <<ctxIo, stateFile, given>>
        /\ SetTable(BackToMain(Table)) /\ heir' = [heir EXCEPT ![Top.self] = Top.from]
    BY DEF RebuildEnds, InScript
  <1>2. PICK u \in CtxTables :
              /\ u = BackToMain(Table) /\ Consistent(u) /\ u.tab = contexts
              /\ (contexts[0] # Bad => u.active = 0) /\ u.alive = alive /\ u.born = born
    BY BackKeeps, TableFields DEF CtxInv
  <1>3. SetTable(u)
    BY <1>1, <1>2
  <1>4. /\ contexts' = contexts /\ (contexts[0] # Bad => active_ctx_id' = 0) /\ alive' = alive /\ born' = born
        /\ Consistent(Table)'
    BY <1>2, <1>3, SetsTable
  <1>5. heir' \in [Instances -> Instances] /\ Unborn' /\ StateIsKept'
    BY <1>1, <1>4, LineJoined
  <1>6. /\ frames' \in Seq(Scripts) /\ Nesting' /\ Initialising'
        /\ Running' /\ Top' = frames[Len(frames) - 1]
    <2>1. frames' = SubSeq(frames, 1, Len(frames) - 1) /\ alive' \subseteq alive /\ Top.call # "task"
      BY <1>1, <1>4 DEF Returns
    <2>2. stateFile[Top.from] = "whole"
      BY DEF Restored
    <2> QED
      BY <1>1, <1>4, <2>1, <2>2, ScriptEnds
  <1>7. ActiveIsRight' /\ nested' \in BOOLEAN
    BY <1>1, <1>4, <1>6, ActiveAfter
  <1>8. CtxTypes'
    BY <1>1, <1>5, <1>6, <1>7 DEF CtxInv, CtxTypes
  <1> QED
    BY <1>4, <1>5, <1>6, <1>7, <1>8 DEF CtxInv

LEMMA CtxRebuildEnds == ASSUME CtxInv, NEW threw \in BOOLEAN, RebuildEnds(threw) PROVE CtxInv'
  <1>1. CASE ~threw /\ Restored(Top.from)
    <2>1. RebuildEnds(FALSE)
      BY <1>1
    <2> QED
      BY <1>1, <2>1, CtxRestores
  <1>2. CASE ~(~threw /\ Restored(Top.from))
    <2>1. /\ Running /\ Top.call # "task" /\ Top.self \in alive /\ Returns /\ UNCHANGED <<ctxIo, stateFile, heir>>
          /\ SetTable(Destroy(BackToMain(Table), Top.self)) /\ given' = given \cup {Top.self}
      BY <1>2 DEF RebuildEnds, InScript
    <2>2. PICK v \in CtxTables :
                /\ v = BackToMain(Table) /\ Consistent(v) /\ v.tab = contexts
                /\ (contexts[0] # Bad => v.active = 0) /\ v.alive = alive /\ v.born = born
      BY BackKeeps, TableFields DEF CtxInv
    <2>3. PICK i \in v.alive : i = Top.self
      BY <2>1, <2>2
    <2>4. PICK u \in CtxTables, slot \in Slots :
                /\ u = Destroy(v, i) /\ Consistent(u) /\ v.tab[slot] = i
                /\ u.tab = [v.tab EXCEPT ![slot] = Bad]
                /\ (v.active = slot => u.active = -1) /\ (v.active # slot => u.active = v.active)
                /\ u.alive = v.alive \ {i} /\ u.born = v.born
      <3>1. Consistent(v)
        BY <2>2
      <3> QED
        BY <2>3, <3>1, DestroyKeeps
    <2>5. /\ SetTable(u) /\ u.alive \subseteq alive /\ alive \ u.alive \subseteq {Top.self}
          /\ given \subseteq given' /\ Top.self \in given' /\ u.born = born
      BY <2>1, <2>2, <2>3, <2>4
    <2>6. u.tab[0] # Bad => u.active = 0
      <3>1. ASSUME u.tab[0] # Bad PROVE slot # 0 /\ contexts[0] # Bad
        BY <2>2, <2>4, <3>1, SlotFacts, CtxFacts
      <3> QED
        BY <2>2, <2>4, <3>1
    <2> QED
      BY <2>1, <2>4, <2>5, <2>6, CallReturns
  <1> QED
    BY <1>1, <1>2

LEMMA CtxStepKeeps == CtxInv /\ CtxStep => CtxInv'
  <1> SUFFICES ASSUME CtxInv, CtxStep PROVE CtxInv'
    OBVIOUS
  <1>1. CASE Boot
    BY <1>1, CtxBoot
  <1>2. CASE BeginMessage
    BY <1>2, CtxBeginMessage
  <1>3. CASE QueueJob
    BY <1>3, CtxQueueJob
  <1>4. CASE StartIo \/ UseExtension
    BY <1>4, CtxStartIo
  <1>5. ASSUME NEW i \in Instances, BeginJob(i) \/ IoDone(i) PROVE CtxInv'
    BY <1>5, CtxBeginJob, CtxIoDone
  <1>6. CASE Spawn
    BY <1>6, CtxSpawn
  <1>7. CASE SpawnFails
    BY <1>7, CtxSpawnFails
  <1>8. CASE TaskEnds
    BY <1>8, CtxTaskEnds
  <1>9. CASE OwnGone
    BY <1>9, CtxOwnGone
  <1>10. ASSUME NEW id \in Slots, RebuildFails(id) \/ DestroyId(id) PROVE CtxInv'
    BY <1>10, CtxRebuildFails, CtxDestroyId
  <1>11. ASSUME NEW id \in Slots, NEW line \in Instances, Rebuild(id, line) PROVE CtxInv'
    BY <1>11, CtxRebuild
  <1>12. ASSUME NEW id \in Slots, NEW written \in BOOLEAN, Serialize(id, written) PROVE CtxInv'
    BY <1>12, CtxSerialize
  <1>13. ASSUME NEW threw \in BOOLEAN, SpawnEnds(threw) \/ RebuildEnds(threw) PROVE CtxInv'
    BY <1>13, CtxSpawnEnds, CtxRebuildEnds
  <1> QED
    BY <1>1, <1>2, <1>3, <1>4, <1>5, <1>6, <1>7, <1>8, <1>9, <1>10, <1>11, <1>12, <1>13 DEF CtxStep

LEMMA CtxKept == CtxInv /\ [CtxNext]_ctxVars => CtxInv'
  <1> SUFFICES ASSUME CtxInv, [CtxNext]_ctxVars PROVE CtxInv'
    OBVIOUS
  <1>1. CASE CtxStep
    BY <1>1, CtxStepKeeps
  <1>2. CASE StrayJob \/ UseFreed \/ UNCHANGED ctxVars
    <2>1. /\ UNCHANGED <<contexts, active_ctx_id, context_count, alive, born, frames, ctxJobs, extState, extMade,
                         stateFile, heir, given, nested>>
          /\ ctxIo' \subseteq Instances
      BY <1>2 DEF StrayJob, UseFreed, ctxVars, CtxInv, CtxTypes
    <2> QED
      BY <2>1, CtxSame
  <1> QED
    BY <1>1, <1>2 DEF CtxNext

LEMMA CtxSound == CtxInv => ContextsAreSound
  <1> SUFFICES ASSUME CtxInv PROVE ContextsAreSound
    OBVIOUS
  <1>1. Table \in CtxTables /\ context_count = Cardinality(Occupied(contexts)) /\ extState <= extMade
    BY TableFields DEF CtxInv, Consistent
  <1>2. extState \in Nat /\ extMade \in Nat
    BY <1>1, TableFields DEF CtxTables
  <1>3. CtxTypeOK
    <2>1. context_count \in 0 .. MaxContexts
      BY <1>1, OccupiedFacts, ContextsAssumption
    <2>2. born \in 0 .. MaxInstances
      BY CtxFacts, ContextsAssumption
    <2>3. extState \in 0 .. extMade
      BY <1>1, <1>2
    <2>4. ctxJobs \subseteq Instances
      BY CtxFacts
    <2> QED
      BY <2>1, <2>2, <2>3, <2>4, CtxFacts DEF CtxTypeOK, CtxInv, CtxTypes
  <1>4. TableIsTrue
    <2>1. context_count = Cardinality({s \in Slots : contexts[s] # Bad})
      BY <1>1 DEF Occupied
    <2> QED
      BY <2>1, CtxFacts DEF TableIsTrue
  <1>5. JobsFindContext
    BY CtxFacts DEF JobsFindContext
  <1>6. MainIsActive
    BY DEF CtxInv, ActiveIsRight, MainIsActive
  <1>7. InitialisedIsAlive
    <2> SUFFICES ASSUME ~nested, Running, Top.call # "task" PROVE Top.self \in alive
      BY DEF InitialisedIsAlive
    <2>1. active_ctx_id \in Slots /\ contexts[active_ctx_id] = Top.self
      BY DEF CtxInv, ActiveIsRight
    <2>2. Top.self # Bad
      BY TopFacts, InstancesAreNat
    <2> QED
      BY <2>1, <2>2, CtxFacts
  <1>8. StateIsKept
    BY DEF CtxInv
  <1> QED
    BY <1>3, <1>4, <1>5, <1>6, <1>7, <1>8 DEF ContextsAreSound

(* However many contexts scripts spawn, suspend, resume and destroy from inside *)
(* one another (context.c), the one they run in included, and whichever of those *)
(* calls fails, up to the first use of a freed qz_ctx_t: the count and the slots *)
(* of the table agree with the contexts that live, a pending job belongs to one  *)
(* of them unless a script of a destroyed context queued it, the host finds the  *)
(* main context active between tasks, a context is not destroyed under its own   *)
(* initial script before a call of that script has returned, and a line of       *)
(* contexts that nothing gave up is alive or has its whole state on disk.        *)
THEOREM ContextsStaySound == CtxSpec => []ContextsAreSound
  <1>1. CtxInit => CtxInv
    BY CtxStarts
  <1>2. CtxInv /\ [CtxNext]_ctxVars => CtxInv'
    BY CtxKept
  <1>3. CtxInv => ContextsAreSound
    BY CtxSound
  <1> QED
    BY <1>1, <1>2, <1>3, PTL DEF CtxSpec

-----------------------------------------------------------------------------
(* What is stored *)

LsSpec == LsInit /\ [][LsNext]_lsVars

LsTypes ==
    /\ LsTypeOK /\ before \in [Owners -> Whole] /\ stream \in [Owners -> Inode]
    /\ calls \in 0 .. MaxWrites /\ tmp # named
    /\ \A p \in Owners : Writing(p) => area[p] # 0

(* The area that a process goes back to if its call fails. *)
Base(p) == IF Writing(p) THEN before[p] ELSE area[p]

(* The one process that writes has the temporary file for itself. *)
OneWrites ==
    /\ \A p, q \in Owners : Writing(p) /\ Writing(q) => p = q
    /\ \A p \in Owners : owner[p] = "write" => stream[p] = tmp /\ tmp # 0
    /\ \A p \in Owners : owner[p] = "rename" => tmp # 0 /\ inode[tmp] = area[p]
    /\ inode[named] # Torn

(* What the processes that live go back to: the file is that of the only one  *)
(* that ever wrote it, and nobody has an area before the first call.          *)
BasedOnFile ==
    \A p \in Owners : owner[p] # "dead" =>
        /\ inode[named] = 0 => Base(p) = 0
        /\ (\A q \in Owners \ {p} : owner[q] # "dead" /\ Base(q) = 0) => Base(p) = inode[named]

LsInv == LsTypes /\ (~overlap => OneWrites /\ BasedOnFile)

LEMMA WholeFacts == /\ 0 \in Whole /\ Torn \notin Whole /\ Torn # 0
                    /\ 0 \in Inode /\ 1 \in Inode /\ 1 # 0 /\ Inode \subseteq Nat
                    /\ \A c \in 0 .. MaxWrites : c < MaxWrites => c + 1 \in Whole /\ c + 1 # 0 /\ c + 1 \in 0 .. MaxWrites
  <1>1. MaxWrites \in Nat /\ MaxWrites + 1 \in Nat
    BY LsAssumption
  <1>2. 0 \in Whole /\ 0 \in Inode /\ 1 \in Inode /\ 1 # 0
    BY <1>1 DEF Whole, Inode
  <1>3. Torn \notin Whole /\ Torn # 0 /\ Inode \subseteq Nat
    BY <1>1 DEF Whole, Torn, Inode
  <1>4. ASSUME NEW c \in 0 .. MaxWrites, c < MaxWrites
        PROVE  c + 1 \in Whole /\ c + 1 # 0 /\ c + 1 \in 0 .. MaxWrites
    BY <1>1, <1>4 DEF Whole
  <1> QED
    BY <1>2, <1>3, <1>4

LEMMA LsStarts == LsInit => LsInv
  <1> SUFFICES ASSUME LsInit PROVE LsInv
    OBVIOUS
  <1>1. inode \in [Inode -> Whole \cup {Torn}] /\ inode[named] = 0 /\ named \in Inode \ {0} /\ tmp # named /\ tmp \in Inode
    BY WholeFacts DEF LsInit
  <1>2. \A p \in Owners : owner[p] = "idle" /\ ~Writing(p) /\ Base(p) = 0
    <2>1. owner = [p \in Owners |-> "idle"] /\ area = [p \in Owners |-> 0]
      BY DEF LsInit
    <2>2. ASSUME NEW p \in Owners PROVE owner[p] = "idle" /\ area[p] = 0
      BY <2>1
    <2>3. ASSUME NEW p \in Owners PROVE ~Writing(p)
      BY <2>2 DEF Writing
    <2> QED
      BY <2>2, <2>3, Zenon DEF Base
  <1>3. /\ owner \in [Owners -> {"idle", "open", "write", "rename", "dead"}]
        /\ area \in [Owners -> Whole] /\ before \in [Owners -> Whole] /\ stream \in [Owners -> Inode]
    BY WholeFacts DEF LsInit
  <1>4. calls \in 0 .. MaxWrites
    BY LsAssumption DEF LsInit
  <1>5. LsTypes
    BY <1>1, <1>2, <1>3, <1>4 DEF LsTypes, LsTypeOK
  <1>6. OneWrites /\ BasedOnFile
    BY <1>1, <1>2, WholeFacts DEF OneWrites, BasedOnFile
  <1> QED
    BY <1>5, <1>6 DEF LsInv

(* A step of one process: where it goes, its areas and its stream. *)
Moves(p, s, a, b, i) ==
    /\ s \in {"idle", "open", "write", "rename", "dead"} /\ a \in Whole /\ b \in Whole /\ i \in Inode
    /\ owner' = [owner EXCEPT ![p] = s] /\ area' = [area EXCEPT ![p] = a]
    /\ before' = [before EXCEPT ![p] = b] /\ stream' = [stream EXCEPT ![p] = i]

LEMMA OneStep ==
    ASSUME LsInv, NEW p \in Owners, NEW s, NEW a, NEW b, NEW i, Moves(p, s, a, b, i)
    PROVE  /\ owner' \in [Owners -> {"idle", "open", "write", "rename", "dead"}] /\ area' \in [Owners -> Whole]
           /\ before' \in [Owners -> Whole] /\ stream' \in [Owners -> Inode]
           /\ owner'[p] = s /\ area'[p] = a /\ before'[p] = b /\ stream'[p] = i
           /\ \A q \in Owners \ {p} : /\ owner'[q] = owner[q] /\ area'[q] = area[q] /\ before'[q] = before[q]
                                      /\ stream'[q] = stream[q]
                                      /\ (Writing(q)' <=> Writing(q)) /\ Base(q)' = Base(q)
           /\ s \in {"open", "write", "rename"} => Writing(p)' /\ Base(p)' = b
           /\ s \in {"idle", "dead"} => ~Writing(p)' /\ Base(p)' = a
  <1>1. /\ owner' \in [Owners -> {"idle", "open", "write", "rename", "dead"}] /\ area' \in [Owners -> Whole]
        /\ before' \in [Owners -> Whole] /\ stream' \in [Owners -> Inode]
        /\ owner'[p] = s /\ area'[p] = a /\ before'[p] = b /\ stream'[p] = i
    BY DEF LsInv, LsTypes, LsTypeOK, Moves
  <1>2. \A q \in Owners \ {p} : /\ owner'[q] = owner[q] /\ area'[q] = area[q] /\ before'[q] = before[q]
                                /\ stream'[q] = stream[q]
    BY DEF LsInv, LsTypes, LsTypeOK, Moves
  <1>3. \A q \in Owners \ {p} : (Writing(q)' <=> Writing(q)) /\ Base(q)' = Base(q)
    BY <1>2 DEF Writing, Base
  <1>4. s \in {"open", "write", "rename"} => Writing(p)' /\ Base(p)' = b
    BY <1>1 DEF Writing, Base
  <1>5. s \in {"idle", "dead"} => ~Writing(p)' /\ Base(p)' = a
    BY <1>1 DEF Writing, Base
  <1> QED
    BY <1>1, <1>2, <1>3, <1>4, <1>5

LEMMA LsFacts ==
    ASSUME LsInv
    PROVE  /\ area \in [Owners -> Whole] /\ before \in [Owners -> Whole] /\ stream \in [Owners -> Inode]
           /\ owner \in [Owners -> {"idle", "open", "write", "rename", "dead"}]
           /\ inode \in [Inode -> Whole \cup {Torn}]
           /\ named \in Inode \ {0} /\ tmp \in Inode /\ tmp # named /\ calls \in 0 .. MaxWrites
  BY DEF LsInv, LsTypes, LsTypeOK

LEMMA ChangeKeeps == ASSUME LsInv, NEW p \in Owners, Change(p) PROVE LsInv'
  <1>1. /\ owner[p] = "idle" /\ calls < MaxWrites /\ calls' = calls + 1
        /\ overlap' = (overlap \/ \E q \in Owners \ {p} : Writing(q))
        /\ UNCHANGED <<named, tmp, inode>> /\ ~Writing(p)
    BY DEF Change, Writing
  <1>2. calls + 1 \in Whole /\ calls + 1 # 0 /\ calls + 1 \in 0 .. MaxWrites
    BY <1>1, LsFacts, WholeFacts
  <1>3. PICK c \in Whole, a \in Whole, i \in Inode : c = calls + 1 /\ a = area[p] /\ i = stream[p]
    BY <1>2, LsFacts
  <1>4. Moves(p, "open", c, a, i)
    BY <1>3, LsFacts DEF Change, Moves
  <1>5. /\ owner' \in [Owners -> {"idle", "open", "write", "rename", "dead"}] /\ area' \in [Owners -> Whole]
        /\ before' \in [Owners -> Whole] /\ stream' \in [Owners -> Inode]
        /\ owner'[p] = "open" /\ area'[p] = c /\ before'[p] = a
        /\ \A q \in Owners \ {p} : /\ owner'[q] = owner[q] /\ area'[q] = area[q]
                                   /\ stream'[q] = stream[q] /\ (Writing(q)' <=> Writing(q)) /\ Base(q)' = Base(q)
        /\ Writing(p)' /\ Base(p)' = a
    BY <1>4, OneStep
  <1>6. LsTypes'
    <2>1. LsTypeOK'
      BY <1>1, <1>5 DEF LsInv, LsTypes, LsTypeOK
    <2>2. \A q \in Owners : Writing(q)' => area'[q] # 0
      BY <1>2, <1>3, <1>5 DEF LsInv, LsTypes
    <2>3. calls' \in 0 .. MaxWrites /\ tmp' # named'
      BY <1>1, <1>2, LsFacts
    <2> QED
      BY <1>5, <2>1, <2>2, <2>3 DEF LsTypes
  <1>7. ASSUME ~overlap' PROVE OneWrites' /\ BasedOnFile'
    <2>1. ~overlap /\ \A q \in Owners \ {p} : ~Writing(q)
      BY <1>1, <1>7
    <2>2. OneWrites /\ BasedOnFile
      BY <2>1 DEF LsInv
    <2>3. OneWrites'
      BY <1>1, <1>5, <2>1, <2>2 DEF OneWrites
    <2>4. Base(p) = a /\ Base(p)' = Base(p)
      BY <1>1, <1>3, <1>5 DEF Base
    <2>5. BasedOnFile'
      BY <1>1, <1>5, <2>2, <2>4 DEF BasedOnFile
    <2> QED
      BY <2>3, <2>5
  <1> QED
    BY <1>6, <1>7 DEF LsInv

LEMMA OpenTmpKeeps == ASSUME LsInv, NEW p \in Owners, OpenTmp(p) PROVE LsInv'
  <1>1. PICK t \in Inode \ {0} : t = tmp' /\ t # named /\ (tmp = t \/ tmp = 0)
    <2>1. CASE tmp # 0
      BY <2>1, LsFacts DEF OpenTmp
    <2>2. CASE tmp = 0
      <3>1. FreshInode \in Inode /\ ~UsedInode(FreshInode)
        BY <2>2 DEF OpenTmp, HasFresh, FreshInode
      <3> QED
        BY <2>2, <3>1 DEF OpenTmp, UsedInode
    <2> QED
      BY <2>1, <2>2
  <1>2. /\ owner[p] = "open" /\ Writing(p) /\ inode' = [inode EXCEPT ![t] = Torn]
        /\ UNCHANGED <<named, calls, overlap>>
    BY <1>1 DEF OpenTmp, Writing
  <1>3. PICK a \in Whole, b \in Whole : a = area[p] /\ b = before[p]
    BY LsFacts
  <1>4. Moves(p, "write", a, b, t)
    BY <1>1, <1>3, LsFacts DEF OpenTmp, Moves
  <1>5. /\ owner' \in [Owners -> {"idle", "open", "write", "rename", "dead"}] /\ area' \in [Owners -> Whole]
        /\ before' \in [Owners -> Whole] /\ stream' \in [Owners -> Inode]
        /\ owner'[p] = "write" /\ area'[p] = a /\ stream'[p] = t
        /\ \A q \in Owners \ {p} : /\ owner'[q] = owner[q] /\ area'[q] = area[q]
                                   /\ stream'[q] = stream[q] /\ (Writing(q)' <=> Writing(q)) /\ Base(q)' = Base(q)
        /\ Writing(p)' /\ Base(p)' = b
    BY <1>4, OneStep
  <1>6. inode' \in [Inode -> Whole \cup {Torn}] /\ inode'[named'] = inode[named]
    BY <1>1, <1>2, LsFacts
  <1>7. LsTypes'
    <2>1. LsTypeOK'
      BY <1>1, <1>2, <1>5, <1>6 DEF LsInv, LsTypes, LsTypeOK
    <2>2. \A q \in Owners : Writing(q)' => area'[q] # 0
      BY <1>2, <1>3, <1>5 DEF LsInv, LsTypes
    <2> QED
      BY <1>1, <1>2, <1>5, <2>1, <2>2, LsFacts DEF LsTypes
  <1>8. ASSUME ~overlap' PROVE OneWrites' /\ BasedOnFile'
    <2>1. OneWrites /\ BasedOnFile
      BY <1>2, <1>8 DEF LsInv
    <2>2. \A q \in Owners \ {p} : ~Writing(q) /\ owner[q] \notin {"write", "rename"}
      BY <1>2, <2>1 DEF OneWrites, Writing
    <2>3. OneWrites'
      BY <1>1, <1>5, <1>6, <2>1, <2>2 DEF OneWrites
    <2>4. Base(p)' = Base(p)
      BY <1>2, <1>3, <1>5 DEF Base
    <2>5. BasedOnFile'
      BY <1>2, <1>5, <1>6, <2>1, <2>4 DEF BasedOnFile
    <2> QED
      BY <2>3, <2>5
  <1> QED
    BY <1>7, <1>8 DEF LsInv

LEMMA WriteTmpKeeps == ASSUME LsInv, NEW p \in Owners, WriteTmp(p) PROVE LsInv'
  <1>1. /\ owner[p] = "write" /\ Writing(p) /\ inode' = [inode EXCEPT ![stream[p]] = area[p]]
        /\ UNCHANGED <<named, tmp, calls, overlap>>
    BY DEF WriteTmp, Writing
  <1>2. PICK a \in Whole, b \in Whole, t \in Inode : a = area[p] /\ b = before[p] /\ t = stream[p]
    BY LsFacts
  <1>3. Moves(p, "rename", a, b, 0)
    BY <1>2, LsFacts, WholeFacts DEF WriteTmp, Moves
  <1>4. /\ owner' \in [Owners -> {"idle", "open", "write", "rename", "dead"}] /\ area' \in [Owners -> Whole]
        /\ before' \in [Owners -> Whole] /\ stream' \in [Owners -> Inode]
        /\ owner'[p] = "rename" /\ area'[p] = a
        /\ \A q \in Owners \ {p} : /\ owner'[q] = owner[q] /\ area'[q] = area[q]
                                   /\ stream'[q] = stream[q] /\ (Writing(q)' <=> Writing(q)) /\ Base(q)' = Base(q)
        /\ Writing(p)' /\ Base(p)' = b
    BY <1>3, OneStep
  <1>5. inode' = [inode EXCEPT ![t] = a] /\ inode' \in [Inode -> Whole \cup {Torn}]
    BY <1>1, <1>2, LsFacts
  <1>6. LsTypes'
    <2>1. LsTypeOK'
      BY <1>1, <1>4, <1>5 DEF LsInv, LsTypes, LsTypeOK
    <2>2. \A q \in Owners : Writing(q)' => area'[q] # 0
      BY <1>1, <1>2, <1>4 DEF LsInv, LsTypes
    <2> QED
      BY <1>1, <1>4, <2>1, <2>2, LsFacts DEF LsTypes
  <1>7. ASSUME ~overlap' PROVE OneWrites' /\ BasedOnFile'
    <2>1. OneWrites /\ BasedOnFile
      BY <1>1, <1>7 DEF LsInv
    <2>2. \A q \in Owners \ {p} : ~Writing(q) /\ owner[q] \notin {"write", "rename"}
      BY <1>1, <2>1 DEF OneWrites, Writing
    <2>3. t = tmp /\ tmp # 0 /\ inode'[tmp] = a /\ inode'[named] = inode[named]
      BY <1>1, <1>2, <1>5, <2>1, LsFacts DEF OneWrites
    <2>4. OneWrites'
      BY <1>1, <1>4, <2>1, <2>2, <2>3 DEF OneWrites
    <2>5. Base(p)' = Base(p)
      BY <1>1, <1>2, <1>4 DEF Base
    <2>6. BasedOnFile'
      BY <1>1, <1>4, <2>1, <2>3, <2>5 DEF BasedOnFile
    <2> QED
      BY <2>4, <2>6
  <1> QED
    BY <1>6, <1>7 DEF LsInv

LEMMA RenameKeeps == ASSUME LsInv, NEW p \in Owners, Rename(p) PROVE LsInv'
  <1>1. /\ owner[p] = "rename" /\ Writing(p) /\ tmp # 0 /\ named' = tmp /\ tmp' = 0
        /\ UNCHANGED <<inode, calls, overlap>>
    BY DEF Rename, Writing
  <1>2. PICK a \in Whole, b \in Whole, t \in Inode : a = area[p] /\ b = before[p] /\ t = stream[p]
    BY LsFacts
  <1>3. Moves(p, "idle", a, b, t) /\ a # 0
    BY <1>1, <1>2, LsFacts, WholeFacts DEF Rename, Moves, LsInv, LsTypes
  <1>4. /\ owner' \in [Owners -> {"idle", "open", "write", "rename", "dead"}] /\ area' \in [Owners -> Whole]
        /\ before' \in [Owners -> Whole] /\ stream' \in [Owners -> Inode]
        /\ owner'[p] = "idle" /\ area'[p] = a
        /\ \A q \in Owners \ {p} : /\ owner'[q] = owner[q] /\ area'[q] = area[q]
                                   /\ stream'[q] = stream[q] /\ (Writing(q)' <=> Writing(q)) /\ Base(q)' = Base(q)
        /\ ~Writing(p)' /\ Base(p)' = a
    BY <1>3, OneStep
  <1>5. named' \in Inode \ {0} /\ tmp' \in Inode /\ tmp' # named'
    BY <1>1, LsFacts, WholeFacts
  <1>6. LsTypes'
    <2>1. LsTypeOK'
      BY <1>1, <1>4, <1>5, LsFacts DEF LsTypeOK
    <2>2. \A q \in Owners : Writing(q)' => area'[q] # 0
      BY <1>4 DEF LsInv, LsTypes
    <2> QED
      BY <1>1, <1>4, <1>5, <2>1, <2>2, LsFacts DEF LsTypes
  <1>7. ASSUME ~overlap' PROVE OneWrites' /\ BasedOnFile'
    <2>1. OneWrites /\ BasedOnFile
      BY <1>1, <1>7 DEF LsInv
    <2>2. \A q \in Owners \ {p} : ~Writing(q) /\ owner[q] \notin {"write", "rename"}
      BY <1>1, <2>1 DEF OneWrites, Writing
    <2>3. inode'[named'] = a /\ a # Torn /\ a # 0
      BY <1>1, <1>2, <1>3, <2>1, WholeFacts DEF OneWrites
    <2>4. OneWrites'
      BY <1>4, <2>2, <2>3 DEF OneWrites
    <2>5. BasedOnFile'
      BY <1>4, <2>3 DEF BasedOnFile
    <2> QED
      BY <2>4, <2>5
  <1> QED
    BY <1>6, <1>7 DEF LsInv

LEMMA WriteFailsKeeps == ASSUME LsInv, NEW p \in Owners, WriteFails(p) PROVE LsInv'
  <1>1. /\ Writing(p) /\ tmp' \in {tmp, 0} /\ UNCHANGED <<named, inode, calls, overlap>>
    BY DEF WriteFails
  <1>2. PICK b \in Whole : b = before[p]
    BY LsFacts
  <1>3. Moves(p, "idle", b, b, 0)
    BY <1>2, LsFacts, WholeFacts DEF WriteFails, Moves
  <1>4. /\ owner' \in [Owners -> {"idle", "open", "write", "rename", "dead"}] /\ area' \in [Owners -> Whole]
        /\ before' \in [Owners -> Whole] /\ stream' \in [Owners -> Inode]
        /\ owner'[p] = "idle" /\ area'[p] = b
        /\ \A q \in Owners \ {p} : /\ owner'[q] = owner[q] /\ area'[q] = area[q]
                                   /\ stream'[q] = stream[q] /\ (Writing(q)' <=> Writing(q)) /\ Base(q)' = Base(q)
        /\ ~Writing(p)' /\ Base(p)' = b
    BY <1>3, OneStep
  <1>5. tmp' \in Inode /\ tmp' # named
    BY <1>1, LsFacts, WholeFacts
  <1>6. LsTypes'
    <2>1. LsTypeOK'
      BY <1>1, <1>4, <1>5, LsFacts DEF LsTypeOK
    <2>2. \A q \in Owners : Writing(q)' => area'[q] # 0
      BY <1>4 DEF LsInv, LsTypes
    <2> QED
      BY <1>1, <1>4, <1>5, <2>1, <2>2, LsFacts DEF LsTypes
  <1>7. ASSUME ~overlap' PROVE OneWrites' /\ BasedOnFile'
    <2>1. OneWrites /\ BasedOnFile
      BY <1>1, <1>7 DEF LsInv
    <2>2. \A q \in Owners \ {p} : ~Writing(q) /\ owner[q] \notin {"write", "rename"}
      BY <1>1, <2>1 DEF OneWrites, Writing
    <2>3. OneWrites'
      BY <1>1, <1>4, <2>1, <2>2 DEF OneWrites
    <2>4. Base(p)' = Base(p) /\ owner[p] # "dead"
      BY <1>1, <1>2, <1>4 DEF Base, Writing
    <2>5. BasedOnFile'
      BY <1>1, <1>4, <2>1, <2>4 DEF BasedOnFile
    <2> QED
      BY <2>3, <2>5
  <1> QED
    BY <1>6, <1>7 DEF LsInv

LEMMA OwnerDiesKeeps == ASSUME LsInv, NEW p \in Owners, ProcessDies(p) PROVE LsInv'
  <1>1. UNCHANGED <<named, tmp, inode, calls, overlap>>
    BY DEF ProcessDies
  <1>2. PICK a \in Whole, b \in Whole : a = area[p] /\ b = before[p]
    BY LsFacts
  <1>3. Moves(p, "dead", a, b, 0)
    BY <1>2, LsFacts, WholeFacts DEF ProcessDies, Moves
  <1>4. /\ owner' \in [Owners -> {"idle", "open", "write", "rename", "dead"}] /\ area' \in [Owners -> Whole]
        /\ before' \in [Owners -> Whole] /\ stream' \in [Owners -> Inode]
        /\ owner'[p] = "dead" /\ area'[p] = a
        /\ \A q \in Owners \ {p} : /\ owner'[q] = owner[q] /\ area'[q] = area[q]
                                   /\ stream'[q] = stream[q] /\ (Writing(q)' <=> Writing(q)) /\ Base(q)' = Base(q)
        /\ ~Writing(p)'
    BY <1>3, OneStep
  <1>5. LsTypes'
    <2>1. LsTypeOK'
      BY <1>1, <1>4, LsFacts DEF LsTypeOK
    <2>2. \A q \in Owners : Writing(q)' => area'[q] # 0
      BY <1>4 DEF LsInv, LsTypes
    <2> QED
      BY <1>1, <1>4, <2>1, <2>2, LsFacts DEF LsTypes
  <1>6. ASSUME ~overlap' PROVE OneWrites' /\ BasedOnFile'
    <2>1. OneWrites /\ BasedOnFile
      BY <1>1, <1>6 DEF LsInv
    <2>2. OneWrites'
      BY <1>1, <1>4, <2>1 DEF OneWrites
    <2>3. BasedOnFile'
      BY <1>1, <1>4, <2>1 DEF BasedOnFile
    <2> QED
      BY <2>2, <2>3
  <1> QED
    BY <1>5, <1>6 DEF LsInv

LEMMA OwnerStartsKeeps == ASSUME LsInv, NEW p \in Owners, ProcessStarts(p) PROVE LsInv'
  <1>1. owner[p] = "dead" /\ UNCHANGED <<named, tmp, inode, calls, overlap>>
    BY DEF ProcessStarts
  <1>2. PICK a \in Whole, b \in Whole, i \in Inode : a = Load /\ b = before[p] /\ i = stream[p]
    BY LsFacts, WholeFacts DEF Load, ReadSync
  <1>3. Moves(p, "idle", a, b, i)
    BY <1>2, LsFacts, WholeFacts DEF ProcessStarts, Moves
  <1>4. /\ owner' \in [Owners -> {"idle", "open", "write", "rename", "dead"}] /\ area' \in [Owners -> Whole]
        /\ before' \in [Owners -> Whole] /\ stream' \in [Owners -> Inode]
        /\ owner'[p] = "idle" /\ area'[p] = a
        /\ \A q \in Owners \ {p} : /\ owner'[q] = owner[q] /\ area'[q] = area[q]
                                   /\ stream'[q] = stream[q] /\ (Writing(q)' <=> Writing(q)) /\ Base(q)' = Base(q)
        /\ ~Writing(p)' /\ Base(p)' = a
    BY <1>3, OneStep
  <1>5. LsTypes'
    <2>1. LsTypeOK'
      BY <1>1, <1>4, LsFacts DEF LsTypeOK
    <2>2. \A q \in Owners : Writing(q)' => area'[q] # 0
      BY <1>4 DEF LsInv, LsTypes
    <2> QED
      BY <1>1, <1>4, <2>1, <2>2, LsFacts DEF LsTypes
  <1>6. ASSUME ~overlap' PROVE OneWrites' /\ BasedOnFile'
    <2>1. OneWrites /\ BasedOnFile
      BY <1>1, <1>6 DEF LsInv
    <2>2. a = inode[named]
      BY <1>2, <2>1 DEF OneWrites, Load, ReadSync
    <2>3. OneWrites'
      BY <1>1, <1>4, <2>1 DEF OneWrites
    <2>4. ASSUME NEW r \in Owners, owner'[r] # "dead"
          PROVE  /\ inode'[named'] = 0 => Base(r)' = 0
                 /\ (\A q \in Owners \ {r} : owner'[q] # "dead" /\ Base(q)' = 0) => Base(r)' = inode'[named']
      <3>1. CASE r = p
        BY <1>1, <1>4, <2>2, <3>1
      <3>2. CASE r # p
        <4>1. Base(r)' = Base(r) /\ owner[r] # "dead" /\ (inode[named] = 0 => Base(r) = 0)
          BY <1>4, <2>1, <2>4, <3>2 DEF BasedOnFile
        <4>2. Base(p)' = 0 => inode[named] = 0
          BY <1>4, <2>2
        <4> QED
          BY <1>1, <3>2, <4>1, <4>2
      <3> QED
        BY <3>1, <3>2
    <2>5. BasedOnFile'
      BY <2>4, Zenon DEF BasedOnFile
    <2> QED
      BY <2>3, <2>5
  <1> QED
    BY <1>5, <1>6 DEF LsInv

LEMMA LsKept == LsInv /\ [LsNext]_lsVars => LsInv'
  <1> SUFFICES ASSUME LsInv, [LsNext]_lsVars PROVE LsInv'
    OBVIOUS
  <1>1. CASE UNCHANGED lsVars
    BY <1>1 DEF lsVars, LsInv, LsTypes, LsTypeOK, OneWrites, BasedOnFile, Writing, Base
  <1>2. ASSUME NEW p \in Owners,
               \/ Change(p) \/ OpenTmp(p) \/ WriteTmp(p) \/ Rename(p) \/ WriteFails(p)
               \/ ProcessDies(p) \/ ProcessStarts(p)
        PROVE  LsInv'
    BY <1>2, ChangeKeeps, OpenTmpKeeps, WriteTmpKeeps, RenameKeeps, WriteFailsKeeps, OwnerDiesKeeps, OwnerStartsKeeps
  <1> QED
    BY <1>1, <1>2 DEF LsNext

LEMMA LsSound == LsInv => LsTypeOK /\ FileIsWhole /\ MemoryIsFile
  <1> SUFFICES ASSUME LsInv PROVE LsTypeOK /\ FileIsWhole /\ MemoryIsFile
    OBVIOUS
  <1>1. LsTypeOK /\ FileIsWhole
    BY DEF LsInv, LsTypes, FileIsWhole, OneWrites
  <1>2. ASSUME NEW p \in Owners, owner[p] = "idle", \A q \in Owners \ {p} : area[q] = 0 /\ owner[q] = "idle", ~overlap
        PROVE  area[p] = inode[named]
    <2>1. \A q \in Owners : owner[q] = "idle" => owner[q] # "dead" /\ Base(q) = area[q]
      BY DEF Base, Writing
    <2> QED
      BY <1>2, <2>1 DEF LsInv, BasedOnFile
  <1> QED
    BY <1>1, <1>2 DEF MemoryIsFile

-----------------------------------------------------------------------------
(* The key-value store and the credentials *)

StoresSpec == StoresInit /\ [][StoresNext]_storeVars

Cells == [key : Keys, value : Values \cup {Nil}]

(* A sequence of entries gives k the value v. *)
Holds(st, k, v) == \E i \in DOMAIN st : st[i].key = k /\ st[i].value = v

KeysDiffer(st) == \A i, j \in DOMAIN st : st[i].key = st[j].key => i = j

(* What the promises of the calls for k say is what the entries say. *)
Agrees(k) ==
    /\ k \in lost => Holds(store, k, Nil)
    /\ k \notin lost => \/ kv[k] = Nil /\ \A v \in Values \cup {Nil} : ~Holds(store, k, v)
                        \/ kv[k] \in Values /\ Holds(store, k, kv[k])

StoreInv ==
    /\ store \in Seq(Cells) /\ kv \in [Keys -> Values \cup {Nil}] /\ lost \subseteq Keys
    /\ Len(store) <= StorageMax /\ KeysDiffer(store) /\ \A k \in Keys : Agrees(k)
    /\ got = due

(* An allocation holds the credentials of the proxy it was computed for. *)
ProxyInv ==
    /\ authOf \in Seq(Proxies) /\ authValue \in 0 .. Len(authOf)
    /\ authUrl = Nil \/ (authValue # 0 /\ authOf[authValue] = authUrl)
    /\ borrowed \in [HttpOps -> Nat] /\ through \in [HttpOps -> Proxies \cup {Nil}]
    /\ \A o \in HttpOps : borrowed[o] # 0 => borrowed[o] \in 1 .. Len(authOf) /\ authOf[borrowed[o]] = through[o]

LEMMA EntryFacts ==
    ASSUME StoreInv, NEW k \in Keys
    PROVE  /\ Entry(k) = {} => \A v \in Values \cup {Nil} : ~Holds(store, k, v)
           /\ Entry(k) # {} => \E i \in DOMAIN store : /\ The(Entry(k)) = i /\ store[i].key = k
                                                       /\ store[i].value \in Values \cup {Nil}
                                                       /\ \A v : Holds(store, k, v) => v = store[i].value
                                                       /\ Holds(store, k, store[i].value)
  <1>1. Entry(k) = {} => \A v \in Values \cup {Nil} : ~Holds(store, k, v)
    BY DEF Entry, Holds
  <1>2. ASSUME Entry(k) # {}
        PROVE  \E i \in DOMAIN store : /\ The(Entry(k)) = i /\ store[i].key = k
                                       /\ store[i].value \in Values \cup {Nil}
                                       /\ \A v : Holds(store, k, v) => v = store[i].value
                                       /\ Holds(store, k, store[i].value)
    <2>1. PICK i \in Entry(k) : The(Entry(k)) = i
      BY <1>2 DEF The
    <2>2. i \in DOMAIN store /\ store[i].key = k
      BY DEF Entry
    <2>3. store[i] \in Cells
      BY <2>2 DEF StoreInv
    <2>4. \A v : Holds(store, k, v) => v = store[i].value
      BY <2>2 DEF Holds, StoreInv, KeysDiffer
    <2>5. Holds(store, k, store[i].value)
      BY <2>2 DEF Holds
    <2>6. store[i].value \in Values \cup {Nil}
      BY <2>3 DEF Cells
    <2> QED
      BY <2>1, <2>2, <2>4, <2>5, <2>6
  <1> QED
    BY <1>1, <1>2

Put(st, i, w) == [st EXCEPT ![i].value = w]
Without(st, i) == [j \in 1 .. Len(st) - 1 |-> IF j < i THEN st[j] ELSE st[j + 1]]

IsUpdate(new, st, i, w) ==
    /\ new \in Seq(Cells) /\ Len(new) = Len(st) /\ KeysDiffer(new) /\ Holds(new, st[i].key, w)
    /\ \A k \in Keys, v \in Values \cup {Nil} : k # st[i].key => (Holds(new, k, v) <=> Holds(st, k, v))

IsDeletion(new, st, i) ==
    /\ new \in Seq(Cells) /\ Len(new) = Len(st) - 1 /\ KeysDiffer(new)
    /\ \A v \in Values \cup {Nil} : ~Holds(new, st[i].key, v)
    /\ \A k \in Keys, v \in Values \cup {Nil} : k # st[i].key => (Holds(new, k, v) <=> Holds(st, k, v))

LEMMA Updated ==
    ASSUME NEW st \in Seq(Cells), KeysDiffer(st), NEW i \in DOMAIN st, NEW w \in Values \cup {Nil}
    PROVE  IsUpdate(Put(st, i, w), st, i, w)
  <1> DEFINE c == [st[i] EXCEPT !.value = w]
             new == [st EXCEPT ![i] = c]
  <1>1. st[i] \in Cells /\ i \in 1 .. Len(st) /\ Len(st) \in Nat
    OBVIOUS
  <1>2. c \in Cells /\ c.key = st[i].key /\ c.value = w
    BY <1>1 DEF Cells
  <1> HIDE DEF c
  <1>3. new \in Seq(Cells) /\ Len(new) = Len(st)
    BY <1>2, ExceptSeq
  <1>4. DOMAIN new = DOMAIN st /\ new[i] = c /\ \A j \in DOMAIN st : j # i => new[j] = st[j]
    OBVIOUS
  <1>5. new = Put(st, i, w)
    BY DEF c, Put
  <1> HIDE DEF new
  <1>6. KeysDiffer(new)
    <2>1. \A j \in DOMAIN st : new[j].key = st[j].key
      BY <1>2, <1>4
    <2> QED
      BY <1>4, <2>1 DEF KeysDiffer
  <1>7. Holds(new, st[i].key, w)
    BY <1>2, <1>4 DEF Holds
  <1>8. ASSUME NEW k \in Keys, NEW v \in Values \cup {Nil}, k # st[i].key PROVE Holds(new, k, v) <=> Holds(st, k, v)
    BY <1>2, <1>4, <1>8 DEF Holds
  <1>9. IsUpdate(new, st, i, w)
    BY <1>3, <1>6, <1>7, <1>8, Zenon DEF IsUpdate
  <1> QED
    BY <1>5, <1>9, Zenon

LEMMA Appended ==
    ASSUME NEW st \in Seq(Cells), KeysDiffer(st), NEW c \in Cells, \A i \in DOMAIN st : st[i].key # c.key
    PROVE  /\ Append(st, c) \in Seq(Cells) /\ Len(Append(st, c)) = Len(st) + 1 /\ KeysDiffer(Append(st, c))
           /\ Holds(Append(st, c), c.key, c.value)
           /\ \A k \in Keys, v \in Values \cup {Nil} : k # c.key => (Holds(Append(st, c), k, v) <=> Holds(st, k, v))
  <1> DEFINE new == Append(st, c)
             n == Len(st)
  <1>1. /\ new \in Seq(Cells) /\ Len(new) = n + 1 /\ new[n + 1] = c /\ \A i \in 1 .. n : new[i] = st[i]
    BY AppendProperties
  <1>2. n \in Nat /\ DOMAIN st = 1 .. n /\ DOMAIN new = 1 .. n + 1
    BY <1>1
  <1> HIDE DEF new, n
  <1>3. \A i \in DOMAIN new : i \in 1 .. n \/ i = n + 1
    BY <1>2
  <1>4. n + 1 \in DOMAIN new /\ \A i \in 1 .. n : i \in DOMAIN new
    BY <1>2
  <1>5. KeysDiffer(new)
    BY <1>1, <1>2, <1>3 DEF KeysDiffer
  <1>6. Holds(new, c.key, c.value)
    BY <1>1, <1>4 DEF Holds
  <1>7. ASSUME NEW k \in Keys, NEW v \in Values \cup {Nil}, k # c.key PROVE Holds(new, k, v) <=> Holds(st, k, v)
    BY <1>1, <1>2, <1>3, <1>4, <1>7 DEF Holds
  <1> QED
    BY <1>1, <1>5, <1>6, <1>7 DEF new, n

LEMMA Deleted ==
    ASSUME NEW st \in Seq(Cells), KeysDiffer(st), NEW i \in DOMAIN st
    PROVE  IsDeletion(Without(st, i), st, i)
  <1> DEFINE n == Len(st)
             at(j) == IF j < i THEN j ELSE j + 1
             new == [j \in 1 .. n - 1 |-> IF j < i THEN st[j] ELSE st[j + 1]]
  <1>1. n \in Nat /\ i \in 1 .. n /\ DOMAIN st = 1 .. n /\ n - 1 \in Nat
    OBVIOUS
  <1> HIDE DEF n
  <1>2. ASSUME NEW j \in 1 .. n - 1 PROVE at(j) \in 1 .. n /\ at(j) # i
    BY <1>1
  <1>3. ASSUME NEW j \in 1 .. n - 1, NEW l \in 1 .. n - 1, at(j) = at(l) PROVE j = l
    BY <1>1, <1>3
  <1>4. ASSUME NEW m \in 1 .. n, m # i PROVE \E j \in 1 .. n - 1 : at(j) = m
    <2>1. CASE m < i
      <3>1. m \in 1 .. n - 1 /\ at(m) = m
        BY <1>1, <2>1
      <3> QED
        BY <3>1
    <2>2. CASE ~(m < i)
      <3>1. m - 1 \in 1 .. n - 1 /\ at(m - 1) = m
        BY <1>1, <1>4, <2>2
      <3> QED
        BY <3>1
    <2> QED
      BY <2>1, <2>2
  <1>5. DOMAIN new = 1 .. n - 1 /\ \A j \in 1 .. n - 1 : new[j] = st[at(j)]
    OBVIOUS
  <1>6. \A j \in 1 .. n - 1 : st[at(j)] \in Cells
    BY <1>1, <1>2
  <1> HIDE DEF at, new
  <1>7. new \in Seq(Cells) /\ Len(new) = n - 1
    <2>1. new \in [1 .. n - 1 -> Cells]
      BY <1>5, <1>6 DEF new
    <2> QED
      BY <1>1, <2>1
  <1>8. KeysDiffer(new)
    BY <1>1, <1>2, <1>3, <1>5 DEF KeysDiffer
  <1>9. ASSUME NEW v \in Values \cup {Nil} PROVE ~Holds(new, st[i].key, v)
    BY <1>1, <1>2, <1>5 DEF KeysDiffer, Holds
  <1>10. ASSUME NEW k \in Keys, NEW v \in Values \cup {Nil}, k # st[i].key PROVE Holds(new, k, v) <=> Holds(st, k, v)
    <2>1. ASSUME Holds(new, k, v) PROVE Holds(st, k, v)
      BY <1>1, <1>2, <1>5, <2>1 DEF Holds
    <2>2. ASSUME Holds(st, k, v) PROVE Holds(new, k, v)
      <3>1. PICK m \in 1 .. n : st[m].key = k /\ st[m].value = v
        BY <1>1, <2>2 DEF Holds
      <3>2. PICK j \in 1 .. n - 1 : at(j) = m
        BY <1>4, <1>10, <3>1
      <3> QED
        BY <1>5, <3>1, <3>2 DEF Holds
    <2> QED
      BY <2>1, <2>2
  <1>11. new = Without(st, i) /\ n = Len(st)
    BY DEF new, n, Without
  <1>12. IsDeletion(new, st, i)
    BY <1>7, <1>8, <1>9, <1>10, <1>11, Zenon DEF IsDeletion
  <1> QED
    BY <1>11, <1>12, Zenon

(* The entries of the other keys are left alone. *)
LEMMA KeyChanged ==
    ASSUME StoreInv, NEW k \in Keys, NEW w \in Values \cup {Nil}, kv' = [kv EXCEPT ![k] = w],
           store' \in Seq(Cells), Len(store') <= StorageMax, KeysDiffer(store'),
           \A k2 \in Keys, v \in Values \cup {Nil} : k2 # k => (Holds(store', k2, v) <=> Holds(store, k2, v)),
           lost' \in {lost \ {k}, lost \cup {k}}, Agrees(k)', got' = due'
    PROVE  StoreInv'
  <1>1. kv' \in [Keys -> Values \cup {Nil}] /\ lost' \subseteq Keys
    BY DEF StoreInv
  <1>2. ASSUME NEW k2 \in Keys, k2 # k PROVE Agrees(k2)'
    <2>1. kv'[k2] = kv[k2] /\ kv[k2] \in Values \cup {Nil} /\ (k2 \in lost' <=> k2 \in lost) /\ Agrees(k2)
      BY <1>2 DEF StoreInv
    <2>2. \A v \in Values \cup {Nil} : Holds(store', k2, v) <=> Holds(store, k2, v)
      BY <1>2
    <2> QED
      BY <2>1, <2>2 DEF Agrees
  <1> QED
    BY <1>1, <1>2 DEF StoreInv

LEMMA NilIsNoValue == Nil \notin Values /\ Nil \notin Proxies /\ StorageMax \in Nat
  BY StoresAssumption

LEMMA SetKeeps == ASSUME StoreInv, NEW k \in Keys, NEW v \in Values, NEW oom \in BOOLEAN, StorageSet(k, v, oom) PROVE StoreInv'
  <1>1. got' = due' /\ kv \in [Keys -> Values \cup {Nil}]
    BY DEF StorageSet, StoreInv
  <1>2. CASE Entry(k) # {}
    <2>1. PICK i \in DOMAIN store : The(Entry(k)) = i /\ store[i].key = k
      BY <1>2, EntryFacts
    <2>2. PICK w \in Values \cup {Nil} : w = IF oom THEN Nil ELSE v
      OBVIOUS
    <2>3. PICK c \in Values \cup {Nil} : c = IF oom THEN kv[k] ELSE v
      BY <1>1
    <2>4. /\ store' = [store EXCEPT ![i].value = w]
          /\ kv' = [kv EXCEPT ![k] = c]
          /\ lost' = IF oom THEN lost \cup {k} ELSE lost \ {k}
      BY <1>1, <1>2, <2>1, <2>2, <2>3 DEF StorageSet, SetEntry, Outcome
    <2>9. store \in Seq(Cells) /\ KeysDiffer(store)
      BY DEF StoreInv
    <2>10. IsUpdate(Put(store, i, w), store, i, w)
      BY <2>1, <2>9, Updated, Zenon
    <2>5. /\ store' \in Seq(Cells) /\ Len(store') = Len(store) /\ KeysDiffer(store') /\ Holds(store', k, w)
          /\ \A k2 \in Keys, x \in Values \cup {Nil} : k2 # k => (Holds(store', k2, x) <=> Holds(store, k2, x))
      BY <2>1, <2>4, <2>10 DEF IsUpdate, Put
    <2>6. Agrees(k)'
      <3>1. kv'[k] = c
        BY <1>1, <2>4
      <3> QED
        BY <2>2, <2>3, <2>4, <2>5, <3>1 DEF Agrees
    <2>7. Len(store') <= StorageMax /\ lost' \in {lost \ {k}, lost \cup {k}}
      BY <2>4, <2>5 DEF StoreInv
    <2> QED
      BY <1>1, <2>3, <2>4, <2>5, <2>6, <2>7, KeyChanged
  <1>3. CASE Entry(k) = {} /\ (oom \/ Len(store) >= StorageMax)
    <2>1. store' = store /\ kv' = kv /\ lost' = lost
      BY <1>3 DEF StorageSet, SetEntry, Outcome
    <2> QED
      BY <1>1, <2>1 DEF StoreInv, Agrees
  <1>4. CASE Entry(k) = {} /\ ~(oom \/ Len(store) >= StorageMax)
    <2>1. PICK c \in Cells : c = [key |-> k, value |-> v] /\ c.key = k /\ c.value = v
      <3>1. [key |-> k, value |-> v] \in Cells
        BY DEF Cells
      <3> QED
        BY <3>1
    <2>2. store' = Append(store, c) /\ kv' = [kv EXCEPT ![k] = v] /\ lost' = lost \ {k}
      BY <1>4, <2>1 DEF StorageSet, SetEntry, Outcome
    <2>3. \A i \in DOMAIN store : store[i].key # c.key
      BY <1>4, <2>1 DEF Entry
    <2>4. /\ store' \in Seq(Cells) /\ Len(store') = Len(store) + 1 /\ KeysDiffer(store') /\ Holds(store', k, v)
          /\ \A k2 \in Keys, x \in Values \cup {Nil} : k2 # k => (Holds(store', k2, x) <=> Holds(store, k2, x))
      BY <2>1, <2>2, <2>3, Appended DEF StoreInv
    <2>5. Agrees(k)'
      <3>1. kv'[k] = v
        BY <1>1, <2>2
      <3> QED
        BY <2>2, <2>4, <3>1 DEF Agrees
    <2>6. Len(store') <= StorageMax
      <3>1. Len(store) \in Nat /\ ~(Len(store) >= StorageMax)
        BY <1>4 DEF StoreInv
      <3> QED
        BY <2>4, <3>1, NilIsNoValue
    <2> QED
      BY <1>1, <2>2, <2>4, <2>5, <2>6, KeyChanged
  <1> QED
    BY <1>2, <1>3, <1>4

LEMMA DelKeeps == ASSUME StoreInv, NEW k \in Keys, StorageDel(k) PROVE StoreInv'
  <1>1. got' = due' /\ kv' = [kv EXCEPT ![k] = Nil] /\ lost' = lost \ {k} /\ kv \in [Keys -> Values \cup {Nil}]
    BY DEF StorageDel, StoreInv
  <1>2. CASE Entry(k) = {}
    <2>1. store' = store
      BY <1>2 DEF StorageDel, DelEntry, Outcome
    <2>2. \A v \in Values \cup {Nil} : ~Holds(store', k, v)
      BY <1>2, <2>1, EntryFacts
    <2>3. Agrees(k)'
      BY <1>1, <2>2 DEF Agrees
    <2> QED
      BY <1>1, <2>1, <2>3, KeyChanged DEF StoreInv
  <1>3. CASE Entry(k) # {}
    <2>1. PICK i \in DOMAIN store : The(Entry(k)) = i /\ store[i].key = k
      BY <1>3, EntryFacts
    <2>2. store' = [j \in 1 .. Len(store) - 1 |-> IF j < i THEN store[j] ELSE store[j + 1]]
      BY <1>3, <2>1 DEF StorageDel, DelEntry, Outcome
    <2>3. /\ store' \in Seq(Cells) /\ Len(store') = Len(store) - 1 /\ KeysDiffer(store')
          /\ \A v \in Values \cup {Nil} : ~Holds(store', k, v)
          /\ \A k2 \in Keys, v \in Values \cup {Nil} : k2 # k => (Holds(store', k2, v) <=> Holds(store, k2, v))
      <3>1. store \in Seq(Cells) /\ KeysDiffer(store)
        BY DEF StoreInv
      <3>2. IsDeletion(Without(store, i), store, i)
        BY <2>1, <3>1, Deleted, Zenon
      <3> QED
        BY <2>1, <2>2, <3>2 DEF IsDeletion, Without
    <2>4. Agrees(k)'
      BY <1>1, <2>3 DEF Agrees
    <2>5. Len(store') <= StorageMax
      <3>1. Len(store) \in Nat /\ Len(store) <= StorageMax
        BY DEF StoreInv
      <3> QED
        BY <2>3, <3>1, NilIsNoValue
    <2> QED
      BY <1>1, <2>3, <2>4, <2>5, KeyChanged
  <1> QED
    BY <1>2, <1>3

LEMMA GetKeeps == ASSUME StoreInv, NEW k \in Keys, StorageGet(k) PROVE StoreInv'
  <1>1. UNCHANGED <<store, kv, lost>> /\ Agrees(k)
    BY DEF StorageGet, StoreInv
  <1>2. got' = due'
    <2>1. CASE Entry(k) = {}
      <3>1. got' = Nil
        BY <2>1 DEF StorageGet, StorageGetDone, GetEntry
      <3>2. k \notin lost /\ kv[k] = Nil
        BY <1>1, <2>1, EntryFacts DEF Agrees
      <3> QED
        BY <3>1, <3>2 DEF StorageGet
    <2>2. CASE Entry(k) # {}
      <3>1. PICK i \in DOMAIN store : /\ The(Entry(k)) = i /\ \A v : Holds(store, k, v) => v = store[i].value
                                      /\ Holds(store, k, store[i].value) /\ store[i].value \in Values \cup {Nil}
        BY <2>2, EntryFacts
      <3>2. got' = IF store[i].value = Nil THEN Empty ELSE store[i].value
        BY <2>2, <3>1 DEF StorageGet, StorageGetDone, GetEntry
      <3>3. CASE k \in lost
        BY <1>1, <3>1, <3>2, <3>3 DEF Agrees, StorageGet
      <3>4. CASE k \notin lost
        <4>1. kv[k] \in Values /\ kv[k] = store[i].value
          BY <1>1, <3>1, <3>4 DEF Agrees
        <4> QED
          BY <3>2, <3>4, <4>1, NilIsNoValue DEF StorageGet
      <3> QED
        BY <3>3, <3>4
    <2> QED
      BY <2>1, <2>2
  <1> QED
    BY <1>1, <1>2 DEF StoreInv, Agrees

LEMMA ApplyProxyKeeps == ASSUME ProxyInv, NEW o \in HttpOps, NEW u \in Proxies, ApplyProxy(o, u) PROVE ProxyInv'
  <1>1. /\ through' = [through EXCEPT ![o] = u] /\ borrowed' = [borrowed EXCEPT ![o] = authValue']
    BY DEF ApplyProxy
  <1>2. /\ authOf' \in Seq(Proxies) /\ authValue' \in 1 .. Len(authOf') /\ authOf'[authValue'] = u /\ authUrl' = u
        /\ \A i \in 1 .. Len(authOf) : i \in 1 .. Len(authOf') /\ authOf'[i] = authOf[i]
    <2>1. CASE authUrl # u
      <3>1. /\ authUrl' = u /\ authValue' = Len(authOf) + 1 /\ authOf' = Append(authOf, u) /\ authOf \in Seq(Proxies)
        BY <2>1 DEF ApplyProxy, ProxyInv
      <3>2. /\ authOf' \in Seq(Proxies) /\ Len(authOf') = Len(authOf) + 1 /\ authOf'[Len(authOf) + 1] = u
            /\ \A i \in 1 .. Len(authOf) : authOf'[i] = authOf[i]
        BY <3>1, AppendProperties
      <3>3. Len(authOf) \in Nat
        BY <3>1
      <3>4. Len(authOf) + 1 \in 1 .. Len(authOf') /\ \A i \in 1 .. Len(authOf) : i \in 1 .. Len(authOf')
        BY <3>2, <3>3
      <3> QED
        BY <3>1, <3>2, <3>4
    <2>2. CASE authUrl = u
      <3>1. UNCHANGED <<authUrl, authValue, authOf>>
        BY <2>2 DEF ApplyProxy
      <3>2. authValue # 0 /\ authOf[authValue] = u
        BY <2>2, NilIsNoValue DEF ProxyInv
      <3>3. authValue \in 1 .. Len(authOf)
        BY <3>2 DEF ProxyInv
      <3> QED
        BY <2>2, <3>1, <3>2, <3>3 DEF ProxyInv
    <2> QED
      BY <2>1, <2>2
  <1>3. authValue' \in 0 .. Len(authOf') /\ authValue' \in Nat /\ authValue' # 0
    BY <1>2
  <1>4. borrowed' \in [HttpOps -> Nat] /\ through' \in [HttpOps -> Proxies \cup {Nil}]
    BY <1>1, <1>3 DEF ProxyInv
  <1>5. ASSUME NEW p \in HttpOps, borrowed'[p] # 0
        PROVE  borrowed'[p] \in 1 .. Len(authOf') /\ authOf'[borrowed'[p]] = through'[p]
    <2>1. CASE p = o
      BY <1>1, <1>2, <2>1 DEF ProxyInv
    <2>2. CASE p # o
      <3>1. borrowed'[p] = borrowed[p] /\ through'[p] = through[p]
        BY <1>1, <2>2 DEF ProxyInv
      <3> QED
        BY <1>2, <1>5, <3>1 DEF ProxyInv
    <2> QED
      BY <2>1, <2>2
  <1> QED
    BY <1>2, <1>3, <1>4, <1>5 DEF ProxyInv

LEMMA AuthUsedKeeps == ASSUME ProxyInv, NEW o \in HttpOps, AuthUsed(o) PROVE ProxyInv'
  <1>1. borrowed' = [borrowed EXCEPT ![o] = 0] /\ UNCHANGED <<authOf, authUrl, authValue, through>>
    BY DEF AuthUsed
  <1>2. borrowed' \in [HttpOps -> Nat] /\ \A p \in HttpOps : borrowed'[p] # 0 => borrowed'[p] = borrowed[p]
    BY <1>1 DEF ProxyInv
  <1> QED
    BY <1>1, <1>2 DEF ProxyInv

LEMMA StoresStart == StoresInit => StoreInv /\ ProxyInv
  <1> SUFFICES ASSUME StoresInit PROVE StoreInv /\ ProxyInv
    OBVIOUS
  <1>1. /\ store = << >> /\ Len(store) = 0 /\ DOMAIN store = {} /\ store \in Seq(Cells)
        /\ authOf = << >> /\ Len(authOf) = 0 /\ authOf \in Seq(Proxies)
    BY EmptySeq DEF StoresInit
  <1>2. \A k \in Keys : Agrees(k)
    BY <1>1 DEF StoresInit, Agrees, Holds
  <1>3. kv \in [Keys -> Values \cup {Nil}] /\ lost \subseteq Keys /\ got = due /\ KeysDiffer(store)
    BY <1>1 DEF StoresInit, KeysDiffer
  <1>4. StoreInv
    BY <1>1, <1>2, <1>3, NilIsNoValue DEF StoreInv
  <1>5. /\ authValue = 0 /\ authUrl = Nil /\ borrowed \in [HttpOps -> Nat] /\ through \in [HttpOps -> Proxies \cup {Nil}]
        /\ \A o \in HttpOps : borrowed[o] = 0
    BY DEF StoresInit
  <1>6. 0 \in 0 .. 0
    OBVIOUS
  <1> QED
    BY <1>1, <1>4, <1>5, <1>6 DEF ProxyInv

LEMMA StoresKept == StoreInv /\ ProxyInv /\ [StoresNext]_storeVars => StoreInv' /\ ProxyInv'
  <1> SUFFICES ASSUME StoreInv, ProxyInv, [StoresNext]_storeVars PROVE StoreInv' /\ ProxyInv'
    OBVIOUS
  <1>1. ASSUME UNCHANGED <<store, kv, lost, got, due>> PROVE StoreInv'
    BY <1>1 DEF StoreInv, Agrees
  <1>2. ASSUME UNCHANGED proxyVars PROVE ProxyInv'
    BY <1>2 DEF ProxyInv, proxyVars
  <1>3. CASE UNCHANGED storeVars
    BY <1>1, <1>2, <1>3 DEF storeVars, proxyVars
  <1>4. ASSUME NEW k \in Keys, NEW v \in Values, NEW oom \in BOOLEAN, StorageSet(k, v, oom)
        PROVE  StoreInv' /\ ProxyInv'
    BY <1>2, <1>4, SetKeeps DEF StorageSet
  <1>5. ASSUME NEW k \in Keys, StorageGet(k) \/ StorageDel(k) PROVE StoreInv' /\ ProxyInv'
    BY <1>2, <1>5, GetKeeps, DelKeeps DEF StorageGet, StorageDel
  <1>6. ASSUME NEW o \in HttpOps, NEW u \in Proxies, ApplyProxy(o, u) PROVE StoreInv' /\ ProxyInv'
    BY <1>1, <1>6, ApplyProxyKeeps DEF ApplyProxy
  <1>7. ASSUME NEW o \in HttpOps, AuthUsed(o) PROVE StoreInv' /\ ProxyInv'
    BY <1>1, <1>7, AuthUsedKeeps DEF AuthUsed
  <1> QED
    BY <1>3, <1>4, <1>5, <1>6, <1>7 DEF StoresNext

LEMMA StoresSound == StoreInv /\ ProxyInv => StoreIsMap /\ AuthIsOwn
  <1> SUFFICES ASSUME StoreInv, ProxyInv PROVE StoreIsMap /\ AuthIsOwn
    OBVIOUS
  <1>1. ASSUME NEW k \in Keys \ lost PROVE kv[k] = IF Entry(k) # {} THEN store[The(Entry(k))].value ELSE Nil
    <2>1. Agrees(k) /\ k \in Keys /\ kv[k] \in Values \cup {Nil}
      BY DEF StoreInv
    <2>2. CASE Entry(k) = {}
      BY <2>1, <2>2, EntryFacts DEF Agrees
    <2>3. CASE Entry(k) # {}
      <3>1. PICK i \in DOMAIN store : /\ The(Entry(k)) = i /\ \A v : Holds(store, k, v) => v = store[i].value
                                      /\ Holds(store, k, store[i].value) /\ store[i].value \in Values \cup {Nil}
        BY <2>1, <2>3, EntryFacts
      <3> QED
        BY <2>1, <2>3, <3>1 DEF Agrees
    <2> QED
      BY <2>2, <2>3
  <1>2. StoreIsMap
    BY <1>1 DEF StoreInv, KeysDiffer, StoreIsMap
  <1>3. AuthIsOwn
    BY DEF ProxyInv, AuthIsOwn
  <1> QED
    BY <1>2, <1>3

(* Of local-storage.js with fsWriteSync, and of uv_io.c: for any number of       *)
(* processes that die at any step, the file of localStorage is whole and the one *)
(* user's area is what it says as long as no two write at once; for any keys,    *)
(* values and limit, the store answers like a map; and for any requests and      *)
(* proxies, the credentials lent to a request are those of its proxy.            *)
THEOREM StoredStaysKept == LsSpec /\ StoresSpec => []StoredIsKept
  <1>1. LsInit => LsInv
    BY LsStarts
  <1>2. LsInv /\ [LsNext]_lsVars => LsInv'
    BY LsKept
  <1>3. StoresInit => StoreInv /\ ProxyInv
    BY StoresStart
  <1>4. StoreInv /\ ProxyInv /\ [StoresNext]_storeVars => StoreInv' /\ ProxyInv'
    BY StoresKept
  <1>5. LsInv /\ StoreInv /\ ProxyInv => StoredIsKept
    BY LsSound, StoresSound DEF StoredIsKept
  <1> QED
    BY <1>1, <1>2, <1>3, <1>4, <1>5, PTL DEF LsSpec, StoresSpec

-----------------------------------------------------------------------------
(* WebAssembly objects and the collector *)

WasmSpec == WasmInit /\ [][WasmNext]_wasmVars

PartKinds == {"inst", "func", "mem", "global", "buf", "import"}
WObjs == ({"module"} \X WModules) \cup (PartKinds \X WInstances)

WasmTypes ==
    /\ engine \in {"wasm3", "wamr"} /\ liveObjs \subseteq WObjs /\ roots \subseteq liveObjs
    /\ parsed \in [WModules -> {"none", "own", "runtime", "freed"}]
    /\ instRef \in [WModules -> WInstances \cup {NoObj}]
    /\ moduleOf \in [WInstances -> WModules \cup {NoObj}]
    /\ native \in [WInstances -> {"none", "live", "freed"}]
    /\ captures \subseteq WInstances /\ twice \in BOOLEAN
    /\ pages \in [WInstances -> 1 .. MaxPages] /\ seen \in [WInstances -> Nat]
    /\ block \in [WInstances -> Nat] /\ wraps \in [WInstances -> Nat]

(* What a live object refers to is alive. *)
LiveIsClosed == \A o \in liveObjs : Refers(o) \subseteq liveObjs

(* A live instance has its runtime and its module; wasm3: they belong together. *)
InstancesOwn ==
    \A i \in WInstances : <<"inst", i>> \in liveObjs =>
        /\ native[i] = "live" /\ moduleOf[i] \in WModules
        /\ engine = "wasm3" => instRef[moduleOf[i]] = i /\ parsed[moduleOf[i]] = "runtime"

ModulesKept ==
    \A m \in WModules : <<"module", m>> \in liveObjs /\ m \notin refusedLink => parsed[m] # "freed"

BuffersFollow ==
    \A i \in WInstances : seen[i] <= pages[i] /\ (seen[i] = pages[i] => wraps[i] = block[i])

(* What the objects of each kind refer to. *)
LEMMA PropertiesOf ==
    ASSUME NEW i
    PROVE  /\ Properties(<<"inst", i>>) = Exports(i) \cap liveObjs
           /\ Properties(<<"mem", i>>) = {<<"buf", i>>}
           /\ Properties(<<"import", i>>) = IF i \in captures THEN {<<"inst", i>>} ELSE {}
           /\ Properties(<<"module", i>>) = {} /\ Properties(<<"func", i>>) = {}
           /\ Properties(<<"global", i>>) = {} /\ Properties(<<"buf", i>>) = {}
  BY DEF Properties

LEMMA HeldOf ==
    ASSUME NEW i
    PROVE  /\ Held(<<"inst", i>>) = {<<"module", moduleOf[i]>>, <<"import", i>>}
           /\ Held(<<"module", i>>) = IF instRef[i] = NoObj THEN {} ELSE {<<"inst", instRef[i]>>}
           /\ Held(<<"global", i>>) = {<<"inst", i>>}
           /\ Held(<<"func", i>>) = IF engine = "wasm3" THEN {<<"inst", i>>} ELSE {}
           /\ Held(<<"mem", i>>) = IF engine = "wasm3" THEN {<<"inst", i>>} ELSE {}
           /\ Held(<<"buf", i>>) = {} /\ Held(<<"import", i>>) = {}
  BY DEF Held


LEMMA RefersOf ==
    ASSUME NEW i
    PROVE  /\ Refers(<<"inst", i>>) = (Exports(i) \cap liveObjs) \cup {<<"module", moduleOf[i]>>, <<"import", i>>}
           /\ Refers(<<"module", i>>) = IF instRef[i] = NoObj THEN {} ELSE {<<"inst", instRef[i]>>}
           /\ Refers(<<"global", i>>) = {<<"inst", i>>}
           /\ Refers(<<"func", i>>) = IF engine = "wasm3" THEN {<<"inst", i>>} ELSE {}
           /\ Refers(<<"mem", i>>) = {<<"buf", i>>} \cup IF engine = "wasm3" THEN {<<"inst", i>>} ELSE {}
           /\ Refers(<<"buf", i>>) = {}
           /\ Refers(<<"import", i>>) = IF i \in captures THEN {<<"inst", i>>} ELSE {}
  <1>1. \A o : Refers(o) = Properties(o) \cup Held(o)
    BY DEF Refers
  <1> QED
    BY <1>1, PropertiesOf, HeldOf

(* The kinds of objects. *)
LEMMA ObjKinds ==
    ASSUME NEW o \in WObjs
    PROVE  \/ \E m \in WModules : o = <<"module", m>>
           \/ \E i \in WInstances : \/ o = <<"inst", i>> \/ o = <<"func", i>> \/ o = <<"mem", i>>
                                    \/ o = <<"global", i>> \/ o = <<"buf", i>> \/ o = <<"import", i>>
  BY DEF WObjs, PartKinds

(* What closed means, object by object. *)
Closed ==
    /\ \A m \in WModules : <<"module", m>> \in liveObjs /\ instRef[m] # NoObj => <<"inst", instRef[m]>> \in liveObjs
    /\ \A i \in WInstances :
          /\ <<"inst", i>> \in liveObjs => <<"module", moduleOf[i]>> \in liveObjs /\ <<"import", i>> \in liveObjs
          /\ <<"global", i>> \in liveObjs => <<"inst", i>> \in liveObjs
          /\ <<"mem", i>> \in liveObjs => <<"buf", i>> \in liveObjs
          /\ engine = "wasm3" /\ (<<"func", i>> \in liveObjs \/ <<"mem", i>> \in liveObjs) => <<"inst", i>> \in liveObjs
          /\ <<"import", i>> \in liveObjs /\ i \in captures => <<"inst", i>> \in liveObjs

LEMMA ClosedIs ==
    ASSUME WasmTypes PROVE LiveIsClosed <=> Closed
  <1>1. ASSUME LiveIsClosed PROVE Closed
    <2>1. \A o \in liveObjs : Refers(o) \subseteq liveObjs
      BY <1>1 DEF LiveIsClosed
    <2> QED
      BY <2>1, RefersOf DEF Closed
  <1>2. ASSUME Closed PROVE LiveIsClosed
    <2> SUFFICES ASSUME NEW o \in liveObjs PROVE Refers(o) \subseteq liveObjs
      BY DEF LiveIsClosed
    <2>1. o \in WObjs
      BY DEF WasmTypes
    <2>2. ASSUME NEW m \in WModules, o = <<"module", m>> PROVE Refers(o) \subseteq liveObjs
      <3>1. Refers(<<"module", m>>) = IF instRef[m] = NoObj THEN {} ELSE {<<"inst", instRef[m]>>}
        BY RefersOf, Zenon
      <3>2. instRef[m] # NoObj => <<"inst", instRef[m]>> \in liveObjs
        BY <1>2, <2>2 DEF Closed
      <3> QED
        BY <2>2, <3>1, <3>2, Zenon
    <2>3. ASSUME NEW i \in WInstances, \/ o = <<"inst", i>> \/ o = <<"func", i>> \/ o = <<"mem", i>>
                                    \/ o = <<"global", i>> \/ o = <<"buf", i>> \/ o = <<"import", i>>
          PROVE Refers(o) \subseteq liveObjs
      <3>1. ASSUME o = <<"inst", i>> PROVE Refers(o) \subseteq liveObjs
        <4>1. Refers(<<"inst", i>>) = (Exports(i) \cap liveObjs) \cup {<<"module", moduleOf[i]>>, <<"import", i>>}
          BY RefersOf, Zenon
        <4>2. <<"module", moduleOf[i]>> \in liveObjs /\ <<"import", i>> \in liveObjs
          BY <1>2, <3>1 DEF Closed
        <4> QED
          BY <3>1, <4>1, <4>2
      <3>2. ASSUME o = <<"func", i>> PROVE Refers(o) \subseteq liveObjs
        <4>1. Refers(<<"func", i>>) = IF engine = "wasm3" THEN {<<"inst", i>>} ELSE {}
          BY RefersOf, Zenon
        <4>2. engine = "wasm3" => <<"inst", i>> \in liveObjs
          BY <1>2, <3>2 DEF Closed
        <4> QED
          BY <3>2, <4>1, <4>2
      <3>3. ASSUME o = <<"mem", i>> PROVE Refers(o) \subseteq liveObjs
        <4>1. Refers(<<"mem", i>>) = {<<"buf", i>>} \cup IF engine = "wasm3" THEN {<<"inst", i>>} ELSE {}
          BY RefersOf, Zenon
        <4>2. <<"buf", i>> \in liveObjs /\ (engine = "wasm3" => <<"inst", i>> \in liveObjs)
          BY <1>2, <3>3 DEF Closed
        <4> QED
          BY <3>3, <4>1, <4>2
      <3>4. ASSUME o = <<"global", i>> PROVE Refers(o) \subseteq liveObjs
        <4>1. Refers(<<"global", i>>) = {<<"inst", i>>}
          BY RefersOf, Zenon
        <4>2. <<"inst", i>> \in liveObjs
          BY <1>2, <3>4 DEF Closed
        <4> QED
          BY <3>4, <4>1, <4>2
      <3>5. ASSUME o = <<"buf", i>> PROVE Refers(o) \subseteq liveObjs
        <4>1. Refers(<<"buf", i>>) = {}
          BY RefersOf, Zenon
        <4>2. TRUE
          BY <1>2, <3>5 DEF Closed
        <4> QED
          BY <3>5, <4>1, <4>2
      <3>6. ASSUME o = <<"import", i>> PROVE Refers(o) \subseteq liveObjs
        <4>1. Refers(<<"import", i>>) = IF i \in captures THEN {<<"inst", i>>} ELSE {}
          BY RefersOf, Zenon
        <4>2. i \in captures => <<"inst", i>> \in liveObjs
          BY <1>2, <3>6 DEF Closed
        <4> QED
          BY <3>6, <4>1, <4>2
      <3> QED
        BY <2>3, <3>1, <3>2, <3>3, <3>4, <3>5, <3>6, Zenon
    <2> QED
      BY <2>1, <2>2, <2>3, ObjKinds
  <1> QED
    BY <1>1, <1>2

UnloadedRefersNot == \A m \in WModules : parsed[m] = "none" => instRef[m] = NoObj

WasmInv ==
    /\ WasmTypes /\ Closed /\ InstancesOwn /\ ModulesKept /\ BuffersFollow /\ UnloadedRefersNot /\ ~twice

LEMMA WasmStart == WasmInit => WasmInv
  <1> SUFFICES ASSUME WasmInit PROVE WasmInv
    OBVIOUS
  <1> USE DEF WasmInit
  <1>1. WasmTypes
    <2>1. 1 \in 1 .. MaxPages
      BY WasmAssumption
    <2>2. /\ pages \in [WInstances -> 1 .. MaxPages] /\ seen \in [WInstances -> Nat]
          /\ block \in [WInstances -> Nat] /\ wraps \in [WInstances -> Nat]
      BY <2>1
    <2> QED
      BY <2>2 DEF WasmTypes
  <1>2. Closed /\ InstancesOwn /\ ModulesKept
    BY DEF Closed, InstancesOwn, ModulesKept
  <1>3. BuffersFollow /\ UnloadedRefersNot
    BY DEF BuffersFollow, UnloadedRefersNot
  <1> QED
    BY <1>1, <1>2, <1>3 DEF WasmInv

LEMMA NewModuleKeeps == ASSUME WasmInv, NEW m \in WModules, NewModule(m) PROVE WasmInv'
  <1> USE DEF WasmInv, NewModule, memVars
  <1>1. WasmTypes'
    BY DEF WasmTypes, WObjs
  <1>2. Closed'
    BY DEF Closed, UnloadedRefersNot
  <1>3. InstancesOwn' /\ ModulesKept'
    BY DEF WasmTypes, InstancesOwn, ModulesKept
  <1>4. BuffersFollow' /\ UnloadedRefersNot' /\ ~twice'
    BY DEF WasmTypes, BuffersFollow, UnloadedRefersNot
  <1> QED
    BY <1>1, <1>2, <1>3, <1>4

LEMMA LinkFailsKeeps == ASSUME WasmInv, NEW m \in WModules, LinkFails(m) PROVE WasmInv'
  <1> USE DEF WasmInv, LinkFails, memVars
  <1>1. WasmTypes'
    BY DEF WasmTypes
  <1>2. Closed'
    BY DEF Closed
  <1>3. InstancesOwn' /\ ModulesKept'
    BY DEF WasmTypes, InstancesOwn, ModulesKept
  <1>4. BuffersFollow' /\ UnloadedRefersNot' /\ ~twice'
    BY DEF WasmTypes, BuffersFollow, UnloadedRefersNot
  <1> QED
    BY <1>1, <1>2, <1>3, <1>4

LEMMA LinkLeaksKeeps == ASSUME WasmInv, NEW m \in WModules, LinkLeaks(m) PROVE WasmInv'
  <1> USE DEF WasmInv, LinkLeaks, memVars
  <1>1. WasmTypes'
    BY DEF WasmTypes
  <1>2. Closed'
    BY DEF Closed
  <1>3. InstancesOwn' /\ ModulesKept'
    BY DEF WasmTypes, InstancesOwn, ModulesKept
  <1>4. BuffersFollow' /\ UnloadedRefersNot' /\ ~twice'
    BY DEF WasmTypes, BuffersFollow, UnloadedRefersNot
  <1> QED
    BY <1>1, <1>2, <1>3, <1>4

LEMMA NewInstanceKeeps ==
    ASSUME WasmInv, NEW m \in WModules, NEW i \in WInstances, NEW c \in BOOLEAN, NEW g \in BOOLEAN,
           NewInstance(m, i, c, g)
    PROVE  WasmInv'
  <1> DEFINE news == IF g THEN PartsOf(i) ELSE PartsOf(i) \ {<<"global", i>>}
  <1>1. /\ news \subseteq PartsOf(i) /\ <<"inst", i>> \in news /\ <<"mem", i>> \in news
        /\ <<"buf", i>> \in news /\ <<"import", i>> \in news
    BY DEF PartsOf, Exports
  <1>2. PartsOf(i) \subseteq WObjs
    BY DEF PartsOf, Exports, WObjs, PartKinds
  <1>3. \A o \in PartsOf(i) : o = <<o[1], i>> /\ o[1] # "module"
    BY DEF PartsOf, Exports
  <1>4. liveObjs' = liveObjs \cup news /\ roots' = roots \cup {<<"inst", i>>}
    BY DEF NewInstance
  <1> HIDE DEF news
  <1>5. <<"module", m>> \in liveObjs /\ parsed[m] = "own" /\ instRef \in [WModules -> WInstances \cup {NoObj}]
    BY DEF NewInstance, WasmInv, WasmTypes
  <1>6. WasmTypes'
    <2>1. liveObjs' \subseteq WObjs /\ roots' \subseteq liveObjs'
      BY <1>1, <1>2, <1>4 DEF WasmInv, WasmTypes
    <2>2. /\ parsed' \in [WModules -> {"none", "own", "runtime", "freed"}]
          /\ instRef' \in [WModules -> WInstances \cup {NoObj}]
          /\ moduleOf' \in [WInstances -> WModules \cup {NoObj}]
          /\ native' \in [WInstances -> {"none", "live", "freed"}] /\ captures' \subseteq WInstances
      BY DEF WasmInv, WasmTypes, NewInstance
    <2> QED
      BY <2>1, <2>2 DEF WasmInv, WasmTypes, NewInstance, memVars
  <1>7. Closed'
    <2>1. ASSUME NEW n \in WModules, <<"module", n>> \in liveObjs', instRef'[n] # NoObj
          PROVE  <<"inst", instRef'[n]>> \in liveObjs'
      <3>1. <<"module", n>> \in liveObjs
        BY <1>1, <1>3, <1>4, <2>1
      <3>2. instRef'[n] = instRef[n] \/ instRef'[n] = i
        BY <1>5 DEF NewInstance
      <3> QED
        BY <1>1, <1>4, <2>1, <3>1, <3>2 DEF WasmInv, Closed
    <2>2. ASSUME NEW j \in WInstances, j # i, NEW k \in PartKinds, <<k, j>> \in liveObjs' PROVE <<k, j>> \in liveObjs
      BY <1>1, <1>3, <1>4, <2>2
    <2>3. ASSUME NEW j \in WInstances, j # i
          PROVE  /\ <<"inst", j>> \in liveObjs' => <<"module", moduleOf'[j]>> \in liveObjs' /\ <<"import", j>> \in liveObjs'
                 /\ <<"global", j>> \in liveObjs' => <<"inst", j>> \in liveObjs'
                 /\ <<"mem", j>> \in liveObjs' => <<"buf", j>> \in liveObjs'
                 /\ engine = "wasm3" /\ (<<"func", j>> \in liveObjs' \/ <<"mem", j>> \in liveObjs') => <<"inst", j>> \in liveObjs'
                 /\ <<"import", j>> \in liveObjs' /\ j \in captures' => <<"inst", j>> \in liveObjs'
      <3>1. moduleOf'[j] = moduleOf[j] /\ (j \in captures' => j \in captures)
        BY <2>3 DEF NewInstance, WasmInv, WasmTypes
      <3>2. \A k \in PartKinds : <<k, j>> \in liveObjs' => <<k, j>> \in liveObjs
        BY <2>2, <2>3
      <3> QED
        BY <1>4, <3>1, <3>2 DEF WasmInv, Closed, PartKinds
    <2>4. moduleOf'[i] = m
      BY DEF NewInstance, WasmInv, WasmTypes
    <2>5. engine' = engine
      BY DEF NewInstance
    <2> QED
      BY <1>1, <1>4, <1>5, <2>1, <2>3, <2>4, <2>5 DEF Closed
  <1>8. InstancesOwn'
    <2> SUFFICES ASSUME NEW j \in WInstances, <<"inst", j>> \in liveObjs'
                 PROVE  /\ native'[j] = "live" /\ moduleOf'[j] \in WModules
                        /\ engine = "wasm3" => instRef'[moduleOf'[j]] = j /\ parsed'[moduleOf'[j]] = "runtime"
      BY DEF InstancesOwn, NewInstance
    <2>1. CASE j = i
      BY <2>1 DEF NewInstance, WasmInv, WasmTypes
    <2>2. CASE j # i
      <3>1. <<"inst", j>> \in liveObjs
        BY <1>1, <1>3, <1>4, <2>2
      <3>2. /\ native[j] = "live" /\ moduleOf[j] \in WModules
            /\ engine = "wasm3" => instRef[moduleOf[j]] = j /\ parsed[moduleOf[j]] = "runtime"
        BY <3>1 DEF WasmInv, InstancesOwn
      <3>3. native'[j] = native[j] /\ moduleOf'[j] = moduleOf[j]
        BY <2>2 DEF NewInstance, WasmInv, WasmTypes
      <3>4. engine = "wasm3" => moduleOf[j] # m
        BY <1>5, <3>2
      <3> QED
        BY <3>2, <3>3, <3>4 DEF NewInstance, WasmInv, WasmTypes
    <2> QED
      BY <2>1, <2>2
  <1>9. ModulesKept'
    <2> SUFFICES ASSUME NEW n \in WModules, <<"module", n>> \in liveObjs', n \notin refusedLink PROVE parsed'[n] # "freed"
      BY DEF ModulesKept, NewInstance
    <2>1. <<"module", n>> \in liveObjs
      BY <1>1, <1>3, <1>4
    <2>2. parsed[n] # "freed"
      BY <2>1 DEF WasmInv, ModulesKept
    <2> QED
      BY <2>2 DEF NewInstance, WasmInv, WasmTypes
  <1>10. BuffersFollow' /\ ~twice'
    BY DEF NewInstance, memVars, WasmInv, BuffersFollow
  <1>11. UnloadedRefersNot'
    BY DEF NewInstance, WasmInv, WasmTypes, UnloadedRefersNot
  <1> QED
    BY <1>6, <1>7, <1>8, <1>9, <1>10, <1>11 DEF WasmInv

LEMMA DropKeeps == ASSUME WasmInv, NEW o, Drop(o) PROVE WasmInv'
  <1> USE DEF WasmInv, Drop, memVars
  <1>1. WasmTypes'
    BY DEF WasmTypes
  <1>2. Closed' /\ InstancesOwn' /\ ModulesKept'
    BY DEF Closed, InstancesOwn, ModulesKept
  <1>3. BuffersFollow' /\ UnloadedRefersNot' /\ ~twice'
    BY DEF BuffersFollow, UnloadedRefersNot
  <1> QED
    BY <1>1, <1>2, <1>3

LEMMA TakeKeeps == ASSUME WasmInv, NEW o \in liveObjs, Take(o) PROVE WasmInv'
  <1> USE DEF WasmInv, Take, memVars
  <1>1. WasmTypes'
    BY DEF WasmTypes
  <1>2. Closed' /\ InstancesOwn' /\ ModulesKept'
    BY DEF Closed, InstancesOwn, ModulesKept
  <1>3. BuffersFollow' /\ UnloadedRefersNot' /\ ~twice'
    BY DEF BuffersFollow, UnloadedRefersNot
  <1> QED
    BY <1>1, <1>2, <1>3

LEMMA MemoryGrowKeeps == ASSUME WasmInv, NEW i \in WInstances, MemoryGrow(i) PROVE WasmInv'
  <1> USE DEF MemoryGrow
  <1>1. WasmTypes'
    <2>1. seen[i] + 1 \in 1 .. MaxPages /\ seen[i] + 1 \in Nat /\ block[i] + 1 \in Nat
      BY WasmAssumption DEF WasmInv, WasmTypes
    <2>2. /\ pages' \in [WInstances -> 1 .. MaxPages] /\ seen' \in [WInstances -> Nat]
          /\ block' \in [WInstances -> Nat] /\ wraps' \in [WInstances -> Nat]
      BY <2>1 DEF WasmInv, WasmTypes
    <2>3. liveObjs' \subseteq WObjs /\ roots' \subseteq liveObjs'
      BY DEF WasmInv, WasmTypes, WObjs, PartKinds
    <2> QED
      BY <2>2, <2>3 DEF WasmInv, WasmTypes
  <1>2. Closed'
    BY DEF WasmInv, Closed
  <1>3. InstancesOwn' /\ ModulesKept' /\ UnloadedRefersNot' /\ ~twice'
    BY DEF WasmInv, InstancesOwn, ModulesKept, UnloadedRefersNot
  <1>4. BuffersFollow'
    BY DEF WasmInv, WasmTypes, BuffersFollow
  <1> QED
    BY <1>1, <1>2, <1>3, <1>4 DEF WasmInv

LEMMA CallGrowsKeeps == ASSUME WasmInv, NEW i \in WInstances, CallGrows(i) PROVE WasmInv'
  <1> USE DEF CallGrows
  <1>1. WasmTypes'
    <2>1. pages[i] + 1 \in 1 .. MaxPages /\ block[i] + 1 \in Nat
      BY WasmAssumption DEF WasmInv, WasmTypes
    <2>2. pages' \in [WInstances -> 1 .. MaxPages] /\ block' \in [WInstances -> Nat]
      BY <2>1 DEF WasmInv, WasmTypes
    <2> QED
      BY <2>2 DEF WasmInv, WasmTypes
  <1>2. Closed'
    BY DEF WasmInv, Closed
  <1>3. InstancesOwn' /\ ModulesKept' /\ UnloadedRefersNot' /\ ~twice'
    BY DEF WasmInv, InstancesOwn, ModulesKept, UnloadedRefersNot
  <1>4. BuffersFollow'
    <2>1. \A j \in WInstances : pages'[j] = (IF j = i THEN pages[i] + 1 ELSE pages[j]) /\ seen'[j] = seen[j]
                             /\ (j # i => block'[j] = block[j]) /\ wraps'[j] = wraps[j]
      BY DEF WasmInv, WasmTypes
    <2>2. \A j \in WInstances : seen[j] \in Nat /\ pages[j] \in Nat
      BY WasmAssumption DEF WasmInv, WasmTypes
    <2> QED
      BY <2>1, <2>2 DEF WasmInv, BuffersFollow
  <1> QED
    BY <1>1, <1>2, <1>3, <1>4 DEF WasmInv

(* What a finalized instance and its module come to. *)
LEMMA FinalizeKeeps ==
    ASSUME WasmInv, NEW S, S \subseteq liveObjs, roots \cap S = {},
           \A o \in liveObjs \ S : Refers(o) \cap S = {}, Finalize(S)
    PROVE  WasmInv'
  <1> DEFINE insts == {i \in WInstances : <<"inst", i>> \in S}
             mods == {m \in WModules : <<"module", m>> \in S /\ parsed[m] = "own"}
             byRuntime == {m \in WModules : engine = "wasm3" /\ \E i \in insts : moduleOf[i] = m}
  <1>1. /\ liveObjs' = liveObjs \ S
        /\ native' = [i \in WInstances |-> IF i \in insts THEN "freed" ELSE native[i]]
        /\ parsed' = [m \in WModules |-> IF m \in byRuntime \cup mods THEN "freed" ELSE parsed[m]]
        /\ twice' = (twice \/ \E m \in byRuntime \cup mods : parsed[m] = "freed")
        /\ UNCHANGED <<engine, roots, instRef, moduleOf, captures, memVars, refusedLink>>
    BY DEF Finalize
  <1>2. \A m \in byRuntime : engine = "wasm3" /\ instRef[m] \in insts /\ parsed[m] = "runtime" /\ instRef[m] # NoObj
    <2> SUFFICES ASSUME NEW m \in byRuntime
                 PROVE  engine = "wasm3" /\ instRef[m] \in insts /\ parsed[m] = "runtime" /\ instRef[m] # NoObj
      BY Zenon
    <2>1. engine = "wasm3" /\ \E i \in insts : moduleOf[i] = m
      OBVIOUS
    <2>2. PICK i \in insts : moduleOf[i] = m
      BY <2>1
    <2>3. i \in WInstances /\ <<"inst", i>> \in liveObjs /\ i # NoObj
      BY <2>2 DEF WInstances, NoObj
    <2>4. instRef[m] = i /\ parsed[m] = "runtime"
      BY <2>1, <2>2, <2>3 DEF WasmInv, InstancesOwn
    <2> QED
      BY <2>1, <2>2, <2>3, <2>4
  <1>3. \A m \in mods : <<"module", m>> \in S /\ parsed[m] = "own"
    OBVIOUS
  <1>4. \A i \in insts : <<"inst", i>> \in S /\ i \in WInstances
    OBVIOUS
  <1>5. \A i \in WInstances : <<"inst", i>> \in S => i \in insts
    OBVIOUS
  <1> HIDE DEF insts, mods, byRuntime
  <1>6. WasmTypes'
    BY <1>1 DEF WasmInv, WasmTypes, memVars
  <1>7. Closed'
    <2>1. ASSUME NEW o \in liveObjs', NEW x \in Refers(o) \cap liveObjs PROVE x \in liveObjs'
      BY <1>1, <2>1
    <2>2. ASSUME NEW m \in WModules, <<"module", m>> \in liveObjs', instRef[m] # NoObj
          PROVE  <<"inst", instRef[m]>> \in liveObjs'
      <3>1. <<"inst", instRef[m]>> \in Refers(<<"module", m>>)
        BY <2>2, RefersOf
      <3>2. <<"inst", instRef[m]>> \in liveObjs
        BY <1>1, <2>2 DEF WasmInv, Closed
      <3> QED
        BY <2>1, <2>2, <3>1, <3>2
    <2>3. ASSUME NEW i \in WInstances
          PROVE  /\ <<"inst", i>> \in liveObjs' => <<"module", moduleOf[i]>> \in liveObjs' /\ <<"import", i>> \in liveObjs'
                 /\ <<"global", i>> \in liveObjs' => <<"inst", i>> \in liveObjs'
                 /\ <<"mem", i>> \in liveObjs' => <<"buf", i>> \in liveObjs'
                 /\ engine = "wasm3" /\ (<<"func", i>> \in liveObjs' \/ <<"mem", i>> \in liveObjs') => <<"inst", i>> \in liveObjs'
                 /\ <<"import", i>> \in liveObjs' /\ i \in captures => <<"inst", i>> \in liveObjs'
      <3>1. <<"module", moduleOf[i]>> \in Refers(<<"inst", i>>) /\ <<"import", i>> \in Refers(<<"inst", i>>)
        BY RefersOf
      <3>2. <<"inst", i>> \in Refers(<<"global", i>>) /\ <<"buf", i>> \in Refers(<<"mem", i>>)
        BY RefersOf
      <3>3. engine = "wasm3" => <<"inst", i>> \in Refers(<<"func", i>>) /\ <<"inst", i>> \in Refers(<<"mem", i>>)
        BY RefersOf
      <3>4. i \in captures => <<"inst", i>> \in Refers(<<"import", i>>)
        BY RefersOf
      <3>5. /\ <<"inst", i>> \in liveObjs => <<"module", moduleOf[i]>> \in liveObjs /\ <<"import", i>> \in liveObjs
            /\ <<"global", i>> \in liveObjs => <<"inst", i>> \in liveObjs
            /\ <<"mem", i>> \in liveObjs => <<"buf", i>> \in liveObjs
            /\ engine = "wasm3" /\ (<<"func", i>> \in liveObjs \/ <<"mem", i>> \in liveObjs) => <<"inst", i>> \in liveObjs
            /\ <<"import", i>> \in liveObjs /\ i \in captures => <<"inst", i>> \in liveObjs
        BY DEF WasmInv, Closed
      <3>6. \A o : o \in liveObjs' => o \in liveObjs
        BY <1>1
      <3>7. \A o, x : o \in liveObjs' /\ x \in Refers(o) /\ x \in liveObjs => x \in liveObjs'
        BY <2>1
      <3> QED
        BY <3>1, <3>2, <3>3, <3>4, <3>5, <3>6, <3>7, Zenon
    <2> QED
      BY <1>1, <2>2, <2>3 DEF Closed
  <1>8. InstancesOwn'
    <2> SUFFICES ASSUME NEW i \in WInstances, <<"inst", i>> \in liveObjs'
                 PROVE  /\ native'[i] = "live" /\ moduleOf'[i] \in WModules
                        /\ engine' = "wasm3" => instRef'[moduleOf'[i]] = i /\ parsed'[moduleOf'[i]] = "runtime"
      BY DEF InstancesOwn
    <2>1. /\ native[i] = "live" /\ moduleOf[i] \in WModules
          /\ engine = "wasm3" => instRef[moduleOf[i]] = i /\ parsed[moduleOf[i]] = "runtime"
      BY <1>1 DEF WasmInv, InstancesOwn
    <2>2. i \notin insts
      BY <1>1, <1>4
    <2>3. engine = "wasm3" => moduleOf[i] \notin byRuntime /\ moduleOf[i] \notin mods
      BY <1>2, <1>3, <2>1, <2>2
    <2> QED
      BY <1>1, <2>1, <2>2, <2>3
  <1>9. ModulesKept'
    <2> SUFFICES ASSUME NEW m \in WModules, <<"module", m>> \in liveObjs', m \notin refusedLink PROVE parsed'[m] # "freed"
      BY <1>1 DEF ModulesKept
    <2>1. parsed[m] # "freed" /\ m \notin mods
      BY <1>1, <1>3 DEF WasmInv, ModulesKept
    <2>2. ASSUME m \in byRuntime PROVE FALSE
      <3>1. <<"inst", instRef[m]>> \in S /\ instRef[m] # NoObj
        BY <1>2, <1>4, <2>2
      <3>2. <<"inst", instRef[m]>> \in Refers(<<"module", m>>)
        BY <3>1, RefersOf
      <3> QED
        BY <1>1, <3>1, <3>2
    <2> QED
      BY <1>1, <2>1, <2>2
  <1>10. ~twice'
    BY <1>1, <1>2, <1>3 DEF WasmInv
  <1>11. BuffersFollow' /\ UnloadedRefersNot'
    BY <1>1 DEF WasmInv, BuffersFollow, UnloadedRefersNot, memVars
  <1> QED
    BY <1>6, <1>7, <1>8, <1>9, <1>10, <1>11 DEF WasmInv

(* An object that nothing refers to *)
LEMMA ReleaseObjKeeps == ASSUME WasmInv, NEW o \in liveObjs, ReleaseObj(o) PROVE WasmInv'
  <1>1. o \notin roots /\ o \notin Targets(liveObjs) /\ Finalize({o})
    BY DEF ReleaseObj, Unreferred
  <1>2. \A p \in liveObjs : Refers(p) \subseteq Targets(liveObjs)
    BY DEF Refers, Targets
  <1>3. /\ {o} \subseteq liveObjs /\ roots \cap {o} = {}
        /\ \A p \in liveObjs \ {o} : Refers(p) \cap {o} = {}
    BY <1>1, <1>2
  <1> QED
    BY <1>1, <1>3, FinalizeKeeps, Zenon

(* One step of Reach, for what the collector sees and for all references. *)
SeenFrom(T) == T \cup UNION {Visible(o) : o \in T}
ReferredFrom(T) == T \cup UNION {Refers(o) : o \in T}

LEMMA ReachIs ==
    ASSUME NEW S
    PROVE  /\ Reach(S, Visible) = SeenFrom(SeenFrom(SeenFrom(SeenFrom(SeenFrom(SeenFrom(S))))))
           /\ Reach(S, Refers) = ReferredFrom(ReferredFrom(ReferredFrom(ReferredFrom(ReferredFrom(ReferredFrom(S))))))
  BY Zenon DEF Reach, SeenFrom, ReferredFrom

(* What the collector sees of an object *)
LEMMA VisibleIn ==
    ASSUME NEW o PROVE Properties(o) \subseteq Visible(o) /\ Visible(o) \subseteq Refers(o)
  BY DEF Visible, Refers, Marked

LEMMA VisibleWithTracing == ASSUME engine = "wasm3", NEW o PROVE Visible(o) = Refers(o) /\ Held(o) \ Marked(o) = {}
  BY DEF Visible, Refers, Marked

(* The same in bounds that do not depend on the extension *)
LEMMA RefersAtMost ==
    ASSUME NEW i
    PROVE  /\ Refers(<<"func", i>>) \subseteq {<<"inst", i>>}
           /\ Refers(<<"global", i>>) \subseteq {<<"inst", i>>}
           /\ Refers(<<"import", i>>) \subseteq {<<"inst", i>>}
           /\ Refers(<<"mem", i>>) \subseteq {<<"inst", i>>, <<"buf", i>>}
           /\ Refers(<<"module", i>>) \subseteq {<<"inst", instRef[i]>>}
           /\ Refers(<<"buf", i>>) = {}
  <1>1. Refers(<<"func", i>>) = IF engine = "wasm3" THEN {<<"inst", i>>} ELSE {}
    BY RefersOf, Zenon
  <1>2. Refers(<<"global", i>>) = {<<"inst", i>>} /\ Refers(<<"buf", i>>) = {}
    BY RefersOf, Zenon
  <1>3. Refers(<<"import", i>>) = IF i \in captures THEN {<<"inst", i>>} ELSE {}
    BY RefersOf, Zenon
  <1>4. Refers(<<"mem", i>>) = {<<"buf", i>>} \cup IF engine = "wasm3" THEN {<<"inst", i>>} ELSE {}
    BY RefersOf, Zenon
  <1>5. Refers(<<"module", i>>) = IF instRef[i] = NoObj THEN {} ELSE {<<"inst", instRef[i]>>}
    BY RefersOf, Zenon
  <1> QED
    BY <1>1, <1>2, <1>3, <1>4, <1>5

(* An object that is part of an instance leads back to no other instance. *)
LEMMA PartsLeadBack ==
    ASSUME WasmInv, NEW i \in WInstances, <<"inst", i>> \in liveObjs, NEW o \in Visible(<<"inst", i>>),
           NEW j, <<"inst", j>> \in Visible(o)
    PROVE  j = i
  <1>1. o \in Refers(<<"inst", i>>) /\ <<"inst", j>> \in Refers(o)
    BY VisibleIn
  <1>2. Refers(<<"inst", i>>) = (Exports(i) \cap liveObjs) \cup {<<"module", moduleOf[i]>>, <<"import", i>>}
    BY RefersOf, Zenon
  <1>3. o \in Exports(i) \/ o = <<"import", i>> \/ o = <<"module", moduleOf[i]>>
    BY <1>1, <1>2
  <1>4. CASE o = <<"module", moduleOf[i]>>
    <2>1. engine = "wasm3"
      <3>1. Properties(o) = {}
        BY <1>4, PropertiesOf
      <3> QED
        BY <3>1 DEF Visible, Marked
    <2>2. instRef[moduleOf[i]] = i
      BY <2>1 DEF WasmInv, InstancesOwn
    <2>3. Refers(o) \subseteq {<<"inst", i>>}
      BY <1>4, <2>2, RefersOf
    <2> QED
      BY <1>1, <2>3
  <1>5. CASE o = <<"import", i>>
    <2>1. Refers(o) \subseteq {<<"inst", i>>}
      BY <1>5, RefersOf
    <2> QED
      BY <1>1, <2>1
  <1>6. CASE o \in Exports(i)
    <2>1. Refers(o) \subseteq {<<"inst", i>>, <<"buf", i>>}
      <3>1. o = <<"func", i>> \/ o = <<"mem", i>> \/ o = <<"global", i>>
        BY <1>6 DEF Exports
      <3>2. /\ Refers(<<"func", i>>) \subseteq {<<"inst", i>>} /\ Refers(<<"global", i>>) \subseteq {<<"inst", i>>}
            /\ Refers(<<"mem", i>>) \subseteq {<<"inst", i>>, <<"buf", i>>}
        BY RefersAtMost, Zenon
      <3> QED
        BY <3>1, <3>2
    <2> QED
      BY <1>1, <2>1
  <1> QED
    BY <1>3, <1>4, <1>5, <1>6

(* What another object than an instance refers to is an instance or a buffer. *)
LEMMA OthersLeadToInstances ==
    ASSUME WasmInv, NEW o \in liveObjs, o[1] # "inst", NEW x \in Visible(o)
    PROVE  (\E i : x = <<"inst", i>>) \/ (\E i : x = <<"buf", i>>)
  <1>1. x \in Refers(o) /\ o \in WObjs
    BY VisibleIn DEF WasmInv, WasmTypes
  <1>2. ASSUME NEW m, o = <<"module", m>> PROVE \E i : x = <<"inst", i>>
    <2>1. Refers(<<"module", m>>) \subseteq {<<"inst", instRef[m]>>}
      BY RefersAtMost, Zenon
    <2> QED
      BY <1>1, <1>2, <2>1
  <1>3. ASSUME NEW i, o = <<"func", i>> \/ o = <<"global", i>> \/ o = <<"import", i>> PROVE x = <<"inst", i>>
    <2>1. Refers(<<"func", i>>) \subseteq {<<"inst", i>>} /\ Refers(<<"global", i>>) \subseteq {<<"inst", i>>}
          /\ Refers(<<"import", i>>) \subseteq {<<"inst", i>>}
      BY RefersAtMost, Zenon
    <2> QED
      BY <1>1, <1>3, <2>1
  <1>4. ASSUME NEW i, o = <<"mem", i>> PROVE x = <<"inst", i>> \/ x = <<"buf", i>>
    <2>1. Refers(o) \subseteq {<<"inst", i>>, <<"buf", i>>}
      BY <1>4, RefersOf
    <2> QED
      BY <1>1, <2>1
  <1>5. ASSUME NEW i, o = <<"buf", i>> PROVE FALSE
    BY <1>1, <1>5, RefersOf
  <1> QED
    BY <1>1, <1>2, <1>3, <1>4, <1>5, ObjKinds

(* What is reached from T0: the instances in one step, the others from T0 or   *)
(* from those instances, and buffers.                                          *)
ReachedFrom(T0, T) ==
    /\ T \subseteq liveObjs
    /\ \A o \in T : o[1] = "inst" => o \in SeenFrom(T0)
    /\ \A o \in T : o[1] \notin {"inst", "buf"} =>
          \/ o \in T0
          \/ \E i \in WInstances : <<"inst", i>> \in SeenFrom(T0) /\ o \in Visible(<<"inst", i>>)

LEMMA SeenStaysLive == ASSUME WasmInv, LiveIsClosed, NEW T, T \subseteq liveObjs PROVE SeenFrom(T) \subseteq liveObjs
  <1>1. \A o \in T : Visible(o) \subseteq liveObjs
    BY VisibleIn DEF LiveIsClosed
  <1> QED
    BY <1>1 DEF SeenFrom

LEMMA ReachedStep ==
    ASSUME WasmInv, LiveIsClosed, NEW T0, T0 \subseteq liveObjs, NEW T, ReachedFrom(T0, T)
    PROVE  ReachedFrom(T0, SeenFrom(T))
  <1>1. SeenFrom(T) \subseteq liveObjs /\ SeenFrom(T0) \subseteq liveObjs
    BY SeenStaysLive DEF ReachedFrom
  <1>2. ASSUME NEW x \in SeenFrom(T), x \notin T, x[1] = "inst" PROVE x \in SeenFrom(T0)
    <2>1. PICK o \in T : x \in Visible(o)
      BY <1>2 DEF SeenFrom
    <2>2. o \in liveObjs /\ x \in liveObjs /\ x \in WObjs /\ o \in WObjs
      BY <1>1, <1>2, <2>1 DEF ReachedFrom, WasmInv, WasmTypes
    <2>3. PICK j \in WInstances : x = <<"inst", j>>
      BY <1>2, <2>2, ObjKinds
    <2>4. CASE o[1] = "inst"
      <3>1. PICK i \in WInstances : o = <<"inst", i>>
        BY <2>2, <2>4, ObjKinds
      <3>2. x \in Refers(<<"inst", i>>)
        BY <2>1, <3>1, VisibleIn
      <3>3. Refers(<<"inst", i>>) = (Exports(i) \cap liveObjs) \cup {<<"module", moduleOf[i]>>, <<"import", i>>}
        BY RefersOf, Zenon
      <3>4. x \in Exports(i) \/ x = <<"module", moduleOf[i]>> \/ x = <<"import", i>>
        BY <3>2, <3>3
      <3> QED
        BY <1>2, <3>4 DEF Exports
    <2>5. CASE o[1] = "buf"
      <3>1. PICK i \in WInstances : o = <<"buf", i>>
        BY <2>2, <2>5, ObjKinds
      <3>2. Refers(<<"buf", i>>) = {}
        BY RefersOf, Zenon
      <3> QED
        BY <2>1, <3>1, <3>2, VisibleIn
    <2>6. CASE o[1] \notin {"inst", "buf"}
      <3>1. CASE o \in T0
        BY <2>1, <3>1 DEF SeenFrom
      <3>2. ASSUME NEW i \in WInstances, <<"inst", i>> \in SeenFrom(T0), o \in Visible(<<"inst", i>>)
            PROVE  x \in SeenFrom(T0)
        <4>1. j = i
          BY <1>1, <2>1, <2>3, <3>2, PartsLeadBack
        <4> QED
          BY <2>3, <3>2, <4>1
      <3> QED
        BY <2>1, <2>6, <3>1, <3>2 DEF ReachedFrom
    <2> QED
      BY <2>4, <2>5, <2>6
  <1>3. ASSUME NEW x \in SeenFrom(T), x \notin T, x[1] \notin {"inst", "buf"}
        PROVE  \E i \in WInstances : <<"inst", i>> \in SeenFrom(T0) /\ x \in Visible(<<"inst", i>>)
    <2>1. PICK o \in T : x \in Visible(o)
      BY <1>3 DEF SeenFrom
    <2>2. o \in liveObjs /\ o \in WObjs
      BY <2>1 DEF ReachedFrom, WasmInv, WasmTypes
    <2>3. CASE o[1] # "inst"
      <3>1. (\E i : x = <<"inst", i>>) \/ (\E i : x = <<"buf", i>>)
        BY <2>1, <2>2, <2>3, OthersLeadToInstances
      <3> QED
        BY <1>3, <3>1
    <2>4. CASE o[1] = "inst"
      <3>1. PICK i \in WInstances : o = <<"inst", i>>
        BY <2>2, <2>4, ObjKinds
      <3>2. o \in SeenFrom(T0)
        BY <2>1, <2>4 DEF ReachedFrom
      <3> QED
        BY <2>1, <3>1, <3>2
    <2> QED
      BY <2>3, <2>4
  <1>4. \A o \in SeenFrom(T) : o[1] = "inst" => o \in SeenFrom(T0)
    BY <1>2 DEF ReachedFrom
  <1>5. \A o \in SeenFrom(T) : o[1] \notin {"inst", "buf"} =>
            \/ o \in T0
            \/ \E i \in WInstances : <<"inst", i>> \in SeenFrom(T0) /\ o \in Visible(<<"inst", i>>)
    BY <1>3 DEF ReachedFrom
  <1> QED
    BY <1>1, <1>4, <1>5, Zenon DEF ReachedFrom

(* Six steps are enough: what Reach finds is closed. *)
LEMMA ReachIsClosed ==
    ASSUME WasmInv, NEW T0, T0 \subseteq liveObjs
    PROVE  /\ T0 \subseteq Reach(T0, Visible) /\ Reach(T0, Visible) \subseteq liveObjs
           /\ \A o \in Reach(T0, Visible) : Visible(o) \subseteq Reach(T0, Visible)
  <1>1. LiveIsClosed
    BY ClosedIs DEF WasmInv
  <1> DEFINE T1 == SeenFrom(T0)  T2 == SeenFrom(T1)  T3 == SeenFrom(T2)
             T4 == SeenFrom(T3)  T5 == SeenFrom(T4)  T6 == SeenFrom(T5)
  <1>2. ReachedFrom(T0, T0)
    <2>1. T0 \subseteq SeenFrom(T0)
      BY DEF SeenFrom
    <2> QED
      BY <2>1 DEF ReachedFrom
  <1>3. Reach(T0, Visible) = T6
    BY ReachIs, Zenon
  <1>4. \A T : T \subseteq SeenFrom(T)
    BY DEF SeenFrom
  <1>5. \A T, o : o \in T => Visible(o) \subseteq SeenFrom(T)
    BY DEF SeenFrom
  <1>6. \A T : ReachedFrom(T0, T) => ReachedFrom(T0, SeenFrom(T))
    BY <1>1, ReachedStep
  <1>7. ReachedFrom(T0, T6)
    BY <1>2, <1>6
  <1>8. T0 \subseteq T1 /\ T1 \subseteq T2 /\ T2 \subseteq T3 /\ T3 \subseteq T6
    <2>1. T0 \subseteq T1 /\ T1 \subseteq T2 /\ T2 \subseteq T3 /\ T3 \subseteq T4 /\ T4 \subseteq T5 /\ T5 \subseteq T6
      BY <1>4
    <2> HIDE DEF T1, T2, T3, T4, T5, T6
    <2> QED
      BY <2>1
  <1>9. /\ \A o \in T0 : Visible(o) \subseteq T1
        /\ \A o \in T1 : Visible(o) \subseteq T2
        /\ \A o \in T2 : Visible(o) \subseteq T3
    BY <1>5
  <1> HIDE DEF T1, T2, T3, T4, T5, T6
  <1>10. T6 \subseteq liveObjs
    BY <1>7 DEF ReachedFrom
  <1>11. ASSUME NEW o \in T6 PROVE Visible(o) \subseteq T6
    <2>1. o \in liveObjs /\ o \in WObjs
      BY <1>10 DEF WasmInv, WasmTypes
    <2>2. CASE o[1] = "inst"
      <3>1. o \in T1
        BY <1>7, <2>2 DEF ReachedFrom, T1
      <3> QED
        BY <1>8, <1>9, <3>1
    <2>3. CASE o[1] = "buf"
      <3>1. PICK i \in WInstances : o = <<"buf", i>>
        BY <2>1, <2>3, ObjKinds
      <3>2. Refers(<<"buf", i>>) = {}
        BY RefersOf, Zenon
      <3> QED
        BY <3>1, <3>2, VisibleIn
    <2>4. CASE o[1] \notin {"inst", "buf"}
      <3>1. o \in T0 \/ \E i \in WInstances : <<"inst", i>> \in T1 /\ o \in Visible(<<"inst", i>>)
        BY <1>7, <2>4 DEF ReachedFrom, T1
      <3>2. o \in T2
        BY <1>8, <1>9, <3>1
      <3> QED
        BY <1>8, <1>9, <3>2
    <2> QED
      BY <2>2, <2>3, <2>4
  <1> QED
    BY <1>3, <1>8, <1>10, <1>11

LEMMA CollectKeeps == ASSUME WasmInv, Collect PROVE WasmInv'
  <1> DEFINE base == roots \cup Pinned
             kept == Reach(base, Visible)
  <1>1. LiveIsClosed
    BY ClosedIs DEF WasmInv
  <1>2. Pinned \subseteq liveObjs
    BY <1>1 DEF Pinned, LiveIsClosed, Refers
  <1>3. base \subseteq liveObjs
    BY <1>2 DEF WasmInv, WasmTypes
  <1>4. base \subseteq kept /\ kept \subseteq liveObjs /\ \A o \in kept : Visible(o) \subseteq kept
    BY <1>3, ReachIsClosed, Zenon
  <1>5. Finalize(liveObjs \ kept)
    BY DEF Collect, Cyclic
  <1> HIDE DEF kept
  <1>6. \A o \in kept : Refers(o) \subseteq kept
    <2> SUFFICES ASSUME NEW o \in kept, NEW x \in Refers(o) PROVE x \in kept
      OBVIOUS
    <2>1. x \in Visible(o) \/ x \in Held(o) \ Marked(o)
      BY DEF Refers, Visible
    <2>2. CASE x \in Held(o) \ Marked(o)
      BY <1>4, <2>2 DEF Pinned
    <2> QED
      BY <1>4, <2>1, <2>2
  <1> DEFINE S == liveObjs \ kept
  <1>7. /\ S \subseteq liveObjs /\ roots \cap S = {}
        /\ \A o \in liveObjs \ S : Refers(o) \cap S = {}
    BY <1>4, <1>6
  <1>8. Finalize(S)
    BY <1>5
  <1> HIDE DEF S
  <1> QED
    BY <1>7, <1>8, FinalizeKeeps, Zenon

LEMMA WasmKept == WasmInv /\ [WasmNext]_wasmVars => WasmInv'
  <1> SUFFICES ASSUME WasmInv, [WasmNext]_wasmVars PROVE WasmInv'
    OBVIOUS
  <1>1. ASSUME NEW o \in liveObjs, ReleaseObj(o) PROVE WasmInv'
    BY <1>1, ReleaseObjKeeps
  <1>2. ASSUME Collect PROVE WasmInv'
    BY <1>2, CollectKeeps
  <1>3. ASSUME NEW m \in WModules, NewModule(m) \/ LinkFails(m) \/ LinkLeaks(m) PROVE WasmInv'
    BY <1>3, NewModuleKeeps, LinkFailsKeeps, LinkLeaksKeeps
  <1>4. ASSUME NEW m \in WModules, NEW i \in WInstances, NEW c \in BOOLEAN, NEW g \in BOOLEAN, NewInstance(m, i, c, g)
        PROVE  WasmInv'
    BY <1>4, NewInstanceKeeps
  <1>5. ASSUME NEW o \in liveObjs, Drop(o) \/ Take(o) PROVE WasmInv'
    BY <1>5, DropKeeps, TakeKeeps
  <1>6. ASSUME NEW i \in WInstances, MemoryGrow(i) \/ CallGrows(i) PROVE WasmInv'
    BY <1>6, MemoryGrowKeeps, CallGrowsKeeps
  <1>7. ASSUME UNCHANGED wasmVars PROVE WasmInv'
    <2> USE <1>7 DEF wasmVars, memVars
    <2>1. WasmTypes'
      BY DEF WasmInv, WasmTypes
    <2>2. Closed' /\ InstancesOwn' /\ ModulesKept' /\ BuffersFollow' /\ UnloadedRefersNot' /\ ~twice'
      BY DEF WasmInv, Closed, InstancesOwn, ModulesKept, BuffersFollow, UnloadedRefersNot
    <2> QED
      BY <2>1, <2>2 DEF WasmInv
  <1> QED
    BY <1>1, <1>2, <1>3, <1>4, <1>5, <1>6, <1>7 DEF WasmNext

LEMMA NoGarbage == WasmInv => NoGarbageStays
  <1> SUFFICES ASSUME WasmInv, engine = "wasm3", Cyclic = {} PROVE liveObjs = Reachable
    BY DEF NoGarbageStays
  <1>1. Pinned = {}
    BY VisibleWithTracing DEF Pinned
  <1>2. \A T : SeenFrom(T) = ReferredFrom(T)
    <2> SUFFICES ASSUME NEW T PROVE SeenFrom(T) = ReferredFrom(T)
      OBVIOUS
    <2>1. \A o : Visible(o) = Refers(o)
      BY VisibleWithTracing
    <2> QED
      BY <2>1 DEF SeenFrom, ReferredFrom
  <1>3. roots \cup Pinned = roots
    BY <1>1
  <1>4. Reach(roots, Visible) = Reach(roots, Refers)
    BY <1>2, ReachIs, Zenon
  <1>5. Cyclic = liveObjs \ Reach(roots, Visible)
    BY <1>3, Zenon DEF Cyclic
  <1> QED
    BY <1>4, <1>5 DEF Reachable

LEMMA WasmSound ==
    WasmInv => /\ WasmTypeOK /\ ParsedFreedOnce /\ ExportFindsRuntime
               /\ ModuleFindsData /\ NoGarbageStays /\ BufferIsCurrent
  <1> SUFFICES ASSUME WasmInv
               PROVE  /\ WasmTypeOK /\ ParsedFreedOnce /\ ExportFindsRuntime
                      /\ ModuleFindsData /\ NoGarbageStays /\ BufferIsCurrent
    OBVIOUS
  <1>1. Reachable \subseteq liveObjs
    BY DEF Reachable
  <1>2. WasmTypeOK /\ ParsedFreedOnce
    BY DEF WasmInv, WasmTypes, WasmTypeOK, ParsedFreedOnce
  <1>3. ExportFindsRuntime
    <2> SUFFICES ASSUME NEW i \in WInstances, NEW k \in {"func", "mem", "global"},
                        <<k, i>> \in Reachable, engine = "wasm3" \/ k = "global"
                 PROVE  native[i] = "live"
      BY DEF ExportFindsRuntime
    <2>1. <<"inst", i>> \in liveObjs
      BY <1>1 DEF WasmInv, Closed
    <2> QED
      BY <2>1 DEF WasmInv, InstancesOwn
  <1>4. ModuleFindsData
    BY <1>1 DEF WasmInv, ModulesKept, ModuleFindsData
  <1>5. BufferIsCurrent
    BY DEF WasmInv, BuffersFollow, BufferIsCurrent
  <1> QED
    BY <1>2, <1>3, <1>4, <1>5, NoGarbage

-----------------------------------------------------------------------------
(* WebAssembly calls and exceptions *)

CallsSpec == CallsInit /\ [][CallsNext]_callVars

InCall == [kind : {"export", "import"}, inst : CallInsts, unwinds : BOOLEAN, thrown : Throwables \cup {Undefined}]

CallsTypes ==
    /\ wphase \in [CallInsts -> {"none", "live", "gone"}]
    /\ closures \in [CallInsts -> SUBSET WFuncs]
    /\ pendingExc \in [CallInsts -> Throwables \cup {Undefined}]
    /\ engineExc \in [CallInsts -> BOOLEAN]
    /\ wframes \in Seq(InCall) /\ Len(wframes) <= MaxFrames
    /\ unfound = {} /\ mistold = {}

(* A live instance has all its imports, and an instance in a call is live. *)
Bound ==
    /\ \A n \in CallInsts : wphase[n] = "live" => closures[n] = WFuncs
    /\ \A k \in 1 .. Len(wframes) : wphase[wframes[k].inst] = "live"

(* An import is called by an export of its instance. *)
CalledByExport ==
    \A k \in 1 .. Len(wframes) :
        wframes[k].kind = "import" =>
            k - 1 \in 1 .. Len(wframes) /\ wframes[k - 1].kind = "export" /\ wframes[k - 1].inst = wframes[k].inst

(* Only the innermost call has an exception of an import, which is the pending *)
(* one of its instance, and no other instance has one.                         *)
ThrownWaits ==
    /\ \A k \in 1 .. Len(wframes) :
          wframes[k].thrown # Undefined =>
             k = Len(wframes) /\ wframes[k].kind = "export" /\ pendingExc[wframes[k].inst] = wframes[k].thrown
    /\ \A n \in CallInsts :
          pendingExc[n] # Undefined =>
             /\ wframes # << >> /\ TopFrame.kind = "export" /\ TopFrame.unwinds
             /\ TopFrame.inst = n /\ TopFrame.thrown = pendingExc[n] /\ engineExc[n]

(* The engine holds an exception after a trap, or while one is pending. *)
ExcIsKnown == \A n \in CallInsts : engineExc[n] => n \in trapped \/ pendingExc[n] # Undefined

CallsInv == CallsTypes /\ Bound /\ CalledByExport /\ ThrownWaits /\ ExcIsKnown

LEMMA CallsStart == CallsInit => CallsInv
  <1> SUFFICES ASSUME CallsInit PROVE CallsInv
    OBVIOUS
  <1>1. wframes = << >> /\ Len(wframes) = 0 /\ MaxFrames \in Nat
    BY CallsAssumption DEF CallsInit
  <1>2. CallsTypes
    BY <1>1 DEF CallsInit, CallsTypes
  <1>3. ASSUME NEW n \in CallInsts PROVE wphase[n] = "none" /\ pendingExc[n] = Undefined /\ ~engineExc[n]
    <2>1. wphase[n] = "none" /\ pendingExc[n] = Undefined
      BY DEF CallsInit
    <2>2. engineExc[n] = FALSE
      BY Zenon DEF CallsInit
    <2> QED
      BY <2>1, <2>2
  <1> QED
    BY <1>1, <1>2, <1>3 DEF CallsInv, Bound, CalledByExport, ThrownWaits, ExcIsKnown

(* Frames: one more, or the innermost gone. *)
LEMMA Pushed ==
    ASSUME NEW s \in Seq(InCall), NEW f \in InCall
    PROVE  /\ Append(s, f) \in Seq(InCall) /\ Len(Append(s, f)) = Len(s) + 1 /\ Append(s, f)[Len(s) + 1] = f
           /\ Append(s, f) # << >>
           /\ \A k \in 1 .. Len(s) : Append(s, f)[k] = s[k]
  BY AppendProperties

LEMMA Popped ==
    ASSUME NEW s \in Seq(InCall), s # << >>
    PROVE  /\ SubSeq(s, 1, Len(s) - 1) \in Seq(InCall) /\ Len(SubSeq(s, 1, Len(s) - 1)) = Len(s) - 1
           /\ \A k \in 1 .. Len(s) - 1 : SubSeq(s, 1, Len(s) - 1)[k] = s[k]
           /\ Len(s) \in Nat /\ Len(s) >= 1 /\ s[Len(s)] \in InCall
  <1>1. Len(s) \in Nat /\ Len(s) >= 1 /\ \A k \in 1 .. Len(s) : s[k] \in InCall
    BY EmptySeq
  <1>2. Len(s) - 1 \in Nat /\ (\A k \in 1 .. Len(s) - 1 : s[k] \in InCall /\ 1 + k - 1 = k)
    BY <1>1
  <1>3. /\ SubSeq(s, 1, Len(s) - 1) \in Seq(InCall) /\ Len(SubSeq(s, 1, Len(s) - 1)) = Len(s) - 1
        /\ \A k \in 1 .. Len(s) - 1 : SubSeq(s, 1, Len(s) - 1)[k] = s[k]
    <2>1. PICK n \in Nat : n = Len(s) - 1
      BY <1>2
    <2>2. \A k \in 1 .. n : s[k] \in InCall
      BY <1>2, <2>1
    <2>3. /\ SubSeq(s, 1, n) \in Seq(InCall)
          /\ Len(SubSeq(s, 1, n)) = IF 1 <= n THEN n - 1 + 1 ELSE 0
          /\ \A k \in 1 .. n - 1 + 1 : SubSeq(s, 1, n)[k] = s[1 + k - 1]
      BY <2>1, <2>2, SubSeqProperties
    <2>4. n - 1 + 1 = n /\ (~(1 <= n) => n = 0) /\ \A k \in 1 .. n : 1 + k - 1 = k
      BY <2>1
    <2> QED
      BY <2>1, <2>3, <2>4
  <1> QED
    BY <1>1, <1>3

LEMMA FrameTypes ==
    ASSUME CallsInv, NEW k \in 1 .. Len(wframes)
    PROVE  wframes[k] \in InCall /\ wframes[k].inst \in CallInsts /\ wframes[k].kind \in {"export", "import"}
  <1>1. wframes[k] \in InCall
    BY DEF CallsInv, CallsTypes
  <1> QED
    BY <1>1 DEF InCall

(* What a step needs that leaves the frames alone. *)
LEMMA SameFramesKeep ==
    ASSUME CallsInv, UNCHANGED <<wframes, pendingExc, engineExc, trapped, unfound, mistold>>,
           wphase' \in [CallInsts -> {"none", "live", "gone"}], closures' \in [CallInsts -> SUBSET WFuncs],
           \A n \in CallInsts : wphase'[n] = "live" => closures'[n] = WFuncs,
           \A k \in 1 .. Len(wframes) : wphase'[wframes[k].inst] = "live"
    PROVE  CallsInv'
  BY DEF CallsInv, CallsTypes, Bound, CalledByExport, ThrownWaits, ExcIsKnown, TopFrame

LEMMA NewWasmInstanceKeeps ==
    ASSUME CallsInv, NEW n \in CallInsts, NEW fs \in SUBSET WFuncs, NEW start \in BOOLEAN, NEW fits \in BOOLEAN,
           NewWasmInstance(n, fs, start, fits)
    PROVE  CallsInv'
  <1>1. BuildInstanceImports(fs) = WFuncs
    BY DEF NewWasmInstance, BuildInstanceImports
  <1>2. wphase' = [wphase EXCEPT ![n] = "live"] /\ closures' = [closures EXCEPT ![n] = WFuncs] /\ wphase[n] = "none"
    BY <1>1 DEF NewWasmInstance
  <1>3. \A k \in 1 .. Len(wframes) : wframes[k].inst \in CallInsts
    BY FrameTypes
  <1>4. wphase' \in [CallInsts -> {"none", "live", "gone"}] /\ closures' \in [CallInsts -> SUBSET WFuncs]
    BY <1>2 DEF CallsInv, CallsTypes
  <1>5. \A m \in CallInsts : wphase'[m] = "live" => closures'[m] = WFuncs
    BY <1>2 DEF CallsInv, CallsTypes, Bound
  <1>6. \A k \in 1 .. Len(wframes) : wphase'[wframes[k].inst] = "live"
    BY <1>2, <1>3 DEF CallsInv, CallsTypes, Bound
  <1> QED
    BY <1>4, <1>5, <1>6, SameFramesKeep DEF NewWasmInstance

LEMMA WasmInstanceGoneKeeps ==
    ASSUME CallsInv, NEW n \in CallInsts, WasmInstanceGone(n) PROVE CallsInv'
  <1>1. /\ wphase' = [wphase EXCEPT ![n] = "gone"] /\ closures' = [closures EXCEPT ![n] = {}]
        /\ pendingExc' = [pendingExc EXCEPT ![n] = Undefined]
        /\ UNCHANGED <<wframes, engineExc, trapped, unfound, mistold>>
    BY DEF WasmInstanceGone
  <1>2. \A k \in 1 .. Len(wframes) : wframes[k].inst \in CallInsts /\ wframes[k].inst # n
    <2>1. \A d \in DOMAIN wframes : wframes[d].inst # n
      BY DEF WasmInstanceGone
    <2>2. DOMAIN wframes = 1 .. Len(wframes)
      BY DEF CallsInv, CallsTypes
    <2> QED
      BY <2>1, <2>2, FrameTypes
  <1>3. pendingExc[n] = Undefined
    <2>1. wframes # << >> => Len(wframes) \in 1 .. Len(wframes)
      BY EmptySeq DEF CallsInv, CallsTypes
    <2> QED
      BY <1>2, <2>1 DEF CallsInv, ThrownWaits, TopFrame
  <1>4. pendingExc' = pendingExc
    BY <1>1, <1>3 DEF CallsInv, CallsTypes
  <1>5. wphase' \in [CallInsts -> {"none", "live", "gone"}] /\ closures' \in [CallInsts -> SUBSET WFuncs]
    BY <1>1 DEF CallsInv, CallsTypes
  <1>6. \A m \in CallInsts : wphase'[m] = "live" => closures'[m] = WFuncs
    BY <1>1 DEF CallsInv, CallsTypes, Bound
  <1>7. \A k \in 1 .. Len(wframes) : wphase'[wframes[k].inst] = "live"
    BY <1>1, <1>2 DEF CallsInv, CallsTypes, Bound
  <1> QED
    BY <1>1, <1>4, <1>5, <1>6, <1>7, SameFramesKeep

LEMMA PushKeeps ==
    ASSUME CallsInv, NEW f \in InCall, wframes' = Append(wframes, f), Len(wframes) < MaxFrames,
           UNCHANGED <<wphase, closures, pendingExc, engineExc, trapped, unfound, mistold>>,
           wphase[f.inst] = "live", f.thrown = Undefined,
           f.kind = "import" => wframes # << >> /\ TopFrame.kind = "export" /\ TopFrame.inst = f.inst,
           \A n \in CallInsts : pendingExc[n] = Undefined
    PROVE  CallsInv'
  <1>1. /\ wframes \in Seq(InCall) /\ Len(wframes) \in Nat /\ MaxFrames \in Nat
        /\ wframes # << >> => Len(wframes) >= 1
    BY EmptySeq, CallsAssumption DEF CallsInv, CallsTypes
  <1>2. /\ wframes' \in Seq(InCall) /\ Len(wframes') = Len(wframes) + 1 /\ wframes'[Len(wframes) + 1] = f
        /\ \A k \in 1 .. Len(wframes) : wframes'[k] = wframes[k]
    BY <1>1, Pushed
  <1>3. CallsTypes'
    BY <1>1, <1>2 DEF CallsInv, CallsTypes
  <1>4. \A k \in 1 .. Len(wframes') : k \in 1 .. Len(wframes) \/ k = Len(wframes) + 1
    BY <1>1, <1>2
  <1>5. Bound'
    BY <1>2, <1>4 DEF CallsInv, Bound
  <1>6. CalledByExport'
    <2>1. \A k \in 1 .. Len(wframes) : k \in 1 .. Len(wframes')
      BY <1>1, <1>2
    <2>2. f.kind = "import" => /\ Len(wframes) + 1 - 1 = Len(wframes) /\ Len(wframes) \in 1 .. Len(wframes)
      BY <1>1
    <2> QED
      BY <1>2, <1>4, <2>1, <2>2 DEF CallsInv, CalledByExport, TopFrame
  <1>7. ThrownWaits' /\ ExcIsKnown'
    <2>1. \A k \in 1 .. Len(wframes) : wframes[k].thrown = Undefined
      BY FrameTypes DEF CallsInv, ThrownWaits
    <2>2. \A k \in 1 .. Len(wframes') : wframes'[k].thrown = Undefined
      BY <1>2, <1>4, <2>1
    <2> QED
      BY <2>2 DEF CallsInv, ThrownWaits, ExcIsKnown
  <1> QED
    BY <1>3, <1>5, <1>6, <1>7 DEF CallsInv

(* Where JavaScript or WebAssembly runs, nothing is pending. *)
LEMMA NonePending ==
    ASSUME CallsInv, JsRuns \/ WasmRuns PROVE \A n \in CallInsts : pendingExc[n] = Undefined
  <1>1. \A n \in CallInsts : pendingExc[n] # Undefined => wframes # << >> /\ TopFrame.kind = "export" /\ TopFrame.unwinds
    BY DEF CallsInv, ThrownWaits
  <1>2. ~(wframes # << >> /\ TopFrame.kind = "export" /\ TopFrame.unwinds)
    BY Zenon DEF JsRuns, WasmRuns
  <1> QED
    BY <1>1, <1>2, Zenon

LEMMA CallExportKeeps == ASSUME CallsInv, NEW n \in CallInsts, CallExport(n) PROVE CallsInv'
  <1>1. PICK f \in InCall : f = ExportFrame(n) /\ f.kind = "export" /\ f.inst = n /\ f.thrown = Undefined
    <2>1. ExportFrame(n) \in InCall
      BY DEF ExportFrame, InCall
    <2> QED
      BY <2>1 DEF ExportFrame
  <1>2. \A m \in CallInsts : pendingExc[m] = Undefined
    BY NonePending DEF CallExport
  <1> QED
    BY <1>1, <1>2, PushKeeps DEF CallExport

(* The innermost frame is that of a call. *)
LEMMA CallTopFacts ==
    ASSUME CallsInv, wframes # << >>
    PROVE  /\ wframes \in Seq(InCall) /\ Len(wframes) \in Nat /\ Len(wframes) >= 1
           /\ Len(wframes) \in 1 .. Len(wframes)
           /\ TopFrame \in InCall /\ TopFrame = wframes[Len(wframes)]
           /\ TopFrame.inst \in CallInsts /\ wphase[TopFrame.inst] = "live" /\ closures[TopFrame.inst] = WFuncs
  <1>1. wframes \in Seq(InCall) /\ Len(wframes) \in Nat /\ Len(wframes) >= 1
    BY EmptySeq DEF CallsInv, CallsTypes
  <1>2. Len(wframes) \in 1 .. Len(wframes) /\ TopFrame = wframes[Len(wframes)] /\ TopFrame \in InCall
    BY <1>1 DEF TopFrame
  <1>3. TopFrame.inst \in CallInsts
    BY <1>2 DEF InCall
  <1> QED
    BY <1>1, <1>2, <1>3 DEF CallsInv, Bound

LEMMA TrapKeeps == ASSUME CallsInv, Trap PROVE CallsInv'
  <1> DEFINE n == TopFrame.inst
             l == Len(wframes)
             c == [TopFrame EXCEPT !.unwinds = TRUE]
  <1>1. wframes # << >> /\ TopFrame.kind = "export" /\ ~TopFrame.unwinds
    BY DEF Trap, WasmRuns
  <1>2. /\ wframes \in Seq(InCall) /\ l \in 1 .. Len(wframes) /\ TopFrame \in InCall /\ TopFrame = wframes[l]
        /\ n \in CallInsts
    BY <1>1, CallTopFacts
  <1>3. c \in InCall /\ c.kind = TopFrame.kind /\ c.inst = n /\ c.thrown = TopFrame.thrown
    BY <1>2 DEF InCall
  <1>4. /\ wframes' = [wframes EXCEPT ![l] = c] /\ engineExc' = [engineExc EXCEPT ![n] = TRUE]
        /\ trapped' = trapped \cup {n} /\ UNCHANGED <<wphase, closures, pendingExc, unfound, mistold>>
    BY <1>2 DEF Trap
  <1> HIDE DEF c, n, l
  <1>5. /\ wframes' \in Seq(InCall) /\ Len(wframes') = Len(wframes) /\ wframes'[l] = c
        /\ \A k \in 1 .. Len(wframes) : k # l => wframes'[k] = wframes[k]
    BY <1>2, <1>3, <1>4, ExceptSeq
  <1>6. \A k \in 1 .. Len(wframes) : /\ wframes'[k].kind = wframes[k].kind /\ wframes'[k].inst = wframes[k].inst
                                     /\ wframes'[k].thrown = wframes[k].thrown
    BY <1>2, <1>3, <1>5 DEF n
  <1>7. CallsTypes'
    BY <1>2, <1>4, <1>5 DEF CallsInv, CallsTypes
  <1>8. Bound' /\ CalledByExport'
    <2>1. wframes \in Seq(InCall) /\ \A k \in 1 .. Len(wframes) : k - 1 \in 1 .. Len(wframes) => wframes'[k - 1].kind = wframes[k - 1].kind /\ wframes'[k - 1].inst = wframes[k - 1].inst
      BY <1>2, <1>6
    <2> QED
      BY <1>4, <1>5, <1>6, <2>1 DEF CallsInv, Bound, CalledByExport
  <1>9. \A m \in CallInsts : pendingExc[m] = Undefined
    BY NonePending DEF Trap
  <1>10. ThrownWaits'
    <2>1. \A k \in 1 .. Len(wframes) : wframes[k].thrown = Undefined
      BY <1>9, FrameTypes DEF CallsInv, ThrownWaits
    <2>2. \A k \in 1 .. Len(wframes') : wframes'[k].thrown = Undefined
      BY <1>5, <1>6, <2>1
    <2> QED
      BY <1>4, <1>9, <2>2 DEF ThrownWaits
  <1>11. ExcIsKnown'
    BY <1>2, <1>4 DEF CallsInv, CallsTypes, ExcIsKnown
  <1> QED
    BY <1>7, <1>8, <1>10, <1>11 DEF CallsInv

LEMMA ImportDispatchKeeps == ASSUME CallsInv, NEW f \in WFuncs, ImportDispatch(f) PROVE CallsInv'
  <1>1. wframes # << >> /\ TopFrame.kind = "export" /\ ~TopFrame.unwinds
    BY DEF ImportDispatch, WasmRuns
  <1>2. TopFrame.inst \in CallInsts /\ wphase[TopFrame.inst] = "live" /\ f \in closures[TopFrame.inst]
    BY <1>1, CallTopFacts
  <1>3. PICK g \in InCall : /\ g = ImportFrame(TopFrame.inst) /\ g.kind = "import" /\ g.inst = TopFrame.inst
                             /\ g.thrown = Undefined
    <2>1. ImportFrame(TopFrame.inst) \in InCall
      BY <1>2 DEF ImportFrame, InCall
    <2> QED
      BY <2>1 DEF ImportFrame
  <1>4. \A m \in CallInsts : pendingExc[m] = Undefined
    BY NonePending DEF ImportDispatch
  <1>5. wframes' = Append(wframes, g) /\ Len(wframes) < MaxFrames
        /\ UNCHANGED <<wphase, closures, pendingExc, engineExc, trapped, unfound, mistold>>
    BY <1>2, <1>3 DEF ImportDispatch
  <1> QED
    BY <1>1, <1>2, <1>3, <1>4, <1>5, PushKeeps

(* An import ends: the frame of the export that called it is the innermost. *)
BackTo(c) == wframes' = [Below EXCEPT ![Len(Below)] = c]

LEMMA ImportEnds ==
    ASSUME CallsInv, wframes # << >>, TopFrame.kind = "import", NEW c \in InCall, BackTo(c),
           c.kind = "export", c.inst = TopFrame.inst
    PROVE  /\ wframes' \in Seq(InCall) /\ Len(wframes') = Len(wframes) - 1 /\ wframes' # << >> /\ TopFrame' = c
           /\ Len(wframes) \in Nat /\ Len(wframes) - 1 \in 1 .. Len(wframes)
           /\ wframes'[Len(wframes) - 1] = c
           /\ \A k \in 1 .. Len(wframes') : k \in 1 .. Len(wframes) /\ (k # Len(wframes) - 1 => wframes'[k] = wframes[k])
           /\ Bound' \/ wphase' # wphase \/ closures' # closures
           /\ CalledByExport'
  <1> DEFINE l == Len(wframes)
  <1>1. wframes \in Seq(InCall) /\ l \in Nat /\ l >= 1 /\ l \in 1 .. l /\ TopFrame = wframes[l] /\ TopFrame.inst \in CallInsts
    BY CallTopFacts
  <1>2. l - 1 \in 1 .. l /\ wframes[l - 1].kind = "export" /\ wframes[l - 1].inst = TopFrame.inst
    BY <1>1 DEF CallsInv, CalledByExport
  <1>3. /\ Below \in Seq(InCall) /\ Len(Below) = l - 1 /\ \A k \in 1 .. l - 1 : Below[k] = wframes[k]
    BY <1>1, Popped DEF Below
  <1>4. /\ wframes' \in Seq(InCall) /\ Len(wframes') = l - 1 /\ wframes'[l - 1] = c
        /\ \A k \in 1 .. l - 1 : k # l - 1 => wframes'[k] = wframes[k]
    <2>1. l - 1 \in 1 .. Len(Below)
      BY <1>1, <1>2, <1>3
    <2> QED
      BY <1>1, <1>3, <2>1, ExceptSeq DEF BackTo
  <1>5. \A k \in 1 .. l - 1 : k \in 1 .. l /\ (k - 1 \in 1 .. l => k - 1 \in 1 .. l - 1 /\ k - 1 # l - 1)
    BY <1>1
  <1>6. wframes' # << >> /\ TopFrame' = c
    BY <1>1, <1>2, <1>4 DEF TopFrame
  <1>7. \A k \in 1 .. l - 1 : wframes'[k].kind = wframes[k].kind /\ wframes'[k].inst = wframes[k].inst
    BY <1>2, <1>4
  <1>8. CalledByExport'
    <2>1. \A k \in 1 .. l - 1 : k - 1 \in 1 .. l => wframes'[k - 1].kind = wframes[k - 1].kind /\ wframes'[k - 1].inst = wframes[k - 1].inst
      BY <1>5, <1>7
    <2> QED
      BY <1>4, <1>5, <1>7, <2>1 DEF CallsInv, CalledByExport
  <1>9. Bound' \/ wphase' # wphase \/ closures' # closures
    BY <1>4, <1>5, <1>7 DEF CallsInv, Bound
  <1> QED
    BY <1>1, <1>2, <1>4, <1>5, <1>6, <1>8, <1>9

LEMMA ImportReturnsKeeps == ASSUME CallsInv, ImportReturns PROVE CallsInv'
  <1> DEFINE n == TopFrame.inst
             l == Len(wframes)
             c == [wframes[l - 1] EXCEPT !.unwinds = engineExc[n]]
  <1>1. wframes # << >> /\ TopFrame.kind = "import"
    BY DEF ImportReturns
  <1>2. wframes \in Seq(InCall) /\ l \in Nat /\ l \in 1 .. l /\ TopFrame = wframes[l] /\ n \in CallInsts
    BY <1>1, CallTopFacts
  <1>3. l - 1 \in 1 .. l /\ wframes[l - 1].kind = "export" /\ wframes[l - 1].inst = n /\ wframes[l - 1].thrown = Undefined
        /\ wframes[l - 1] \in InCall
    <2>1. l - 1 \in 1 .. l /\ wframes[l - 1].kind = "export" /\ wframes[l - 1].inst = n
      BY <1>1, <1>2 DEF CallsInv, CalledByExport
    <2>2. l - 1 # l
      BY <1>2
    <2> QED
      BY <1>2, <2>1, <2>2 DEF CallsInv, ThrownWaits
  <1>4. c \in InCall /\ c.kind = "export" /\ c.inst = n /\ c.thrown = Undefined
    BY <1>2, <1>3 DEF InCall, CallsInv, CallsTypes
  <1>5. BackTo(c)
    <2>1. Len(Below) = l - 1 /\ Below[l - 1] = wframes[l - 1]
      <3>1. l - 1 \in 1 .. l - 1
        BY <1>2, <1>3
      <3> QED
        BY <1>1, <1>2, <3>1, Popped DEF Below
    <2> QED
      BY <2>1 DEF BackTo, ImportReturns
  <1> HIDE DEF c
  <1>6. UNCHANGED <<wphase, closures, pendingExc, engineExc, trapped, unfound, mistold>>
    BY DEF ImportReturns
  <1>7. /\ wframes' \in Seq(InCall) /\ Len(wframes') = l - 1 /\ wframes'[l - 1] = c /\ Bound' /\ CalledByExport'
        /\ \A k \in 1 .. Len(wframes') : k \in 1 .. l /\ (k # l - 1 => wframes'[k] = wframes[k])
    BY <1>1, <1>4, <1>5, <1>6, ImportEnds
  <1>8. CallsTypes'
    BY <1>2, <1>6, <1>7, CallsAssumption DEF CallsInv, CallsTypes
  <1>9. \A m \in CallInsts : pendingExc[m] = Undefined
    BY <1>1, NonePending DEF JsRuns
  <1>10. \A k \in 1 .. Len(wframes') : wframes'[k].thrown = Undefined
    BY <1>4, <1>7, <1>9, <1>2 DEF CallsInv, CallsTypes, ThrownWaits, InCall
  <1> QED
    BY <1>6, <1>7, <1>8, <1>9, <1>10 DEF CallsInv, ThrownWaits, ExcIsKnown

LEMMA ImportThrowsKeeps == ASSUME CallsInv, NEW e \in Throwables, ImportThrows(e) PROVE CallsInv'
  <1> DEFINE n == TopFrame.inst
             l == Len(wframes)
             c == [wframes[l - 1] EXCEPT !.unwinds = TRUE, !.thrown = e]
  <1>1. wframes # << >> /\ TopFrame.kind = "import" /\ e # Undefined
    BY CallsAssumption DEF ImportThrows
  <1>2. wframes \in Seq(InCall) /\ l \in Nat /\ l \in 1 .. l /\ TopFrame = wframes[l] /\ n \in CallInsts
    BY <1>1, CallTopFacts
  <1>3. l - 1 \in 1 .. l /\ wframes[l - 1].kind = "export" /\ wframes[l - 1].inst = n /\ wframes[l - 1] \in InCall
    BY <1>1, <1>2 DEF CallsInv, CalledByExport
  <1>4. c \in InCall /\ c.kind = "export" /\ c.inst = n /\ c.thrown = e /\ c.unwinds = TRUE
    BY <1>3 DEF InCall
  <1>5. BackTo(c)
    <2>1. Len(Below) = l - 1 /\ Below \in Seq(InCall) /\ Below[l - 1] = wframes[l - 1] /\ l - 1 \in 1 .. l - 1
      <3>1. l - 1 \in 1 .. l - 1
        BY <1>2, <1>3
      <3> QED
        BY <1>1, <1>2, <3>1, Popped DEF Below
    <2>2. [Below EXCEPT ![Len(Below)].unwinds = TRUE, ![Len(Below)].thrown = e] = [Below EXCEPT ![Len(Below)] = c]
      BY <2>1
    <2> QED
      BY <2>2 DEF BackTo, ImportThrows
  <1>6. /\ UNCHANGED <<wphase, closures, trapped, unfound, mistold>>
        /\ pendingExc' = [pendingExc EXCEPT ![n] = e] /\ engineExc' = [engineExc EXCEPT ![n] = TRUE]
    BY DEF ImportThrows
  <1> HIDE DEF c
  <1>7. /\ wframes' \in Seq(InCall) /\ Len(wframes') = l - 1 /\ wframes'[l - 1] = c /\ Bound' /\ CalledByExport'
        /\ wframes' # << >> /\ TopFrame' = c
        /\ \A k \in 1 .. Len(wframes') : k \in 1 .. l /\ (k # l - 1 => wframes'[k] = wframes[k])
    BY <1>1, <1>4, <1>5, <1>6, ImportEnds
  <1>8. CallsTypes'
    BY <1>2, <1>6, <1>7, CallsAssumption DEF CallsInv, CallsTypes
  <1>9. \A m \in CallInsts : pendingExc[m] = Undefined
    BY <1>1, NonePending DEF JsRuns
  <1>10. \A k \in 1 .. Len(wframes') : k # l - 1 => wframes'[k].thrown = Undefined
    BY <1>7, <1>9, <1>2 DEF CallsInv, CallsTypes, ThrownWaits, InCall
  <1>11. pendingExc'[n] = e /\ engineExc'[n] /\ \A m \in CallInsts : m # n => pendingExc'[m] = pendingExc[m] /\ engineExc'[m] = engineExc[m]
    BY <1>2, <1>6 DEF CallsInv, CallsTypes
  <1>12. ThrownWaits'
    BY <1>1, <1>4, <1>7, <1>9, <1>10, <1>11 DEF ThrownWaits
  <1>13. ExcIsKnown'
    BY <1>1, <1>6, <1>11 DEF CallsInv, ExcIsKnown
  <1> QED
    BY <1>7, <1>8, <1>12, <1>13 DEF CallsInv

LEMMA ExportEndsKeeps == ASSUME CallsInv, ExportEnds PROVE CallsInv'
  <1> DEFINE n == TopFrame.inst
             l == Len(wframes)
  <1>1. wframes # << >> /\ TopFrame.kind = "export"
    BY DEF ExportEnds
  <1>2. wframes \in Seq(InCall) /\ l \in Nat /\ l >= 1 /\ l \in 1 .. l /\ TopFrame = wframes[l] /\ n \in CallInsts
        /\ TopFrame \in InCall
    BY <1>1, CallTopFacts
  <1>3. /\ wframes' \in Seq(InCall) /\ Len(wframes') = l - 1 /\ \A k \in 1 .. l - 1 : wframes'[k] = wframes[k]
    BY <1>1, <1>2, Popped DEF ExportEnds, Below
  <1>4. \A k \in 1 .. l - 1 : k \in 1 .. l /\ k # l /\ (k - 1 \in 1 .. l => k - 1 \in 1 .. l - 1)
    BY <1>2
  <1>5. pendingExc[n] = TopFrame.thrown
    <2>1. pendingExc[n] # Undefined => TopFrame.thrown = pendingExc[n]
      BY <1>2 DEF CallsInv, ThrownWaits
    <2>2. TopFrame.thrown # Undefined => pendingExc[n] = TopFrame.thrown
      BY <1>2 DEF CallsInv, ThrownWaits
    <2> QED
      BY <2>1, <2>2
  <1>6. mistold' = mistold /\ UNCHANGED <<wphase, closures, trapped, unfound>>
        /\ pendingExc' = [pendingExc EXCEPT ![n] = IF Rethrows(n) THEN Undefined ELSE @]
        /\ engineExc' = [engineExc EXCEPT ![n] = @ /\ ~Rethrows(n)]
    BY <1>5 DEF ExportEnds
  <1>7. pendingExc[n] # Undefined => engineExc[n]
    BY <1>2 DEF CallsInv, ThrownWaits
  <1>8. \A m \in CallInsts : m # n => pendingExc[m] = Undefined
    BY <1>2 DEF CallsInv, ThrownWaits
  <1>9. pendingExc' = [m \in CallInsts |-> Undefined]
    <2>1. pendingExc \in [CallInsts -> Throwables \cup {Undefined}]
      BY DEF CallsInv, CallsTypes
    <2>2. \A m \in CallInsts : pendingExc'[m] = Undefined
      BY <1>2, <1>6, <1>7, <1>8, <2>1 DEF Rethrows
    <2>3. DOMAIN pendingExc' = CallInsts /\ pendingExc' = [m \in DOMAIN pendingExc' |-> pendingExc'[m]]
      BY <1>6, <2>1
    <2> QED
      BY <2>2, <2>3
  <1>10. engineExc' \in [CallInsts -> BOOLEAN] /\ \A m \in CallInsts : engineExc'[m] => engineExc[m] /\ (m = n => ~Rethrows(n))
    <2>1. engineExc \in [CallInsts -> BOOLEAN]
      BY DEF CallsInv, CallsTypes
    <2>2. Rethrows(n) \in BOOLEAN
      BY <2>1, <1>2 DEF Rethrows
    <2> HIDE DEF n
    <2> QED
      BY <1>2, <1>6, <2>1, <2>2
  <1>11. CallsTypes'
    <2>1. l - 1 <= MaxFrames
      BY <1>2, CallsAssumption DEF CallsInv, CallsTypes
    <2> QED
      BY <1>3, <1>6, <1>9, <1>10, <2>1 DEF CallsInv, CallsTypes
  <1>12. Bound' /\ CalledByExport'
    BY <1>3, <1>4, <1>6 DEF CallsInv, Bound, CalledByExport
  <1>13. ThrownWaits'
    BY <1>3, <1>4, <1>9, <1>2 DEF CallsInv, CallsTypes, ThrownWaits, InCall
  <1>14. ExcIsKnown'
    BY <1>6, <1>8, <1>9, <1>10 DEF CallsInv, ExcIsKnown, Rethrows
  <1> QED
    BY <1>11, <1>12, <1>13, <1>14 DEF CallsInv

LEMMA CallsKept == CallsInv /\ [CallsNext]_callVars => CallsInv'
  <1> SUFFICES ASSUME CallsInv, [CallsNext]_callVars PROVE CallsInv'
    OBVIOUS
  <1>1. CASE UNCHANGED callVars
    BY <1>1 DEF callVars, CallsInv, CallsTypes, Bound, CalledByExport, ThrownWaits, ExcIsKnown, TopFrame
  <1>2. CASE \E n \in CallInsts, fs \in SUBSET WFuncs, start, fits \in BOOLEAN : NewWasmInstance(n, fs, start, fits)
    BY <1>2, NewWasmInstanceKeeps
  <1>3. CASE \E n \in CallInsts : WasmInstanceGone(n) \/ CallExport(n)
    BY <1>3, WasmInstanceGoneKeeps, CallExportKeeps
  <1>4. CASE \E f \in WFuncs : ImportDispatch(f)
    BY <1>4, ImportDispatchKeeps
  <1>5. CASE \E e \in Throwables : ImportThrows(e)
    BY <1>5, ImportThrowsKeeps
  <1>6. CASE Trap \/ ImportReturns \/ ExportEnds
    BY <1>6, TrapKeeps, ImportReturnsKeeps, ExportEndsKeeps
  <1> QED
    BY <1>1, <1>2, <1>3, <1>4, <1>5, <1>6 DEF CallsNext

LEMMA CallsSound == CallsInv => CallsTypeOK /\ ThrownIsOwn /\ ThrowIsOver /\ BoundIsFound
  BY DEF CallsInv, CallsTypes, CallsTypeOK, ThrownIsOwn, ThrowIsOver, BoundIsFound, ExcIsKnown, ThrownWaits

-----------------------------------------------------------------------------
(* WebAssembly modules on their way to a promise *)

LoadsSpec == LoadsInit /\ [][LoadsNext]_loadVars

LoadRecs ==
    [form : {"none", "validate", "compile", "bytes", "module"}, streaming : BOOLEAN,
     at : {"idle", "source", "buffer", "module", "instance", "promise", "done"},
     refs : [LoadValues -> Int], value : LoadValues \cup {"none"},
     end : {"none", "told", "thrown", "rejected", "fulfilled", "dropped"},
     from : {"pristine", "rewritten"}]

(* One reference to each of the given values. *)
RefsTo(S) == [v \in LoadValues |-> IF v \in S THEN 1 ELSE 0]

(* A call takes the steps of its form and refers to what it still uses. *)
LoadIsOk(r) ==
    /\ r \in LoadRecs /\ r.refs = RefsTo(InUse(r))
    /\ r.at # "done" => r.end = "none"
    /\ r.at \in {"source", "buffer"} => r.form \in {"compile", "bytes"}
    /\ r.at = "module" => r.form \in {"validate", "compile", "bytes"}
    /\ r.at = "instance" => r.form \in {"bytes", "module"}
    /\ r.at = "promise" => r.form \in {"compile", "bytes", "module"}
    /\ r.end = "fulfilled" => r.form \in {"compile", "bytes", "module"} /\ r.value = Result(r.form)

LoadsInv ==
    /\ loadOf = [c \in LoadCalls |-> loadOf[c]] /\ \A c \in LoadCalls : LoadIsOk(loadOf[c])
    /\ source \in {"pristine", "rewritten"}
    /\ ~validated => source = "pristine" /\ \A c \in LoadCalls : loadOf[c].from = "pristine"

LEMMA NothingInUse ==
    ASSUME NEW r, r.at \in {"idle", "source", "buffer", "module", "done"}, r.end # "fulfilled" PROVE InUse(r) = {}
  <1>1. /\ ~(r.at = "instance" /\ r.form = "bytes")
        /\ ~(r.at = "promise") /\ ~(r.end = "fulfilled")
    OBVIOUS
  <1> QED
    BY <1>1, Zenon DEF InUse

LEMMA WhatIsMade ==
    ASSUME NEW form
    PROVE  /\ form = "compile" => MadeBy(form) = {"mod"} /\ Result(form) = "mod"
           /\ form = "module" => MadeBy(form) = {"inst"} /\ Result(form) = "inst"
           /\ form = "bytes" => MadeBy(form) = {"mod", "inst"} /\ Result(form) = "obj"
  <1>1. ASSUME form = "compile" PROVE MadeBy(form) = {"mod"} /\ Result(form) = "mod"
    <2>1. ~(form = "module")
      BY <1>1
    <2> QED
      BY <1>1, <2>1, Zenon DEF MadeBy, Result
  <1>2. ASSUME form = "module" PROVE MadeBy(form) = {"inst"} /\ Result(form) = "inst"
    <2>1. ~(form = "compile")
      BY <1>2
    <2> QED
      BY <1>2, <2>1, Zenon DEF MadeBy, Result
  <1>3. ASSUME form = "bytes" PROVE MadeBy(form) = {"mod", "inst"} /\ Result(form) = "obj"
    <2>1. ~(form = "compile") /\ ~(form = "module")
      BY <1>3
    <2> QED
      BY <1>3, <2>1, Zenon DEF MadeBy, Result
  <1> QED
    BY <1>1, <1>2, <1>3

LEMMA InUseAt ==
    ASSUME NEW r
    PROVE  /\ r.at = "instance" /\ r.form = "bytes" /\ r.end # "fulfilled" => InUse(r) = {"mod"}
           /\ r.at = "instance" /\ r.form = "module" /\ r.end # "fulfilled" => InUse(r) = {}
           /\ r.at = "promise" /\ r.end # "fulfilled" => InUse(r) = MadeBy(r.form)
           /\ r.at = "done" /\ r.end = "fulfilled" => InUse(r) = MadeBy(r.form) \cup {Result(r.form)}
  <1>1. ASSUME r.at = "instance", r.form = "bytes", r.end # "fulfilled" PROVE InUse(r) = {"mod"}
    <2>1. (r.at = "instance" /\ r.form = "bytes") /\ ~(r.at = "promise") /\ ~(r.end = "fulfilled")
      BY <1>1
    <2> QED
      BY <2>1, Zenon DEF InUse
  <1>2. ASSUME r.at = "instance", r.form = "module", r.end # "fulfilled" PROVE InUse(r) = {}
    <2>1. ~(r.at = "instance" /\ r.form = "bytes") /\ ~(r.at = "promise") /\ ~(r.end = "fulfilled")
      BY <1>2
    <2> QED
      BY <2>1, Zenon DEF InUse
  <1>3. ASSUME r.at = "promise", r.end # "fulfilled" PROVE InUse(r) = MadeBy(r.form)
    <2>1. ~(r.at = "instance" /\ r.form = "bytes") /\ r.at = "promise" /\ ~(r.end = "fulfilled")
      BY <1>3
    <2> QED
      BY <2>1, Zenon DEF InUse
  <1>4. ASSUME r.at = "done", r.end = "fulfilled" PROVE InUse(r) = MadeBy(r.form) \cup {Result(r.form)}
    <2>1. ~(r.at = "instance" /\ r.form = "bytes") /\ ~(r.at = "promise") /\ r.end = "fulfilled"
      BY <1>4
    <2> QED
      BY <2>1, Zenon DEF InUse
  <1> QED
    BY <1>1, <1>2, <1>3, <1>4

LEMMA InUseThen ==
    ASSUME NEW r
    PROVE  /\ r.end # "fulfilled" =>
                 /\ r.at = "instance" /\ r.form = "bytes" => InUse(r) = {"mod"}
                 /\ r.at = "instance" /\ r.form = "module" => InUse(r) = {}
                 /\ r.at = "promise" /\ r.form = "compile" => InUse(r) = {"mod"}
                 /\ r.at = "promise" /\ r.form = "module" => InUse(r) = {"inst"}
                 /\ r.at = "promise" /\ r.form = "bytes" => InUse(r) = {"mod", "inst"}
           /\ r.at = "done" /\ r.end = "fulfilled" =>
                 /\ r.form = "compile" => InUse(r) = {"mod"}
                 /\ r.form = "module" => InUse(r) = {"inst"}
                 /\ r.form = "bytes" => InUse(r) = {"mod", "inst", "obj"}
  BY InUseAt, WhatIsMade

(* A call that failed, with nothing in use. *)
LEMMA FailedIsOk ==
    ASSUME NEW r \in LoadRecs, r.refs = RefsTo({}) PROVE LoadIsOk(Fails(r)) /\ Fails(r).from = r.from
  <1> DEFINE f == Fails(r)
  <1>1. f \in LoadRecs /\ f.at = "done" /\ f.end \in {"thrown", "rejected"} /\ f.refs = RefsTo({}) /\ f.from = r.from
    BY DEF LoadRecs, Fails
  <1> HIDE DEF f
  <1>2. InUse(f) = {}
    BY <1>1, NothingInUse
  <1> QED
    BY <1>1, <1>2 DEF LoadIsOk, f

LEMMA NoRefsAreNone == NoRefs = RefsTo({})
  BY DEF NoRefs, RefsTo

(* One call moves to a state that is right. *)
LEMMA OneLoad ==
    ASSUME LoadsInv, NEW c \in LoadCalls, NEW r, SetLoad(c, r), LoadIsOk(r), source' \in {"pristine", "rewritten"},
           ~validated' => ~validated /\ source' = "pristine" /\ r.from = "pristine"
    PROVE  LoadsInv'
  <1>1. loadOf' = [loadOf EXCEPT ![c] = r] /\ loadOf = [d \in LoadCalls |-> loadOf[d]]
    BY DEF SetLoad, LoadsInv
  <1>2. DOMAIN loadOf = LoadCalls
    BY <1>1
  <1>3. loadOf'[c] = r /\ \A d \in LoadCalls : d # c => loadOf'[d] = loadOf[d]
    BY <1>1, <1>2
  <1>4. loadOf' = [d \in LoadCalls |-> loadOf'[d]]
    BY <1>1, <1>2
  <1> QED
    BY <1>3, <1>4 DEF LoadsInv

LEMMA OneMoreLoad ==
    ASSUME LoadsInv, NEW c \in LoadCalls, NEW r, SetLoad(c, r), LoadIsOk(r), UNCHANGED <<loader, source, validated>>,
           r.from \in {"pristine", loadOf[c].from, source}
    PROVE  LoadsInv'
  BY OneLoad DEF LoadsInv

LEMMA LoadsStart == LoadsInit => LoadsInv
  <1> SUFFICES ASSUME LoadsInit PROVE LoadsInv
    OBVIOUS
  <1>1. FreshLoad \in LoadRecs /\ FreshLoad.at = "idle" /\ FreshLoad.end = "none" /\ FreshLoad.refs = NoRefs
        /\ FreshLoad.from = "pristine"
    BY DEF FreshLoad, LoadRecs, NoRefs, LoadValues
  <1>2. LoadIsOk(FreshLoad)
    BY <1>1, NothingInUse, NoRefsAreNone DEF LoadIsOk
  <1> QED
    BY <1>1, <1>2 DEF LoadsInit, LoadsInv

LEMMA CallLoadKeeps ==
    ASSUME LoadsInv, NEW c \in LoadCalls, NEW form \in {"validate", "compile", "bytes", "module"}, NEW s \in BOOLEAN,
           CallLoad(c, form, s)
    PROVE  LoadsInv'
  <1> DEFINE r == [FreshLoad EXCEPT !.form = form, !.streaming = s,
                       !.at = IF s THEN "source" ELSE IF form = "module" THEN "instance" ELSE "module"]
  <1>1. /\ r \in LoadRecs /\ r.form = form /\ r.end = "none" /\ r.refs = NoRefs /\ r.from = "pristine"
        /\ r.at = IF s THEN "source" ELSE IF form = "module" THEN "instance" ELSE "module"
    <2>1. PICK a \in {"source", "instance", "module"} : a = IF s THEN "source" ELSE IF form = "module" THEN "instance" ELSE "module"
      OBVIOUS
    <2>2. FreshLoad \in LoadRecs /\ FreshLoad.end = "none" /\ FreshLoad.refs = NoRefs /\ FreshLoad.from = "pristine"
      BY DEF FreshLoad, LoadRecs, NoRefs, LoadValues
    <2>3. r = [FreshLoad EXCEPT !.form = form, !.streaming = s, !.at = a]
      BY <2>1
    <2> HIDE DEF r
    <2>4. r \in LoadRecs /\ r.form = form /\ r.end = "none" /\ r.refs = NoRefs /\ r.from = "pristine" /\ r.at = a
      <3>1. a \in {"idle", "source", "buffer", "module", "instance", "promise", "done"} /\ s \in BOOLEAN
        BY <2>1
      <3> QED
        BY <2>2, <2>3, <3>1 DEF LoadRecs
    <2> QED
      BY <2>1, <2>4
  <1>2. SetLoad(c, r) /\ UNCHANGED <<loader, source, validated>> /\ (s => form \in {"compile", "bytes"})
    BY DEF CallLoad, SetLoad
  <1> HIDE DEF r
  <1>3. InUse(r) = {}
    BY <1>1, <1>2, NothingInUse, InUseThen
  <1>4. LoadIsOk(r)
    BY <1>1, <1>2, <1>3, NoRefsAreNone DEF LoadIsOk
  <1> QED
    BY <1>1, <1>2, <1>4, OneMoreLoad

LEMMA StreamStepKeeps == ASSUME LoadsInv, NEW c \in LoadCalls, NEW ok \in BOOLEAN, StreamStep(c, ok) PROVE LoadsInv'
  <1> DEFINE q == loadOf[c]
  <1>1. LoadIsOk(q) /\ q.at \in {"source", "buffer"} /\ UNCHANGED <<loader, source, validated>>
    BY DEF LoadsInv, StreamStep, LoadAt
  <1>2. q \in LoadRecs /\ q.refs = RefsTo({}) /\ q.end = "none" /\ q.form \in {"compile", "bytes"}
    BY <1>1, NothingInUse DEF LoadIsOk
  <1>3. CASE ~ok
    BY <1>1, <1>2, <1>3, FailedIsOk, OneMoreLoad DEF StreamStep
  <1>4. CASE ok
    <2> DEFINE r == [q EXCEPT !.at = IF @ = "source" THEN "buffer" ELSE "module"]
    <2>1. r \in LoadRecs /\ r.form = q.form /\ r.end = "none" /\ r.refs = RefsTo({}) /\ r.from = q.from
          /\ r.at \in {"buffer", "module"}
      BY <1>2 DEF LoadRecs
    <2>2. SetLoad(c, r)
      BY <1>4 DEF StreamStep
    <2> HIDE DEF r
    <2>3. LoadIsOk(r)
      BY <1>2, <2>1, NothingInUse DEF LoadIsOk
    <2> QED
      BY <1>1, <2>1, <2>2, <2>3, OneMoreLoad
  <1> QED
    BY <1>3, <1>4

LEMMA ValidatesKeeps == ASSUME LoadsInv, NEW c \in LoadCalls, Validates(c) PROVE LoadsInv'
  <1> DEFINE q == loadOf[c]
             r == [q EXCEPT !.at = "done", !.end = "told"]
  <1>1. LoadIsOk(q) /\ q.at = "module" /\ validated' = TRUE /\ source' \in {"pristine", "rewritten"} /\ SetLoad(c, r)
    BY DEF LoadsInv, Validates, LoadAt
  <1>2. q \in LoadRecs /\ q.refs = RefsTo({}) /\ q.end = "none"
    BY <1>1, NothingInUse DEF LoadIsOk
  <1>3. r \in LoadRecs /\ r.at = "done" /\ r.end = "told" /\ r.refs = RefsTo({})
    BY <1>2 DEF LoadRecs
  <1> HIDE DEF r
  <1>4. LoadIsOk(r)
    BY <1>3, NothingInUse DEF LoadIsOk
  <1> QED
    BY <1>1, <1>4, OneLoad

LEMMA MakesModuleKeeps == ASSUME LoadsInv, NEW c \in LoadCalls, NEW im \in BOOLEAN, MakesModule(c, im) PROVE LoadsInv'
  <1> DEFINE q == loadOf[c]
             r == [q EXCEPT !.at = AfterModule(q.form), !.refs["mod"] = 1, !.from = source]
  <1>1. /\ LoadIsOk(q) /\ q.at = "module" /\ q.form # "validate" /\ UNCHANGED <<loader, source, validated>>
        /\ SetLoad(c, r) /\ source \in {"pristine", "rewritten"}
    BY DEF LoadsInv, MakesModule, LoadAt
  <1>2. q \in LoadRecs /\ q.refs = RefsTo({}) /\ q.end = "none" /\ q.form \in {"compile", "bytes"}
    BY <1>1, NothingInUse DEF LoadIsOk
  <1>3. [q.refs EXCEPT !["mod"] = 1] = RefsTo({"mod"}) /\ RefsTo({"mod"}) \in [LoadValues -> Int]
    BY <1>2 DEF RefsTo, LoadValues
  <1>4. r = [q EXCEPT !.at = AfterModule(q.form), !.refs = RefsTo({"mod"}), !.from = source]
    BY <1>2, <1>3 DEF LoadRecs
  <1>5. /\ r \in LoadRecs /\ r.at = AfterModule(q.form) /\ r.refs = RefsTo({"mod"}) /\ r.from = source
        /\ r.form = q.form /\ r.end = "none"
    BY <1>1, <1>2, <1>3, <1>4 DEF LoadRecs, AfterModule
  <1> HIDE DEF r
  <1>6. r.at = (IF r.form = "compile" THEN "promise" ELSE "instance")
    BY <1>5 DEF AfterModule
  <1>7. InUse(r) = {"mod"}
    BY <1>2, <1>5, <1>6, InUseThen
  <1>8. LoadIsOk(r)
    BY <1>2, <1>5, <1>6, <1>7 DEF LoadIsOk
  <1> QED
    BY <1>1, <1>5, <1>8, OneMoreLoad

LEMMA ModuleRefusedKeeps == ASSUME LoadsInv, NEW c \in LoadCalls, ModuleRefused(c) PROVE LoadsInv'
  <1>1. LoadIsOk(loadOf[c]) /\ loadOf[c].at = "module"
    BY DEF LoadsInv, ModuleRefused, LoadAt
  <1>2. loadOf[c] \in LoadRecs /\ loadOf[c].refs = RefsTo({})
    BY <1>1, NothingInUse DEF LoadIsOk
  <1> QED
    BY <1>2, FailedIsOk, OneMoreLoad DEF ModuleRefused

LEMMA MakesInstanceKeeps == ASSUME LoadsInv, NEW c \in LoadCalls, MakesInstance(c) PROVE LoadsInv'
  <1> DEFINE q == loadOf[c]
             r == [q EXCEPT !.at = "promise", !.refs["inst"] = 1]
             S == IF q.form = "bytes" THEN {"mod", "inst"} ELSE {"inst"}
  <1>1. /\ LoadIsOk(q) /\ q.at = "instance" /\ UNCHANGED <<loader, source, validated>> /\ SetLoad(c, r)
    BY DEF LoadsInv, MakesInstance, LoadAt
  <1>2. q \in LoadRecs /\ q.refs = RefsTo(InUse(q)) /\ q.end = "none" /\ q.form \in {"bytes", "module"}
    BY <1>1 DEF LoadIsOk
  <1>3. q.refs = RefsTo(IF q.form = "bytes" THEN {"mod"} ELSE {})
    BY <1>1, <1>2, InUseThen
  <1>4. [q.refs EXCEPT !["inst"] = 1] = RefsTo(S) /\ RefsTo(S) \in [LoadValues -> Int]
    BY <1>2, <1>3 DEF RefsTo, LoadValues
  <1>5. r = [q EXCEPT !.at = "promise", !.refs = RefsTo(S)]
    BY <1>2, <1>4 DEF LoadRecs
  <1> HIDE DEF S
  <1>6. /\ r \in LoadRecs /\ r.at = "promise" /\ r.refs = RefsTo(S) /\ r.from = q.from
        /\ r.form = q.form /\ r.end = "none"
    BY <1>2, <1>4, <1>5 DEF LoadRecs
  <1> HIDE DEF r
  <1>7. InUse(r) = S
    BY <1>2, <1>6, InUseThen DEF S
  <1>8. LoadIsOk(r)
    BY <1>2, <1>6, <1>7 DEF LoadIsOk
  <1> QED
    BY <1>1, <1>6, <1>8, OneMoreLoad

(* What is left when a reference is given back. *)
LEMMA FreedIs ==
    ASSUME NEW r \in LoadRecs, NEW v \in LoadValues
    PROVE  /\ Freed(r, v) \in LoadRecs
           /\ Freed(r, v).at = r.at /\ Freed(r, v).end = r.end /\ Freed(r, v).form = r.form
           /\ Freed(r, v).from = r.from /\ Freed(r, v).value = r.value /\ Freed(r, v).streaming = r.streaming
           /\ Freed(r, v).refs = IF v = "obj" /\ r.refs["obj"] = 1 THEN [w \in LoadValues |-> r.refs[w] - 1]
                                 ELSE [r.refs EXCEPT ![v] = @ - 1]
  <1>1. r.refs \in [LoadValues -> Int]
    BY DEF LoadRecs
  <1> DEFINE f == IF v = "obj" /\ r.refs["obj"] = 1 THEN [w \in LoadValues |-> r.refs[w] - 1]
                  ELSE [r.refs EXCEPT ![v] = @ - 1]
  <1>2. f \in [LoadValues -> Int]
    BY <1>1
  <1>3. Freed(r, v) = [r EXCEPT !.refs = f]
    BY DEF Freed
  <1> HIDE DEF f
  <1>4. [r EXCEPT !.refs = f] \in LoadRecs
    BY <1>2 DEF LoadRecs
  <1> QED
    BY <1>3, <1>4 DEF f, LoadRecs

LEMMA InstanceRefusedKeeps == ASSUME LoadsInv, NEW c \in LoadCalls, InstanceRefused(c) PROVE LoadsInv'
  <1> DEFINE q == loadOf[c]
  <1>1. /\ LoadIsOk(q) /\ q.at = "instance" /\ UNCHANGED <<loader, source, validated>>
        /\ SetLoad(c, Fails(IF q.form = "bytes" THEN Freed(q, "mod") ELSE q))
    BY DEF LoadsInv, InstanceRefused, LoadAt
  <1>2. q \in LoadRecs /\ q.refs = RefsTo(InUse(q)) /\ q.end = "none" /\ q.form \in {"bytes", "module"}
    BY <1>1 DEF LoadIsOk
  <1>3. CASE q.form = "bytes"
    <2>1. q.refs = RefsTo({"mod"})
      BY <1>1, <1>2, <1>3, InUseThen
    <2>2. "mod" \in LoadValues /\ "mod" # "obj"
      BY DEF LoadValues
    <2>3. Freed(q, "mod") \in LoadRecs /\ Freed(q, "mod").from = q.from /\ Freed(q, "mod").refs = [q.refs EXCEPT !["mod"] = @ - 1]
      BY <1>2, <2>2, FreedIs
    <2>4. Freed(q, "mod").refs = RefsTo({})
      BY <2>1, <2>3 DEF RefsTo, LoadValues
    <2> QED
      BY <1>1, <1>3, <2>3, <2>4, FailedIsOk, OneMoreLoad
  <1>4. CASE q.form = "module"
    <2>1. q.refs = RefsTo({})
      BY <1>1, <1>2, <1>4, InUseThen
    <2> QED
      BY <1>1, <1>2, <1>4, <2>1, FailedIsOk, OneMoreLoad
  <1> QED
    BY <1>2, <1>3, <1>4

LEMMA PromiseRefusedKeeps == ASSUME LoadsInv, NEW c \in LoadCalls, PromiseRefused(c) PROVE LoadsInv'
  <1> DEFINE q == loadOf[c]
             r == [q EXCEPT !.refs = NoRefs]
  <1>1. LoadIsOk(q) /\ UNCHANGED <<loader, source, validated>> /\ SetLoad(c, Fails(r))
    BY DEF LoadsInv, PromiseRefused
  <1>2. r \in LoadRecs /\ r.refs = RefsTo({}) /\ r.from = q.from
    BY <1>1, NoRefsAreNone DEF LoadIsOk, LoadRecs, RefsTo
  <1> HIDE DEF r
  <1> QED
    BY <1>1, <1>2, FailedIsOk, OneMoreLoad

(* The promise of a call is resolved: a reference comes and another goes. *)
LEMMA ResolvesKeeps == ASSUME LoadsInv, NEW c \in LoadCalls, Resolves(c) PROVE LoadsInv'
  <1> DEFINE q == loadOf[c]
             v == Result(q.form)
             made == IF q.form = "bytes" THEN [q EXCEPT !.refs["obj"] = 1] ELSE q
             kept == [made EXCEPT !.value = v, !.refs[v] = @ + 1]
             f == Freed(kept, v)
             r == [f EXCEPT !.at = "done", !.end = "fulfilled"]
             S == IF q.form = "compile" THEN {"mod"} ELSE IF q.form = "module" THEN {"inst"} ELSE {"mod", "inst", "obj"}
  <1>1. LoadIsOk(q) /\ q.at = "promise" /\ UNCHANGED <<loader, source, validated>> /\ SetLoad(c, r)
    BY DEF LoadsInv, Resolves, LoadAt
  <1>2. q \in LoadRecs /\ q.refs = RefsTo(InUse(q)) /\ q.form \in {"compile", "bytes", "module"} /\ q.end # "fulfilled"
    BY <1>1 DEF LoadIsOk
  <1>3. /\ q.form = "compile" => v = "mod"
        /\ q.form = "module" => v = "inst"
        /\ q.form = "bytes" => v = "obj"
    BY WhatIsMade
  <1> HIDE DEF v
  <1>4. v \in LoadValues /\ v \in S
    BY <1>2, <1>3 DEF LoadValues
  <1>5. made \in LoadRecs /\ made.refs = RefsTo(S) /\ made.form = q.form /\ made.from = q.from
    <2>1. CASE q.form = "bytes"
      <3>1. q.refs = RefsTo({"mod", "inst"})
        BY <1>1, <1>2, <2>1, InUseThen
      <3>2. [q.refs EXCEPT !["obj"] = 1] = RefsTo({"mod", "inst", "obj"}) /\ RefsTo({"mod", "inst", "obj"}) \in [LoadValues -> Int]
        BY <3>1 DEF RefsTo, LoadValues
      <3>3. made = [q EXCEPT !.refs = RefsTo({"mod", "inst", "obj"})]
        BY <1>2, <2>1, <3>2 DEF LoadRecs
      <3> HIDE DEF made
      <3> QED
        BY <1>2, <2>1, <3>2, <3>3 DEF LoadRecs
    <2>2. CASE q.form # "bytes"
      <3>1. q.refs = RefsTo(S)
        BY <1>1, <1>2, <2>2, InUseThen
      <3> QED
        BY <1>2, <2>2, <3>1
    <2> QED
      BY <2>1, <2>2
  <1> HIDE DEF made
  <1>6. kept \in LoadRecs /\ kept.refs = [made.refs EXCEPT ![v] = @ + 1] /\ kept.value = v /\ kept.form = q.form /\ kept.from = q.from
    <2>1. made.refs \in [LoadValues -> Int]
      BY <1>5 DEF LoadRecs
    <2>2. PICK g \in [LoadValues -> Int] : g = [made.refs EXCEPT ![v] = @ + 1]
      <3>1. made.refs[v] + 1 \in Int
        BY <1>4, <2>1
      <3>2. [made.refs EXCEPT ![v] = @ + 1] \in [LoadValues -> Int]
        BY <1>4, <2>1, <3>1
      <3> QED
        BY <3>2
    <2>3. kept = [made EXCEPT !.value = v, !.refs = g]
      BY <1>5, <2>2 DEF LoadRecs
    <2> HIDE DEF kept
    <2> QED
      BY <1>4, <1>5, <2>2, <2>3 DEF LoadRecs
  <1> HIDE DEF kept
  <1>7. kept.refs[v] = 2
    BY <1>4, <1>5, <1>6 DEF RefsTo
  <1>8. f \in LoadRecs /\ f.form = q.form /\ f.value = v /\ f.from = q.from /\ f.refs = [kept.refs EXCEPT ![v] = @ - 1]
    <2>1. ~(v = "obj" /\ kept.refs["obj"] = 1)
      BY <1>7
    <2>2. f.refs = (IF v = "obj" /\ kept.refs["obj"] = 1 THEN [w \in LoadValues |-> kept.refs[w] - 1]
                    ELSE [kept.refs EXCEPT ![v] = @ - 1])
      <3>1. kept \in LoadRecs /\ v \in LoadValues
        BY <1>4, <1>6
      <3> QED
        BY <3>1, FreedIs, Zenon
    <2>3. f \in LoadRecs /\ f.form = kept.form /\ f.value = kept.value /\ f.from = kept.from
      BY <1>4, <1>6, FreedIs, Zenon
    <2> HIDE DEF f
    <2> QED
      BY <1>6, <2>1, <2>2, <2>3
  <1>9. f.refs = RefsTo(S)
    BY <1>4, <1>5, <1>6, <1>8 DEF RefsTo
  <1> HIDE DEF f
  <1>10. r \in LoadRecs /\ r.at = "done" /\ r.end = "fulfilled" /\ r.form = q.form /\ r.value = v /\ r.from = q.from /\ r.refs = RefsTo(S)
    BY <1>8, <1>9 DEF LoadRecs
  <1> HIDE DEF r
  <1>11. InUse(r) = S
    BY <1>2, <1>10, InUseThen
  <1>12. LoadIsOk(r)
    BY <1>2, <1>10, <1>11 DEF LoadIsOk, v
  <1> QED
    BY <1>1, <1>10, <1>12, OneMoreLoad

LEMMA DropsPromiseKeeps == ASSUME LoadsInv, NEW c \in LoadCalls, DropsPromise(c) PROVE LoadsInv'
  <1> DEFINE q == loadOf[c]
             v == q.value
             f == Freed(q, v)
             r == [f EXCEPT !.end = "dropped", !.value = "none"]
  <1>1. /\ LoadIsOk(q) /\ q.at = "done" /\ q.end = "fulfilled" /\ UNCHANGED <<loader, source, validated>>
        /\ SetLoad(c, r)
    BY DEF LoadsInv, DropsPromise, LoadAt
  <1>2. /\ q \in LoadRecs /\ q.refs = RefsTo(InUse(q)) /\ q.form \in {"compile", "bytes", "module"}
        /\ v = Result(q.form)
    BY <1>1 DEF LoadIsOk
  <1>3. /\ q.form = "compile" => v = "mod"
        /\ q.form = "module" => v = "inst"
        /\ q.form = "bytes" => v = "obj"
    BY <1>2, WhatIsMade
  <1> HIDE DEF v
  <1>4. v \in LoadValues
    BY <1>2, <1>3 DEF LoadValues
  <1>5. /\ f \in LoadRecs /\ f.at = "done" /\ f.from = q.from
        /\ f.refs = IF v = "obj" /\ q.refs["obj"] = 1 THEN [w \in LoadValues |-> q.refs[w] - 1]
                    ELSE [q.refs EXCEPT ![v] = @ - 1]
    BY <1>1, <1>2, <1>4, FreedIs
  <1> HIDE DEF f
  <1>6. f.refs = RefsTo({})
    <2>1. CASE q.form = "bytes"
      <3>1. q.refs = RefsTo({"mod", "inst", "obj"}) /\ v = "obj"
        BY <1>1, <1>2, <1>3, <2>1, InUseThen
      <3>2. q.refs["obj"] = 1
        BY <3>1 DEF RefsTo, LoadValues
      <3> QED
        BY <1>5, <3>1, <3>2 DEF RefsTo, LoadValues
    <2>2. CASE q.form \in {"compile", "module"}
      <3>1. q.refs = RefsTo({v}) /\ v # "obj"
        BY <1>1, <1>2, <1>3, <2>2, InUseThen
      <3> QED
        BY <1>4, <1>5, <3>1 DEF RefsTo, LoadValues
    <2> QED
      BY <1>2, <2>1, <2>2
  <1>7. r \in LoadRecs /\ r.at = "done" /\ r.end = "dropped" /\ r.refs = RefsTo({}) /\ r.from = q.from
    BY <1>5, <1>6 DEF LoadRecs
  <1> HIDE DEF r
  <1>8. LoadIsOk(r)
    BY <1>7, NothingInUse DEF LoadIsOk
  <1> QED
    BY <1>1, <1>7, <1>8, OneMoreLoad

LEMMA LoadsKept == LoadsInv /\ [LoadsNext]_loadVars => LoadsInv'
  <1> SUFFICES ASSUME LoadsInv, [LoadsNext]_loadVars PROVE LoadsInv'
    OBVIOUS
  <1>1. CASE UNCHANGED loadVars
    BY <1>1 DEF loadVars, LoadsInv
  <1>2. ASSUME NEW c \in LoadCalls, \E form \in {"validate", "compile", "bytes", "module"}, s \in BOOLEAN : CallLoad(c, form, s)
        PROVE  LoadsInv'
    BY <1>2, CallLoadKeeps
  <1>3. ASSUME NEW c \in LoadCalls, \E ok \in BOOLEAN : StreamStep(c, ok) \/ MakesModule(c, ok) PROVE LoadsInv'
    BY <1>3, StreamStepKeeps, MakesModuleKeeps
  <1>4. ASSUME NEW c \in LoadCalls, Validates(c) \/ ModuleRefused(c) \/ MakesInstance(c) \/ InstanceRefused(c) PROVE LoadsInv'
    BY <1>4, ValidatesKeeps, ModuleRefusedKeeps, MakesInstanceKeeps, InstanceRefusedKeeps
  <1>5. ASSUME NEW c \in LoadCalls, PromiseRefused(c) \/ Resolves(c) \/ DropsPromise(c) PROVE LoadsInv'
    BY <1>5, PromiseRefusedKeeps, ResolvesKeeps, DropsPromiseKeeps
  <1> QED
    BY <1>1, <1>2, <1>3, <1>4, <1>5 DEF LoadsNext

LEMMA LoadsSound == LoadsInv => LoadsTypeOK /\ ReferencesAddUp /\ LoadsPristine
  <1> SUFFICES ASSUME LoadsInv PROVE LoadsTypeOK /\ ReferencesAddUp /\ LoadsPristine
    OBVIOUS
  <1>1. \A c \in LoadCalls : loadOf[c] \in LoadRecs /\ loadOf[c].refs = RefsTo(InUse(loadOf[c]))
    BY DEF LoadsInv, LoadIsOk
  <1>2. LoadsTypeOK
    BY <1>1 DEF LoadsTypeOK, LoadRecs
  <1>3. ReferencesAddUp
    BY <1>1 DEF ReferencesAddUp, RefsTo
  <1> QED
    BY <1>2, <1>3 DEF LoadsInv, LoadsPristine

-----------------------------------------------------------------------------
(* WebAssembly tables *)

TablesSpec == TablesInit /\ [][TablesNext]_tabVars

TabRecs == [life : {"none", "live", "gone"}, slots : Seq(Elems \cup {Null}), max : Nat]
GrowRecs == [tab : Tables, size : Nat]

(* The slots of live tables that hold an object *)
Places == Tables \X (1 .. MaxSlots)
Holding(t, o) == {p \in Places : t[p[1]].life = "live" /\ p[2] \in SlotsOf(t[p[1]].slots, o)}

TabsOk(t) == t \in [Tables -> TabRecs] /\ \A x \in Tables : Len(t[x].slots) <= MaxSlots

CountsOk(t, count, had) ==
    /\ count \in [Elems -> Int] /\ had \subseteq Elems
    /\ \A o \in Elems : count[o] = Cardinality(Holding(t, o)) + (IF o \in had THEN 1 ELSE 0)

(* A table stays while a call of grow uses it. *)
GrowingOk(t, gs) == gs \in Seq(GrowRecs) /\ \A j \in 1 .. Len(gs) : t[gs[j].tab].life = "live"

TablesInv == TabsOk(tabs) /\ CountsOk(tabs, refs, scriptHas) /\ GrowingOk(tabs, growing)

LEMMA HoldingIsFinite ==
    ASSUME NEW t, NEW o
    PROVE  IsFiniteSet(Holding(t, o)) /\ Cardinality(Holding(t, o)) \in Nat
  <1>1. IsFiniteSet(1 .. MaxSlots)
    BY FS_Interval, TablesAssumption
  <1>2. IsFiniteSet(Places)
    BY <1>1, FS_Product, TablesAssumption, Zenon DEF Places
  <1>3. Holding(t, o) \in SUBSET Places
    BY DEF Holding
  <1>4. IsFiniteSet(Holding(t, o))
    BY <1>2, <1>3, FS_Subset, Zenon
  <1> QED
    BY <1>4, FS_CardinalityType, Zenon

LEMMA TabFields ==
    ASSUME NEW t, TabsOk(t), NEW x \in Tables
    PROVE  /\ t[x].life \in {"none", "live", "gone"} /\ t[x].slots \in Seq(Elems \cup {Null}) /\ t[x].max \in Nat
           /\ Len(t[x].slots) \in 0 .. MaxSlots
           /\ \A j \in 1 .. Len(t[x].slots) : <<x, j>> \in Places /\ t[x].slots[j] \in Elems \cup {Null}
  <1>1. t[x] \in TabRecs /\ Len(t[x].slots) <= MaxSlots
    BY DEF TabsOk
  <1>2. t[x].life \in {"none", "live", "gone"} /\ t[x].slots \in Seq(Elems \cup {Null}) /\ t[x].max \in Nat
    BY <1>1 DEF TabRecs
  <1>3. Len(t[x].slots) \in 0 .. MaxSlots
    BY <1>1, <1>2, TablesAssumption
  <1>4. ASSUME NEW j \in 1 .. Len(t[x].slots) PROVE <<x, j>> \in Places /\ t[x].slots[j] \in Elems \cup {Null}
    <2>1. j \in 1 .. MaxSlots
      BY <1>3, TablesAssumption
    <2>2. t[x].slots[j] \in Elems \cup {Null}
      BY <1>2, ElementOfSeq
    <2> QED
      BY <2>1, <2>2 DEF Places
  <1> QED
    BY <1>2, <1>3, <1>4

(* Which slots hold an object *)
LEMMA HoldingIs ==
    ASSUME NEW t, TabsOk(t), NEW o, NEW x \in Tables, NEW j
    PROVE  <<x, j>> \in Holding(t, o) <=>
               t[x].life = "live" /\ j \in 1 .. Len(t[x].slots) /\ t[x].slots[j] = o
  <1>1. \A k \in 1 .. Len(t[x].slots) : <<x, k>> \in Places
    BY TabFields
  <1> QED
    BY <1>1 DEF Holding, SlotsOf

LEMMA HoldingPairs == ASSUME NEW t, NEW o, NEW p \in Holding(t, o) PROVE p[1] \in Tables /\ p[2] \in 1 .. MaxSlots /\ p = <<p[1], p[2]>>
  BY DEF Holding, Places

LEMMA TablesStart == TablesInit => TablesInv
  <1> SUFFICES ASSUME TablesInit PROVE TablesInv
    OBVIOUS
  <1>1. NoTable \in TabRecs /\ Len(NoTable.slots) = 0 /\ NoTable.life = "none"
    BY DEF NoTable, TabRecs
  <1>2. tabs \in [Tables -> TabRecs] /\ \A x \in Tables : tabs[x] = NoTable
    BY <1>1 DEF TablesInit
  <1>3. TabsOk(tabs)
    BY <1>1, <1>2, TablesAssumption DEF TabsOk
  <1>4. \A o : Holding(tabs, o) = {}
    BY <1>1, <1>2 DEF Holding, Places
  <1>5. \A o : Cardinality(Holding(tabs, o)) = 0
    BY <1>4, FS_EmptySet
  <1>6. refs \in [Elems -> Int] /\ scriptHas = Elems /\ \A o \in Elems : refs[o] = 1
    BY DEF TablesInit
  <1>7. CountsOk(tabs, refs, scriptHas)
    BY <1>5, <1>6 DEF CountsOk
  <1>8. GrowingOk(tabs, growing)
    BY DEF TablesInit, GrowingOk
  <1> QED
    BY <1>3, <1>7, <1>8 DEF TablesInv

(* The counts follow where the same slots of the other tables hold the same. *)
LEMMA OnePlace ==
    ASSUME NEW H, NEW K, NEW p, IsFiniteSet(H), IsFiniteSet(K), H \ {p} = K \ {p}
    PROVE  Cardinality(K) = Cardinality(H) - (IF p \in H THEN 1 ELSE 0) + (IF p \in K THEN 1 ELSE 0)
  <1>1. /\ Cardinality(H \ {p}) = IF p \in H THEN Cardinality(H) - 1 ELSE Cardinality(H)
        /\ Cardinality(K \ {p}) = IF p \in K THEN Cardinality(K) - 1 ELSE Cardinality(K)
    BY FS_RemoveElement, Zenon
  <1>2. Cardinality(H) \in Nat /\ Cardinality(K) \in Nat /\ Cardinality(H \ {p}) = Cardinality(K \ {p})
    BY FS_CardinalityType
  <1> QED
    BY <1>1, <1>2

(* A table is replaced, and the others stay. *)
LEMMA TabsAfter ==
    ASSUME NEW t, TabsOk(t), NEW x \in Tables, NEW r \in TabRecs, Len(r.slots) <= MaxSlots
    PROVE  /\ TabsOk([t EXCEPT ![x] = r]) /\ [t EXCEPT ![x] = r][x] = r
           /\ \A y \in Tables : y # x => [t EXCEPT ![x] = r][y] = t[y]
  <1>1. t \in [Tables -> TabRecs]
    BY DEF TabsOk
  <1> QED
    BY <1>1 DEF TabsOk

(* The array of a table is replaced. *)
LEMMA SlotsAfter ==
    ASSUME NEW t, TabsOk(t), NEW x \in Tables, NEW s \in Seq(Elems \cup {Null})
    PROVE  /\ [t[x] EXCEPT !.slots = s] \in TabRecs /\ [t[x] EXCEPT !.slots = s].slots = s
           /\ [t[x] EXCEPT !.slots = s].life = t[x].life
  <1>1. t[x] \in TabRecs
    BY DEF TabsOk
  <1> QED
    BY <1>1 DEF TabRecs

(* Two sets of tables in which an object fills the same places *)
LEMMA HoldingSame ==
    ASSUME NEW t, TabsOk(t), NEW u, TabsOk(u), NEW x \in Tables, NEW o,
           \A y \in Tables : y # x => u[y] = t[y],
           \A j : <<x, j>> \in Holding(u, o) <=> <<x, j>> \in Holding(t, o)
    PROVE  Holding(u, o) = Holding(t, o)
  <1>1. ASSUME NEW y \in Tables, NEW j PROVE <<y, j>> \in Holding(u, o) <=> <<y, j>> \in Holding(t, o)
    BY HoldingIs
  <1>2. \A p : p \in Holding(t, o) => p \in Holding(u, o)
    BY <1>1, HoldingPairs
  <1>3. \A p : p \in Holding(u, o) => p \in Holding(t, o)
    BY <1>1, HoldingPairs
  <1> QED
    BY <1>2, <1>3

(* Calls of grow use tables that another table's change leaves alive. *)
LEMMA GrowingStays ==
    ASSUME NEW t, NEW u, NEW gs, GrowingOk(t, gs), NEW x \in Tables, u[x].life = t[x].life \/ t[x].life # "live",
           \A y \in Tables : y # x => u[y] = t[y]
    PROVE  GrowingOk(u, gs)
  <1> SUFFICES ASSUME NEW j \in 1 .. Len(gs) PROVE u[gs[j].tab].life = "live"
    BY DEF GrowingOk
  <1>1. gs \in Seq(GrowRecs) /\ t[gs[j].tab].life = "live"
    BY DEF GrowingOk
  <1>2. gs[j] \in GrowRecs
    BY <1>1, ElementOfSeq
  <1>3. gs[j].tab \in Tables
    BY <1>2 DEF GrowRecs
  <1> QED
    BY <1>1, <1>3

LEMMA NewTableKeeps ==
    ASSUME TablesInv, NEW x \in Tables, NEW initial \in 0 .. 2, NEW maximum \in {0, 2}, NewTable(x, initial, maximum)
    PROVE  TablesInv'
  <1> DEFINE s == [j \in 1 .. initial |-> Null]
             r == [life |-> "live", slots |-> s, max |-> maximum]
  <1>1. initial \in Nat /\ initial <= MaxSlots
    BY TablesAssumption
  <1>2. s \in Seq(Elems \cup {Null}) /\ Len(s) = initial /\ \A j \in 1 .. initial : s[j] = Null
    BY <1>1
  <1> HIDE DEF s
  <1>3. r \in TabRecs /\ r.slots = s
    BY <1>2 DEF TabRecs
  <1>4. tabs' = [tabs EXCEPT ![x] = r] /\ tabs[x].life = "none" /\ UNCHANGED <<refs, scriptHas, growing>>
    BY DEF NewTable, s
  <1> HIDE DEF r
  <1>5. TabsOk(tabs) /\ TabsOk(tabs') /\ tabs'[x] = r /\ \A y \in Tables : y # x => tabs'[y] = tabs[y]
    <2>1. TabsOk(tabs) /\ Len(r.slots) <= MaxSlots
      BY <1>1, <1>2, <1>3 DEF TablesInv
    <2>2. /\ TabsOk([tabs EXCEPT ![x] = r]) /\ [tabs EXCEPT ![x] = r][x] = r
          /\ \A y \in Tables : y # x => [tabs EXCEPT ![x] = r][y] = tabs[y]
      BY <1>3, <2>1, TabsAfter
    <2> QED
      BY <1>4, <2>1, <2>2
  <1>6. ASSUME NEW o \in Elems PROVE Holding(tabs', o) = Holding(tabs, o)
    <2>1. o # Null
      BY TablesAssumption
    <2>2. \A j : <<x, j>> \notin Holding(tabs, o)
      BY <1>4, <1>5, HoldingIs
    <2>3. \A j : <<x, j>> \notin Holding(tabs', o)
      BY <1>2, <1>3, <1>5, <2>1, HoldingIs
    <2> QED
      BY <1>5, <2>2, <2>3, HoldingSame
  <1>7. CountsOk(tabs', refs', scriptHas')
    BY <1>4, <1>6 DEF TablesInv, CountsOk
  <1>8. GrowingOk(tabs', growing')
    <2>1. GrowingOk(tabs, growing) /\ tabs[x].life # "live" /\ growing' = growing
      BY <1>4 DEF TablesInv
    <2>2. GrowingOk(tabs', growing)
      BY <1>5, <2>1, GrowingStays
    <2> QED
      BY <2>1, <2>2
  <1> QED
    BY <1>5, <1>7, <1>8 DEF TablesInv

LEMMA TableSetKeeps ==
    ASSUME TablesInv, NEW x \in Tables, NEW j \in 1 .. MaxSlots, NEW v \in Elems \cup {Null}, TableSet(x, j, v)
    PROVE  TablesInv'
  <1> DEFINE old == tabs[x].slots[j]
             s == [tabs[x].slots EXCEPT ![j] = v]
             r == [tabs[x] EXCEPT !.slots = s]
  <1>1. /\ tabs[x].life = "live" /\ j \in 1 .. Len(tabs[x].slots) /\ UNCHANGED <<scriptHas, growing>>
        /\ refs' = [o \in Elems |-> refs[o] - (IF o = old THEN 1 ELSE 0) + (IF o = v THEN 1 ELSE 0)]
    BY DEF TableSet, Live, Length
  <1>2. tabs' = [tabs EXCEPT ![x] = r]
    BY DEF TableSet
  <1>3. TabsOk(tabs) /\ tabs[x].slots \in Seq(Elems \cup {Null}) /\ Len(tabs[x].slots) <= MaxSlots
    BY TabFields DEF TablesInv
  <1>4. s \in Seq(Elems \cup {Null}) /\ Len(s) = Len(tabs[x].slots) /\ s[j] = v
        /\ \A k \in 1 .. Len(s) : k # j => s[k] = tabs[x].slots[k]
    BY <1>1, <1>3
  <1> HIDE DEF s
  <1>5. r \in TabRecs /\ r.slots = s /\ r.life = "live"
    <2>1. /\ [tabs[x] EXCEPT !.slots = s] \in TabRecs /\ [tabs[x] EXCEPT !.slots = s].slots = s
          /\ [tabs[x] EXCEPT !.slots = s].life = tabs[x].life
      BY <1>3, <1>4, SlotsAfter
    <2> QED
      BY <1>1, <2>1, Zenon
  <1> HIDE DEF r
  <1>6. TabsOk(tabs') /\ tabs'[x] = r /\ \A y \in Tables : y # x => tabs'[y] = tabs[y]
    <2>1. Len(r.slots) <= MaxSlots
      BY <1>3, <1>4, <1>5
    <2>2. /\ TabsOk([tabs EXCEPT ![x] = r]) /\ [tabs EXCEPT ![x] = r][x] = r
          /\ \A y \in Tables : y # x => [tabs EXCEPT ![x] = r][y] = tabs[y]
      BY <1>3, <1>5, <2>1, TabsAfter
    <2> QED
      BY <1>2, <2>1, <2>2
  <1> DEFINE p == <<x, j>>
  <1>7. ASSUME NEW o \in Elems
        PROVE  refs'[o] = Cardinality(Holding(tabs', o)) + (IF o \in scriptHas THEN 1 ELSE 0)
    <2>1. p \in Holding(tabs, o) <=> o = old
      BY <1>1, <1>3, HoldingIs
    <2>2. p \in Holding(tabs', o) <=> o = v
      BY <1>1, <1>4, <1>5, <1>6, HoldingIs
    <2>3. \A k : k # j => (<<x, k>> \in Holding(tabs', o) <=> <<x, k>> \in Holding(tabs, o))
      BY <1>1, <1>3, <1>4, <1>5, <1>6, HoldingIs
    <2>4. \A y \in Tables : \A k : y # x => (<<y, k>> \in Holding(tabs', o) <=> <<y, k>> \in Holding(tabs, o))
      BY <1>3, <1>6, HoldingIs
    <2>5. \A q \in Holding(tabs, o) : q # p => q \in Holding(tabs', o)
      BY <2>3, <2>4, HoldingPairs
    <2>6. \A q \in Holding(tabs', o) : q # p => q \in Holding(tabs, o)
      BY <2>3, <2>4, HoldingPairs
    <2> HIDE DEF p
    <2>7. Holding(tabs, o) \ {p} = Holding(tabs', o) \ {p}
      BY <2>5, <2>6
    <2>8. Cardinality(Holding(tabs', o)) = Cardinality(Holding(tabs, o)) - (IF p \in Holding(tabs, o) THEN 1 ELSE 0)
                                           + (IF p \in Holding(tabs', o) THEN 1 ELSE 0)
      BY <2>7, HoldingIsFinite, OnePlace
    <2>9. refs[o] = Cardinality(Holding(tabs, o)) + (IF o \in scriptHas THEN 1 ELSE 0)
      BY DEF TablesInv, CountsOk
    <2>10. refs'[o] = refs[o] - (IF o = old THEN 1 ELSE 0) + (IF o = v THEN 1 ELSE 0)
      BY <1>1
    <2>11. Cardinality(Holding(tabs, o)) \in Nat /\ Cardinality(Holding(tabs', o)) \in Nat
      BY HoldingIsFinite
    <2> HIDE DEF old
    <2> QED
      BY <2>1, <2>2, <2>8, <2>9, <2>10, <2>11
  <1>8. CountsOk(tabs', refs', scriptHas')
    <2>1. refs' \in [Elems -> Int] /\ scriptHas' = scriptHas /\ scriptHas \subseteq Elems
      BY <1>1 DEF TablesInv, CountsOk
    <2> QED
      BY <1>7, <2>1 DEF CountsOk
  <1>9. GrowingOk(tabs', growing')
    BY <1>1, <1>5, <1>6, GrowingStays DEF TablesInv
  <1> QED
    BY <1>6, <1>8, <1>9 DEF TablesInv

LEMMA TableGetKeeps == ASSUME TablesInv, NEW x \in Tables, NEW j \in 1 .. MaxSlots, TableGet(x, j) PROVE TablesInv'
  <1>1. PICK o \in Elems \ scriptHas : refs' = [refs EXCEPT ![o] = @ + 1] /\ scriptHas' = scriptHas \cup {o}
                                       /\ UNCHANGED <<tabs, growing>>
    BY DEF TableGet
  <1>2. CountsOk(tabs, refs, scriptHas) /\ \A q \in Elems : Cardinality(Holding(tabs, q)) \in Nat
    BY HoldingIsFinite DEF TablesInv
  <1>3. refs' \in [Elems -> Int] /\ scriptHas' \subseteq Elems
        /\ \A q \in Elems : refs'[q] = (IF q = o THEN refs[q] + 1 ELSE refs[q]) /\ (q \in scriptHas' <=> q = o \/ q \in scriptHas)
    BY <1>1, <1>2 DEF CountsOk
  <1>4. CountsOk(tabs, refs', scriptHas')
    BY <1>1, <1>2, <1>3 DEF CountsOk
  <1> QED
    BY <1>1, <1>4 DEF TablesInv

LEMMA ScriptDropsKeeps == ASSUME TablesInv, NEW o \in Elems, ScriptDrops(o) PROVE TablesInv'
  <1>1. o \in scriptHas /\ refs' = [refs EXCEPT ![o] = @ - 1] /\ scriptHas' = scriptHas \ {o} /\ UNCHANGED <<tabs, growing>>
    BY DEF ScriptDrops
  <1>2. CountsOk(tabs, refs, scriptHas) /\ \A q \in Elems : Cardinality(Holding(tabs, q)) \in Nat
    BY HoldingIsFinite DEF TablesInv
  <1>3. refs' \in [Elems -> Int] /\ scriptHas' \subseteq Elems
        /\ \A q \in Elems : refs'[q] = (IF q = o THEN refs[q] - 1 ELSE refs[q]) /\ (q \in scriptHas' <=> q # o /\ q \in scriptHas)
    BY <1>1, <1>2 DEF CountsOk
  <1>4. CountsOk(tabs, refs', scriptHas')
    BY <1>1, <1>2, <1>3 DEF CountsOk
  <1> QED
    BY <1>1, <1>4 DEF TablesInv

(* The last call of grow returns. *)
LEMMA LastCallReturns ==
    ASSUME NEW t, NEW gs, GrowingOk(t, gs), gs # << >>
    PROVE  /\ GrowingOk(t, SubSeq(gs, 1, Len(gs) - 1))
           /\ gs[Len(gs)].tab \in Tables /\ t[gs[Len(gs)].tab].life = "live"
  <1>1. gs \in Seq(GrowRecs) /\ \A j \in 1 .. Len(gs) : t[gs[j].tab].life = "live"
    BY DEF GrowingOk
  <1>2. Len(gs) \in Nat /\ Len(gs) >= 1
    BY <1>1, EmptySeq
  <1>n. Len(gs) - 1 \in Nat
    BY <1>2
  <1>3. PICK n \in Nat : n = Len(gs) - 1
    BY <1>n, Zenon
  <1>4. \A j \in 1 .. n : j \in 1 .. Len(gs) /\ gs[j] \in GrowRecs
    BY <1>1, <1>2, <1>3, ElementOfSeq
  <1>5. /\ SubSeq(gs, 1, n) \in Seq(GrowRecs) /\ Len(SubSeq(gs, 1, n)) = n
        /\ \A j \in 1 .. n : SubSeq(gs, 1, n)[j] = gs[j]
    BY <1>1, <1>3, <1>4, SubSeqProperties
  <1>6. GrowingOk(t, SubSeq(gs, 1, n))
    BY <1>1, <1>4, <1>5 DEF GrowingOk
  <1>7. gs[Len(gs)] \in GrowRecs /\ t[gs[Len(gs)].tab].life = "live"
    BY <1>1, <1>2, ElementOfSeq
  <1> QED
    BY <1>3, <1>6, <1>7 DEF GrowRecs

LEMMA TableGrowThrowsKeeps == ASSUME TablesInv, TableGrowThrows PROVE TablesInv'
  <1>1. GrowingOk(tabs, growing') /\ UNCHANGED <<tabs, refs, scriptHas>>
    BY LastCallReturns DEF TableGrowThrows, TablesInv
  <1> QED
    BY <1>1 DEF TablesInv

LEMMA TableGrowCalledKeeps == ASSUME TablesInv, NEW x \in Tables, TableGrowCalled(x) PROVE TablesInv'
  <1> DEFINE g == [tab |-> x, size |-> Length(x)]
  <1>1. tabs[x].life = "live" /\ growing' = Append(growing, g) /\ UNCHANGED <<tabs, refs, scriptHas>>
    BY DEF TableGrowCalled, Live
  <1>2. Length(x) \in Nat
    BY TabFields, TablesAssumption DEF Length, TablesInv
  <1>3. g \in GrowRecs /\ g.tab = x
    BY <1>2 DEF GrowRecs
  <1> HIDE DEF g
  <1>4. growing \in Seq(GrowRecs) /\ \A j \in 1 .. Len(growing) : tabs[growing[j].tab].life = "live"
    BY DEF TablesInv, GrowingOk
  <1>5. /\ growing' \in Seq(GrowRecs) /\ Len(growing') = Len(growing) + 1 /\ growing'[Len(growing) + 1] = g
        /\ \A j \in 1 .. Len(growing) : growing'[j] = growing[j]
    BY <1>1, <1>3, <1>4, AppendProperties
  <1>6. GrowingOk(tabs, growing')
    BY <1>1, <1>3, <1>4, <1>5 DEF GrowingOk
  <1> QED
    BY <1>1, <1>6 DEF TablesInv

LEMMA TableGrowKeeps ==
    ASSUME TablesInv, NEW delta \in 0 .. 2, NEW fill \in Elems \cup {Null}, TableGrow(delta, fill)
    PROVE  TablesInv'
  <1> DEFINE x == growing[Len(growing)].tab
             len == Len(tabs[x].slots)
             size == len + delta
             s == [j \in 1 .. size |-> IF j <= len THEN tabs[x].slots[j] ELSE fill]
             r == [tabs[x] EXCEPT !.slots = s]
  <1>1. /\ growing # << >> /\ size <= MaxSlots /\ tabs' = [tabs EXCEPT ![x] = r]
        /\ refs' = [o \in Elems |-> IF o = fill THEN refs[o] + delta ELSE refs[o]]
        /\ growing' = SubSeq(growing, 1, Len(growing) - 1) /\ scriptHas' = scriptHas
    BY DEF TableGrow, Length
  <1>2. GrowingOk(tabs, growing') /\ x \in Tables /\ tabs[x].life = "live"
    BY <1>1, LastCallReturns DEF TablesInv
  <1> HIDE DEF x
  <1>3. TabsOk(tabs) /\ tabs[x].slots \in Seq(Elems \cup {Null}) /\ len \in 0 .. MaxSlots
        /\ \A j \in 1 .. len : tabs[x].slots[j] \in Elems \cup {Null}
    BY <1>2, TabFields DEF TablesInv
  <1>4. len \in Nat /\ delta \in Nat /\ size \in Nat /\ size = len + delta /\ size <= MaxSlots
    <2>1. len \in Nat /\ delta \in Nat /\ size <= MaxSlots /\ size = len + delta
      BY <1>1, <1>3, TablesAssumption
    <2> HIDE DEF len, size
    <2> QED
      BY <2>1
  <1>l. len = Len(tabs[x].slots)
    OBVIOUS
  <1> HIDE DEF len, size
  <1>5. s \in Seq(Elems \cup {Null}) /\ Len(s) = size
    <2>1. \A j \in 1 .. size : (IF j <= len THEN tabs[x].slots[j] ELSE fill) \in Elems \cup {Null}
      BY <1>3, <1>4
    <2> QED
      BY <1>4, <2>1
  <1>6. \A j \in 1 .. size : s[j] = IF j <= len THEN tabs[x].slots[j] ELSE fill
    OBVIOUS
  <1> HIDE DEF s
  <1>7. r \in TabRecs /\ r.slots = s /\ r.life = "live"
    BY <1>2, <1>3, <1>5, SlotsAfter
  <1> HIDE DEF r
  <1>8. TabsOk(tabs') /\ tabs'[x] = r /\ \A y \in Tables : y # x => tabs'[y] = tabs[y]
    <2>1. Len(r.slots) <= MaxSlots
      BY <1>4, <1>5, <1>7
    <2>2. /\ TabsOk([tabs EXCEPT ![x] = r]) /\ [tabs EXCEPT ![x] = r][x] = r
          /\ \A y \in Tables : y # x => [tabs EXCEPT ![x] = r][y] = tabs[y]
      BY <1>2, <1>3, <1>7, <2>1, TabsAfter
    <2> QED
      BY <1>1, <2>1, <2>2
  <1>9. ASSUME NEW o \in Elems, o # fill PROVE Holding(tabs', o) = Holding(tabs, o)
    <2>1. \A j : <<x, j>> \in Holding(tabs', o) <=> j \in 1 .. size /\ s[j] = o
      BY <1>2, <1>5, <1>7, <1>8, HoldingIs
    <2>2. \A j : <<x, j>> \in Holding(tabs, o) <=> j \in 1 .. len /\ tabs[x].slots[j] = o
      BY <1>2, <1>3, <1>l, HoldingIs
    <2>3. \A j : j \in 1 .. size /\ s[j] = o <=> j \in 1 .. len /\ tabs[x].slots[j] = o
      BY <1>4, <1>6, <1>9
    <2> QED
      BY <1>2, <1>3, <1>8, <2>1, <2>2, <2>3, HoldingSame
  <1>10. ASSUME NEW o \in Elems, o = fill PROVE Cardinality(Holding(tabs', o)) = Cardinality(Holding(tabs, o)) + delta
    <2> DEFINE more == {x} \X (len + 1 .. size)
    <2>1. \A j : <<x, j>> \in Holding(tabs', o) <=> j \in 1 .. size /\ s[j] = o
      BY <1>2, <1>5, <1>7, <1>8, HoldingIs
    <2>2. \A j : <<x, j>> \in Holding(tabs, o) <=> j \in 1 .. len /\ tabs[x].slots[j] = o
      BY <1>2, <1>3, <1>l, HoldingIs
    <2>3. \A j : <<x, j>> \in Holding(tabs', o) <=> <<x, j>> \in Holding(tabs, o) \/ j \in len + 1 .. size
      BY <1>4, <1>6, <1>10, <2>1, <2>2
    <2>4. \A j : <<x, j>> \in Holding(tabs, o) => j \notin len + 1 .. size
      BY <1>4, <2>2
    <2>5. \A y \in Tables : \A j : y # x => (<<y, j>> \in Holding(tabs', o) <=> <<y, j>> \in Holding(tabs, o))
      BY <1>3, <1>8, HoldingIs
    <2>6. \A q : q \in more <=> \E j \in len + 1 .. size : q = <<x, j>>
      OBVIOUS
    <2>7. /\ IsFiniteSet(more) /\ Cardinality(more) = delta
      <3>1. IsFiniteSet(len + 1 .. size) /\ Cardinality(len + 1 .. size) = delta
        <4>1. Cardinality(len + 1 .. size) = IF len + 1 > size THEN 0 ELSE size - (len + 1) + 1
          BY <1>4, FS_Interval
        <4>2. IsFiniteSet(len + 1 .. size)
          BY <1>4, FS_Interval
        <4> QED
          BY <1>4, <4>1, <4>2
      <3>2. IsFiniteSet({x}) /\ Cardinality({x}) = 1
        BY FS_Singleton
      <3>3. IsFiniteSet(more) /\ Cardinality(more) = Cardinality({x}) * Cardinality(len + 1 .. size)
        BY <3>1, <3>2, FS_Product, Zenon
      <3> QED
        BY <1>4, <3>1, <3>2, <3>3
    <2> HIDE DEF more
    <2>8. Holding(tabs', o) = Holding(tabs, o) \cup more
      <3>1. \A q \in Holding(tabs', o) : q \in Holding(tabs, o) \cup more
        <4> SUFFICES ASSUME NEW q \in Holding(tabs', o) PROVE q \in Holding(tabs, o) \cup more
          OBVIOUS
        <4>1. q[1] \in Tables /\ q = <<q[1], q[2]>>
          BY HoldingPairs
        <4>2. CASE q[1] = x
          BY <2>3, <2>6, <4>1, <4>2
        <4>3. CASE q[1] # x
          BY <2>5, <4>1, <4>3
        <4> QED
          BY <4>2, <4>3
      <3>2. \A q \in Holding(tabs, o) : q \in Holding(tabs', o)
        <4> SUFFICES ASSUME NEW q \in Holding(tabs, o) PROVE q \in Holding(tabs', o)
          OBVIOUS
        <4>1. q[1] \in Tables /\ q = <<q[1], q[2]>>
          BY HoldingPairs
        <4>2. CASE q[1] = x
          BY <2>3, <4>1, <4>2
        <4>3. CASE q[1] # x
          BY <2>5, <4>1, <4>3
        <4> QED
          BY <4>2, <4>3
      <3>3. \A q \in more : q \in Holding(tabs', o)
        BY <2>3, <2>6
      <3> QED
        BY <3>1, <3>2, <3>3
    <2>9. Holding(tabs, o) \cap more = {}
      BY <2>4, <2>6
    <2>10. Cardinality(Holding(tabs, o) \cup more) = Cardinality(Holding(tabs, o)) + Cardinality(more) - Cardinality({})
      BY <2>7, <2>9, HoldingIsFinite, FS_Union
    <2>11. Cardinality({}) = 0 /\ Cardinality(Holding(tabs, o)) \in Nat
      BY FS_EmptySet, HoldingIsFinite
    <2> QED
      BY <1>4, <2>7, <2>8, <2>10, <2>11
  <1>11. CountsOk(tabs', refs', scriptHas')
    <2>1. CountsOk(tabs, refs, scriptHas)
      BY DEF TablesInv
    <2>2. refs' \in [Elems -> Int] /\ scriptHas' \subseteq Elems
      BY <1>1, <1>4, <2>1 DEF CountsOk
    <2>3. ASSUME NEW o \in Elems
          PROVE  refs'[o] = Cardinality(Holding(tabs', o)) + (IF o \in scriptHas THEN 1 ELSE 0)
      <3>1. refs[o] = Cardinality(Holding(tabs, o)) + (IF o \in scriptHas THEN 1 ELSE 0)
            /\ Cardinality(Holding(tabs, o)) \in Nat
        BY <2>1, HoldingIsFinite DEF CountsOk
      <3>2. refs'[o] = IF o = fill THEN refs[o] + delta ELSE refs[o]
        BY <1>1
      <3>3. CASE o = fill
        BY <1>4, <1>10, <3>1, <3>2, <3>3
      <3>4. CASE o # fill
        BY <1>9, <3>1, <3>2, <3>4
      <3> QED
        BY <3>3, <3>4
    <2> QED
      BY <1>1, <2>2, <2>3 DEF CountsOk
  <1>12. GrowingOk(tabs', growing')
    BY <1>2, <1>7, <1>8, GrowingStays
  <1> QED
    BY <1>8, <1>11, <1>12 DEF TablesInv

LEMMA TableFinalizerKeeps == ASSUME TablesInv, NEW x \in Tables, TableFinalizer(x) PROVE TablesInv'
  <1> DEFINE r == [NoTable EXCEPT !.life = "gone"]
  <1>1. /\ tabs[x].life = "live" /\ \A j \in 1 .. Len(growing) : growing[j].tab # x
        /\ refs' = [o \in Elems |-> refs[o] - Cardinality(SlotsOf(tabs[x].slots, o))]
        /\ tabs' = [tabs EXCEPT ![x] = r] /\ UNCHANGED <<scriptHas, growing>>
    BY DEF TableFinalizer, Live
  <1>2. r \in TabRecs /\ r.life = "gone" /\ Len(r.slots) = 0
    <2>1. r = [life |-> "gone", slots |-> << >>, max |-> 0]
      BY DEF NoTable
    <2> HIDE DEF r
    <2> QED
      BY <2>1 DEF TabRecs
  <1> HIDE DEF r
  <1>3. TabsOk(tabs) /\ TabsOk(tabs') /\ tabs'[x] = r /\ \A y \in Tables : y # x => tabs'[y] = tabs[y]
    <2>1. TabsOk(tabs) /\ Len(r.slots) <= MaxSlots
      BY <1>2, TablesAssumption DEF TablesInv
    <2>2. /\ TabsOk([tabs EXCEPT ![x] = r]) /\ [tabs EXCEPT ![x] = r][x] = r
          /\ \A y \in Tables : y # x => [tabs EXCEPT ![x] = r][y] = tabs[y]
      BY <1>2, <2>1, TabsAfter
    <2> QED
      BY <1>1, <2>1, <2>2
  <1>4. ASSUME NEW o \in Elems
        PROVE  /\ Cardinality(Holding(tabs', o)) = Cardinality(Holding(tabs, o)) - Cardinality(SlotsOf(tabs[x].slots, o))
               /\ Cardinality(SlotsOf(tabs[x].slots, o)) \in Nat
    <2> DEFINE js == SlotsOf(tabs[x].slots, o)
               gone == {x} \X js
    <2>1. \A j : <<x, j>> \in Holding(tabs, o) <=> j \in js
      BY <1>1, <1>3, HoldingIs DEF SlotsOf
    <2>2. \A j : <<x, j>> \notin Holding(tabs', o)
      BY <1>2, <1>3, HoldingIs
    <2>3. \A y \in Tables : \A j : y # x => (<<y, j>> \in Holding(tabs', o) <=> <<y, j>> \in Holding(tabs, o))
      BY <1>3, HoldingIs
    <2>4. \A q : q \in gone <=> \E j \in js : q = <<x, j>>
      OBVIOUS
    <2>5. IsFiniteSet(js)
      <3>1. js \in SUBSET (1 .. Len(tabs[x].slots)) /\ Len(tabs[x].slots) \in Int
        BY <1>3, TabFields DEF SlotsOf
      <3>2. IsFiniteSet(1 .. Len(tabs[x].slots))
        BY <3>1, FS_Interval
      <3> QED
        BY <3>1, <3>2, FS_Subset, Zenon
    <2>6. IsFiniteSet(gone) /\ Cardinality(gone) = Cardinality(js) /\ Cardinality(js) \in Nat
      <3>1. IsFiniteSet({x}) /\ Cardinality({x}) = 1
        BY FS_Singleton
      <3>2. IsFiniteSet(gone) /\ Cardinality(gone) = Cardinality({x}) * Cardinality(js)
        BY <2>5, <3>1, FS_Product, Zenon
      <3>3. Cardinality(js) \in Nat
        BY <2>5, FS_CardinalityType, Zenon
      <3> QED
        BY <3>1, <3>2, <3>3
    <2> HIDE DEF js, gone
    <2>7. Holding(tabs', o) = Holding(tabs, o) \ gone
      <3>1. \A q \in Holding(tabs', o) : q \in Holding(tabs, o) /\ q \notin gone
        <4> SUFFICES ASSUME NEW q \in Holding(tabs', o) PROVE q \in Holding(tabs, o) /\ q \notin gone
          OBVIOUS
        <4>1. q[1] \in Tables /\ q = <<q[1], q[2]>>
          BY HoldingPairs
        <4>2. q[1] # x
          BY <2>2, <4>1
        <4>3. q \notin gone
          BY <2>2, <2>4
        <4> QED
          BY <2>3, <4>1, <4>2, <4>3
      <3>2. \A q \in Holding(tabs, o) : q \notin gone => q \in Holding(tabs', o)
        <4> SUFFICES ASSUME NEW q \in Holding(tabs, o), q \notin gone PROVE q \in Holding(tabs', o)
          OBVIOUS
        <4>1. q[1] \in Tables /\ q = <<q[1], q[2]>>
          BY HoldingPairs
        <4>2. q[1] # x
          BY <2>1, <2>4, <4>1
        <4> QED
          BY <2>3, <4>1, <4>2
      <3> QED
        BY <3>1, <3>2
    <2>8. Holding(tabs, o) \cap gone = gone
      BY <2>1, <2>4
    <2>9. Cardinality(Holding(tabs, o) \ gone) = Cardinality(Holding(tabs, o)) - Cardinality(Holding(tabs, o) \cap gone)
      BY HoldingIsFinite, FS_Difference, Zenon
    <2> QED
      BY <2>6, <2>7, <2>8, <2>9 DEF js
  <1>5. CountsOk(tabs', refs', scriptHas')
    <2>1. CountsOk(tabs, refs, scriptHas)
      BY DEF TablesInv
    <2>2. refs' \in [Elems -> Int]
      BY <1>1, <1>4, <2>1 DEF CountsOk
    <2>3. ASSUME NEW o \in Elems
          PROVE  refs'[o] = Cardinality(Holding(tabs', o)) + (IF o \in scriptHas THEN 1 ELSE 0)
      <3>1. refs[o] = Cardinality(Holding(tabs, o)) + (IF o \in scriptHas THEN 1 ELSE 0)
            /\ Cardinality(Holding(tabs, o)) \in Nat
        BY <2>1, HoldingIsFinite DEF CountsOk
      <3>2. refs'[o] = refs[o] - Cardinality(SlotsOf(tabs[x].slots, o))
        BY <1>1
      <3> QED
        BY <1>4, <3>1, <3>2
    <2> QED
      BY <1>1, <2>1, <2>2, <2>3 DEF CountsOk
  <1>6. GrowingOk(tabs', growing')
    <2> SUFFICES ASSUME NEW j \in 1 .. Len(growing) PROVE tabs'[growing[j].tab].life = "live"
      BY <1>1 DEF GrowingOk, TablesInv
    <2>1. growing \in Seq(GrowRecs) /\ tabs[growing[j].tab].life = "live"
      BY DEF TablesInv, GrowingOk
    <2>2. growing[j] \in GrowRecs
      BY <2>1, ElementOfSeq
    <2>3. growing[j].tab \in Tables /\ growing[j].tab # x
      BY <1>1, <2>2 DEF GrowRecs
    <2> QED
      BY <1>3, <2>1, <2>3
  <1> QED
    BY <1>3, <1>5, <1>6 DEF TablesInv

LEMMA TablesKept == TablesInv /\ [TablesNext]_tabVars => TablesInv'
  <1> SUFFICES ASSUME TablesInv, [TablesNext]_tabVars PROVE TablesInv'
    OBVIOUS
  <1>1. ASSUME NEW x \in Tables, NEW n \in 0 .. 2, NEW m \in {0, 2}, NewTable(x, n, m) PROVE TablesInv'
    BY <1>1, NewTableKeeps
  <1>2. ASSUME NEW x \in Tables, NEW j \in 1 .. MaxSlots, TableGet(x, j) PROVE TablesInv'
    BY <1>2, TableGetKeeps
  <1>3. ASSUME NEW x \in Tables, NEW j \in 1 .. MaxSlots, NEW v \in Elems \cup {Null}, TableSet(x, j, v) PROVE TablesInv'
    BY <1>3, TableSetKeeps
  <1>4. ASSUME NEW x \in Tables, TableGrowCalled(x) \/ TableFinalizer(x) PROVE TablesInv'
    BY <1>4, TableGrowCalledKeeps, TableFinalizerKeeps
  <1>5. ASSUME NEW n \in 0 .. 2, NEW v \in Elems \cup {Null}, TableGrow(n, v) PROVE TablesInv'
    BY <1>5, TableGrowKeeps
  <1>6. ASSUME TableGrowThrows PROVE TablesInv'
    BY <1>6, TableGrowThrowsKeeps
  <1>7. ASSUME NEW o \in Elems, ScriptDrops(o) PROVE TablesInv'
    BY <1>7, ScriptDropsKeeps
  <1>8. ASSUME UNCHANGED tabVars PROVE TablesInv'
    BY <1>8 DEF tabVars, TablesInv
  <1> QED
    BY <1>1, <1>2, <1>3, <1>4, <1>5, <1>6, <1>7, <1>8 DEF TablesNext

LEMMA TablesSound == TablesInv => TablesTypeOK /\ SlotsAreCounted
  <1> SUFFICES ASSUME TablesInv PROVE TablesTypeOK /\ SlotsAreCounted
    OBVIOUS
  <1>1. TablesTypeOK
    BY DEF TablesInv, TabsOk, CountsOk, TablesTypeOK, Length
  <1>2. SlotsAreCounted
    <2> SUFFICES ASSUME NEW o \in Elems
                 PROVE  refs[o] = Cardinality({p \in Tables \X (1 .. MaxSlots) :
                                                  Live(p[1]) /\ p[2] \in SlotsOf(tabs[p[1]].slots, o)})
                                  + (IF o \in scriptHas THEN 1 ELSE 0)
      BY Zenon DEF SlotsAreCounted
    <2>1. refs[o] = Cardinality(Holding(tabs, o)) + (IF o \in scriptHas THEN 1 ELSE 0)
      BY DEF TablesInv, CountsOk
    <2> QED
      BY <2>1, Zenon DEF Holding, Places, Live
  <1> QED
    BY <1>1, <1>2

-----------------------------------------------------------------------------
(* Compression streams *)

ZSpec == ZInit /\ [][ZNext]_zVars

ZRecs == [kind : ZKinds, inited : BOOLEAN, ended : Nat, freed : Nat]
ZObjs == [kind : ZKinds \cup {"none", "gone"}, opaque : Nat]

(* A context that is not freed was not ended either. *)
ContextIsOk(m) ==
    /\ m \in ZRecs /\ m.freed <= 1 /\ m.ended <= m.freed /\ (m.freed = 1 => ~m.inited)

(* An object leads to a context of its class that is not freed, or to none. *)
LeadsWell(o, mem) ==
    o.opaque # 0 => /\ o.kind \in ZKinds /\ o.opaque \in DOMAIN mem
                    /\ mem[o.opaque].kind = o.kind /\ mem[o.opaque].freed = 0

ContextsOk(mem) == mem \in Seq(ZRecs) /\ \A c \in 1 .. Len(mem) : ContextIsOk(mem[c])

LedTo(obj, mem) ==
    /\ obj \in [ZHandles -> ZObjs] /\ \A h \in ZHandles : LeadsWell(obj[h], mem)
    /\ \A h, g \in ZHandles : obj[h].opaque = obj[g].opaque /\ obj[h].opaque # 0 => h = g
    /\ \A c \in 1 .. Len(mem) : mem[c].freed = 0 => \E h \in ZHandles : obj[h].opaque = c

ZStateOk(obj, mem) == ContextsOk(mem) /\ LedTo(obj, mem)
ZInv == ZStateOk(zobj, zmem) /\ zused = {}

LEMMA ZStart == ZInit => ZInv
  <1> SUFFICES ASSUME ZInit PROVE ZInv
    OBVIOUS
  <1>1. zmem = << >> /\ zmem \in Seq(ZRecs) /\ Len(zmem) = 0 /\ zobj \in [ZHandles -> ZObjs]
    BY DEF ZInit, ZObjs
  <1>2. \A h \in ZHandles : zobj[h].opaque = 0
    <2> SUFFICES ASSUME NEW h \in ZHandles PROVE zobj[h].opaque = 0
      BY Zenon
    <2>1. zobj[h] = [kind |-> "none", opaque |-> 0]
      BY Zenon DEF ZInit
    <2> QED
      BY <2>1
  <1> QED
    BY <1>1, <1>2 DEF ZInv, ZStateOk, ContextsOk, LedTo, LeadsWell, ZInit

LEMMA ReleasedIs ==
    ASSUME NEW m, ContextIsOk(m), m.freed = 0
    PROVE  ContextIsOk(Released(m)) /\ Released(m).freed = 1 /\ Released(m).kind = m.kind
  <1>1. m \in ZRecs /\ m.ended = 0
    BY DEF ContextIsOk, ZRecs
  <1> DEFINE e == m.ended + (IF m.inited THEN 1 ELSE 0)
             r == [m EXCEPT !.ended = e, !.inited = FALSE, !.freed = 1]
  <1>2. e \in {0, 1}
    BY <1>1
  <1>3. Released(m) = r
    BY <1>1 DEF Released
  <1> HIDE DEF e
  <1>4. r \in ZRecs /\ r.freed = 1 /\ r.ended = e /\ r.inited = FALSE /\ r.kind = m.kind
    <2> DEFINE r1 == [m EXCEPT !.ended = e]
               r2 == [r1 EXCEPT !.inited = FALSE]
    <2>1. e \in Nat
      BY <1>2
    <2>2. r1 \in ZRecs /\ r1.ended = e /\ r1.kind = m.kind
      BY <1>1, <2>1 DEF ZRecs
    <2>3. r = [r2 EXCEPT !.freed = 1]
      OBVIOUS
    <2> HIDE DEF r1, r
    <2>4. r2 \in ZRecs /\ r2.ended = e /\ r2.kind = m.kind /\ r2.inited = FALSE
      BY <2>2 DEF ZRecs
    <2> HIDE DEF r2
    <2> QED
      BY <2>3, <2>4 DEF ZRecs
  <1> HIDE DEF r
  <1> QED
    BY <1>2, <1>3, <1>4 DEF ContextIsOk

(* The context of an object is released and the object leads nowhere. *)
LEMMA LetsGo ==
    ASSUME NEW obj, NEW mem, ZStateOk(obj, mem), NEW h \in ZHandles, obj[h].opaque # 0,
           NEW k \in ZKinds \cup {"none", "gone"}
    PROVE  ZStateOk([obj EXCEPT ![h] = [kind |-> k, opaque |-> 0]],
                    [mem EXCEPT ![obj[h].opaque] = Released(mem[obj[h].opaque])])
  <1> DEFINE c == obj[h].opaque
             newMem == [mem EXCEPT ![c] = Released(mem[c])]
             newObj == [obj EXCEPT ![h] = [kind |-> k, opaque |-> 0]]
  <1>1. /\ mem \in Seq(ZRecs) /\ c \in 1 .. Len(mem) /\ mem[c].freed = 0 /\ ContextIsOk(mem[c])
        /\ obj \in [ZHandles -> ZObjs]
    BY DEF ZStateOk, ContextsOk, LedTo, LeadsWell
  <1> DEFINE new == Released(mem[c])
  <1>2. ContextIsOk(new) /\ new.freed = 1 /\ new \in ZRecs
    BY <1>1, ReleasedIs DEF ContextIsOk
  <1>3. newMem = [mem EXCEPT ![c] = new]
    OBVIOUS
  <1>c. c = obj[h].opaque
    OBVIOUS
  <1> HIDE DEF new, newMem, c
  <1>4. newMem \in Seq(ZRecs) /\ Len(newMem) = Len(mem)
    BY <1>1, <1>2, <1>3
  <1>5. \A d \in 1 .. Len(mem) : newMem[d] = IF d = c THEN new ELSE mem[d]
    BY <1>1, <1>3
  <1>6. newObj \in [ZHandles -> ZObjs] /\ newObj[h].opaque = 0 /\ \A g \in ZHandles : g # h => newObj[g] = obj[g]
    BY <1>1 DEF ZObjs
  <1> HIDE DEF newObj
  <1>7. ContextsOk(newMem)
    BY <1>2, <1>4, <1>5 DEF ZStateOk, ContextsOk
  <1>8. ASSUME NEW g \in ZHandles PROVE LeadsWell(newObj[g], newMem)
    <2>1. CASE g = h
      BY <1>6, <2>1 DEF LeadsWell
    <2>2. CASE g # h
      <3>1. newObj[g] = obj[g] /\ LeadsWell(obj[g], mem)
        BY <1>6, <2>2 DEF ZStateOk, LedTo
      <3>2. obj[g].opaque # 0 => obj[g].opaque # c
        BY <1>c, <2>2 DEF ZStateOk, LedTo
      <3>3. DOMAIN mem = 1 .. Len(mem) /\ DOMAIN newMem = 1 .. Len(mem)
        BY <1>1, <1>4
      <3> QED
        BY <1>5, <3>1, <3>2, <3>3 DEF LeadsWell
    <2> QED
      BY <2>1, <2>2
  <1>9. ASSUME NEW f \in ZHandles, NEW g \in ZHandles, newObj[f].opaque = newObj[g].opaque, newObj[f].opaque # 0
        PROVE  f = g
    <2>1. newObj[f] = obj[f] /\ newObj[g] = obj[g]
      BY <1>6, <1>9
    <2> QED
      BY <1>9, <2>1 DEF ZStateOk, LedTo
  <1>10. ASSUME NEW d \in 1 .. Len(mem), newMem[d].freed = 0 PROVE \E g \in ZHandles : newObj[g].opaque = d
    <2>1. d # c /\ mem[d].freed = 0
      BY <1>2, <1>5, <1>10
    <2>2. PICK g \in ZHandles : obj[g].opaque = d
      BY <2>1 DEF ZStateOk, LedTo
    <2>3. g # h
      BY <1>c, <2>1, <2>2
    <2> QED
      BY <1>6, <2>2, <2>3
  <1>11. LedTo(newObj, newMem)
    BY <1>4, <1>6, <1>8, <1>9, <1>10 DEF LedTo
  <1>12. ZStateOk(newObj, newMem)
    BY <1>7, <1>11 DEF ZStateOk
  <1> QED
    BY <1>3, <1>12 DEF newObj, newMem, c, new

(* A context is allocated, for an object or, where the creation fails, freed. *)
LEMMA OneMoreContext ==
    ASSUME NEW mem, ContextsOk(mem), NEW m, ContextIsOk(m)
    PROVE  /\ ContextsOk(Append(mem, m)) /\ Len(Append(mem, m)) = Len(mem) + 1
           /\ Append(mem, m)[Len(mem) + 1] = m
           /\ \A c \in 1 .. Len(mem) : Append(mem, m)[c] = mem[c]
           /\ DOMAIN mem = 1 .. Len(mem) /\ DOMAIN Append(mem, m) = 1 .. Len(mem) + 1 /\ Len(mem) \in Nat
  <1>1. mem \in Seq(ZRecs) /\ m \in ZRecs
    BY DEF ContextsOk, ContextIsOk
  <1>2. /\ Append(mem, m) \in Seq(ZRecs) /\ Len(Append(mem, m)) = Len(mem) + 1
        /\ Append(mem, m)[Len(mem) + 1] = m
        /\ \A c \in 1 .. Len(mem) : Append(mem, m)[c] = mem[c]
        /\ Len(mem) \in Nat /\ DOMAIN mem = 1 .. Len(mem) /\ DOMAIN Append(mem, m) = 1 .. Len(mem) + 1
    BY <1>1, AppendProperties
  <1> QED
    BY <1>2 DEF ContextsOk

LEMMA ZCreateKeeps == ASSUME ZInv, NEW h \in ZHandles, NEW kind \in ZKinds, ZCreate(h, kind) PROVE ZInv'
  <1> DEFINE m == Fresh(kind, TRUE, 0, 0)
             n == Len(zmem) + 1
  <1>1. ContextIsOk(m) /\ m.kind = kind /\ m.freed = 0
    BY DEF ContextIsOk, Fresh, ZRecs
  <1>2. /\ zmem' = Append(zmem, m) /\ zused' = zused /\ zobj[h].kind = "none"
        /\ zobj' = [zobj EXCEPT ![h] = [kind |-> kind, opaque |-> Len(zmem')]]
    BY DEF ZCreate
  <1> HIDE DEF m
  <1>3. /\ ContextsOk(zmem') /\ Len(zmem') = n /\ zmem'[n] = m
        /\ \A c \in 1 .. Len(zmem) : zmem'[c] = zmem[c]
        /\ DOMAIN zmem = 1 .. Len(zmem) /\ DOMAIN zmem' = 1 .. n /\ Len(zmem) \in Nat
    BY <1>1, <1>2, OneMoreContext DEF ZInv, ZStateOk
  <1>4. n \in Nat /\ n # 0 /\ n \notin 1 .. Len(zmem) /\ \A c \in 1 .. n : c = n \/ c \in 1 .. Len(zmem)
    BY <1>3
  <1> HIDE DEF n
  <1>5. LedTo(zobj, zmem)
    BY DEF ZInv, ZStateOk
  <1>6. /\ zobj' \in [ZHandles -> ZObjs] /\ zobj'[h].opaque = n /\ zobj'[h].kind = kind
        /\ \A g \in ZHandles : g # h => zobj'[g] = zobj[g]
    BY <1>2, <1>3, <1>4, <1>5 DEF LedTo, ZObjs
  <1>7. zobj[h].opaque = 0
    BY <1>2, <1>5 DEF LedTo, LeadsWell, ZKinds
  <1>8. ASSUME NEW g \in ZHandles PROVE LeadsWell(zobj'[g], zmem')
    <2>1. CASE g = h
      BY <1>1, <1>3, <1>4, <1>6, <2>1 DEF LeadsWell
    <2>2. CASE g # h
      <3>1. zobj'[g] = zobj[g] /\ LeadsWell(zobj[g], zmem)
        BY <1>5, <1>6, <2>2 DEF LedTo
      <3>2. \A c \in 1 .. Len(zmem) : c \in 1 .. n
        BY <1>3 DEF n
      <3> QED
        BY <1>3, <3>1, <3>2 DEF LeadsWell
    <2> QED
      BY <2>1, <2>2
  <1>9. \A g \in ZHandles : g # h => zobj'[g].opaque # n
    <2> SUFFICES ASSUME NEW g \in ZHandles, g # h PROVE zobj'[g].opaque # n
      OBVIOUS
    <2>1. zobj'[g] = zobj[g] /\ LeadsWell(zobj[g], zmem)
      BY <1>5, <1>6 DEF LedTo
    <2> QED
      BY <1>3, <1>4, <2>1 DEF LeadsWell
  <1>10. \A f, g \in ZHandles : zobj'[f].opaque = zobj'[g].opaque /\ zobj'[f].opaque # 0 => f = g
    BY <1>5, <1>6, <1>9 DEF LedTo
  <1>11. ASSUME NEW c \in 1 .. n, zmem'[c].freed = 0 PROVE \E g \in ZHandles : zobj'[g].opaque = c
    <2>1. CASE c = n
      BY <1>6, <2>1
    <2>2. CASE c # n
      <3>1. c \in 1 .. Len(zmem) /\ zmem[c].freed = 0
        BY <1>3, <1>4, <1>11, <2>2
      <3>2. PICK g \in ZHandles : zobj[g].opaque = c
        BY <1>5, <3>1 DEF LedTo
      <3>3. g # h
        BY <1>3, <1>7, <3>1, <3>2
      <3> QED
        BY <1>6, <3>2, <3>3
    <2> QED
      BY <2>1, <2>2
  <1>12. LedTo(zobj', zmem')
    BY <1>3, <1>6, <1>8, <1>10, <1>11 DEF LedTo
  <1> QED
    BY <1>2, <1>3, <1>12 DEF ZInv, ZStateOk

LEMMA ZCreateFailsKeeps ==
    ASSUME ZInv, NEW kind \in ZKinds, NEW inited \in BOOLEAN, ZCreateFails(kind, inited) PROVE ZInv'
  <1> DEFINE m == IF inited THEN Released(Fresh(kind, TRUE, 0, 0)) ELSE Fresh(kind, FALSE, 0, 1)
  <1>1. ContextIsOk(m) /\ m.freed = 1
    <2>1. ContextIsOk(Fresh(kind, TRUE, 0, 0)) /\ Fresh(kind, TRUE, 0, 0).freed = 0
      BY DEF ContextIsOk, Fresh, ZRecs
    <2>2. ContextIsOk(Fresh(kind, FALSE, 0, 1)) /\ Fresh(kind, FALSE, 0, 1).freed = 1
      BY DEF ContextIsOk, Fresh, ZRecs
    <2> QED
      BY <2>1, <2>2, ReleasedIs
  <1>2. zmem' = Append(zmem, m) /\ zused' = zused /\ zobj' = zobj
    BY DEF ZCreateFails
  <1> HIDE DEF m
  <1>3. /\ ContextsOk(zmem') /\ Len(zmem') = Len(zmem) + 1 /\ zmem'[Len(zmem) + 1] = m
        /\ \A c \in 1 .. Len(zmem) : zmem'[c] = zmem[c]
        /\ DOMAIN zmem = 1 .. Len(zmem) /\ DOMAIN zmem' = 1 .. Len(zmem) + 1 /\ Len(zmem) \in Nat
    BY <1>1, <1>2, OneMoreContext DEF ZInv, ZStateOk
  <1>4. LedTo(zobj, zmem)
    BY DEF ZInv, ZStateOk
  <1>5. ASSUME NEW g \in ZHandles PROVE LeadsWell(zobj[g], zmem')
    BY <1>3, <1>4 DEF LedTo, LeadsWell
  <1>6. ASSUME NEW c \in 1 .. Len(zmem'), zmem'[c].freed = 0 PROVE \E g \in ZHandles : zobj[g].opaque = c
    <2>1. c \in 1 .. Len(zmem)
      BY <1>1, <1>3, <1>6
    <2> QED
      BY <1>3, <1>4, <1>6, <2>1 DEF LedTo
  <1>7. LedTo(zobj', zmem')
    BY <1>2, <1>4, <1>5, <1>6 DEF LedTo
  <1> QED
    BY <1>2, <1>3, <1>7 DEF ZInv, ZStateOk

LEMMA ZPushKeeps == ASSUME ZInv, NEW h \in ZHandles, NEW kind \in ZKinds, ZPush(h, kind) PROVE ZInv'
  <1> DEFINE c == GetHandle(h, kind)
  <1>1. c # 0 /\ zused' = (IF zmem[c].freed > 0 \/ zmem[c].kind # kind THEN zused \cup {c} ELSE zused)
        /\ zobj' = zobj /\ zmem' = zmem
    BY DEF ZPush
  <1>2. c = zobj[h].opaque /\ zobj[h].kind = kind
    BY <1>1 DEF GetHandle, Opaque
  <1>3. zmem[c].freed = 0 /\ zmem[c].kind = kind
    BY <1>1, <1>2 DEF ZInv, ZStateOk, LedTo, LeadsWell
  <1> HIDE DEF c
  <1>4. zused' = zused
    BY <1>1, <1>3
  <1> QED
    BY <1>1, <1>4 DEF ZInv

LEMMA ZFreeKeeps == ASSUME ZInv, NEW h \in ZHandles, NEW kind \in ZKinds, ZFree(h, kind) PROVE ZInv'
  <1>1. zobj[h].opaque # 0 /\ Opaque(h, kind) = zobj[h].opaque
    BY DEF ZFree, Opaque
  <1>2. zobj \in [ZHandles -> ZObjs]
    BY DEF ZInv, ZStateOk, LedTo
  <1>3. zobj' = [zobj EXCEPT ![h] = [kind |-> zobj[h].kind, opaque |-> 0]] /\ zobj[h].kind \in ZKinds \cup {"none", "gone"}
    <2>1. zobj[h] \in ZObjs
      BY <1>2
    <2>2. [zobj[h] EXCEPT !.opaque = 0] = [kind |-> zobj[h].kind, opaque |-> 0] /\ zobj[h].kind \in ZKinds \cup {"none", "gone"}
      BY <2>1 DEF ZObjs
    <2>3. zobj' = [zobj EXCEPT ![h] = [zobj[h] EXCEPT !.opaque = 0]]
      BY Zenon DEF ZFree
    <2> QED
      BY <2>2, <2>3
  <1>4. zmem' = [zmem EXCEPT ![zobj[h].opaque] = Released(zmem[zobj[h].opaque])] /\ zused' = zused
    BY <1>1 DEF ZFree
  <1> QED
    BY <1>1, <1>3, <1>4, LetsGo DEF ZInv

LEMMA ZFinalizeKeeps == ASSUME ZInv, NEW h \in ZHandles, ZFinalize(h) PROVE ZInv'
  <1>1. zobj' = [zobj EXCEPT ![h] = [kind |-> "gone", opaque |-> 0]] /\ zused' = zused
    BY DEF ZFinalize
  <1>2. CASE zobj[h].opaque # 0
    <2>1. zmem' = [zmem EXCEPT ![zobj[h].opaque] = Released(zmem[zobj[h].opaque])]
      BY <1>2 DEF ZFinalize
    <2> QED
      BY <1>1, <1>2, <2>1, LetsGo DEF ZInv
  <1>3. CASE zobj[h].opaque = 0
    <2>1. zmem' = zmem
      BY <1>3 DEF ZFinalize
    <2>2. LedTo(zobj, zmem) /\ ContextsOk(zmem)
      BY DEF ZInv, ZStateOk
    <2>3. zobj' \in [ZHandles -> ZObjs] /\ zobj'[h].opaque = 0 /\ \A g \in ZHandles : g # h => zobj'[g] = zobj[g]
      BY <1>1, <2>2 DEF LedTo, ZObjs
    <2>4. \A g \in ZHandles : LeadsWell(zobj'[g], zmem) /\ zobj'[g].opaque = zobj[g].opaque
      BY <1>3, <2>2, <2>3 DEF LedTo, LeadsWell
    <2>5. LedTo(zobj', zmem)
      BY <2>2, <2>3, <2>4 DEF LedTo
    <2> QED
      BY <1>1, <2>1, <2>2, <2>5 DEF ZInv, ZStateOk
  <1> QED
    BY <1>2, <1>3

LEMMA ZKept == ZInv /\ [ZNext]_zVars => ZInv'
  <1> SUFFICES ASSUME ZInv, [ZNext]_zVars PROVE ZInv'
    OBVIOUS
  <1>1. ASSUME NEW h \in ZHandles, NEW kind \in ZKinds, ZCreate(h, kind) \/ ZPush(h, kind) \/ ZFree(h, kind) PROVE ZInv'
    BY <1>1, ZCreateKeeps, ZPushKeeps, ZFreeKeeps
  <1>2. ASSUME NEW kind \in ZKinds, NEW inited \in BOOLEAN, ZCreateFails(kind, inited) PROVE ZInv'
    BY <1>2, ZCreateFailsKeeps
  <1>3. ASSUME NEW h \in ZHandles, ZFinalize(h) PROVE ZInv'
    BY <1>3, ZFinalizeKeeps
  <1>4. ASSUME UNCHANGED zVars PROVE ZInv'
    BY <1>4 DEF zVars, ZInv
  <1> QED
    BY <1>1, <1>2, <1>3, <1>4 DEF ZNext

LEMMA ZSound == ZInv => StreamEndsOnce
  <1> SUFFICES ASSUME ZInv PROVE StreamEndsOnce
    OBVIOUS
  <1>1. ContextsOk(zmem) /\ LedTo(zobj, zmem) /\ DOMAIN zmem = 1 .. Len(zmem)
    BY DEF ZInv, ZStateOk, ContextsOk
  <1> SUFFICES ASSUME NEW c \in 1 .. Len(zmem)
               PROVE  /\ zmem[c].freed <= 1 /\ zmem[c].ended <= zmem[c].freed
                      /\ zmem[c].freed = 1 => ~zmem[c].inited
                      /\ zmem[c].freed = 0 <=> \E h \in ZHandles : zobj[h].opaque = c
    BY <1>1 DEF StreamEndsOnce, ZInv
  <1>2. ContextIsOk(zmem[c])
    BY <1>1 DEF ContextsOk
  <1>3. ASSUME NEW h \in ZHandles, zobj[h].opaque = c PROVE zmem[c].freed = 0
    <2>1. LeadsWell(zobj[h], zmem) /\ c # 0
      BY <1>1 DEF LedTo
    <2> QED
      BY <1>3, <2>1 DEF LeadsWell
  <1>4. zmem[c].freed = 0 => \E h \in ZHandles : zobj[h].opaque = c
    BY <1>1 DEF LedTo
  <1> QED
    BY <1>2, <1>3, <1>4 DEF ContextIsOk

-----------------------------------------------------------------------------
(* Native crypto calls *)

CryptoSpec == CryptoInit /\ [][CryptoNext]_cryptoVars

Resources == {"name", "out", "cipher", "kw", "ec", "pk", "pub", "pk1", "priv"}

(* What the returns of a function may leave behind *)
LeftBy(fn) == CASE fn = "aes" -> {"name"} [] fn = "ecGenerate" -> {"out"} [] OTHER -> {}

(* A step of a function, from what is held before it to what is held after it *)
Does(s, now, next, kept) ==
    /\ next \subseteq Resources
    /\ \/ s.kind \in {"get", "check"} /\ s.undo \subseteq now /\ now \ s.undo \subseteq kept /\ next = now \cup s.what
       \/ s.kind = "init" /\ next = now \cup s.what
       \/ s.kind = "drop" /\ s.what \subseteq now /\ next = now \ s.what
       \/ s.kind = "rng" /\ now \subseteq kept /\ next = now

(* h[k] is held before step k: a function begins and ends with nothing. *)
Follows(steps, h, kept) ==
    /\ Len(steps) \in Nat \ {0} /\ h[1] = {} /\ h[Len(steps) + 1] = {}
    /\ \A k \in 1 .. Len(steps) : Does(steps[k], h[k], h[k + 1], kept)

LEMMA DigestAddsUp == \E h : Follows(DigestSteps, h, {})
  <1> DEFINE h == <<{}, {"name"}, {"name"}, {"name"}, {}, {}, {"out"}, {"out"}, {}>>
  <1>1. Len(DigestSteps) = 8 /\ h[1] = {} /\ h[9] = {}
    BY DEF DigestSteps, HashName, Computed
  <1>2. \A k \in 1 .. 5 : Does(DigestSteps[k], h[k], h[k + 1], {})
    BY DEF Does, Resources, Get, Check, Initialise, GiveUp, Rng, DigestSteps, HashName, Computed
  <1>3. \A k \in 6 .. 8 : Does(DigestSteps[k], h[k], h[k + 1], {})
    BY DEF Does, Resources, Get, Check, Initialise, GiveUp, Rng, DigestSteps, HashName, Computed
  <1>4. \A k \in 1 .. 8 : k \in 1 .. 5 \/ k \in 6 .. 8
    OBVIOUS
  <1> HIDE DEF h
  <1> QED
    BY <1>1, <1>2, <1>3, <1>4 DEF Follows

LEMMA HmacAddsUp == \E h : Follows(HmacSteps, h, {})
  <1> DEFINE h == <<{}, {"name"}, {"name"}, {"name"}, {"name"}, {}, {}, {"out"}, {"out"}, {}>>
  <1>1. Len(HmacSteps) = 9 /\ h[1] = {} /\ h[10] = {}
    BY DEF HmacSteps, HashName, Computed
  <1>2. \A k \in 1 .. 5 : Does(HmacSteps[k], h[k], h[k + 1], {})
    BY DEF Does, Resources, Get, Check, Initialise, GiveUp, Rng, HmacSteps, HashName, Computed
  <1>3. \A k \in 6 .. 9 : Does(HmacSteps[k], h[k], h[k + 1], {})
    BY DEF Does, Resources, Get, Check, Initialise, GiveUp, Rng, HmacSteps, HashName, Computed
  <1>4. \A k \in 1 .. 9 : k \in 1 .. 5 \/ k \in 6 .. 9
    OBVIOUS
  <1> HIDE DEF h
  <1> QED
    BY <1>1, <1>2, <1>3, <1>4 DEF Follows

LEMMA Pbkdf2AddsUp == \E h : Follows(Pbkdf2Steps, h, {})
  <1> DEFINE h == <<{}, {}, {}, {}, {"name"}, {"name"}, {"name"}, {}, {}, {"out"}, {"out"}, {}>>
  <1>1. Len(Pbkdf2Steps) = 11 /\ h[1] = {} /\ h[12] = {}
    BY DEF Pbkdf2Steps, HashName, Computed
  <1>2. \A k \in 1 .. 5 : Does(Pbkdf2Steps[k], h[k], h[k + 1], {})
    BY DEF Does, Resources, Get, Check, Initialise, GiveUp, Rng, Pbkdf2Steps, HashName, Computed
  <1>3. \A k \in 6 .. 10 : Does(Pbkdf2Steps[k], h[k], h[k + 1], {})
    BY DEF Does, Resources, Get, Check, Initialise, GiveUp, Rng, Pbkdf2Steps, HashName, Computed
  <1>4. Does(Pbkdf2Steps[11], h[11], h[12], {})
    BY DEF Does, Resources, Get, Check, Initialise, GiveUp, Rng, Pbkdf2Steps, HashName, Computed
  <1>5. \A k \in 1 .. 11 : k \in 1 .. 5 \/ k \in 6 .. 10 \/ k = 11
    OBVIOUS
  <1> HIDE DEF h
  <1> QED
    BY <1>1, <1>2, <1>3, <1>4, <1>5 DEF Follows

LEMMA HkdfAddsUp == \E h : Follows(HkdfSteps, h, {})
  <1> DEFINE h == <<{}, {"name"}, {"name"}, {}, {}, {}, {}, {"out"}, {"out"}, {}>>
  <1>1. Len(HkdfSteps) = 9 /\ h[1] = {} /\ h[10] = {}
    BY DEF HkdfSteps, Computed
  <1>2. \A k \in 1 .. 5 : Does(HkdfSteps[k], h[k], h[k + 1], {})
    BY DEF Does, Resources, Get, Check, Initialise, GiveUp, Rng, HkdfSteps, Computed
  <1>3. \A k \in 6 .. 9 : Does(HkdfSteps[k], h[k], h[k + 1], {})
    BY DEF Does, Resources, Get, Check, Initialise, GiveUp, Rng, HkdfSteps, Computed
  <1>4. \A k \in 1 .. 9 : k \in 1 .. 5 \/ k \in 6 .. 9
    OBVIOUS
  <1> HIDE DEF h
  <1> QED
    BY <1>1, <1>2, <1>3, <1>4 DEF Follows

LEMMA AesAddsUp == \E h : Follows(AesSteps, h, {"name"})
  <1> DEFINE h == <<{}, {}, {}, {}, {"name"}, {"name"}, {"name"}, {"name"}, {}, {}, {"cipher"},
                    {"cipher"}, {"cipher"}, {"cipher"}, {"cipher", "out"}, {"cipher", "out"},
                    {"cipher", "out"}, {"out"}, {"out"}, {}>>
  <1>1. Len(AesSteps) = 19 /\ h[1] = {} /\ h[20] = {}
    BY DEF AesSteps
  <1>2. \A k \in 1 .. 5 : Does(AesSteps[k], h[k], h[k + 1], {"name"})
    BY DEF Does, Resources, Get, Check, Initialise, GiveUp, Rng, AesSteps
  <1>3. \A k \in 6 .. 10 : Does(AesSteps[k], h[k], h[k + 1], {"name"})
    BY DEF Does, Resources, Get, Check, Initialise, GiveUp, Rng, AesSteps
  <1>4. \A k \in 11 .. 15 : Does(AesSteps[k], h[k], h[k + 1], {"name"})
    BY DEF Does, Resources, Get, Check, Initialise, GiveUp, Rng, AesSteps
  <1>5. \A k \in 16 .. 19 : Does(AesSteps[k], h[k], h[k + 1], {"name"})
    BY DEF Does, Resources, Get, Check, Initialise, GiveUp, Rng, AesSteps
  <1>6. \A k \in 1 .. 19 : k \in 1 .. 5 \/ k \in 6 .. 10 \/ k \in 11 .. 15 \/ k \in 16 .. 19
    OBVIOUS
  <1> HIDE DEF h
  <1> QED
    BY <1>1, <1>2, <1>3, <1>4, <1>5, <1>6 DEF Follows

LEMMA AesKwAddsUp == \E h : Follows(AesKwSteps, h, {})
  <1> DEFINE h == <<{}, {}, {}, {}, {"kw"}, {"kw"}, {"kw", "out"}, {"out"}, {"out"}, {}>>
  <1>1. Len(AesKwSteps) = 9 /\ h[1] = {} /\ h[10] = {}
    BY DEF AesKwSteps
  <1>2. \A k \in 1 .. 5 : Does(AesKwSteps[k], h[k], h[k + 1], {})
    BY DEF Does, Resources, Get, Check, Initialise, GiveUp, Rng, AesKwSteps
  <1>3. \A k \in 6 .. 9 : Does(AesKwSteps[k], h[k], h[k + 1], {})
    BY DEF Does, Resources, Get, Check, Initialise, GiveUp, Rng, AesKwSteps
  <1>4. \A k \in 1 .. 9 : k \in 1 .. 5 \/ k \in 6 .. 9
    OBVIOUS
  <1> HIDE DEF h
  <1> QED
    BY <1>1, <1>2, <1>3, <1>4 DEF Follows

LEMMA EcGenerateAddsUp == \E h : Follows(EcGenerateSteps, h, {"out"})
  <1> DEFINE h == <<{}, {"name"}, {"name"}, {}, {}, {"ec"}, {"ec", "out"}, {"ec", "out"},
                    {"ec", "out"}, {"ec"}, {}>>
  <1>1. Len(EcGenerateSteps) = 10 /\ h[1] = {} /\ h[11] = {}
    BY DEF EcGenerateSteps, MatchedName
  <1>2. \A k \in 1 .. 3 : Does(EcGenerateSteps[k], h[k], h[k + 1], {"out"})
    BY DEF Does, Resources, Get, Check, Initialise, GiveUp, Rng, EcGenerateSteps, MatchedName
  <1>3. Does(EcGenerateSteps[4], h[4], h[5], {"out"})
    BY DEF Does, Resources, Get, Check, Initialise, GiveUp, Rng, EcGenerateSteps, MatchedName
  <1>4. \A k \in 5 .. 10 : Does(EcGenerateSteps[k], h[k], h[k + 1], {"out"})
    BY DEF Does, Resources, Get, Check, Initialise, GiveUp, Rng, EcGenerateSteps, MatchedName
  <1>5. \A k \in 1 .. 10 : k \in 1 .. 3 \/ k = 4 \/ k \in 5 .. 10
    OBVIOUS
  <1> HIDE DEF h
  <1> QED
    BY <1>1, <1>2, <1>3, <1>4, <1>5 DEF Follows

LEMMA EcdhAddsUp == \E h : Follows(EcdhSteps, h, {})
  <1> DEFINE h == <<{}, {"name"}, {"name"}, {}, {}, {}, {"ec"}, {"ec"}, {"ec"}, {"ec", "out"},
                    {"ec", "out"}, {"ec"}, {}>>
  <1>1. Len(EcdhSteps) = 12 /\ h[1] = {} /\ h[13] = {}
    BY DEF EcdhSteps, MatchedName
  <1>2. \A k \in 1 .. 4 : Does(EcdhSteps[k], h[k], h[k + 1], {})
    BY DEF Does, Resources, Get, Check, Initialise, GiveUp, Rng, EcdhSteps, MatchedName
  <1>3. Does(EcdhSteps[5], h[5], h[6], {})
    BY DEF Does, Resources, Get, Check, Initialise, GiveUp, Rng, EcdhSteps, MatchedName
  <1>4. \A k \in 6 .. 12 : Does(EcdhSteps[k], h[k], h[k + 1], {})
    BY DEF Does, Resources, Get, Check, Initialise, GiveUp, Rng, EcdhSteps, MatchedName
  <1>5. \A k \in 1 .. 12 : k \in 1 .. 4 \/ k = 5 \/ k \in 6 .. 12
    OBVIOUS
  <1> HIDE DEF h
  <1> QED
    BY <1>1, <1>2, <1>3, <1>4, <1>5 DEF Follows

LEMMA EcdsaSignAddsUp == \E h : Follows(EcdsaSignSteps, h, {})
  <1> DEFINE h == <<{}, {"name"}, {"name"}, {}, {"name"}, {}, {}, {}, {}, {"ec"}, {"ec"},
                    {"ec"}, {"ec"}, {"ec", "out"}, {"ec", "out"}, {"ec"}, {}>>
  <1>1. Len(EcdsaSignSteps) = 16 /\ h[1] = {} /\ h[17] = {}
    BY DEF EcdsaSignSteps, EcdsaFirst, MatchedName
  <1>2. \A k \in 1 .. 7 : Does(EcdsaSignSteps[k], h[k], h[k + 1], {})
    BY DEF Does, Resources, Get, Check, Initialise, GiveUp, Rng, EcdsaSignSteps, EcdsaFirst, MatchedName
  <1>3. Does(EcdsaSignSteps[8], h[8], h[9], {})
    BY DEF Does, Resources, Get, Check, Initialise, GiveUp, Rng, EcdsaSignSteps, EcdsaFirst, MatchedName
  <1>4. \A k \in 9 .. 13 : Does(EcdsaSignSteps[k], h[k], h[k + 1], {})
    BY DEF Does, Resources, Get, Check, Initialise, GiveUp, Rng, EcdsaSignSteps, EcdsaFirst, MatchedName
  <1>5. \A k \in 14 .. 16 : Does(EcdsaSignSteps[k], h[k], h[k + 1], {})
    BY DEF Does, Resources, Get, Check, Initialise, GiveUp, Rng, EcdsaSignSteps, EcdsaFirst, MatchedName
  <1>6. \A k \in 1 .. 16 : k \in 1 .. 7 \/ k = 8 \/ k \in 9 .. 13 \/ k \in 14 .. 16
    OBVIOUS
  <1> HIDE DEF h
  <1> QED
    BY <1>1, <1>2, <1>3, <1>4, <1>5, <1>6 DEF Follows

LEMMA EcdsaVerifyAddsUp == \E h : Follows(EcdsaVerifySteps, h, {})
  <1> DEFINE h == <<{}, {"name"}, {"name"}, {}, {"name"}, {}, {}, {}, {}, {"ec"}, {"ec"},
                    {"ec"}, {"ec"}, {}>>
  <1>1. Len(EcdsaVerifySteps) = 13 /\ h[1] = {} /\ h[14] = {}
    BY DEF EcdsaVerifySteps, EcdsaFirst, MatchedName
  <1>2. \A k \in 1 .. 7 : Does(EcdsaVerifySteps[k], h[k], h[k + 1], {})
    BY DEF Does, Resources, Get, Check, Initialise, GiveUp, Rng, EcdsaVerifySteps, EcdsaFirst, MatchedName
  <1>3. Does(EcdsaVerifySteps[8], h[8], h[9], {})
    BY DEF Does, Resources, Get, Check, Initialise, GiveUp, Rng, EcdsaVerifySteps, EcdsaFirst, MatchedName
  <1>4. \A k \in 9 .. 13 : Does(EcdsaVerifySteps[k], h[k], h[k + 1], {})
    BY DEF Does, Resources, Get, Check, Initialise, GiveUp, Rng, EcdsaVerifySteps, EcdsaFirst, MatchedName
  <1>5. \A k \in 1 .. 13 : k \in 1 .. 7 \/ k = 8 \/ k \in 9 .. 13
    OBVIOUS
  <1> HIDE DEF h
  <1> QED
    BY <1>1, <1>2, <1>3, <1>4, <1>5 DEF Follows

LEMMA RsaGenerateAddsUp == \E h : Follows(RsaGenerateSteps, h, {})
  <1> DEFINE h == <<{}, {}, {}, {}, {"pk"}, {"pk"}, {"pk", "pub"}, {"pk", "pk1", "pub"},
                    {"pk1", "pub"}, {"pk1", "pub"}, {"pk1", "priv", "pub"},
                    {"pk1", "priv", "pub"}, {"pk1", "priv", "pub"}, {}>>
  <1>1. Len(RsaGenerateSteps) = 13 /\ h[1] = {} /\ h[14] = {}
    BY DEF RsaGenerateSteps
  <1>2. \A k \in 1 .. 2 : Does(RsaGenerateSteps[k], h[k], h[k + 1], {})
    BY DEF Does, Resources, Get, Check, Initialise, GiveUp, Rng, RsaGenerateSteps
  <1>3. Does(RsaGenerateSteps[3], h[3], h[4], {})
    BY DEF Does, Resources, Get, Check, Initialise, GiveUp, Rng, RsaGenerateSteps
  <1>4. \A k \in 4 .. 8 : Does(RsaGenerateSteps[k], h[k], h[k + 1], {})
    BY DEF Does, Resources, Get, Check, Initialise, GiveUp, Rng, RsaGenerateSteps
  <1>5. \A k \in 9 .. 13 : Does(RsaGenerateSteps[k], h[k], h[k + 1], {})
    BY DEF Does, Resources, Get, Check, Initialise, GiveUp, Rng, RsaGenerateSteps
  <1>6. \A k \in 1 .. 13 : k \in 1 .. 2 \/ k = 3 \/ k \in 4 .. 8 \/ k \in 9 .. 13
    OBVIOUS
  <1> HIDE DEF h
  <1> QED
    BY <1>1, <1>2, <1>3, <1>4, <1>5, <1>6 DEF Follows

LEMMA RsaOaepAddsUp == \E h : Follows(RsaOaepSteps, h, {})
  <1> DEFINE h == <<{}, {}, {}, {"name"}, {}, {}, {}, {"pk"}, {"pk"}, {"out", "pk"}, {"out"},
                    {"out"}, {}>>
  <1>1. Len(RsaOaepSteps) = 12 /\ h[1] = {} /\ h[13] = {}
    BY DEF RsaOaepSteps, RsaName, RsaKey, RsaOut
  <1>2. \A k \in 1 .. 5 : Does(RsaOaepSteps[k], h[k], h[k + 1], {})
    BY DEF Does, Resources, Get, Check, Initialise, GiveUp, Rng, RsaOaepSteps, RsaName, RsaKey, RsaOut
  <1>3. Does(RsaOaepSteps[6], h[6], h[7], {})
    BY DEF Does, Resources, Get, Check, Initialise, GiveUp, Rng, RsaOaepSteps, RsaName, RsaKey, RsaOut
  <1>4. \A k \in 7 .. 12 : Does(RsaOaepSteps[k], h[k], h[k + 1], {})
    BY DEF Does, Resources, Get, Check, Initialise, GiveUp, Rng, RsaOaepSteps, RsaName, RsaKey, RsaOut
  <1>5. \A k \in 1 .. 12 : k \in 1 .. 5 \/ k = 6 \/ k \in 7 .. 12
    OBVIOUS
  <1> HIDE DEF h
  <1> QED
    BY <1>1, <1>2, <1>3, <1>4, <1>5 DEF Follows

LEMMA RsaSignAddsUp == \E h : Follows(RsaSignSteps, h, {})
  <1> DEFINE h == <<{}, {}, {"name"}, {}, {}, {}, {}, {"pk"}, {"pk"}, {"out", "pk"}, {"out"},
                    {"out"}, {}>>
  <1>1. Len(RsaSignSteps) = 12 /\ h[1] = {} /\ h[13] = {}
    BY DEF RsaSignSteps, RsaName, RsaKey, RsaOut
  <1>2. \A k \in 1 .. 4 : Does(RsaSignSteps[k], h[k], h[k + 1], {})
    BY DEF Does, Resources, Get, Check, Initialise, GiveUp, Rng, RsaSignSteps, RsaName, RsaKey, RsaOut
  <1>3. Does(RsaSignSteps[5], h[5], h[6], {})
    BY DEF Does, Resources, Get, Check, Initialise, GiveUp, Rng, RsaSignSteps, RsaName, RsaKey, RsaOut
  <1>4. \A k \in 6 .. 12 : Does(RsaSignSteps[k], h[k], h[k + 1], {})
    BY DEF Does, Resources, Get, Check, Initialise, GiveUp, Rng, RsaSignSteps, RsaName, RsaKey, RsaOut
  <1>5. \A k \in 1 .. 12 : k \in 1 .. 4 \/ k = 5 \/ k \in 6 .. 12
    OBVIOUS
  <1> HIDE DEF h
  <1> QED
    BY <1>1, <1>2, <1>3, <1>4, <1>5 DEF Follows

LEMMA RsaVerifyAddsUp == \E h : Follows(RsaVerifySteps, h, {})
  <1> DEFINE h == <<{}, {}, {"name"}, {}, {}, {}, {"pk"}, {"pk"}, {"pk"}, {}>>
  <1>1. Len(RsaVerifySteps) = 9 /\ h[1] = {} /\ h[10] = {}
    BY DEF RsaVerifySteps, RsaName, RsaKey
  <1>2. \A k \in 1 .. 3 : Does(RsaVerifySteps[k], h[k], h[k + 1], {})
    BY DEF Does, Resources, Get, Check, Initialise, GiveUp, Rng, RsaVerifySteps, RsaName, RsaKey
  <1>3. \A k \in 4 .. 6 : Does(RsaVerifySteps[k], h[k], h[k + 1], {})
    BY DEF Does, Resources, Get, Check, Initialise, GiveUp, Rng, RsaVerifySteps, RsaName, RsaKey
  <1>4. \A k \in 7 .. 9 : Does(RsaVerifySteps[k], h[k], h[k + 1], {})
    BY DEF Does, Resources, Get, Check, Initialise, GiveUp, Rng, RsaVerifySteps, RsaName, RsaKey
  <1>5. \A k \in 1 .. 9 : k \in 1 .. 3 \/ k \in 4 .. 6 \/ k \in 7 .. 9
    OBVIOUS
  <1> HIDE DEF h
  <1> QED
    BY <1>1, <1>2, <1>3, <1>4, <1>5 DEF Follows

LEMMA FunctionsAddUp == ASSUME NEW fn \in Natives PROVE \E h : Follows(Steps[fn], h, LeftBy(fn))
  <1>1. /\ Steps["digest"] = DigestSteps /\ Steps["hmac"] = HmacSteps /\ Steps["pbkdf2"] = Pbkdf2Steps
        /\ Steps["hkdf"] = HkdfSteps /\ Steps["aes"] = AesSteps /\ Steps["aesKw"] = AesKwSteps
        /\ Steps["ecGenerate"] = EcGenerateSteps /\ Steps["ecdh"] = EcdhSteps
        /\ Steps["ecdsaSign"] = EcdsaSignSteps /\ Steps["ecdsaVerify"] = EcdsaVerifySteps
        /\ Steps["rsaGenerate"] = RsaGenerateSteps /\ Steps["rsaOaep"] = RsaOaepSteps
        /\ Steps["rsaSign"] = RsaSignSteps /\ Steps["rsaVerify"] = RsaVerifySteps
    BY DEF Steps
  <1>2. LeftBy("aes") = {"name"} /\ LeftBy("ecGenerate") = {"out"}
    BY DEF LeftBy
  <1>3. fn \notin {"aes", "ecGenerate"} => LeftBy(fn) = {}
    BY DEF LeftBy
  <1>4. CASE fn = "aes"
    BY <1>1, <1>2, <1>4, AesAddsUp
  <1>5. CASE fn = "ecGenerate"
    BY <1>1, <1>2, <1>5, EcGenerateAddsUp
  <1>6. CASE fn \in {"digest", "hmac", "pbkdf2", "hkdf", "aesKw"}
    BY <1>1, <1>3, <1>6, DigestAddsUp, HmacAddsUp, Pbkdf2AddsUp, HkdfAddsUp, AesKwAddsUp
  <1>7. CASE fn \in {"ecdh", "ecdsaSign", "ecdsaVerify"}
    BY <1>1, <1>3, <1>7, EcdhAddsUp, EcdsaSignAddsUp, EcdsaVerifyAddsUp
  <1>8. CASE fn \in {"rsaGenerate", "rsaOaep", "rsaSign", "rsaVerify"}
    BY <1>1, <1>3, <1>8, RsaGenerateAddsUp, RsaOaepAddsUp, RsaSignAddsUp, RsaVerifyAddsUp
  <1> QED
    BY <1>4, <1>5, <1>6, <1>7, <1>8 DEF Natives

(* A call under way holds what its function says. *)
HeldThen(call, has) ==
    \/ call.fn = "none" /\ has = {}
    \/ /\ call \in [fn : Natives, at : Nat] /\ call.at \in 1 .. Len(Steps[call.fn])
       /\ \E h : Follows(Steps[call.fn], h, LeftBy(call.fn)) /\ has = h[call.at]

KnownLeft == {<<"aes", "name">>, <<"ecGenerate", "out">>}
RngStates == {"null", "raw", "init"}
RngOk(r) ==
    /\ r \in [entropy : RngStates, drbg : RngStates, ready : BOOLEAN]
    /\ r.ready => r.entropy = "init" /\ r.drbg = "init"

CryptoInv == HeldThen(ncall, held) /\ ~misfreed /\ left \subseteq KnownLeft /\ RngOk(rng)

LEMMA CryptoStart == CryptoInit => CryptoInv
  BY DEF CryptoInit, CryptoInv, NoNative, NoRng, HeldThen, RngOk, RngStates

LEMMA LeftIsKnown ==
    ASSUME NEW fn \in Natives, NEW rest, rest \subseteq LeftBy(fn) PROVE {fn} \X rest \subseteq KnownLeft
  <1>1. CASE fn = "aes"
    BY <1>1 DEF LeftBy, KnownLeft
  <1>2. CASE fn = "ecGenerate"
    BY <1>2 DEF LeftBy, KnownLeft
  <1>3. CASE fn \notin {"aes", "ecGenerate"}
    BY <1>3 DEF LeftBy, KnownLeft
  <1> QED
    BY <1>1, <1>2, <1>3

(* The call at its step *)
LEMMA AtItsStep ==
    ASSUME CryptoInv, ncall.fn # "none"
    PROVE  /\ ncall \in [fn : Natives, at : Nat] /\ ncall.at \in 1 .. Len(Steps[ncall.fn])
           /\ \E h : /\ Follows(Steps[ncall.fn], h, LeftBy(ncall.fn)) /\ held = h[ncall.at]
                     /\ Does(Step, held, h[ncall.at + 1], LeftBy(ncall.fn))
  <1>1. ncall \in [fn : Natives, at : Nat] /\ ncall.at \in 1 .. Len(Steps[ncall.fn])
    BY DEF CryptoInv, HeldThen
  <1>2. PICK h : Follows(Steps[ncall.fn], h, LeftBy(ncall.fn)) /\ held = h[ncall.at]
    BY DEF CryptoInv, HeldThen
  <1>3. Does(Steps[ncall.fn][ncall.at], h[ncall.at], h[ncall.at + 1], LeftBy(ncall.fn))
    BY <1>1, <1>2, Zenon DEF Follows
  <1> QED
    BY <1>1, <1>2, <1>3 DEF Step

(* A return that leaves what it may *)
LEMMA NativeReturnKeeps ==
    ASSUME CryptoInv, ncall.fn # "none", NEW rest, rest \subseteq LeftBy(ncall.fn), NativeReturns(rest)
    PROVE  HeldThen(ncall', held') /\ left' \subseteq KnownLeft
  <1>1. ncall.fn \in Natives
    BY AtItsStep
  <1>2. {ncall.fn} \X rest \subseteq KnownLeft
    BY <1>1, LeftIsKnown
  <1> QED
    BY <1>2 DEF NativeReturns, CryptoInv, HeldThen, NoNative

(* A step that succeeds *)
LEMMA StepDone ==
    ASSUME CryptoInv, ncall.fn # "none", NEW h, Follows(Steps[ncall.fn], h, LeftBy(ncall.fn)),
           GoesOn(h[ncall.at + 1])
    PROVE  HeldThen(ncall', held') /\ left' \subseteq KnownLeft
  <1>1. ncall \in [fn : Natives, at : Nat] /\ ncall.at \in 1 .. Len(Steps[ncall.fn])
    BY AtItsStep
  <1>2. CASE ncall.at = Len(Steps[ncall.fn])
    <2>1. h[ncall.at + 1] = {}
      BY <1>2 DEF Follows
    <2>2. NativeReturns(h[ncall.at + 1])
      BY <1>2 DEF GoesOn
    <2> QED
      BY <2>1, <2>2, NativeReturnKeeps
  <1>3. CASE ncall.at # Len(Steps[ncall.fn])
    <2>1. ncall' = [ncall EXCEPT !.at = @ + 1] /\ held' = h[ncall.at + 1] /\ left' = left
      BY <1>3 DEF GoesOn
    <2>2. ncall' \in [fn : Natives, at : Nat] /\ ncall'.fn = ncall.fn /\ ncall'.at = ncall.at + 1
      BY <1>1, <2>1
    <2>3. ncall.at + 1 \in 1 .. Len(Steps[ncall.fn])
      BY <1>1, <1>3 DEF Follows
    <2> QED
      BY <2>1, <2>2, <2>3 DEF HeldThen, CryptoInv
  <1> QED
    BY <1>2, <1>3

LEMMA CallNativeKeeps == ASSUME CryptoInv, NEW fn \in Natives, CallNative(fn) PROVE CryptoInv'
  <1>1. ncall' = [fn |-> fn, at |-> 1] /\ ncall.fn = "none" /\ UNCHANGED <<held, left, misfreed, rng>>
    BY DEF CallNative
  <1>2. held = {}
    BY <1>1 DEF CryptoInv, HeldThen, Natives
  <1>3. PICK h : Follows(Steps[fn], h, LeftBy(fn))
    BY FunctionsAddUp
  <1>4. Len(Steps[fn]) \in Nat /\ Len(Steps[fn]) >= 1
    BY <1>3 DEF Follows
  <1>5. ncall' \in [fn : Natives, at : Nat] /\ ncall'.fn = fn /\ ncall'.at = 1
    BY <1>1
  <1>6. 1 \in 1 .. Len(Steps[fn]) /\ h[1] = {}
    BY <1>3, <1>4 DEF Follows
  <1>7. HeldThen(ncall', held')
    BY <1>1, <1>2, <1>3, <1>5, <1>6 DEF HeldThen
  <1> QED
    BY <1>1, <1>7 DEF CryptoInv

LEMMA StepSucceedsKeeps == ASSUME CryptoInv, StepSucceeds PROVE CryptoInv'
  <1>1. ncall.fn # "none" /\ Step.kind \in {"get", "check", "init", "drop"} /\ rng' = rng
    BY DEF StepSucceeds, AtStep
  <1>2. PICK h : /\ Follows(Steps[ncall.fn], h, LeftBy(ncall.fn)) /\ held = h[ncall.at]
                 /\ Does(Step, held, h[ncall.at + 1], LeftBy(ncall.fn))
    BY <1>1, AtItsStep
  <1>3. GoesOn(h[ncall.at + 1]) /\ ~misfreed'
    <2>1. CASE Step.kind = "drop"
      <3>1. Step.what \subseteq held /\ h[ncall.at + 1] = held \ Step.what
        BY <1>2, <2>1 DEF Does
      <3>2. GoesOn(held \ Step.what) /\ misfreed' = (misfreed \/ ~(Step.what \subseteq held))
        BY <2>1 DEF StepSucceeds
      <3>3. ~misfreed'
        BY <3>1, <3>2 DEF CryptoInv
      <3> QED
        BY <3>1, <3>2, <3>3, Zenon
    <2>2. CASE Step.kind # "drop"
      <3>1. h[ncall.at + 1] = held \cup Step.what
        BY <1>1, <1>2, <2>2 DEF Does
      <3>2. GoesOn(held \cup Step.what) /\ misfreed' = misfreed
        BY <2>2 DEF StepSucceeds
      <3> QED
        BY <3>1, <3>2, Zenon DEF CryptoInv
    <2> QED
      BY <2>1, <2>2
  <1>4. HeldThen(ncall', held') /\ left' \subseteq KnownLeft
    BY <1>1, <1>2, <1>3, StepDone
  <1> QED
    BY <1>1, <1>3, <1>4 DEF CryptoInv

LEMMA StepFailsKeeps == ASSUME CryptoInv, StepFails PROVE CryptoInv'
  <1>1. ncall.fn # "none" /\ Step.kind \in {"get", "check"} /\ rng' = rng /\ NativeReturns(held \ Step.undo)
        /\ misfreed' = (misfreed \/ ~(Step.undo \subseteq held))
    BY DEF StepFails, AtStep
  <1>2. Step.undo \subseteq held /\ held \ Step.undo \subseteq LeftBy(ncall.fn)
    BY <1>1, AtItsStep DEF Does
  <1>3. HeldThen(ncall', held') /\ left' \subseteq KnownLeft
    BY <1>1, <1>2, NativeReturnKeeps
  <1>4. ~misfreed'
    BY <1>1, <1>2 DEF CryptoInv
  <1> QED
    BY <1>1, <1>3, <1>4 DEF CryptoInv

LEMMA EcRngReadyKeeps == ASSUME CryptoInv, EcRngReady PROVE CryptoInv'
  <1>1. ncall.fn # "none" /\ Step.kind = "rng" /\ GoesOn(held) /\ misfreed' = misfreed
        /\ rng' = IF rng.ready THEN rng ELSE [entropy |-> "init", drbg |-> "init", ready |-> TRUE]
    BY DEF EcRngReady, AtStep
  <1>2. PICK h : /\ Follows(Steps[ncall.fn], h, LeftBy(ncall.fn)) /\ held = h[ncall.at]
                 /\ Does(Step, held, h[ncall.at + 1], LeftBy(ncall.fn))
    BY <1>1, AtItsStep
  <1>3. h[ncall.at + 1] = held
    BY <1>1, <1>2 DEF Does
  <1>4. HeldThen(ncall', held') /\ left' \subseteq KnownLeft
    BY <1>1, <1>2, <1>3, StepDone
  <1>5. RngOk(rng')
    BY <1>1 DEF CryptoInv, RngOk, RngStates
  <1> QED
    BY <1>1, <1>4, <1>5 DEF CryptoInv

LEMMA EcRngFailsKeeps == ASSUME CryptoInv, NEW e \in BOOLEAN, NEW d \in BOOLEAN, EcRngFails(e, d) PROVE CryptoInv'
  <1> DEFINE made(now, ok) == IF e /\ d THEN "init" ELSE IF now = "null" /\ ok THEN "raw" ELSE now
  <1>1. /\ ncall.fn # "none" /\ Step.kind = "rng" /\ NativeReturns(held) /\ misfreed' = misfreed /\ ~rng.ready
        /\ rng' = [rng EXCEPT !.entropy = made(rng.entropy, e), !.drbg = made(rng.drbg, d)]
    BY DEF EcRngFails, AtStep
  <1>2. held \subseteq LeftBy(ncall.fn)
    BY <1>1, AtItsStep DEF Does
  <1>3. HeldThen(ncall', held') /\ left' \subseteq KnownLeft
    BY <1>1, <1>2, NativeReturnKeeps
  <1>4. RngOk(rng')
    <2>1. made(rng.entropy, e) \in RngStates /\ made(rng.drbg, d) \in RngStates
      BY DEF CryptoInv, RngOk, RngStates
    <2> HIDE DEF made
    <2> QED
      BY <1>1, <2>1 DEF CryptoInv, RngOk
  <1> QED
    BY <1>1, <1>3, <1>4 DEF CryptoInv

LEMMA CryptoExtDestroyKeeps == ASSUME CryptoInv, CryptoExtDestroy PROVE CryptoInv'
  BY DEF CryptoExtDestroy, CryptoInv, NoRng, RngOk, RngStates

LEMMA CryptoKept == CryptoInv /\ [CryptoNext]_cryptoVars => CryptoInv'
  <1> SUFFICES ASSUME CryptoInv, [CryptoNext]_cryptoVars PROVE CryptoInv'
    OBVIOUS
  <1>1. ASSUME NEW fn \in Natives, CallNative(fn) PROVE CryptoInv'
    BY <1>1, CallNativeKeeps
  <1>2. ASSUME StepSucceeds \/ StepFails \/ EcRngReady \/ CryptoExtDestroy PROVE CryptoInv'
    BY <1>2, StepSucceedsKeeps, StepFailsKeeps, EcRngReadyKeeps, CryptoExtDestroyKeeps
  <1>3. ASSUME NEW e \in BOOLEAN, NEW d \in BOOLEAN, EcRngFails(e, d) PROVE CryptoInv'
    BY <1>3, EcRngFailsKeeps
  <1>4. ASSUME UNCHANGED cryptoVars PROVE CryptoInv'
    BY <1>4 DEF cryptoVars, CryptoInv
  <1> QED
    BY <1>1, <1>2, <1>3, <1>4 DEF CryptoNext

LEMMA CryptoSound == CryptoInv => CryptoTypeOK /\ ExitsAddUp /\ ReadyIsSeeded
  <1> SUFFICES ASSUME CryptoInv PROVE CryptoTypeOK /\ ExitsAddUp /\ ReadyIsSeeded
    OBVIOUS
  <1>1. ExitsAddUp /\ ReadyIsSeeded
    BY DEF CryptoInv, ExitsAddUp, ReadyIsSeeded, RngOk, KnownLeft
  <1>2. {rng.entropy, rng.drbg} \subseteq {"null", "raw", "init"}
    BY DEF CryptoInv, RngOk, RngStates
  <1>3. ncall.fn \in Natives \cup {"none"} /\ (ncall.fn # "none" => ncall.at \in 1 .. Len(Steps[ncall.fn]))
    BY DEF CryptoInv, HeldThen
  <1>4. held \subseteq Resources
    <2>1. CASE ncall.fn = "none"
      BY <2>1 DEF CryptoInv, HeldThen, Natives
    <2>2. CASE ncall.fn # "none"
      <3>1. PICK h : /\ Follows(Steps[ncall.fn], h, LeftBy(ncall.fn)) /\ held = h[ncall.at]
        BY <2>2, AtItsStep
      <3>2. ncall.at \in 1 .. Len(Steps[ncall.fn]) /\ Len(Steps[ncall.fn]) \in Nat
        BY <2>2, <3>1, AtItsStep DEF Follows
      <3>3. CASE ncall.at = 1
        BY <3>1, <3>3 DEF Follows
      <3>4. CASE ncall.at # 1
        <4>1. ncall.at - 1 \in 1 .. Len(Steps[ncall.fn]) /\ (ncall.at - 1) + 1 = ncall.at
          BY <3>2, <3>4
        <4>2. Does(Steps[ncall.fn][ncall.at - 1], h[ncall.at - 1], h[(ncall.at - 1) + 1], LeftBy(ncall.fn))
          BY <3>1, <4>1, Zenon DEF Follows
        <4> QED
          BY <3>1, <4>1, <4>2 DEF Does
      <3> QED
        BY <3>3, <3>4
    <2> QED
      BY <2>1, <2>2
  <1>5. CryptoTypeOK
    BY <1>2, <1>3, <1>4 DEF CryptoTypeOK, Resources
  <1> QED
    BY <1>1, <1>5

-----------------------------------------------------------------------------
(* What holds of the native memory *)

(* Of ext_wasm3.c and ext_wamr.c, for any number of modules, instances, pages,  *)
(* imports, exceptions and loads: no finalizer frees what a live object can     *)
(* still use, no data is freed twice, wasm3's garbage goes in whatever cycles   *)
(* it is, buffers wrap the block the memory is in, an exception reaches its own *)
(* caller, and modules are loaded from pristine bytes.                          *)
THEOREM WasmStaysSafe == WasmSpec /\ CallsSpec /\ LoadsSpec => []WasmIsSafe
  <1>1. WasmSpec => []WasmInv
    BY WasmStart, WasmKept, PTL DEF WasmSpec
  <1>2. CallsSpec => []CallsInv
    BY CallsStart, CallsKept, PTL DEF CallsSpec
  <1>3. LoadsSpec => []LoadsInv
    BY LoadsStart, LoadsKept, PTL DEF LoadsSpec
  <1>4. WasmInv /\ CallsInv /\ LoadsInv => WasmIsSafe
    BY WasmSound, CallsSound, LoadsSound DEF WasmIsSafe
  <1> QED
    BY <1>1, <1>2, <1>3, <1>4, PTL

(* Of the calls of ext_wasm3.c, ext_wamr.c, ext_compress.c and ext_crypto.c     *)
(* that can fail at every step, for any number of loads, tables, slots, objects *)
(* and streams and for each native crypto function: what was taken is released  *)
(* or given away once, but for the two exits ExitsAddUp names.                  *)
THEOREM ResourcesStayTrue ==
    LoadsSpec /\ TablesSpec /\ ZSpec /\ CryptoSpec => []ResourcesAddUp
  <1>1. LoadsSpec => []LoadsInv
    BY LoadsStart, LoadsKept, PTL DEF LoadsSpec
  <1>2. TablesSpec => []TablesInv
    BY TablesStart, TablesKept, PTL DEF TablesSpec
  <1>3. ZSpec => []ZInv
    BY ZStart, ZKept, PTL DEF ZSpec
  <1>4. CryptoSpec => []CryptoInv
    BY CryptoStart, CryptoKept, PTL DEF CryptoSpec
  <1>5. LoadsInv /\ TablesInv /\ ZInv /\ CryptoInv => ResourcesAddUp
    BY LoadsSound, TablesSound, ZSound, CryptoSound DEF ResourcesAddUp
  <1> QED
    BY <1>1, <1>2, <1>3, <1>4, <1>5, PTL
=============================================================================
