------------------------- MODULE WorkerSlotsProofs -------------------------
(***************************************************************************)
(* Proofs about WorkerSlots, for any number of slots, workers and messages. *)
(*                                                                         *)
(* Two invariants.  Joined ties the slot of a worker, the runtime behind    *)
(* w->self and the worker's thread together: a runtime that has not been    *)
(* freed is still in its slot, which is what qz_worker_reap and the         *)
(* teardown look at, and a freed one was joined.  Routed says what a queued *)
(* message may rely on: as long as no slot was given back over an unlinked  *)
(* message its sender still has its slot, and the Worker object under that  *)
(* id is the sender's, unless new Worker is just waiting for the sender.    *)
(***************************************************************************)
EXTENDS WorkerSlots, SequenceTheorems, FiniteSetTheorems, TLAPS

Msgs == [src : Inc, id : Ids \cup {None}, linked : BOOLEAN]

Types ==
    /\ slot \in [Ids -> Inc \cup {None}] /\ workers \in [Ids -> Inc \cup {None}]
    /\ id \in [Inc -> Ids \cup {None}]
    /\ wsd \in [Inc -> BOOLEAN] /\ rsd \in [Inc -> BOOLEAN]
    /\ wake \in [Inc -> BOOLEAN] /\ err \in [Inc -> BOOLEAN]
    /\ self \in [Inc -> {"none", "live", "freed"}]
    /\ thread \in [Inc -> ThreadStates]
    /\ inq \in [Inc -> 0 .. 1] /\ emitted \in [Inc -> 0 .. MaxEmit]
    /\ queue \in Seq(Msgs)
    /\ pc \in {"js", "reap", "create", "spin", "td_terminate", "td_join", "done"}
    /\ idx \in Ids /\ cur \in Inc \cup {None} /\ spawned \in 0 .. MaxSpawn
    /\ joins \in [Inc -> Nat] /\ misrouted \in BOOLEAN /\ gapped \in BOOLEAN

WorkerOk(k) ==
    /\ self[k] = "none" => thread[k] = "none" /\ id[k] = None
    /\ thread[k] = "none" => self[k] = "none"
    /\ self[k] = "live" => id[k] # None /\ slot[id[k]] = k
    /\ self[k] = "freed" => thread[k] = "exited"
    /\ joins[k] = IF self[k] = "freed" THEN 1 ELSE 0
    /\ k > spawned => self[k] = "none"

(* ready_err is set by a thread that has not come to its script. *)
ErrOk(k) == err[k] => thread[k] \in {"failed", "exited"}

SlotOk(i) == slot[i] # None => self[slot[i]] # "none" /\ id[slot[i]] = i

(* Where the parent is in new Worker or in its teardown. *)
CallOk ==
    /\ pc \in {"reap", "create"} => cur # None /\ cur <= spawned /\ self[cur] = "none"
    /\ pc = "spin" => cur # None /\ self[cur] = "live"
    /\ pc \in {"td_terminate", "td_join"} => \A i \in Ids : i < idx => slot[i] = None
    /\ pc = "done" => \A i \in Ids : slot[i] = None

Joined ==
    /\ Types
    /\ \A k \in Inc : WorkerOk(k) /\ ErrOk(k)
    /\ \A i \in Ids : SlotOk(i)
    /\ CallOk

(* A worker has not come so far that it could have posted. *)
Early(k) == thread[k] \in {"none", "init", "failed"} \/ err[k]

InTeardown == pc \in {"td_terminate", "td_join", "done"}

EntryOk(n) ==
    /\ queue[n].id # None /\ id[queue[n].src] = queue[n].id
    /\ ~Early(queue[n].src)
    /\ gapped \/ InTeardown \/ slot[queue[n].id] = queue[n].src

(* The Worker object under id i. *)
ObjectOk(i) ==
    slot[i] # None /\ ~InTeardown =>
      workers[i] \in {None, slot[i]} \/ (pc = "spin" /\ cur = slot[i])

Routed ==
    /\ \A n \in 1 .. Len(queue) : EntryOk(n)
    /\ \A i \in Ids : ObjectOk(i)
    /\ misrouted => gapped

WorkerInv == Joined /\ Routed

-----------------------------------------------------------------------------
(* Facts about the operators *)

LEMMA FirstFreeSlot ==
  ASSUME FreeSlots # {}
  PROVE  (CHOOSE j \in FreeSlots : \A h \in FreeSlots : j <= h) \in FreeSlots
<1>1. FreeSlots \subseteq Nat
  BY DEF FreeSlots, Ids
<1>2. PICK i \in FreeSlots : \A j \in FreeSlots : <<j, i>> \notin OpToRel(<, Nat)
  BY <1>1, NatLessThanWellFounded, WFMin
<1>3. \A x, y \in Nat : x < y => <<x, y>> \in OpToRel(<, Nat)
  BY DEF OpToRel
<1>4. \A j \in FreeSlots : ~(j < i)
  BY <1>1, <1>2, <1>3
<1>5. \A x, y \in Nat : ~(x < y) => y <= x
  OBVIOUS
<1>6. \A j \in FreeSlots : i <= j
  BY <1>1, <1>4, <1>5
<1> QED BY <1>6

LEMMA VisibleCount ==
  ASSUME Types
  PROVE  /\ Cardinality(Visible) \in Nat /\ Len(queue) \in Nat
         /\ DOMAIN queue = 1 .. Len(queue)
<1>1. Len(queue) \in Nat /\ DOMAIN queue = 1 .. Len(queue)
  BY LenProperties DEF Types
<1>2. IsFiniteSet(1 .. Len(queue))
  BY <1>1, FS_Interval
<1>3. Visible \subseteq 1 .. Len(queue)
  BY <1>1 DEF Visible
<1>4. IsFiniteSet(Visible)
  BY <1>2, <1>3, FS_Subset
<1> QED BY <1>1, <1>4, FS_CardinalityType

(* A step that moves no runtime, slot or call of the parent. *)
LEMMA JoinedSame ==
  ASSUME Joined, Types',
         UNCHANGED <<slot, id, self, joins, spawned, pc, idx, cur>>,
         \A k \in Inc : /\ thread[k]' = "none" <=> thread[k] = "none"
                        /\ thread[k] = "exited" => thread[k]' = "exited"
                        /\ err[k]' => thread[k]' \in {"failed", "exited"}
  PROVE  Joined'
<1>1. ASSUME NEW k \in Inc PROVE WorkerOk(k)'
  <2>1. WorkerOk(k)
    BY DEF Joined
  <2> QED BY <2>1 DEF WorkerOk
<1>2. ASSUME NEW i \in Ids PROVE SlotOk(i)'
  <2>1. SlotOk(i)
    BY DEF Joined
  <2> QED BY <2>1 DEF SlotOk
<1>3. CallOk'
  BY DEF Joined, CallOk
<1> QED BY <1>1, <1>2, <1>3 DEF Joined, ErrOk

(* A step that leaves the queue alone, gives no slot away and registers nothing. *)
LEMMA RoutedSame ==
  ASSUME Routed, Types, UNCHANGED <<slot, id, queue, pc, cur, misrouted, gapped>>,
         \A k \in Inc : ~Early(k) => ~Early(k)',
         \A i \in Ids : workers'[i] \in {None, workers[i]}
  PROVE  Routed'
<1>1. ASSUME NEW n \in 1 .. Len(queue) PROVE EntryOk(n)'
  <2>1. EntryOk(n) /\ queue[n].src \in Inc
    <3>1. queue[n] \in Msgs
      BY ElementOfSeq DEF Types
    <3> QED BY <3>1 DEF Routed, Msgs
  <2> QED BY <2>1 DEF EntryOk, InTeardown
<1>2. ASSUME NEW i \in Ids PROVE ObjectOk(i)'
  <2>1. ObjectOk(i)
    BY DEF Routed
  <2> QED BY <2>1 DEF ObjectOk, InTeardown
<1> QED BY <1>1, <1>2 DEF Routed

LEMMA WorkerInitInv == Init => WorkerInv
<1> SUFFICES ASSUME Init PROVE WorkerInv
  OBVIOUS
<1>1. Types
  <2>1. 0 \in 0 .. MaxEmit /\ 0 \in 0 .. MaxSpawn /\ 0 \in 0 .. 1 /\ 0 \in Nat /\ 1 \in Ids
    BY WorkerAssumption DEF Ids
  <2>2. << >> \in Seq(Msgs) /\ "none" \in ThreadStates
    BY EmptySeq DEF ThreadStates
  <2> QED BY <2>1, <2>2 DEF Init, Types, None
<1>2. ASSUME NEW k \in Inc PROVE WorkerOk(k) /\ ErrOk(k)
  BY DEF Init, WorkerOk, ErrOk
<1>3. ASSUME NEW i \in Ids PROVE SlotOk(i) /\ ObjectOk(i)
  BY DEF Init, SlotOk, ObjectOk
<1>4. CallOk
  BY DEF Init, CallOk
<1>5. Len(<< >>) = 0 /\ \A i \in 1 .. 0 : FALSE
  OBVIOUS
<1>6. Routed
  BY <1>3, <1>5 DEF Init, Routed
<1> QED BY <1>1, <1>2, <1>3, <1>4, <1>6 DEF WorkerInv, Joined

-----------------------------------------------------------------------------
(* A worker's thread *)

(* A step of worker k that only moves its thread on. *)
LEMMA ThreadMoves ==
  ASSUME WorkerInv, NEW k \in Inc, NEW s \in ThreadStates \ {"none"},
         thread[k] \notin {"none", "exited"}, thread' = [thread EXCEPT ![k] = s], Types',
         \A j \in Inc \ {k} : err'[j] = err[j],
         err'[k] => s \in {"failed", "exited"} /\ Early(k),
         s \in {"init", "failed"} => Early(k),
         UNCHANGED <<tableVars, self, queue, parentVars, histVars>>
  PROVE  WorkerInv'
<1>1. Types /\ Joined /\ Routed
  BY DEF WorkerInv, Joined
<1>2. thread'[k] = s /\ \A j \in Inc \ {k} : thread'[j] = thread[j]
  BY <1>1 DEF Types
<1>3. UNCHANGED <<slot, id, workers, self, queue, pc, idx, cur, spawned, joins, misrouted, gapped>>
  BY DEF tableVars, parentVars, histVars
<1>4. ASSUME NEW j \in Inc
      PROVE  /\ thread[j]' = "none" <=> thread[j] = "none"
             /\ thread[j] = "exited" => thread[j]' = "exited"
             /\ err[j]' => thread[j]' \in {"failed", "exited"}
             /\ ~Early(j) => ~Early(j)'
  <2>1. CASE j = k
    BY <2>1, <1>2 DEF Early
  <2>2. CASE j # k
    BY <2>2, <1>1, <1>2 DEF Early, Joined, ErrOk
  <2> QED BY <2>1, <2>2
<1>5. Joined'
  BY <1>1, <1>3, <1>4, JoinedSame
<1>6. Routed'
  BY <1>1, <1>3, <1>4, RoutedSame
<1> QED BY <1>5, <1>6 DEF WorkerInv

LEMMA WorkerMovesInv ==
  ASSUME WorkerInv, NEW k \in Inc,
         \/ WorkerInitFail(k) \/ WorkerFailExit(k) \/ WorkerInit(k) \/ WorkerJsEnd(k)
         \/ WorkerHead(k) \/ WorkerWake(k) \/ WorkerEvent(k) \/ WorkerTeardown(k)
  PROVE  WorkerInv'
<1>1. Types /\ ErrOk(k) /\ (err[k] => Early(k))
  BY DEF WorkerInv, Joined, Early
<1>2. CASE WorkerInitFail(k)
  <2>1. /\ thread[k] = "init" /\ thread' = [thread EXCEPT ![k] = "failed"]
        /\ err' = [err EXCEPT ![k] = TRUE]
        /\ UNCHANGED <<tableVars, wsd, rsd, self, wake, inq, emitted, queue, parentVars, histVars>>
    BY <1>2 DEF WorkerInitFail, At, To
  <2>2. "failed" \in ThreadStates \ {"none"} /\ Early(k)
    BY <2>1 DEF ThreadStates, Early
  <2>3. Types'
    BY <2>1, <2>2, <1>1 DEF Types, tableVars, parentVars, histVars
  <2>4. \A j \in Inc \ {k} : err'[j] = err[j]
    BY <2>1, <1>1 DEF Types
  <2> QED BY <2>1, <2>2, <2>3, <2>4, ThreadMoves
<1>3. CASE WorkerFailExit(k) \/ WorkerInit(k) \/ WorkerJsEnd(k) \/ WorkerEvent(k)
  <2>1. PICK s \in {"exited", "script", "head", "js"} :
          /\ thread[k] \notin {"none", "exited"} /\ (thread[k] = "failed" => s = "exited")
          /\ thread' = [thread EXCEPT ![k] = s]
          /\ UNCHANGED <<tableVars, wsd, rsd, self, wake, inq, err, emitted, queue, parentVars, histVars>>
    BY <1>3 DEF WorkerFailExit, WorkerInit, WorkerJsEnd, WorkerEvent, At, To, InJS
  <2>2. s \in ThreadStates \ {"none"} /\ s \notin {"init", "failed"}
    BY DEF ThreadStates
  <2>3. Types'
    BY <2>1, <2>2, <1>1 DEF Types, tableVars, parentVars, histVars
  <2>5. err'[k] => s \in {"failed", "exited"} /\ Early(k)
    BY <2>1, <1>1 DEF ErrOk
  <2> QED BY <2>5, <2>1, <2>2, <2>3, ThreadMoves
<1>4. CASE WorkerHead(k)
  <2>1. PICK s \in {"teardown", "uv_run"} :
          /\ thread[k] = "head" /\ thread' = [thread EXCEPT ![k] = s]
          /\ UNCHANGED <<tableVars, wsd, rsd, self, wake, inq, err, emitted, queue, parentVars, histVars>>
    BY <1>4 DEF WorkerHead, At, To
  <2>2. s \in ThreadStates \ {"none"} /\ s \notin {"init", "failed"}
    BY DEF ThreadStates
  <2>3. Types'
    BY <2>1, <2>2, <1>1 DEF Types, tableVars, parentVars, histVars
  <2>5. err'[k] => s \in {"failed", "exited"} /\ Early(k)
    BY <2>1, <1>1 DEF ErrOk
  <2> QED BY <2>5, <2>1, <2>2, <2>3, ThreadMoves
<1>5. CASE WorkerWake(k)
  <2>1. PICK s \in {"head", "js"} :
          /\ thread[k] = "uv_run" /\ thread' = [thread EXCEPT ![k] = s]
          /\ wake' = [wake EXCEPT ![k] = FALSE]
          /\ inq' \in {inq, [inq EXCEPT ![k] = 0]}
          /\ UNCHANGED <<tableVars, wsd, rsd, self, err, emitted, queue, parentVars, histVars>>
    BY <1>5 DEF WorkerWake, At, To
  <2>2. s \in ThreadStates \ {"none"} /\ s \notin {"init", "failed"}
    BY DEF ThreadStates
  <2>3. inq' \in [Inc -> 0 .. 1] /\ wake' \in [Inc -> BOOLEAN]
    <3>0. 0 \in 0 .. 1
      OBVIOUS
    <3>1. inq' \in [Inc -> 0 .. 1]
      BY <3>0, <2>1, <1>1 DEF Types
    <3>2. wake' \in [Inc -> BOOLEAN]
      BY <2>1, <1>1 DEF Types
    <3> QED BY <3>1, <3>2
  <2>4. Types'
    BY <2>1, <2>2, <2>3, <1>1 DEF Types, tableVars, parentVars, histVars
  <2>5. err'[k] => s \in {"failed", "exited"} /\ Early(k)
    BY <2>1, <1>1 DEF ErrOk
  <2> QED BY <2>5, <2>1, <2>2, <2>4, ThreadMoves
<1>6. CASE WorkerTeardown(k)
  <2>1. /\ thread[k] = "teardown" /\ thread' = [thread EXCEPT ![k] = "exited"]
        /\ inq' = [inq EXCEPT ![k] = 0]
        /\ UNCHANGED <<tableVars, wsd, rsd, self, wake, err, emitted, queue, parentVars, histVars>>
    BY <1>6 DEF WorkerTeardown, At, To
  <2>2. "exited" \in ThreadStates \ {"none"}
    BY DEF ThreadStates
  <2>3. inq' \in [Inc -> 0 .. 1]
    BY <2>1, <1>1 DEF Types
  <2>4. Types'
    BY <2>1, <2>2, <2>3, <1>1 DEF Types, tableVars, parentVars, histVars
  <2>5. err'[k] => Early(k)
    BY <2>1, <1>1 DEF ErrOk
  <2> QED BY <2>5, <2>1, <2>2, <2>4, ThreadMoves
<1> QED BY <1>2, <1>3, <1>4, <1>5, <1>6

(* qz_worker_terminate and qz_worker_post: flags, the wake-up and the worker's queue. *)
LEMMA FlagsInv ==
  ASSUME WorkerInv,
         wsd' \in [Inc -> BOOLEAN], rsd' \in [Inc -> BOOLEAN], wake' \in [Inc -> BOOLEAN],
         inq' \in [Inc -> 0 .. 1], workers' \in [Ids -> Inc \cup {None}],
         \A i \in Ids : workers'[i] \in {None, workers[i]},
         UNCHANGED <<slot, id, self, thread, err, emitted, queue, parentVars, histVars>>
  PROVE  WorkerInv'
<1>1. Types /\ Joined /\ Routed
  BY DEF WorkerInv, Joined
<1>2. Types'
  BY <1>1 DEF Types, parentVars, histVars
<1>3. Joined'
  <2>1. \A k \in Inc : err[k]' => thread[k]' \in {"failed", "exited"}
    BY <1>1 DEF Joined, ErrOk
  <2> QED BY <2>1, <1>1, <1>2, JoinedSame DEF parentVars, histVars
<1>4. Routed'
  <2>1. \A k \in Inc : ~Early(k) => ~Early(k)'
    BY DEF Early
  <2> QED BY <2>1, <1>1, RoutedSame DEF parentVars, histVars
<1> QED BY <1>3, <1>4 DEF WorkerInv

LEMMA TerminateStoresType ==
  ASSUME Types, NEW k \in Inc, TerminateStores(k)
  PROVE  wsd' \in [Inc -> BOOLEAN] /\ rsd' \in [Inc -> BOOLEAN] /\ wake' \in [Inc -> BOOLEAN]
BY DEF Types, TerminateStores

LEMMA WorkerCloseInv ==
  ASSUME WorkerInv, NEW k \in Inc, WorkerClose(k)
  PROVE  WorkerInv'
<1>1. Types
  BY DEF WorkerInv, Joined
<1>2. wsd' \in [Inc -> BOOLEAN] /\ rsd' \in [Inc -> BOOLEAN] /\ wake' \in [Inc -> BOOLEAN]
  BY <1>1, TerminateStoresType DEF WorkerClose
<1>3. UNCHANGED <<slot, id, workers, self, thread, inq, err, emitted, queue, parentVars, histVars>>
  BY DEF WorkerClose, tableVars
<1> QED BY <1>1, <1>2, <1>3, FlagsInv DEF Types

LEMMA PostInv ==
  ASSUME WorkerInv, NEW k \in Inc, Post(k)
  PROVE  WorkerInv'
<1>1. Types
  BY DEF WorkerInv, Joined
<1>2. PICK w : w = slot[id[k]]
  OBVIOUS
<1>3. /\ w # None /\ inq' = [inq EXCEPT ![w] = 1] /\ wake' = [wake EXCEPT ![w] = TRUE]
      /\ UNCHANGED <<slot, id, workers, wsd, rsd, self, thread, err, emitted, queue, parentVars, histVars>>
  BY <1>2 DEF Post, tableVars
<1>4. inq' \in [Inc -> 0 .. 1] /\ wake' \in [Inc -> BOOLEAN]
  <2>0. 1 \in 0 .. 1
    OBVIOUS
  <2>1. inq' \in [Inc -> 0 .. 1]
    BY <2>0, <1>1, <1>3 DEF Types
  <2>2. wake' \in [Inc -> BOOLEAN]
    BY <1>1, <1>3 DEF Types
  <2> QED BY <2>1, <2>2
<1> QED BY <1>1, <1>3, <1>4, FlagsInv DEF Types

LEMMA TerminateInv ==
  ASSUME WorkerInv, NEW k \in Inc, Terminate(k)
  PROVE  WorkerInv'
<1>1. Types
  BY DEF WorkerInv, Joined
<1>2. PICK w : w = slot[id[k]]
  OBVIOUS
<1>3. /\ id[k] \in Ids /\ workers' = [workers EXCEPT ![id[k]] = None]
      /\ UNCHANGED <<slot, id, self, thread, inq, err, emitted, queue, parentVars, histVars>>
  BY <1>1 DEF Terminate, Usable, Types
<1>4. w \in Inc \cup {None}
  BY <1>1, <1>2, <1>3 DEF Types
<1>5. wsd' \in [Inc -> BOOLEAN] /\ rsd' \in [Inc -> BOOLEAN] /\ wake' \in [Inc -> BOOLEAN]
  <2>1. CASE w = None
    <3>1. UNCHANGED <<wsd, rsd, wake>>
      BY <2>1, <1>2 DEF Terminate
    <3> QED BY <3>1, <1>1 DEF Types
  <2>2. CASE w # None
    <3>1. TerminateStores(w)
      BY <2>2, <1>2 DEF Terminate
    <3> QED BY <3>1, <2>2, <1>1, <1>4, TerminateStoresType
  <2> QED BY <2>1, <2>2
<1>6. workers' \in [Ids -> Inc \cup {None}] /\ \A i \in Ids : workers'[i] \in {None, workers[i]}
  BY <1>1, <1>3 DEF Types
<1>7. inq' \in [Inc -> 0 .. 1]
  BY <1>1, <1>3 DEF Types
<1> QED BY <1>3, <1>5, <1>6, <1>7, FlagsInv

-----------------------------------------------------------------------------
(* The parent's queue *)

(* A step of worker k's thread during qz_msg_push, once the queue is known. *)
LEMMA PushInv ==
  ASSUME WorkerInv, NEW k \in Inc, NEW s \in {"script", "js", "script_link", "js_link"},
         thread[k] \in {"script", "js", "script_link", "js_link"},
         thread' = [thread EXCEPT ![k] = s], queue' \in Seq(Msgs),
         emitted' \in [Inc -> 0 .. MaxEmit],
         \A n \in 1 .. Len(queue') :
           \/ n \in 1 .. Len(queue) /\ queue'[n].src = queue[n].src /\ queue'[n].id = queue[n].id
           \/ queue'[n].src = k /\ queue'[n].id = id[k],
         UNCHANGED <<tableVars, wsd, rsd, self, wake, inq, err, parentVars, histVars>>
  PROVE  WorkerInv'
<1>1. Types /\ Joined /\ Routed /\ WorkerOk(k) /\ ~err[k]
  BY DEF WorkerInv, Joined, ErrOk
<1>2. UNCHANGED <<slot, id, workers, wsd, rsd, self, wake, inq, err, pc, idx, cur, spawned,
                  joins, misrouted, gapped>>
  BY DEF tableVars, parentVars, histVars
<1>3. s \in ThreadStates /\ s \notin {"none", "init", "failed", "exited"}
  BY DEF ThreadStates
<1>4. thread'[k] = s /\ \A j \in Inc \ {k} : thread'[j] = thread[j]
  BY <1>1 DEF Types
<1>5. Types'
  BY <1>1, <1>2, <1>3 DEF Types
<1>6. ASSUME NEW j \in Inc
      PROVE  /\ thread[j]' = "none" <=> thread[j] = "none"
             /\ thread[j] = "exited" => thread[j]' = "exited"
             /\ err[j]' => thread[j]' \in {"failed", "exited"}
             /\ ~Early(j) => ~Early(j)'
  <2>1. CASE j = k
    BY <2>1, <1>1, <1>2, <1>3, <1>4 DEF Early
  <2>2. CASE j # k
    BY <2>2, <1>1, <1>2, <1>4 DEF Early, Joined, ErrOk
  <2> QED BY <2>1, <2>2
<1>7. Joined'
  BY <1>1, <1>2, <1>5, <1>6, JoinedSame
<1>8. self[k] = "live" /\ id[k] # None /\ slot[id[k]] = k
  <2>1. self[k] \in {"none", "live", "freed"}
    BY <1>1 DEF Types
  <2> QED BY <2>1, <1>1 DEF WorkerOk
<1>9. ASSUME NEW n \in 1 .. Len(queue') PROVE EntryOk(n)'
  <2>1. CASE n \in 1 .. Len(queue) /\ queue'[n].src = queue[n].src /\ queue'[n].id = queue[n].id
    <3>1. EntryOk(n) /\ queue[n].src \in Inc
      <4>1. queue[n] \in Msgs
        BY <2>1, <1>1, ElementOfSeq DEF Types
      <4> QED BY <2>1, <4>1, <1>1 DEF Routed, Msgs
    <3> QED BY <2>1, <3>1, <1>2, <1>6 DEF EntryOk, InTeardown
  <2>2. CASE queue'[n].src = k /\ queue'[n].id = id[k]
    <3>1. ~Early(k)'
      BY <1>1, <1>2, <1>3, <1>4 DEF Early
    <3> QED BY <2>2, <3>1, <1>2, <1>8 DEF EntryOk
  <2> QED BY <2>1, <2>2
<1>10. ASSUME NEW i \in Ids PROVE ObjectOk(i)'
  <2>1. ObjectOk(i)
    BY <1>1 DEF Routed
  <2> QED BY <2>1, <1>2 DEF ObjectOk, InTeardown
<1>11. misrouted' => gapped'
  BY <1>1, <1>2 DEF Routed
<1> QED BY <1>7, <1>9, <1>10, <1>11 DEF WorkerInv, Routed

LEMMA EmitClaimInv ==
  ASSUME WorkerInv, NEW k \in Inc, EmitClaim(k)
  PROVE  WorkerInv'
<1>1. Types
  BY DEF WorkerInv, Joined
<1>2. PICK e : e = [src |-> k, id |-> id[k], linked |-> FALSE]
  OBVIOUS
<1>3. PICK s \in {"script_link", "js_link"} : thread' = [thread EXCEPT ![k] = s]
  BY DEF EmitClaim, To
<1>4. /\ thread[k] \in {"script", "js"} /\ emitted[k] < MaxEmit /\ queue' = Append(queue, e)
      /\ emitted' = [emitted EXCEPT ![k] = @ + 1]
      /\ UNCHANGED <<tableVars, wsd, rsd, self, wake, inq, err, parentVars, histVars>>
  BY <1>2 DEF EmitClaim, InJS, Claim
<1>5. e \in Msgs /\ e.src = k /\ e.id = id[k] /\ queue \in Seq(Msgs)
  <2>1. id[k] \in Ids \cup {None} /\ queue \in Seq(Msgs)
    BY <1>1 DEF Types
  <2> QED BY <2>1, <1>2 DEF Msgs
<1>6. /\ queue' \in Seq(Msgs) /\ Len(queue') = Len(queue) + 1 /\ Len(queue) \in Nat
      /\ queue'[Len(queue) + 1] = e /\ \A n \in 1 .. Len(queue) : queue'[n] = queue[n]
  BY <1>4, <1>5, AppendProperties, LenProperties
<1>7. \A n \in 1 .. Len(queue) + 1 : n \in 1 .. Len(queue) \/ n = Len(queue) + 1
  BY <1>6
<1>8. emitted' \in [Inc -> 0 .. MaxEmit]
  <2>1. emitted[k] \in 0 .. MaxEmit /\ emitted \in [Inc -> 0 .. MaxEmit]
    BY <1>1 DEF Types
  <2>2. emitted[k] + 1 \in 0 .. MaxEmit
    BY <2>1, <1>4, WorkerAssumption
  <2> QED BY <2>1, <2>2, <1>4
<1>9. ASSUME NEW n \in 1 .. Len(queue')
      PROVE  \/ n \in 1 .. Len(queue) /\ queue'[n].src = queue[n].src /\ queue'[n].id = queue[n].id
             \/ queue'[n].src = k /\ queue'[n].id = id[k]
  BY <1>5, <1>6, <1>7
<1> QED BY <1>3, <1>4, <1>6, <1>8, <1>9, PushInv

LEMMA EmitLinkInv ==
  ASSUME WorkerInv, NEW k \in Inc, EmitLink(k)
  PROVE  WorkerInv'
<1>1. Types
  BY DEF WorkerInv, Joined
<1>2. PICK s \in {"script", "js"} : thread' = [thread EXCEPT ![k] = s]
  BY DEF EmitLink, To
<1>3. /\ thread[k] \in {"script_link", "js_link"}
      /\ UNCHANGED <<tableVars, wsd, rsd, self, wake, inq, err, emitted, parentVars, histVars>>
  BY DEF EmitLink
<1>4. PICK m : m = Len(queue)
  OBVIOUS
<1>5. m \in Nat /\ DOMAIN queue = 1 .. m /\ \A n \in 1 .. m : queue[n] \in Msgs
  BY <1>1, <1>4, LenProperties, ElementOfSeq DEF Types
<1>6. queue' = [n \in 1 .. m |-> IF queue[n].src = k
                                 THEN [src |-> k, id |-> queue[n].id, linked |-> TRUE] ELSE queue[n]]
  BY <1>5 DEF EmitLink, Link
<1>7. ASSUME NEW n \in 1 .. m
      PROVE  queue'[n] \in Msgs /\ queue'[n].src = queue[n].src /\ queue'[n].id = queue[n].id
  <2>1. queue[n] \in Msgs
    BY <1>5
  <2>2. CASE queue[n].src = k
    <3>1. queue'[n] = [src |-> k, id |-> queue[n].id, linked |-> TRUE]
      BY <2>2, <1>6
    <3>2. queue[n].id \in Ids \cup {None}
      BY <2>1 DEF Msgs
    <3> QED BY <2>2, <3>1, <3>2 DEF Msgs
  <2>3. CASE queue[n].src # k
    <3>1. queue'[n] = queue[n]
      BY <2>3, <1>6
    <3> QED BY <3>1, <2>1
  <2> QED BY <2>2, <2>3
<1>8. queue' \in Seq(Msgs) /\ Len(queue') = m
  <2>1. queue' \in [1 .. m -> Msgs]
    <3>1. DOMAIN queue' = 1 .. m /\ queue' = [n \in 1 .. m |-> queue'[n]]
      BY <1>6
    <3> QED BY <3>1, <1>7
  <2>2. queue' \in Seq(Msgs)
    BY <2>1, <1>5, SeqDef
  <2> QED BY <2>1, <2>2, <1>5, LenProperties
<1>9. emitted' \in [Inc -> 0 .. MaxEmit]
  BY <1>1, <1>3 DEF Types
<1>10. ASSUME NEW n \in 1 .. Len(queue')
       PROVE  n \in 1 .. Len(queue) /\ queue'[n].src = queue[n].src /\ queue'[n].id = queue[n].id
  BY <1>4, <1>7, <1>8
<1> QED BY <1>2, <1>3, <1>8, <1>9, <1>10, PushInv

LEMMA DispatchInv ==
  ASSUME WorkerInv, Dispatch
  PROVE  WorkerInv'
<1>1. Types /\ Joined /\ Routed
  BY DEF WorkerInv, Joined
<1>2. /\ pc = "js" /\ queue # << >> /\ queue' = Tail(queue)
      /\ misrouted' = (misrouted \/ (queue[1].id # None /\ workers[queue[1].id] \notin {None, queue[1].src}))
      /\ UNCHANGED <<slot, workers, id, wsd, rsd, self, thread, wake, inq, err, emitted, pc, idx,
                     cur, spawned, joins, gapped>>
  BY DEF Dispatch, tableVars, workerVars, parentVars
<1>3. PICK q : q = queue
  OBVIOUS
<1>4. q \in Seq(Msgs) /\ q # << >>
  BY <1>1, <1>2, <1>3 DEF Types
<1>5. /\ Tail(q) \in Seq(Msgs) /\ Len(Tail(q)) = Len(q) - 1 /\ Len(q) \in Nat /\ Len(q) >= 1
      /\ \A n \in 1 .. Len(Tail(q)) : Tail(q)[n] = q[n + 1]
  BY <1>4, HeadTailProperties, LenProperties, EmptySeq
<1>6. \A n \in 1 .. Len(Tail(q)) : n + 1 \in 1 .. Len(q)
  BY <1>5
<1>7. \A n \in 1 .. Len(q) : q[n] \in Msgs
  BY <1>4, ElementOfSeq
<1>8. misrouted' => gapped
  <2>1. EntryOk(1) /\ q[1] \in Msgs
    BY <1>1, <1>3, <1>5, <1>7 DEF Routed
  <2>2. PICK i, k : i = q[1].id /\ k = q[1].src
    OBVIOUS
  <2>3. i \in Ids \cup {None} /\ k \in Inc /\ k # None
    BY <2>1, <2>2 DEF Msgs, Inc, None
  <2>4. i # None /\ (gapped \/ slot[i] = k)
    BY <2>1, <2>2, <1>2, <1>3 DEF EntryOk, InTeardown
  <2>5. gapped \/ workers[i] \in {None, k}
    BY <2>3, <2>4, <1>1, <1>2 DEF Routed, ObjectOk, InTeardown
  <2>6. misrouted => gapped
    BY <1>1 DEF Routed
  <2>7. misrouted' <=> misrouted \/ (i # None /\ workers[i] \notin {None, k})
    BY <1>2, <1>3, <2>2, Zenon
  <2> QED BY <2>5, <2>6, <2>7
<1>9. misrouted' \in BOOLEAN
  BY <1>2, Zenon
<1>10. Types'
  BY <1>1, <1>2, <1>3, <1>5, <1>9 DEF Types
<1>11. Joined'
  <2>1. \A k \in Inc : err[k]' => thread[k]' \in {"failed", "exited"}
    BY <1>1, <1>2 DEF Joined, ErrOk
  <2> QED BY <2>1, <1>1, <1>2, <1>10, JoinedSame
<1>12. ASSUME NEW n \in 1 .. Len(queue') PROVE EntryOk(n)'
  <2>1. n + 1 \in 1 .. Len(q) /\ queue'[n] = q[n + 1]
    BY <1>2, <1>3, <1>5, <1>6
  <2>2. EntryOk(n + 1)
    BY <2>1, <1>1, <1>3 DEF Routed
  <2> QED BY <2>1, <2>2, <1>2, <1>3 DEF EntryOk, Early, InTeardown
<1>13. ASSUME NEW i \in Ids PROVE ObjectOk(i)'
  <2>1. ObjectOk(i)
    BY <1>1 DEF Routed
  <2> QED BY <2>1, <1>2 DEF ObjectOk, InTeardown
<1> QED BY <1>2, <1>8, <1>11, <1>12, <1>13 DEF WorkerInv, Routed

-----------------------------------------------------------------------------
(* The parent's calls *)

LEMMA EntriesKept ==
  ASSUME Types, Routed, UNCHANGED <<queue, misrouted>>, gapped => gapped',
         InTeardown => InTeardown',
         \A k \in Inc : ~Early(k) => ~Early(k)' /\ id'[k] = id[k],
         \A n \in 1 .. Len(queue) :
           gapped' \/ InTeardown' \/ slot'[queue[n].id] = slot[queue[n].id]
  PROVE  (\A n \in 1 .. Len(queue') : EntryOk(n)') /\ (misrouted' => gapped')
<1>1. ASSUME NEW n \in 1 .. Len(queue) PROVE EntryOk(n)'
  <2>1. EntryOk(n) /\ queue[n].src \in Inc
    <3>1. queue[n] \in Msgs
      BY ElementOfSeq DEF Types
    <3> QED BY <3>1 DEF Routed, Msgs
  <2> QED BY <2>1 DEF EntryOk
<1>2. misrouted' => gapped'
  BY DEF Routed
<1> QED BY <1>1, <1>2

(* Steps of the parent that touch neither workers nor slots. *)
LEMMA ParentMoves ==
  ASSUME WorkerInv, Types', CallOk',
         UNCHANGED <<slot, workers, id, err, self, thread, queue, histVars>>,
         spawned' \in {spawned, spawned + 1}, pc # "spin", InTeardown => InTeardown'
  PROVE  WorkerInv'
<1>1. Types /\ Joined /\ Routed
  BY DEF WorkerInv, Joined
<1>2. UNCHANGED <<slot, workers, id, err, self, thread, queue, joins, misrouted, gapped>>
  BY DEF histVars
<1>3. ASSUME NEW k \in Inc PROVE WorkerOk(k)' /\ ErrOk(k)'
  <2>1. WorkerOk(k) /\ ErrOk(k)
    BY <1>1 DEF Joined
  <2>2. k > spawned' => k > spawned
    <3>1. spawned \in Nat /\ k \in Nat
      BY <1>1 DEF Types, Inc
    <3> QED BY <3>1
  <2> QED BY <2>1, <2>2, <1>2 DEF WorkerOk, ErrOk
<1>4. ASSUME NEW i \in Ids PROVE SlotOk(i)' /\ ObjectOk(i)'
  <2>1. SlotOk(i) /\ ObjectOk(i)
    BY <1>1 DEF Joined, Routed
  <2> QED BY <2>1, <1>2 DEF SlotOk, ObjectOk
<1>5. \A k \in Inc : ~Early(k) => ~Early(k)' /\ id'[k] = id[k]
  BY <1>2 DEF Early
<1>6. (\A n \in 1 .. Len(queue') : EntryOk(n)') /\ (misrouted' => gapped')
  BY <1>1, <1>2, <1>5, EntriesKept
<1> QED BY <1>3, <1>4, <1>6 DEF WorkerInv, Joined, Routed

LEMMA SpawnBeginInv ==
  ASSUME WorkerInv, SpawnBegin
  PROVE  WorkerInv'
<1>1. Types
  BY DEF WorkerInv, Joined
<1>2. PICK k : k = spawned + 1
  OBVIOUS
<1>3. /\ pc = "js" /\ spawned < MaxSpawn /\ spawned' = k /\ cur' = k /\ pc' = "reap" /\ idx' = 1
      /\ UNCHANGED <<slot, workers, id, wsd, rsd, self, thread, wake, inq, err, emitted, queue, histVars>>
  BY <1>2 DEF SpawnBegin, tableVars, workerVars
<1>4. k \in Inc /\ k > spawned /\ k \in 0 .. MaxSpawn /\ k # None /\ 1 \in Ids
  BY <1>1, <1>2, <1>3, WorkerAssumption DEF Types, Inc, Ids, None
<1>5. Types'
  BY <1>1, <1>3, <1>4 DEF Types, histVars
<1>6. self[k] = "none"
  BY <1>4 DEF WorkerInv, Joined, WorkerOk
<1>7. CallOk'
  <2>1. k <= k
    BY <1>4
  <2> QED BY <2>1, <1>3, <1>4, <1>6 DEF CallOk
<1>8. InTeardown => InTeardown'
  BY <1>3 DEF InTeardown
<1> QED BY <1>2, <1>3, <1>5, <1>7, <1>8, ParentMoves

LEMMA NextSlotType ==
  ASSUME Types, pc = "reap", NextSlot
  PROVE  idx' \in Ids /\ pc' \in {"reap", "create"}
<1>1. idx \in Ids /\ 1 \in Ids
  BY WorkerAssumption DEF Types, Ids
<1>2. CASE idx < MaxWorkers
  BY <1>1, <1>2, WorkerAssumption DEF NextSlot, Ids
<1>3. CASE ~(idx < MaxWorkers)
  BY <1>1, <1>3 DEF NextSlot
<1> QED BY <1>2, <1>3

LEMMA ReapSkipInv ==
  ASSUME WorkerInv, ReapSkip
  PROVE  WorkerInv'
<1>1. Types
  BY DEF WorkerInv, Joined
<1>2. /\ pc = "reap" /\ NextSlot
      /\ UNCHANGED <<slot, workers, id, wsd, rsd, self, thread, wake, inq, err, emitted, queue, cur,
                     spawned, histVars>>
  BY DEF ReapSkip, tableVars, workerVars
<1>3. idx' \in Ids /\ pc' \in {"reap", "create"}
  BY <1>1, <1>2, NextSlotType
<1>4. Types'
  BY <1>1, <1>2, <1>3 DEF Types, histVars
<1>5. CallOk'
  BY <1>2, <1>3 DEF CallOk, WorkerInv, Joined
<1>6. InTeardown => InTeardown'
  BY <1>2 DEF InTeardown
<1> QED BY <1>2, <1>4, <1>5, <1>6, ParentMoves

LEMMA CreateFailInv ==
  ASSUME WorkerInv, CreateFail
  PROVE  WorkerInv'
<1>1. Types
  BY DEF WorkerInv, Joined
<1>2. /\ pc = "create" /\ pc' = "js" /\ cur' = None
      /\ UNCHANGED <<slot, workers, id, wsd, rsd, self, thread, wake, inq, err, emitted, queue, idx,
                     spawned, histVars>>
  BY DEF CreateFail, tableVars, workerVars
<1>3. Types'
  BY <1>1, <1>2 DEF Types, histVars
<1>4. CallOk' /\ (InTeardown => InTeardown')
  BY <1>2 DEF CallOk, InTeardown
<1> QED BY <1>2, <1>3, <1>4, ParentMoves

LEMMA TeardownBeginInv ==
  ASSUME WorkerInv, TeardownBegin
  PROVE  WorkerInv'
<1>1. Types
  BY DEF WorkerInv, Joined
<1>2. /\ pc = "js" /\ pc' = "td_terminate" /\ idx' = 1
      /\ UNCHANGED <<slot, workers, id, wsd, rsd, self, thread, wake, inq, err, emitted, queue, cur,
                     spawned, histVars>>
  BY DEF TeardownBegin, tableVars, workerVars
<1>3. Types'
  <2>1. 1 \in Ids
    BY WorkerAssumption DEF Ids
  <2> QED BY <2>1, <1>1, <1>2 DEF Types, histVars
<1>4. \A i \in Ids : ~(i < 1)
  BY DEF Ids
<1>5. CallOk' /\ (InTeardown => InTeardown')
  BY <1>2, <1>4 DEF CallOk, InTeardown
<1> QED BY <1>2, <1>3, <1>5, ParentMoves

LEMMA TdTerminateInv ==
  ASSUME WorkerInv, TdTerminate
  PROVE  WorkerInv'
<1>1. Types
  BY DEF WorkerInv, Joined
<1>2. PICK w : w = slot[idx]
  OBVIOUS
<1>3. /\ pc = "td_terminate" /\ pc' = "td_join"
      /\ UNCHANGED <<slot, workers, id, self, thread, inq, err, emitted, queue, idx, cur, spawned, histVars>>
  BY DEF TdTerminate, tableVars
<1>4. w \in Inc \cup {None}
  BY <1>1, <1>2 DEF Types
<1>5. wsd' \in [Inc -> BOOLEAN] /\ rsd' \in [Inc -> BOOLEAN] /\ wake' \in [Inc -> BOOLEAN]
  <2>1. CASE w = None
    <3>1. UNCHANGED <<wsd, rsd, wake>>
      BY <2>1, <1>2 DEF TdTerminate
    <3> QED BY <3>1, <1>1 DEF Types
  <2>2. CASE w # None
    <3>1. TerminateStores(w)
      BY <2>2, <1>2 DEF TdTerminate
    <3> QED BY <3>1, <2>2, <1>1, <1>4, TerminateStoresType
  <2> QED BY <2>1, <2>2
<1>6. Types'
  BY <1>1, <1>3, <1>5 DEF Types, histVars
<1>7. CallOk' /\ (InTeardown => InTeardown')
  BY <1>3 DEF CallOk, InTeardown, WorkerInv, Joined
<1> QED BY <1>3, <1>6, <1>7, ParentMoves

(* The worker w of slot i is joined and freed, if it was not before, and the slot *)
(* is given back or kept.                                                         *)
LEMMA Released ==
  ASSUME Joined, NEW w \in Inc, NEW i \in Ids, slot[i] = w,
         \/ self[w] = "live" /\ Join(w)
         \/ self[w] # "live" /\ UNCHANGED <<joins, self>>,
         slot' \in {slot, [slot EXCEPT ![i] = None]},
         UNCHANGED <<id, thread, err, spawned>>
  PROVE  /\ slot' \in [Ids -> Inc \cup {None}] /\ joins' \in [Inc -> Nat]
         /\ self' \in [Inc -> {"none", "live", "freed"}]
         /\ \A k \in Inc : WorkerOk(k)' /\ ErrOk(k)'
         /\ \A j \in Ids : SlotOk(j)'
         /\ self'[w] = "freed"
<1>1. Types /\ WorkerOk(w) /\ SlotOk(i)
  BY DEF Joined
<1>2. w # None
  BY DEF Inc, None
<1>3. self[w] \in {"live", "freed"} /\ joins[w] \in Nat
  BY <1>1, <1>2 DEF SlotOk, Types
<1>4. slot' \in [Ids -> Inc \cup {None}] /\ \A j \in Ids \ {i} : slot'[j] = slot[j]
  BY <1>1 DEF Types
<1>5. slot'[i] \in {None, w}
  BY <1>1 DEF Types
<1>6. self'[w] = "freed" /\ thread[w] = "exited" /\ joins'[w] = 1 /\ joins' \in [Inc -> Nat]
      /\ self' \in [Inc -> {"none", "live", "freed"}]
  <2>1. CASE self[w] = "live"
    <3>1. /\ thread[w] = "exited" /\ joins' = [joins EXCEPT ![w] = @ + 1]
          /\ self' = [self EXCEPT ![w] = "freed"]
      BY <2>1 DEF Join, At
    <3>2. joins[w] = 0
      BY <2>1, <1>1 DEF WorkerOk
    <3>3. joins' = [joins EXCEPT ![w] = 1]
      BY <3>1, <3>2, <1>1 DEF Types
    <3> QED BY <3>1, <3>3, <1>1 DEF Types
  <2>2. CASE self[w] # "live"
    <3>1. self[w] = "freed"
      BY <2>2, <1>3
    <3>2. UNCHANGED <<joins, self>>
      BY <2>2
    <3> QED BY <3>1, <3>2, <1>1 DEF WorkerOk, Types
  <2> QED BY <2>1, <2>2
<1>7. ASSUME NEW k \in Inc, k # w PROVE self'[k] = self[k] /\ joins'[k] = joins[k]
  BY <1>1, <1>7 DEF Join, Types
<1>8. ASSUME NEW k \in Inc PROVE WorkerOk(k)' /\ ErrOk(k)'
  <2>0. WorkerOk(k) /\ ErrOk(k)
    BY DEF Joined
  <2>1. ErrOk(k)'
    BY <2>0 DEF ErrOk
  <2>2. CASE k = w
    BY <2>0, <2>1, <2>2, <1>3, <1>6 DEF WorkerOk
  <2>3. CASE k # w
    <3>1. self[k] = "live" => id[k] \in Ids /\ id[k] # i
      BY <2>0, <2>3, <1>1 DEF WorkerOk, Types
    <3> QED BY <2>0, <2>1, <2>3, <3>1, <1>4, <1>7 DEF WorkerOk
  <2> QED BY <2>2, <2>3
<1>9. ASSUME NEW j \in Ids PROVE SlotOk(j)'
  <2>0. SlotOk(j) /\ (slot[j] # None => slot[j] \in Inc)
    BY <1>1 DEF Joined, Types
  <2>1. CASE j = i
    BY <2>0, <2>1, <1>1, <1>2, <1>5, <1>6 DEF SlotOk
  <2>2. CASE j # i
    <3>1. slot[j] # None => slot[j] # w
      BY <2>0, <2>2, <1>1, <1>2 DEF SlotOk
    <3> QED BY <2>0, <2>2, <3>1, <1>4, <1>7 DEF SlotOk
  <2> QED BY <2>1, <2>2
<1> QED BY <1>4, <1>6, <1>8, <1>9

LEMMA ReapInv ==
  ASSUME WorkerInv, Reap
  PROVE  WorkerInv'
<1>1. Types /\ Joined /\ Routed
  BY DEF WorkerInv, Joined
<1>2. PICK i, w : i = idx /\ w = slot[i]
  OBVIOUS
<1>3. /\ pc = "reap" /\ w # None /\ NextSlot
      /\ gapped' = (gapped \/ (slot'[i] = None /\ Visible # DOMAIN queue))
      /\ slot' = IF MsgQueued(i) THEN slot ELSE [slot EXCEPT ![i] = None]
      /\ IF self[w] = "live" THEN Join(w) ELSE UNCHANGED <<joins, self>>
      /\ UNCHANGED <<workers, id, wsd, rsd, thread, wake, inq, err, emitted, queue, cur, spawned, misrouted>>
  BY <1>2 DEF Reap, AskedToExit
<1>4. i \in Ids /\ w \in Inc
  BY <1>1, <1>2, <1>3 DEF Types
<1>5. slot' \in {slot, [slot EXCEPT ![i] = None]}
  BY <1>3
<1>6. /\ slot' \in [Ids -> Inc \cup {None}] /\ joins' \in [Inc -> Nat]
      /\ self' \in [Inc -> {"none", "live", "freed"}]
      /\ \A k \in Inc : WorkerOk(k)' /\ ErrOk(k)'
      /\ \A j \in Ids : SlotOk(j)'
      /\ self'[w] = "freed"
  BY <1>1, <1>2, <1>3, <1>4, <1>5, Released
<1>7. idx' \in Ids /\ pc' \in {"reap", "create"}
  BY <1>1, <1>3, NextSlotType
<1>8. gapped' \in BOOLEAN
  BY <1>3, Zenon
<1>9. Types'
  BY <1>1, <1>3, <1>6, <1>7, <1>8 DEF Types
<1>10. CallOk'
  <2>1. cur # None /\ cur <= spawned /\ self[cur] = "none" /\ cur \in Inc
    BY <1>1, <1>3 DEF Joined, CallOk, Types
  <2>2. self[w] # "none"
    BY <1>1, <1>2, <1>3, <1>4 DEF Joined, SlotOk
  <2>3. self'[cur] = "none"
    BY <2>1, <2>2, <1>1, <1>3, <1>4 DEF Join, Types
  <2> QED BY <2>1, <2>3, <1>3, <1>7 DEF CallOk
<1>11. ASSUME NEW n \in 1 .. Len(queue)
       PROVE  gapped' \/ slot'[queue[n].id] = slot[queue[n].id]
  <2>1. CASE MsgQueued(i)
    BY <2>1, <1>3
  <2>2. CASE ~MsgQueued(i)
    <3>1. slot' = [slot EXCEPT ![i] = None] /\ slot'[i] = None
      BY <2>2, <1>1, <1>3, <1>4 DEF Types
    <3>2. n \in DOMAIN queue
      BY <1>1, VisibleCount
    <3>3. CASE Visible = DOMAIN queue
      <4>1. queue[n].id # i
        BY <2>2, <3>2, <3>3 DEF MsgQueued
      <4> QED BY <4>1, <3>1, <1>1 DEF Types
    <3>4. CASE Visible # DOMAIN queue
      BY <3>1, <3>4, <1>3, Zenon
    <3> QED BY <3>3, <3>4
  <2> QED BY <2>1, <2>2
<1>12. /\ gapped => gapped'
       /\ InTeardown => InTeardown'
       /\ \A k \in Inc : ~Early(k) => ~Early(k)' /\ id'[k] = id[k]
  <2>1. gapped => gapped'
    BY <1>3, Zenon
  <2>2. \A k \in Inc : ~Early(k) => ~Early(k)' /\ id'[k] = id[k]
    BY <1>3 DEF Early
  <2> QED BY <2>1, <2>2, <1>3 DEF InTeardown
<1>13. (\A n \in 1 .. Len(queue') : EntryOk(n)') /\ (misrouted' => gapped')
  BY <1>1, <1>3, <1>11, <1>12, EntriesKept
<1>14. ASSUME NEW j \in Ids PROVE ObjectOk(j)'
  <2>1. slot'[j] \in {None, slot[j]}
    BY <1>1, <1>3 DEF Types
  <2>2. ObjectOk(j)
    BY <1>1 DEF Routed
  <2> QED BY <2>1, <2>2, <1>3 DEF ObjectOk, InTeardown
<1> QED BY <1>6, <1>9, <1>10, <1>13, <1>14 DEF WorkerInv, Joined, Routed

LEMMA CreateThreadInv ==
  ASSUME WorkerInv, CreateThread
  PROVE  WorkerInv'
<1>1. Types /\ Joined /\ Routed
  BY DEF WorkerInv, Joined
<1>2. PICK i : i = CHOOSE j \in FreeSlots : \A h \in FreeSlots : j <= h
  OBVIOUS
<1>3. i \in Ids /\ slot[i] = None /\ i # None
  <2>1. i \in FreeSlots
    BY <1>2, FirstFreeSlot DEF CreateThread
  <2> QED BY <2>1 DEF FreeSlots, Ids, None
<1>4. PICK c : c = cur
  OBVIOUS
<1>5. /\ pc = "create" /\ slot' = [slot EXCEPT ![i] = c] /\ id' = [id EXCEPT ![c] = i]
      /\ self' = [self EXCEPT ![c] = "live"] /\ thread' = [thread EXCEPT ![c] = "init"]
      /\ pc' = "spin"
      /\ UNCHANGED <<workers, wsd, rsd, wake, inq, err, emitted, queue, idx, cur, spawned,
                     joins, misrouted, gapped>>
  BY <1>2, <1>4 DEF CreateThread, To, histVars
<1>6. c \in Inc /\ c # None /\ c <= spawned /\ self[c] = "none"
  BY <1>1, <1>4, <1>5 DEF Joined, CallOk, Types
<1>7. thread[c] = "none" /\ joins[c] = 0 /\ ~err[c]
  BY <1>1, <1>6 DEF Joined, WorkerOk, ErrOk
<1>8. Types'
  <2>1. "init" \in ThreadStates
    BY DEF ThreadStates
  <2> QED BY <2>1, <1>1, <1>3, <1>5, <1>6 DEF Types
<1>9. ASSUME NEW k \in Inc, k # c
      PROVE  id'[k] = id[k] /\ self'[k] = self[k] /\ thread'[k] = thread[k]
  BY <1>1, <1>5, <1>9 DEF Types
<1>10. ASSUME NEW j \in Ids, j # i PROVE slot'[j] = slot[j]
  BY <1>1, <1>5, <1>10 DEF Types
<1>11. slot'[i] = c /\ id'[c] = i /\ self'[c] = "live" /\ thread'[c] = "init"
  BY <1>1, <1>3, <1>5, <1>6 DEF Types
<1>12. ASSUME NEW k \in Inc PROVE WorkerOk(k)' /\ ErrOk(k)'
  <2>0. WorkerOk(k) /\ ErrOk(k)
    BY <1>1 DEF Joined
  <2>1. CASE k = c
    <3>1. ~(c > spawned)
      BY <1>1, <1>6 DEF Types, Inc
    <3> QED BY <2>0, <2>1, <3>1, <1>3, <1>5, <1>7, <1>11 DEF WorkerOk, ErrOk
  <2>2. CASE k # c
    <3>1. self[k] = "live" => id[k] \in Ids /\ id[k] # i
      <4>1. k # None
        BY DEF Inc, None
      <4> QED BY <4>1, <2>0, <1>1, <1>3 DEF WorkerOk, Types
    <3> QED BY <2>0, <2>2, <3>1, <1>5, <1>9, <1>10 DEF WorkerOk, ErrOk
  <2> QED BY <2>1, <2>2
<1>13. ASSUME NEW j \in Ids PROVE SlotOk(j)' /\ ObjectOk(j)'
  <2>0. SlotOk(j) /\ ObjectOk(j) /\ (slot[j] # None => slot[j] \in Inc)
    BY <1>1 DEF Joined, Routed, Types
  <2>1. CASE j = i
    BY <2>1, <1>4, <1>5, <1>11 DEF SlotOk, ObjectOk
  <2>2. CASE j # i
    <3>1. slot[j] # None => slot[j] # c
      BY <2>0, <1>6 DEF SlotOk
    <3> QED BY <2>0, <2>2, <3>1, <1>5, <1>9, <1>10 DEF SlotOk, ObjectOk, InTeardown
  <2> QED BY <2>1, <2>2
<1>14. CallOk'
  BY <1>4, <1>5, <1>6, <1>11 DEF CallOk
<1>15. \A k \in Inc : ~Early(k) => ~Early(k)' /\ id'[k] = id[k]
  BY <1>5, <1>7, <1>9 DEF Early
<1>16. ASSUME NEW n \in 1 .. Len(queue)
       PROVE  gapped' \/ InTeardown' \/ slot'[queue[n].id] = slot[queue[n].id]
  <2>1. queue[n] \in Msgs /\ EntryOk(n)
    BY <1>1, ElementOfSeq DEF Types, Routed
  <2>2. queue[n].id \in Ids /\ queue[n].src # None
    BY <2>1 DEF EntryOk, Msgs, Inc, None
  <2>3. CASE queue[n].id = i
    BY <2>1, <2>2, <2>3, <1>3, <1>5 DEF EntryOk, InTeardown
  <2>4. CASE queue[n].id # i
    BY <2>2, <2>4, <1>10
  <2> QED BY <2>3, <2>4
<1>17. (\A n \in 1 .. Len(queue') : EntryOk(n)') /\ (misrouted' => gapped')
  <2>1. InTeardown => InTeardown'
    BY <1>5 DEF InTeardown
  <2> QED BY <2>1, <1>1, <1>5, <1>15, <1>16, EntriesKept
<1> QED BY <1>8, <1>12, <1>13, <1>14, <1>17 DEF WorkerInv, Joined, Routed

LEMMA CreateReturnInv ==
  ASSUME WorkerInv, CreateReturn
  PROVE  WorkerInv'
<1>1. Types /\ Joined /\ Routed
  BY DEF WorkerInv, Joined
<1>2. PICK c, i : c = cur /\ i = id[c]
  OBVIOUS
<1>3. /\ pc = "spin" /\ workers' = [workers EXCEPT ![i] = c] /\ pc' = "js" /\ cur' = None
      /\ UNCHANGED <<slot, id, wsd, rsd, self, thread, wake, inq, err, emitted, queue, idx, spawned,
                     joins, misrouted, gapped>>
  BY <1>2 DEF CreateReturn, workerVars, histVars
<1>4. c \in Inc /\ self[c] = "live" /\ i \in Ids /\ slot[i] = c
  <2>1. c \in Inc /\ self[c] = "live"
    BY <1>1, <1>2, <1>3 DEF Joined, CallOk, Types
  <2> QED BY <2>1, <1>1, <1>2 DEF Joined, WorkerOk, Types
<1>5. Types'
  BY <1>1, <1>3, <1>4 DEF Types
<1>6. ASSUME NEW k \in Inc PROVE WorkerOk(k)' /\ ErrOk(k)'
  <2>1. WorkerOk(k) /\ ErrOk(k)
    BY <1>1 DEF Joined
  <2> QED BY <2>1, <1>3 DEF WorkerOk, ErrOk
<1>7. ASSUME NEW j \in Ids PROVE SlotOk(j)' /\ ObjectOk(j)'
  <2>0. SlotOk(j) /\ ObjectOk(j)
    BY <1>1 DEF Joined, Routed
  <2>1. SlotOk(j)'
    BY <2>0, <1>3 DEF SlotOk
  <2>2. CASE j = i
    BY <2>1, <2>2, <1>1, <1>3, <1>4 DEF ObjectOk, Types
  <2>3. CASE j # i
    <3>1. workers'[j] = workers[j]
      BY <2>3, <1>1, <1>3 DEF Types
    <3>2. slot[j] # None => slot[j] # c
      BY <2>0, <2>3, <1>2 DEF SlotOk
    <3> QED BY <2>0, <2>1, <3>1, <3>2, <1>2, <1>3 DEF ObjectOk, InTeardown
  <2> QED BY <2>2, <2>3
<1>8. CallOk'
  BY <1>3 DEF CallOk
<1>9. (\A n \in 1 .. Len(queue') : EntryOk(n)') /\ (misrouted' => gapped')
  <2>1. \A k \in Inc : ~Early(k) => ~Early(k)' /\ id'[k] = id[k]
    BY <1>3 DEF Early
  <2>2. InTeardown => InTeardown'
    BY <1>3 DEF InTeardown
  <2> QED BY <2>1, <2>2, <1>1, <1>3, EntriesKept
<1> QED BY <1>5, <1>6, <1>7, <1>8, <1>9 DEF WorkerInv, Joined, Routed

LEMMA CreateErrorInv ==
  ASSUME WorkerInv, CreateError
  PROVE  WorkerInv'
<1>1. Types /\ Joined /\ Routed
  BY DEF WorkerInv, Joined
<1>2. PICK c, i : c = cur /\ i = id[c]
  OBVIOUS
<1>3. /\ pc = "spin" /\ err[c] /\ Join(c) /\ slot' = [slot EXCEPT ![i] = None]
      /\ pc' = "js" /\ cur' = None
      /\ UNCHANGED <<workers, id, wsd, rsd, thread, wake, inq, err, emitted, queue, idx, spawned,
                     misrouted, gapped>>
  BY <1>2 DEF CreateError
<1>4. c \in Inc /\ self[c] = "live" /\ i \in Ids /\ slot[i] = c
  <2>1. c \in Inc /\ self[c] = "live"
    BY <1>1, <1>2, <1>3 DEF Joined, CallOk, Types
  <2> QED BY <2>1, <1>1, <1>2 DEF Joined, WorkerOk, Types
<1>5. /\ slot' \in [Ids -> Inc \cup {None}] /\ joins' \in [Inc -> Nat]
      /\ self' \in [Inc -> {"none", "live", "freed"}]
      /\ \A k \in Inc : WorkerOk(k)' /\ ErrOk(k)'
      /\ \A j \in Ids : SlotOk(j)'
  BY <1>1, <1>3, <1>4, Released
<1>6. Types'
  BY <1>1, <1>3, <1>5 DEF Types
<1>7. CallOk'
  BY <1>3 DEF CallOk
<1>8. ASSUME NEW n \in 1 .. Len(queue)
      PROVE  gapped' \/ InTeardown' \/ slot'[queue[n].id] = slot[queue[n].id]
  <2>1. queue[n] \in Msgs /\ EntryOk(n)
    BY <1>1, ElementOfSeq DEF Types, Routed
  <2>2. queue[n].id \in Ids
    BY <2>1 DEF EntryOk, Msgs
  <2>3. CASE queue[n].id = i
    <3>1. Early(c)
      BY <1>3 DEF Early
    <3>2. queue[n].src # c
      BY <2>1, <3>1 DEF EntryOk
    <3> QED BY <2>1, <2>3, <3>2, <1>3, <1>4 DEF EntryOk, InTeardown
  <2>4. CASE queue[n].id # i
    BY <2>2, <2>4, <1>1, <1>3 DEF Types
  <2> QED BY <2>3, <2>4
<1>9. (\A n \in 1 .. Len(queue') : EntryOk(n)') /\ (misrouted' => gapped')
  <2>1. \A k \in Inc : ~Early(k) => ~Early(k)' /\ id'[k] = id[k]
    BY <1>3 DEF Early
  <2>2. InTeardown => InTeardown'
    BY <1>3 DEF InTeardown
  <2> QED BY <2>1, <2>2, <1>1, <1>3, <1>8, EntriesKept
<1>10. ASSUME NEW j \in Ids PROVE ObjectOk(j)'
  <2>0. SlotOk(j) /\ ObjectOk(j)
    BY <1>1 DEF Joined, Routed
  <2>1. CASE j = i
    BY <2>1, <1>1, <1>3 DEF ObjectOk, Types
  <2>2. CASE j # i
    <3>1. slot'[j] = slot[j]
      BY <2>2, <1>1, <1>3 DEF Types
    <3>2. slot[j] # None => slot[j] # c
      BY <2>0, <2>2, <1>2 DEF SlotOk
    <3> QED BY <2>0, <3>1, <3>2, <1>2, <1>3 DEF ObjectOk, InTeardown
  <2> QED BY <2>1, <2>2
<1> QED BY <1>5, <1>6, <1>7, <1>9, <1>10 DEF WorkerInv, Joined, Routed

LEMMA TdJoinInv ==
  ASSUME WorkerInv, TdJoin
  PROVE  WorkerInv'
<1>1. Types /\ Joined /\ Routed
  BY DEF WorkerInv, Joined
<1>2. PICK i, w : i = idx /\ w = slot[i]
  OBVIOUS
<1>3. /\ pc = "td_join" /\ slot' = [slot EXCEPT ![i] = None]
      /\ IF w # None /\ self[w] = "live" THEN Join(w) ELSE UNCHANGED <<joins, self>>
      /\ UNCHANGED <<workers, id, wsd, rsd, thread, wake, inq, err, emitted, cur, spawned,
                     misrouted, gapped>>
  BY <1>2 DEF TdJoin
<1>4. i \in Ids /\ w \in Inc \cup {None} /\ i \in Nat
  <2>1. i \in Ids /\ w \in Inc \cup {None}
    BY <1>1, <1>2 DEF Types
  <2> QED BY <2>1 DEF Ids
<1>5. /\ slot' \in [Ids -> Inc \cup {None}] /\ joins' \in [Inc -> Nat]
      /\ self' \in [Inc -> {"none", "live", "freed"}]
      /\ \A k \in Inc : WorkerOk(k)' /\ ErrOk(k)'
      /\ \A j \in Ids : SlotOk(j)'
  <2>1. CASE w # None
    BY <2>1, <1>1, <1>2, <1>3, <1>4, Released
  <2>2. CASE w = None
    <3>1. UNCHANGED <<joins, self, slot>>
      BY <2>2, <1>1, <1>2, <1>3, <1>4 DEF Types
    <3>2. \A k \in Inc : WorkerOk(k)' /\ ErrOk(k)'
      BY <3>1, <1>1, <1>3 DEF Joined, WorkerOk, ErrOk
    <3>3. \A j \in Ids : SlotOk(j)'
      BY <3>1, <1>1, <1>3 DEF Joined, SlotOk
    <3> QED BY <3>1, <3>2, <3>3, <1>1 DEF Types
  <2> QED BY <2>1, <2>2
<1>6. \A j \in Ids : j < i \/ j = i => slot'[j] = None
  BY <1>1, <1>2, <1>3, <1>4 DEF Joined, CallOk, Types
<1>7. InTeardown'
  BY DEF TdJoin, InTeardown
<1>8. \A k \in Inc : ~Early(k) => ~Early(k)' /\ id'[k] = id[k]
  BY <1>3 DEF Early
<1>9. ASSUME NEW j \in Ids PROVE ObjectOk(j)'
  BY <1>7 DEF ObjectOk
<1>10. CASE idx < MaxWorkers
  <2>1. idx' = i + 1 /\ pc' = "td_terminate" /\ queue' = queue
    BY <1>2, <1>10 DEF TdJoin
  <2>2. i + 1 \in Ids
    BY <1>2, <1>4, <1>10, WorkerAssumption DEF Ids
  <2>3. Types'
    BY <2>1, <2>2, <1>1, <1>3, <1>5 DEF Types
  <2>4. \A j \in Ids : j < i + 1 => j < i \/ j = i
    BY <1>4 DEF Ids
  <2>5. CallOk'
    BY <2>1, <2>4, <1>6 DEF CallOk
  <2>6. (\A n \in 1 .. Len(queue') : EntryOk(n)') /\ (misrouted' => gapped')
    BY <2>1, <1>1, <1>3, <1>7, <1>8, EntriesKept
  <2> QED BY <2>3, <2>5, <2>6, <1>5, <1>9 DEF WorkerInv, Joined, Routed
<1>11. CASE ~(idx < MaxWorkers)
  <2>1. PICK c, m : c = Cardinality(Visible) /\ m = Len(queue)
    OBVIOUS
  <2>2. c \in Nat /\ m \in Nat /\ queue \in Seq(Msgs)
    BY <2>1, <1>1, VisibleCount DEF Types
  <2>3. idx' = 1 /\ pc' = "done" /\ queue' = SubSeq(queue, c + 1, m)
    BY <2>1, <1>11 DEF TdJoin
  <2>4. /\ queue' \in Seq(Msgs) /\ Len(queue') \in Nat
        /\ \A n \in 1 .. Len(queue') : c + n \in 1 .. m /\ queue'[n] = queue[c + n]
    <3>1. queue' \in Seq(Msgs)
      BY <2>1, <2>2, <2>3
    <3>2. Len(queue') = IF c + 1 <= m THEN m - c ELSE 0
      BY <2>1, <2>2, <2>3
    <3>3. ASSUME NEW n \in 1 .. Len(queue') PROVE c + n \in 1 .. m /\ queue'[n] = queue[c + n]
      <4>1. c + 1 <= m /\ n \in 1 .. m - c /\ c + n \in 1 .. m
        BY <3>2, <2>2
      <4>2. queue'[n] = queue[c + 1 + n - 1]
        BY <4>1, <2>1, <2>2, <2>3, SMTT(30)
      <4>3. c + 1 + n - 1 = c + n
        BY <2>2
      <4> QED BY <4>1, <4>2, <4>3
    <3> QED BY <3>1, <3>2, <3>3, <2>2
  <2>5. Types'
    <3>1. 1 \in Ids
      BY WorkerAssumption DEF Ids
    <3> QED BY <3>1, <2>3, <2>4, <1>1, <1>3, <1>5 DEF Types
  <2>6. \A j \in Ids : j < i \/ j = i
    BY <1>2, <1>4, <1>11, WorkerAssumption DEF Ids
  <2>7. CallOk'
    BY <2>3, <2>6, <1>6 DEF CallOk
  <2>8. ASSUME NEW n \in 1 .. Len(queue') PROVE EntryOk(n)'
    <3>1. PICK l : l = c + n
      OBVIOUS
    <3>2. l \in 1 .. Len(queue) /\ queue'[n] = queue[l]
      BY <3>1, <2>1, <2>4
    <3>3. EntryOk(l) /\ queue[l].src \in Inc
      <4>1. queue[l] \in Msgs
        BY <3>2, <2>2, ElementOfSeq
      <4> QED BY <4>1, <3>2, <1>1 DEF Routed, Msgs
    <3> QED BY <3>2, <3>3, <1>7, <1>8 DEF EntryOk
  <2>9. misrouted' => gapped'
    BY <1>1, <1>3 DEF Routed
  <2> QED BY <2>5, <2>7, <2>8, <2>9, <1>5, <1>9 DEF WorkerInv, Joined, Routed
<1> QED BY <1>10, <1>11

-----------------------------------------------------------------------------
(* The theorems *)

LEMMA WorkerSameInv == WorkerInv /\ UNCHANGED vars => WorkerInv'
<1> SUFFICES ASSUME WorkerInv, UNCHANGED vars PROVE WorkerInv'
  OBVIOUS
<1>1. UNCHANGED <<slot, workers, id, wsd, rsd, self, thread, wake, inq, err, emitted, queue, pc,
                  idx, cur, spawned, joins, misrouted, gapped>>
  BY DEF vars, tableVars, workerVars, parentVars, histVars
<1>2. Types /\ Joined /\ Routed
  BY DEF WorkerInv, Joined
<1>3. Types'
  BY <1>1, <1>2 DEF Types
<1>4. Joined'
  <2>1. \A k \in Inc : err[k]' => thread[k]' \in {"failed", "exited"}
    BY <1>1, <1>2 DEF Joined, ErrOk
  <2> QED BY <2>1, <1>1, <1>2, <1>3, JoinedSame
<1>5. Routed'
  <2>1. \A k \in Inc : ~Early(k) => ~Early(k)'
    BY <1>1 DEF Early
  <2> QED BY <2>1, <1>1, <1>2, RoutedSame
<1> QED BY <1>4, <1>5 DEF WorkerInv

LEMMA WorkerNextInv == WorkerInv /\ [Next]_vars => WorkerInv'
<1> SUFFICES ASSUME WorkerInv, [Next]_vars PROVE WorkerInv'
  OBVIOUS
<1>1. CASE ReapSkip \/ Reap \/ CreateFail \/ CreateThread
  BY <1>1, ReapSkipInv, ReapInv, CreateFailInv, CreateThreadInv
<1>2. CASE CreateReturn \/ CreateError \/ TdTerminate \/ TdJoin
  BY <1>2, CreateReturnInv, CreateErrorInv, TdTerminateInv, TdJoinInv
<1>3. CASE SpawnBegin \/ Dispatch \/ TeardownBegin
  BY <1>3, SpawnBeginInv, DispatchInv, TeardownBeginInv
<1>4. ASSUME NEW k \in Inc, WorkerStep(k) \/ WorkerEvent(k) PROVE WorkerInv'
  BY <1>4, WorkerMovesInv, EmitLinkInv DEF WorkerStep
<1>5. ASSUME NEW k \in Inc, EmitClaim(k) \/ WorkerClose(k) \/ Post(k) \/ Terminate(k)
      PROVE  WorkerInv'
  BY <1>5, EmitClaimInv, WorkerCloseInv, PostInv, TerminateInv
<1>6. CASE UNCHANGED vars
  BY <1>6, WorkerSameInv
<1> QED BY <1>1, <1>2, <1>3, <1>4, <1>5, <1>6 DEF Next, ParentInCall, Finished

LEMMA WorkerInvariant == Spec => []WorkerInv
<1> QED BY WorkerInitInv, WorkerNextInv, PTL DEF Spec

LEMMA JoinedSuffices == WorkerInv => WorkersAreJoined
<1> SUFFICES ASSUME WorkerInv PROVE WorkersAreJoined
  OBVIOUS
<1>1. Types /\ Joined
  BY DEF WorkerInv, Joined
<1>2. TypeOK
  <2>1. {wsd, rsd, wake, err} \subseteq [Inc -> BOOLEAN] /\ {misrouted, gapped} \subseteq BOOLEAN
    BY <1>1 DEF Types
  <2>2. ASSUME NEW n \in DOMAIN queue PROVE queue[n].src \in Inc /\ queue[n].id \in Ids \cup {None}
    <3>1. queue[n] \in Msgs
      BY <1>1, VisibleCount, ElementOfSeq DEF Types
    <3> QED BY <3>1 DEF Msgs
  <2> QED BY <2>1, <2>2, <1>1 DEF TypeOK, Types
<1>3. FreedAfterJoin
  BY <1>1 DEF FreedAfterJoin, Joined, WorkerOk
<1>4. NoWorkerOutlivesParent
  <2> SUFFICES ASSUME pc = "done", NEW k \in Inc
               PROVE  thread[k] \in {"none", "exited"} /\ self[k] # "live"
    BY DEF NoWorkerOutlivesParent
  <2>1. WorkerOk(k) /\ self[k] \in {"none", "live", "freed"} /\ id[k] \in Ids \cup {None} /\ k # None
    BY <1>1 DEF Joined, Types, Inc, None
  <2>2. self[k] # "live"
    BY <2>1, <1>1 DEF WorkerOk, Joined, CallOk
  <2> QED BY <2>1, <2>2 DEF WorkerOk
<1> QED BY <1>2, <1>3, <1>4 DEF WorkersAreJoined

(* Of qz_worker_reap, qz_worker_create and step 0 of qz_thread_teardown, for   *)
(* any number of slots and workers: a worker's runtime is freed only after its *)
(* thread was joined, exactly once, and none outlives the parent.              *)
THEOREM WorkersJoined == Spec => []WorkersAreJoined
<1> QED BY WorkerInvariant, JoinedSuffices, PTL

(* Of qz_worker_reap and __qz_dispatch__: a message reaches the Worker object  *)
(* of another worker only if some slot was given back while a push was between *)
(* its claim and its link, however often ids are reused.                       *)
THEOREM OnlyGapsMisroute == Spec => []LinkedAreNotMisrouted
<1>1. WorkerInv => LinkedAreNotMisrouted
  BY DEF WorkerInv, Routed, LinkedAreNotMisrouted
<1> QED BY <1>1, WorkerInvariant, PTL

(* Of js_pal_worker_terminate and qz_worker_reap, for any use of Worker objects *)
(* whose id has passed to another worker: terminate on an object whose worker    *)
(* has not been joined asks no other worker to exit, because that worker still    *)
(* has its slot.                                                                 *)
THEOREM TerminateStaysOwn == Spec => TerminateIsOwn
<1>1. WorkerInv /\ [Next]_vars
      => [\A k \in Inc : Terminate(k) /\ joins[k] = 0 => \A w \in Inc \ {k} : wsd'[w] = wsd[w]]_vars
  <2> SUFFICES ASSUME WorkerInv, NEW k \in Inc, Terminate(k), joins[k] = 0, NEW w \in Inc \ {k}
               PROVE  wsd'[w] = wsd[w]
    OBVIOUS
  <2>1. Types /\ WorkerOk(k) /\ id[k] # None
    BY DEF WorkerInv, Joined, Terminate, Usable
  <2>2. slot[id[k]] = k
    <3>1. self[k] \in {"none", "live", "freed"}
      BY <2>1 DEF Types
    <3>2. self[k] # "freed"
      BY <2>1 DEF WorkerOk
    <3> QED BY <2>1, <3>1, <3>2 DEF WorkerOk
  <2> QED BY <2>1, <2>2 DEF Terminate, TerminateStores, Types
<1> QED BY <1>1, WorkerInvariant, PTL DEF Spec, TerminateIsOwn
=============================================================================
