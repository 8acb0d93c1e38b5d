---------------------------- MODULE StorageRelay ----------------------------
(***************************************************************************)
(* Synchronous storage requests of worker processes.  The root runtime owns *)
(* the store; a worker process asks its parent and blocks (pal.storageSync, *)
(* child_storage_sync in src/src/rt_main.c); a worker that has workers of   *)
(* its own is a relay: it forwards their requests to its parent             *)
(* (pal.storageRelay in src/src/bridge.c) and hands the answers down by     *)
(* correlation number (process_rx in rt_main.c).                            *)
(*                                                                         *)
(* The tree here: the owner, one relay, and the relay's children.  A relay  *)
(* also makes requests of its own.  A request or an answer carries the       *)
(* process it is for, which the code does not look at: it is the history    *)
(* that the properties read.                                                *)
(***************************************************************************)
EXTENDS Naturals, Sequences, FiniteSets, SequencesExt

CONSTANTS
    Kids,         \* children of the relay, in the course of time
    MaxRelays,    \* QZ_MAX_PROC_HANDLES (64): live children, and storage_relays
    MaxAsk        \* bound: requests of one process

RelayId == "relay"
Procs == Kids \cup {RelayId}

ASSUME RelayAssumption ==
    /\ IsFiniteSet(Kids) /\ Kids \cap {RelayId, "owner"} = {}
    /\ MaxRelays \in Nat \ {0} /\ MaxAsk \in Nat

VARIABLES
    life,         \* life[p]: "none", "run" or "dead"; life["owner"] too
    seq,          \* seq[p]: rt->storage_corr_seq
    wait,         \* wait[p]: g_sync_corr while the process blocks, else 0
    relays,       \* rt->storage_relays of the relay
    kidUp, kidDown, ownUp, ownDown,   \* the channels, frames in order
    answers,      \* history: answers[p], whose answers p's calls returned
    refused       \* history: the children whose request the relay dropped

relayVars == <<life, seq, wait, relays, kidUp, kidDown, ownUp, ownDown, answers, refused>>

FreeRelay == [up |-> 0, down |-> 0, child |-> RelayId]

RelayInit ==
    /\ life = [p \in Procs \cup {"owner"} |-> IF p \in Kids THEN "none" ELSE "run"]
    /\ seq = [p \in Procs |-> 0] /\ wait = [p \in Procs |-> 0]
    /\ relays = [i \in 1 .. MaxRelays |-> FreeRelay]
    /\ kidUp = [c \in Kids |-> << >>] /\ kidDown = [c \in Kids |-> << >>]
    /\ ownUp = << >> /\ ownDown = << >>
    /\ answers = [p \in Procs |-> << >>] /\ refused = {}

Runs(p) == life[p] = "run"
Frame(corr, for) == [corr |-> corr, for |-> for]

-----------------------------------------------------------------------------
(* pal.processSpawn of the relay: at most MaxRelays children live. *)
KidSpawns(c) ==
    /\ Runs(RelayId) /\ wait[RelayId] = 0 /\ life[c] = "none"
    /\ Cardinality({k \in Kids : Runs(k)}) < MaxRelays
    /\ life' = [life EXCEPT ![c] = "run"]
    /\ UNCHANGED <<seq, wait, relays, kidUp, kidDown, ownUp, ownDown, answers, refused>>

KidDies(c) ==
    /\ Runs(c)
    /\ life' = [life EXCEPT ![c] = "dead"]
    /\ wait' = [wait EXCEPT ![c] = 0]
    /\ kidUp' = [kidUp EXCEPT ![c] = << >>] /\ kidDown' = [kidDown EXCEPT ![c] = << >>]
    /\ UNCHANGED <<seq, relays, ownUp, ownDown, answers, refused>>

(* js_pal_storage_sync and child_storage_sync: a new number, the whole frame    *)
(* is sent, and the process waits.                                             *)
StorageSync(p) ==
    /\ Runs(p) /\ wait[p] = 0 /\ seq[p] < MaxAsk
    /\ seq' = [seq EXCEPT ![p] = @ + 1]
    /\ wait' = [wait EXCEPT ![p] = seq[p] + 1]
    /\ IF p = RelayId
       THEN ownUp' = Append(ownUp, Frame(seq[p] + 1, p)) /\ UNCHANGED kidUp
       ELSE kidUp' = [kidUp EXCEPT ![p] = Append(@, Frame(seq[p] + 1, p))] /\ UNCHANGED ownUp
    /\ UNCHANGED <<life, relays, kidDown, ownDown, answers, refused>>

(* Faulty variant: the child's number is used on the way up. *)
PassingStorageRelay(c) ==
    /\ Runs(RelayId) /\ wait[RelayId] = 0 /\ kidUp[c] # << >>
    /\ LET f == Head(kidUp[c])
           free == {i \in 1 .. MaxRelays : relays[i].up = 0}
       IN  IF free = {}
           THEN refused' = refused \cup {c} /\ UNCHANGED <<seq, relays, ownUp>>
           ELSE /\ relays' = [relays EXCEPT ![CHOOSE i \in free : \A j \in free : i <= j] =
                                  [up |-> f.corr, down |-> f.corr, child |-> c]]
                /\ ownUp' = Append(ownUp, Frame(f.corr, f.for))
                /\ UNCHANGED <<seq, refused>>
    /\ kidUp' = [kidUp EXCEPT ![c] = Tail(@)]
    /\ UNCHANGED <<life, wait, kidDown, ownDown, answers>>

(* A request of a child reaches the JS of the relay (worker.js, kind 4), which *)
(* calls js_pal_storage_relay; when the table is full it returns false, which  *)
(* nobody looks at.                                                            *)
StorageRelay(c) ==
    /\ Runs(RelayId) /\ wait[RelayId] = 0 /\ kidUp[c] # << >>
    /\ LET f == Head(kidUp[c])
           up == seq[RelayId] + 1
           free == {i \in 1 .. MaxRelays : relays[i].up = 0}
       IN  IF free = {}
           THEN refused' = refused \cup {c} /\ UNCHANGED <<seq, relays, ownUp>>
           ELSE /\ seq' = [seq EXCEPT ![RelayId] = up]
                /\ relays' = [relays EXCEPT ![CHOOSE i \in free : \A j \in free : i <= j] =
                                  [up |-> up, down |-> f.corr, child |-> c]]
                /\ ownUp' = Append(ownUp, Frame(up, f.for))
                /\ UNCHANGED refused
    /\ kidUp' = [kidUp EXCEPT ![c] = Tail(@)]
    /\ UNCHANGED <<life, wait, kidDown, ownDown, answers>>

(* The owner executes a request and posts the answer with the same number      *)
(* (__qz_storage_dispatch__).                                                  *)
StorageDispatch ==
    /\ Runs("owner") /\ ownUp # << >> /\ Runs(RelayId)
    /\ ownDown' = Append(ownDown, Head(ownUp))
    /\ ownUp' = Tail(ownUp)
    /\ UNCHANGED <<life, seq, wait, relays, kidUp, kidDown, answers, refused>>

-----------------------------------------------------------------------------
(* The answer goes to the process that blocks. *)
Answer(p, f) ==
    /\ wait' = [wait EXCEPT ![p] = 0]
    /\ answers' = [answers EXCEPT ![p] = Append(@, f.for)]

Matches(f) == {i \in 1 .. MaxRelays : relays[i].up = f.corr}

(* process_rx of the relay, in its loop and in its own wait: the answer is its *)
(* own, a child's by the table, or nobody's.                                   *)
RelayRx ==
    /\ Runs(RelayId) /\ ownDown # << >>
    /\ LET f == Head(ownDown)
       IN  IF wait[RelayId] # 0 /\ f.corr = wait[RelayId]
           THEN Answer(RelayId, f) /\ UNCHANGED <<relays, kidDown>>
           ELSE /\ UNCHANGED <<wait, answers>>
                /\ IF Matches(f) = {} THEN UNCHANGED <<relays, kidDown>>
                   ELSE LET i == CHOOSE i \in Matches(f) : TRUE
                            r == relays[i]
                        IN  /\ kidDown' = IF Runs(r.child)
                                          THEN [kidDown EXCEPT ![r.child] = Append(@, Frame(r.down, f.for))]
                                          ELSE kidDown
                            /\ relays' = [relays EXCEPT ![i] = FreeRelay]
    /\ ownDown' = Tail(ownDown)
    /\ UNCHANGED <<life, seq, kidUp, ownUp, refused>>

(* process_rx of a child, which has no table of its own here *)
KidRx(c) ==
    /\ Runs(c) /\ kidDown[c] # << >>
    /\ LET f == Head(kidDown[c])
       IN  IF wait[c] # 0 /\ f.corr = wait[c] THEN Answer(c, f) ELSE UNCHANGED <<wait, answers>>
    /\ kidDown' = [kidDown EXCEPT ![c] = Tail(@)]
    /\ UNCHANGED <<life, seq, relays, kidUp, ownUp, ownDown, refused>>

(* A process dies; its child sees the end of the channel, in its loop or in    *)
(* its wait, and ends too.                                                     *)
OwnerDies ==
    /\ Runs("owner")
    /\ life' = [life EXCEPT !["owner"] = "dead"]
    /\ UNCHANGED <<seq, wait, relays, kidUp, kidDown, ownUp, ownDown, answers, refused>>

(* Faulty variant: the wait does not notice the end. *)
BlockedOrphan(p) ==
    /\ Runs(p) /\ wait[p] = 0
    /\ IF p = RelayId THEN ~Runs("owner") /\ ownDown = << >>
                      ELSE ~Runs(RelayId) /\ kidDown[p] = << >>
    /\ life' = [life EXCEPT ![p] = "dead"]
    /\ UNCHANGED <<seq, wait, relays, kidUp, kidDown, ownUp, ownDown, answers, refused>>

Orphan(p) ==
    /\ Runs(p)
    /\ IF p = RelayId THEN ~Runs("owner") /\ ownDown = << >>
                      ELSE ~Runs(RelayId) /\ kidDown[p] = << >>
    /\ life' = [life EXCEPT ![p] = "dead"]
    /\ wait' = [wait EXCEPT ![p] = 0]
    /\ UNCHANGED <<seq, relays, kidUp, kidDown, ownUp, ownDown, answers, refused>>

RelayNext ==
    \/ \E c \in Kids : KidSpawns(c) \/ KidDies(c) \/ StorageRelay(c) \/ KidRx(c)
    \/ \E p \in Procs : StorageSync(p) \/ Orphan(p)
    \/ StorageDispatch \/ RelayRx \/ OwnerDies

(* Every live process reads its channels, and the owner serves. *)
RelayFairness ==
    /\ WF_relayVars(StorageDispatch) /\ WF_relayVars(RelayRx)
    /\ \A c \in Kids : SF_relayVars(StorageRelay(c)) /\ WF_relayVars(KidRx(c))
    /\ \A p \in Procs : WF_relayVars(Orphan(p))

-----------------------------------------------------------------------------
(* Properties *)

(* Numbers, slots and lives have their types. *)
RelayTypeOK ==
    /\ \A p \in Procs : life[p] \in {"none", "run", "dead"} /\ wait[p] <= seq[p]
    /\ \A i \in 1 .. MaxRelays : relays[i].child \in Procs
    /\ refused \subseteq Kids

(* A storage call returns the answer to its own request, whatever requests of  *)
(* the relay and of other children are on the way, and whoever died.           *)
SyncAnswerIsOwn ==
    \A p \in Procs : \A i \in DOMAIN answers[p] : answers[p][i] = p

(* A slot of the relay's table is taken exactly while the answer it waits for  *)
(* can still come, so that the table does not fill up in the course of time.   *)
SlotsAreInFlight ==
    \A i \in 1 .. MaxRelays :
        relays[i].up # 0 =>
            \/ \E k \in DOMAIN ownUp : ownUp[k].corr = relays[i].up
            \/ \E k \in DOMAIN ownDown : ownDown[k].corr = relays[i].up

(* The relay renumbers the requests of its children: an answer reaches the call *)
(* that asked for it even if children die and slots are used again, and a slot  *)
(* is taken only while its request is under way.                                *)
AnswersAreOwn ==
    /\ RelayTypeOK /\ SyncAnswerIsOwn /\ SlotsAreInFlight

(* A process that blocks for an answer goes on or dies, when the owner or the  *)
(* relay dies too, unless the relay had no slot for its request.               *)
SyncEnds == \A p \in Procs : wait[p] # 0 ~> wait[p] = 0 \/ p \in refused

(* Known not to hold, see the README. *)
(* The relay never drops a request of a live child. *)
NoneRefused == refused = {}
=============================================================================
