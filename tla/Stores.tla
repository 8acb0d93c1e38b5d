------------------------------- MODULE Stores -------------------------------
(***************************************************************************)
(* localStorage of the processes that share a file                          *)
(* (src/polyfill/src/local-storage.js): the area is kept in memory and       *)
(* written back whole by fsWriteSync (src/src/bridge.c), to a temporary file *)
(* that is renamed.  A process may die at any step; the file outlives it.    *)
(*                                                                         *)
(* Two things a runtime keeps for all its requests (src/src/uv_io.c): the   *)
(* in-memory store of qzjs.storage, an array of entries, and the value of    *)
(* the Proxy-Authorization header, computed once per proxy URL and lent to   *)
(* the requests that go through it.                                          *)
(***************************************************************************)
EXTENDS Naturals, Sequences

CONSTANTS
    Owners,        \* processes that own a localStorage on the same file
    MaxWrites      \* bound: calls of setItem, removeItem or clear

ASSUME LsAssumption == MaxWrites \in Nat

Whole == 0 .. MaxWrites        \* a file with the area of the n-th call, 0 for the one before
Torn == MaxWrites + 1          \* a file that is empty or cut short
Inode == 0 .. MaxWrites + 1    \* 0 for none

VARIABLES
    owner,         \* of each process: where it is in setItem and fsWriteSync
    area,          \* of each process: the area in memory
    before,        \* of each process: the area to go back to
    stream,        \* of each process: the inode of its FILE
    named, tmp,    \* the inodes that path and path.tmp name
    inode,         \* contents
    calls,         \* calls so far
    overlap        \* history: two processes were writing at once

lsVars == <<owner, area, before, stream, named, tmp, inode, calls, overlap>>

LsInit ==
    /\ owner = [p \in Owners |-> "idle"] /\ area = [p \in Owners |-> 0]
    /\ before = [p \in Owners |-> 0] /\ stream = [p \in Owners |-> 0]
    /\ named = 1 /\ tmp = 0 /\ inode = [i \in Inode |-> IF i = 1 THEN 0 ELSE Torn]
    /\ calls = 0 /\ overlap = FALSE

Writing(p) == owner[p] \in {"open", "write", "rename"}
UsedInode(i) == i \in {0, named, tmp} \/ \E p \in Owners : stream[p] = i
FreshInode == CHOOSE i \in Inode : ~UsedInode(i)
HasFresh == \E i \in Inode : ~UsedInode(i)

(* setItem, removeItem or clear changes the area, then persist() is called. *)
Change(p) ==
    /\ owner[p] = "idle" /\ calls < MaxWrites
    /\ calls' = calls + 1
    /\ before' = [before EXCEPT ![p] = area[p]]
    /\ area' = [area EXCEPT ![p] = calls + 1]
    /\ owner' = [owner EXCEPT ![p] = "open"]
    /\ overlap' = (overlap \/ \E q \in Owners \ {p} : Writing(q))
    /\ UNCHANGED <<stream, named, tmp, inode>>

(* Faulty variant: the file itself is opened for writing. *)
DirectOpenTmp(p) ==
    /\ owner[p] = "open"
    /\ tmp' = named
    /\ stream' = [stream EXCEPT ![p] = named] /\ inode' = [inode EXCEPT ![named] = Torn]
    /\ owner' = [owner EXCEPT ![p] = "write"]
    /\ UNCHANGED <<area, before, named, calls, overlap>>

(* fopen(tmp, "wb"): made, or cut to nothing. *)
OpenTmp(p) ==
    /\ owner[p] = "open" /\ (tmp # 0 \/ HasFresh)
    /\ tmp' = IF tmp # 0 THEN tmp ELSE FreshInode
    /\ stream' = [stream EXCEPT ![p] = tmp'] /\ inode' = [inode EXCEPT ![tmp'] = Torn]
    /\ owner' = [owner EXCEPT ![p] = "write"]
    /\ UNCHANGED <<area, before, named, calls, overlap>>

WriteTmp(p) ==
    /\ owner[p] = "write"
    /\ inode' = [inode EXCEPT ![stream[p]] = area[p]]
    /\ stream' = [stream EXCEPT ![p] = 0]
    /\ owner' = [owner EXCEPT ![p] = "rename"]
    /\ UNCHANGED <<area, before, named, tmp, calls, overlap>>

Rename(p) ==
    /\ owner[p] = "rename" /\ tmp # 0
    /\ named' = tmp /\ tmp' = 0
    /\ owner' = [owner EXCEPT ![p] = "idle"]
    /\ UNCHANGED <<area, before, stream, inode, calls, overlap>>

(* fopen, fwrite, fclose or rename fails (rename does when another process has  *)
(* renamed the file): the temporary file is removed and setItem goes back.      *)
WriteFails(p) ==
    /\ Writing(p)
    /\ tmp' = IF owner[p] = "open" THEN tmp ELSE 0
    /\ stream' = [stream EXCEPT ![p] = 0]
    /\ area' = [area EXCEPT ![p] = before[p]]
    /\ owner' = [owner EXCEPT ![p] = "idle"]
    /\ UNCHANGED <<before, named, inode, calls, overlap>>

ProcessDies(p) ==
    /\ owner[p] # "dead"
    /\ owner' = [owner EXCEPT ![p] = "dead"] /\ stream' = [stream EXCEPT ![p] = 0]
    /\ UNCHANGED <<area, before, named, tmp, inode, calls, overlap>>

ReadSync == inode[named]

(* load(): a file that cannot be parsed is an empty area. *)
Load == IF ReadSync = Torn THEN 0 ELSE ReadSync

ProcessStarts(p) ==
    /\ owner[p] = "dead"
    /\ owner' = [owner EXCEPT ![p] = "idle"]
    /\ area' = [area EXCEPT ![p] = Load]
    /\ UNCHANGED <<before, stream, named, tmp, inode, calls, overlap>>

LsNext == \E p \in Owners :
    \/ Change(p) \/ OpenTmp(p) \/ WriteTmp(p) \/ Rename(p) \/ WriteFails(p)
    \/ ProcessDies(p) \/ ProcessStarts(p)

-----------------------------------------------------------------------------
LsTypeOK ==
    /\ owner \in [Owners -> {"idle", "open", "write", "rename", "dead"}]
    /\ area \in [Owners -> Whole] /\ named \in Inode \ {0} /\ tmp \in Inode
    /\ inode \in [Inode -> Whole \cup {Torn}]

(* Of fsWriteSync (write, then rename): the file is a whole area at every moment, *)
(* whatever step fails or the process dies at, as long as the processes do not    *)
(* write at the same time.                                                        *)
FileIsWhole == ~overlap => inode[named] # Torn

(* Of setItem's roll-back ("keep the memory and the file consistent"): when a     *)
(* process that alone used the file is between two calls, its area is the one a   *)
(* new process would load.                                                        *)
MemoryIsFile ==
    \A p \in Owners : owner[p] = "idle" /\ (\A q \in Owners \ {p} : area[q] = 0 /\ owner[q] = "idle")
        /\ ~overlap => area[p] = inode[named]

(* Known not to hold, see the README. *)
(* Of local-storage.js ("every setItem/removeItem/clear writes back atomically"): *)
(* the file is whole at every moment, also with two processes.                    *)
AlwaysWhole == inode[named] # Torn

-----------------------------------------------------------------------------
(* The stores of a runtime *)

CONSTANTS
    Keys, Values,      \* of the store
    StorageMax,        \* storage_max
    HttpOps,           \* HTTP requests
    Proxies,           \* proxy URLs with credentials (HTTP_PROXY, HTTPS_PROXY)
    Empty,             \* the empty string
    Nil

ASSUME StoresAssumption == StorageMax \in Nat /\ Nil \notin Keys \cup Values \cup Proxies

VARIABLES
    store,             \* store[0 .. store_count - 1]: key and value, Nil after a failed update
    kv,                \* history: what the calls whose promise resolved leave, Nil where there is no entry
    lost,              \* history: keys whose update failed after the old value was freed
    got,               \* what the last storageGet resolved with, Nil for null
    due,               \* history: what it should have resolved with
    authUrl,           \* proxy_auth_url
    authValue,         \* proxy_auth_value: its allocation
    authOf,            \* of each allocation: the proxy whose credentials it holds
    borrowed,          \* of each request: its allocation, 0 before and after
    through            \* of each request: its proxy

storeVars == <<store, kv, lost, got, due, authUrl, authValue, authOf, borrowed, through>>

StoresInit ==
    /\ store = << >> /\ kv = [k \in Keys |-> Nil] /\ lost = {} /\ got = Nil /\ due = Nil
    /\ authUrl = Nil /\ authValue = 0 /\ authOf = << >>
    /\ borrowed = [o \in HttpOps |-> 0] /\ through = [o \in HttpOps |-> Nil]

proxyVars == <<authUrl, authValue, authOf, borrowed, through>>

-----------------------------------------------------------------------------
Entry(k) == {i \in DOMAIN store : store[i].key = k}
The(S) == CHOOSE i \in S : TRUE

Outcome(st, status) == [store |-> st, status |-> status]

(* uv_io_storage_set: an update that fails has freed the old value already. *)
SetEntry(k, v, oom) ==
    IF Entry(k) # {}
    THEN Outcome([store EXCEPT ![The(Entry(k))].value = IF oom THEN Nil ELSE v],
                IF oom THEN "error" ELSE "ok")
    ELSE IF oom \/ Len(store) >= StorageMax THEN Outcome(store, "error")
    ELSE Outcome(Append(store, [key |-> k, value |-> v]), "ok")

(* uv_io_storage_get *)
GetEntry(k) ==
    IF Entry(k) # {} THEN [status |-> "ok", data |-> store[The(Entry(k))].value]
    ELSE [status |-> "not found", data |-> Nil]

(* uv_io_storage_del *)
DelEntry(k) ==
    IF Entry(k) = {} THEN Outcome(store, "not found")
    ELSE LET i == The(Entry(k)) IN
         Outcome([j \in 1 .. Len(store) - 1 |-> IF j < i THEN store[j] ELSE store[j + 1]], "ok")

(* storage_get_done: a miss is null, an entry without value the empty string. *)
StorageGetDone(r) ==
    IF r.status = "not found" THEN Nil ELSE IF r.data = Nil THEN Empty ELSE r.data

StorageSet(k, v, oom) ==
    LET r == SetEntry(k, v, oom) IN
    /\ store' = r.store
    /\ kv' = IF r.status = "ok" THEN [kv EXCEPT ![k] = v] ELSE kv
    /\ lost' = IF r.status = "ok" THEN lost \ {k} ELSE IF Entry(k) # {} THEN lost \cup {k} ELSE lost
    /\ UNCHANGED <<got, due, proxyVars>>

StorageGet(k) ==
    /\ got' = StorageGetDone(GetEntry(k))
    /\ due' = IF k \in lost THEN Empty ELSE kv[k]
    /\ UNCHANGED <<store, kv, lost, proxyVars>>

StorageDel(k) ==
    LET r == DelEntry(k) IN
    /\ store' = r.store
    /\ kv' = [kv EXCEPT ![k] = Nil] /\ lost' = lost \ {k}
    /\ UNCHANGED <<got, due, proxyVars>>

-----------------------------------------------------------------------------
(* uv_io_http_apply_proxy: another URL replaces the cached value. *)
ApplyProxy(o, u) ==
    /\ through[o] = Nil
    /\ through' = [through EXCEPT ![o] = u]
    /\ IF authUrl # u
       THEN /\ authUrl' = u /\ authValue' = Len(authOf) + 1 /\ authOf' = Append(authOf, u)
       ELSE UNCHANGED <<authUrl, authValue, authOf>>
    /\ borrowed' = [borrowed EXCEPT ![o] = authValue']
    /\ UNCHANGED <<store, kv, lost, got, due>>

(* The header is written to the proxy (send_connect, send_request), or the       *)
(* request fails before.                                                         *)
AuthUsed(o) ==
    /\ borrowed[o] # 0
    /\ borrowed' = [borrowed EXCEPT ![o] = 0]
    /\ UNCHANGED <<store, kv, lost, got, due, authUrl, authValue, authOf, through>>

StoresNext ==
    \/ \E k \in Keys, v \in Values, oom \in BOOLEAN : StorageSet(k, v, oom)
    \/ \E k \in Keys : StorageGet(k) \/ StorageDel(k)
    \/ \E o \in HttpOps, u \in Proxies : ApplyProxy(o, u)
    \/ \E o \in HttpOps : AuthUsed(o)

-----------------------------------------------------------------------------
(* Of the array of entries: it is a map.  No key is there twice, there are at    *)
(* most storage_max, and a key leads to the value of the last call whose promise *)
(* resolved, however entries are updated, refused and moved: a call that is      *)
(* rejected changes nothing but an entry it ran out of memory for.               *)
StoreIsMap ==
    /\ Len(store) <= StorageMax
    /\ \A i, j \in DOMAIN store : store[i].key = store[j].key => i = j
    /\ \A k \in Keys \ lost : kv[k] = IF Entry(k) # {} THEN store[The(Entry(k))].value ELSE Nil
    /\ got = due

(* Of the cache of the header: what a request sends to its proxy are the         *)
(* credentials for that proxy, as long as the value it borrowed is allocated.    *)
AuthIsOwn ==
    \A o \in HttpOps : borrowed[o] # 0 /\ borrowed[o] = authValue => authOf[borrowed[o]] = through[o]

(* Known not to hold, see the README. *)
(* Of uv_io.c:886 ("cached on the runtime for its whole lifetime"): the value a  *)
(* request has borrowed is allocated until it is used.                           *)
AuthIsAllocated == \A o \in HttpOps : borrowed[o] # 0 => borrowed[o] = authValue
=============================================================================
