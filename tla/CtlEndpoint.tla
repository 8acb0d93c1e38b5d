---------------------------- MODULE CtlEndpoint ----------------------------
(***************************************************************************)
(* The socket file of the local control endpoint, as several runtimes on    *)
(* one machine use it (qz_ctl_endpoint_init and qz_ctl_endpoint_close,      *)
(* src/src/control_endpoint.c).                                             *)
(*                                                                         *)
(* A runtime listens on config.control_pipe_path if the caller gave one,    *)
(* and otherwise on a path made from its process id and a sequence number.  *)
(* Default paths are unique among live processes and come back when a pid   *)
(* is used again.  The file system is shared; every call on it is a step.   *)
(***************************************************************************)
EXTENDS Naturals

CONSTANTS
    NumRuntimes,   \* runtimes, each created and destroyed again and again
    NumExplicit,   \* paths that callers configure
    SharedPath,    \* TRUE if two runtimes may be given one explicit path
    MaxLife        \* bound: lives of a runtime

ASSUME EndpointAssumption ==
    /\ {NumRuntimes, NumExplicit, MaxLife} \subseteq Nat
    /\ SharedPath \in BOOLEAN

Runtimes == 1 .. NumRuntimes
DefaultPath(r) == r
Explicit == (NumRuntimes + 1) .. (NumRuntimes + NumExplicit)
Paths == Runtimes \cup Explicit
NoPath == 0
NoFile == 0
Stale == NumRuntimes + 1   \* a socket file whose process is gone

VARIABLES
    file,     \* file[p]: the runtime whose socket path p names, Stale or NoFile
    epPc,       \* epPc[r]: where runtime r is in the life of its endpoint
    path,     \* path[r]: the local variable path, then rt->ctl_pipe_path
    bound,    \* bound[r]: the listener is bound (libuv remembers the file)
    epLife      \* epLife[r]: lives begun

epVars == <<file, epPc, path, bound, epLife>>

EpInit ==
    /\ file = [p \in Paths |-> NoFile]
    /\ epPc = [r \in Runtimes |-> "off"]
    /\ path = [r \in Runtimes |-> NoPath]
    /\ bound = [r \in Runtimes |-> FALSE]
    /\ epLife = [r \in Runtimes |-> 0]

Go(r, s) == epPc' = [epPc EXCEPT ![r] = s]
Unlink(p) == file' = [file EXCEPT ![p] = NoFile]

(* A caller that does not share paths gives r one no other live runtime has. *)
MayUse(r, p) ==
    \/ p = DefaultPath(r)
    \/ p \in Explicit /\ (SharedPath \/ \A s \in Runtimes \ {r} : path[s] # p)

(* Faulty variant: the stale file of an earlier process is left at a default path. *)
KeepingStart(r) ==
    /\ epPc[r] = "off" /\ epLife[r] < MaxLife
    /\ epLife' = [epLife EXCEPT ![r] = @ + 1]
    /\ \E p \in Paths : MayUse(r, p) /\ path' = [path EXCEPT ![r] = p]
    /\ Go(r, "bind")
    /\ UNCHANGED <<file, bound>>

(* The path is chosen; a default path is unlinked, an explicit one is not. *)
Start(r) ==
    /\ epPc[r] = "off" /\ epLife[r] < MaxLife
    /\ epLife' = [epLife EXCEPT ![r] = @ + 1]
    /\ \E p \in Paths :
         /\ MayUse(r, p)
         /\ path' = [path EXCEPT ![r] = p]
         /\ IF p = DefaultPath(r) THEN Unlink(p) ELSE UNCHANGED file
    /\ Go(r, "bind")
    /\ UNCHANGED bound

(* strdup or uv_pipe_init fails: nothing was bound yet. *)
StartFail(r) ==
    /\ epPc[r] = "bind"
    /\ Go(r, "off")
    /\ path' = [path EXCEPT ![r] = NoPath]
    /\ UNCHANGED <<file, bound, epLife>>

(* uv_pipe_bind: EADDRINUSE if the path exists, whoever listens there. *)
Bind(r) ==
    /\ epPc[r] = "bind"
    /\ IF file[path[r]] = NoFile
       THEN /\ file' = [file EXCEPT ![path[r]] = r]
            /\ bound' = [bound EXCEPT ![r] = TRUE]
            /\ Go(r, "listen")
       ELSE Go(r, "fail") /\ UNCHANGED <<file, bound>>
    /\ UNCHANGED <<path, epLife>>

(* chmod and uv_listen succeed: ctl_listener_active. *)
Listen(r) ==
    /\ epPc[r] = "listen"
    /\ Go(r, "up")
    /\ UNCHANGED <<file, path, bound, epLife>>

(* chmod or uv_listen fails. *)
ListenFail(r) ==
    /\ epPc[r] = "listen"
    /\ Go(r, "fail")
    /\ UNCHANGED <<file, path, bound, epLife>>

(* uv_close of a bound pipe unlinks the file it is bound to (libuv). *)
UvClose(r) ==
    /\ IF bound[r] THEN Unlink(path[r]) ELSE UNCHANGED file
    /\ bound' = [bound EXCEPT ![r] = FALSE]

(* The label fail: the handle is closed ... *)
FailClose(r) ==
    /\ epPc[r] = "fail"
    /\ UvClose(r)
    /\ Go(r, "unlink")
    /\ UNCHANGED <<path, epLife>>

(* qz_ctl_endpoint_close: the listener is closed ... *)
Close(r) ==
    /\ epPc[r] = "up"
    /\ UvClose(r)
    /\ Go(r, "unlink")
    /\ UNCHANGED <<path, epLife>>

(* ... and then the path is unlinked, in both cases. *)
FinalUnlink(r) ==
    /\ epPc[r] = "unlink"
    /\ Unlink(path[r])
    /\ path' = [path EXCEPT ![r] = NoPath]
    /\ Go(r, "off")
    /\ UNCHANGED <<bound, epLife>>

(* The process of r is killed: its socket file stays, and nobody listens there. *)
Crash(r) ==
    /\ epPc[r] # "off"
    /\ file' = [p \in Paths |-> IF file[p] = r THEN Stale ELSE file[p]]
    /\ path' = [path EXCEPT ![r] = NoPath]
    /\ bound' = [bound EXCEPT ![r] = FALSE]
    /\ Go(r, "off")
    /\ UNCHANGED epLife

EpIdle == (\A r \in Runtimes : epPc[r] = "off" /\ epLife[r] = MaxLife) /\ UNCHANGED epVars

EpNext ==
    \/ \E r \in Runtimes :
         \/ Start(r) \/ StartFail(r) \/ Bind(r) \/ Listen(r) \/ ListenFail(r)
         \/ FailClose(r) \/ Close(r) \/ FinalUnlink(r) \/ Crash(r)
    \/ EpIdle

EpSpec == EpInit /\ [][EpNext]_epVars

-----------------------------------------------------------------------------
(* Properties *)

(* Every variable keeps its type, and only a runtime at work holds a path. *)
EpTypeOK ==
    /\ file \in [Paths -> Runtimes \cup {Stale, NoFile}]
    /\ epPc \in [Runtimes -> {"off", "bind", "listen", "up", "fail", "unlink"}]
    /\ path \in [Runtimes -> Paths \cup {NoPath}]
    /\ bound \in [Runtimes -> BOOLEAN]
    /\ epLife \in [Runtimes -> 0 .. MaxLife]
    /\ \A r \in Runtimes : (path[r] = NoPath) <=> (epPc[r] = "off")

(* While a runtime listens, a controller that connects to its path reaches it:    *)
(* nobody else's start, failure or end takes the socket file away or replaces it. *)
EndpointReachable == \A r \in Runtimes : epPc[r] \in {"listen", "up"} => file[path[r]] = r

(* A socket file left by a killed process never keeps a runtime from starting on  *)
(* its default path (the unlink before bind).                                      *)
DefaultPathIsFree ==
    \A r \in Runtimes : epPc[r] = "fail" /\ ~bound[r] => path[r] # DefaultPath(r)

(* Socket files across starts, ends and kills of several runtimes: whoever *)
(* listens can be reached under its path, and what a killed process leaves *)
(* behind does not keep a default path from being bound.                   *)
EndpointsAreFound ==
    /\ EpTypeOK /\ EndpointReachable /\ DefaultPathIsFree
=============================================================================
