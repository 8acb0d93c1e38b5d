------------------------------- MODULE FsOps --------------------------------
(***************************************************************************)
(* Asynchronous file operations (src/src/uv_io.c) and the promises they     *)
(* settle (src/src/bridge.c).  Each is a chain of libuv requests; between    *)
(* two requests of one operation those of others may change the file.  A    *)
(* binary read goes straight into the store of an ArrayBuffer (zero copy)    *)
(* that is sized before the first read.                                      *)
(***************************************************************************)
EXTENDS Naturals, Sequences, FiniteSets

CONSTANTS
    TextReads,      \* operations fsRead
    BinaryReads,    \* operations fsReadBinary
    Writes,         \* operations fsWrite
    Removes,        \* operations fsRemove
    ExistsOps,      \* operations fsExists
    Lists,          \* operations fsList
    MaxFsOps,       \* bound on the operations a behaviour starts
    BufInit,        \* PAL_UV_FS_BUF_INIT
    DataLen,        \* bytes of a write, and of the file at the start
    NoOp

Reads == TextReads \cup BinaryReads
FileOps == Reads \cup Writes \cup Removes \cup ExistsOps \cup Lists

(* An operation is a call of one function. *)
ASSUME FsAssumption ==
    /\ BufInit \in Nat \ {0} /\ DataLen \in Nat /\ MaxFsOps \in Nat
    /\ IsFiniteSet(Writes) /\ NoOp \notin FileOps
    /\ TextReads \cap BinaryReads = {} /\ Reads \cap Writes = {}
    /\ (Removes \cup ExistsOps \cup Lists) \cap (Reads \cup Writes) = {}

Byte(o, n) == [by |-> o, n |-> n]
Zero == Byte(NoOp, 0)                           \* a hole, or memory nobody wrote
Bytes(o) == [n \in 1 .. DataLen |-> Byte(o, n)]

VARIABLES
    fop,            \* uv_io_fs_op_t of each operation
    told,           \* of each operation: statuses its callback was given
    result,         \* of each read: what its promise was resolved with
    backing,        \* of each binary read: the store of its ArrayBuffer
    link,           \* the inode the path names, 0 if none
    content,        \* bytes of each inode
    disturbed       \* history: operations during which another changed the file

fsVars == <<fop, told, result, backing, link, content, disturbed>>

Inodes == 1 .. Cardinality(Writes) + 1

FsInit ==
    /\ fop = [o \in FileOps |-> [at |-> "new", inode |-> 0, pos |-> 0, cap |-> 0, buf |-> << >>,
                                 owner |-> FALSE, cb |-> TRUE, err |-> FALSE]]
    /\ told = [o \in FileOps |-> << >>] /\ result = [o \in Reads |-> << >>]
    /\ backing = [o \in BinaryReads |-> "none"]
    /\ link = 1 /\ content = [i \in Inodes |-> IF i = 1 THEN Bytes(NoOp) ELSE << >>]
    /\ disturbed = {}

-----------------------------------------------------------------------------
At(o, at) == fop[o].at = at
Busy(o) == fop[o].at \notin {"new", "thrown", "done"}
Tell(o, status) == told' = [told EXCEPT ![o] = Append(@, status)]
File(o) == content[fop[o].inode]
Size(o) == Len(File(o))
Set(o, f) == fop' = [fop EXCEPT ![o] = f]
Disturbs(o) == disturbed' = disturbed \cup {p \in FileOps \ {o} : Busy(p)}

(* An error told at once, before the descriptor is closed: the callback is     *)
(* taken away so that the close does not tell again.                           *)
FailAndClose(o, f) == Set(o, [f EXCEPT !.at = "close", !.cb = FALSE]) /\ Tell(o, "error")

(* The store of the ArrayBuffer is released (bridge_zc_free). *)
Release(o) == backing' = [backing EXCEPT ![o] = IF @ = "live" THEN "freed" ELSE "twice"]
ReleaseIfOwned(o) == IF fop[o].owner THEN Release(o) ELSE UNCHANGED backing

-----------------------------------------------------------------------------
(* The calls of a script.  What every one of them begins with: *)

JsCalls(o) == At(o, "new") /\ Cardinality({p \in FileOps : ~At(p, "new")}) < MaxFsOps

(* No context, no argument, a path that is refused, or out of memory: the call  *)
(* throws and there is no promise.                                              *)
Throws(o) ==
    /\ Set(o, [fop[o] EXCEPT !.at = "thrown"])
    /\ UNCHANGED <<told, result, backing, link, content, disturbed>>

(* Out of memory in uv_io: the promise is rejected before the call returns. *)
StartFails(o) ==
    /\ Set(o, [fop[o] EXCEPT !.at = "done"]) /\ Tell(o, "error")
    /\ UNCHANGED <<result, backing, link, content, disturbed>>

(* uv_io_fs_read_ex: a plain read has its buffer from the start. *)
ReadEx(o) ==
    /\ Set(o, [fop[o] EXCEPT !.at = "open", !.cap = IF o \in TextReads THEN BufInit ELSE 0])
    /\ disturbed' = IF \E p \in Writes \cup Removes : Busy(p) THEN disturbed \cup {o} ELSE disturbed
    /\ UNCHANGED <<told, result, backing, link, content>>

FsRead(o) == o \in TextReads /\ JsCalls(o) /\ (Throws(o) \/ StartFails(o) \/ ReadEx(o))

FsReadBinary(o) == o \in BinaryReads /\ JsCalls(o) /\ (Throws(o) \/ StartFails(o) \/ ReadEx(o))

OpenFails(o) ==
    /\ At(o, "open") /\ (o \in Reads \cup Writes)
    /\ Set(o, [fop[o] EXCEPT !.at = "done"]) /\ Tell(o, "error")
    /\ UNCHANGED <<result, backing, link, content, disturbed>>

(* uv_io_fs_read_open_cb: the store has the size that fstat reports now. *)
ReadOpenCb(o, alloc) ==
    /\ At(o, "open") /\ o \in Reads /\ link # 0
    /\ LET size == Len(content[link])
           zc == o \in BinaryReads /\ size > 0 /\ alloc
       IN /\ Set(o, [fop[o] EXCEPT !.at = "read", !.inode = link, !.owner = zc,
                                   !.cap = IF zc THEN size ELSE BufInit])
          /\ backing' = IF zc THEN [backing EXCEPT ![o] = "live"] ELSE backing
    /\ UNCHANGED <<told, result, link, content, disturbed>>

(* Neither the ArrayBuffer nor a plain buffer. *)
ReadOpenOom(o) ==
    /\ At(o, "open") /\ o \in BinaryReads /\ link # 0
    /\ FailAndClose(o, [fop[o] EXCEPT !.inode = link])
    /\ UNCHANGED <<result, backing, link, content, disturbed>>

(* uv_io_fs_read_cb with a negative result. *)
ReadError(o) ==
    /\ At(o, "read") \/ At(o, "probe")
    /\ ReleaseIfOwned(o)
    /\ FailAndClose(o, [fop[o] EXCEPT !.err = TRUE, !.owner = FALSE])
    /\ UNCHANGED <<result, link, content, disturbed>>

(* A result of 0, of a read or of the probe: end of file. *)
ReadEof(o) ==
    /\ At(o, "read") \/ At(o, "probe")
    /\ fop[o].pos >= Size(o)
    /\ Set(o, [fop[o] EXCEPT !.at = "close"])
    /\ UNCHANGED <<told, result, backing, link, content, disturbed>>

(* n bytes.  A full ArrayBuffer is followed by a probe of one byte, a full      *)
(* plain buffer grows.                                                          *)
ReadCb(o, n) ==
    /\ At(o, "read") /\ fop[o].pos + n <= Size(o) /\ Len(fop[o].buf) + n <= fop[o].cap
    /\ LET f == [fop[o] EXCEPT !.buf = @ \o SubSeq(File(o), fop[o].pos + 1, fop[o].pos + n),
                               !.pos = @ + n]
           full == Len(f.buf) = f.cap
       IN Set(o, [f EXCEPT !.at = IF full /\ f.owner THEN "probe" ELSE "read",
                           !.cap = IF full /\ ~f.owner THEN @ + BufInit ELSE @])
    /\ UNCHANGED <<told, result, backing, link, content, disturbed>>

(* The buffer is full and cannot grow. *)
GrowFails(o) ==
    /\ At(o, "read") /\ ~fop[o].owner
    /\ LET n == fop[o].cap - Len(fop[o].buf) IN
       /\ fop[o].pos + n <= Size(o) /\ n > 0
       /\ FailAndClose(o, [fop[o] EXCEPT !.pos = @ + n])
    /\ UNCHANGED <<result, backing, link, content, disturbed>>

(* The file grew past the size of the ArrayBuffer: a plain buffer takes over    *)
(* what was read and the byte of the probe.                                     *)
ProbeCb(o) ==
    /\ At(o, "probe") /\ fop[o].pos < Size(o)
    /\ Release(o)
    /\ Set(o, [fop[o] EXCEPT !.at = "read", !.cap = @ + BufInit, !.owner = FALSE,
                             !.buf = Append(@, File(o)[fop[o].pos + 1]), !.pos = @ + 1])
    /\ UNCHANGED <<told, result, link, content, disturbed>>

ProbeOom(o) ==
    /\ At(o, "probe") /\ fop[o].pos < Size(o)
    /\ Release(o)
    /\ FailAndClose(o, [fop[o] EXCEPT !.owner = FALSE, !.buf = << >>, !.pos = @ + 1])
    /\ UNCHANGED <<result, link, content, disturbed>>

(* What the promise is resolved with: an ArrayBuffer is handed out as it is,    *)
(* with all the bytes it was made for.                                          *)
Delivered(o) ==
    LET f == fop[o] IN IF f.owner THEN f.buf \o [k \in 1 .. f.cap - Len(f.buf) |-> Zero] ELSE f.buf

(* uv_io_fs_read_close_cb and the done callbacks. *)
ReadCloseCb(o) ==
    /\ At(o, "close") /\ o \in Reads
    /\ LET f == fop[o]
           freed == f.err /\ f.owner
       IN /\ Set(o, [f EXCEPT !.at = "done"])
          /\ IF f.cb THEN Tell(o, "ok") ELSE UNCHANGED told
          /\ result' = IF f.cb THEN [result EXCEPT ![o] = Delivered(o)] ELSE result
          /\ IF freed THEN Release(o)
             ELSE IF f.owner THEN backing' = [backing EXCEPT ![o] = "given"]
             ELSE UNCHANGED backing
    /\ UNCHANGED <<link, content, disturbed>>

-----------------------------------------------------------------------------
(* uv_io_fs_write: open with O_TRUNC, write, close *)

Write(o) ==
    /\ Set(o, [fop[o] EXCEPT !.at = "open", !.buf = Bytes(o)])
    /\ disturbed' = IF \E p \in Writes \cup Removes : Busy(p) THEN disturbed \cup {o} ELSE disturbed
    /\ UNCHANGED <<told, result, backing, link, content>>

FsWrite(o) == o \in Writes /\ JsCalls(o) /\ (Throws(o) \/ StartFails(o) \/ Write(o))

Unused == {i \in Inodes : i # link /\ \A o \in FileOps : fop[o].inode # i}

WriteOpenCb(o) ==
    /\ At(o, "open") /\ o \in Writes
    /\ link' = IF link # 0 THEN link ELSE CHOOSE i \in Unused : TRUE
    /\ content' = [content EXCEPT ![link'] = << >>]
    /\ Set(o, [fop[o] EXCEPT !.at = "write", !.inode = link'])
    /\ Disturbs(o)
    /\ UNCHANGED <<told, result, backing>>

(* What a write of bytes at offset pos leaves of the file c. *)
Written(c, pos, bytes) ==
    [k \in 1 .. (IF pos + Len(bytes) > Len(c) THEN pos + Len(bytes) ELSE Len(c)) |->
        IF k > pos /\ k <= pos + Len(bytes) THEN bytes[k - pos]
        ELSE IF k <= Len(c) THEN c[k] ELSE Zero]

(* Faulty variant: what is left of a partial write starts at the beginning. *)
RewindingWriteCb(o, n) ==
    /\ At(o, "write") /\ n <= Len(fop[o].buf)
    /\ content' = [content EXCEPT ![fop[o].inode] = Written(@, fop[o].pos, SubSeq(fop[o].buf, 1, n))]
    /\ Set(o, [fop[o] EXCEPT !.pos = @ + n, !.buf = SubSeq(@, 1, Len(@) - n),
                             !.at = IF n = Len(fop[o].buf) THEN "close" ELSE "write"])
    /\ Disturbs(o)
    /\ UNCHANGED <<told, result, backing, link>>

(* n bytes written: the rest is another request. *)
WriteCb(o, n) ==
    /\ At(o, "write") /\ n <= Len(fop[o].buf)
    /\ content' = [content EXCEPT ![fop[o].inode] = Written(@, fop[o].pos, SubSeq(fop[o].buf, 1, n))]
    /\ Set(o, [fop[o] EXCEPT !.pos = @ + n, !.buf = SubSeq(@, n + 1, Len(@)),
                             !.at = IF n = Len(fop[o].buf) THEN "close" ELSE "write"])
    /\ Disturbs(o)
    /\ UNCHANGED <<told, result, backing, link>>

WriteError(o) ==
    /\ At(o, "write") /\ FailAndClose(o, fop[o])
    /\ UNCHANGED <<result, backing, link, content, disturbed>>

WriteCloseCb(o) ==
    /\ At(o, "close") /\ o \in Writes
    /\ Set(o, [fop[o] EXCEPT !.at = "done"])
    /\ IF fop[o].cb THEN Tell(o, "ok") ELSE UNCHANGED told
    /\ UNCHANGED <<result, backing, link, content, disturbed>>

-----------------------------------------------------------------------------
(* fsRemove, fsExists and fsList: one request each *)

Request(o) ==
    /\ Set(o, [fop[o] EXCEPT !.at = "open"])
    /\ UNCHANGED <<told, result, backing, link, content, disturbed>>

FsRemove(o) == o \in Removes /\ JsCalls(o) /\ (Throws(o) \/ StartFails(o) \/ Request(o))

FsExists(o) == o \in ExistsOps /\ JsCalls(o) /\ (Throws(o) \/ StartFails(o) \/ Request(o))

FsList(o) == o \in Lists /\ JsCalls(o) /\ (Throws(o) \/ StartFails(o) \/ Request(o))

RemoveCb(o) ==
    /\ At(o, "open") /\ o \in Removes
    /\ link' = 0 /\ Set(o, [fop[o] EXCEPT !.at = "done"])
    /\ Tell(o, IF link # 0 THEN "ok" ELSE "error")
    /\ Disturbs(o)
    /\ UNCHANGED <<result, backing, content>>

(* Whatever stat says, the promise resolves. *)
ExistsCb(o) ==
    /\ At(o, "open") /\ o \in ExistsOps
    /\ Set(o, [fop[o] EXCEPT !.at = "done"]) /\ Tell(o, "ok")
    /\ UNCHANGED <<result, backing, link, content, disturbed>>

(* Not a directory, or out of memory while the names are collected: an error. *)
ListCb(o) ==
    /\ At(o, "open") /\ o \in Lists
    /\ Set(o, [fop[o] EXCEPT !.at = "done"])
    /\ \E status \in {"ok", "error"} : Tell(o, status)
    /\ UNCHANGED <<result, backing, link, content, disturbed>>

FsNext ==
    \/ \E o \in FileOps : FsRead(o) \/ FsReadBinary(o) \/ FsWrite(o) \/ FsRemove(o) \/ FsExists(o) \/ FsList(o)
    \/ \E o \in Reads \cup Writes : OpenFails(o)
    \/ \E o \in Reads, alloc \in BOOLEAN : ReadOpenCb(o, alloc)
    \/ \E o \in Reads : ReadError(o) \/ ReadEof(o) \/ GrowFails(o) \/ ReadCloseCb(o)
    \/ \E o \in BinaryReads : ReadOpenOom(o) \/ ProbeCb(o) \/ ProbeOom(o)
    \/ \E o \in FileOps, n \in 1 .. DataLen : ReadCb(o, n) \/ WriteCb(o, n)
    \/ \E o \in Writes : WriteOpenCb(o) \/ WriteError(o) \/ WriteCloseCb(o)
    \/ \E o \in FileOps : RemoveCb(o) \/ ExistsCb(o) \/ ListCb(o)

-----------------------------------------------------------------------------
FsTypeOK ==
    /\ \A o \in FileOps : fop[o].at \in {"new", "thrown", "open", "read", "probe", "write", "close", "done"}
    /\ \A o \in Reads : Len(fop[o].buf) <= fop[o].cap
    /\ backing \in [BinaryReads -> {"none", "live", "given", "freed", "twice"}]
    /\ link \in Inodes \cup {0} /\ disturbed \subseteq FileOps

(* Of the error paths (cb = NULL before the close): the promise of an operation  *)
(* is settled once, which frees what the callback needs, and not before its      *)
(* time: a finished operation has told, one that threw never does, and only one  *)
(* that is being closed or finished has.                                         *)
SettledOnce ==
    \A o \in FileOps :
        /\ Len(told[o]) <= 1
        /\ At(o, "done") => Len(told[o]) = 1
        /\ told[o] # << >> => fop[o].at \in {"close", "done"}

(* Of the zero-copy read: the store of the ArrayBuffer is released or handed to  *)
(* the promise, never both, never twice, and never kept: a promise that is       *)
(* rejected or given a copy leaves none behind.                                  *)
BackingOnce ==
    \A o \in BinaryReads :
        /\ backing[o] # "twice"
        /\ At(o, "done") => backing[o] \in {"none", "given", "freed"}
        /\ backing[o] = "given" => told[o] = <<"ok">>

(* Of read_cb, grow and the probe: a read during which nobody changed the file   *)
(* resolves with the file, whatever the sizes of buffers and of single reads.    *)
ReadIsTrue ==
    \A o \in Reads : At(o, "close") /\ fop[o].cb /\ told[o] = << >> /\ o \notin disturbed
                       => Delivered(o) = File(o)

(* Of write_cb: a write that nobody disturbed and that reports success has       *)
(* written its bytes, all and in order, whatever the sizes of single writes.     *)
WriteIsWhole ==
    \A o \in Writes : At(o, "close") /\ fop[o].cb /\ told[o] = << >> /\ o \notin disturbed
                        => File(o) = Bytes(o)

(* A file operation answers once, releases the memory behind a zero-copy result *)
(* once, and tells the truth: a read that succeeds has what the file held, a    *)
(* write that succeeds wrote everything.                                        *)
FilesAreTrue ==
    /\ FsTypeOK /\ SettledOnce /\ BackingOnce /\ ReadIsTrue /\ WriteIsWhole

(* Known not to hold, see the README. *)
(* Of bridge.c ("resolves with an ArrayBuffer of the raw bytes"): no byte of a   *)
(* result comes from memory nobody wrote.                                        *)
NothingUnwritten ==
    (Writes = {} \/ \A i \in Inodes : \A k \in DOMAIN content[i] : content[i][k] # Zero) =>
        \A o \in Reads : \A k \in DOMAIN result[o] : result[o][k] # Zero
=============================================================================
