------------------------------- MODULE IpcTx -------------------------------
(***************************************************************************)
(* One direction of the channel between two processes: the spill buffer,    *)
(* its flush timer, the socket and the frame reader at the other end        *)
(* (src/src/ipc_process.c), and the shutdown frame of qz_proc_terminate     *)
(* that is written past the buffer.                                         *)
(*                                                                         *)
(* A frame is FrameSize bytes <<f, 1>> .. <<f, FrameSize>>, the first of    *)
(* them standing for the length.  Frames 1, 2, ... are posted in turn;      *)
(* frame 0 is the shutdown.                                                 *)
(***************************************************************************)
EXTENDS Naturals, Sequences

CONSTANTS
    MaxTxPost,       \* bound: frames posted
    FrameSize,     \* bytes of a frame
    SockCap,       \* bytes the socket holds
    SizeMod,       \* 2^64 in the code: size_t counts modulo this
    DieInFlush,    \* TRUE if the peer may die between two sends of one flush
    TermBehind     \* TRUE if terminate may be called while bytes are under way

ASSUME TxAssumption ==
    /\ MaxTxPost \in Nat /\ FrameSize \in Nat \ {0} /\ SockCap \in Nat \ {0}
    /\ SizeMod \in Nat /\ SizeMod > (MaxTxPost + 1) * FrameSize
    /\ {DieInFlush, TermBehind} \subseteq BOOLEAN

Shutdown == 0
TxFrame(f) == [i \in 1 .. FrameSize |-> <<f, i>>]

VARIABLES
    buf,       \* the bytes of tx->buf that have been stored
    len,       \* tx->len
    off,       \* the local variable off of qz_tx_flush
    timer,     \* tx->timer_active
    txPc,        \* the sender: "idle", "flush", "end", "term", "wait", "gone"
    insend,    \* the flush was called by qz_tx_send, not by the timer
    txSock,      \* the bytes in the socket
    peer,      \* "alive", "hung" or "dead"
    txRbuf,      \* the bytes the peer has read of the current frame
    term,      \* bytes of the shutdown frame written
    posted,    \* frames accepted by qz_tx_send
    txGot,       \* history: frames the peer has decoded
    torn,      \* history: the peer took bytes of two frames for one
    killed     \* history: terminate had to use SIGKILL on a peer that was not hung

bufVars == <<buf, len, off, timer>>
peerVars == <<peer, txRbuf, txGot, torn>>
txVars == <<bufVars, txPc, insend, txSock, peerVars, term, posted, killed>>

TxInit ==
    /\ buf = << >> /\ len = 0 /\ off = 0 /\ timer = FALSE
    /\ txPc = "idle" /\ insend = FALSE
    /\ txSock = << >> /\ peer = "alive" /\ txRbuf = << >>
    /\ term = 0 /\ posted = 0
    /\ txGot = << >> /\ torn = FALSE /\ killed = FALSE

Room == SockCap - Len(txSock)
Least(a, b) == IF a <= b THEN a ELSE b

-----------------------------------------------------------------------------
(* qz_proc_post, proc_frame_send, qz_tx_send: append and flush *)

Send ==
    /\ txPc = "idle" /\ posted < MaxTxPost
    /\ posted' = posted + 1
    /\ buf' = buf \o TxFrame(posted + 1)
    /\ len' = (len + FrameSize) % SizeMod
    /\ txPc' = "flush" /\ insend' = TRUE
    /\ UNCHANGED <<off, timer, txSock, peerVars, term, killed>>

(* qz_tx_timer_cb, every millisecond. *)
TimerFire ==
    /\ txPc = "idle" /\ timer
    /\ txPc' = "flush" /\ insend' = FALSE
    /\ UNCHANGED <<bufVars, txSock, peerVars, term, posted, killed>>

-----------------------------------------------------------------------------
(* qz_tx_flush: one send() per step *)

(* Faulty variant: the count of send() is not looked at. *)
AllFlushSend ==
    /\ txPc = "flush" /\ off < len /\ peer # "dead" /\ Room > 0
    /\ txSock' = txSock \o SubSeq(buf, off + 1, off + Least(Room, len - off))
    /\ off' = len
    /\ UNCHANGED <<buf, len, timer, txPc, insend, peerVars, term, posted, killed>>

FlushSend ==
    /\ txPc = "flush" /\ off < len /\ peer # "dead" /\ Room > 0
    /\ \E n \in 1 .. Least(Room, len - off) :
         /\ txSock' = txSock \o SubSeq(buf, off + 1, off + n)
         /\ off' = off + n
    /\ UNCHANGED <<buf, len, timer, txPc, insend, peerVars, term, posted, killed>>

(* All is sent, or EAGAIN: the loop ends. *)
FlushStop ==
    /\ txPc = "flush"
    /\ off >= len \/ (peer # "dead" /\ Room = 0)
    /\ txPc' = "end"
    /\ UNCHANGED <<bufVars, insend, txSock, peerVars, term, posted, killed>>

(* EPIPE: the backlog is dropped. *)
FlushEpipe ==
    /\ txPc = "flush" /\ off < len /\ peer = "dead"
    /\ len' = 0
    /\ txPc' = "end"
    /\ UNCHANGED <<buf, off, timer, insend, txSock, peerVars, term, posted, killed>>

(* What was sent leaves the buffer; the timer runs while something is left. *)
FlushEnd ==
    /\ txPc = "end"
    /\ len' = (len + SizeMod - off) % SizeMod
    /\ buf' = SubSeq(buf, off + 1, Least(off + len', Len(buf)))
    /\ off' = 0
    /\ timer' = IF len' = 0 THEN FALSE ELSE timer \/ insend
    /\ txPc' = "idle"
    /\ UNCHANGED <<insend, txSock, peerVars, term, posted, killed>>

-----------------------------------------------------------------------------
(* The peer: its read pump, and its ends *)

(* One byte is read; a complete frame is decoded. *)
PeerRead ==
    /\ peer = "alive" /\ txSock # << >>
    /\ txSock' = Tail(txSock)
    /\ LET b == Append(txRbuf, Head(txSock)) IN
         IF Len(b) < FrameSize THEN txRbuf' = b /\ UNCHANGED <<txGot, torn>>
         ELSE /\ txRbuf' = << >>
              /\ IF b = TxFrame(b[1][1])
                 THEN txGot' = Append(txGot, b[1][1]) /\ UNCHANGED torn
                 ELSE torn' = TRUE /\ UNCHANGED txGot
    /\ UNCHANGED <<bufVars, txPc, insend, peer, term, posted, killed>>

PeerDies ==
    /\ peer # "dead"
    /\ DieInFlush \/ txPc # "flush" \/ off = 0
    /\ peer' = "dead" /\ txSock' = << >>
    /\ UNCHANGED <<bufVars, txPc, insend, txRbuf, txGot, torn, term, posted, killed>>

(* Its loop is blocked for good. *)
PeerHangs ==
    /\ peer = "alive"
    /\ peer' = "hung"
    /\ UNCHANGED <<bufVars, txPc, insend, txSock, txRbuf, txGot, torn, term, posted, killed>>

-----------------------------------------------------------------------------
(* qz_proc_terminate *)

TxTerminate ==
    /\ txPc = "idle"
    /\ TermBehind \/ (len = 0 /\ Room >= FrameSize)
    /\ txPc' = "term"
    /\ UNCHANGED <<bufVars, insend, txSock, peerVars, term, posted, killed>>

(* Tier 1, qz_ipc_write_frame: straight to the socket. *)
TermWrite ==
    /\ txPc = "term" /\ term < FrameSize /\ peer # "dead" /\ Room > 0
    /\ term' = term + 1
    /\ txSock' = Append(txSock, <<Shutdown, term + 1>>)
    /\ UNCHANGED <<bufVars, txPc, insend, peerVars, posted, killed>>

(* Written, or given up on any error, EAGAIN included. *)
TermWritten ==
    /\ txPc = "term"
    /\ term = FrameSize \/ peer = "dead" \/ Room = 0
    /\ txPc' = "wait"
    /\ UNCHANGED <<bufVars, insend, txSock, peerVars, term, posted, killed>>

(* Tier 2: a peer that has decoded the shutdown exits, and is reaped. *)
TermExit ==
    /\ txPc = "wait"
    /\ peer = "dead" \/ (peer = "alive" /\ \E i \in DOMAIN txGot : txGot[i] = Shutdown)
    /\ peer' = "dead" /\ txPc' = "gone" /\ txSock' = << >>
    /\ UNCHANGED <<bufVars, insend, txRbuf, txGot, torn, term, posted, killed>>

(* Tier 3, SIGKILL after two seconds: time enough for a peer that is not hung to  *)
(* read all there is.                                                             *)
TermKill ==
    /\ txPc = "wait"
    /\ \/ peer = "hung"
       \/ peer = "alive" /\ txSock = << >> /\ \A i \in DOMAIN txGot : txGot[i] # Shutdown
    /\ peer' = "dead" /\ txPc' = "gone" /\ txSock' = << >>
    /\ killed' = (killed \/ peer = "alive")
    /\ UNCHANGED <<bufVars, insend, txRbuf, txGot, torn, term, posted>>

Gone == txPc = "gone" /\ UNCHANGED txVars

-----------------------------------------------------------------------------
Flush == FlushSend \/ FlushStop \/ FlushEpipe \/ FlushEnd
Terminating == TermWrite \/ TermWritten \/ TermExit \/ TermKill

TxNext ==
    \/ Send \/ TimerFire \/ Flush \/ TxTerminate \/ Terminating
    \/ PeerRead \/ PeerDies \/ PeerHangs
    \/ Gone

TxSpec == TxInit /\ [][TxNext]_txVars

(* The loop turns and its timer fires; a peer that is not hung reads. *)
TxFairness == WF_txVars(Flush) /\ WF_txVars(TimerFire) /\ WF_txVars(Terminating) /\ WF_txVars(PeerRead)

TxLiveSpec == TxSpec /\ TxFairness

-----------------------------------------------------------------------------
(* Properties *)

(* Every variable keeps its type, and the flush stays inside the buffer. *)
TxTypeOK ==
    /\ len \in Nat /\ off \in 0 .. Len(buf)
    /\ {timer, insend, torn, killed} \subseteq BOOLEAN
    /\ txPc \in {"idle", "flush", "end", "term", "wait", "gone"}
    /\ peer \in {"alive", "hung", "dead"}
    /\ Len(txSock) <= SockCap /\ Len(txRbuf) < FrameSize
    /\ term \in 0 .. FrameSize /\ posted \in 0 .. MaxTxPost

(* tx->len never exceeds the bytes stored in tx->buf: what the next flush sends    *)
(* and memmove moves is inside the buffer.                                         *)
LenInBuffer == len <= Len(buf)

(* The peer decodes the posted frames whole, in order and without a gap; the        *)
(* shutdown comes last ("lossless, non-blocking, FIFO").                            *)
LosslessFifo ==
    /\ ~torn
    /\ \A i \in DOMAIN txGot : txGot[i] = i \/ (i = Len(txGot) /\ txGot[i] = Shutdown)

(* SIGKILL is used only on a peer that is hung. *)
KillsOnlyHung == ~killed

(* A posted frame is decoded, unless the peer ends or hangs or is terminated. *)
EveryFrameArrives ==
    \A f \in 1 .. MaxTxPost :
      posted >= f ~> (Len(txGot) >= f \/ peer # "alive" \/ txPc \in {"wait", "gone"})

(* The channel as its users see it: frames arrive whole, once and in the order  *)
(* of the posts although the socket takes them in pieces, the count of buffered *)
(* bytes is right after every partial send, and terminate kills only a child    *)
(* that does not read.                                                          *)
SocketIsFifo ==
    /\ TxTypeOK /\ LenInBuffer /\ LosslessFifo /\ KillsOnlyHung
=============================================================================
