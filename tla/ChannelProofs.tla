--------------------------- MODULE ChannelProofs ---------------------------
(***************************************************************************)
(* Proofs about the process channel, its bytes (IpcTx) and its processes    *)
(* (ProcHandles).                                                           *)
(*                                                                         *)
(* IpcTx, for frames, sockets and size_t of any size: the spill buffer and  *)
(* the socket are one stream of bytes, and the peer decodes it frame by     *)
(* frame, as long as the peer does not die between two sends of one flush   *)
(* and terminate is called with nothing under way.  A place in the stream   *)
(* is <<n, i>>, byte i of the n-th frame; the shutdown is the frame after   *)
(* the last one posted.  The invariant says that what the peer holds, what  *)
(* is in the socket and what is not yet sent are three consecutive          *)
(* stretches of it.                                                         *)
(*                                                                         *)
(* ProcHandles, for any number of handles, processes, frames and pings and  *)
(* whatever a message handler does.  A slot names its process only together *)
(* with the slot number the process keeps, and a process that JS has not    *)
(* terminated keeps its slot (Life): so a frame can only go astray when its *)
(* Worker was terminated, and where handlers start no process it cannot     *)
(* (PumpState).  That nothing is lost needs the frames in the buffer and in *)
(* the socket as one sequence (Stream); that a ping is answered truthfully   *)
(* needs the order of PINGs on their way out and PONGs on their way back    *)
(* (PingState).                                                             *)
(***************************************************************************)
EXTENDS IpcTx, ProcHandles, SequenceTheorems, FiniteSetTheorems, TLAPS

-----------------------------------------------------------------------------
(* The bytes of the channel *)

Bytes == Nat \X (1 .. FrameSize)

(* The place after place b, and the place of a byte. *)
Succ(b) == IF b[2] < FrameSize THEN <<b[1], b[2] + 1>> ELSE <<b[1] + 1, 1>>
Ord(b) == <<IF b[1] = Shutdown THEN posted + 1 ELSE b[1], b[2]>>

(* Where the peer reads next, and where the socket's bytes end. *)
ReadPos == <<Len(txGot) + 1, Len(txRbuf) + 1>>
SockEnd == IF txSock = << >> THEN ReadPos ELSE Succ(Ord(txSock[Len(txSock)]))

TermPhase == txPc \in {"term", "wait", "gone"}

StreamTypes ==
    /\ buf \in Seq(Bytes) /\ txSock \in Seq(Bytes) /\ txRbuf \in Seq(Bytes)
    /\ txGot \in Seq(Nat)
    /\ len \in Nat /\ off \in Nat
    /\ timer \in BOOLEAN /\ insend \in BOOLEAN
    /\ txPc \in {"idle", "flush", "end", "term", "wait", "gone"}
    /\ peer \in {"alive", "hung", "dead"}
    /\ Len(txSock) <= SockCap /\ Len(txRbuf) < FrameSize
    /\ term \in 0 .. FrameSize /\ posted \in 0 .. MaxTxPost
    /\ torn = FALSE /\ killed = FALSE

(* tx->len counts the bytes stored, except after EPIPE, when the buffer is  *)
(* about to be emptied; a flush that has sent something was not broken off. *)
BufferCount ==
    /\ off <= Len(buf)
    /\ Len(buf) <= posted * FrameSize
    /\ len = Len(buf) \/ (peer = "dead" /\ txPc = "end" /\ len = 0 /\ off = 0)
    /\ peer = "dead" /\ txPc = "flush" => off = 0
    /\ txPc \notin {"flush", "end"} => off = 0
    /\ TermPhase => len = 0

(* The frames decoded are the first ones posted, then the shutdown. *)
Decoded ==
    /\ \A i \in 1 .. Len(txGot) : txGot[i] = IF i <= posted THEN i ELSE Shutdown
    /\ Len(txGot) <= posted + 1
    /\ Len(txGot) > posted => TermPhase

(* The bytes of the shutdown come after terminate. *)
Labels ==
    /\ \A i \in 1 .. Len(txSock) :
         txSock[i][1] <= posted /\ (txSock[i][1] = Shutdown => TermPhase)
    /\ \A i \in 1 .. Len(txRbuf) :
         txRbuf[i][1] <= posted /\ (txRbuf[i][1] = Shutdown => TermPhase)
    /\ \A i \in 1 .. Len(buf) : buf[i][1] \in 1 .. posted

(* The bytes on the way are in their places. *)
Places ==
    /\ \A i \in 1 .. Len(txRbuf) : Ord(txRbuf[i]) = <<Len(txGot) + 1, i>>
    /\ txSock # << >> => Ord(txSock[1]) = ReadPos
    /\ \A i \in 1 .. Len(txSock) - 1 : Ord(txSock[i + 1]) = Succ(Ord(txSock[i]))
    /\ off < Len(buf) => buf[off + 1] = SockEnd /\ buf[Len(buf)] = <<posted, FrameSize>>
    /\ \A i \in off + 1 .. Len(buf) - 1 : buf[i + 1] = Succ(buf[i])
    /\ off = Len(buf) /\ ~TermPhase => SockEnd = <<posted + 1, 1>>
    /\ TermPhase =>
         SockEnd = IF term < FrameSize THEN <<posted + 1, term + 1>> ELSE <<posted + 2, 1>>

(* The socket has room for the rest of the shutdown frame. *)
TermRoom ==
    /\ ~TermPhase => term = 0
    /\ TermPhase /\ peer # "dead" => Room + term >= FrameSize
    /\ txPc = "wait" /\ peer # "dead" => term = FrameSize

TxInv ==
    /\ StreamTypes
    /\ BufferCount
    /\ Decoded
    /\ Labels
    /\ peer # "dead" => Places
    /\ TermRoom

-----------------------------------------------------------------------------
(* Arithmetic and sequences. *)

LEMMA Multiples ==
  ASSUME NEW n \in Nat, NEW m \in Nat, NEW k \in Nat, n <= m
  PROVE  n * k <= m * k /\ (n + 1) * k = n * k + k /\ n * k \in Nat
<1>1. PICK d \in Nat : m = n + d
  BY m - n \in Nat
<1>2. m * k = n * k + d * k /\ d * k >= 0 /\ n * k \in Nat
  BY <1>1
<1> QED BY <1>2

LEMMA SmallMod ==
  ASSUME NEW a \in Nat, NEW m \in Nat, a < m
  PROVE  a % m = a /\ (a + m) % m = a
OBVIOUS

LEMMA FrameSeq ==
  ASSUME NEW f \in Nat
  PROVE  /\ TxFrame(f) \in Seq(Bytes) /\ Len(TxFrame(f)) = FrameSize
         /\ \A i \in 1 .. FrameSize : TxFrame(f)[i] = <<f, i>>
<1> USE TxAssumption
<1>1. TxFrame(f) \in [1 .. FrameSize -> Bytes]
  BY DEF TxFrame, Bytes
<1> QED BY <1>1 DEF TxFrame

-----------------------------------------------------------------------------
(* Both ends start with nothing. *)
LEMMA TxInitInv == TxInit => TxInv
<1> SUFFICES ASSUME TxInit PROVE TxInv
  OBVIOUS
<1> USE TxAssumption DEF TxInit
<1>1. Len(buf) = 0 /\ Len(txSock) = 0 /\ Len(txRbuf) = 0 /\ Len(txGot) = 0
  OBVIOUS
<1>2. StreamTypes
  <2>1. buf \in Seq(Bytes) /\ txSock \in Seq(Bytes) /\ txRbuf \in Seq(Bytes) /\ txGot \in Seq(Nat)
    BY EmptySeq
  <2>2. timer \in BOOLEAN /\ insend \in BOOLEAN /\ torn = FALSE /\ killed = FALSE
    OBVIOUS
  <2>3. /\ len \in Nat /\ off \in Nat /\ term \in 0 .. FrameSize /\ posted \in 0 .. MaxTxPost
        /\ Len(txSock) <= SockCap /\ Len(txRbuf) < FrameSize
    BY <1>1
  <2>4. /\ txPc \in {"idle", "flush", "end", "term", "wait", "gone"}
        /\ peer \in {"alive", "hung", "dead"}
    OBVIOUS
  <2> QED BY <2>1, <2>2, <2>3, <2>4 DEF StreamTypes
<1>3. BufferCount
  <2>1. 0 * FrameSize = 0
    OBVIOUS
  <2> QED BY <2>1, <1>1 DEF BufferCount, TermPhase
<1>5. Decoded /\ Labels /\ TermRoom
  BY <1>1 DEF Decoded, Labels, TermRoom, TermPhase
<1>4. Places
  <2>1. SockEnd = <<1, 1>>
    BY <1>1 DEF SockEnd, ReadPos
  <2>2. /\ 1 .. Len(txRbuf) = {} /\ 1 .. Len(txSock) - 1 = {}
        /\ off + 1 .. Len(buf) - 1 = {} /\ txSock = << >> /\ ~(off < Len(buf))
    BY <1>1
  <2> QED BY <2>1, <2>2 DEF Places, TermPhase
<1> QED BY <1>2, <1>3, <1>4, <1>5 DEF TxInv

(* qz_tx_send: the frame continues the stream. *)
LEMMA SendInv ==
  ASSUME TxInv, Send
  PROVE  TxInv'
<1> USE TxAssumption
<1>a. /\ txPc = "idle" /\ posted < MaxTxPost /\ posted' = posted + 1
      /\ buf' = buf \o TxFrame(posted + 1)
      /\ len' = (len + FrameSize) % SizeMod
      /\ txPc' = "flush" /\ insend' = TRUE
      /\ UNCHANGED <<off, timer, txSock, peer, txRbuf, txGot, torn, term, killed>>
  BY DEF Send, peerVars
<1>b. StreamTypes /\ BufferCount /\ Decoded /\ Labels /\ TermRoom /\ ~TermPhase /\ ~TermPhase'
      /\ (peer # "dead" => Places)
  BY <1>a DEF TxInv, TermPhase
<1>c. /\ buf \in Seq(Bytes) /\ Len(buf) \in Nat /\ posted \in Nat /\ off = 0 /\ len = Len(buf)
      /\ posted + 1 \in Nat
  BY <1>a, <1>b DEF StreamTypes, BufferCount
<1>d. /\ buf' \in Seq(Bytes) /\ Len(buf') = Len(buf) + FrameSize
      /\ \A i \in 1 .. Len(buf) : buf'[i] = buf[i]
      /\ \A i \in Len(buf) + 1 .. Len(buf) + FrameSize : buf'[i] = <<posted + 1, i - Len(buf)>>
  <2>1. /\ TxFrame(posted + 1) \in Seq(Bytes) /\ Len(TxFrame(posted + 1)) = FrameSize
        /\ \A i \in 1 .. FrameSize : TxFrame(posted + 1)[i] = <<posted + 1, i>>
    BY <1>c, FrameSeq
  <2> HIDE DEF TxFrame
  <2>2. /\ buf' \in Seq(Bytes) /\ Len(buf') = Len(buf) + FrameSize
        /\ \A i \in 1 .. Len(buf) + FrameSize :
             buf'[i] = IF i <= Len(buf) THEN buf[i] ELSE TxFrame(posted + 1)[i - Len(buf)]
    BY <2>1, <1>a, <1>c, ConcatProperties
  <2>3. \A i \in Len(buf) + 1 .. Len(buf) + FrameSize :
           i \in 1 .. Len(buf) + FrameSize /\ i - Len(buf) \in 1 .. FrameSize /\ ~(i <= Len(buf))
    BY <1>c
  <2>4. \A i \in 1 .. Len(buf) : i \in 1 .. Len(buf) + FrameSize /\ i <= Len(buf)
    BY <1>c
  <2> QED BY <2>1, <2>2, <2>3, <2>4
<1>e. len' = len + FrameSize /\ Len(buf') <= posted' * FrameSize
  <2>1. (posted + 1) * FrameSize = posted * FrameSize + FrameSize
    BY <1>c, Multiples
  <2>2. posted * FrameSize <= MaxTxPost * FrameSize
    BY <1>a, <1>c, Multiples
  <2>3. (MaxTxPost + 1) * FrameSize = MaxTxPost * FrameSize + FrameSize
    BY Multiples
  <2>4. Len(buf) + FrameSize <= posted * FrameSize + FrameSize
    BY <1>b, <1>c DEF BufferCount
  <2>5. len + FrameSize < SizeMod /\ len + FrameSize \in Nat
    BY <2>2, <2>3, <2>4, <1>c
  <2> QED BY <2>1, <2>4, <2>5, <1>a, <1>c, <1>d, SmallMod
<1>1. StreamTypes'
  BY <1>a, <1>b, <1>c, <1>d, <1>e DEF StreamTypes
<1>2. BufferCount'
  BY <1>a, <1>b, <1>c, <1>d, <1>e DEF BufferCount, TermPhase
<1>3. Decoded'
  BY <1>a, <1>b DEF Decoded, StreamTypes
<1>4. Labels'
  <2>1. \A i \in 1 .. Len(buf') : buf'[i][1] \in 1 .. posted + 1
    <3> SUFFICES ASSUME NEW i \in 1 .. Len(buf') PROVE buf'[i][1] \in 1 .. posted + 1
      OBVIOUS
    <3>1. CASE i <= Len(buf)
      BY <3>1, <1>b, <1>c, <1>d DEF Labels
    <3>2. CASE i > Len(buf)
      BY <3>2, <1>c, <1>d
    <3> QED BY <3>1, <3>2, <1>c, <1>d
  <2>2. /\ \A i \in 1 .. Len(txSock) : txSock[i] \in Bytes
        /\ \A i \in 1 .. Len(txRbuf) : txRbuf[i] \in Bytes
    BY <1>b DEF StreamTypes
  <2>3. \A b \in Bytes : b[1] <= posted => b[1] <= posted + 1
    BY <1>c DEF Bytes
  <2> QED BY <2>1, <2>2, <2>3, <1>a, <1>b DEF Labels
<1>5. TermRoom'
  BY <1>a, <1>b DEF TermRoom, TermPhase
<1>6. ASSUME peer # "dead" PROVE Places'
  <2>1. /\ \A i \in 1 .. Len(txSock) : Ord(txSock[i])' = Ord(txSock[i])
        /\ \A i \in 1 .. Len(txRbuf) : Ord(txRbuf[i])' = Ord(txRbuf[i])
    BY <1>a, <1>b DEF Ord, Labels
  <2>2. ReadPos' = ReadPos
    BY <1>a DEF ReadPos
  <2>3. SockEnd' = SockEnd
    <3>1. txSock # << >> => Len(txSock) \in 1 .. Len(txSock)
      BY <1>b DEF StreamTypes
    <3> QED BY <3>1, <2>2, <1>a, <1>b DEF SockEnd, Succ, Ord, Labels
  <2>4. /\ buf'[1] = SockEnd /\ buf'[Len(buf')] = <<posted + 1, FrameSize>>
    <3>0. buf'[Len(buf')] = <<posted + 1, FrameSize>>
      <4>1. /\ Len(buf') \in Len(buf) + 1 .. Len(buf) + FrameSize
            /\ Len(buf') - Len(buf) = FrameSize
        BY <1>c, <1>d
      <4> QED BY <4>1, <1>d
    <3>1. CASE Len(buf) = 0
      <4>1. SockEnd = <<posted + 1, 1>>
        BY <3>1, <1>6, <1>b, <1>c DEF Places
      <4>2. 1 \in Len(buf) + 1 .. Len(buf) + FrameSize /\ 1 - Len(buf) = 1
        BY <3>1
      <4> QED BY <4>1, <4>2, <3>0, <1>d
    <3>2. CASE Len(buf) # 0
      <4>1. buf[1] = SockEnd
        BY <3>2, <1>6, <1>b, <1>c DEF Places
      <4>2. 1 \in 1 .. Len(buf)
        BY <3>2, <1>c
      <4> QED BY <4>1, <4>2, <3>0, <1>d
    <3> QED BY <3>1, <3>2
  <2>5. ASSUME NEW i \in 1 .. Len(buf') - 1 PROVE buf'[i + 1] = Succ(buf'[i])
    <3>1. CASE i < Len(buf)
      <4>1. i \in 1 .. Len(buf) /\ i + 1 \in 1 .. Len(buf) /\ i \in off + 1 .. Len(buf) - 1
        BY <3>1, <1>c, <1>d
      <4> QED BY <4>1, <1>6, <1>b, <1>d DEF Places
    <3>2. CASE i = Len(buf)
      <4>1. buf[Len(buf)] = <<posted, FrameSize>> /\ Len(buf) \in 1 .. Len(buf)
        BY <3>2, <1>6, <1>b, <1>c, <1>d DEF Places
      <4>2. buf'[i] = <<posted, FrameSize>> /\ buf'[i + 1] = <<posted + 1, 1>>
        BY <4>1, <3>2, <1>c, <1>d
      <4> QED BY <4>2 DEF Succ
    <3>3. CASE i > Len(buf)
      <4>1. /\ buf'[i] = <<posted + 1, i - Len(buf)>>
            /\ buf'[i + 1] = <<posted + 1, (i + 1) - Len(buf)>>
            /\ i - Len(buf) < FrameSize
        BY <3>3, <1>c, <1>d
      <4> QED BY <4>1, <1>c DEF Succ
    <3> QED BY <3>1, <3>2, <3>3, <1>c, <1>d
  <2>6. off' < Len(buf') /\ off' = 0
    BY <1>a, <1>c, <1>d
  <2>7. \A i \in 1 .. Len(buf') - 1 : buf'[i + 1] = Succ(buf'[i])
    BY <2>5
  <2>9. /\ \A i \in 1 .. Len(txRbuf') : Ord(txRbuf[i])' = <<Len(txGot') + 1, i>>
        /\ txSock' # << >> => Ord(txSock[1])' = ReadPos'
        /\ \A i \in 1 .. Len(txSock') - 1 : Ord(txSock[i + 1])' = Succ(Ord(txSock[i]))'
    <3>1. \A i \in 1 .. Len(txRbuf) : Ord(txRbuf[i])' = <<Len(txGot) + 1, i>>
      BY <2>1, <1>6, <1>b DEF Places
    <3>2. Len(txSock) \in Nat /\ (txSock # << >> => 1 \in 1 .. Len(txSock))
      BY <1>b DEF StreamTypes
    <3>3. txSock # << >> => Ord(txSock[1])' = ReadPos
      BY <3>2, <2>1, <1>6, <1>b DEF Places
    <3>4. \A i \in 1 .. Len(txSock) - 1 : i \in 1 .. Len(txSock) /\ i + 1 \in 1 .. Len(txSock)
      BY <3>2
    <3>5. \A i \in 1 .. Len(txSock) - 1 : Ord(txSock[i + 1])' = Succ(Ord(txSock[i]))
      BY <3>4, <2>1, <1>6, <1>b DEF Places
    <3>6. \A i \in 1 .. Len(txSock) - 1 : Succ(Ord(txSock[i]))' = Succ(Ord(txSock[i]))
      BY <3>4, <2>1 DEF Succ
    <3> QED BY <3>1, <3>3, <3>5, <3>6, <2>2, <1>a
  <2>10. off' < Len(buf') /\ off' = 0 /\ ~TermPhase' /\ Len(buf') \in Nat
    BY <2>6, <1>b, <1>c, <1>d
  <2>11. \A i \in off' + 1 .. Len(buf') - 1 : buf'[i + 1] = Succ(buf[i])'
    <3>1. off' + 1 = 1
      BY <2>10
    <3>2. \A i \in 1 .. Len(buf') - 1 : Succ(buf'[i]) = Succ(buf[i])'
      BY DEF Succ
    <3> QED BY <3>1, <3>2, <2>7
  <2>12. buf'[off' + 1] = SockEnd' /\ buf'[Len(buf')] = <<posted', FrameSize>>
    BY <2>3, <2>4, <2>10, <1>a
  <2> QED BY <2>9, <2>10, <2>11, <2>12 DEF Places
<1> QED BY <1>1, <1>2, <1>3, <1>4, <1>5, <1>6, <1>a DEF TxInv

(* Steps that leave the stream alone. *)
LEMMA TxControlInv ==
  ASSUME TxInv, TimerFire \/ FlushStop \/ PeerHangs \/ TermWritten \/ Gone \/ UNCHANGED txVars
  PROVE  TxInv'
<1> USE TxAssumption
<1>a. /\ UNCHANGED <<buf, len, off, timer, txSock, txRbuf, txGot, torn, term, posted, killed>>
      /\ (TermPhase' <=> TermPhase) /\ (peer' = "dead" <=> peer = "dead")
  BY DEF TimerFire, FlushStop, PeerHangs, TermWritten, Gone, txVars, bufVars, peerVars, TermPhase
<1>b. StreamTypes /\ BufferCount /\ Decoded /\ Labels /\ TermRoom /\ (peer # "dead" => Places)
  BY DEF TxInv
<1>1. StreamTypes'
  <2>1. insend' \in BOOLEAN
    BY <1>b DEF TimerFire, FlushStop, PeerHangs, TermWritten, Gone, txVars, StreamTypes
  <2>2. txPc' \in {"idle", "flush", "end", "term", "wait", "gone"} /\ peer' \in {"alive", "hung", "dead"}
    BY <1>b DEF TimerFire, FlushStop, PeerHangs, TermWritten, Gone, txVars, peerVars, StreamTypes
  <2> QED BY <2>1, <2>2, <1>a, <1>b DEF StreamTypes
<1>2. BufferCount'
  <2>1. /\ txPc' \notin {"flush", "end"} => txPc \notin {"flush", "end"}
        /\ txPc = "end" => txPc' = "end"
        /\ txPc' = "flush" => txPc \in {"flush", "idle"}
    BY DEF TimerFire, FlushStop, PeerHangs, TermWritten, Gone, txVars
  <2> QED BY <2>1, <1>a, <1>b DEF BufferCount
<1>3. Decoded' /\ Labels'
  BY <1>a, <1>b DEF Decoded, Labels
<1>4. TermRoom'
  <2>1. ASSUME txPc' = "wait", peer' # "dead" PROVE term = FrameSize
    <3>1. CASE txPc = "wait"
      BY <3>1, <2>1, <1>a, <1>b DEF TermRoom
    <3>2. CASE TermWritten
      BY <3>2, <2>1, <1>a, <1>b DEF TermWritten, TermRoom, TermPhase, StreamTypes, peerVars
    <3> QED BY <3>1, <3>2, <2>1 DEF TimerFire, FlushStop, PeerHangs, Gone, txVars
  <2>2. Room' = Room
    BY <1>a DEF Room
  <2> QED BY <2>1, <2>2, <1>a, <1>b DEF TermRoom
<1>5. ASSUME peer' # "dead" PROVE Places'
  <2>1. ReadPos' = ReadPos /\ SockEnd' = SockEnd
    BY <1>a DEF ReadPos, SockEnd, Succ, Ord
  <2> QED BY <2>1, <1>5, <1>a, <1>b DEF Places, Ord, Succ
<1> QED BY <1>1, <1>2, <1>3, <1>4, <1>5 DEF TxInv

(* qz_proc_terminate begins with nothing buffered and room for its frame. *)
LEMMA TxTerminateInv ==
  ASSUME TermBehind = FALSE, TxInv, TxTerminate
  PROVE  TxInv'
<1> USE TxAssumption
<1>a. /\ txPc = "idle" /\ len = 0 /\ Room >= FrameSize /\ txPc' = "term"
      /\ UNCHANGED <<buf, len, off, timer, insend, txSock, peer, txRbuf, txGot, torn, term,
                     posted, killed>>
  BY DEF TxTerminate, bufVars, peerVars
<1>b. /\ StreamTypes /\ BufferCount /\ Decoded /\ Labels /\ TermRoom /\ (peer # "dead" => Places)
      /\ ~TermPhase /\ TermPhase'
  BY <1>a DEF TxInv, TermPhase
<1>c. Len(buf) = 0 /\ off = 0 /\ term = 0
  BY <1>a, <1>b DEF BufferCount, TermRoom
<1>1. StreamTypes' /\ BufferCount' /\ Decoded' /\ Labels'
  BY <1>a, <1>b, <1>c DEF StreamTypes, BufferCount, Decoded, Labels
<1>2. TermRoom'
  BY <1>a, <1>b, <1>c DEF TermRoom, Room, StreamTypes
<1>3. ASSUME peer # "dead" PROVE Places'
  <2>1. ReadPos' = ReadPos /\ SockEnd' = SockEnd
    BY <1>a DEF ReadPos, SockEnd, Succ, Ord
  <2>2. SockEnd = <<posted + 1, 1>>
    BY <1>3, <1>b, <1>c DEF Places
  <2> QED BY <2>1, <2>2, <1>3, <1>a, <1>b, <1>c DEF Places, Ord, Succ
<1> QED BY <1>1, <1>2, <1>3, <1>a DEF TxInv

(* EPIPE: the length is dropped before anything of this flush was sent. *)
LEMMA FlushEpipeInv ==
  ASSUME TxInv, FlushEpipe
  PROVE  TxInv'
<1> USE TxAssumption
<1>a. /\ txPc = "flush" /\ peer = "dead" /\ len' = 0 /\ txPc' = "end"
      /\ UNCHANGED <<buf, off, timer, insend, txSock, peer, txRbuf, txGot, torn, term, posted, killed>>
  BY DEF FlushEpipe, peerVars
<1>b. StreamTypes /\ BufferCount /\ Decoded /\ Labels /\ TermRoom /\ ~TermPhase /\ ~TermPhase'
  BY <1>a DEF TxInv, TermPhase
<1> QED BY <1>a, <1>b DEF TxInv, StreamTypes, BufferCount, Decoded, Labels, TermRoom, TermPhase

(* The peer dies, or is reaped or killed: nothing is under way any more. *)
LEMMA PeerEndInv ==
  ASSUME DieInFlush = FALSE, TxInv, PeerDies \/ TermExit \/ TermKill
  PROVE  TxInv'
<1> USE TxAssumption
<1>a. /\ peer' = "dead" /\ txSock' = << >>
      /\ UNCHANGED <<buf, len, off, timer, insend, txRbuf, txGot, torn, term, posted>>
      /\ (TermPhase' <=> TermPhase)
      /\ txPc' = txPc \/ (TermPhase /\ txPc' = "gone")
  BY DEF PeerDies, TermExit, TermKill, bufVars, TermPhase
<1>b. StreamTypes /\ BufferCount /\ Decoded /\ Labels /\ TermRoom /\ (peer # "dead" => Places)
  BY DEF TxInv
<1>c. killed' = FALSE
  <2>1. CASE PeerDies \/ TermExit
    BY <2>1, <1>b DEF PeerDies, TermExit, StreamTypes
  <2>2. CASE TermKill /\ peer = "hung"
    BY <2>2, <1>b DEF TermKill, StreamTypes
  <2>3. CASE TermKill /\ peer = "alive"
    <3>1. /\ txPc = "wait" /\ txSock = << >> /\ \A i \in DOMAIN txGot : txGot[i] # Shutdown
      BY <2>3 DEF TermKill
    <3>2. term = FrameSize /\ Places /\ TermPhase
      BY <3>1, <2>3, <1>b DEF TermRoom, TermPhase
    <3>3. Len(txGot) = posted + 1
      BY <3>1, <3>2, <1>b DEF Places, SockEnd, ReadPos, StreamTypes
    <3>4. Len(txGot) \in DOMAIN txGot /\ Len(txGot) \in 1 .. Len(txGot) /\ ~(Len(txGot) <= posted)
      BY <3>3, <1>b DEF StreamTypes
    <3>5. txGot[Len(txGot)] = Shutdown
      BY <3>4, <1>b DEF Decoded
    <3> QED BY <3>1, <3>4, <3>5
  <2> QED BY <2>1, <2>2, <2>3 DEF TermKill
<1>d. Len(txSock') = 0 /\ txSock' \in Seq(Bytes)
  BY <1>a, EmptySeq
<1>1. StreamTypes'
  <2>1. txPc' \in {"idle", "flush", "end", "term", "wait", "gone"}
    BY <1>a, <1>b DEF StreamTypes
  <2> QED BY <2>1, <1>a, <1>b, <1>c, <1>d DEF StreamTypes
<1>2. BufferCount'
  <2>1. txPc' = "flush" => off = 0
    BY <1>a, <1>b DEF BufferCount, PeerDies, TermExit, TermKill, TermPhase
  <2> QED BY <2>1, <1>a, <1>b DEF BufferCount, TermPhase
<1>3. Decoded' /\ Labels' /\ TermRoom'
  BY <1>a, <1>b, <1>d DEF Decoded, Labels, TermRoom
<1> QED BY <1>1, <1>2, <1>3, <1>a DEF TxInv

(* A byte of a posted frame is its own place. *)
LEMMA OrdPosted ==
  ASSUME NEW b \in Bytes, b[1] # Shutdown
  PROVE  Ord(b) = b
BY DEF Ord, Bytes, Shutdown

(* One send(): a stretch of the buffer moves to the end of the socket. *)
LEMMA FlushSendInv ==
  ASSUME TxInv, FlushSend
  PROVE  TxInv'
<1> USE TxAssumption
<1>a. /\ txPc = "flush" /\ off < len /\ peer # "dead" /\ Room > 0
      /\ UNCHANGED <<buf, len, timer, txPc, insend, peer, txRbuf, txGot, torn, term, posted, killed>>
  BY DEF FlushSend, peerVars
<1>p. PICK n \in 1 .. Least(Room, len - off) :
         txSock' = txSock \o SubSeq(buf, off + 1, off + n) /\ off' = off + n
  BY DEF FlushSend
<1>b. /\ StreamTypes /\ BufferCount /\ Decoded /\ Labels /\ TermRoom /\ Places
      /\ ~TermPhase /\ ~TermPhase'
  BY <1>a DEF TxInv, TermPhase
<1> DEFINE m == Len(txSock)
<1>c. /\ m \in Nat /\ off \in Nat /\ Len(buf) \in Nat /\ len = Len(buf) /\ n \in Nat /\ n >= 1
      /\ off + n <= Len(buf) /\ m + n <= SockCap /\ txSock \in Seq(Bytes) /\ buf \in Seq(Bytes)
      /\ m \in Int /\ off + 1 \in Int /\ off + n \in Int /\ posted \in Nat
  BY <1>a, <1>b DEF StreamTypes, BufferCount, Least, Room
<1>d. /\ txSock' \in Seq(Bytes) /\ Len(txSock') = m + n
      /\ \A i \in 1 .. m : txSock'[i] = txSock[i]
      /\ \A i \in m + 1 .. m + n : txSock'[i] = buf[off + (i - m)]
  <2> DEFINE t == SubSeq(buf, off + 1, off + n)
  <2>1. \A i \in off + 1 .. off + n : buf[i] \in Bytes
    BY <1>c
  <2>2. /\ t \in Seq(Bytes) /\ Len(t) = n
        /\ \A i \in 1 .. n : t[i] = buf[off + i]
    <3>1. /\ t \in Seq(Bytes)
          /\ Len(t) = IF off + 1 <= off + n THEN (off + n) - (off + 1) + 1 ELSE 0
          /\ \A i \in 1 .. (off + n) - (off + 1) + 1 : t[i] = buf[(off + 1) + i - 1]
      BY <2>1, <1>c, SubSeqProperties
    <3>2. /\ (off + n) - (off + 1) + 1 = n /\ off + 1 <= off + n
          /\ \A i \in 1 .. n : (off + 1) + i - 1 = off + i
      BY <1>c
    <3> QED BY <3>1, <3>2
  <2> HIDE DEF t
  <2>3. /\ txSock' \in Seq(Bytes) /\ Len(txSock') = m + n
        /\ \A i \in 1 .. m + n : txSock'[i] = IF i <= m THEN txSock[i] ELSE t[i - m]
    BY <2>2, <1>c, <1>p, ConcatProperties DEF t
  <2>4. /\ \A i \in 1 .. m : i \in 1 .. m + n /\ i <= m
        /\ \A i \in m + 1 .. m + n : i \in 1 .. m + n /\ ~(i <= m) /\ i - m \in 1 .. n
    BY <1>c
  <2> QED BY <2>2, <2>3, <2>4
<1>e. /\ off' = off + n
      /\ \A i \in 1 .. n : /\ off + i \in 1 .. Len(buf)
                           /\ buf[off + i] \in Bytes
                           /\ buf[off + i][1] \in 1 .. posted
                           /\ Ord(buf[off + i]) = buf[off + i]
  <2>1. \A i \in 1 .. n : off + i \in 1 .. Len(buf)
    BY <1>c
  <2>2. \A i \in 1 .. n : buf[off + i] \in Bytes /\ buf[off + i][1] \in 1 .. posted
    BY <2>1, <1>b, <1>c DEF Labels
  <2>3. \A i \in 1 .. n : buf[off + i][1] # Shutdown
    <3>1. \A k \in 1 .. posted : k # Shutdown
      BY <1>c DEF Shutdown
    <3> QED BY <2>2, <3>1
  <2> QED BY <2>1, <2>2, <2>3, <1>p, OrdPosted
<1> HIDE DEF m
<1>1. StreamTypes' /\ BufferCount' /\ Decoded' /\ TermRoom'
  BY <1>a, <1>b, <1>c, <1>d, <1>e DEF StreamTypes, BufferCount, Decoded, TermRoom, TermPhase
<1>2. Labels'
  <2>1. ASSUME NEW i \in 1 .. m + n
        PROVE  txSock'[i][1] <= posted /\ txSock'[i][1] # Shutdown
    <3>1. CASE i <= m
      <4>1. i \in 1 .. m
        BY <3>1, <1>c
      <4> QED BY <4>1, <1>b, <1>d DEF Labels, m
    <3>2. CASE i > m
      <4>1. i \in m + 1 .. m + n /\ i - m \in 1 .. n
        BY <3>2, <1>c
      <4>2. txSock'[i][1] \in 1 .. posted
        BY <4>1, <1>d, <1>e
      <4> QED BY <4>2, <1>c DEF Shutdown
    <3> QED BY <3>1, <3>2, <1>c
  <2> QED BY <2>1, <1>a, <1>b, <1>d DEF Labels
<1>3. Places'
  <2>1. \A i \in 1 .. m + n : Ord(txSock[i])' = Ord(txSock'[i])
    BY <1>a DEF Ord
  <2>2. ReadPos' = ReadPos
    BY <1>a DEF ReadPos
  <2>3. \A i \in m + 1 .. m + n : Ord(txSock'[i]) = buf[off + (i - m)]
    <3>1. \A i \in m + 1 .. m + n : i - m \in 1 .. n
      BY <1>c
    <3> QED BY <3>1, <1>d, <1>e
  <2>4. Ord(txSock'[1]) = ReadPos
    <3>1. CASE m = 0
      <4>1. SockEnd = ReadPos /\ buf[off + 1] = SockEnd
        BY <3>1, <1>b, <1>c DEF SockEnd, Places, m
      <4>2. 1 \in m + 1 .. m + n /\ off + (1 - m) = off + 1
        BY <3>1, <1>c
      <4>3. Ord(txSock'[1]) = buf[off + (1 - m)]
        BY <4>2, <2>3
      <4> QED BY <4>1, <4>2, <4>3
    <3>2. CASE m # 0
      <4>1. 1 \in 1 .. m /\ txSock # << >>
        BY <3>2, <1>c DEF m
      <4> QED BY <4>1, <1>b, <1>d DEF Places
    <3> QED BY <3>1, <3>2
  <2>5. ASSUME NEW i \in 1 .. m + n - 1
        PROVE  Ord(txSock'[i + 1]) = Succ(Ord(txSock'[i]))
    <3>1. CASE i < m
      <4>1. i \in 1 .. m /\ i + 1 \in 1 .. m /\ i \in 1 .. m - 1
        BY <3>1, <1>c
      <4> QED BY <4>1, <1>b, <1>d DEF Places, m
    <3>2. CASE i = m
      <4>1. /\ m \in 1 .. m /\ txSock # << >> /\ m + 1 \in m + 1 .. m + n
            /\ off + ((m + 1) - m) = off + 1
        BY <3>2, <1>c DEF m
      <4>2. Ord(txSock'[m + 1]) = buf[off + 1]
        BY <4>1, <2>3
      <4>3. buf[off + 1] = Succ(Ord(txSock[m]))
        BY <4>1, <1>b, <1>c DEF Places, SockEnd, m
      <4> QED BY <4>1, <4>2, <4>3, <3>2, <1>d
    <3>3. CASE i > m
      <4>1. /\ i \in m + 1 .. m + n /\ i + 1 \in m + 1 .. m + n
            /\ off + ((i + 1) - m) = (off + (i - m)) + 1
            /\ off + (i - m) \in off + 1 .. Len(buf) - 1
        BY <3>3, <1>c
      <4> QED BY <4>1, <2>3, <1>b DEF Places
    <3> QED BY <3>1, <3>2, <3>3, <1>c
  <2>6. SockEnd' = Succ(buf[off + n])
    <3>1. m + n \in m + 1 .. m + n /\ off + ((m + n) - m) = off + n /\ txSock' # << >>
      BY <1>c, <1>d
    <3>2. Ord(txSock'[m + n]) = buf[off + n]
      BY <3>1, <2>3
    <3>3. SockEnd' = Succ(Ord(txSock'[m + n]))
      BY <3>1, <1>a, <1>d DEF SockEnd, Succ, Ord
    <3> QED BY <3>2, <3>3
  <2>7. off' < Len(buf') => buf'[off' + 1] = SockEnd' /\ buf'[Len(buf')] = <<posted', FrameSize>>
    <3> SUFFICES ASSUME off + n < Len(buf)
                 PROVE  buf[off + n + 1] = SockEnd' /\ buf[Len(buf)] = <<posted, FrameSize>>
      BY <1>a, <1>e
    <3>1. off + n \in off + 1 .. Len(buf) - 1 /\ off < Len(buf)
      BY <1>c
    <3>2. buf[off + n + 1] = Succ(buf[off + n])
      BY <3>1, <1>b DEF Places
    <3>3. buf[Len(buf)] = <<posted, FrameSize>>
      BY <3>1, <1>b DEF Places
    <3> QED BY <3>2, <3>3, <2>6
  <2>8. off' = Len(buf') => SockEnd' = <<posted' + 1, 1>>
    <3> SUFFICES ASSUME off + n = Len(buf) PROVE SockEnd' = <<posted + 1, 1>>
      BY <1>a, <1>e
    <3>1. buf[off + n] = <<posted, FrameSize>>
      BY <1>b, <1>c, SMTT(30) DEF Places
    <3> QED BY <3>1, <2>6 DEF Succ
  <2>9. \A i \in off' + 1 .. Len(buf') - 1 : buf'[i + 1] = Succ(buf[i])'
    <3>1. \A i \in off + n + 1 .. Len(buf) - 1 : i \in off + 1 .. Len(buf) - 1
      BY <1>c
    <3> QED BY <3>1, <1>a, <1>b, <1>e DEF Places, Succ
  <2>10. \A i \in 1 .. Len(txSock') - 1 : Ord(txSock[i + 1])' = Succ(Ord(txSock[i]))'
    <3>1. \A i \in 1 .. m + n - 1 : i \in 1 .. m + n /\ i + 1 \in 1 .. m + n
      BY <1>c
    <3>2. \A i \in 1 .. m + n - 1 : Succ(Ord(txSock[i]))' = Succ(Ord(txSock'[i]))
      BY <1>a DEF Succ, Ord
    <3>3. \A i \in 1 .. m + n - 1 : Ord(txSock[i + 1])' = Ord(txSock'[i + 1])
      BY <1>a DEF Ord
    <3>4. Len(txSock') - 1 = m + n - 1
      BY <1>c, <1>d
    <3> QED BY <3>2, <3>3, <3>4, <2>5
  <2>11. \A i \in 1 .. Len(txRbuf') : Ord(txRbuf[i])' = <<Len(txGot') + 1, i>>
    BY <1>a, <1>b DEF Places, Ord
  <2>12. Ord(txSock[1])' = ReadPos'
    BY <2>2, <2>4, <1>a DEF Ord
  <2> QED BY <2>7, <2>8, <2>9, <2>10, <2>11, <2>12, <1>b DEF Places
<1> QED BY <1>1, <1>2, <1>3 DEF TxInv

(* Terminate writes a byte of the shutdown frame. *)
LEMMA TermWriteInv ==
  ASSUME TxInv, TermWrite
  PROVE  TxInv'
<1> USE TxAssumption
<1>a. /\ txPc = "term" /\ term < FrameSize /\ peer # "dead" /\ Room > 0
      /\ term' = term + 1 /\ txSock' = Append(txSock, <<Shutdown, term + 1>>)
      /\ UNCHANGED <<buf, len, off, timer, txPc, insend, peer, txRbuf, txGot, torn, posted, killed>>
  BY DEF TermWrite, bufVars, peerVars
<1>b. /\ StreamTypes /\ BufferCount /\ Decoded /\ Labels /\ TermRoom /\ Places
      /\ TermPhase /\ TermPhase'
  BY <1>a DEF TxInv, TermPhase
<1> DEFINE m == Len(txSock)
<1> DEFINE b == <<Shutdown, term + 1>>
<1>c. /\ m \in Nat /\ m < SockCap /\ posted \in Nat /\ term \in Nat /\ txSock \in Seq(Bytes)
      /\ off = 0 /\ Len(buf) = 0
  BY <1>a, <1>b DEF StreamTypes, Room, BufferCount
<1>d. b \in Bytes
  BY <1>a, <1>c DEF Bytes, Shutdown
<1>e. /\ txSock' \in Seq(Bytes) /\ Len(txSock') = m + 1 /\ txSock' # << >>
      /\ \A i \in 1 .. m : txSock'[i] = txSock[i]
      /\ txSock'[m + 1] = b
  <2> HIDE DEF b
  <2> QED BY <1>a, <1>c, <1>d, AppendProperties DEF b
<1>f. Ord(b) = <<posted + 1, term + 1>> /\ SockEnd = <<posted + 1, term + 1>>
  BY <1>a, <1>b DEF Ord, Places, Shutdown
<1> HIDE DEF m, b
<1>1. StreamTypes' /\ BufferCount' /\ Decoded'
  BY <1>a, <1>b, <1>c, <1>e DEF StreamTypes, BufferCount, Decoded
<1>2. TermRoom'
  BY <1>a, <1>b, <1>c, <1>e DEF TermRoom, Room, m
<1>3. Labels'
  <2>1. ASSUME NEW i \in 1 .. m + 1 PROVE txSock'[i][1] <= posted
    <3>1. CASE i = m + 1
      BY <3>1, <1>c, <1>e DEF b, Shutdown
    <3>2. CASE i # m + 1
      <4>1. i \in 1 .. m
        BY <3>2, <1>c
      <4> QED BY <4>1, <1>b, <1>e DEF Labels, m
    <3> QED BY <3>1, <3>2
  <2> QED BY <2>1, <1>a, <1>b, <1>e DEF Labels
<1>4. Places'
  <2>1. Ord(txSock'[1]) = ReadPos
    <3>1. CASE m = 0
      BY <3>1, <1>c, <1>e, <1>f DEF SockEnd, m
    <3>2. CASE m # 0
      <4>1. 1 \in 1 .. m /\ txSock # << >>
        BY <3>2, <1>c DEF m
      <4> QED BY <4>1, <1>b, <1>e DEF Places
    <3> QED BY <3>1, <3>2
  <2>2. ASSUME NEW i \in 1 .. m PROVE Ord(txSock'[i + 1]) = Succ(Ord(txSock'[i]))
    <3>1. CASE i = m
      <4>1. txSock # << >> /\ m \in 1 .. m
        BY <3>1, <1>c DEF m
      <4> QED BY <4>1, <3>1, <1>e, <1>f DEF SockEnd, m
    <3>2. CASE i # m
      <4>1. i \in 1 .. m - 1 /\ i + 1 \in 1 .. m
        BY <3>2, <1>c
      <4> QED BY <4>1, <1>b, <1>e DEF Places, m
    <3> QED BY <3>1, <3>2
  <2>3. SockEnd' = IF term' < FrameSize THEN <<posted' + 1, term' + 1>> ELSE <<posted' + 2, 1>>
    <3>1. SockEnd' = Succ(Ord(b))
      BY <1>a, <1>e DEF SockEnd, Succ, Ord
    <3> QED BY <3>1, <1>a, <1>c, <1>f DEF Succ
  <2>4. /\ Ord(txSock[1])' = ReadPos'
        /\ \A i \in 1 .. Len(txRbuf') : Ord(txRbuf[i])' = <<Len(txGot') + 1, i>>
    BY <2>1, <1>a, <1>b DEF Places, Ord, ReadPos
  <2>5. \A i \in 1 .. Len(txSock') - 1 : Ord(txSock[i + 1])' = Succ(Ord(txSock[i]))'
    <3>1. Len(txSock') - 1 = m
      BY <1>c, <1>e
    <3>2. \A i \in 1 .. m : Succ(Ord(txSock[i]))' = Succ(Ord(txSock'[i]))
      BY <1>a DEF Succ, Ord
    <3>3. \A i \in 1 .. m : Ord(txSock[i + 1])' = Ord(txSock'[i + 1])
      BY <1>a DEF Ord
    <3> QED BY <3>1, <3>2, <3>3, <2>2
  <2>6. ~(off' < Len(buf')) /\ off' + 1 .. Len(buf') - 1 = {}
    BY <1>a, <1>c
  <2> QED BY <2>3, <2>4, <2>5, <2>6, <1>b DEF Places
<1> QED BY <1>1, <1>2, <1>3, <1>4 DEF TxInv

(* What was sent leaves the buffer. *)
LEMMA FlushEndInv ==
  ASSUME TxInv, FlushEnd
  PROVE  TxInv'
<1> USE TxAssumption
<1>a. /\ txPc = "end" /\ txPc' = "idle" /\ off' = 0
      /\ len' = (len + SizeMod - off) % SizeMod
      /\ buf' = SubSeq(buf, off + 1, Least(off + len', Len(buf)))
      /\ timer' = IF len' = 0 THEN FALSE ELSE timer \/ insend
      /\ UNCHANGED <<insend, txSock, peer, txRbuf, txGot, torn, term, posted, killed>>
  BY DEF FlushEnd, peerVars
<1>b. /\ StreamTypes /\ BufferCount /\ Decoded /\ Labels /\ TermRoom /\ (peer # "dead" => Places)
      /\ ~TermPhase /\ ~TermPhase'
  BY <1>a DEF TxInv, TermPhase
<1>c. /\ off \in Nat /\ len \in Nat /\ Len(buf) \in Nat /\ off <= Len(buf) /\ buf \in Seq(Bytes)
      /\ posted \in Nat /\ Len(buf) < SizeMod /\ SizeMod \in Nat
      /\ len = Len(buf) \/ (peer = "dead" /\ len = 0 /\ off = 0)
  <2>1. posted \in Nat /\ posted <= MaxTxPost
    BY <1>b DEF StreamTypes
  <2>2. posted * FrameSize <= MaxTxPost * FrameSize
    BY <2>1, Multiples
  <2>3. (MaxTxPost + 1) * FrameSize = MaxTxPost * FrameSize + FrameSize
    BY Multiples
  <2>4. posted * FrameSize \in Nat /\ MaxTxPost * FrameSize \in Nat
    BY <2>1, Multiples
  <2>5. /\ off \in Nat /\ len \in Nat /\ Len(buf) \in Nat /\ off <= Len(buf) /\ buf \in Seq(Bytes)
        /\ Len(buf) <= posted * FrameSize
        /\ len = Len(buf) \/ (peer = "dead" /\ len = 0 /\ off = 0)
    BY <1>b DEF StreamTypes, BufferCount
  <2>6. Len(buf) < SizeMod
    BY <2>2, <2>3, <2>4, <2>5
  <2> QED BY <2>1, <2>5, <2>6
<1>d. len - off \in Nat /\ len' = len - off
  <2>1. len - off \in Nat /\ len - off < SizeMod
    BY <1>c
  <2>2. len + SizeMod - off = (len - off) + SizeMod
    BY <1>c
  <2> QED BY <2>1, <2>2, <1>a, <1>c, SmallMod
<1>e. Least(off + len', Len(buf)) = off + len'
  BY <1>c, <1>d DEF Least
<1>f. /\ buf' \in Seq(Bytes) /\ Len(buf') = len'
      /\ \A i \in 1 .. len' : buf'[i] = buf[off + i]
  <2>1. \A i \in off + 1 .. off + len' : buf[i] \in Bytes
    BY <1>c, <1>d
  <2>2. off + 1 \in Int /\ off + len' \in Int
    BY <1>c, <1>d
  <2>3. buf' = SubSeq(buf, off + 1, off + len')
    BY <1>a, <1>e
  <2>4. /\ buf' \in Seq(Bytes)
        /\ Len(buf') = IF off + 1 <= off + len' THEN (off + len') - (off + 1) + 1 ELSE 0
        /\ \A i \in 1 .. (off + len') - (off + 1) + 1 : buf'[i] = buf[(off + 1) + i - 1]
    BY <2>1, <2>2, <2>3, SubSeqProperties
  <2>5. /\ (off + len') - (off + 1) + 1 = len' /\ (off + 1 <= off + len' <=> len' # 0)
        /\ \A i \in 1 .. len' : (off + 1) + i - 1 = off + i
    BY <1>c, <1>d
  <2> QED BY <2>4, <2>5
<1>1. StreamTypes'
  <2>1. timer' \in BOOLEAN
    BY <1>a, <1>b DEF StreamTypes
  <2>2. len' \in Nat /\ off' \in Nat
    BY <1>a, <1>d
  <2> QED BY <2>1, <2>2, <1>a, <1>b, <1>f DEF StreamTypes
<1>2. BufferCount'
  <2>1. Len(buf') <= Len(buf) /\ Len(buf') = len' /\ Len(buf') \in Nat
    BY <1>c, <1>d, <1>f
  <2>2. posted * FrameSize \in Nat
    BY <1>c, Multiples
  <2>3. Len(buf') <= posted * FrameSize
    BY <2>1, <2>2, <1>b, <1>c DEF BufferCount
  <2> QED BY <2>1, <2>3, <1>a, <1>b DEF BufferCount
<1>3. Decoded' /\ TermRoom'
  BY <1>a, <1>b DEF Decoded, TermRoom, TermPhase
<1>4. Labels'
  <2>1. \A i \in 1 .. Len(buf') : buf'[i] = buf[off + i] /\ off + i \in 1 .. Len(buf)
    BY <1>c, <1>d, <1>f
  <2> QED BY <2>1, <1>a, <1>b DEF Labels
<1>5. ASSUME peer # "dead" PROVE Places'
  <2>1. ReadPos' = ReadPos /\ SockEnd' = SockEnd
    BY <1>a DEF ReadPos, SockEnd, Succ, Ord
  <2>2. len = Len(buf) /\ len' = Len(buf) - off /\ Len(buf') = Len(buf) - off
    BY <1>5, <1>c, <1>d, <1>f
  <2>3. /\ \A i \in 1 .. Len(txRbuf') : Ord(txRbuf[i])' = <<Len(txGot') + 1, i>>
        /\ txSock' # << >> => Ord(txSock[1])' = ReadPos'
        /\ \A i \in 1 .. Len(txSock') - 1 : Ord(txSock[i + 1])' = Succ(Ord(txSock[i]))'
    BY <2>1, <1>5, <1>a, <1>b DEF Places, Ord, Succ
  <2>4. ASSUME off' < Len(buf')
        PROVE  buf'[off' + 1] = SockEnd' /\ buf'[Len(buf')] = <<posted', FrameSize>>
    <3>1. /\ off < Len(buf) /\ off' + 1 = 1 /\ 1 \in 1 .. len' /\ len' \in 1 .. len'
          /\ off + len' = Len(buf)
      BY <2>2, <2>4, <1>a, <1>c, <1>d
    <3>2. buf'[1] = buf[off + 1] /\ buf'[len'] = buf[Len(buf)]
      BY <3>1, <1>f
    <3> QED BY <3>1, <3>2, <2>1, <1>5, <1>a, <1>b, <1>f DEF Places
  <2>5. ASSUME NEW i \in off' + 1 .. Len(buf') - 1 PROVE buf'[i + 1] = Succ(buf'[i])
    <3>1. /\ i \in 1 .. len' /\ i + 1 \in 1 .. len' /\ off + (i + 1) = (off + i) + 1
          /\ off + i \in off + 1 .. Len(buf) - 1
      BY <2>2, <1>a, <1>c, <1>d
    <3> QED BY <3>1, <1>5, <1>b, <1>f DEF Places
  <2>6. \A i \in off' + 1 .. Len(buf') - 1 : buf'[i + 1] = Succ(buf[i])'
    <3>1. \A i \in off' + 1 .. Len(buf') - 1 : Succ(buf'[i]) = Succ(buf[i])'
      BY DEF Succ
    <3> QED BY <3>1, <2>5
  <2>7. off' = Len(buf') => SockEnd' = <<posted' + 1, 1>>
    <3>1. off' = Len(buf') => off = Len(buf)
      BY <2>2, <1>a, <1>c
    <3> QED BY <3>1, <2>1, <1>5, <1>a, <1>b DEF Places
  <2> QED BY <2>3, <2>4, <2>6, <2>7, <1>b DEF Places
<1> QED BY <1>1, <1>2, <1>3, <1>4, <1>5, <1>a DEF TxInv

(* The read pump of the peer: the byte is the next one of its frame. *)
LEMMA PeerReadInv ==
  ASSUME TxInv, PeerRead
  PROVE  TxInv'
<1> USE TxAssumption
<1> DEFINE b == Append(txRbuf, Head(txSock))
<1> DEFINE g == Len(txGot)
<1> DEFINE k == Len(txRbuf)
<1> DEFINE m == Len(txSock)
<1>a. /\ peer = "alive" /\ txSock # << >> /\ txSock' = Tail(txSock)
      /\ UNCHANGED <<buf, len, off, timer, txPc, insend, peer, term, posted, killed>>
      /\ IF Len(b) < FrameSize THEN txRbuf' = b /\ UNCHANGED <<txGot, torn>>
         ELSE /\ txRbuf' = << >>
              /\ IF b = TxFrame(b[1][1])
                 THEN txGot' = Append(txGot, b[1][1]) /\ UNCHANGED torn
                 ELSE torn' = TRUE /\ UNCHANGED txGot
  BY DEF PeerRead, bufVars
<1>b. /\ StreamTypes /\ BufferCount /\ Decoded /\ Labels /\ TermRoom /\ Places
      /\ (TermPhase' <=> TermPhase)
  BY <1>a DEF TxInv, TermPhase
<1>c. /\ g \in Nat /\ k \in Nat /\ k < FrameSize /\ m \in Nat /\ m >= 1 /\ posted \in Nat
      /\ txSock \in Seq(Bytes) /\ txRbuf \in Seq(Bytes) /\ txGot \in Seq(Nat)
      /\ Head(txSock) = txSock[1] /\ txSock[1] \in Bytes
  BY <1>a, <1>b DEF StreamTypes
<1>d. /\ txSock' \in Seq(Bytes) /\ Len(txSock') = m - 1
      /\ \A i \in 1 .. m - 1 : txSock'[i] = txSock[i + 1]
  BY <1>a, <1>c
<1>e. /\ b \in Seq(Bytes) /\ Len(b) = k + 1 /\ b[k + 1] = txSock[1]
      /\ \A i \in 1 .. k : b[i] = txRbuf[i]
  BY <1>c, AppendProperties
<1> HIDE DEF b, g, k, m
<1>f. /\ \A i \in 1 .. k + 1 : /\ b[i] \in Bytes /\ Ord(b[i]) = <<g + 1, i>>
                               /\ b[i][1] <= posted /\ (b[i][1] = Shutdown => TermPhase)
  <2> SUFFICES ASSUME NEW i \in 1 .. k + 1
               PROVE  /\ b[i] \in Bytes /\ Ord(b[i]) = <<g + 1, i>>
                      /\ b[i][1] <= posted /\ (b[i][1] = Shutdown => TermPhase)
    OBVIOUS
  <2>1. CASE i = k + 1
    <3>1. Ord(txSock[1]) = <<g + 1, k + 1>> /\ 1 \in 1 .. m
      BY <1>a, <1>b, <1>c DEF Places, ReadPos, g, k
    <3> QED BY <3>1, <2>1, <1>b, <1>c, <1>e DEF Labels, m
  <2>2. CASE i # k + 1
    <3>1. i \in 1 .. k
      BY <2>2, <1>c
    <3>2. txRbuf[i] \in Bytes
      BY <3>1, <1>c DEF k
    <3> QED BY <3>1, <3>2, <1>b, <1>e DEF Places, Labels, g, k
  <2> QED BY <2>1, <2>2
<1>g. /\ \A i \in 1 .. k + 1 : b[i] = <<IF g + 1 <= posted THEN g + 1 ELSE Shutdown, i>>
      /\ g <= posted /\ (g + 1 > posted => TermPhase)
  <2>1. ASSUME NEW i \in 1 .. k + 1
        PROVE  /\ b[i] = <<IF g + 1 <= posted THEN g + 1 ELSE Shutdown, i>>
               /\ g <= posted /\ (g + 1 > posted => TermPhase)
    <3>1. b[i] \in Nat \X (1 .. FrameSize)
      BY <1>f DEF Bytes
    <3>2. b[i] = <<b[i][1], b[i][2]>> /\ b[i][1] \in Nat
      BY <3>1
    <3>3. <<IF b[i][1] = Shutdown THEN posted + 1 ELSE b[i][1], b[i][2]>> = <<g + 1, i>>
      BY <1>f DEF Ord
    <3>4. (IF b[i][1] = Shutdown THEN posted + 1 ELSE b[i][1]) = g + 1 /\ b[i][2] = i
      BY <3>3
    <3>5. b[i][1] <= posted /\ (b[i][1] = Shutdown => TermPhase)
      BY <1>f
    <3>6. CASE b[i][1] = Shutdown
      <4>1. posted + 1 = g + 1
        BY <3>4, <3>6
      <4>2. ~(g + 1 <= posted) /\ g <= posted
        BY <4>1, <1>c
      <4> QED BY <4>2, <3>2, <3>4, <3>5, <3>6
    <3>7. CASE b[i][1] # Shutdown
      <4>1. b[i][1] = g + 1
        BY <3>4, <3>7
      <4>2. g + 1 <= posted /\ g <= posted /\ ~(g + 1 > posted)
        BY <4>1, <3>5, <1>c
      <4> QED BY <4>1, <4>2, <3>2, <3>4
    <3> QED BY <3>6, <3>7
  <2>2. 1 \in 1 .. k + 1
    BY <1>c
  <2> QED BY <2>1, <2>2
<1>h. ASSUME k + 1 = FrameSize
      PROVE  /\ txRbuf' = << >> /\ torn' = torn
             /\ txGot' = Append(txGot, IF g + 1 <= posted THEN g + 1 ELSE Shutdown)
  <2> DEFINE l == IF g + 1 <= posted THEN g + 1 ELSE Shutdown
  <2>1. l \in Nat
    BY <1>c DEF Shutdown
  <2>2. b[1] = <<l, 1>> /\ \A i \in 1 .. FrameSize : b[i] = <<l, i>>
    BY <1>h, <1>c, <1>g
  <2> HIDE DEF l
  <2>3. /\ TxFrame(l) \in Seq(Bytes) /\ Len(TxFrame(l)) = FrameSize
        /\ \A i \in 1 .. FrameSize : TxFrame(l)[i] = <<l, i>>
    BY <2>1, FrameSeq
  <2> HIDE DEF TxFrame
  <2>4. b = TxFrame(l)
    <3>1. Len(b) = FrameSize /\ \A i \in 1 .. Len(b) : b[i] = TxFrame(l)[i]
      BY <2>2, <2>3, <1>e, <1>h
    <3> QED BY <3>1, <2>3, <1>e, SeqEqual
  <2>5. b[1][1] = l
    BY <2>2
  <2>6. ~(Len(b) < FrameSize)
    BY <1>e, <1>h
  <2> QED BY <2>4, <2>5, <2>6, <1>a DEF l
<1>i. ASSUME k + 1 # FrameSize
      PROVE  txRbuf' = b /\ UNCHANGED <<txGot, torn>>
  BY <1>i, <1>a, <1>c, <1>e
<1>j. /\ Len(txSock') = m - 1
      /\ UNCHANGED <<buf, len, off, timer, txPc, insend, peer, term, posted, killed>>
  BY <1>a, <1>d
<1>1. StreamTypes'
  <2>1. CASE k + 1 = FrameSize
    <3>1. txRbuf' \in Seq(Bytes) /\ Len(txRbuf') = 0 /\ txGot' \in Seq(Nat) /\ torn' = FALSE
      <4> DEFINE l == IF g + 1 <= posted THEN g + 1 ELSE Shutdown
      <4>1. l \in Nat
        BY <1>c DEF Shutdown
      <4>2. txRbuf' = << >> /\ torn' = FALSE /\ txGot' = Append(txGot, l)
        BY <2>1, <1>b, <1>h DEF StreamTypes
      <4> HIDE DEF l
      <4> QED BY <4>1, <4>2, <1>c, AppendProperties, EmptySeq
    <3> QED BY <3>1, <1>b, <1>c, <1>d, <1>j DEF StreamTypes, m
  <2>2. CASE k + 1 # FrameSize
    <3>1. txRbuf' \in Seq(Bytes) /\ Len(txRbuf') < FrameSize /\ txGot' \in Seq(Nat) /\ torn' = FALSE
      BY <2>2, <1>b, <1>c, <1>e, <1>i DEF StreamTypes
    <3> QED BY <3>1, <1>b, <1>c, <1>d, <1>j DEF StreamTypes, m
  <2> QED BY <2>1, <2>2
<1>2. BufferCount'
  BY <1>b, <1>j DEF BufferCount
<1>3. Decoded'
  <2>1. CASE k + 1 = FrameSize
    <3> DEFINE l == IF g + 1 <= posted THEN g + 1 ELSE Shutdown
    <3>0. l \in Nat
      BY <1>c DEF Shutdown
    <3>1. Len(txGot') = g + 1 /\ txGot'[g + 1] = l /\ \A i \in 1 .. g : txGot'[i] = txGot[i]
      <4>1. txGot' = Append(txGot, l)
        BY <2>1, <1>h
      <4> HIDE DEF l
      <4>2. txGot \in Seq(Nat) /\ g = Len(txGot) /\ g \in Nat
        BY <1>c DEF g
      <4> QED BY <4>1, <4>2, <3>0, AppendProperties
    <3>2. \A i \in 1 .. g + 1 : txGot'[i] = IF i <= posted THEN i ELSE Shutdown
      BY <3>1, <1>b, <1>c, SMTT(30) DEF Decoded, g
    <3> QED BY <3>1, <3>2, <1>b, <1>c, <1>g, <1>j DEF Decoded
  <2>2. CASE k + 1 # FrameSize
    BY <2>2, <1>b, <1>i, <1>j DEF Decoded
  <2> QED BY <2>1, <2>2
<1>4. Labels'
  <2>1. \A i \in 1 .. m - 1 : txSock'[i] = txSock[i + 1] /\ i + 1 \in 1 .. m
    BY <1>c, <1>d
  <2>2. \A i \in 1 .. m - 1 :
          txSock'[i][1] <= posted /\ (txSock'[i][1] = Shutdown => TermPhase)
    BY <2>1, <1>b DEF Labels, m
  <2>3. \A i \in 1 .. Len(txRbuf') :
          txRbuf'[i][1] <= posted /\ (txRbuf'[i][1] = Shutdown => TermPhase)
    <3>1. CASE k + 1 = FrameSize
      BY <3>1, <1>h
    <3>2. CASE k + 1 # FrameSize
      BY <3>2, <1>e, <1>f, <1>i
    <3> QED BY <3>1, <3>2
  <2> QED BY <2>2, <2>3, <1>b, <1>j DEF Labels
<1>5. TermRoom'
  <2>1. Room' = Room + 1 /\ Room \in Int /\ term \in Nat
    BY <1>b, <1>c, <1>j DEF Room, m, StreamTypes
  <2> QED BY <2>1, <1>b, <1>j DEF TermRoom
<1>6. Places'
  <2>1. ReadPos' = Succ(<<g + 1, k + 1>>)
    <3>1. CASE k + 1 = FrameSize
      <4>1. Len(txRbuf') = 0 /\ Len(txGot') = g + 1
        BY <3>1, <1>c, <1>h DEF Shutdown, g
      <4> QED BY <4>1, <3>1 DEF ReadPos, Succ
    <3>2. CASE k + 1 # FrameSize
      <4>1. Len(txRbuf') = k + 1 /\ Len(txGot') = g
        BY <3>2, <1>e, <1>i DEF g
      <4>2. k + 1 < FrameSize
        BY <3>2, <1>c
      <4> QED BY <4>1, <4>2 DEF ReadPos, Succ
    <3> QED BY <3>1, <3>2
  <2>2. Ord(txSock[1]) = <<g + 1, k + 1>>
    BY <1>a, <1>b DEF Places, ReadPos, g, k
  <2>3. SockEnd' = SockEnd
    <3>1. CASE m = 1
      <4>1. txSock' = << >>
        BY <3>1, <1>d, EmptySeq
      <4>2. SockEnd = Succ(Ord(txSock[1]))
        BY <3>1, <1>a DEF SockEnd, m
      <4> QED BY <4>1, <4>2, <2>1, <2>2 DEF SockEnd
    <3>2. CASE m # 1
      <4>1. /\ m - 1 \in 1 .. m - 1 /\ txSock' # << >> /\ txSock'[m - 1] = txSock[m]
        BY <3>2, <1>c, <1>d
      <4>2. SockEnd' = Succ(Ord(txSock'[m - 1]))
        BY <4>1, <1>j DEF SockEnd, Succ, Ord
      <4> QED BY <4>1, <4>2, <1>a DEF SockEnd, m
    <3> QED BY <3>1, <3>2
  <2>4. \A i \in 1 .. Len(txRbuf') : Ord(txRbuf[i])' = <<Len(txGot') + 1, i>>
    <3>1. CASE k + 1 = FrameSize
      BY <3>1, <1>h
    <3>2. CASE k + 1 # FrameSize
      <4>1. Len(txRbuf') = k + 1 /\ Len(txGot') = g
        BY <3>2, <1>e, <1>i DEF g
      <4>2. \A i \in 1 .. k + 1 : Ord(txRbuf[i])' = Ord(b[i])
        BY <3>2, <1>i, <1>j DEF Ord
      <4> QED BY <4>1, <4>2, <1>f
    <3> QED BY <3>1, <3>2
  <2>5. \A i \in 1 .. m - 1 : Ord(txSock[i])' = Ord(txSock[i + 1])
    BY <1>d, <1>j DEF Ord
  <2>6. txSock' # << >> => Ord(txSock[1])' = ReadPos'
    <3>1. txSock' # << >> => 1 \in 1 .. m - 1
      BY <1>c, <1>d
    <3>2. 1 \in 1 .. m - 1 => Ord(txSock[1 + 1]) = Succ(Ord(txSock[1]))
      BY <1>b DEF Places, m
    <3> QED BY <3>1, <3>2, <2>1, <2>2, <2>5
  <2>7. ASSUME NEW i \in 1 .. Len(txSock') - 1
        PROVE  Ord(txSock[i + 1])' = Succ(Ord(txSock[i]))'
    <3>1. i \in 1 .. m - 1 /\ i + 1 \in 1 .. m - 1
      BY <1>c, <1>d
    <3>2. Ord(txSock[(i + 1) + 1]) = Succ(Ord(txSock[i + 1]))
      BY <3>1, <1>b DEF Places, m
    <3>3. Ord(txSock[i + 1])' = Ord(txSock[(i + 1) + 1]) /\ Ord(txSock[i])' = Ord(txSock[i + 1])
      BY <3>1, <2>5
    <3>4. Succ(Ord(txSock[i]))' = Succ(Ord(txSock[i + 1]))
      BY <3>3 DEF Succ
    <3> QED BY <3>2, <3>3, <3>4
  <2> QED BY <2>3, <2>4, <2>6, <2>7, <1>b, <1>j DEF Places, Succ
<1> QED BY <1>1, <1>2, <1>3, <1>4, <1>5, <1>6 DEF TxInv

-----------------------------------------------------------------------------
(* The invariant is inductive. *)
LEMMA TxNextInv ==
  ASSUME DieInFlush = FALSE, TermBehind = FALSE, TxInv, [TxNext]_txVars
  PROVE  TxInv'
<1>1. CASE Send
  BY <1>1, SendInv
<1>2. CASE FlushSend
  BY <1>2, FlushSendInv
<1>3. CASE FlushEpipe
  BY <1>3, FlushEpipeInv
<1>4. CASE FlushEnd
  BY <1>4, FlushEndInv
<1>5. CASE TxTerminate
  BY <1>5, TxTerminateInv
<1>6. CASE TermWrite
  BY <1>6, TermWriteInv
<1>7. CASE PeerRead
  BY <1>7, PeerReadInv
<1>8. CASE PeerDies \/ TermExit \/ TermKill
  BY <1>8, PeerEndInv
<1>9. CASE TimerFire \/ FlushStop \/ PeerHangs \/ TermWritten \/ Gone \/ UNCHANGED txVars
  BY <1>9, TxControlInv
<1> QED BY <1>1, <1>2, <1>3, <1>4, <1>5, <1>6, <1>7, <1>8, <1>9 DEF TxNext, Flush, Terminating

(* The parts of SocketIsFifo. *)
LEMMA TxInvSuffices == TxInv => SocketIsFifo
<1> SUFFICES ASSUME TxInv PROVE SocketIsFifo
  OBVIOUS
<1> USE TxAssumption DEF TxInv
<1>1. TxTypeOK
  <2>1. {timer, insend, torn, killed} \subseteq BOOLEAN
    BY DEF StreamTypes
  <2>2. off \in 0 .. Len(buf)
    BY DEF StreamTypes, BufferCount
  <2> QED BY <2>1, <2>2 DEF StreamTypes, TxTypeOK
<1>2. LenInBuffer
  BY DEF StreamTypes, BufferCount, LenInBuffer
<1>3. LosslessFifo
  <2>1. DOMAIN txGot = 1 .. Len(txGot) /\ Len(txGot) \in Nat /\ posted \in Nat
    BY DEF StreamTypes
  <2>2. ASSUME NEW i \in 1 .. Len(txGot)
        PROVE  txGot[i] = i \/ (i = Len(txGot) /\ txGot[i] = Shutdown)
    <3>1. txGot[i] = IF i <= posted THEN i ELSE Shutdown
      BY DEF Decoded
    <3>0. Len(txGot) <= posted + 1
      BY DEF Decoded
    <3>2. \A n, p \in Nat : \A a \in 1 .. n : n <= p + 1 => a <= p \/ a = n
      OBVIOUS
    <3>3. i <= posted \/ i = Len(txGot)
      BY <3>0, <3>2, <2>1
    <3> QED BY <3>1, <3>3
  <2> QED BY <2>1, <2>2 DEF LosslessFifo, StreamTypes
<1>4. KillsOnlyHung
  BY DEF KillsOnlyHung, StreamTypes
<1> QED BY <1>1, <1>2, <1>3, <1>4 DEF SocketIsFifo

(* The channel of ipc_process.c between two processes, for frames and       *)
(* sockets of any size: the frames of qz_tx_send are decoded whole, once    *)
(* and in order, however the kernel cuts the sends; tx->len never exceeds   *)
(* what is stored; and terminate kills only a child that hangs.             *)
THEOREM ChannelIsFifo ==
  ASSUME DieInFlush = FALSE, TermBehind = FALSE
  PROVE  TxSpec => []SocketIsFifo
<1>1. TxInit => TxInv
  BY TxInitInv
<1>2. TxInv /\ [TxNext]_txVars => TxInv'
  BY TxNextInv
<1>3. TxInv => SocketIsFifo
  BY TxInvSuffices
<1> QED BY <1>1, <1>2, <1>3, PTL DEF TxSpec

-----------------------------------------------------------------------------
(* The processes behind it *)

Frames == 1 .. MaxFrame + MaxPing

ProcTypes ==
    /\ handle \in [Slots -> Inc \cup {None}] /\ user \in [Inc -> Slots \cup {None}]
    /\ pstate \in [Inc -> {"none", "run", "dead"}]
    /\ child \in [Inc -> {"none", "alive", "closed", "zombie", "reaped"}]
    /\ freed \in [Inc -> BOOLEAN] /\ dead \in [Inc -> BOOLEAN] /\ ended \in [Inc -> BOOLEAN]
    /\ sock \in [Inc -> Seq(Frames)] /\ rbuf \in [Inc -> Seq(Frames)]
    /\ got \in [Inc -> Seq(Frames)] /\ ask \in [Inc -> Seq(1 .. MaxPing)]
    /\ sent \in [Inc -> 0 .. MaxFrame] /\ pings \in [Inc -> 0 .. MaxPing]
    /\ pongs \in [Inc -> Nat] /\ reaps \in [Inc -> Nat]
    /\ rxproc \in Inc \cup {None} /\ pinging \in Inc \cup {None}
    /\ incb \in BOOLEAN /\ over \in BOOLEAN /\ spawned \in 0 .. MaxSpawn

Holds(k) == user[k] # None /\ handle[user[k]] = k

SlotOk(h) == handle[h] # None => user[handle[h]] = h /\ ~freed[handle[h]]

(* A number that has not been given yet. *)
Fresh(k) ==
    k > spawned => /\ user[k] = None /\ pstate[k] = "none"
                   /\ sock[k] = << >> /\ rbuf[k] = << >> /\ got[k] = << >>
                   /\ ask[k] = << >> /\ sent[k] = 0 /\ pings[k] = 0 /\ pongs[k] = 0

(* A process runs, and then it has its handle, or is dead, and then it is reaped. *)
LifeOk(k) ==
    /\ pstate[k] = "none" => child[k] = "none" /\ ~freed[k]
    /\ pstate[k] = "run" => /\ child[k] \in {"alive", "closed", "zombie"}
                            /\ Holds(k) /\ ~over
    /\ pstate[k] = "dead" => child[k] = "reaped"
    /\ reaps[k] = IF child[k] = "reaped" THEN 1 ELSE 0
    /\ user[k] # None => Holds(k) \/ ended[k] \/ over

Life ==
    /\ \A h \in Slots : SlotOk(h)
    /\ \A k \in Inc : Fresh(k) /\ LifeOk(k)

(* The read pump works for a process whose slot nobody else has taken, unless a *)
(* handler may start a process.                                                 *)
PumpState ==
    /\ rxproc # None => /\ user[rxproc] # None /\ ~over
                        /\ Reentrant \/ handle[user[rxproc]] \in {None, rxproc}
    /\ incb => rxproc # None /\ rbuf[rxproc] # << >> /\ ~IsPong(Head(rbuf[rxproc]))
    /\ cross \in BOOLEAN /\ (Reentrant \/ cross = FALSE)

(* The application frames of s are n, n + 1, ..., m - 1, in this order. *)
InOrder(s, n, m) ==
    /\ n <= m
    /\ \A i \in 1 .. Len(s) : ~IsPong(s[i]) => n <= s[i] /\ s[i] < m
    /\ \A i, j \in 1 .. Len(s) : i < j /\ ~IsPong(s[i]) /\ ~IsPong(s[j]) => s[i] < s[j]
    /\ \A v \in n .. m - 1 : \E i \in 1 .. Len(s) : s[i] = v

(* The first frame that the worker of k has not been given. *)
NextFrame(k) == IF incb /\ rxproc = k THEN Len(got[k]) ELSE Len(got[k]) + 1

UnderWay(k) == rbuf[k] \o sock[k]

Flow(k) ==
    /\ Holds(k) => InOrder(UnderWay(k), NextFrame(k), sent[k] + 1)
    /\ \A i \in 1 .. Len(got[k]) : got[k][i] = i

Stream == \A k \in Inc : Flow(k)

Below(s, v) == \A j \in 1 .. Len(s) : s[j] < v

(* PONGs come back in the order of the PINGs, and those still to be answered *)
(* are younger than any that has come back.                                  *)
Answers(k) ==
    /\ pongs[k] <= pings[k]
    /\ Below(sock[k], Pong(pings[k] + 1)) /\ Below(rbuf[k], Pong(pings[k] + 1))
    /\ \A i \in 1 .. Len(ask[k]) :
         /\ pongs[k] < ask[k][i] /\ ask[k][i] <= pings[k]
         /\ Below(sock[k], Pong(ask[k][i])) /\ Below(rbuf[k], Pong(ask[k][i]))
    /\ \A i, j \in 1 .. Len(ask[k]) : i < j => ask[k][i] < ask[k][j]

(* Nothing but PONGs is under way of the process k. *)
Quiet(k) ==
    /\ rxproc # k /\ rbuf[k] = << >>
    /\ \A j \in 1 .. Len(sock[k]) : IsPong(sock[k][j])

(* A ping waits for a quiet process, unless a busy one may be pinged. *)
PingWait ==
    /\ pinging # None => user[pinging] # None /\ (PingBusy \/ Quiet(pinging))
    /\ alarm \in BOOLEAN /\ (PingBusy \/ alarm = FALSE)

PingState == PingWait /\ \A k \in Inc : Answers(k)

ProcInv == ProcTypes /\ Life /\ PumpState /\ Stream /\ PingState

-----------------------------------------------------------------------------
(* Sequences of frames *)

LEMMA AppendRight ==
  ASSUME NEW S, NEW a \in Seq(S), NEW b \in Seq(S), NEW e \in S
  PROVE  a \o Append(b, e) = Append(a \o b, e)
<1>1. /\ Append(b, e) \in Seq(S) /\ a \o b \in Seq(S)
      /\ Len(Append(b, e)) = Len(b) + 1 /\ Len(a \o b) = Len(a) + Len(b)
      /\ Len(a) \in Nat /\ Len(b) \in Nat
  BY AppendProperties, ConcatProperties, LenProperties
<1>2. /\ a \o Append(b, e) \in Seq(S) /\ Append(a \o b, e) \in Seq(S)
      /\ Len(a \o Append(b, e)) = Len(a) + Len(b) + 1
      /\ Len(Append(a \o b, e)) = Len(a) + Len(b) + 1
  BY <1>1, AppendProperties, ConcatProperties
<1>3. ASSUME NEW i \in 1 .. Len(a) + Len(b) + 1
      PROVE  (a \o Append(b, e))[i] = Append(a \o b, e)[i]
  <2>0. i \in 1 .. Len(a) + Len(Append(b, e))
    BY <1>1
  <2>1. (a \o Append(b, e))[i] = IF i <= Len(a) THEN a[i] ELSE Append(b, e)[i - Len(a)]
    <3> DEFINE c == Append(b, e)
    <3>1. c \in Seq(S) /\ i \in 1 .. Len(a) + Len(c)
      BY <1>1, <2>0
    <3> HIDE DEF c
    <3>2. (a \o c)[i] = IF i <= Len(a) THEN a[i] ELSE c[i - Len(a)]
      BY <3>1, ConcatProperties
    <3> QED BY <3>2 DEF c
  <2>2. CASE i = Len(a) + Len(b) + 1
    <3>1. i - Len(a) = Len(b) + 1 /\ ~(i <= Len(a)) /\ i = Len(a \o b) + 1
      BY <2>2, <1>1
    <3>2. Append(b, e)[Len(b) + 1] = e /\ Append(a \o b, e)[Len(a \o b) + 1] = e
      BY <1>1, AppendProperties
    <3> QED BY <2>1, <3>1, <3>2
  <2>3. CASE i # Len(a) + Len(b) + 1
    <3>1. i \in 1 .. Len(a) + Len(b)
      BY <2>3, <1>1
    <3>2. Append(a \o b, e)[i] = (a \o b)[i]
      BY <3>1, <1>1, AppendProperties
    <3>3. (a \o b)[i] = IF i <= Len(a) THEN a[i] ELSE b[i - Len(a)]
      BY <3>1, ConcatProperties
    <3>4. ~(i <= Len(a)) => i - Len(a) \in 1 .. Len(b)
      BY <3>1, <1>1
    <3>5. ~(i <= Len(a)) => Append(b, e)[i - Len(a)] = b[i - Len(a)]
      BY <3>4, AppendProperties
    <3> QED BY <2>1, <3>2, <3>3, <3>5
  <2> QED BY <2>2, <2>3
<1> QED BY <1>2, <1>3, SeqEqual

LEMMA TailFacts ==
  ASSUME NEW S, NEW s \in Seq(S), s # << >>
  PROVE  /\ Len(s) \in Nat /\ Len(s) >= 1 /\ Head(s) \in S /\ Head(s) = s[1]
         /\ Tail(s) \in Seq(S) /\ Len(Tail(s)) = Len(s) - 1
         /\ \A i \in 1 .. Len(Tail(s)) : Tail(s)[i] = s[i + 1]
BY HeadTailProperties, LenProperties, EmptySeq

LEMMA TailLeft ==
  ASSUME NEW S, NEW a \in Seq(S), NEW b \in Seq(S), a # << >>
  PROVE  /\ Tail(a) \o b = Tail(a \o b) /\ Head(a \o b) = Head(a)
         /\ a \o b \in Seq(S) /\ a \o b # << >>
<1>1. /\ Tail(a) \in Seq(S) /\ a \o b \in Seq(S) /\ Len(a) \in Nat /\ Len(b) \in Nat
      /\ Len(Tail(a)) = Len(a) - 1 /\ Len(a \o b) = Len(a) + Len(b) /\ Len(a) > 0
  BY HeadTailProperties, ConcatProperties, LenProperties, EmptySeq
<1>2. a \o b # << >>
  BY <1>1, EmptySeq
<1>3. /\ Tail(a) \o b \in Seq(S) /\ Tail(a \o b) \in Seq(S)
      /\ Len(Tail(a) \o b) = Len(a) + Len(b) - 1 /\ Len(Tail(a \o b)) = Len(a) + Len(b) - 1
  BY <1>1, <1>2, HeadTailProperties, ConcatProperties
<1>4. ASSUME NEW i \in 1 .. Len(a) + Len(b) - 1
      PROVE  (Tail(a) \o b)[i] = Tail(a \o b)[i]
  <2>0. i \in 1 .. Len(Tail(a)) + Len(b) /\ i \in 1 .. Len(a \o b) - 1 /\ i + 1 \in 1 .. Len(a) + Len(b)
    BY <1>1
  <2>1. (Tail(a) \o b)[i] = IF i <= Len(Tail(a)) THEN Tail(a)[i] ELSE b[i - Len(Tail(a))]
    BY <1>1, <2>0, ConcatProperties
  <2>2. Tail(a \o b)[i] = (a \o b)[i + 1]
    BY <1>1, <1>2, <1>3, <2>0, HeadTailProperties
  <2>3. (a \o b)[i + 1] = IF i + 1 <= Len(a) THEN a[i + 1] ELSE b[i + 1 - Len(a)]
    BY <2>0, ConcatProperties
  <2>4. i <= Len(Tail(a)) => Tail(a)[i] = a[i + 1]
    BY <1>1, HeadTailProperties
  <2>5. (i <= Len(Tail(a)) <=> i + 1 <= Len(a)) /\ i - Len(Tail(a)) = i + 1 - Len(a)
    BY <1>1
  <2> QED BY <2>1, <2>2, <2>3, <2>4, <2>5
<1>5. Head(a \o b) = Head(a)
  <2>1. Head(a \o b) = (a \o b)[1] /\ Head(a) = a[1]
    BY <1>1, <1>2, HeadTailProperties
  <2>2. 1 \in 1 .. Len(a) + Len(b) /\ 1 <= Len(a)
    BY <1>1
  <2> QED BY <2>1, <2>2, ConcatProperties
<1>6. Tail(a) \o b = Tail(a \o b)
  BY <1>3, <1>4, SeqEqual
<1> QED BY <1>1, <1>2, <1>5, <1>6

LEMMA Resplit ==
  ASSUME NEW S, NEW a \in Seq(S), NEW b \in Seq(S), NEW n \in 1 .. Len(b)
  PROVE  /\ (a \o SubSeq(b, 1, n)) \o SubSeq(b, n + 1, Len(b)) = a \o b
         /\ a \o SubSeq(b, 1, n) \in Seq(S) /\ SubSeq(b, n + 1, Len(b)) \in Seq(S)
<1> DEFINE l == SubSeq(b, 1, n)
           r == SubSeq(b, n + 1, Len(b))
<1>0. Len(b) \in Nat /\ Len(a) \in Nat /\ n \in Nat
  BY LenProperties
<1>1. l \in Seq(S) /\ Len(l) = n /\ \A i \in 1 .. n : l[i] = b[i]
  BY <1>0, SubSeqProperties
<1>2. r \in Seq(S) /\ Len(r) = Len(b) - n /\ \A i \in 1 .. Len(b) - n : r[i] = b[n + i]
  BY <1>0
<1> HIDE DEF l, r
<1>3. a \o l \in Seq(S) /\ Len(a \o l) = Len(a) + n
  BY <1>0, <1>1, ConcatProperties
<1>4. /\ (a \o l) \o r \in Seq(S) /\ Len((a \o l) \o r) = Len(a) + Len(b)
      /\ a \o b \in Seq(S) /\ Len(a \o b) = Len(a) + Len(b)
  <2>1. Len(a \o l) + Len(r) = Len(a) + Len(b)
    BY <1>0, <1>2, <1>3
  <2>2. (a \o l) \o r \in Seq(S) /\ Len((a \o l) \o r) = Len(a \o l) + Len(r)
    BY <1>2, <1>3, ConcatProperties
  <2> QED BY <2>1, <2>2, ConcatProperties
<1>5. ASSUME NEW i \in 1 .. Len(a) + Len(b)
      PROVE  ((a \o l) \o r)[i] = (a \o b)[i]
  <2>0. i \in 1 .. Len(a \o l) + Len(r) /\ i \in Nat
    BY <1>0, <1>2, <1>3
  <2>1. ((a \o l) \o r)[i] = IF i <= Len(a \o l) THEN (a \o l)[i] ELSE r[i - Len(a \o l)]
    BY <2>0, <1>2, <1>3, ConcatProperties, SMTT(30)
  <2>2. (a \o b)[i] = IF i <= Len(a) THEN a[i] ELSE b[i - Len(a)]
    BY ConcatProperties
  <2>3. CASE i <= Len(a) + n
    <3>1. i \in 1 .. Len(a) + Len(l)
      BY <2>3, <2>0, <1>1
    <3>2. (a \o l)[i] = IF i <= Len(a) THEN a[i] ELSE l[i - Len(a)]
      BY <3>1, <1>1, ConcatProperties
    <3>3. ~(i <= Len(a)) => i - Len(a) \in 1 .. n
      BY <2>3, <1>0, <2>0
    <3> QED BY <2>1, <2>2, <2>3, <3>2, <3>3, <1>1, <1>3
  <2>4. CASE ~(i <= Len(a) + n)
    <3>1. i - (Len(a) + n) \in 1 .. Len(b) - n /\ n + (i - (Len(a) + n)) = i - Len(a) /\ ~(i <= Len(a))
      BY <2>4, <1>0, <2>0
    <3>2. r[i - (Len(a) + n)] = b[i - Len(a)]
      BY <3>1, <1>2
    <3> QED BY <2>1, <2>2, <2>4, <3>1, <3>2, <1>3
  <2> QED BY <2>3, <2>4
<1>6. (a \o l) \o r = a \o b
  BY <1>4, <1>5, SeqEqual
<1> QED BY <1>2, <1>3, <1>6 DEF l, r

-----------------------------------------------------------------------------
(* Frames in order *)

LEMMA OrderAppendFrame ==
  ASSUME NEW s \in Seq(Nat), NEW n \in Nat, NEW m \in 0 .. MaxFrame, InOrder(s, n, m)
  PROVE  InOrder(Append(s, m), n, m + 1)
<1> DEFINE t == Append(s, m)
<1>1. t \in Seq(Nat) /\ Len(t) = Len(s) + 1 /\ Len(s) \in Nat /\ t[Len(s) + 1] = m
      /\ \A i \in 1 .. Len(s) : t[i] = s[i] /\ s[i] \in Nat
  BY ProcAssumption, AppendProperties, LenProperties, ElementOfSeq
<1> HIDE DEF t
<1>2. \A i \in 1 .. Len(t) : i \in 1 .. Len(s) \/ i = Len(s) + 1
  BY <1>1
<1>3. n <= m + 1
  BY ProcAssumption DEF InOrder
<1>4. \A i \in 1 .. Len(t) : ~IsPong(t[i]) => n <= t[i] /\ t[i] < m + 1
  <2> SUFFICES ASSUME NEW i \in 1 .. Len(t), ~IsPong(t[i]) PROVE n <= t[i] /\ t[i] < m + 1
    OBVIOUS
  <2>1. CASE i \in 1 .. Len(s)
    <3>1. t[i] = s[i] /\ s[i] \in Nat /\ n <= s[i] /\ s[i] < m
      BY <2>1, <1>1 DEF InOrder
    <3> QED BY <3>1, ProcAssumption
  <2>2. CASE i = Len(s) + 1
    <3>1. t[i] = m /\ n <= m /\ m \in Nat
      BY <2>2, <1>1, ProcAssumption DEF InOrder
    <3> QED BY <3>1
  <2> QED BY <2>1, <2>2, <1>2
<1>5. ASSUME NEW i \in 1 .. Len(t), NEW j \in 1 .. Len(t), i < j,
             ~IsPong(t[i]), ~IsPong(t[j])
      PROVE  t[i] < t[j]
  <2>1. i \in 1 .. Len(s)
    BY <1>1, <1>5
  <2>2. CASE j \in 1 .. Len(s)
    BY <1>1, <1>5, <2>1, <2>2 DEF InOrder
  <2>3. CASE j = Len(s) + 1
    BY <1>1, <1>5, <2>1, <2>3 DEF InOrder
  <2> QED BY <1>2, <2>2, <2>3
<1>6. ASSUME NEW v \in n .. m PROVE \E i \in 1 .. Len(t) : t[i] = v
  <2>1. CASE v = m
    BY <2>1, <1>1
  <2>2. CASE v # m
    <3>1. v \in n .. m - 1
      BY <2>2
    <3>2. PICK i \in 1 .. Len(s) : s[i] = v
      BY <3>1 DEF InOrder
    <3>3. i \in 1 .. Len(t)
      BY <1>1
    <3> QED BY <3>2, <3>3, <1>1
  <2> QED BY <2>1, <2>2
<1>7. n .. (m + 1) - 1 = n .. m
  BY ProcAssumption
<1> QED BY <1>3, <1>4, <1>5, <1>6, <1>7 DEF InOrder, t

LEMMA OrderAppendPong ==
  ASSUME NEW s \in Seq(Nat), NEW n \in Nat, NEW m \in Nat, NEW f \in Nat,
         InOrder(s, n, m), IsPong(f)
  PROVE  InOrder(Append(s, f), n, m)
<1> DEFINE t == Append(s, f)
<1>1. t \in Seq(Nat) /\ Len(t) = Len(s) + 1 /\ Len(s) \in Nat /\ t[Len(s) + 1] = f
      /\ \A i \in 1 .. Len(s) : t[i] = s[i] /\ s[i] \in Nat
  BY AppendProperties, LenProperties, ElementOfSeq
<1> HIDE DEF t
<1>2. \A i \in 1 .. Len(t) : i \in 1 .. Len(s) \/ i = Len(s) + 1
  BY <1>1
<1>3. \A i \in 1 .. Len(s) : i \in 1 .. Len(t)
  BY <1>1
<1>4. \A i \in 1 .. Len(t) : ~IsPong(t[i]) => n <= t[i] /\ t[i] < m
  BY <1>1, <1>2 DEF InOrder
<1>5. \A i, j \in 1 .. Len(t) : i < j /\ ~IsPong(t[i]) /\ ~IsPong(t[j]) => t[i] < t[j]
  BY <1>1, <1>2 DEF InOrder
<1>6. \A v \in n .. m - 1 : \E i \in 1 .. Len(t) : t[i] = v
  BY <1>1, <1>3 DEF InOrder
<1> QED BY <1>4, <1>5, <1>6 DEF InOrder, t

LEMMA OrderTail ==
  ASSUME NEW s \in Seq(Nat), NEW n \in Nat, NEW m \in 0 .. MaxFrame + 1, InOrder(s, n, m), s # << >>
  PROVE  /\ IsPong(Head(s)) => InOrder(Tail(s), n, m)
         /\ ~IsPong(Head(s)) => Head(s) = n /\ InOrder(Tail(s), n + 1, m)
<1> DEFINE t == Tail(s)
           h == Head(s)
<1>1. /\ t \in Seq(Nat) /\ Len(t) = Len(s) - 1 /\ Len(s) \in Nat /\ Len(s) >= 1 /\ h = s[1]
      /\ \A i \in 1 .. Len(t) : t[i] = s[i + 1]
  BY HeadTailProperties, LenProperties, EmptySeq
<1>2. \A i \in 1 .. Len(s) : s[i] \in Nat
  BY ElementOfSeq
<1> HIDE DEF t, h
<1>3. \A i \in 1 .. Len(t) : i + 1 \in 1 .. Len(s)
  BY <1>1
<1>4. \A i \in 1 .. Len(s) : i = 1 \/ (i - 1 \in 1 .. Len(t) /\ t[i - 1] = s[i])
  BY <1>1
<1>5. \A i \in 1 .. Len(t) : ~IsPong(t[i]) => n <= t[i] /\ t[i] < m
  BY <1>1, <1>3 DEF InOrder
<1>6. \A i, j \in 1 .. Len(t) : i < j /\ ~IsPong(t[i]) /\ ~IsPong(t[j]) => t[i] < t[j]
  <2> SUFFICES ASSUME NEW i \in 1 .. Len(t), NEW j \in 1 .. Len(t), i < j,
                      ~IsPong(t[i]), ~IsPong(t[j])
               PROVE  t[i] < t[j]
    OBVIOUS
  <2>1. i + 1 < j + 1 /\ i + 1 \in 1 .. Len(s) /\ j + 1 \in 1 .. Len(s)
    BY <1>3, <1>1
  <2> QED BY <2>1, <1>1 DEF InOrder
<1>7. n <= m /\ m \in Nat /\ 1 \in 1 .. Len(s)
  BY <1>1, ProcAssumption DEF InOrder
<1>8. CASE IsPong(h)
  <2>1. ASSUME NEW v \in n .. m - 1 PROVE \E i \in 1 .. Len(t) : t[i] = v
    <3>1. PICK i \in 1 .. Len(s) : s[i] = v
      BY DEF InOrder
    <3>2. i # 1
      BY <3>1, <1>8, <1>1, <1>7, ProcAssumption DEF IsPong
    <3> QED BY <3>1, <3>2, <1>4
  <2> QED BY <2>1, <1>5, <1>6, <1>7, <1>8 DEF InOrder, t, h
<1>9. CASE ~IsPong(h)
  <2>1. n <= h /\ h < m /\ h \in Nat
    BY <1>9, <1>1, <1>2, <1>7 DEF InOrder
  <2>2. h = n
    <3>1. n \in n .. m - 1
      BY <2>1, <1>7
    <3>2. PICK i \in 1 .. Len(s) : s[i] = n
      BY <3>1 DEF InOrder
    <3>3. CASE i = 1
      BY <3>2, <3>3, <1>1
    <3>4. CASE i # 1
      <4>1. ~IsPong(s[i]) /\ 1 < i
        BY <3>2, <3>4, <2>1, <1>7, ProcAssumption DEF IsPong
      <4>2. h < n
        BY <4>1, <3>2, <1>9, <1>1, <1>7 DEF InOrder
      <4> QED BY <4>2, <2>1
    <3> QED BY <3>3, <3>4
  <2>3. ASSUME NEW i \in 1 .. Len(t), ~IsPong(t[i]) PROVE n + 1 <= t[i]
    <3>1. i + 1 \in 1 .. Len(s) /\ 1 < i + 1 /\ t[i] = s[i + 1] /\ t[i] \in Nat
      BY <1>1, <1>2, <1>3, SMTT(30)
    <3>2. s[1] < s[i + 1]
      BY <3>1, <2>3, <1>1, <1>7, <1>9 DEF InOrder
    <3>3. n < t[i]
      BY <3>1, <3>2, <2>2, <1>1
    <3> QED BY <3>1, <3>3, <2>1, <2>2
  <2>4. ASSUME NEW v \in n + 1 .. m - 1 PROVE \E i \in 1 .. Len(t) : t[i] = v
    <3>0. v \in n .. m - 1 /\ v # n
      BY <1>7
    <3>1. PICK i \in 1 .. Len(s) : s[i] = v
      BY <3>0 DEF InOrder
    <3>2. i # 1
      BY <3>0, <3>1, <2>2, <1>1
    <3> QED BY <3>1, <3>2, <1>4
  <2>5. n + 1 <= m
    BY <2>1, <1>7
  <2> QED BY <2>2, <2>3, <2>4, <2>5, <1>5, <1>6, <1>9 DEF InOrder, t, h
<1> QED BY <1>8, <1>9 DEF h

(* What is left of a sequence when its first n elements are taken. *)
LEMMA RestOfSeq ==
  ASSUME NEW S, NEW s \in Seq(S), NEW n \in 0 .. Len(s)
  PROVE  LET r == SubSeq(s, n + 1, Len(s)) IN
         /\ r \in Seq(S) /\ Len(r) = Len(s) - n /\ Len(r) \in Nat /\ Len(s) \in Nat
         /\ \A i \in 1 .. Len(r) : r[i] = s[n + i] /\ n + i \in 1 .. Len(s)
         /\ (n = 0 => r = s) /\ (n = Len(s) => r = << >>)
<1> DEFINE r == SubSeq(s, n + 1, Len(s))
<1>1. Len(s) \in Nat /\ n \in Nat /\ n <= Len(s)
  BY LenProperties
<1>2. r \in Seq(S) /\ Len(r) = Len(s) - n /\ \A i \in 1 .. Len(s) - n : r[i] = s[n + i]
  BY <1>1
<1> HIDE DEF r
<1>3. \A i \in 1 .. Len(r) : n + i \in 1 .. Len(s)
  BY <1>1, <1>2
<1>4. n = 0 => r = s
  <2> SUFFICES ASSUME n = 0 PROVE r = s
    OBVIOUS
  <2>1. Len(r) = Len(s) /\ \A i \in 1 .. Len(s) : r[i] = s[i]
    BY <1>1, <1>2
  <2> QED BY <2>1, <1>2, SeqEqual
<1>5. n = Len(s) => r = << >>
  BY <1>1, <1>2, EmptySeq
<1> QED BY <1>1, <1>2, <1>3, <1>4, <1>5 DEF r

(* The PONGs at the head of a stream may be taken. *)
LEMMA OrderPongs ==
  ASSUME NEW s \in Seq(Nat), NEW a \in Nat, NEW m \in 0 .. MaxFrame + 1, InOrder(s, a, m),
         NEW n \in 0 .. Len(s), \A i \in 1 .. n : IsPong(s[i])
  PROVE  InOrder(SubSeq(s, n + 1, Len(s)), a, m)
<1>1. PICK r : r = SubSeq(s, n + 1, Len(s))
  OBVIOUS
<1>2. /\ Len(r) = Len(s) - n /\ Len(r) \in Nat /\ Len(s) \in Nat
      /\ \A i \in 1 .. Len(r) : r[i] = s[n + i] /\ n + i \in 1 .. Len(s)
  BY <1>1, RestOfSeq, Zenon
<1>3. \A i \in 1 .. Len(r) : ~IsPong(r[i]) => a <= r[i] /\ r[i] < m
  BY <1>2 DEF InOrder
<1>4. ASSUME NEW i \in 1 .. Len(r), NEW j \in 1 .. Len(r), i < j, ~IsPong(r[i]), ~IsPong(r[j])
      PROVE  r[i] < r[j]
  <2>1. n + i < n + j /\ n + i \in 1 .. Len(s) /\ n + j \in 1 .. Len(s)
    BY <1>2, <1>4
  <2> QED BY <2>1, <1>2, <1>4 DEF InOrder
<1>5. ASSUME NEW v \in a .. m - 1 PROVE \E i \in 1 .. Len(r) : r[i] = v
  <2>1. PICK i \in 1 .. Len(s) : s[i] = v
    BY DEF InOrder
  <2>2. ~IsPong(v)
    BY ProcAssumption DEF IsPong
  <2>3. ~(i \in 1 .. n)
    BY <2>1, <2>2
  <2>4. i - n \in 1 .. Len(r) /\ n + (i - n) = i
    BY <2>3, <1>2
  <2>5. r[i - n] = s[n + (i - n)]
    BY <2>4, <1>2
  <2> QED BY <2>1, <2>4, <2>5
<1>6. a <= m
  BY DEF InOrder
<1> QED BY <1>1, <1>3, <1>4, <1>5, <1>6 DEF InOrder

-----------------------------------------------------------------------------
(* What bounds a buffer *)

LEMMA FramesAreNat ==
  ASSUME NEW s \in Seq(Frames)
  PROVE  s \in Seq(Nat) /\ Len(s) \in Nat /\ \A i \in 1 .. Len(s) : s[i] \in Frames /\ s[i] \in Nat
BY ProcAssumption DEF Frames

LEMMA PongsRise ==
  ASSUME NEW p \in Nat, NEW q \in Nat, p < q
  PROVE  Pong(p) < Pong(q) /\ Pong(q) \in Nat
BY ProcAssumption DEF Pong

LEMMA BelowAppend ==
  ASSUME NEW s \in Seq(Frames), NEW v \in Nat, NEW e \in Frames, Below(s, v), e < v
  PROVE  Below(Append(s, e), v)
<1>1. Len(Append(s, e)) = Len(s) + 1 /\ Len(s) \in Nat /\ Append(s, e)[Len(s) + 1] = e
      /\ \A i \in 1 .. Len(s) : Append(s, e)[i] = s[i]
  BY AppendProperties, LenProperties
<1>2. \A i \in 1 .. Len(s) + 1 : i \in 1 .. Len(s) \/ i = Len(s) + 1
  BY <1>1
<1> QED BY <1>1, <1>2 DEF Below

LEMMA BelowTail ==
  ASSUME NEW s \in Seq(Frames), NEW v \in Nat, Below(s, v), s # << >>
  PROVE  Below(Tail(s), v) /\ Tail(s) \in Seq(Frames) /\ Head(s) \in Frames /\ Head(s) < v
<1>1. /\ Tail(s) \in Seq(Frames) /\ Len(Tail(s)) = Len(s) - 1 /\ Len(s) \in Nat /\ Len(s) >= 1
      /\ \A i \in 1 .. Len(Tail(s)) : Tail(s)[i] = s[i + 1]
      /\ Head(s) \in Frames /\ Head(s) = s[1]
  BY HeadTailProperties, LenProperties, EmptySeq
<1>2. \A i \in 1 .. Len(Tail(s)) : i + 1 \in 1 .. Len(s)
  BY <1>1
<1>3. 1 \in 1 .. Len(s)
  BY <1>1
<1> QED BY <1>1, <1>2, <1>3 DEF Below

LEMMA BelowMore ==
  ASSUME NEW s \in Seq(Frames), NEW v \in Nat, NEW w \in Nat, v < w, Below(s, v)
  PROVE  Below(s, w)
<1>1. \A i \in 1 .. Len(s) : s[i] \in Nat /\ s[i] < v
  BY FramesAreNat DEF Below
<1> QED BY <1>1 DEF Below

LEMMA BelowConcat ==
  ASSUME NEW a \in Seq(Frames), NEW b \in Seq(Frames), NEW v \in Nat, Below(a, v), Below(b, v)
  PROVE  Below(a \o b, v)
<1>1. /\ Len(a) \in Nat /\ Len(b) \in Nat /\ Len(a \o b) = Len(a) + Len(b)
      /\ \A i \in 1 .. Len(a) + Len(b) : (a \o b)[i] = IF i <= Len(a) THEN a[i] ELSE b[i - Len(a)]
  BY ConcatProperties, LenProperties
<1>2. \A i \in 1 .. Len(a) + Len(b) : i \in 1 .. Len(a) \/ (~(i <= Len(a)) /\ i - Len(a) \in 1 .. Len(b))
  BY <1>1
<1>3. ASSUME NEW i \in 1 .. Len(a) + Len(b) PROVE (a \o b)[i] < v
  <2>1. CASE i \in 1 .. Len(a)
    BY <2>1, <1>1 DEF Below
  <2>2. CASE ~(i <= Len(a)) /\ i - Len(a) \in 1 .. Len(b)
    BY <2>2, <1>1 DEF Below
  <2> QED BY <2>1, <2>2, <1>2
<1> QED BY <1>1, <1>3 DEF Below

LEMMA BelowRest ==
  ASSUME NEW b \in Seq(Frames), NEW n \in 0 .. Len(b), NEW v \in Nat, Below(b, v)
  PROVE  Below(SubSeq(b, n + 1, Len(b)), v)
<1>1. PICK r : r = SubSeq(b, n + 1, Len(b))
  OBVIOUS
<1>2. \A i \in 1 .. Len(r) : r[i] = b[n + i] /\ n + i \in 1 .. Len(b)
  BY <1>1, RestOfSeq
<1> QED BY <1>1, <1>2 DEF Below

(* Pongs is the set of the positions of the PONGs that lead. *)
LEMMA PongsFirst ==
  ASSUME NEW b \in Seq(Frames)
  PROVE  \E n \in 0 .. Len(b) :
           /\ Cardinality(Pongs(b)) = n /\ \A i \in 1 .. n : IsPong(b[i])
           /\ n < Len(b) => ~IsPong(b[n + 1])
<1>1. Len(b) \in Nat /\ DOMAIN b = 1 .. Len(b)
  BY LenProperties
<1> DEFINE N == {i \in Nat : 1 <= i /\ i \notin Pongs(b)}
<1>2. N \subseteq Nat /\ Len(b) + 1 \in N
  BY <1>1 DEF Pongs
<1>3. PICK m \in N : \A j \in N : <<j, m>> \notin OpToRel(<, Nat)
  BY <1>2, NatLessThanWellFounded, WFMin
<1>4. \A x, y \in Nat : x < y => <<x, y>> \in OpToRel(<, Nat)
  BY DEF OpToRel
<1>5. \A j \in N : ~(j < m)
  BY <1>2, <1>3, <1>4
<1>6. m \in Nat /\ 1 <= m /\ m \notin Pongs(b) /\ m <= Len(b) + 1
  <2>1. m \in Nat /\ 1 <= m /\ m \notin Pongs(b)
    BY <1>3
  <2>2. ~(Len(b) + 1 < m)
    BY <1>2, <1>5
  <2> QED BY <2>1, <2>2, <1>1
<1>7. \A i \in Nat : 1 <= i /\ i < m => i \in Pongs(b)
  BY <1>5
<1> HIDE DEF N
<1>8. PICK n \in 0 .. Len(b) : m = n + 1
  <2>1. m - 1 \in 0 .. Len(b) /\ m = (m - 1) + 1
    BY <1>1, <1>6
  <2> QED BY <2>1
<1>9. \A i \in 1 .. n : i \in Pongs(b)
  BY <1>7, <1>8
<1>10. ASSUME NEW i \in Pongs(b) PROVE i \in 1 .. n
  <2>1. i \in 1 .. Len(b) /\ \A j \in 1 .. i : IsPong(b[j])
    BY <1>1, <1>10 DEF Pongs
  <2>2. ~(n + 1 <= i)
    <3> SUFFICES ASSUME n + 1 <= i PROVE FALSE
      OBVIOUS
    <3>1. n + 1 \in 1 .. Len(b) /\ \A j \in 1 .. n + 1 : j \in 1 .. i
      BY <2>1, <1>1, <1>8
    <3>2. n + 1 \in Pongs(b)
      BY <2>1, <3>1, <1>1 DEF Pongs
    <3> QED BY <3>2, <1>6, <1>8
  <2> QED BY <2>1, <2>2, <1>1
<1>11. Pongs(b) = 1 .. n
  BY <1>9, <1>10
<1>12. Cardinality(1 .. n) = n
  <2>1. Cardinality(1 .. n) = IF 1 > n THEN 0 ELSE n - 1 + 1
    BY FS_Interval
  <2> QED BY <2>1, <1>1
<1>13. \A i \in 1 .. n : IsPong(b[i])
  <2> SUFFICES ASSUME NEW i \in 1 .. n PROVE IsPong(b[i])
    OBVIOUS
  <2>1. i \in 1 .. i
    OBVIOUS
  <2> QED BY <2>1, <1>9 DEF Pongs
<1>14. n < Len(b) => ~IsPong(b[n + 1])
  <2> SUFFICES ASSUME n < Len(b), IsPong(b[n + 1]) PROVE FALSE
    OBVIOUS
  <2>1. n + 1 \in 1 .. Len(b) /\ \A j \in 1 .. n + 1 : j \in 1 .. n \/ j = n + 1
    BY <1>1
  <2>2. n + 1 \in Pongs(b)
    BY <2>1, <1>1, <1>13 DEF Pongs
  <2> QED BY <2>2, <1>6, <1>8
<1> QED BY <1>11, <1>12, <1>13, <1>14

LEMMA BelowSplit ==
  ASSUME NEW a \in Seq(Frames), NEW b \in Seq(Frames), NEW n \in 1 .. Len(b),
         NEW v \in Nat, Below(a, v), Below(b, v)
  PROVE  Below(a \o SubSeq(b, 1, n), v) /\ Below(SubSeq(b, n + 1, Len(b)), v)
<1> DEFINE l == SubSeq(b, 1, n)
           r == SubSeq(b, n + 1, Len(b))
<1>0. Len(b) \in Nat /\ Len(a) \in Nat /\ n \in Nat
  BY LenProperties
<1>1. l \in Seq(Frames) /\ Len(l) = n /\ \A i \in 1 .. n : l[i] = b[i] /\ i \in 1 .. Len(b)
  BY <1>0, SubSeqProperties
<1>2. Len(r) = Len(b) - n /\ \A i \in 1 .. Len(b) - n : r[i] = b[n + i] /\ n + i \in 1 .. Len(b)
  BY <1>0
<1> HIDE DEF l, r
<1>3. Len(a \o l) = Len(a) + n
      /\ \A i \in 1 .. Len(a) + n : (a \o l)[i] = IF i <= Len(a) THEN a[i] ELSE l[i - Len(a)]
  BY <1>0, <1>1, ConcatProperties
<1>4. \A i \in 1 .. Len(a) + n : i \in 1 .. Len(a) \/ (~(i <= Len(a)) /\ i - Len(a) \in 1 .. n)
  BY <1>0
<1>5. ASSUME NEW i \in 1 .. Len(a) + n PROVE (a \o l)[i] < v
  <2>1. CASE i \in 1 .. Len(a)
    BY <2>1, <1>0, <1>3 DEF Below
  <2>2. CASE ~(i <= Len(a)) /\ i - Len(a) \in 1 .. n
    BY <2>2, <1>1, <1>3 DEF Below
  <2> QED BY <2>1, <2>2, <1>4
<1>6. Below(r, v)
  BY <1>2 DEF Below
<1> QED BY <1>3, <1>5, <1>6 DEF l, r, Below

-----------------------------------------------------------------------------
(* The initial state *)

LEMMA ProcInitInv == ProcInit => ProcInv
<1> SUFFICES ASSUME ProcInit PROVE ProcInv
  OBVIOUS
<1>1. ProcTypes
  <2>1. 0 \in 0 .. MaxFrame /\ 0 \in 0 .. MaxPing /\ 0 \in 0 .. MaxSpawn /\ 0 \in Nat
    BY ProcAssumption
  <2>2. << >> \in Seq(Frames) /\ << >> \in Seq(1 .. MaxPing)
    BY EmptySeq
  <2> QED BY <2>1, <2>2 DEF ProcInit, ProcTypes, None
<1>2. Life
  BY DEF ProcInit, Life, SlotOk, Fresh, LifeOk, None
<1>3. PumpState
  BY DEF ProcInit, PumpState
<1>4. ASSUME NEW k \in Inc PROVE Flow(k) /\ Answers(k)
  <2>1. got[k] = << >> /\ sock[k] = << >> /\ rbuf[k] = << >> /\ ask[k] = << >>
        /\ pings[k] = 0 /\ pongs[k] = 0 /\ user[k] = None
    BY DEF ProcInit
  <2>2. Len(<< >>) = 0 /\ \A i \in 1 .. 0 : FALSE
    OBVIOUS
  <2> QED BY <2>1, <2>2 DEF Flow, Answers, Below, Holds
<1>5. PingWait
  BY DEF ProcInit, PingWait
<1> QED BY <1>1, <1>2, <1>3, <1>4, <1>5 DEF ProcInv, Stream, PingState

-----------------------------------------------------------------------------
(* What a step leaves alone *)

LEMMA FlowSame ==
  ASSUME NEW k \in Inc, Flow(k), Holds(k)' => Holds(k),
         rbuf[k]' = rbuf[k], sock[k]' = sock[k], got[k]' = got[k], sent[k]' = sent[k],
         (incb /\ rxproc = k)' = (incb /\ rxproc = k)
  PROVE  Flow(k)'
<1>1. UnderWay(k)' = UnderWay(k)
  BY DEF UnderWay
<1>2. NextFrame(k)' = NextFrame(k)
  BY DEF NextFrame
<1> QED BY <1>1, <1>2 DEF Flow

LEMMA AnswersSame ==
  ASSUME NEW k \in Inc, Answers(k), rbuf[k]' = rbuf[k], sock[k]' = sock[k], ask[k]' = ask[k],
         pings[k]' = pings[k], pongs[k]' = pongs[k]
  PROVE  Answers(k)'
BY DEF Answers, Below

-----------------------------------------------------------------------------
(* processSpawn *)

LEMMA FirstFree ==
  ASSUME FreeSlots # {}
  PROVE  (CHOOSE i \in FreeSlots : \A j \in FreeSlots : i <= j) \in FreeSlots
<1>1. FreeSlots \subseteq Nat
  BY DEF FreeSlots, Slots
<1>2. PICK i \in FreeSlots : \A j \in FreeSlots : <<j, i>> \notin OpToRel(<, Nat)
  BY <1>1, NatLessThanWellFounded, WFMin
<1>3. \A x, y \in Nat : x < y => <<x, y>> \in OpToRel(<, Nat)
  BY DEF OpToRel
<1>4. \A j \in FreeSlots : ~(j < i)
  BY <1>1, <1>2, <1>3
<1>5. \A x, y \in Nat : ~(x < y) => y <= x
  OBVIOUS
<1>6. \A j \in FreeSlots : i <= j
  BY <1>1, <1>4, <1>5
<1> QED BY <1>6

LEMMA SpawnInv ==
  ASSUME ProcInv, Spawn
  PROVE  ProcInv'
<1>k. PICK k : k = spawned + 1
  OBVIOUS
<1>h. PICK h : h = CHOOSE i \in FreeSlots : \A j \in FreeSlots : i <= j
  OBVIOUS
<1>1. h \in FreeSlots
  BY <1>h, FirstFree DEF Spawn
<1>2. k \in Inc /\ k > spawned /\ spawned \in Nat /\ (Reentrant \/ rxproc = None) /\ pinging = None /\ ~over
      /\ k # None /\ k \in Nat
  BY <1>k, ProcAssumption DEF Spawn, MaySpawn, JsRuns, ProcInv, ProcTypes, Inc, None
<1>3. /\ spawned' = k /\ handle' = [handle EXCEPT ![h] = k] /\ user' = [user EXCEPT ![k] = h]
      /\ pstate' = [pstate EXCEPT ![k] = "run"] /\ child' = [child EXCEPT ![k] = "alive"]
      /\ UNCHANGED <<over, freed, dead, ended, reaps, sock, rbuf, sent, ask, pings, pongs,
                     pinging, alarm, rxproc, incb, got, cross>>
  BY <1>k, <1>h DEF Spawn, wireVars, pingVars, pumpVars
<1>4. h \in Slots /\ handle[h] = None /\ h # None
  BY <1>1, ProcAssumption DEF FreeSlots, Slots, None
<1>5. ProcTypes
  BY DEF ProcInv
<1>6. ProcTypes'
  <2>1. spawned' \in 0 .. MaxSpawn
    BY <1>2, <1>3, ProcAssumption DEF Inc
  <2>2. handle' \in [Slots -> Inc \cup {None}] /\ user' \in [Inc -> Slots \cup {None}]
    BY <1>2, <1>3, <1>4, <1>5 DEF ProcTypes
  <2>3. /\ child' \in [Inc -> {"none", "alive", "closed", "zombie", "reaped"}]
        /\ pstate' \in [Inc -> {"none", "run", "dead"}]
    BY <1>3, <1>5 DEF ProcTypes
  <2>4. UNCHANGED <<freed, dead, ended, reaps, sock, rbuf, got, ask, sent, pings, pongs, rxproc,
                    pinging, incb, over>>
    BY <1>3
  <2> QED BY <2>1, <2>2, <2>3, <2>4, <1>5 DEF ProcTypes
<1>7. user[k] = None /\ pstate[k] = "none" /\ sock[k] = << >> /\ rbuf[k] = << >>
      /\ got[k] = << >> /\ ask[k] = << >> /\ sent[k] = 0
      /\ child[k] = "none" /\ ~freed[k] /\ reaps[k] = 0
  BY <1>2 DEF ProcInv, Life, Fresh, LifeOk
<1>8. ASSUME NEW j \in Inc, j # k
      PROVE  user'[j] = user[j] /\ pstate'[j] = pstate[j] /\ child'[j] = child[j]
             /\ (Holds(j)' <=> Holds(j))
  <2>1. user'[j] = user[j] /\ pstate'[j] = pstate[j] /\ child'[j] = child[j]
    BY <1>3, <1>5, <1>8 DEF ProcTypes
  <2>2. CASE user[j] = h
    <3>1. handle'[h] = k /\ handle[h] # j
      BY <1>3, <1>4, <1>5 DEF ProcTypes, Inc, None
    <3> QED BY <2>1, <2>2, <3>1, <1>8 DEF Holds
  <2>3. CASE user[j] # h
    <3>1. user[j] # None => handle'[user[j]] = handle[user[j]]
      BY <1>3, <1>5, <2>3 DEF ProcTypes
    <3> QED BY <2>1, <3>1 DEF Holds
  <2> QED BY <2>1, <2>2, <2>3
<1>9. Life'
  <2>1. ASSUME NEW i \in Slots PROVE SlotOk(i)'
    <3>1. CASE i = h
      <4>1. handle'[h] = k /\ user'[k] = h /\ freed'[k] = freed[k]
        BY <1>2, <1>3, <1>4, <1>5 DEF ProcTypes
      <4> QED BY <3>1, <4>1, <1>7 DEF SlotOk
    <3>2. CASE i # h
      <4>1. handle'[i] = handle[i]
        BY <3>2, <1>3, <1>5 DEF ProcTypes
      <4>2. SlotOk(i) /\ i # None /\ (handle[i] # None => handle[i] \in Inc)
        BY <1>5, SMTT(30) DEF ProcInv, Life, ProcTypes, Slots, None
      <4>3. handle[i] # None => handle[i] # k
        BY <4>2, <1>7 DEF SlotOk
      <4>4. freed' = freed
        BY <1>3
      <4> QED BY <4>1, <4>2, <4>3, <4>4, <1>8 DEF SlotOk
    <3> QED BY <3>1, <3>2
  <2>2. ASSUME NEW j \in Inc PROVE Fresh(j)' /\ LifeOk(j)'
    <3>0. Fresh(j) /\ LifeOk(j)
      BY DEF ProcInv, Life
    <3>1. CASE j = k
      <4>1. ~(k > spawned')
        BY <1>2, <1>3
      <4>2. user'[k] = h /\ handle'[h] = k /\ pstate'[k] = "run" /\ child'[k] = "alive"
        BY <1>2, <1>3, <1>4, <1>5 DEF ProcTypes
      <4> QED BY <3>1, <4>1, <4>2, <1>2, <1>3, <1>4, <1>7 DEF Fresh, LifeOk, Holds
    <3>2. CASE j # k
      <4>1. j > spawned' => j > spawned
        BY <1>2, <1>3, <1>k DEF Inc
      <4> QED BY <3>0, <3>2, <4>1, <1>3, <1>8 DEF Fresh, LifeOk
    <3> QED BY <3>1, <3>2
  <2> QED BY <2>1, <2>2 DEF Life
<1>10. PumpState' /\ rxproc # k
  <2>1. PumpState /\ (rxproc # None => rxproc \in Inc)
    BY <1>5 DEF ProcInv, ProcTypes
  <2>2. rxproc # k
    BY <2>1, <1>2, <1>7 DEF PumpState
  <2>3. rxproc # None => user'[rxproc] # None
    BY <2>1, <2>2, <1>8 DEF PumpState
  <2> QED BY <2>1, <2>2, <2>3, <1>2, <1>3 DEF PumpState
<1>11. ASSUME NEW j \in Inc PROVE Flow(j)' /\ Answers(j)'
  <2>0. Flow(j) /\ Answers(j)
    BY DEF ProcInv, Stream, PingState
  <2>1. Answers(j)'
    BY <1>3, <2>0, AnswersSame
  <2>2. CASE j = k
    <3>1. UnderWay(k)' = << >> /\ NextFrame(k)' = 1 /\ sent'[k] + 1 = 1
      BY <1>2, <1>3, <1>7, <1>10 DEF UnderWay, NextFrame
    <3>2. InOrder(<< >>, 1, 1)
      <4>1. Len(<< >>) = 0 /\ (\A i \in 1 .. 0 : FALSE) /\ (\A i \in 1 .. 1 - 1 : FALSE) /\ 1 <= 1
        OBVIOUS
      <4> QED BY <4>1 DEF InOrder
    <3>3. \A i \in 1 .. Len(got[k]) : got[k][i] = i
      BY <2>0, <2>2 DEF Flow
    <3> QED BY <2>1, <2>2, <3>1, <3>2, <3>3, <1>3 DEF Flow
  <2>3. CASE j # k
    BY <2>0, <2>1, <2>3, <1>3, <1>8, FlowSame
  <2> QED BY <2>2, <2>3
<1>12. PingWait'
  BY <1>2, <1>3 DEF PingWait, ProcInv, PingState
<1> QED BY <1>6, <1>9, <1>10, <1>11, <1>12 DEF ProcInv, Stream, PingState

LEMMA SpawnFailInv ==
  ASSUME ProcInv, SpawnFail
  PROVE  ProcInv'
<1>k. PICK k : k = spawned + 1
  OBVIOUS
<1>1. k \in Inc /\ k > spawned /\ spawned \in Nat /\ k # None /\ k \in Nat
  BY <1>k, ProcAssumption DEF SpawnFail, MaySpawn, ProcInv, ProcTypes, Inc, None
<1>2. /\ spawned' = k /\ child' = [child EXCEPT ![k] = "reaped"]
      /\ reaps' = [reaps EXCEPT ![k] = 1] /\ pstate' = [pstate EXCEPT ![k] = "dead"]
      /\ freed' = [freed EXCEPT ![k] = TRUE] /\ dead' = [dead EXCEPT ![k] = TRUE]
      /\ UNCHANGED <<handle, user, over, ended, sock, rbuf, sent, ask, pings, pongs,
                     pinging, alarm, rxproc, incb, got, cross>>
  BY <1>k DEF SpawnFail, wireVars, pingVars, pumpVars
<1>3. ProcTypes
  BY DEF ProcInv
<1>4. ProcTypes'
  <2>1. spawned' \in 0 .. MaxSpawn
    BY <1>1, <1>2, ProcAssumption DEF Inc
  <2>2. /\ child' \in [Inc -> {"none", "alive", "closed", "zombie", "reaped"}]
        /\ pstate' \in [Inc -> {"none", "run", "dead"}] /\ reaps' \in [Inc -> Nat]
    BY <1>2, <1>3 DEF ProcTypes
  <2>3. freed' \in [Inc -> BOOLEAN] /\ dead' \in [Inc -> BOOLEAN]
    BY <1>2, <1>3 DEF ProcTypes
  <2>4. UNCHANGED <<handle, user, ended, sock, rbuf, got, ask, sent, pings, pongs, rxproc, pinging,
                    incb, over>>
    BY <1>2
  <2> QED BY <2>1, <2>2, <2>3, <2>4, <1>3 DEF ProcTypes
<1>5. user[k] = None
  BY <1>1 DEF ProcInv, Life, Fresh
<1>6. ASSUME NEW i \in Slots PROVE SlotOk(i)'
  <2>1. SlotOk(i) /\ i # None /\ (handle[i] # None => handle[i] \in Inc)
    BY <1>3, SMTT(30) DEF ProcInv, Life, ProcTypes, Slots, None
  <2>2. handle[i] # None => handle[i] # k
    BY <2>1, <1>5 DEF SlotOk
  <2>3. ASSUME NEW j \in Inc, j # k PROVE freed'[j] = freed[j]
    BY <2>3, <1>2, <1>3 DEF ProcTypes
  <2> QED BY <2>1, <2>2, <2>3, <1>2 DEF SlotOk
<1>7. ASSUME NEW j \in Inc PROVE Fresh(j)' /\ LifeOk(j)'
  <2>0. Fresh(j) /\ LifeOk(j)
    BY DEF ProcInv, Life
  <2>1. CASE j = k
    <3>1. ~(k > spawned')
      BY <1>1, <1>2
    <3>2. pstate'[k] = "dead" /\ child'[k] = "reaped" /\ reaps'[k] = 1
      BY <1>1, <1>2, <1>3 DEF ProcTypes
    <3> QED BY <2>1, <3>1, <3>2, <1>2, <1>5 DEF Fresh, LifeOk
  <2>2. CASE j # k
    <3>1. j > spawned' => j > spawned
      BY <1>1, <1>2, <1>k DEF Inc
    <3>2. pstate'[j] = pstate[j] /\ child'[j] = child[j] /\ reaps'[j] = reaps[j] /\ freed'[j] = freed[j]
      BY <2>2, <1>2, <1>3 DEF ProcTypes
    <3>3. Holds(j)' <=> Holds(j)
      BY <1>2 DEF Holds
    <3> QED BY <2>0, <3>1, <3>2, <3>3, <1>2 DEF Fresh, LifeOk
  <2> QED BY <2>1, <2>2
<1>8. PumpState'
  BY <1>2 DEF PumpState, ProcInv
<1>9. ASSUME NEW j \in Inc PROVE Flow(j)' /\ Answers(j)'
  <2>0. Flow(j) /\ Answers(j) /\ (Holds(j)' => Holds(j))
    BY <1>2 DEF ProcInv, Stream, PingState, Holds
  <2> QED BY <2>0, <1>2, AnswersSame, FlowSame
<1>10. PingWait'
  BY <1>2 DEF PingWait, Quiet, ProcInv, PingState
<1> QED BY <1>4, <1>6, <1>7, <1>8, <1>9, <1>10 DEF ProcInv, Life, Stream, PingState

-----------------------------------------------------------------------------
(* The child process *)

LEMMA ChildSendInv ==
  ASSUME ProcInv, NEW k \in Inc, ChildSend(k)
  PROVE  ProcInv'
<1>1. /\ child[k] = "alive" /\ sent[k] < MaxFrame /\ (PingBusy \/ pinging # k)
      /\ sent' = [sent EXCEPT ![k] = @ + 1]
      /\ sock' = [sock EXCEPT ![k] = Append(@, sent[k] + 1)]
      /\ UNCHANGED <<handle, user, spawned, over, pstate, freed, child, dead, ended, reaps, rbuf,
                     ask, pings, pongs, pinging, alarm, rxproc, incb, got, cross>>
  BY DEF ChildSend, tableVars, lifeVars, pingVars, pumpVars
<1>2. ProcTypes
  BY DEF ProcInv
<1>3. PICK f : f = sent[k] + 1
  OBVIOUS
<1>4. f \in 1 .. MaxFrame /\ f \in Frames /\ f \in Nat /\ sent[k] \in Nat
  <2>1. sent[k] \in 0 .. MaxFrame
    BY <1>2 DEF ProcTypes
  <2> QED BY <2>1, <1>1, <1>3, ProcAssumption DEF Frames
<1>5. sock[k] \in Seq(Frames) /\ rbuf[k] \in Seq(Frames)
  BY <1>2 DEF ProcTypes
<1>6. sock'[k] = Append(sock[k], f) /\ sent'[k] = f /\ Append(sock[k], f) \in Seq(Frames)
  BY <1>1, <1>2, <1>3, <1>4, <1>5 DEF ProcTypes
<1>7. ASSUME NEW j \in Inc, j # k PROVE sock'[j] = sock[j] /\ sent'[j] = sent[j]
  BY <1>1, <1>2, <1>7 DEF ProcTypes
<1>8. ProcTypes'
  <2>1. sock' \in [Inc -> Seq(Frames)] /\ sent' \in [Inc -> 0 .. MaxFrame]
    <3>1. sock' = [sock EXCEPT ![k] = Append(sock[k], f)] /\ sent' = [sent EXCEPT ![k] = f]
      BY <1>1, <1>2, <1>3 DEF ProcTypes
    <3>2. f \in 0 .. MaxFrame
      BY <1>4
    <3> QED BY <3>1, <3>2, <1>2, <1>6 DEF ProcTypes
  <2> QED BY <2>1, <1>1, <1>2 DEF ProcTypes
<1>9. Life'
  <2>1. pstate[k] # "none"
    BY <1>1 DEF ProcInv, Life, LifeOk
  <2>2. ASSUME NEW j \in Inc PROVE Fresh(j)' /\ LifeOk(j)'
    <3>1. Fresh(j) /\ LifeOk(j) /\ (Holds(j)' <=> Holds(j))
      BY <1>1 DEF ProcInv, Life, Holds
    <3>2. LifeOk(j)'
      BY <3>1, <1>1 DEF LifeOk
    <3>3. CASE j = k
      BY <3>1, <3>2, <3>3, <2>1, <1>1 DEF Fresh
    <3>4. CASE j # k
      BY <3>1, <3>2, <3>4, <1>1, <1>7 DEF Fresh
    <3> QED BY <3>3, <3>4
  <2>3. \A h \in Slots : SlotOk(h)'
    BY <1>1 DEF ProcInv, Life, SlotOk
  <2> QED BY <2>2, <2>3 DEF Life
<1>10. PumpState'
  BY <1>1 DEF PumpState, ProcInv
<1>11. ASSUME NEW j \in Inc PROVE Flow(j)' /\ Answers(j)'
  <2>0. Flow(j) /\ Answers(j) /\ (Holds(j)' <=> Holds(j))
    BY <1>1 DEF ProcInv, Stream, PingState, Holds
  <2>1. CASE j # k
    BY <2>0, <2>1, <1>1, <1>7, FlowSame, AnswersSame
  <2>2. CASE j = k
    <3>1. UnderWay(k)' = Append(UnderWay(k), f) /\ NextFrame(k)' = NextFrame(k)
      <4>1. rbuf[k] \o Append(sock[k], f) = Append(rbuf[k] \o sock[k], f)
        <5>1. PICK a, b : a = rbuf[k] /\ b = sock[k]
          OBVIOUS
        <5>2. a \in Seq(Frames) /\ b \in Seq(Frames) /\ f \in Frames
          BY <5>1, <1>4, <1>5
        <5>3. a \o Append(b, f) = Append(a \o b, f)
          BY <5>2, AppendRight
        <5> QED BY <5>1, <5>3
      <4> QED BY <4>1, <1>1, <1>6 DEF UnderWay, NextFrame
    <3>2. UnderWay(k) \in Seq(Nat) /\ NextFrame(k) \in Nat
      <4>1. UnderWay(k) \in Seq(Frames)
        BY <1>5, ConcatProperties DEF UnderWay
      <4>2. Len(got[k]) \in Nat
        BY <1>2 DEF ProcTypes
      <4> QED BY <4>1, <4>2, FramesAreNat DEF NextFrame
    <3>3. f \in 0 .. MaxFrame /\ sent[k] + 1 = f
      BY <1>3, <1>4
    <3>4. PICK n \in Nat : n = NextFrame(k)
      BY <3>2
    <3>5. Holds(k) => InOrder(Append(UnderWay(k), f), n, f + 1)
      <4>1. Holds(k) => InOrder(UnderWay(k), n, f)
        BY <2>0, <2>2, <3>3, <3>4 DEF Flow
      <4> QED BY <4>1, <3>2, <3>3, OrderAppendFrame
    <3>6. Flow(k)'
      BY <2>0, <2>2, <3>1, <3>4, <3>5, <1>1, <1>6 DEF Flow
    <3>7. pings[k] \in Nat /\ ask[k] \in Seq(1 .. MaxPing)
          /\ \A i \in 1 .. Len(ask[k]) : ask[k][i] \in Nat /\ ask[k][i] >= 1
      <4>1. pings[k] \in 0 .. MaxPing /\ ask[k] \in Seq(1 .. MaxPing)
        BY <1>2 DEF ProcTypes
      <4>2. \A i \in 1 .. Len(ask[k]) : ask[k][i] \in 1 .. MaxPing
        BY <4>1, ElementOfSeq
      <4> QED BY <4>1, <4>2, ProcAssumption
    <3>8. ASSUME NEW q \in Nat, q >= 1, Below(sock[k], Pong(q))
          PROVE  Below(sock[k]', Pong(q))
      <4>1. f < Pong(q) /\ Pong(q) \in Nat
        BY <1>4, <3>8, ProcAssumption DEF Pong
      <4> QED BY <4>1, <3>8, <1>4, <1>5, <1>6, BelowAppend
    <3>9. pings[k] + 1 \in Nat /\ pings[k] + 1 >= 1
      BY <3>7
    <3>10. Below(sock[k]', Pong(pings[k] + 1))
      BY <2>0, <2>2, <3>8, <3>9 DEF Answers
    <3>11. \A i \in 1 .. Len(ask[k]) : Below(sock[k]', Pong(ask[k][i]))
      BY <2>0, <2>2, <3>8, <3>7 DEF Answers
    <3>12. Answers(k)'
      BY <2>0, <2>2, <3>10, <3>11, <1>1 DEF Answers
    <3> QED BY <3>6, <3>12, <2>2
  <2> QED BY <2>1, <2>2
<1>12. PingWait'
  <2>1. PingWait /\ (pinging # None => pinging \in Inc)
    BY <1>2 DEF ProcInv, PingState, ProcTypes
  <2>2. CASE PingBusy
    BY <2>1, <2>2, <1>1 DEF PingWait
  <2>3. CASE ~PingBusy
    <3>1. pinging # None => sock'[pinging] = sock[pinging]
      BY <2>1, <2>3, <1>1, <1>7
    <3> QED BY <2>1, <3>1, <1>1 DEF PingWait, Quiet
  <2> QED BY <2>2, <2>3
<1> QED BY <1>8, <1>9, <1>10, <1>11, <1>12 DEF ProcInv, Stream, PingState

LEMMA ChildPongInv ==
  ASSUME ProcInv, NEW k \in Inc, ChildPong(k)
  PROVE  ProcInv'
<1>1. /\ child[k] = "alive" /\ ask[k] # << >>
      /\ ask' = [ask EXCEPT ![k] = Tail(@)]
      /\ sock' = [sock EXCEPT ![k] = Append(@, Pong(Head(ask[k])))]
      /\ UNCHANGED <<handle, user, spawned, over, pstate, freed, child, dead, ended, reaps, rbuf,
                     sent, pings, pongs, pinging, alarm, rxproc, incb, got, cross>>
  BY DEF ChildPong, tableVars, lifeVars, pumpVars
<1>2. ProcTypes
  BY DEF ProcInv
<1>3. PICK f : f = Pong(Head(ask[k]))
  OBVIOUS
<1>4. ask[k] \in Seq(1 .. MaxPing) /\ sock[k] \in Seq(Frames) /\ rbuf[k] \in Seq(Frames)
      /\ pings[k] \in Nat
  BY <1>2, ProcAssumption DEF ProcTypes
<1>5. PICK t : t = Tail(ask[k])
  OBVIOUS
<1>6. /\ Head(ask[k]) \in 1 .. MaxPing /\ Head(ask[k]) = ask[k][1] /\ Len(ask[k]) \in Nat
      /\ Len(ask[k]) >= 1 /\ t \in Seq(1 .. MaxPing) /\ Len(t) = Len(ask[k]) - 1
      /\ \A i \in 1 .. Len(t) : t[i] = ask[k][i + 1]
  <2>1. PICK a : a = ask[k]
    OBVIOUS
  <2>2. a # << >> /\ a \in Seq(1 .. MaxPing)
    BY <2>1, <1>1, <1>4
  <2>3. /\ Len(a) \in Nat /\ Len(a) >= 1 /\ Head(a) \in 1 .. MaxPing /\ Head(a) = a[1]
        /\ Tail(a) \in Seq(1 .. MaxPing) /\ Len(Tail(a)) = Len(a) - 1
        /\ \A i \in 1 .. Len(Tail(a)) : Tail(a)[i] = a[i + 1]
    BY <2>2, TailFacts
  <2> QED BY <2>1, <2>3, <1>5
<1>7. f \in Frames /\ f \in Nat /\ IsPong(f) /\ f = MaxFrame + Head(ask[k])
  BY <1>3, <1>6, ProcAssumption DEF Frames, IsPong, Pong
<1>8. sock'[k] = Append(sock[k], f) /\ ask'[k] = t /\ Append(sock[k], f) \in Seq(Frames)
  BY <1>1, <1>2, <1>3, <1>4, <1>5, <1>7 DEF ProcTypes
<1>9. ASSUME NEW j \in Inc, j # k PROVE sock'[j] = sock[j] /\ ask'[j] = ask[j]
  BY <1>1, <1>2, <1>9 DEF ProcTypes
<1>10. ProcTypes'
  <2>1. sock' = [sock EXCEPT ![k] = Append(sock[k], f)] /\ ask' = [ask EXCEPT ![k] = t]
    BY <1>1, <1>2, <1>3, <1>5 DEF ProcTypes
  <2>2. sock' \in [Inc -> Seq(Frames)] /\ ask' \in [Inc -> Seq(1 .. MaxPing)]
    BY <2>1, <1>2, <1>6, <1>8 DEF ProcTypes
  <2> QED BY <2>2, <1>1, <1>2 DEF ProcTypes
<1>11. Life'
  <2>1. pstate[k] # "none"
    BY <1>1 DEF ProcInv, Life, LifeOk
  <2>2. ASSUME NEW j \in Inc PROVE Fresh(j)' /\ LifeOk(j)'
    <3>1. Fresh(j) /\ LifeOk(j) /\ (Holds(j)' <=> Holds(j))
      BY <1>1 DEF ProcInv, Life, Holds
    <3>2. LifeOk(j)'
      BY <3>1, <1>1 DEF LifeOk
    <3>3. CASE j = k
      BY <3>1, <3>2, <3>3, <2>1, <1>1 DEF Fresh
    <3>4. CASE j # k
      BY <3>1, <3>2, <3>4, <1>1, <1>9 DEF Fresh
    <3> QED BY <3>3, <3>4
  <2>3. \A h \in Slots : SlotOk(h)'
    BY <1>1 DEF ProcInv, Life, SlotOk
  <2> QED BY <2>2, <2>3 DEF Life
<1>12. PumpState'
  BY <1>1 DEF PumpState, ProcInv
<1>13. ASSUME NEW j \in Inc PROVE Flow(j)' /\ Answers(j)'
  <2>0. Flow(j) /\ Answers(j) /\ (Holds(j)' <=> Holds(j))
    BY <1>1 DEF ProcInv, Stream, PingState, Holds
  <2>1. CASE j # k
    BY <2>0, <2>1, <1>1, <1>9, FlowSame, AnswersSame
  <2>2. CASE j = k
    <3>1. UnderWay(k)' = Append(UnderWay(k), f) /\ NextFrame(k)' = NextFrame(k)
      <4>1. rbuf[k] \o Append(sock[k], f) = Append(rbuf[k] \o sock[k], f)
        <5>1. PICK a, b : a = rbuf[k] /\ b = sock[k]
          OBVIOUS
        <5>2. a \in Seq(Frames) /\ b \in Seq(Frames) /\ f \in Frames
          BY <5>1, <1>4, <1>7
        <5>3. a \o Append(b, f) = Append(a \o b, f)
          BY <5>2, AppendRight
        <5> QED BY <5>1, <5>3
      <4> QED BY <4>1, <1>1, <1>8 DEF UnderWay, NextFrame
    <3>2. UnderWay(k) \in Seq(Nat) /\ NextFrame(k) \in Nat /\ sent[k] + 1 \in Nat
      <4>1. UnderWay(k) \in Seq(Frames)
        BY <1>4, ConcatProperties DEF UnderWay
      <4>2. Len(got[k]) \in Nat /\ sent[k] \in Nat
        BY <1>2 DEF ProcTypes
      <4> QED BY <4>1, <4>2, FramesAreNat DEF NextFrame
    <3>3. Holds(k) => InOrder(Append(UnderWay(k), f), NextFrame(k), sent[k] + 1)
      BY <2>0, <2>2, <3>2, <1>7, OrderAppendPong DEF Flow
    <3>4. Flow(k)'
      BY <2>0, <2>2, <3>1, <3>3, <1>1 DEF Flow
    <3>5. \A i \in 1 .. Len(ask[k]) : ask[k][i] \in 1 .. MaxPing /\ ask[k][i] \in Nat
      <4>1. \A i \in 1 .. Len(ask[k]) : ask[k][i] \in 1 .. MaxPing
        BY <1>4, ElementOfSeq
      <4> QED BY <4>1
    <3>6. 1 \in 1 .. Len(ask[k]) /\ \A i \in 1 .. Len(t) : i + 1 \in 1 .. Len(ask[k]) /\ 1 < i + 1
      BY <1>6
    <3>7. ASSUME NEW q \in Nat, q > Head(ask[k]), Below(sock[k], Pong(q))
          PROVE  Below(sock[k]', Pong(q))
      <4>1. f < Pong(q) /\ Pong(q) \in Nat
        <5>1. PICK h \in 1 .. MaxPing : h = Head(ask[k])
          BY <1>6
        <5>2. h \in Nat /\ h < q
          BY <3>7, <5>1
        <5> QED BY <1>3, <3>7, <5>1, <5>2, PongsRise
      <4> QED BY <4>1, <3>7, <1>4, <1>7, <1>8, BelowAppend
    <3>8. pings[k] + 1 \in Nat /\ pings[k] + 1 > Head(ask[k])
      BY <2>0, <2>2, <3>5, <3>6, <1>4, <1>6 DEF Answers
    <3>9. Below(sock[k]', Pong(pings[k] + 1))
      BY <2>0, <2>2, <3>7, <3>8 DEF Answers
    <3>10. ASSUME NEW i \in 1 .. Len(t)
           PROVE  /\ pongs[k] < t[i] /\ t[i] <= pings[k]
                  /\ Below(sock[k]', Pong(t[i])) /\ Below(rbuf[k], Pong(t[i]))
      <4>1. t[i] = ask[k][i + 1] /\ i + 1 \in 1 .. Len(ask[k]) /\ t[i] \in Nat
        BY <1>6, <3>5, <3>6
      <4>2. t[i] > Head(ask[k])
        BY <4>1, <3>5, <3>6, <1>6, <2>0, <2>2 DEF Answers
      <4>3. pongs[k] < t[i] /\ t[i] <= pings[k] /\ Below(sock[k], Pong(t[i])) /\ Below(rbuf[k], Pong(t[i]))
        BY <4>1, <2>0, <2>2 DEF Answers
      <4> QED BY <4>1, <4>2, <4>3, <3>7
    <3>11. ASSUME NEW i \in 1 .. Len(t), NEW l \in 1 .. Len(t), i < l PROVE t[i] < t[l]
      <4>1. i + 1 < l + 1
        BY <3>11
      <4> QED BY <4>1, <3>6, <1>6, <2>0, <2>2 DEF Answers
    <3>12. pongs[k] <= pings[k] /\ Below(rbuf[k], Pong(pings[k] + 1))
      BY <2>0, <2>2 DEF Answers
    <3>13. Answers(k)'
      BY <3>9, <3>10, <3>11, <3>12, <1>1, <1>8 DEF Answers
    <3> QED BY <3>4, <3>13, <2>2
  <2> QED BY <2>1, <2>2
<1>14. PingWait'
  <2>0. PingWait
    BY DEF ProcInv, PingState
  <2>3. CASE PingBusy
    BY <2>0, <2>3, <1>1 DEF PingWait
  <2>1. CASE pinging = k /\ ~PingBusy
    <3>0. ~PingBusy
      BY <2>1
    <3>1. \A j \in 1 .. Len(sock'[k]) : IsPong(sock'[k][j])
      <4>1. \A j \in 1 .. Len(sock[k]) : IsPong(sock[k][j])
        BY <2>0, <2>1, <3>0 DEF PingWait, Quiet, Inc, None
      <4>2. Len(Append(sock[k], f)) = Len(sock[k]) + 1 /\ Len(sock[k]) \in Nat
            /\ Append(sock[k], f)[Len(sock[k]) + 1] = f
            /\ \A i \in 1 .. Len(sock[k]) : Append(sock[k], f)[i] = sock[k][i]
        BY <1>4, <1>7, AppendProperties, LenProperties
      <4>3. \A i \in 1 .. Len(sock[k]) + 1 : i \in 1 .. Len(sock[k]) \/ i = Len(sock[k]) + 1
        BY <4>2
      <4> QED BY <4>1, <4>2, <4>3, <1>7, <1>8
    <3> QED BY <2>0, <2>1, <3>1, <1>1 DEF PingWait, Quiet
  <2>2. CASE pinging # k
    <3>1. pinging # None => pinging \in Inc
      BY <1>2 DEF ProcTypes
    <3>2. pinging # None => sock'[pinging] = sock[pinging]
      BY <2>2, <3>1, <1>9
    <3> QED BY <2>0, <3>2, <1>1 DEF PingWait, Quiet
  <2> QED BY <2>1, <2>2, <2>3
<1> QED BY <1>10, <1>11, <1>12, <1>13, <1>14 DEF ProcInv, Stream, PingState

LEMMA ChildEndInv ==
  ASSUME ProcInv, NEW k \in Inc, ChildEnd(k)
  PROVE  ProcInv'
<1>1. /\ child[k] \in {"alive", "closed"}
      /\ child' = [child EXCEPT ![k] = IF @ = "alive" THEN "closed" ELSE "zombie"]
      /\ UNCHANGED <<handle, user, spawned, over, pstate, freed, dead, ended, reaps, sock, rbuf,
                     ask, sent, pings, pongs, pinging, alarm, rxproc, incb, got, cross>>
  BY DEF ChildEnd, tableVars, wireVars, pingVars, pumpVars
<1>2. ProcTypes
  BY DEF ProcInv
<1>3. ProcTypes'
  BY <1>1, <1>2 DEF ProcTypes
<1>4. Life'
  <2>1. ASSUME NEW j \in Inc PROVE Fresh(j)' /\ LifeOk(j)'
    <3>1. Fresh(j) /\ LifeOk(j) /\ (Holds(j)' <=> Holds(j)) /\ Fresh(j)'
      BY <1>1 DEF ProcInv, Life, Holds, Fresh
    <3>2. CASE j = k
      <4>1. child'[k] \in {"closed", "zombie"} /\ pstate[k] \in {"none", "run", "dead"}
        BY <1>1, <1>2 DEF ProcTypes
      <4>2. pstate[k] = "run" /\ reaps[k] = 0
        BY <4>1, <3>1, <3>2, <1>1 DEF LifeOk
      <4> QED BY <3>1, <3>2, <4>1, <4>2, <1>1 DEF LifeOk
    <3>3. CASE j # k
      <4>1. child'[j] = child[j]
        BY <3>3, <1>1, <1>2 DEF ProcTypes
      <4> QED BY <3>1, <4>1, <1>1 DEF LifeOk
    <3> QED BY <3>2, <3>3
  <2>2. \A h \in Slots : SlotOk(h)'
    BY <1>1 DEF ProcInv, Life, SlotOk
  <2> QED BY <2>1, <2>2 DEF Life
<1>5. PumpState' /\ PingWait'
  BY <1>1 DEF PumpState, ProcInv, PingState, PingWait, Quiet
<1>6. ASSUME NEW j \in Inc PROVE Flow(j)' /\ Answers(j)'
  <2>0. Flow(j) /\ Answers(j) /\ (Holds(j)' <=> Holds(j))
    BY <1>1 DEF ProcInv, Stream, PingState, Holds
  <2> QED BY <2>0, <1>1, FlowSame, AnswersSame
<1> QED BY <1>3, <1>4, <1>5, <1>6 DEF ProcInv, Stream, PingState

-----------------------------------------------------------------------------
(* The read pump *)

(* The numbers a proof about process k needs to be numbers. *)
LEMMA ProcNumbers ==
  ASSUME ProcTypes, NEW k \in Inc
  PROVE  /\ rbuf[k] \in Seq(Frames) /\ sock[k] \in Seq(Frames) /\ got[k] \in Seq(Frames)
         /\ UnderWay(k) \in Seq(Frames) /\ UnderWay(k) \in Seq(Nat)
         /\ Len(got[k]) \in Nat /\ NextFrame(k) \in Nat
         /\ sent[k] \in Nat /\ sent[k] + 1 \in 0 .. MaxFrame + 1
         /\ pings[k] \in Nat /\ pongs[k] \in Nat
         /\ \A i \in 1 .. Len(ask[k]) : ask[k][i] \in Nat /\ ask[k][i] >= 1
<1>1. /\ rbuf[k] \in Seq(Frames) /\ sock[k] \in Seq(Frames) /\ got[k] \in Seq(Frames)
      /\ sent[k] \in 0 .. MaxFrame /\ pings[k] \in 0 .. MaxPing /\ pongs[k] \in Nat
      /\ ask[k] \in Seq(1 .. MaxPing)
  BY DEF ProcTypes
<1>2. UnderWay(k) \in Seq(Frames)
  BY <1>1, ConcatProperties DEF UnderWay
<1>3. UnderWay(k) \in Seq(Nat) /\ Len(got[k]) \in Nat
  BY <1>1, <1>2, FramesAreNat
<1>4. NextFrame(k) \in Nat
  <2>1. NextFrame(k) = Len(got[k]) \/ NextFrame(k) = Len(got[k]) + 1
    BY DEF NextFrame
  <2>2. Len(got[k]) \in Nat
    BY <1>3
  <2> QED BY <2>1, <2>2
<1>5. \A i \in 1 .. Len(ask[k]) : ask[k][i] \in 1 .. MaxPing
  BY <1>1, ElementOfSeq
<1> QED BY <1>1, <1>2, <1>3, <1>4, <1>5, ProcAssumption, SMTT(30)

LEMMA ReadInv ==
  ASSUME ProcInv, NEW k \in Inc, Read(k)
  PROVE  ProcInv'
<1>1. PICK n \in 1 .. Len(sock[k]) :
         /\ rbuf' = [rbuf EXCEPT ![k] = @ \o SubSeq(sock[k], 1, n)]
         /\ sock' = [sock EXCEPT ![k] = SubSeq(@, n + 1, Len(@))]
  BY DEF Read
<1>2. /\ rxproc = None /\ pinging = None /\ ~over /\ pstate[k] = "run" /\ rxproc' = k
      /\ UNCHANGED <<handle, user, spawned, over, pstate, freed, child, dead, ended, reaps, sent,
                     ask, pings, pongs, pinging, alarm, incb, got, cross>>
  BY DEF Read, Idle, Reading, tableVars, lifeVars, pingVars
<1>3. ProcTypes
  BY DEF ProcInv
<1>4. PICK a, b : a = rbuf[k] /\ b = sock[k]
  OBVIOUS
<1>5. a \in Seq(Frames) /\ b \in Seq(Frames) /\ n \in 1 .. Len(b)
  BY <1>3, <1>4, ProcNumbers
<1>6. PICK l, r : l = a \o SubSeq(b, 1, n) /\ r = SubSeq(b, n + 1, Len(b))
  OBVIOUS
<1>7. l \o r = a \o b /\ l \in Seq(Frames) /\ r \in Seq(Frames)
  BY <1>5, <1>6, Resplit, ZenonT(30)
<1>8. rbuf'[k] = l /\ sock'[k] = r
  BY <1>1, <1>3, <1>4, <1>6 DEF ProcTypes
<1>9. ASSUME NEW j \in Inc, j # k PROVE rbuf'[j] = rbuf[j] /\ sock'[j] = sock[j]
  BY <1>1, <1>3, <1>9 DEF ProcTypes
<1>10. ProcTypes'
  <2>1. rbuf' = [rbuf EXCEPT ![k] = l] /\ sock' = [sock EXCEPT ![k] = r]
    BY <1>1, <1>3, <1>4, <1>6 DEF ProcTypes
  <2>2. rbuf' \in [Inc -> Seq(Frames)] /\ sock' \in [Inc -> Seq(Frames)]
    BY <2>1, <1>3, <1>7 DEF ProcTypes
  <2> QED BY <2>2, <1>2, <1>3 DEF ProcTypes
<1>11. incb = FALSE /\ k # None /\ Holds(k)
  <2>1. LifeOk(k) /\ PumpState /\ incb \in BOOLEAN
    BY <1>3 DEF ProcInv, Life, ProcTypes
  <2> QED BY <2>1, <1>2 DEF PumpState, LifeOk, Inc, None
<1>12. Life'
  <2>1. ASSUME NEW j \in Inc PROVE Fresh(j)' /\ LifeOk(j)'
    <3>1. Fresh(j) /\ LifeOk(j) /\ (Holds(j)' <=> Holds(j))
      BY <1>2 DEF ProcInv, Life, Holds
    <3>2. LifeOk(j)'
      BY <3>1, <1>2 DEF LifeOk
    <3>3. CASE j = k
      BY <3>1, <3>2, <3>3, <1>2 DEF Fresh
    <3>4. CASE j # k
      BY <3>1, <3>2, <3>4, <1>2, <1>9 DEF Fresh
    <3> QED BY <3>3, <3>4
  <2>2. \A h \in Slots : SlotOk(h)'
    BY <1>2 DEF ProcInv, Life, SlotOk
  <2> QED BY <2>1, <2>2 DEF Life
<1>13. PumpState'
  <2>1. cross \in BOOLEAN /\ (Reentrant \/ cross = FALSE)
    BY DEF ProcInv, PumpState
  <2> QED BY <2>1, <1>2, <1>11 DEF PumpState, Holds
<1>14. ASSUME NEW j \in Inc PROVE Flow(j)' /\ Answers(j)'
  <2>0. Flow(j) /\ Answers(j) /\ (Holds(j)' <=> Holds(j))
    BY <1>2 DEF ProcInv, Stream, PingState, Holds
  <2>1. CASE j # k
    BY <2>0, <2>1, <1>2, <1>9, <1>11, FlowSame, AnswersSame
  <2>2. CASE j = k
    <3>1. UnderWay(k)' = UnderWay(k)
      BY <1>4, <1>7, <1>8 DEF UnderWay
    <3>2. NextFrame(k)' = NextFrame(k)
      BY <1>2, <1>11 DEF NextFrame
    <3>3. Flow(k)'
      BY <2>0, <2>2, <3>1, <3>2, <1>2 DEF Flow
    <3>4. ASSUME NEW v \in Nat, Below(rbuf[k], v), Below(sock[k], v)
          PROVE  Below(rbuf'[k], v) /\ Below(sock'[k], v)
      <4>1. Below(a, v) /\ Below(b, v)
        BY <3>4, <1>4
      <4>2. Below(l, v) /\ Below(r, v)
        BY <4>1, <1>5, <1>6, BelowSplit
      <4> QED BY <4>2, <1>8
    <3>5. Pong(pings[k] + 1) \in Nat /\ \A i \in 1 .. Len(ask[k]) : Pong(ask[k][i]) \in Nat
      <4>1. pings[k] \in Nat /\ \A i \in 1 .. Len(ask[k]) : ask[k][i] \in Nat
        BY <1>3, ProcNumbers
      <4> QED BY <4>1, ProcAssumption DEF Pong
    <3>6. Below(rbuf'[k], Pong(pings[k] + 1)) /\ Below(sock'[k], Pong(pings[k] + 1))
      BY <2>0, <2>2, <3>4, <3>5 DEF Answers
    <3>7. \A i \in 1 .. Len(ask[k]) : Below(rbuf'[k], Pong(ask[k][i])) /\ Below(sock'[k], Pong(ask[k][i]))
      BY <2>0, <2>2, <3>4, <3>5 DEF Answers
    <3>8. Answers(k)'
      BY <2>0, <2>2, <3>6, <3>7, <1>2 DEF Answers
    <3> QED BY <2>2, <3>3, <3>8
  <2> QED BY <2>1, <2>2
<1>15. PingWait'
  BY <1>2 DEF PingWait, ProcInv, PingState
<1> QED BY <1>10, <1>12, <1>13, <1>14, <1>15 DEF ProcInv, Stream, PingState

(* A frame is taken from the buffer of k; a PONG is remembered. *)
LEMMA AnswersTail ==
  ASSUME ProcTypes, NEW k \in Inc, Answers(k), rbuf[k] # << >>,
         rbuf[k]' = Tail(rbuf[k]), sock[k]' = sock[k], ask[k]' = ask[k], pings[k]' = pings[k],
         \/ pongs[k]' = pongs[k]
         \/ IsPong(Head(rbuf[k])) /\ pongs[k]' = SeqOf(Head(rbuf[k]))
  PROVE  Answers(k)'
<1>1. PICK b : b = rbuf[k]
  OBVIOUS
<1>2. b \in Seq(Frames) /\ b # << >>
  BY <1>1, ProcNumbers
<1>3. ASSUME NEW v \in Nat, Below(rbuf[k], v) PROVE Below(Tail(b), v) /\ Head(b) < v
  BY <1>1, <1>2, <1>3, BelowTail
<1>4. Pong(pings[k] + 1) \in Nat /\ \A i \in 1 .. Len(ask[k]) : Pong(ask[k][i]) \in Nat
  BY ProcNumbers, ProcAssumption, SMTT(30) DEF Pong
<1>5. Below(Tail(b), Pong(pings[k] + 1)) /\ Head(b) < Pong(pings[k] + 1)
  BY <1>3, <1>4 DEF Answers
<1>6. \A i \in 1 .. Len(ask[k]) : Below(Tail(b), Pong(ask[k][i])) /\ Head(b) < Pong(ask[k][i])
  BY <1>3, <1>4 DEF Answers
<1>7. Head(b) \in Nat
  <2>1. Head(b) \in Frames
    BY <1>2, TailFacts
  <2> QED BY <2>1, ProcAssumption DEF Frames
<1>8. ASSUME IsPong(Head(b)), NEW q \in Nat, Head(b) < Pong(q) PROVE SeqOf(Head(b)) < q
  BY <1>7, <1>8, ProcAssumption DEF IsPong, Pong, SeqOf
<1>9. pongs[k]' <= pings[k] /\ \A i \in 1 .. Len(ask[k]) : pongs[k]' < ask[k][i]
  <2>1. CASE pongs[k]' = pongs[k]
    BY <2>1 DEF Answers
  <2>2. CASE IsPong(Head(b)) /\ pongs[k]' = SeqOf(Head(b))
    <3>1. /\ pings[k] \in Nat /\ pings[k] + 1 \in Nat
          /\ \A i \in 1 .. Len(ask[k]) : ask[k][i] \in Nat
      BY ProcNumbers
    <3>2. SeqOf(Head(b)) < pings[k] + 1 /\ SeqOf(Head(b)) \in Int
      BY <2>2, <3>1, <1>5, <1>7, <1>8, ProcAssumption DEF SeqOf
    <3>3. \A i \in 1 .. Len(ask[k]) : SeqOf(Head(b)) < ask[k][i]
      BY <2>2, <3>1, <1>6, <1>8
    <3> QED BY <2>2, <3>1, <3>2, <3>3
  <2> QED BY <2>1, <2>2, <1>1
<1> QED BY <1>1, <1>5, <1>6, <1>9 DEF Answers

LEMMA RxPongInv ==
  ASSUME ProcInv, RxPong
  PROVE  ProcInv'
<1>1. PICK k : k = rxproc
  OBVIOUS
<1>2. /\ k # None /\ ~incb /\ pinging = None /\ rbuf[k] # << >> /\ IsPong(Head(rbuf[k]))
      /\ pongs' = [pongs EXCEPT ![k] = SeqOf(Head(rbuf[k]))]
      /\ rbuf' = [rbuf EXCEPT ![k] = Tail(@)]
      /\ UNCHANGED <<handle, user, spawned, over, pstate, freed, child, dead, ended, reaps, sock,
                     sent, ask, pings, pinging, alarm, rxproc, incb, got, cross>>
  BY <1>1 DEF RxPong, tableVars, lifeVars, pumpVars
<1>3. ProcTypes /\ k \in Inc
  BY <1>1, <1>2 DEF ProcInv, ProcTypes
<1>4. PICK b : b = rbuf[k]
  OBVIOUS
<1>5. b \in Seq(Frames) /\ b # << >>
  BY <1>2, <1>3, <1>4, ProcNumbers
<1>6. /\ Tail(b) \in Seq(Frames) /\ Head(b) \in Frames /\ SeqOf(Head(b)) \in Nat
  <2>1. Tail(b) \in Seq(Frames) /\ Head(b) \in Frames
    BY <1>5, TailFacts
  <2> QED BY <2>1, <1>2, <1>4, ProcAssumption DEF IsPong, SeqOf, Frames
<1>7. rbuf'[k] = Tail(b) /\ pongs'[k] = SeqOf(Head(b))
  BY <1>2, <1>3, <1>4 DEF ProcTypes
<1>8. ASSUME NEW j \in Inc, j # k PROVE rbuf'[j] = rbuf[j] /\ pongs'[j] = pongs[j]
  BY <1>2, <1>3, <1>8 DEF ProcTypes
<1>9. ProcTypes'
  <2>1. rbuf' = [rbuf EXCEPT ![k] = Tail(b)] /\ pongs' = [pongs EXCEPT ![k] = SeqOf(Head(b))]
    BY <1>2, <1>3, <1>4 DEF ProcTypes
  <2>2. rbuf' \in [Inc -> Seq(Frames)] /\ pongs' \in [Inc -> Nat]
    BY <2>1, <1>3, <1>6 DEF ProcTypes
  <2> QED BY <2>2, <1>2, <1>3 DEF ProcTypes
<1>10. user[k] # None
  BY <1>1, <1>2 DEF ProcInv, PumpState
<1>11. Life'
  <2>1. ASSUME NEW j \in Inc PROVE Fresh(j)' /\ LifeOk(j)'
    <3>1. Fresh(j) /\ LifeOk(j) /\ (Holds(j)' <=> Holds(j))
      BY <1>2 DEF ProcInv, Life, Holds
    <3>2. LifeOk(j)'
      BY <3>1, <1>2 DEF LifeOk
    <3>3. CASE j = k
      BY <3>1, <3>2, <3>3, <1>2, <1>10 DEF Fresh
    <3>4. CASE j # k
      BY <3>1, <3>2, <3>4, <1>2, <1>8 DEF Fresh
    <3> QED BY <3>3, <3>4
  <2>2. \A h \in Slots : SlotOk(h)'
    BY <1>2 DEF ProcInv, Life, SlotOk
  <2> QED BY <2>1, <2>2 DEF Life
<1>12. PumpState' /\ PingWait'
  BY <1>2 DEF ProcInv, PumpState, PingState, PingWait
<1>13. ASSUME NEW j \in Inc PROVE Flow(j)' /\ Answers(j)'
  <2>0. Flow(j) /\ Answers(j) /\ (Holds(j)' <=> Holds(j))
    BY <1>2 DEF ProcInv, Stream, PingState, Holds
  <2>1. CASE j # k
    BY <2>0, <2>1, <1>2, <1>8, FlowSame, AnswersSame
  <2>2. CASE j = k
    <3>1. Answers(k)'
      BY <2>0, <2>2, <1>2, <1>3, <1>4, <1>7, AnswersTail
    <3>2. PICK c : c = sock[k]
      OBVIOUS
    <3>3. c \in Seq(Frames)
      BY <1>3, <3>2, ProcNumbers
    <3>4. Tail(b) \o c = Tail(b \o c) /\ Head(b \o c) = Head(b) /\ b \o c # << >>
      BY <1>5, <3>3, TailLeft
    <3>5. UnderWay(k) = b \o c /\ UnderWay(k)' = Tail(b \o c) /\ NextFrame(k)' = NextFrame(k)
      BY <3>2, <3>4, <1>2, <1>4, <1>7 DEF UnderWay, NextFrame
    <3>6. PICK u, p, q : u = b \o c /\ p = NextFrame(k) /\ q = sent[k] + 1
      OBVIOUS
    <3>7. u \in Seq(Nat) /\ p \in Nat /\ q \in 0 .. MaxFrame + 1 /\ u # << >> /\ IsPong(Head(u))
      BY <3>4, <3>5, <3>6, <1>2, <1>3, <1>4, ProcNumbers
    <3>8. InOrder(u, p, q) => InOrder(Tail(u), p, q)
      BY <3>7, OrderTail
    <3>9. Flow(k)'
      BY <2>0, <2>2, <3>5, <3>6, <3>8, <1>2 DEF Flow
    <3> QED BY <2>2, <3>1, <3>9
  <2> QED BY <2>1, <2>2
<1> QED BY <1>9, <1>11, <1>12, <1>13 DEF ProcInv, Stream, PingState

LEMMA RxFrameInv ==
  ASSUME ProcInv, RxFrame
  PROVE  ProcInv'
<1>1. PICK k : k = rxproc
  OBVIOUS
<1>2. /\ k # None /\ ~incb /\ pinging = None /\ rbuf[k] # << >> /\ ~IsPong(Head(rbuf[k]))
      /\ UNCHANGED <<handle, user, spawned, over, pstate, freed, child, dead, ended, reaps, sock,
                     sent, ask, pings, pongs, pinging, alarm, rxproc>>
  BY <1>1 DEF RxFrame, tableVars, lifeVars, pingVars
<1>3. ProcTypes /\ k \in Inc
  BY <1>1, <1>2 DEF ProcInv, ProcTypes
<1>4. /\ user[k] # None /\ cross \in BOOLEAN /\ ~over
      /\ Reentrant \/ (handle[user[k]] \in {None, k} /\ cross = FALSE)
  BY <1>1, <1>2 DEF ProcInv, PumpState
<1>5. PICK b, c : b = rbuf[k] /\ c = sock[k]
  OBVIOUS
<1>6. b \in Seq(Frames) /\ b # << >> /\ c \in Seq(Frames)
  BY <1>2, <1>3, <1>5, ProcNumbers
<1>7. Tail(b) \in Seq(Frames) /\ Head(b) \in Frames
  BY <1>6, TailFacts
<1>8. \A j \in Inc : LifeOk(j)' /\ (Holds(j)' <=> Holds(j))
  <2>1. ASSUME NEW j \in Inc PROVE LifeOk(j)' /\ (Holds(j)' <=> Holds(j))
    <3>1. LifeOk(j) /\ (Holds(j)' <=> Holds(j))
      BY <1>2 DEF ProcInv, Life, Holds
    <3> QED BY <3>1, <1>2 DEF LifeOk
  <2> QED BY <2>1
<1>9. \A h \in Slots : SlotOk(h)'
  BY <1>2 DEF ProcInv, Life, SlotOk
<1>10. PingWait'
  BY <1>2 DEF ProcInv, PingState, PingWait
<1>11. ~(k > spawned)
  BY <1>3, <1>4 DEF ProcInv, Life, Fresh
<1>12. CASE handle[user[k]] = None
  <2>1. /\ incb' = FALSE /\ got' = got /\ cross' = cross
        /\ rbuf' = [rbuf EXCEPT ![k] = Tail(b)]
    <3>1. /\ incb' = (handle[user[k]] # None)
          /\ cross' = (cross \/ handle[user[k]] \notin {None, k})
      BY <1>1 DEF RxFrame
    <3>2. incb' = FALSE /\ cross' = cross
      BY <3>1, <1>4, <1>12, Zenon
    <3>3. got' = got /\ rbuf' = [rbuf EXCEPT ![k] = Tail(@)]
      BY <1>1, <1>2, <1>12 DEF RxFrame
    <3> QED BY <3>2, <3>3, <1>3, <1>5 DEF ProcTypes
  <2>2. ASSUME NEW j \in Inc, j # k PROVE rbuf'[j] = rbuf[j]
    BY <2>1, <2>2, <1>3 DEF ProcTypes
  <2>3. rbuf'[k] = Tail(b) /\ rbuf' \in [Inc -> Seq(Frames)]
    BY <2>1, <1>3, <1>7 DEF ProcTypes
  <2>4. ProcTypes'
    BY <2>1, <2>3, <1>2, <1>3 DEF ProcTypes
  <2>5. ASSUME NEW j \in Inc PROVE Fresh(j)'
    <3>1. Fresh(j)
      BY DEF ProcInv, Life
    <3> QED BY <3>1, <2>1, <2>2, <1>2, <1>11 DEF Fresh
  <2>6. PumpState'
    BY <2>1, <1>1, <1>2, <1>4 DEF PumpState
  <2>7. ASSUME NEW j \in Inc PROVE Flow(j)' /\ Answers(j)'
    <3>0. Flow(j) /\ Answers(j) /\ (Holds(j)' <=> Holds(j))
      BY <1>8 DEF ProcInv, Stream, PingState
    <3>1. CASE j # k
      BY <3>0, <3>1, <2>1, <2>2, <1>1, <1>2, FlowSame, AnswersSame
    <3>2. CASE j = k
      <4>1. Answers(k)'
        BY <3>0, <3>2, <2>3, <1>2, <1>3, <1>5, AnswersTail
      <4>2. ~Holds(k)'
        BY <1>2, <1>12, <1>3 DEF Holds, Inc, None
      <4> QED BY <3>0, <3>2, <4>1, <4>2, <2>1 DEF Flow
    <3> QED BY <3>1, <3>2
  <2> QED BY <2>4, <2>5, <2>6, <2>7, <1>8, <1>9, <1>10 DEF ProcInv, Life, Stream, PingState
<1>13. CASE handle[user[k]] = k
  <2>1. /\ incb' = TRUE /\ rbuf' = rbuf /\ cross' = cross
        /\ got' = [got EXCEPT ![k] = Append(got[k], Head(b))]
    <3>1. /\ incb' = (handle[user[k]] # None)
          /\ cross' = (cross \/ handle[user[k]] \notin {None, k})
      BY <1>1 DEF RxFrame
    <3>2. incb' = TRUE /\ cross' = cross
      BY <3>1, <1>2, <1>4, <1>13, Zenon
    <3>3. rbuf' = rbuf /\ got' = [got EXCEPT ![k] = Append(@, Head(b))]
      BY <1>1, <1>2, <1>5, <1>13 DEF RxFrame
    <3> QED BY <3>2, <3>3, <1>3 DEF ProcTypes
  <2>2. ASSUME NEW j \in Inc, j # k PROVE got'[j] = got[j]
    BY <2>1, <2>2, <1>3 DEF ProcTypes
  <2>3. got'[k] = Append(got[k], Head(b)) /\ got' \in [Inc -> Seq(Frames)] /\ got[k] \in Seq(Frames)
    <3>1. got \in [Inc -> Seq(Frames)] /\ got[k] \in Seq(Frames)
      BY <1>3 DEF ProcTypes
    <3>2. Append(got[k], Head(b)) \in Seq(Frames)
      BY <3>1, <1>7, AppendProperties
    <3> QED BY <3>1, <3>2, <2>1, <1>3
  <2>4. ProcTypes'
    BY <2>1, <2>3, <1>2, <1>3 DEF ProcTypes
  <2>5. ASSUME NEW j \in Inc PROVE Fresh(j)'
    <3>1. Fresh(j)
      BY DEF ProcInv, Life
    <3> QED BY <3>1, <2>1, <2>2, <1>2, <1>11 DEF Fresh
  <2>6. PumpState'
    BY <2>1, <1>1, <1>2, <1>4 DEF PumpState
  <2>7. ASSUME NEW j \in Inc PROVE Flow(j)' /\ Answers(j)'
    <3>0. Flow(j) /\ Answers(j) /\ (Holds(j)' <=> Holds(j))
      BY <1>8 DEF ProcInv, Stream, PingState
    <3>1. Answers(j)'
      BY <3>0, <2>1, <1>2, AnswersSame
    <3>2. CASE j # k
      BY <3>0, <3>1, <3>2, <2>1, <2>2, <1>1, <1>2, FlowSame
    <3>3. CASE j = k
      <4>1. PICK n : n = Len(got[k])
        OBVIOUS
      <4>2. n \in Nat /\ Len(got'[k]) = n + 1 /\ got'[k][n + 1] = Head(b)
            /\ \A i \in 1 .. n : got'[k][i] = got[k][i]
        BY <4>1, <2>3, <1>7, AppendProperties, LenProperties
      <4>3. NextFrame(k) = n + 1 /\ NextFrame(k)' = n + 1
        BY <4>1, <4>2, <2>1, <1>1, <1>2 DEF NextFrame
      <4>4. UnderWay(k)' = UnderWay(k) /\ UnderWay(k) = b \o c
        BY <2>1, <1>2, <1>5 DEF UnderWay
      <4>5. Head(b \o c) = Head(b) /\ b \o c # << >>
        BY <1>6, TailLeft
      <4>6. PICK u, q : u = b \o c /\ q = sent[k] + 1
        OBVIOUS
      <4>7. u \in Seq(Nat) /\ q \in 0 .. MaxFrame + 1 /\ u # << >> /\ ~IsPong(Head(u)) /\ n + 1 \in Nat
        <5>1. UnderWay(k) \in Seq(Nat) /\ sent[k] + 1 \in 0 .. MaxFrame + 1
          BY <1>3, ProcNumbers
        <5>2. n + 1 \in Nat
          BY <4>2
        <5>3. ~IsPong(Head(b))
          BY <1>2, <1>5
        <5> QED BY <5>1, <5>2, <5>3, <4>4, <4>5, <4>6
      <4>8. Holds(k)
        BY <1>4, <1>13 DEF Holds
      <4>9. InOrder(u, n + 1, q)
        BY <4>3, <4>4, <4>6, <4>8, <3>0, <3>3 DEF Flow
      <4>10. Head(b) = n + 1
        BY <4>5, <4>6, <4>7, <4>9, OrderTail
      <4>11. ASSUME NEW i \in 1 .. n + 1 PROVE got'[k][i] = i
        <5>1. i \in 1 .. n \/ i = n + 1
          BY <4>2
        <5> QED BY <5>1, <4>1, <4>2, <4>10, <3>0, <3>3 DEF Flow
      <4>12. Flow(k)'
        BY <4>2, <4>3, <4>4, <4>6, <4>9, <4>11, <1>2 DEF Flow
      <4> QED BY <3>1, <3>3, <4>12
    <3> QED BY <3>2, <3>3
  <2> QED BY <2>4, <2>5, <2>6, <2>7, <1>8, <1>9, <1>10 DEF ProcInv, Life, Stream, PingState
<1>14. CASE handle[user[k]] \notin {None, k}
  <2>1. incb' = TRUE /\ rbuf' = rbuf /\ got' = got /\ cross' = TRUE
    <3>1. /\ incb' = (handle[user[k]] # None)
          /\ cross' = (cross \/ handle[user[k]] \notin {None, k})
      BY <1>1 DEF RxFrame
    <3>2. incb' = TRUE /\ cross' = TRUE
      BY <3>1, <1>4, <1>14, Zenon
    <3>3. rbuf' = rbuf /\ got' = got
      BY <1>1, <1>2, <1>14 DEF RxFrame
    <3> QED BY <3>2, <3>3
  <2>2. ProcTypes'
    BY <2>1, <1>2, <1>3 DEF ProcTypes
  <2>3. ASSUME NEW j \in Inc PROVE Fresh(j)'
    <3>1. Fresh(j)
      BY DEF ProcInv, Life
    <3> QED BY <3>1, <2>1, <1>2 DEF Fresh
  <2>4. PumpState'
    BY <2>1, <1>1, <1>2, <1>4, <1>14 DEF PumpState
  <2>5. ASSUME NEW j \in Inc PROVE Flow(j)' /\ Answers(j)'
    <3>0. Flow(j) /\ Answers(j) /\ (Holds(j)' <=> Holds(j))
      BY <1>8 DEF ProcInv, Stream, PingState
    <3>1. Answers(j)'
      BY <3>0, <2>1, <1>2, AnswersSame
    <3>2. CASE j # k
      BY <3>0, <3>1, <3>2, <2>1, <1>1, <1>2, FlowSame
    <3>3. CASE j = k
      <4>1. ~Holds(k)
        BY <1>14 DEF Holds
      <4> QED BY <3>0, <3>1, <3>3, <4>1, <2>1 DEF Flow
    <3> QED BY <3>2, <3>3
  <2> QED BY <2>2, <2>3, <2>4, <2>5, <1>8, <1>9, <1>10 DEF ProcInv, Life, Stream, PingState
<1> QED BY <1>12, <1>13, <1>14

LEMMA CbReturnInv ==
  ASSUME ProcInv, CbReturn
  PROVE  ProcInv'
<1>1. PICK k : k = rxproc
  OBVIOUS
<1>2. /\ k # None /\ incb /\ pinging = None /\ incb' = FALSE
      /\ rbuf' = [rbuf EXCEPT ![k] = Tail(@)]
      /\ UNCHANGED <<handle, user, spawned, over, pstate, freed, child, dead, ended, reaps, sock,
                     sent, ask, pings, pongs, pinging, alarm, rxproc, got, cross>>
  BY <1>1 DEF CbReturn, tableVars, lifeVars, pingVars
<1>3. ProcTypes /\ k \in Inc
  BY <1>1, <1>2 DEF ProcInv, ProcTypes
<1>4. /\ user[k] # None /\ cross \in BOOLEAN /\ ~over
      /\ Reentrant \/ (handle[user[k]] \in {None, k} /\ cross = FALSE)
      /\ rbuf[k] # << >> /\ ~IsPong(Head(rbuf[k]))
  BY <1>1, <1>2 DEF ProcInv, PumpState
<1>5. PICK b, c : b = rbuf[k] /\ c = sock[k]
  OBVIOUS
<1>6. b \in Seq(Frames) /\ b # << >> /\ c \in Seq(Frames)
  BY <1>3, <1>4, <1>5, ProcNumbers
<1>7. Tail(b) \in Seq(Frames)
  BY <1>6, TailFacts
<1>8. rbuf'[k] = Tail(b) /\ rbuf' \in [Inc -> Seq(Frames)]
  <2>1. rbuf' = [rbuf EXCEPT ![k] = Tail(b)]
    BY <1>2, <1>3, <1>5 DEF ProcTypes
  <2> QED BY <2>1, <1>3, <1>7 DEF ProcTypes
<1>9. ASSUME NEW j \in Inc, j # k PROVE rbuf'[j] = rbuf[j]
  BY <1>2, <1>3, <1>9 DEF ProcTypes
<1>10. ProcTypes'
  BY <1>2, <1>3, <1>8 DEF ProcTypes
<1>11. Life'
  <2>0. ~(k > spawned)
    BY <1>3, <1>4 DEF ProcInv, Life, Fresh
  <2>1. ASSUME NEW j \in Inc PROVE Fresh(j)' /\ LifeOk(j)'
    <3>1. Fresh(j) /\ LifeOk(j) /\ (Holds(j)' <=> Holds(j))
      BY <1>2 DEF ProcInv, Life, Holds
    <3>2. LifeOk(j)'
      BY <3>1, <1>2 DEF LifeOk
    <3>3. Fresh(j)'
      BY <3>1, <2>0, <1>2, <1>9 DEF Fresh
    <3> QED BY <3>2, <3>3
  <2>2. \A h \in Slots : SlotOk(h)'
    BY <1>2 DEF ProcInv, Life, SlotOk
  <2> QED BY <2>1, <2>2 DEF Life
<1>12. PumpState' /\ PingWait'
  BY <1>1, <1>2, <1>4 DEF ProcInv, PumpState, PingState, PingWait
<1>13. ASSUME NEW j \in Inc PROVE Flow(j)' /\ Answers(j)'
  <2>0. Flow(j) /\ Answers(j) /\ (Holds(j)' <=> Holds(j))
    BY <1>2 DEF ProcInv, Stream, PingState, Holds
  <2>1. CASE j # k
    BY <2>0, <2>1, <1>1, <1>2, <1>9, FlowSame, AnswersSame
  <2>2. CASE j = k
    <3>1. Answers(k)'
      BY <2>0, <2>2, <1>2, <1>3, <1>4, <1>5, <1>8, AnswersTail
    <3>2. Tail(b) \o c = Tail(b \o c) /\ Head(b \o c) = Head(b) /\ b \o c # << >>
      BY <1>6, TailLeft
    <3>3. UnderWay(k) = b \o c /\ UnderWay(k)' = Tail(b \o c)
      BY <3>2, <1>2, <1>5, <1>8 DEF UnderWay
    <3>4. PICK u, p, q : u = b \o c /\ p = NextFrame(k) /\ q = sent[k] + 1
      OBVIOUS
    <3>5. u \in Seq(Nat) /\ p \in Nat /\ q \in 0 .. MaxFrame + 1 /\ u # << >> /\ ~IsPong(Head(u))
      BY <3>2, <3>3, <3>4, <1>3, <1>4, <1>5, ProcNumbers
    <3>6. NextFrame(k)' = p + 1
      BY <3>4, <1>1, <1>2 DEF NextFrame
    <3>7. InOrder(u, p, q) => InOrder(Tail(u), p + 1, q)
      BY <3>5, OrderTail
    <3>8. Flow(k)'
      BY <2>0, <2>2, <3>3, <3>4, <3>6, <3>7, <1>2 DEF Flow
    <3> QED BY <2>2, <3>1, <3>8
  <2> QED BY <2>1, <2>2
<1> QED BY <1>10, <1>11, <1>12, <1>13 DEF ProcInv, Stream, PingState

LEMMA RxEndInv ==
  ASSUME ProcInv, RxEnd
  PROVE  ProcInv'
<1>1. /\ ~incb /\ pinging = None /\ rxproc' = None
      /\ UNCHANGED <<handle, user, spawned, over, pstate, freed, child, dead, ended, reaps, sock,
                     rbuf, sent, ask, pings, pongs, pinging, alarm, incb, got, cross>>
  BY DEF RxEnd, tableVars, lifeVars, wireVars, pingVars
<1>2. ProcTypes'
  BY <1>1 DEF ProcInv, ProcTypes
<1>3. Life'
  BY <1>1 DEF ProcInv, Life, SlotOk, Fresh, LifeOk, Holds
<1>4. PumpState' /\ PingWait'
  BY <1>1 DEF ProcInv, PumpState, PingState, PingWait, Quiet
<1>5. ASSUME NEW j \in Inc PROVE Flow(j)' /\ Answers(j)'
  <2>0. Flow(j) /\ Answers(j) /\ (Holds(j)' <=> Holds(j))
    BY <1>1 DEF ProcInv, Stream, PingState, Holds
  <2>1. (incb /\ rxproc = j)' = (incb /\ rxproc = j)
    BY <1>1, Zenon
  <2> QED BY <2>0, <2>1, <1>1, FlowSame, AnswersSame
<1> QED BY <1>2, <1>3, <1>4, <1>5 DEF ProcInv, Stream, PingState

-----------------------------------------------------------------------------
(* The end of a process *)

LEMMA ReadEofInv ==
  ASSUME ProcInv, NEW k \in Inc, ReadEof(k)
  PROVE  ProcInv'
<1>1. /\ pstate[k] = "run" /\ child[k] \in {"closed", "zombie"}
      /\ pstate' = [pstate EXCEPT ![k] = "dead"] /\ dead' = [dead EXCEPT ![k] = TRUE]
      /\ child' = [child EXCEPT ![k] = "reaped"] /\ reaps' = [reaps EXCEPT ![k] = @ + 1]
      /\ UNCHANGED <<handle, user, spawned, over, freed, ended, sock, rbuf, sent, ask, pings,
                     pongs, pinging, alarm, rxproc, incb, got, cross>>
  BY DEF ReadEof, Reading, Reaped, tableVars, wireVars, pingVars, pumpVars
<1>2. ProcTypes
  BY DEF ProcInv
<1>3. ProcTypes'
  <2>0. reaps[k] \in Nat
    BY <1>2 DEF ProcTypes
  <2>1. reaps[k] + 1 \in Nat
    BY <2>0
  <2>2. reaps' \in [Inc -> Nat]
    BY <2>1, <1>1, <1>2 DEF ProcTypes
  <2>3. pstate' \in [Inc -> {"none", "run", "dead"}] /\ dead' \in [Inc -> BOOLEAN]
        /\ child' \in [Inc -> {"none", "alive", "closed", "zombie", "reaped"}]
    BY <1>1, <1>2 DEF ProcTypes
  <2> QED BY <2>2, <2>3, <1>1, <1>2 DEF ProcTypes
<1>4. ASSUME NEW j \in Inc PROVE Fresh(j)' /\ LifeOk(j)'
  <2>1. Fresh(j) /\ LifeOk(j) /\ (Holds(j)' <=> Holds(j))
    BY <1>1 DEF ProcInv, Life, Holds
  <2>2. CASE j = k
    <3>1. reaps[k] = 0 /\ reaps'[k] = 1 /\ pstate'[k] = "dead" /\ child'[k] = "reaped"
      <4>1. reaps[k] = 0
        BY <2>1, <2>2, <1>1 DEF LifeOk
      <4>2. reaps'[k] = reaps[k] + 1 /\ pstate'[k] = "dead" /\ child'[k] = "reaped"
        BY <1>1, <1>2 DEF ProcTypes
      <4> QED BY <4>1, <4>2
    <3> QED BY <2>1, <2>2, <3>1, <1>1 DEF Fresh, LifeOk
  <2>3. CASE j # k
    <3>1. reaps'[j] = reaps[j] /\ pstate'[j] = pstate[j] /\ child'[j] = child[j]
      BY <2>3, <1>1, <1>2 DEF ProcTypes
    <3> QED BY <2>1, <3>1, <1>1 DEF Fresh, LifeOk
  <2> QED BY <2>2, <2>3
<1>5. \A h \in Slots : SlotOk(h)'
  BY <1>1 DEF ProcInv, Life, SlotOk
<1>6. PumpState' /\ PingWait'
  BY <1>1 DEF ProcInv, PumpState, PingState, PingWait, Quiet
<1>7. ASSUME NEW j \in Inc PROVE Flow(j)' /\ Answers(j)'
  <2>0. Flow(j) /\ Answers(j) /\ (Holds(j)' <=> Holds(j))
    BY <1>1 DEF ProcInv, Stream, PingState, Holds
  <2> QED BY <2>0, <1>1, FlowSame, AnswersSame
<1> QED BY <1>3, <1>4, <1>5, <1>6, <1>7 DEF ProcInv, Life, Stream, PingState

(* qz_proc_terminate and qz_proc_free of any set of processes with handles. *)
LEMMA ReleaseInv ==
  ASSUME ProcInv, NEW ks \in SUBSET Inc, Release(ks), pinging = None,
         dead' \in [Inc -> BOOLEAN], ended' \in [Inc -> BOOLEAN], over' \in BOOLEAN,
         \A k \in ks : user[k] # None /\ (ended'[k] \/ over'),
         (over => over') /\ \A k \in Inc : ended[k] => ended'[k],
         over' => over \/ (rxproc = None /\ \A k \in Inc : pstate[k] = "run" => k \in ks),
         UNCHANGED <<user, spawned, sock, rbuf, sent, ask, pings, pongs, pinging, alarm,
                     rxproc, incb, got, cross>>
  PROVE  ProcInv'
<1>1. ProcTypes
  BY DEF ProcInv
<1>2. None \notin Inc
  BY DEF None, Inc
<1>3. ASSUME NEW k \in ks
      PROVE  k \in Inc /\ child'[k] = "reaped" /\ pstate'[k] = "dead"
             /\ reaps'[k] = (IF child[k] # "reaped" THEN reaps[k] + 1 ELSE reaps[k])
  BY DEF Release
<1>4. ASSUME NEW k \in Inc, k \notin ks
      PROVE  child'[k] = child[k] /\ pstate'[k] = pstate[k] /\ reaps'[k] = reaps[k]
  BY <1>4 DEF Release
<1>5. ASSUME NEW k \in Inc PROVE freed'[k] <=> freed[k] \/ k \in ks
  BY Zenon DEF Release
<1>6. ASSUME NEW h \in Slots
      PROVE  /\ handle[h] \in ks => handle'[h] = None
             /\ handle[h] \notin ks => handle'[h] = handle[h]
  BY DEF Release
<1>7. ProcTypes'
  <2>1. freed' \in [Inc -> BOOLEAN]
    BY Zenon DEF Release
  <2>2. handle' \in [Slots -> Inc \cup {None}]
    BY <1>1 DEF Release, ProcTypes
  <2>3. /\ child' \in [Inc -> {"none", "alive", "closed", "zombie", "reaped"}]
        /\ pstate' \in [Inc -> {"none", "run", "dead"}]
    BY <1>1 DEF Release, ProcTypes
  <2>4. reaps' \in [Inc -> Nat]
    BY <1>1, SMTT(30) DEF Release, ProcTypes
  <2>5. UNCHANGED <<user, sock, rbuf, got, ask, sent, pings, pongs, rxproc, pinging, incb, spawned>>
    OBVIOUS
  <2>6. ProcTypes /\ dead' \in [Inc -> BOOLEAN] /\ ended' \in [Inc -> BOOLEAN] /\ over' \in BOOLEAN
    BY <1>1
  <2> HIDE DEF ProcInv
  <2> QED BY <2>1, <2>2, <2>3, <2>4, <2>5, <2>6 DEF ProcTypes
<1>8. ASSUME NEW h \in Slots PROVE SlotOk(h)'
  <2>1. SlotOk(h) /\ handle[h] \in Inc \cup {None}
    BY <1>1 DEF ProcInv, Life, ProcTypes
  <2>2. CASE handle[h] \in ks
    BY <2>2, <1>6 DEF SlotOk
  <2>3. CASE handle[h] \notin ks
    BY <2>1, <2>3, <1>5, <1>6 DEF SlotOk
  <2> QED BY <2>2, <2>3
<1>9. ASSUME NEW j \in Inc PROVE Holds(j)' <=> Holds(j) /\ j \notin ks
  <2>1. user[j] # None => user[j] \in Slots
    BY <1>1 DEF ProcTypes
  <2> QED BY <2>1, <1>2, <1>6 DEF Holds
<1>10. ASSUME NEW j \in Inc PROVE Fresh(j)' /\ LifeOk(j)'
  <2>1. Fresh(j) /\ LifeOk(j) /\ pstate[j] \in {"none", "run", "dead"} /\ reaps[j] \in Nat
    BY <1>1 DEF ProcInv, Life, ProcTypes
  <2>2. CASE j \in ks
    <3>1. reaps'[j] = 1
      BY <2>1, <2>2, <1>3 DEF LifeOk
    <3> QED BY <2>1, <2>2, <3>1, <1>3 DEF Fresh, LifeOk
  <2>3. CASE j \notin ks
    <3>1. pstate'[j] = "run" => ~over'
      BY <2>1, <2>3, <1>4 DEF LifeOk
    <3> QED BY <2>1, <2>3, <3>1, <1>4, <1>5, <1>9 DEF Fresh, LifeOk
  <2> QED BY <2>2, <2>3
<1>11. PumpState'
  <2>0. PumpState /\ (rxproc # None => rxproc \in Inc)
    BY <1>1 DEF ProcInv, ProcTypes
  <2>1. rxproc # None => user[rxproc] \in Slots
    BY <2>0, <1>1 DEF PumpState, ProcTypes
  <2> QED BY <2>0, <2>1, <1>6 DEF PumpState
<1>12. PingWait'
  BY DEF ProcInv, PingState, PingWait
<1>13. ASSUME NEW j \in Inc PROVE Flow(j)' /\ Answers(j)'
  <2>0. Flow(j) /\ Answers(j) /\ (Holds(j)' => Holds(j))
    BY <1>9 DEF ProcInv, Stream, PingState
  <2> QED BY <2>0, FlowSame, AnswersSame
<1> QED BY <1>7, <1>8, <1>10, <1>11, <1>12, <1>13 DEF ProcInv, Life, Stream, PingState

LEMMA TerminateInv ==
  ASSUME ProcInv, NEW k \in Inc, Terminate(k)
  PROVE  ProcInv'
<1>1. /\ pinging = None /\ user[k] # None
      /\ ended' = [ended EXCEPT ![k] = TRUE] /\ dead' = [dead EXCEPT ![k] = TRUE]
      /\ UNCHANGED <<user, spawned, over, sock, rbuf, sent, ask, pings, pongs, pinging, alarm,
                     rxproc, incb, got, cross>>
      /\ (UNCHANGED <<child, reaps, pstate, freed, handle>> \/ Release({k}))
  BY DEF Terminate, JsRuns, wireVars, pingVars, pumpVars
<1>2. ProcTypes
  BY DEF ProcInv
<1>3. ended' \in [Inc -> BOOLEAN] /\ dead' \in [Inc -> BOOLEAN] /\ over' \in BOOLEAN
  BY <1>1, <1>2 DEF ProcTypes
<1>4. CASE UNCHANGED <<child, reaps, pstate, freed, handle>>
  <2>1. ProcTypes'
    BY <1>1, <1>2, <1>3, <1>4 DEF ProcTypes
  <2>2. Life'
    BY <1>1, <1>4 DEF ProcInv, Life, SlotOk, Fresh, LifeOk, Holds
  <2>3. PumpState' /\ PingWait'
    BY <1>1, <1>4 DEF ProcInv, PumpState, PingState, PingWait
  <2>4. ASSUME NEW j \in Inc PROVE Flow(j)' /\ Answers(j)'
    <3>0. Flow(j) /\ Answers(j) /\ (Holds(j)' <=> Holds(j))
      BY <1>1, <1>4 DEF ProcInv, Stream, PingState, Holds
    <3> QED BY <3>0, <1>1, FlowSame, AnswersSame
  <2> QED BY <2>1, <2>2, <2>3, <2>4 DEF ProcInv, Stream, PingState
<1>5. CASE Release({k})
  BY <1>1, <1>3, <1>5, ReleaseInv
<1> QED BY <1>1, <1>4, <1>5

LEMMA TeardownInv ==
  ASSUME ProcInv, Teardown
  PROVE  ProcInv'
<1>1. PICK ks : ks = {k \in Inc : SlotsOf({k}) # {}}
  OBVIOUS
<1>2. /\ pinging = None /\ rxproc = None /\ over' = TRUE /\ Release(ks)
      /\ UNCHANGED <<user, spawned, dead, ended, sock, rbuf, sent, ask, pings, pongs, pinging,
                     alarm, rxproc, incb, got, cross>>
  BY <1>1 DEF Teardown, Idle, wireVars, pingVars, pumpVars
<1>3. ProcTypes
  BY DEF ProcInv
<1>4. dead' \in [Inc -> BOOLEAN] /\ ended' \in [Inc -> BOOLEAN] /\ over' \in BOOLEAN
  BY <1>2, <1>3 DEF ProcTypes
<1>5. ASSUME NEW k \in ks PROVE user[k] # None
  <2>1. PICK h \in Slots : handle[h] = k
    BY <1>1 DEF SlotsOf
  <2>2. k # None /\ h # None
    BY <1>1 DEF Inc, Slots, None
  <2> QED BY <2>1, <2>2 DEF ProcInv, Life, SlotOk
<1>6. ASSUME NEW k \in Inc, pstate[k] = "run" PROVE k \in ks
  <2>1. Holds(k) /\ user[k] \in Slots
    BY <1>3, <1>6 DEF ProcInv, Life, LifeOk, Holds, ProcTypes
  <2>2. user[k] \in SlotsOf({k})
    BY <2>1 DEF Holds, SlotsOf
  <2> QED BY <2>2, <1>1
<1>7. ks \in SUBSET Inc
  BY <1>1
<1> QED BY <1>2, <1>4, <1>5, <1>6, <1>7, ReleaseInv

-----------------------------------------------------------------------------
(* qz_proc_ping *)

LEMMA PingStartInv ==
  ASSUME ProcInv, NEW k \in Inc, PingStart(k)
  PROVE  ProcInv'
<1>1. /\ user[k] # None /\ pings[k] < MaxPing
      /\ PingBusy \/ (rxproc # k /\ sock[k] = << >> /\ rbuf[k] = << >>)
      /\ pings' = [pings EXCEPT ![k] = @ + 1]
      /\ ask' = [ask EXCEPT ![k] = Append(@, pings[k] + 1)] /\ pinging' = k
      /\ UNCHANGED <<handle, user, spawned, over, pstate, freed, child, dead, ended, reaps, sock,
                     rbuf, sent, pongs, alarm, rxproc, incb, got, cross>>
  BY DEF PingStart, tableVars, lifeVars, wireVars, pumpVars
<1>2. ProcTypes
  BY DEF ProcInv
<1>3. PICK s : s = pings[k] + 1
  OBVIOUS
<1>4. s \in 1 .. MaxPing /\ s \in 0 .. MaxPing /\ s \in Nat /\ pings[k] \in Nat /\ pongs[k] \in Nat
  <2>1. pings[k] \in 0 .. MaxPing /\ pongs[k] \in Nat
    BY <1>2 DEF ProcTypes
  <2> QED BY <2>1, <1>1, <1>3, ProcAssumption
<1>5. PICK a : a = ask[k]
  OBVIOUS
<1>6. a \in Seq(1 .. MaxPing)
  BY <1>2, <1>5 DEF ProcTypes
<1>7. /\ Append(a, s) \in Seq(1 .. MaxPing) /\ Len(Append(a, s)) = Len(a) + 1 /\ Len(a) \in Nat
      /\ Append(a, s)[Len(a) + 1] = s /\ \A i \in 1 .. Len(a) : Append(a, s)[i] = a[i]
  BY <1>4, <1>6, AppendProperties, LenProperties
<1>8. ask' = [ask EXCEPT ![k] = Append(a, s)] /\ pings' = [pings EXCEPT ![k] = s]
  BY <1>1, <1>2, <1>3, <1>5 DEF ProcTypes
<1>9. ask'[k] = Append(a, s) /\ pings'[k] = s
  BY <1>2, <1>8 DEF ProcTypes
<1>10. ASSUME NEW j \in Inc, j # k PROVE ask'[j] = ask[j] /\ pings'[j] = pings[j]
  BY <1>2, <1>8, <1>10 DEF ProcTypes
<1>11. ProcTypes'
  <2>1. ask' \in [Inc -> Seq(1 .. MaxPing)] /\ pings' \in [Inc -> 0 .. MaxPing]
    BY <1>2, <1>4, <1>7, <1>8 DEF ProcTypes
  <2> QED BY <2>1, <1>1, <1>2 DEF ProcTypes
<1>12. ASSUME NEW j \in Inc PROVE Fresh(j)' /\ LifeOk(j)'
  <2>1. Fresh(j) /\ LifeOk(j) /\ (Holds(j)' <=> Holds(j))
    BY <1>1 DEF ProcInv, Life, Holds
  <2>2. LifeOk(j)'
    BY <2>1, <1>1 DEF LifeOk
  <2>3. CASE j = k
    BY <2>1, <2>2, <2>3, <1>1 DEF Fresh
  <2>4. CASE j # k
    BY <2>1, <2>2, <2>4, <1>1, <1>10 DEF Fresh
  <2> QED BY <2>3, <2>4
<1>13. \A h \in Slots : SlotOk(h)'
  BY <1>1 DEF ProcInv, Life, SlotOk
<1>14. PumpState'
  BY <1>1 DEF ProcInv, PumpState
<1>15. ASSUME NEW j \in Inc PROVE Flow(j)' /\ Answers(j)'
  <2>0. Flow(j) /\ Answers(j) /\ (Holds(j)' <=> Holds(j))
    BY <1>1 DEF ProcInv, Stream, PingState, Holds
  <2>1. Flow(j)'
    BY <2>0, <1>1, FlowSame
  <2>2. CASE j # k
    BY <2>0, <2>1, <2>2, <1>1, <1>10, AnswersSame
  <2>3. CASE j = k
    <3>1. Below(sock[k], Pong(s)) /\ Below(rbuf[k], Pong(s))
      BY <2>0, <2>3, <1>3 DEF Answers
    <3>2. pongs[k] <= s /\ pongs[k] < s
      BY <2>0, <2>3, <1>3, <1>4 DEF Answers
    <3>3. \A i \in 1 .. Len(a) : a[i] \in Nat /\ pongs[k] < a[i] /\ a[i] <= pings[k]
      BY <2>0, <2>3, <1>2, <1>5, ProcNumbers DEF Answers
    <3>4. \A i \in 1 .. Len(a) + 1 : i \in 1 .. Len(a) \/ i = Len(a) + 1
      BY <1>7
    <3>5. \A i \in 1 .. Len(a) : a[i] < s
      BY <3>3, <1>3, <1>4
    <3>6. \A i \in 1 .. Len(a) + 1 :
            /\ pongs[k] < Append(a, s)[i] /\ Append(a, s)[i] <= s
            /\ Below(sock[k], Pong(Append(a, s)[i])) /\ Below(rbuf[k], Pong(Append(a, s)[i]))
      <4> SUFFICES ASSUME NEW i \in 1 .. Len(a) + 1
                   PROVE  /\ pongs[k] < Append(a, s)[i] /\ Append(a, s)[i] <= s
                          /\ Below(sock[k], Pong(Append(a, s)[i]))
                          /\ Below(rbuf[k], Pong(Append(a, s)[i]))
        OBVIOUS
      <4>1. CASE i \in 1 .. Len(a)
        <5>1. Append(a, s)[i] = a[i]
          BY <4>1, <1>7
        <5>2. Below(sock[k], Pong(a[i])) /\ Below(rbuf[k], Pong(a[i]))
          BY <4>1, <2>0, <2>3, <1>5 DEF Answers
        <5> QED BY <5>1, <5>2, <4>1, <3>3, <3>5, <1>4
      <4>2. CASE i = Len(a) + 1
        <5>1. Append(a, s)[i] = s
          BY <4>2, <1>7
        <5> QED BY <5>1, <3>1, <3>2, <1>4
      <4> QED BY <4>1, <4>2, <3>4
    <3>7. ASSUME NEW i \in 1 .. Len(a) + 1, NEW l \in 1 .. Len(a) + 1, i < l
          PROVE  Append(a, s)[i] < Append(a, s)[l]
      <4>1. i \in 1 .. Len(a)
        BY <3>7, <1>7
      <4>2. CASE l \in 1 .. Len(a)
        <5>1. a[i] < a[l]
          BY <4>1, <4>2, <3>7, <2>0, <2>3, <1>5 DEF Answers
        <5> QED BY <5>1, <4>1, <4>2, <1>7
      <4>3. CASE l = Len(a) + 1
        BY <4>1, <4>3, <3>5, <1>7
      <4> QED BY <4>2, <4>3, <3>4
    <3>8. Below(sock[k], Pong(s + 1)) /\ Below(rbuf[k], Pong(s + 1))
      <4>1. s + 1 \in Nat /\ s < s + 1
        BY <1>4
      <4>2. Pong(s) < Pong(s + 1) /\ Pong(s) \in Nat /\ Pong(s + 1) \in Nat
        BY <4>1, <1>4, PongsRise, ProcAssumption DEF Pong
      <4>3. sock[k] \in Seq(Frames) /\ rbuf[k] \in Seq(Frames)
        BY <1>2, ProcNumbers
      <4> QED BY <4>2, <4>3, <3>1, BelowMore
    <3>9. Answers(k)'
      BY <3>2, <3>6, <3>7, <3>8, <1>1, <1>7, <1>9, ZenonT(30) DEF Answers
    <3> QED BY <2>1, <2>3, <3>9
  <2> QED BY <2>2, <2>3
<1>16. PingWait'
  <2>1. Len(<< >>) = 0 /\ \A i \in 1 .. 0 : FALSE
    OBVIOUS
  <2>2. alarm \in BOOLEAN /\ (PingBusy \/ alarm = FALSE)
    BY DEF ProcInv, PingState, PingWait
  <2>3. PingBusy \/ Quiet(k)'
    BY <2>1, <1>1 DEF Quiet
  <2> QED BY <2>2, <2>3, <1>1 DEF PingWait
<1> QED BY <1>11, <1>12, <1>13, <1>14, <1>15, <1>16 DEF ProcInv, Life, Stream, PingState

LEMMA PingReadInv ==
  ASSUME ProcInv, PingRead
  PROVE  ProcInv'
<1>1. PICK k, a, c : k = pinging /\ a = rbuf[k] /\ c = sock[k]
  OBVIOUS
<1>2. ProcTypes /\ k \in Inc /\ k # None
  BY <1>1 DEF PingRead, ProcInv, ProcTypes
<1>3. a \in Seq(Frames) /\ c \in Seq(Frames)
  BY <1>1, <1>2, ProcNumbers
<1>4. PICK b : b = a \o c
  OBVIOUS
<1>5. b \in Seq(Frames) /\ Len(b) \in Nat
  BY <1>3, <1>4, ConcatProperties, LenProperties
<1>6. PICK n \in 0 .. Len(b) :
        /\ Cardinality(Pongs(b)) = n /\ \A i \in 1 .. n : IsPong(b[i])
        /\ n < Len(b) => ~IsPong(b[n + 1])
  BY <1>5, PongsFirst
<1>7. PICK r : r = SubSeq(b, n + 1, Len(b))
  OBVIOUS
<1>8. r \in Seq(Frames) /\ (n = 0 => r = b) /\ (n = Len(b) => r = << >>)
  BY <1>5, <1>6, <1>7, RestOfSeq
<1>9. /\ rbuf' = [rbuf EXCEPT ![k] = r] /\ sock' = [sock EXCEPT ![k] = << >>]
      /\ pongs' = IF n = 0 THEN pongs ELSE [pongs EXCEPT ![k] = SeqOf(b[n])]
  BY <1>1, <1>4, <1>6, <1>7 DEF PingRead
<1>10. UNCHANGED <<handle, user, spawned, over, pstate, freed, child, dead, ended, reaps, sent,
                   ask, pings, pinging, alarm, rxproc, incb, got, cross>>
  BY DEF PingRead, tableVars, lifeVars, pumpVars
<1>11. user[k] # None /\ (PingBusy \/ Quiet(k))
  BY <1>1, <1>2 DEF ProcInv, PingState, PingWait
<1>12. \A i \in 1 .. n : b[i] \in Frames /\ SeqOf(b[i]) \in Nat /\ b[i] = Pong(SeqOf(b[i]))
  <2> SUFFICES ASSUME NEW i \in 1 .. n
               PROVE  b[i] \in Frames /\ SeqOf(b[i]) \in Nat /\ b[i] = Pong(SeqOf(b[i]))
    OBVIOUS
  <2>1. i \in 1 .. Len(b) /\ IsPong(b[i])
    BY <1>5, <1>6
  <2>2. b[i] \in Frames
    BY <2>1, <1>5, ElementOfSeq
  <2> QED BY <2>1, <2>2, ProcAssumption DEF Frames, IsPong, SeqOf, Pong
<1>13. rbuf'[k] = r /\ sock'[k] = << >> /\ pongs'[k] = IF n = 0 THEN pongs[k] ELSE SeqOf(b[n])
  BY <1>2, <1>9 DEF ProcTypes
<1>14. ASSUME NEW j \in Inc, j # k
       PROVE  rbuf'[j] = rbuf[j] /\ sock'[j] = sock[j] /\ pongs'[j] = pongs[j]
  BY <1>2, <1>9, <1>14 DEF ProcTypes
<1>15. ProcTypes'
  <2>1. << >> \in Seq(Frames)
    BY EmptySeq
  <2>2. rbuf' \in [Inc -> Seq(Frames)] /\ sock' \in [Inc -> Seq(Frames)]
    BY <2>1, <1>2, <1>8, <1>9 DEF ProcTypes
  <2>3. pongs' \in [Inc -> Nat]
    <3>1. CASE n = 0
      BY <3>1, <1>2, <1>9 DEF ProcTypes
    <3>2. CASE n # 0
      <4>1. n \in 1 .. n
        BY <3>2, <1>5, <1>6
      <4>2. PICK p \in Nat : p = SeqOf(b[n])
        BY <4>1, <1>12
      <4> QED BY <3>2, <4>2, <1>2, <1>9 DEF ProcTypes
    <3> QED BY <3>1, <3>2
  <2> QED BY <2>2, <2>3, <1>2, <1>10 DEF ProcTypes
<1>16. ~(k > spawned)
  BY <1>2, <1>11 DEF ProcInv, Life, Fresh
<1>17. ASSUME NEW j \in Inc PROVE Fresh(j)' /\ LifeOk(j)'
  <2>1. Fresh(j) /\ LifeOk(j) /\ (Holds(j)' <=> Holds(j))
    BY <1>10 DEF ProcInv, Life, Holds
  <2>2. LifeOk(j)'
    BY <2>1, <1>10 DEF LifeOk
  <2>3. Fresh(j)'
    BY <2>1, <1>10, <1>14, <1>16 DEF Fresh
  <2> QED BY <2>2, <2>3
<1>18. \A h \in Slots : SlotOk(h)'
  BY <1>10 DEF ProcInv, Life, SlotOk
<1>19. PumpState'
  <2>1. PumpState /\ (rxproc # None => rxproc \in Inc)
    BY <1>2 DEF ProcInv, ProcTypes
  <2>2. incb /\ rxproc = k => r # << >> /\ ~IsPong(Head(r))
    <3> SUFFICES ASSUME incb, rxproc = k PROVE r # << >> /\ ~IsPong(Head(r))
      OBVIOUS
    <3>1. a # << >> /\ ~IsPong(Head(a))
      BY <2>1, <1>1 DEF PumpState
    <3>2. Head(b) = Head(a) /\ b # << >>
      BY <3>1, <1>3, <1>4, TailLeft
    <3>3. Head(b) = b[1]
      BY <3>2, <1>5, TailFacts
    <3>4. n = 0
      <4>1. n # 0 => 1 \in 1 .. n
        BY <1>5, <1>6
      <4> QED BY <4>1, <3>1, <3>2, <3>3, <1>6
    <3> QED BY <3>1, <3>2, <3>4, <1>8
  <2>3. incb => rbuf'[rxproc] # << >> /\ ~IsPong(Head(rbuf'[rxproc]))
    <3>1. CASE rxproc = k
      BY <3>1, <2>2, <1>13
    <3>2. CASE rxproc # k
      BY <3>2, <2>1, <1>14 DEF PumpState
    <3> QED BY <3>1, <3>2
  <2> QED BY <2>1, <2>3, <1>10 DEF PumpState
<1>20. ASSUME NEW j \in Inc PROVE Flow(j)' /\ Answers(j)'
  <2>0. Flow(j) /\ Answers(j) /\ (Holds(j)' <=> Holds(j))
    BY <1>10 DEF ProcInv, Stream, PingState, Holds
  <2>1. CASE j # k
    BY <2>0, <2>1, <1>10, <1>14, FlowSame, AnswersSame
  <2>2. CASE j = k
    <3>1. UnderWay(k) = b /\ UnderWay(k)' = r /\ NextFrame(k)' = NextFrame(k)
      <4>1. r \o << >> = r
        BY <1>8, ConcatEmptySeq
      <4> QED BY <4>1, <1>1, <1>4, <1>10, <1>13 DEF UnderWay, NextFrame
    <3>2. PICK m, q : m = NextFrame(k) /\ q = sent[k] + 1
      OBVIOUS
    <3>3. m \in Nat /\ q \in 0 .. MaxFrame + 1 /\ b \in Seq(Nat)
      BY <3>1, <3>2, <1>2, ProcNumbers
    <3>4. InOrder(b, m, q) => InOrder(r, m, q)
      BY <3>3, <1>6, <1>7, OrderPongs
    <3>5. Flow(k)'
      BY <2>0, <2>2, <3>1, <3>2, <3>4, <1>10 DEF Flow
    <3>6. ASSUME NEW q2 \in Nat, Below(rbuf[k], Pong(q2)), Below(sock[k], Pong(q2))
          PROVE  Below(r, Pong(q2)) /\ (n # 0 => SeqOf(b[n]) < q2)
      <4>1. Pong(q2) \in Nat
        BY <3>6, ProcAssumption DEF Pong
      <4>2. Below(b, Pong(q2))
        BY <4>1, <3>6, <1>1, <1>3, <1>4, BelowConcat
      <4>3. Below(r, Pong(q2))
        BY <4>1, <4>2, <1>5, <1>6, <1>7, BelowRest
      <4>4. ASSUME n # 0 PROVE SeqOf(b[n]) < q2
        <5>1. n \in 1 .. n /\ n \in 1 .. Len(b)
          BY <4>4, <1>5, <1>6
        <5>2. b[n] < Pong(q2) /\ b[n] = Pong(SeqOf(b[n])) /\ SeqOf(b[n]) \in Nat
          BY <5>1, <4>2, <1>12 DEF Below
        <5>3. PICK p \in Nat : p = SeqOf(b[n])
          BY <5>2
        <5>4. p < q2
          BY <5>2, <5>3, <3>6, ProcAssumption DEF Pong
        <5> QED BY <5>3, <5>4
      <4> QED BY <4>3, <4>4
    <3>7. \A v : Below(<< >>, v)
      <4>1. Len(<< >>) = 0 /\ \A i \in 1 .. 0 : FALSE
        OBVIOUS
      <4> QED BY <4>1 DEF Below
    <3>8. /\ pings[k] \in Nat /\ pings[k] + 1 \in Nat
          /\ \A i \in 1 .. Len(ask[k]) : ask[k][i] \in Nat
      BY <1>2, ProcNumbers
    <3>9. Below(r, Pong(pings[k] + 1)) /\ (n # 0 => SeqOf(b[n]) < pings[k] + 1)
      BY <2>0, <2>2, <3>6, <3>8 DEF Answers
    <3>10. \A i \in 1 .. Len(ask[k]) :
             Below(r, Pong(ask[k][i])) /\ (n # 0 => SeqOf(b[n]) < ask[k][i])
      BY <2>0, <2>2, <3>6, <3>8 DEF Answers
    <3>11. pongs'[k] <= pings[k] /\ \A i \in 1 .. Len(ask[k]) : pongs'[k] < ask[k][i]
      <4>1. CASE n = 0
        BY <4>1, <2>0, <2>2, <1>13 DEF Answers
      <4>2. CASE n # 0
        <5>1. n \in 1 .. n
          BY <4>2, <1>5, <1>6
        <5>2. PICK p \in Nat : p = SeqOf(b[n])
          BY <5>1, <1>12
        <5>3. p < pings[k] + 1 /\ \A i \in 1 .. Len(ask[k]) : p < ask[k][i]
          BY <4>2, <5>2, <3>9, <3>10
        <5>4. p <= pings[k]
          BY <5>3, <3>8
        <5> QED BY <4>2, <5>2, <5>3, <5>4, <1>13
      <4> QED BY <4>1, <4>2
    <3>12. Answers(k)'
      BY <2>0, <2>2, <3>7, <3>9, <3>10, <3>11, <1>10, <1>13 DEF Answers
    <3> QED BY <2>2, <3>5, <3>12
  <2> QED BY <2>1, <2>2
<1>21. PingWait'
  <2>1. alarm \in BOOLEAN /\ (PingBusy \/ alarm = FALSE)
    BY DEF ProcInv, PingState, PingWait
  <2>2. ASSUME ~PingBusy PROVE Quiet(k)'
    <3>1. a = << >> /\ rxproc # k /\ \A i \in 1 .. Len(c) : IsPong(c[i])
      BY <2>2, <1>1, <1>11 DEF Quiet
    <3>2. b = c
      BY <3>1, <1>3, <1>4, ConcatEmptySeq
    <3>3. n = Len(b)
      <4>1. n < Len(b) => n + 1 \in 1 .. Len(b)
        BY <1>5, <1>6
      <4>2. n = Len(b) \/ n < Len(b)
        BY <1>5, <1>6
      <4> QED BY <4>1, <4>2, <3>1, <3>2, <1>6
    <3>4. Len(<< >>) = 0 /\ \A i \in 1 .. 0 : FALSE
      OBVIOUS
    <3> QED BY <3>1, <3>3, <3>4, <1>8, <1>10, <1>13 DEF Quiet
  <2> QED BY <2>1, <2>2, <1>1, <1>10, <1>11 DEF PingWait
<1> QED BY <1>15, <1>17, <1>18, <1>19, <1>20, <1>21 DEF ProcInv, Life, Stream, PingState

(* qz_proc_ping says that the peer is well only when this ping has been answered. *)
LEMMA PingOkTrue ==
  ASSUME ProcInv, PingOk
  PROVE  alarm' = alarm
<1>1. PICK k : k = pinging
  OBVIOUS
<1>2. ProcTypes /\ k \in Inc /\ Answers(k) /\ alarm \in BOOLEAN /\ pongs[k] >= pings[k]
  BY <1>1 DEF PingOk, ProcInv, ProcTypes, PingState, PingWait
<1>3. /\ pings[k] \in Nat /\ pongs[k] \in Nat /\ DOMAIN ask[k] = 1 .. Len(ask[k])
      /\ \A i \in 1 .. Len(ask[k]) : ask[k][i] \in Nat
  <2>1. ask[k] \in Seq(1 .. MaxPing)
    BY <1>2 DEF ProcTypes
  <2> QED BY <2>1, <1>2, ProcNumbers, LenProperties
<1>4. ~ \E i \in DOMAIN ask[k] : ask[k][i] = pings[k]
  BY <1>2, <1>3 DEF Answers
<1>5. alarm' = (alarm \/ \E i \in DOMAIN ask[k] : ask[k][i] = pings[k])
  BY <1>1 DEF PingOk
<1> QED BY <1>2, <1>4, <1>5, Zenon

LEMMA PingEndInv ==
  ASSUME ProcInv, PingOk \/ PingTimeout \/ PingDead
  PROVE  ProcInv'
<1>0. PingOk \/ PingTimeout \/ PingDead
  OBVIOUS
<1>1. /\ pinging # None /\ pinging' = None
      /\ UNCHANGED <<handle, user, spawned, over, pstate, freed, child, dead, ended, reaps, sock,
                     rbuf, sent, ask, pings, pongs, rxproc, incb, got, cross>>
  BY DEF PingOk, PingTimeout, PingDead, tableVars, lifeVars, wireVars, pumpVars
<1>2. ProcTypes /\ PingWait
  BY DEF ProcInv, PingState
<1>3. alarm' \in BOOLEAN /\ (PingBusy \/ alarm' = FALSE)
  <2>1. PICK k : k = pinging
    OBVIOUS
  <2>2. alarm \in BOOLEAN /\ (PingBusy \/ alarm = FALSE) /\ (PingBusy \/ Quiet(k))
    BY <2>1, <1>1, <1>2 DEF PingWait
  <2>3. CASE PingOk
    BY <2>2, <2>3, PingOkTrue
  <2>4. CASE PingTimeout
    <3>1. alarm' = (alarm \/ \E i \in DOMAIN rbuf[k] : rbuf[k][i] = Pong(pings[k]))
      BY <2>1, <2>4 DEF PingTimeout
    <3>2. DOMAIN << >> = {}
      OBVIOUS
    <3>3. Quiet(k) => ~ \E i \in DOMAIN rbuf[k] : rbuf[k][i] = Pong(pings[k])
      BY <3>2 DEF Quiet
    <3> QED BY <2>2, <3>1, <3>3, Zenon
  <2>5. CASE PingDead
    BY <2>2, <2>5 DEF PingDead
  <2> QED BY <2>3, <2>4, <2>5, <1>0
<1>4. ProcTypes'
  BY <1>1, <1>2 DEF ProcTypes
<1>5. Life'
  BY <1>1 DEF ProcInv, Life, SlotOk, Fresh, LifeOk, Holds
<1>6. PumpState' /\ PingWait'
  BY <1>1, <1>3 DEF ProcInv, PumpState, PingWait
<1>7. ASSUME NEW j \in Inc PROVE Flow(j)' /\ Answers(j)'
  <2>0. Flow(j) /\ Answers(j) /\ (Holds(j)' <=> Holds(j))
    BY <1>1 DEF ProcInv, Stream, PingState, Holds
  <2> QED BY <2>0, <1>1, FlowSame, AnswersSame
<1> QED BY <1>4, <1>5, <1>6, <1>7 DEF ProcInv, Stream, PingState

-----------------------------------------------------------------------------
(* The theorem *)

LEMMA ProcSameInv == ProcInv /\ UNCHANGED procVars => ProcInv'
<1> SUFFICES ASSUME ProcInv, UNCHANGED procVars PROVE ProcInv'
  OBVIOUS
<1>1. UNCHANGED <<handle, user, spawned, over, pstate, freed, child, dead, ended, reaps, sock,
                  rbuf, sent, ask, pings, pongs, pinging, alarm, rxproc, incb, got, cross>>
  BY DEF procVars, tableVars, lifeVars, wireVars, pingVars, pumpVars
<1>2. ProcTypes'
  BY <1>1 DEF ProcInv, ProcTypes
<1>3. Life'
  BY <1>1 DEF ProcInv, Life, SlotOk, Fresh, LifeOk, Holds
<1>4. PumpState' /\ PingWait'
  BY <1>1 DEF ProcInv, PumpState, PingState, PingWait, Quiet
<1>5. ASSUME NEW j \in Inc PROVE Flow(j)' /\ Answers(j)'
  <2>0. Flow(j) /\ Answers(j) /\ (Holds(j)' <=> Holds(j))
    BY <1>1 DEF ProcInv, Stream, PingState, Holds
  <2> QED BY <2>0, <1>1, FlowSame, AnswersSame
<1> QED BY <1>2, <1>3, <1>4, <1>5 DEF ProcInv, Stream, PingState

LEMMA ProcNextInv == ProcInv /\ [ProcNext]_procVars => ProcInv'
<1> SUFFICES ASSUME ProcInv, [ProcNext]_procVars PROVE ProcInv'
  OBVIOUS
<1>1. CASE Pump
  BY <1>1, RxPongInv, RxFrameInv, CbReturnInv, RxEndInv DEF Pump
<1>2. CASE Ping
  BY <1>2, PingReadInv, PingEndInv DEF Ping
<1>3. CASE Spawn \/ SpawnFail
  BY <1>3, SpawnInv, SpawnFailInv
<1>4. CASE Teardown
  BY <1>4, TeardownInv
<1>5. ASSUME NEW k \in Inc, ChildSend(k) \/ ChildPong(k) \/ ChildEnd(k) PROVE ProcInv'
  BY <1>5, ChildSendInv, ChildPongInv, ChildEndInv
<1>6. ASSUME NEW k \in Inc, Read(k) \/ ReadEof(k) \/ Terminate(k) \/ PingStart(k) PROVE ProcInv'
  BY <1>6, ReadInv, ReadEofInv, TerminateInv, PingStartInv
<1>7. CASE UNCHANGED procVars
  BY <1>7, ProcSameInv
<1> QED BY <1>1, <1>2, <1>3, <1>4, <1>5, <1>6, <1>7 DEF ProcNext, Finished

LEMMA ProcInvSuffices == ProcInv => ChildrenAreKept
<1> SUFFICES ASSUME ProcInv PROVE ChildrenAreKept
  OBVIOUS
<1>1. ProcTypes /\ PumpState
  BY DEF ProcInv
<1>2. ProcTypeOK
  <2>1. {freed, dead, ended} \subseteq [Inc -> BOOLEAN]
    BY <1>1 DEF ProcTypes
  <2>2. ASSUME NEW k \in Inc, NEW b \in {sock[k], rbuf[k], got[k]}, NEW i \in DOMAIN b
        PROVE  b[i] \in 1 .. MaxFrame + MaxPing
    <3>1. b \in Seq(Frames)
      BY <1>1, ProcNumbers
    <3>2. i \in 1 .. Len(b)
      BY <3>1, LenProperties
    <3> QED BY <3>1, <3>2, ElementOfSeq DEF Frames
  <2>3. ASSUME NEW k \in Inc, NEW i \in DOMAIN ask[k] PROVE ask[k][i] \in 1 .. MaxPing
    <3>1. ask[k] \in Seq(1 .. MaxPing)
      BY <1>1 DEF ProcTypes
    <3>2. i \in 1 .. Len(ask[k])
      BY <3>1, LenProperties
    <3> QED BY <3>1, <3>2, ElementOfSeq
  <2>4. {sent, pings, pongs, reaps} \subseteq [Inc -> Nat]
    <3>1. 0 .. MaxFrame \subseteq Nat /\ 0 .. MaxPing \subseteq Nat
      OBVIOUS
    <3> QED BY <3>1, <1>1 DEF ProcTypes
  <2>5. {incb, over, cross, alarm} \subseteq BOOLEAN
    BY <1>1 DEF ProcTypes, PumpState, ProcInv, PingState, PingWait
  <2>6. incb => rxproc # None /\ rbuf[rxproc] # << >>
    BY <1>1 DEF PumpState
  <2> QED BY <2>1, <2>2, <2>3, <2>4, <2>5, <2>6, <1>1 DEF ProcTypeOK, ProcTypes
<1>3. ReapedOnce
  <2> SUFFICES ASSUME NEW k \in Inc
               PROVE  /\ reaps[k] <= 1
                      /\ freed[k] \/ over => child[k] \in {"none", "reaped"}
                      /\ pstate[k] = "dead" => child[k] = "reaped"
    BY DEF ReapedOnce
  <2>1. LifeOk(k) /\ pstate[k] \in {"none", "run", "dead"}
    BY <1>1 DEF ProcInv, Life, ProcTypes
  <2>2. pstate[k] = "run" => ~freed[k]
    <3>1. user[k] # None => user[k] \in Slots
      BY <1>1 DEF ProcTypes
    <3>2. k # None
      BY DEF Inc, None
    <3> QED BY <2>1, <3>1, <3>2 DEF LifeOk, Holds, ProcInv, Life, SlotOk
  <2> QED BY <2>1, <2>2 DEF LifeOk
<1>4. Reentrant \/ NoCrossDelivery
  BY <1>1 DEF PumpState, NoCrossDelivery
<1>5. FramesInOrder
  <2> SUFFICES ASSUME NEW k \in Inc PROVE got[k] = [i \in 1 .. Len(got[k]) |-> i]
    BY DEF FramesInOrder
  <2>1. got[k] \in Seq(Frames) /\ \A i \in 1 .. Len(got[k]) : got[k][i] = i
    BY <1>1, ProcNumbers DEF ProcInv, Stream, Flow
  <2>2. got[k] \in [1 .. Len(got[k]) -> Frames]
    BY <2>1, LenProperties
  <2> QED BY <2>1, <2>2
<1>6. PingBusy \/ PingTruthful
  BY DEF ProcInv, PingState, PingWait, PingTruthful
<1> QED BY <1>2, <1>3, <1>4, <1>5, <1>6 DEF ChildrenAreKept

(* A frame goes astray in one action, and then its Worker had been terminated. *)
LEMMA StrayStep ==
  ASSUME ProcInv, [ProcNext]_procVars
  PROVE  cross' # cross => ended[rxproc]
<1>1. CASE RxFrame
  <2>1. rxproc \in Inc /\ cross \in BOOLEAN
    BY <1>1 DEF RxFrame, ProcInv, ProcTypes, PumpState
  <2>2. user[rxproc] # None /\ LifeOk(rxproc)
    BY <1>1, <2>1 DEF RxFrame, ProcInv, PumpState, Life
  <2>3. cross' = (cross \/ handle[user[rxproc]] \notin {None, rxproc})
    BY <1>1 DEF RxFrame
  <2>4. CASE Holds(rxproc)
    <3>1. cross' = cross
      BY <2>1, <2>3, <2>4, Zenon DEF Holds
    <3> QED BY <3>1
  <2>5. CASE ended[rxproc]
    BY <2>5
  <2>6. CASE over
    BY <1>1, <2>6 DEF ProcInv, PumpState, RxFrame
  <2> QED BY <2>2, <2>4, <2>5, <2>6 DEF LifeOk
<1>2. CASE ~RxFrame
  <2>1. UNCHANGED cross
    BY <1>2 DEF ProcNext, Pump, RxPong, CbReturn, RxEnd, Ping, PingRead, PingOk, PingTimeout,
                PingDead, Spawn, SpawnFail, Teardown, ChildSend, ChildPong, ChildEnd, Read,
                ReadEof, Terminate, PingStart, Finished, procVars
  <2> QED BY <2>1
<1> QED BY <1>1, <1>2

(* The table of process handles, the read pump and the ping, for any number  *)
(* of children and whatever a message handler does: each child is waited for  *)
(* once and none is left behind; a Worker receives the frames of its process  *)
(* in order and without a gap; a frame reaches another Worker only once JS has *)
(* terminated its own (in a handler, which then starts a process that gets    *)
(* the slot: never if handlers start none); and qz_proc_ping never says of a  *)
(* peer that has not answered that it is well.  That it never says of one     *)
(* that has answered that it is blocked is so when the peer is pinged while   *)
(* nothing of it is under way (bridge.c, ipc_process.c).                      *)
THEOREM ParentServesChildren ==
  ProcSpec => /\ []ChildrenAreKept
              /\ StraysAreOfTheTerminated /\ WellMeansAnswered
<1>1. ProcInit => ProcInv
  BY ProcInitInv
<1>2. ProcInv /\ [ProcNext]_procVars => ProcInv'
  BY ProcNextInv
<1>3. ProcInv => ChildrenAreKept
  BY ProcInvSuffices
<1>4. ProcInv /\ [ProcNext]_procVars => [cross' # cross => ended[rxproc]]_procVars
  BY StrayStep
<1>5. ProcInv /\ [ProcNext]_procVars => [PingOk => alarm' = alarm]_procVars
  BY PingOkTrue
<1> QED BY <1>1, <1>2, <1>3, <1>4, <1>5, PTL
        DEF ProcSpec, StraysAreOfTheTerminated, WellMeansAnswered
=============================================================================
