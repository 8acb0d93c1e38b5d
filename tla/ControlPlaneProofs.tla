------------------------- MODULE ControlPlaneProofs ------------------------
(***************************************************************************)
(* Proofs about ControlPlane and CtlEndpoint, for any number of commands,   *)
(* connections, receipts and runtimes.                                      *)
(*                                                                         *)
(* Of the control plane, the inductive invariant says where a command may   *)
(* still be: Keys ties everything that carries a correl to the one command  *)
(* that uses it, Single and Tokens let a command have one entry of its own, *)
(* one copy on the way to the child or back, and no copy beside the entry   *)
(* of a receipt that was taken for a command.  Answers and Timely then say  *)
(* that an entry and its receipt exclude each other.                        *)
(***************************************************************************)
EXTENDS ControlPlane, CtlEndpoint, TLAPS

Entries ==
    [c : Cmds, correl : Correls, to : Conns \cup {Host, Child}, expired : BOOLEAN, at : Nat]
Queued == [c : Cmds, correl : Correls, receipt : BOOLEAN]
Remote == [c : Cmds, correl : Correls]
Returned == [c : Cmds, correl : Correls, long : BOOLEAN]

CtlTypes ==
    /\ pending \subseteq Entries /\ regs \in Nat /\ \A e \in pending : e.at \in 1 .. regs
    /\ queue \in Seq(Queued) /\ down \in Seq(Remote) /\ up \in Seq(Returned)
    /\ conns \in [Conns -> {"none", "open", "closed"}]
    /\ cstate \in [Cmds -> {"new", "registered", "accepted", "rejected"}]
    /\ from \in [Cmds -> Conns \cup {Host}] /\ correl \in [Cmds -> Correls]
    /\ pc \in {"poll", "more", "closed"}
    /\ executed \subseteq Cmds /\ unsaid \subseteq executed /\ arrived \subseteq Cmds
    /\ got \in [Receipts -> Nat]
    /\ alive \in BOOLEAN /\ lateExec \in BOOLEAN /\ dangling \in BOOLEAN

(* The connections that receipts are to go to are open. *)
Sinks ==
    /\ \A e \in pending : e.to \in Conns => conns[e.to] = "open"
    /\ ~dangling

Carried(m) == m.correl = correl[m.c] /\ cstate[m.c] = "accepted"

Keys ==
    /\ \A c, d \in Cmds :
          cstate[c] # "new" /\ cstate[d] # "new" /\ correl[c] = correl[d] => c = d
    /\ \A e \in pending :
          /\ e.correl = correl[e.c] /\ e.to \in {from[e.c], Child}
          /\ cstate[e.c] = "accepted" \/ (cstate[e.c] = "registered" /\ e.to # Child)
    /\ \A i \in DOMAIN queue : Carried(queue[i])
    /\ \A i \in DOMAIN down : Carried(down[i])
    /\ \A i \in DOMAIN up : Carried(up[i])
    /\ ~lateExec

Single ==
    \A e, f \in pending : e.c = f.c /\ (e.to = Child <=> f.to = Child) => e = f

Tokens ==
    /\ \A i, j \in DOMAIN down : down[i].c = down[j].c => i = j
    /\ \A i, j \in DOMAIN up : up[i].c = up[j].c => i = j
    /\ \A i \in DOMAIN down, j \in DOMAIN up : down[i].c # up[j].c
    /\ \A e \in pending : e.to = Child =>
          /\ \A i \in DOMAIN down : down[i].c # e.c
          /\ \A i \in DOMAIN up : up[i].c # e.c

(* A receipt was for its sender, and a connection has one at most, after which *)
(* no entry is left to answer through it.                                      *)
Answers ==
    \A r \in Receipts : got[r] > 0 =>
        /\ cstate[r.c] # "new" /\ r.to \in {from[r.c], Host, Child}
        /\ r.to \in Conns =>
              /\ got[r] = 1 /\ \A s \in Receipts \ {r} : s.c = r.c /\ s.to = r.to => got[s] = 0
              /\ \A e \in pending : e.c = r.c => e.to # r.to

Timely ==
    /\ \A c \in arrived : cstate[c] # "new" /\ \A e \in pending : e.c = c => e.to = Child
    /\ \A r \in Receipts : got[r] > 0 /\ r.what = "timeout" /\ r.to # Child =>
          r.c \notin arrived /\ \A e \in pending : e.c = r.c => e.to = Child

SinkInv == CtlTypes /\ Sinks
CtlInv == SinkInv /\ Keys /\ Single /\ Tokens /\ Answers /\ Timely

-----------------------------------------------------------------------------
(* The socket files: who holds which path. *)
EpInv ==
    /\ EpTypeOK
    /\ \A r \in Runtimes : path[r] # NoPath => path[r] = DefaultPath(r) \/ path[r] \in Explicit
    /\ \A r, s \in Runtimes : path[r] # NoPath /\ path[r] = path[s] => r = s
    /\ \A r \in Runtimes : bound[r] => file[path[r]] = r /\ epPc[r] \in {"listen", "up", "fail"}
    /\ \A r \in Runtimes : epPc[r] \in {"listen", "up"} => bound[r]
    /\ \A r \in Runtimes : epPc[r] = "bind" /\ path[r] = DefaultPath(r) => file[path[r]] = NoFile
    /\ \A r \in Runtimes : epPc[r] = "fail" /\ ~bound[r] => path[r] # DefaultPath(r)

-----------------------------------------------------------------------------
(* Sequences and the receipt table *)

LEMMA AppendAt ==
    ASSUME NEW S, NEW s \in Seq(S), NEW e \in S
    PROVE  /\ Append(s, e) \in Seq(S) /\ Len(s) \in Nat
           /\ Len(s) + 1 \notin DOMAIN s
           /\ \A i \in DOMAIN Append(s, e) :
                 \/ i \in DOMAIN s /\ Append(s, e)[i] = s[i]
                 \/ i = Len(s) + 1 /\ Append(s, e)[i] = e
  OBVIOUS

LEMMA TailAt ==
    ASSUME NEW S, NEW s \in Seq(S), s # << >>
    PROVE  /\ Tail(s) \in Seq(S) /\ Head(s) \in S /\ 1 \in DOMAIN s /\ s[1] = Head(s)
           /\ \A i \in DOMAIN Tail(s) : /\ i + 1 \in DOMAIN s /\ Tail(s)[i] = s[i + 1]
                                         /\ i \in Nat /\ i + 1 # 1
  OBVIOUS

LEMMA FirstIn ==
    ASSUME NEW x, NEW e \in First(x)
    PROVE  e \in pending /\ e.correl = x
  BY DEF First, Matches

LEMMA NewEntry ==
    ASSUME CtlTypes, NEW c \in Cmds, NEW x \in Correls, NEW to \in Conns \cup {Host, Child},
           Register(c, x, to)
    PROVE  /\ Entry(c, x, to) \in Entries
           /\ Entry(c, x, to).c = c /\ Entry(c, x, to).correl = x /\ Entry(c, x, to).to = to
           /\ pending' = pending \cup {Entry(c, x, to)}
           /\ pending' \subseteq Entries /\ regs' \in Nat /\ \A e \in pending' : e.at \in 1 .. regs'
  <1>1. regs \in Nat /\ regs + 1 \in Nat /\ regs' = regs + 1
    BY DEF CtlTypes, Register
  <1>2. Entry(c, x, to) \in Entries /\ Entry(c, x, to).at = regs + 1
    BY <1>1 DEF Entry, Entries
  <1>3. Entry(c, x, to).c = c /\ Entry(c, x, to).correl = x /\ Entry(c, x, to).to = to
    BY DEF Entry
  <1>4. pending' = pending \cup {Entry(c, x, to)}
    BY DEF Register
  <1>5. \A n \in 1 .. regs : n \in 1 .. regs'
    BY <1>1
  <1>6. \A e \in pending' : e.at \in 1 .. regs'
    BY <1>1, <1>2, <1>4, <1>5 DEF CtlTypes
  <1> QED
    BY <1>1, <1>2, <1>3, <1>4, <1>6 DEF CtlTypes

LEMMA EmitTypes ==
    ASSUME CtlTypes, NEW rs, Emit(rs)
    PROVE  /\ got' \in [Receipts -> Nat] /\ dangling' \in BOOLEAN
           /\ \A r \in Receipts : got'[r] = IF r \in rs THEN got[r] + 1 ELSE got[r]
  <1>1. got' = [r \in Receipts |-> IF r \in rs THEN got[r] + 1 ELSE got[r]]
    BY DEF Emit
  <1>2. \A r \in Receipts : got[r] \in Nat /\ got[r] + 1 \in Nat
    BY DEF CtlTypes
  <1>3. dangling' \in BOOLEAN
    BY DEF Emit
  <1> QED
    BY <1>1, <1>2, <1>3

(* A command that is sent. *)
LEMMA SentTypes ==
    ASSUME CtlTypes, NEW c \in Fresh, NEW x \in Choices, NEW who \in Conns \cup {Host},
           NEW s \in {"registered", "accepted"}, Sent(c, x, who, s)
    PROVE  /\ c \in Cmds /\ x \in Correls /\ cstate[c] = "new"
           /\ cstate' \in [Cmds -> {"new", "registered", "accepted", "rejected"}]
           /\ from' \in [Cmds -> Conns \cup {Host}] /\ correl' \in [Cmds -> Correls]
           /\ cstate'[c] = s /\ from'[c] = who /\ correl'[c] = x
           /\ \A d \in Cmds : d # c =>
                 cstate'[d] = cstate[d] /\ from'[d] = from[d] /\ correl'[d] = correl[d]
  <1>1. c \in Cmds /\ x \in Correls /\ cstate[c] = "new"
    BY DEF Fresh, Choices
  <1> QED
    BY <1>1 DEF CtlTypes, Sent

-----------------------------------------------------------------------------
(* Types and sinks, step by step *)

LEMMA SinkInit == Init => SinkInv
  <1> SUFFICES ASSUME Init PROVE SinkInv
    OBVIOUS
  <1> USE DEF Init
  <1>1. << >> \in Seq(Queued) /\ << >> \in Seq(Remote) /\ << >> \in Seq(Returned)
    OBVIOUS
  <1>2. got \in [Receipts -> Nat]
    OBVIOUS
  <1>3. correl \in [Cmds -> Correls]
    <2>1. (CHOOSE x \in Correls : TRUE) \in Correls
      BY ControlAssumption
    <2> QED
      BY <2>1
  <1>4. /\ conns \in [Conns -> {"none", "open", "closed"}]
        /\ cstate \in [Cmds -> {"new", "registered", "accepted", "rejected"}]
        /\ from \in [Cmds -> Conns \cup {Host}]
    OBVIOUS
  <1> QED
    BY <1>1, <1>2, <1>3, <1>4 DEF SinkInv, CtlTypes, Sinks

LEMMA HostRegisterTypes ==
    ASSUME SinkInv, HostRegister PROVE SinkInv'
  <1>1. PICK c \in Fresh, x \in Choices : Sent(c, x, Host, "registered") /\ Register(c, x, Host)
    BY DEF HostRegister
  <1>2. c \in Cmds /\ x \in Correls
    BY DEF Fresh, Choices
  <1>3. CtlTypes'
    BY <1>1, <1>2, SentTypes, NewEntry
    DEF SinkInv, CtlTypes, HostRegister, envVars, histVars
  <1>4. Sinks'
    BY <1>1, <1>2, NewEntry, ControlAssumption DEF SinkInv, Sinks, HostRegister, envVars, histVars
  <1> QED
    BY <1>3, <1>4 DEF SinkInv

LEMMA HostPushTypes ==
    ASSUME SinkInv, NEW c \in Cmds, HostPush(c) PROVE SinkInv'
  <1>1. [c |-> c, correl |-> correl[c], receipt |-> FALSE] \in Queued
    BY DEF SinkInv, CtlTypes, Queued
  <1>2. queue' \in Seq(Queued)
    BY <1>1, AppendAt DEF SinkInv, CtlTypes, HostPush
  <1>3. CtlTypes'
    BY <1>2 DEF SinkInv, CtlTypes, HostPush, envVars, histVars
  <1> QED
    BY <1>3 DEF SinkInv, Sinks, HostPush, envVars, histVars

LEMMA HostPushFailTypes ==
    ASSUME SinkInv, NEW c \in Cmds, HostPushFail(c) PROVE SinkInv'
  <1>1. pending' \subseteq pending
    BY DEF HostPushFail, Withdraw
  <1>2. CtlTypes'
    BY <1>1 DEF SinkInv, CtlTypes, HostPushFail, envVars, histVars
  <1> QED
    BY <1>1, <1>2 DEF SinkInv, Sinks, HostPushFail, envVars, histVars

LEMMA ConnOpenTypes ==
    ASSUME SinkInv, NEW k \in Conns, ConnOpen(k) PROVE SinkInv'
  <1>1. CtlTypes'
    BY DEF SinkInv, CtlTypes, ConnOpen, cmdVars, histVars
  <1>2. Sinks'
    BY DEF SinkInv, CtlTypes, Sinks, ConnOpen, cmdVars, histVars
  <1> QED
    BY <1>1, <1>2 DEF SinkInv

LEMMA ConnCloseTypes ==
    ASSUME SinkInv, NEW k \in Conns, ConnClose(k) PROVE SinkInv'
  <1>1. pending' \subseteq pending /\ \A e \in pending' : e.to # k
    BY DEF ConnClose
  <1>2. CtlTypes'
    BY <1>1 DEF SinkInv, CtlTypes, ConnClose, cmdVars, histVars
  <1>3. Sinks'
    BY <1>1 DEF SinkInv, CtlTypes, Sinks, ConnClose, cmdVars, histVars
  <1> QED
    BY <1>2, <1>3 DEF SinkInv

LEMMA ConnLocalTypes ==
    ASSUME SinkInv, NEW k \in Conns, ConnLocal(k) PROVE SinkInv'
  <1>1. PICK c \in Fresh, x \in Choices :
            /\ Sent(c, x, k, "accepted") /\ Register(c, x, k)
            /\ queue' = Append(queue, [c |-> c, correl |-> x, receipt |-> FALSE])
    BY DEF ConnLocal
  <1>2. c \in Cmds /\ x \in Correls
    BY DEF Fresh, Choices
  <1>3. queue' \in Seq(Queued)
    <2>1. [c |-> c, correl |-> x, receipt |-> FALSE] \in Queued
      BY <1>2 DEF Queued
    <2> QED
      BY <1>1, <2>1, AppendAt DEF SinkInv, CtlTypes
  <1>4. CtlTypes'
    BY <1>1, <1>2, <1>3, SentTypes, NewEntry
    DEF SinkInv, CtlTypes, ConnLocal, envVars, histVars
  <1>5. Sinks'
    BY <1>1, <1>2, NewEntry DEF SinkInv, Sinks, ConnLocal, envVars, histVars
  <1> QED
    BY <1>4, <1>5 DEF SinkInv

LEMMA ConnRemoteTypes ==
    ASSUME SinkInv, NEW k \in Conns, ConnRemote(k) PROVE SinkInv'
  <1>1. PICK c \in Fresh, x \in Choices :
            /\ Sent(c, x, k, "accepted") /\ Register(c, x, k)
            /\ down' = Append(down, [c |-> c, correl |-> x])
    BY DEF ConnRemote
  <1>2. c \in Cmds /\ x \in Correls
    BY DEF Fresh, Choices
  <1>3. down' \in Seq(Remote)
    <2>1. [c |-> c, correl |-> x] \in Remote
      BY <1>2 DEF Remote
    <2> QED
      BY <1>1, <2>1, AppendAt DEF SinkInv, CtlTypes
  <1>4. CtlTypes'
    BY <1>1, <1>2, <1>3, SentTypes, NewEntry DEF SinkInv, CtlTypes, ConnRemote, histVars
  <1>5. Sinks'
    BY <1>1, <1>2, NewEntry DEF SinkInv, Sinks, ConnRemote, histVars
  <1> QED
    BY <1>4, <1>5 DEF SinkInv

LEMMA ConnNoPathTypes ==
    ASSUME SinkInv, NEW k \in Conns, ConnNoPath(k) PROVE SinkInv'
  <1>1. PICK c \in Fresh, x \in Choices : Sent(c, x, k, "accepted") /\ Register(c, x, k)
    BY DEF ConnNoPath
  <1>2. c \in Cmds /\ x \in Correls
    BY DEF Fresh, Choices
  <1>3. CtlTypes'
    BY <1>1, <1>2, SentTypes, NewEntry
    DEF SinkInv, CtlTypes, ConnNoPath, envVars, histVars
  <1>4. Sinks'
    BY <1>1, <1>2, NewEntry DEF SinkInv, Sinks, ConnNoPath, envVars, histVars
  <1> QED
    BY <1>3, <1>4 DEF SinkInv

LEMMA ConnNoTargetTypes ==
    ASSUME SinkInv, NEW k \in Conns, ConnNoTarget(k) PROVE SinkInv'
  <1>1. PICK c \in Fresh, x \in Choices :
            Sent(c, x, k, "accepted") /\ Emit({Receipt(c, k, "not_found")})
    BY DEF ConnNoTarget
  <1>2. regs' \in Nat /\ \A e \in pending' : e.at \in 1 .. regs'
    <2>1. regs \in Nat /\ regs' = regs + 1 /\ pending' = pending
      BY DEF SinkInv, CtlTypes, ConnNoTarget
    <2>2. regs' \in Nat /\ \A n \in 1 .. regs : n \in 1 .. regs'
      BY <2>1
    <2> QED
      BY <2>1, <2>2 DEF SinkInv, CtlTypes
  <1>3. CtlTypes'
    BY <1>1, <1>2, SentTypes, EmitTypes DEF SinkInv, CtlTypes, ConnNoTarget, envVars
  <1>4. dangling' = dangling
    <2>1. Receipt(c, k, "not_found").to = k
      BY DEF Receipt
    <2> QED
      BY <1>1, <2>1 DEF Emit, ConnNoTarget, SinkInv, CtlTypes
  <1>5. Sinks'
    BY <1>4 DEF SinkInv, Sinks, ConnNoTarget, envVars
  <1> QED
    BY <1>3, <1>5 DEF SinkInv

LEMMA ChildAnswerTypes ==
    ASSUME SinkInv, ChildAnswer PROVE SinkInv'
  <1>1. /\ down' = Tail(down) /\ down # << >> /\ down \in Seq(Remote)
        /\ UNCHANGED <<pending, regs, queue, conns, alive, cmdVars, pc, histVars>>
    BY DEF ChildAnswer, SinkInv, CtlTypes
  <1>2. down' \in Seq(Remote) /\ Head(down) \in Remote
    BY <1>1, TailAt
  <1>3. PICK long \in {FALSE, LongReceipts} :
            up' = Append(up, [c |-> Head(down).c, correl |-> Head(down).correl, long |-> long])
    BY DEF ChildAnswer
  <1>4. up' \in Seq(Returned)
    <2>1. [c |-> Head(down).c, correl |-> Head(down).correl, long |-> long] \in Returned
      BY <1>2, ControlAssumption DEF Remote, Returned
    <2> QED
      BY <1>3, <2>1, AppendAt DEF SinkInv, CtlTypes
  <1>5. CtlTypes'
    BY <1>1, <1>2, <1>4 DEF SinkInv, CtlTypes, cmdVars, histVars
  <1> QED
    BY <1>1, <1>5 DEF SinkInv, Sinks, histVars

LEMMA ChildDieTypes ==
    ASSUME SinkInv, ChildDie PROVE SinkInv'
  <1>1. << >> \in Seq(Remote) /\ << >> \in Seq(Returned)
    OBVIOUS
  <1>2. CtlTypes'
    BY <1>1 DEF ChildDie, SinkInv, CtlTypes, cmdVars, histVars
  <1> QED
    BY <1>2 DEF ChildDie, SinkInv, Sinks, cmdVars, histVars

LEMMA UpReceiptTypes ==
    ASSUME SinkInv, UpReceipt PROVE SinkInv'
  <1>1. PICK r \in Returned : r = Head(up) /\ up' \in Seq(Returned)
    BY TailAt DEF UpReceipt, SinkInv, CtlTypes
  <1>2. PICK to \in ReplyTo(r.correl) : Emit({Receipt(r.c, to, "result")})
    BY <1>1 DEF UpReceipt
  <1>3. /\ pending' \subseteq pending /\ UNCHANGED <<regs, queue, conns, alive, down, cmdVars>>
        /\ UNCHANGED <<executed, unsaid, lateExec>> /\ pc' = "more"
        /\ arrived' = IF InTime(r.c) THEN arrived \cup {r.c} ELSE arrived
    BY <1>1 DEF UpReceipt, Withdraw
  <1>4. r.c \in Cmds
    BY DEF Returned
  <1>5. CtlTypes'
    BY <1>1, <1>2, <1>3, <1>4, EmitTypes DEF SinkInv, CtlTypes, cmdVars
  <1>6. dangling' = dangling
    <2>1. Receipt(r.c, to, "result").to = to
      BY DEF Receipt
    <2>2. to = Host \/ \E e \in pending : e.to = to
      BY FirstIn DEF ReplyTo
    <2>3. to \in Conns => conns[to] = "open"
      BY <2>2, ControlAssumption DEF SinkInv, Sinks
    <2> QED
      BY <1>2, <2>1, <2>3 DEF Emit, SinkInv, CtlTypes
  <1> QED
    BY <1>3, <1>5, <1>6 DEF SinkInv, Sinks

LEMMA UpLongReceiptTypes ==
    ASSUME SinkInv, UpLongReceipt PROVE SinkInv'
  <1>1. PICK r \in Returned : r = Head(up) /\ up' \in Seq(Returned)
    BY TailAt DEF UpLongReceipt, SinkInv, CtlTypes
  <1>2. /\ Register(r.c, r.correl, Child)
        /\ queue' = Append(queue, [c |-> r.c, correl |-> r.correl, receipt |-> TRUE])
        /\ UNCHANGED <<conns, alive, down, cmdVars, histVars>> /\ pc' = "more"
    BY <1>1 DEF UpLongReceipt
  <1>3. r.c \in Cmds /\ r.correl \in Correls
    BY DEF Returned
  <1>4. queue' \in Seq(Queued)
    <2>1. [c |-> r.c, correl |-> r.correl, receipt |-> TRUE] \in Queued
      BY <1>3 DEF Queued
    <2> QED
      BY <1>2, <2>1, AppendAt DEF SinkInv, CtlTypes
  <1>5. CtlTypes'
    BY <1>1, <1>2, <1>3, <1>4, NewEntry DEF SinkInv, CtlTypes, cmdVars, histVars
  <1>6. Sinks'
    BY <1>2, <1>3, NewEntry, ControlAssumption DEF SinkInv, Sinks, histVars
  <1> QED
    BY <1>5, <1>6 DEF SinkInv

LEMMA DispatchSkipTypes ==
    ASSUME SinkInv, DispatchSkip PROVE SinkInv'
  <1>1. queue' \in Seq(Queued)
    BY TailAt DEF DispatchSkip, SinkInv, CtlTypes
  <1>2. CtlTypes'
    BY <1>1 DEF DispatchSkip, SinkInv, CtlTypes, envVars, cmdVars, histVars
  <1> QED
    BY <1>2 DEF DispatchSkip, SinkInv, Sinks, envVars, histVars

(* An answer through an entry of the table goes where there is someone. *)
LEMMA EmitToEntry ==
    ASSUME SinkInv, NEW e \in pending, NEW c, NEW what, Emit({Receipt(c, e.to, what)})
    PROVE  dangling' = dangling
  <1>1. Receipt(c, e.to, what).to = e.to
    BY DEF Receipt
  <1> QED
    BY <1>1 DEF Emit, SinkInv, Sinks, CtlTypes

LEMMA DispatchExpiredTypes ==
    ASSUME SinkInv, DispatchExpired PROVE SinkInv'
  <1>1. queue' \in Seq(Queued)
    BY TailAt DEF DispatchExpired, SinkInv, CtlTypes
  <1>2. PICK e \in First(Head(queue).correl) :
            Emit({Receipt(e.c, e.to, "timeout")}) /\ pending' = pending \ {e}
    BY DEF DispatchExpired
  <1>3. CtlTypes'
    BY <1>1, <1>2, EmitTypes DEF DispatchExpired, SinkInv, CtlTypes, envVars, cmdVars
  <1>4. dangling' = dangling
    BY <1>2, FirstIn, EmitToEntry
  <1> QED
    BY <1>2, <1>3, <1>4 DEF DispatchExpired, SinkInv, Sinks, envVars

(* What a command that runs does to the receipts: it is answered, or nothing is said. *)
Said(m, e) ==
    /\ Emit({Receipt(m.c, e.to, IF m.receipt THEN "unknown_cmd" ELSE "result")})
    /\ UNCHANGED unsaid
Unsaid(m) == ~m.receipt /\ unsaid' = unsaid \cup {m.c} /\ UNCHANGED <<got, dangling>>

LEMMA DispatchRunTypes ==
    ASSUME SinkInv, DispatchRun PROVE SinkInv'
  <1>1. PICK m \in Queued : m = Head(queue) /\ queue' \in Seq(Queued)
    BY TailAt DEF DispatchRun, SinkInv, CtlTypes
  <1>2. PICK e \in First(m.correl) :
            /\ executed' = IF m.receipt THEN executed ELSE executed \cup {m.c}
            /\ lateExec' = (lateExec \/ (~m.receipt /\ e.c # m.c))
            /\ Said(m, e) \/ Unsaid(m)
            /\ pending' = pending \ {e}
    BY <1>1 DEF DispatchRun, Said, Unsaid
  <1>3. executed' \subseteq Cmds /\ unsaid' \subseteq executed'
    BY <1>2 DEF Queued, SinkInv, CtlTypes, Said, Unsaid
  <1>4. lateExec' \in BOOLEAN
    BY <1>2
  <1>5. got' \in [Receipts -> Nat] /\ dangling' = dangling
    <2>1. CASE Said(m, e)
      <3>1. Emit({Receipt(m.c, e.to, IF m.receipt THEN "unknown_cmd" ELSE "result")})
        BY <2>1 DEF Said
      <3>2. got' \in [Receipts -> Nat]
        BY <3>1, EmitTypes DEF SinkInv
      <3>3. e \in pending
        BY <1>2, FirstIn
      <3> QED
        BY <3>1, <3>2, <3>3, EmitToEntry
    <2>2. CASE Unsaid(m)
      BY <2>2 DEF Unsaid, SinkInv, CtlTypes
    <2> QED
      BY <1>2, <2>1, <2>2
  <1>6. CtlTypes'
    BY <1>1, <1>2, <1>3, <1>4, <1>5 DEF DispatchRun, SinkInv, CtlTypes, envVars, cmdVars
  <1> QED
    BY <1>2, <1>5, <1>6 DEF DispatchRun, SinkInv, Sinks, envVars

LEMMA ReapTypes ==
    ASSUME SinkInv, Reap PROVE SinkInv'
  <1>1. Emit({Receipt(e.c, e.to, "timeout") : e \in pending \ Live}) /\ pending' \subseteq pending
    BY DEF Reap, Live
  <1>2. CtlTypes'
    BY <1>1, EmitTypes DEF Reap, SinkInv, CtlTypes, envVars, cmdVars
  <1>3. dangling' = dangling
    <2>1. \A e \in pending : Receipt(e.c, e.to, "timeout").to = e.to
      BY DEF Receipt
    <2> QED
      BY <1>1, <2>1 DEF Emit, SinkInv, Sinks, CtlTypes
  <1> QED
    BY <1>1, <1>2, <1>3 DEF Reap, SinkInv, Sinks, envVars

LEMMA OtherEventTypes ==
    ASSUME SinkInv, OtherEvent PROVE SinkInv'
  BY DEF OtherEvent, SinkInv, CtlTypes, Sinks, envVars, cmdVars, histVars

(* What the entries are after the deadline of one has passed. *)
LEMMA ExpireEntries ==
    ASSUME CtlTypes, Expire
    PROVE  /\ pending' \subseteq Entries
           /\ \A e \in pending' : \E f \in pending :
                 e.c = f.c /\ e.correl = f.correl /\ e.to = f.to /\ e.at = f.at
           /\ \E x \in pending : \E y \in pending' :
                 /\ pending' = (pending \ {x}) \cup {y}
                 /\ y.c = x.c /\ y.correl = x.correl /\ y.to = x.to
  <1>1. PICK x \in pending : pending' = (pending \ {x}) \cup {[x EXCEPT !.expired = TRUE]}
    BY DEF Expire, Live
  <1>2. PICK y \in pending' : y = [x EXCEPT !.expired = TRUE]
                              /\ pending' = (pending \ {x}) \cup {y}
    BY <1>1
  <1>3. x \in Entries
    BY DEF CtlTypes
  <1>4. y \in Entries /\ y.c = x.c /\ y.correl = x.correl /\ y.to = x.to /\ y.at = x.at
    BY <1>3, <1>2 DEF Entries
  <1> QED
    BY <1>4, <1>2 DEF CtlTypes

LEMMA ExpireTypes ==
    ASSUME SinkInv, Expire PROVE SinkInv'
  <1>1. CtlTypes'
    BY ExpireEntries DEF Expire, SinkInv, CtlTypes, envVars, cmdVars, histVars
  <1>2. Sinks'
    BY ExpireEntries DEF Expire, SinkInv, Sinks, envVars, histVars
  <1> QED
    BY <1>1, <1>2 DEF SinkInv

LEMMA TeardownTypes ==
    ASSUME SinkInv, Teardown PROVE SinkInv'
  <1>1. << >> \in Seq(Queued)
    OBVIOUS
  <1>2. conns' \in [Conns -> {"none", "open", "closed"}]
    BY DEF Teardown, SinkInv, CtlTypes
  <1>3. CtlTypes'
    BY <1>1, <1>2 DEF Teardown, SinkInv, CtlTypes, cmdVars, histVars
  <1> QED
    BY <1>3 DEF Teardown, SinkInv, Sinks, histVars

LEMMA StutterTypes ==
    ASSUME SinkInv, UNCHANGED vars PROVE SinkInv'
  BY DEF vars, SinkInv, CtlTypes, Sinks, envVars, cmdVars, histVars

LEMMA NextTypes == SinkInv /\ [Next]_vars => SinkInv'
  BY HostRegisterTypes, HostPushTypes, HostPushFailTypes, ConnOpenTypes, ConnCloseTypes,
     ConnLocalTypes, ConnRemoteTypes, ConnNoPathTypes, ConnNoTargetTypes, ChildAnswerTypes,
     ChildDieTypes, UpReceiptTypes, UpLongReceiptTypes, DispatchSkipTypes,
     DispatchExpiredTypes, DispatchRunTypes, ReapTypes, OtherEventTypes, ExpireTypes,
     TeardownTypes, StutterTypes DEF Next, Dispatch, Closed

(* The sinks and the types hold in every state, whatever correls are used. *)
THEOREM SinkInvHolds == Spec => []SinkInv
  BY SinkInit, NextTypes, PTL DEF Spec

(* No receipt is written to a connection that has closed, even if controllers  *)
(* use a correl for several commands (qz_ctl_conn_drop).                        *)
THEOREM ReceiptsFindTheirConnection == Spec => []NoDanglingSink
  <1>1. SinkInv => NoDanglingSink
    BY DEF SinkInv, Sinks, NoDanglingSink
  <1> QED
    BY <1>1, SinkInvHolds, PTL

-----------------------------------------------------------------------------
(* What keeps the parts of the invariant *)

LEMMA OwnEntry ==
    ASSUME CtlTypes, Keys, NEW c \in Cmds, cstate[c] # "new", NEW e \in pending,
           e.correl = correl[c]
    PROVE  e.c = c
  BY DEF CtlTypes, Entries, Keys

(* Every entry of p has its like in the table, and everything under way was so *)
(* before.                                                                    *)
LEMMA KeysSame ==
    ASSUME Keys, UNCHANGED <<cmdVars, lateExec>>,
           \A e \in pending' : \E f \in pending :
              e.c = f.c /\ e.correl = f.correl /\ e.to = f.to,
           \A i \in DOMAIN queue' : Carried(queue'[i]),
           \A i \in DOMAIN down' : Carried(down'[i]),
           \A i \in DOMAIN up' : Carried(up'[i])
    PROVE  Keys'
  BY DEF Keys, cmdVars, Carried

LEMMA TokensSame ==
    ASSUME Tokens, UNCHANGED <<down, up>>,
           \A e \in pending' : e.to = Child => \E f \in pending : e.c = f.c /\ f.to = Child
    PROVE  Tokens'
  BY DEF Tokens

LEMMA AnswersSame ==
    ASSUME Answers, UNCHANGED <<cmdVars, got>>,
           \A e \in pending' : \E f \in pending : e.c = f.c /\ e.to = f.to
    PROVE  Answers'
  BY DEF Answers, cmdVars

LEMMA TimelySame ==
    ASSUME Timely, UNCHANGED <<cmdVars, got, arrived>>,
           \A e \in pending' : \E f \in pending : e.c = f.c /\ e.to = f.to
    PROVE  Timely'
  BY DEF Timely, cmdVars

LEMMA SingleSame ==
    ASSUME Single, pending' \subseteq pending
    PROVE  Single'
  BY DEF Single

LEMMA CarriedTypes ==
    ASSUME CtlTypes
    PROVE  /\ \A i \in DOMAIN queue : queue[i].c \in Cmds
           /\ \A i \in DOMAIN down : down[i].c \in Cmds
           /\ \A i \in DOMAIN up : up[i].c \in Cmds
  <1>1. /\ \A i \in DOMAIN queue : queue[i] \in Queued
        /\ \A i \in DOMAIN down : down[i] \in Remote
        /\ \A i \in DOMAIN up : up[i] \in Returned
    BY DEF CtlTypes
  <1>2. (\A m \in Queued : m.c \in Cmds) /\ (\A m \in Remote : m.c \in Cmds)
        /\ (\A m \in Returned : m.c \in Cmds)
    BY DEF Queued, Remote, Returned
  <1> QED
    BY <1>1, <1>2

LEMMA FirstIsOnly ==
    ASSUME CtlTypes, Keys, Single, NEW c \in Cmds, cstate[c] # "new",
           \A e \in pending : e.c = c => e.to # Child,
           NEW e \in pending, e.c = c
    PROVE  e \in First(correl[c])
  <1>1. e.correl = correl[c]
    BY DEF Keys
  <1>2. \A f \in Matches(correl[c]) : f = e
    BY OwnEntry DEF Matches, Single
  <1>3. e.at <= e.at
    BY DEF CtlTypes, Entries
  <1> QED
    BY <1>1, <1>2, <1>3 DEF First, Matches

(* Nobody knows of a command before it is sent. *)
LEMMA FreshIsUnknown ==
    ASSUME CtlInv, NEW c \in Fresh
    PROVE  /\ c \in Cmds /\ cstate[c] = "new"
           /\ \A e \in pending : e.c # c
           /\ \A i \in DOMAIN queue : queue[i].c # c
           /\ \A i \in DOMAIN down : down[i].c # c
           /\ \A i \in DOMAIN up : up[i].c # c
           /\ \A r \in Receipts : got[r] > 0 => r.c # c
           /\ c \notin arrived
  BY DEF Fresh, CtlInv, Keys, Carried, Answers, Timely

LEMMA KeysSend ==
    ASSUME UniqueCorrel, CtlInv, NEW c \in Fresh, NEW x \in Choices,
           NEW who \in Conns \cup {Host}, NEW s \in {"registered", "accepted"},
           Sent(c, x, who, s), UNCHANGED <<lateExec, up>>,
           \A e \in pending' : e \in pending \/ (e.c = c /\ e.correl = x /\ e.to = who),
           \A i \in DOMAIN queue' :
              \/ \E j \in DOMAIN queue : queue'[i] = queue[j]
              \/ s = "accepted" /\ queue'[i].c = c /\ queue'[i].correl = x,
           \A i \in DOMAIN down' :
              \/ \E j \in DOMAIN down : down'[i] = down[j]
              \/ s = "accepted" /\ down'[i].c = c /\ down'[i].correl = x
    PROVE  Keys'
  <1>1. CtlTypes /\ Keys
    BY DEF CtlInv, SinkInv
  <1>2. /\ c \in Cmds /\ cstate'[c] = s /\ from'[c] = who /\ correl'[c] = x
        /\ \A d \in Cmds : d # c =>
              cstate'[d] = cstate[d] /\ from'[d] = from[d] /\ correl'[d] = correl[d]
    BY <1>1, SentTypes
  <1>3. \A d \in Cmds : cstate[d] # "new" => correl[d] # x
    BY DEF Choices, Used
  <1>4. \A d, e \in Cmds :
           cstate'[d] # "new" /\ cstate'[e] # "new" /\ correl'[d] = correl'[e] => d = e
    BY <1>1, <1>2, <1>3 DEF Keys
  <1>5. ASSUME NEW e \in pending'
        PROVE  /\ e.correl = correl'[e.c] /\ e.to \in {from'[e.c], Child}
               /\ cstate'[e.c] = "accepted" \/ (cstate'[e.c] = "registered" /\ e.to # Child)
    <2>1. CASE e \in pending
      <3>1. e.c \in Cmds /\ e.c # c
        BY <1>1, <2>1, FreshIsUnknown DEF CtlTypes, Entries
      <3> QED
        BY <1>1, <1>2, <2>1, <3>1 DEF Keys
    <2>2. CASE e.c = c /\ e.correl = x /\ e.to = who
      <3>1. who # Child
        BY ControlAssumption DEF Host, Child
      <3> QED
        BY <1>2, <2>2, <3>1
    <2> QED
      BY <2>1, <2>2
  <1>6. /\ \A i \in DOMAIN queue : queue[i].c \in Cmds /\ queue[i].c # c
        /\ \A i \in DOMAIN down : down[i].c \in Cmds /\ down[i].c # c
        /\ \A i \in DOMAIN up : up[i].c \in Cmds /\ up[i].c # c
    BY <1>1, CarriedTypes, FreshIsUnknown
  <1>7. \A i \in DOMAIN queue' : queue'[i].correl = correl'[queue'[i].c]
                                  /\ cstate'[queue'[i].c] = "accepted"
    BY <1>1, <1>2, <1>6 DEF Keys, Carried
  <1>8. \A i \in DOMAIN down' : down'[i].correl = correl'[down'[i].c]
                                 /\ cstate'[down'[i].c] = "accepted"
    BY <1>1, <1>2, <1>6 DEF Keys, Carried
  <1>9. \A i \in DOMAIN up' : up'[i].correl = correl'[up'[i].c]
                               /\ cstate'[up'[i].c] = "accepted"
    BY <1>1, <1>2, <1>6 DEF Keys, Carried
  <1> QED
    BY <1>1, <1>4, <1>5, <1>7, <1>8, <1>9 DEF Keys, Carried

LEMMA SingleSend ==
    ASSUME CtlInv, NEW c \in Fresh, NEW y, y.c = c, pending' \subseteq pending \cup {y}
    PROVE  Single'
  BY FreshIsUnknown DEF CtlInv, Single

LEMMA TokensSend ==
    ASSUME CtlInv, NEW c \in Fresh, UNCHANGED up,
           \A e \in pending' : e \in pending \/ e.to # Child,
           down' = down
    PROVE  Tokens'
  BY DEF CtlInv, Tokens

LEMMA AnswersSend ==
    ASSUME CtlInv, NEW c \in Fresh, NEW x \in Choices,
           NEW who \in Conns \cup {Host}, NEW s \in {"registered", "accepted"},
           Sent(c, x, who, s), UNCHANGED got,
           \A e \in pending' : e \in pending \/ e.c = c
    PROVE  Answers'
  <1>1. \A d \in Cmds : d # c => cstate'[d] = cstate[d] /\ from'[d] = from[d]
    BY SentTypes DEF CtlInv, SinkInv
  <1>2. \A r \in Receipts : r.c \in Cmds /\ (got[r] > 0 => r.c # c)
    BY FreshIsUnknown DEF Receipts
  <1> QED
    BY <1>1, <1>2 DEF CtlInv, Answers

LEMMA TimelySend ==
    ASSUME CtlInv, NEW c \in Fresh, NEW x \in Choices,
           NEW who \in Conns \cup {Host}, NEW s \in {"registered", "accepted"},
           Sent(c, x, who, s), UNCHANGED arrived,
           \A r \in Receipts : got'[r] > 0 => got[r] > 0 \/ r.what # "timeout",
           \A e \in pending' : e \in pending \/ e.c = c
    PROVE  Timely'
  <1>1. \A d \in Cmds : d # c => cstate'[d] = cstate[d]
    BY SentTypes DEF CtlInv, SinkInv
  <1>2. \A r \in Receipts : r.c \in Cmds /\ (got[r] > 0 => r.c # c)
    BY FreshIsUnknown DEF Receipts
  <1>3. c \notin arrived /\ arrived \subseteq Cmds
    BY FreshIsUnknown DEF CtlInv, SinkInv, CtlTypes
  <1> QED
    BY <1>1, <1>2, <1>3 DEF CtlInv, Timely

(* The receipt of an entry that leaves the table is the only one of its kind. *)
LEMMA AnswersGive ==
    ASSUME CtlTypes, Keys, Single, Answers, UNCHANGED cmdVars, NEW e \in pending,
           NEW what \in {"result", "timeout", "not_found", "unknown_cmd"},
           pending' \subseteq pending \ {e}, Emit({Receipt(e.c, e.to, what)})
    PROVE  Answers'
  <1>1. PICK R \in Receipts : R = Receipt(e.c, e.to, what)
    BY DEF CtlTypes, Entries, Receipts, Receipt
  <1>2. R.c = e.c /\ R.to = e.to
    BY <1>1 DEF Receipt
  <1>3. \A r \in Receipts : got[r] \in Nat /\ got'[r] = IF r = R THEN got[r] + 1 ELSE got[r]
    BY <1>1, EmitTypes DEF CtlTypes
  <1>4. e.to \in Conns => \A r \in Receipts : r.c = e.c /\ r.to = e.to => got[r] = 0
    BY <1>3 DEF Answers
  <1>5. \A f \in pending' : f \in pending /\ ~(f.c = e.c /\ f.to = e.to)
    BY DEF Single
  <1>6. cstate[e.c] # "new" /\ e.to \in {from[e.c], Child}
    BY DEF Keys
  <1>7. ASSUME NEW r \in Receipts, got'[r] > 0
        PROVE  /\ cstate[r.c] # "new" /\ r.to \in {from[r.c], Host, Child}
               /\ r.to \in Conns =>
                     /\ got'[r] = 1
                     /\ \A s \in Receipts \ {r} : s.c = r.c /\ s.to = r.to => got'[s] = 0
                     /\ \A f \in pending' : f.c = r.c => f.to # r.to
    <2>1. CASE r = R
      <3>1. e.to \in Conns => got'[r] = 1
        BY <1>2, <1>3, <1>4, <2>1
      <3>2. e.to \in Conns => \A s \in Receipts \ {r} : s.c = r.c /\ s.to = r.to => got'[s] = 0
        BY <1>2, <1>3, <1>4, <2>1
      <3> QED
        BY <1>2, <1>5, <1>6, <2>1, <3>1, <3>2
    <2>2. CASE r # R
      <3>1. got[r] > 0 /\ got'[r] = got[r]
        BY <1>3, <1>7, <2>2
      <3>2. r.to \in Conns => ~(r.c = e.c /\ r.to = e.to)
        BY <1>4, <3>1
      <3>3. r.to \in Conns => \A s \in Receipts \ {r} : s.c = r.c /\ s.to = r.to => got'[s] = 0
        BY <1>2, <1>3, <3>1, <3>2 DEF Answers
      <3> QED
        BY <1>5, <3>1, <3>3 DEF Answers
    <2> QED
      BY <2>1, <2>2
  <1> QED
    BY <1>7 DEF Answers, cmdVars

(* A receipt without an entry falls to the host. *)
LEMMA AnswersHost ==
    ASSUME CtlTypes, Answers, UNCHANGED <<cmdVars, pending>>, NEW c \in Cmds,
           cstate[c] # "new", Emit({Receipt(c, Host, "result")})
    PROVE  Answers'
  <1>1. PICK R \in Receipts : R = Receipt(c, Host, "result")
    BY DEF Receipts, Receipt
  <1>2. R.c = c /\ R.to = Host /\ Host \notin Conns
    BY <1>1, ControlAssumption DEF Receipt
  <1>3. \A r \in Receipts : got[r] \in Nat /\ got'[r] = IF r = R THEN got[r] + 1 ELSE got[r]
    BY <1>1, EmitTypes DEF CtlTypes
  <1>4. \A r \in Receipts : r # R => got'[r] = got[r]
    BY <1>3
  <1>5. \A r \in Receipts : r.to \in Conns => r # R
    BY <1>2
  <1>6. ASSUME NEW r \in Receipts, got'[r] > 0
        PROVE  /\ cstate[r.c] # "new" /\ r.to \in {from[r.c], Host, Child}
               /\ r.to \in Conns =>
                     /\ got'[r] = 1
                     /\ \A s \in Receipts \ {r} : s.c = r.c /\ s.to = r.to => got'[s] = 0
                     /\ \A f \in pending : f.c = r.c => f.to # r.to
    <2>1. CASE r = R
      BY <1>2, <2>1
    <2>2. CASE r # R
      BY <1>2, <1>4, <1>5, <1>6, <2>2 DEF Answers
    <2> QED
      BY <2>1, <2>2
  <1> QED
    BY <1>6 DEF Answers, cmdVars

LEMMA TimelyGive ==
    ASSUME CtlTypes, Keys, Single, Timely, UNCHANGED <<cmdVars, arrived>>, NEW e \in pending,
           NEW c, NEW what, c = e.c,
           pending' \subseteq pending \ {e}, Emit({Receipt(c, e.to, what)})
    PROVE  Timely'
  <1>1. Receipt(c, e.to, what).c = e.c /\ Receipt(c, e.to, what).to = e.to
    BY DEF Receipt
  <1>2. \A r \in Receipts : got'[r] > 0 => got[r] > 0 \/ (r.c = e.c /\ r.to = e.to)
    BY <1>1, EmitTypes
  <1>3. e.to # Child => e.c \notin arrived /\ \A f \in pending' : f.c = e.c => f.to = Child
    BY DEF Timely, Single
  <1> QED
    BY <1>2, <1>3 DEF Timely, cmdVars
-----------------------------------------------------------------------------
(* The steps *)

LEMMA PairInit == Init => CtlInv
  <1> SUFFICES ASSUME Init PROVE CtlInv
    OBVIOUS
  <1>1. SinkInv
    BY SinkInit
  <1>2. \A r \in Receipts : ~(got[r] > 0)
    BY DEF Init
  <1>3. Keys /\ Single /\ Tokens
    BY DEF Init, Keys, Single, Tokens
  <1>4. Answers /\ Timely
    BY <1>2 DEF Init, Answers, Timely
  <1> QED
    BY <1>1, <1>3, <1>4 DEF CtlInv

LEMMA HostRegisterKeeps ==
    ASSUME UniqueCorrel, CtlInv, HostRegister PROVE CtlInv'
  <1>1. PICK c \in Fresh, x \in Choices : Sent(c, x, Host, "registered") /\ Register(c, x, Host)
    BY DEF HostRegister
  <1>2. c \in Cmds /\ x \in Correls
    BY DEF Fresh, Choices
  <1>3. PICK y : y = Entry(c, x, Host) /\ y.c = c /\ y.correl = x /\ y.to = Host
                 /\ pending' = pending \cup {y} /\ Host # Child
    BY <1>1, <1>2, NewEntry DEF CtlInv, SinkInv, Host, Child
  <1>4. SinkInv'
    BY HostRegisterTypes DEF CtlInv
  <1>5. UNCHANGED <<queue, down, up, got, arrived, lateExec>>
    BY DEF HostRegister, envVars, histVars
  <1>6. Keys'
    BY <1>1, <1>3, <1>5, KeysSend
  <1>7. Single' /\ Tokens'
    BY <1>3, <1>5, SingleSend, TokensSend
  <1>8. Answers' /\ Timely'
    BY <1>1, <1>3, <1>5, AnswersSend, TimelySend
  <1> QED
    BY <1>4, <1>6, <1>7, <1>8 DEF CtlInv

LEMMA HostPushKeeps ==
    ASSUME CtlInv, NEW c \in Cmds, HostPush(c) PROVE CtlInv'
  <1>1. SinkInv'
    BY HostPushTypes DEF CtlInv
  <1>2. /\ cstate[c] = "registered" /\ cstate'[c] = "accepted"
        /\ \A d \in Cmds : d # c => cstate'[d] = cstate[d]
        /\ UNCHANGED <<pending, down, up, from, correl, got, arrived, lateExec>>
    BY DEF HostPush, CtlInv, SinkInv, CtlTypes, envVars, histVars
  <1>3. PICK m \in Queued : m = [c |-> c, correl |-> correl[c], receipt |-> FALSE]
                            /\ queue' = Append(queue, m)
    BY DEF HostPush, CtlInv, SinkInv, CtlTypes, Queued
  <1>4. m.c = c /\ m.correl = correl[c]
    BY <1>3
  <1>5. \A i \in DOMAIN queue' : (i \in DOMAIN queue /\ queue'[i] = queue[i]) \/ queue'[i] = m
    BY <1>3, AppendAt DEF CtlInv, SinkInv, CtlTypes
  <1>6. /\ \A i \in DOMAIN queue : queue[i].c \in Cmds
        /\ \A i \in DOMAIN down : down[i].c \in Cmds
        /\ \A i \in DOMAIN up : up[i].c \in Cmds
    BY CarriedTypes DEF CtlInv, SinkInv
  <1>7. Keys'
    <2>1. \A d, e \in Cmds :
             cstate'[d] # "new" /\ cstate'[e] # "new" /\ correl'[d] = correl'[e] => d = e
      BY <1>2 DEF CtlInv, Keys
    <2>2. \A e \in pending' :
             /\ e.correl = correl'[e.c] /\ e.to \in {from'[e.c], Child}
             /\ cstate'[e.c] = "accepted" \/ (cstate'[e.c] = "registered" /\ e.to # Child)
      BY <1>2 DEF CtlInv, SinkInv, CtlTypes, Entries, Keys
    <2>3. \A i \in DOMAIN queue' : queue'[i].correl = correl'[queue'[i].c]
                                    /\ cstate'[queue'[i].c] = "accepted"
      BY <1>2, <1>4, <1>5, <1>6 DEF CtlInv, Keys, Carried
    <2>4. /\ \A i \in DOMAIN down' : down'[i].correl = correl'[down'[i].c]
                                      /\ cstate'[down'[i].c] = "accepted"
          /\ \A i \in DOMAIN up' : up'[i].correl = correl'[up'[i].c]
                                    /\ cstate'[up'[i].c] = "accepted"
      BY <1>2, <1>6 DEF CtlInv, Keys, Carried
    <2> QED
      BY <1>2, <2>1, <2>2, <2>3, <2>4 DEF CtlInv, Keys, Carried
  <1>8. Single' /\ Tokens'
    BY <1>2 DEF CtlInv, Single, Tokens
  <1>9. \A d \in Cmds : cstate[d] # "new" => cstate'[d] # "new"
    BY <1>2
  <1>10. Answers'
    <2>1. \A r \in Receipts : r.c \in Cmds
      BY DEF Receipts
    <2> QED
      BY <1>2, <1>9, <2>1 DEF CtlInv, Answers
  <1>11. Timely'
    BY <1>2, <1>9 DEF CtlInv, SinkInv, CtlTypes, Timely
  <1> QED
    BY <1>1, <1>7, <1>8, <1>10, <1>11 DEF CtlInv

LEMMA HostPushFailKeeps ==
    ASSUME CtlInv, NEW c \in Cmds, HostPushFail(c) PROVE CtlInv'
  <1>1. SinkInv'
    BY HostPushFailTypes DEF CtlInv
  <1>2. /\ cstate[c] = "registered" /\ cstate'[c] = "rejected"
        /\ \A d \in Cmds : d # c => cstate'[d] = cstate[d]
        /\ UNCHANGED <<queue, down, up, from, correl, got, arrived, lateExec>>
        /\ pending' = pending \ First(correl[c])
    BY DEF HostPushFail, Withdraw, CtlInv, SinkInv, CtlTypes, envVars, histVars
  <1>3. \A e \in pending' : e \in pending /\ e.c # c /\ e.c \in Cmds
    <2>1. \A e \in pending : e.c = c => e.to # Child
      BY <1>2 DEF CtlInv, Keys
    <2>2. \A e \in pending : e.c = c => e \in First(correl[c])
      BY <1>2, <2>1, FirstIsOnly DEF CtlInv, SinkInv
    <2> QED
      BY <1>2, <2>2 DEF CtlInv, SinkInv, CtlTypes, Entries
  <1>4. /\ \A i \in DOMAIN queue : queue[i].c \in Cmds \ {c}
        /\ \A i \in DOMAIN down : down[i].c \in Cmds \ {c}
        /\ \A i \in DOMAIN up : up[i].c \in Cmds \ {c}
    BY <1>2, CarriedTypes DEF CtlInv, SinkInv, Keys, Carried
  <1>5. Keys'
    <2>1. \A d, e \in Cmds :
             cstate'[d] # "new" /\ cstate'[e] # "new" /\ correl'[d] = correl'[e] => d = e
      BY <1>2 DEF CtlInv, Keys
    <2>2. \A e \in pending' :
             /\ e.correl = correl'[e.c] /\ e.to \in {from'[e.c], Child}
             /\ cstate'[e.c] = "accepted" \/ (cstate'[e.c] = "registered" /\ e.to # Child)
      BY <1>2, <1>3 DEF CtlInv, Keys
    <2>3. /\ \A i \in DOMAIN queue' : queue'[i].correl = correl'[queue'[i].c]
                                       /\ cstate'[queue'[i].c] = "accepted"
          /\ \A i \in DOMAIN down' : down'[i].correl = correl'[down'[i].c]
                                      /\ cstate'[down'[i].c] = "accepted"
          /\ \A i \in DOMAIN up' : up'[i].correl = correl'[up'[i].c]
                                    /\ cstate'[up'[i].c] = "accepted"
      BY <1>2, <1>4 DEF CtlInv, Keys, Carried
    <2> QED
      BY <1>2, <2>1, <2>2, <2>3 DEF CtlInv, Keys, Carried
  <1>6. Single' /\ Tokens'
    BY <1>2, <1>3 DEF CtlInv, Single, Tokens
  <1>7. \A d \in Cmds : cstate[d] # "new" => cstate'[d] # "new"
    BY <1>2
  <1>8. Answers'
    <2>1. \A r \in Receipts : r.c \in Cmds
      BY DEF Receipts
    <2> QED
      BY <1>2, <1>3, <1>7, <2>1 DEF CtlInv, Answers
  <1>9. Timely'
    BY <1>2, <1>3, <1>7 DEF CtlInv, SinkInv, CtlTypes, Timely
  <1> QED
    BY <1>1, <1>5, <1>6, <1>8, <1>9 DEF CtlInv

LEMMA ConnLocalKeeps ==
    ASSUME UniqueCorrel, CtlInv, NEW k \in Conns, ConnLocal(k) PROVE CtlInv'
  <1>1. PICK c \in Fresh, x \in Choices :
            /\ Sent(c, x, k, "accepted") /\ Register(c, x, k)
            /\ queue' = Append(queue, [c |-> c, correl |-> x, receipt |-> FALSE])
    BY DEF ConnLocal
  <1>2. c \in Cmds /\ x \in Correls /\ k # Child
    BY ControlAssumption DEF Fresh, Choices
  <1>3. PICK y : y = Entry(c, x, k) /\ y.c = c /\ y.correl = x /\ y.to = k
                 /\ pending' = pending \cup {y}
    BY <1>1, <1>2, NewEntry DEF CtlInv, SinkInv
  <1>4. SinkInv'
    BY ConnLocalTypes DEF CtlInv
  <1>5. UNCHANGED <<down, up, got, arrived, lateExec>>
    BY DEF ConnLocal, envVars, histVars
  <1>6. PICK m \in Queued : m.c = c /\ m.correl = x /\ queue' = Append(queue, m)
    BY <1>1, <1>2 DEF Queued
  <1>7. \A i \in DOMAIN queue' : (i \in DOMAIN queue /\ queue'[i] = queue[i]) \/ queue'[i] = m
    BY <1>6, AppendAt DEF CtlInv, SinkInv, CtlTypes
  <1>8. Keys'
    BY <1>1, <1>3, <1>5, <1>6, <1>7, KeysSend
  <1>9. Single' /\ Tokens'
    BY <1>2, <1>3, <1>5, SingleSend, TokensSend
  <1>10. Answers' /\ Timely'
    BY <1>1, <1>3, <1>5, AnswersSend, TimelySend
  <1> QED
    BY <1>4, <1>8, <1>9, <1>10 DEF CtlInv

LEMMA ConnRemoteKeeps ==
    ASSUME UniqueCorrel, CtlInv, NEW k \in Conns, ConnRemote(k) PROVE CtlInv'
  <1>1. PICK c \in Fresh, x \in Choices :
            /\ Sent(c, x, k, "accepted") /\ Register(c, x, k)
            /\ down' = Append(down, [c |-> c, correl |-> x])
    BY DEF ConnRemote
  <1>2. c \in Cmds /\ x \in Correls /\ k # Child
    BY ControlAssumption DEF Fresh, Choices
  <1>3. PICK y : y = Entry(c, x, k) /\ y.c = c /\ y.correl = x /\ y.to = k
                 /\ pending' = pending \cup {y}
    BY <1>1, <1>2, NewEntry DEF CtlInv, SinkInv
  <1>4. SinkInv'
    BY ConnRemoteTypes DEF CtlInv
  <1>5. UNCHANGED <<queue, up, got, arrived, lateExec>>
    BY DEF ConnRemote, histVars
  <1>6. PICK m \in Remote : m.c = c /\ m.correl = x /\ down' = Append(down, m)
    BY <1>1, <1>2 DEF Remote
  <1>7. /\ \A i \in DOMAIN down' :
              \/ i \in DOMAIN down /\ down'[i] = down[i]
              \/ i = Len(down) + 1 /\ down'[i] = m
        /\ Len(down) + 1 \notin DOMAIN down
    BY <1>6, AppendAt DEF CtlInv, SinkInv, CtlTypes
  <1>8. Keys'
    BY <1>1, <1>3, <1>5, <1>6, <1>7, KeysSend
  <1>9. Single'
    BY <1>3, SingleSend
  <1>10. Tokens'
    <2>1. /\ \A e \in pending : e.c # c
          /\ \A i \in DOMAIN down : down[i].c # c
          /\ \A i \in DOMAIN up : up[i].c # c
      BY FreshIsUnknown
    <2>2. \A i, j \in DOMAIN down' : down'[i].c = down'[j].c => i = j
      BY <1>6, <1>7, <2>1 DEF CtlInv, Tokens
    <2>3. \A i \in DOMAIN down', j \in DOMAIN up : down'[i].c # up[j].c
      BY <1>6, <1>7, <2>1 DEF CtlInv, Tokens
    <2>4. \A e \in pending' : e.to = Child =>
              /\ e \in pending /\ \A i \in DOMAIN down' : down'[i].c # e.c
              /\ \A i \in DOMAIN up : up[i].c # e.c
      BY <1>2, <1>3, <1>6, <1>7, <2>1 DEF CtlInv, Tokens
    <2> QED
      BY <1>5, <2>2, <2>3, <2>4 DEF CtlInv, Tokens
  <1>11. Answers' /\ Timely'
    BY <1>1, <1>3, <1>5, AnswersSend, TimelySend
  <1> QED
    BY <1>4, <1>8, <1>9, <1>10, <1>11 DEF CtlInv

LEMMA ConnNoPathKeeps ==
    ASSUME UniqueCorrel, CtlInv, NEW k \in Conns, ConnNoPath(k) PROVE CtlInv'
  <1>1. PICK c \in Fresh, x \in Choices : Sent(c, x, k, "accepted") /\ Register(c, x, k)
    BY DEF ConnNoPath
  <1>2. c \in Cmds /\ x \in Correls /\ k # Child
    BY ControlAssumption DEF Fresh, Choices
  <1>3. PICK y : y = Entry(c, x, k) /\ y.c = c /\ y.correl = x /\ y.to = k
                 /\ pending' = pending \cup {y}
    BY <1>1, <1>2, NewEntry DEF CtlInv, SinkInv
  <1>4. SinkInv'
    BY ConnNoPathTypes DEF CtlInv
  <1>5. UNCHANGED <<queue, down, up, got, arrived, lateExec>>
    BY DEF ConnNoPath, envVars, histVars
  <1>6. Keys'
    BY <1>1, <1>3, <1>5, KeysSend
  <1>7. Single' /\ Tokens'
    BY <1>2, <1>3, <1>5, SingleSend, TokensSend
  <1>8. Answers' /\ Timely'
    BY <1>1, <1>3, <1>5, AnswersSend, TimelySend
  <1> QED
    BY <1>4, <1>6, <1>7, <1>8 DEF CtlInv

LEMMA ConnNoTargetKeeps ==
    ASSUME UniqueCorrel, CtlInv, NEW k \in Conns, ConnNoTarget(k) PROVE CtlInv'
  <1>1. PICK c \in Fresh, x \in Choices :
            Sent(c, x, k, "accepted") /\ Emit({Receipt(c, k, "not_found")})
    BY DEF ConnNoTarget
  <1>2. c \in Cmds /\ x \in Correls /\ k # Child
    BY ControlAssumption DEF Fresh, Choices
  <1>3. SinkInv'
    BY ConnNoTargetTypes DEF CtlInv
  <1>4. UNCHANGED <<pending, queue, down, up, arrived, lateExec>>
    BY DEF ConnNoTarget, envVars
  <1>5. Keys'
    BY <1>1, <1>4, KeysSend
  <1>6. Single' /\ Tokens'
    BY <1>4, TokensSend DEF CtlInv, Single
  <1>7. PICK R \in Receipts : R = Receipt(c, k, "not_found")
    BY <1>2 DEF Receipts, Receipt
  <1>8. R.c = c /\ R.to = k /\ R.what = "not_found"
    BY <1>7 DEF Receipt
  <1>9. \A r \in Receipts : /\ got[r] \in Nat /\ got'[r] = IF r = R THEN got[r] + 1 ELSE got[r]
                            /\ r.c \in Cmds
    <2>1. \A r \in Receipts : r.c \in Cmds
      BY DEF Receipts
    <2> QED
      BY <1>1, <1>7, <2>1, EmitTypes DEF CtlInv, SinkInv, CtlTypes
  <1>10. \A r \in Receipts : got[r] > 0 => r.c # c
    BY FreshIsUnknown
  <1>11. /\ cstate'[c] = "accepted" /\ from'[c] = k
         /\ \A d \in Cmds : d # c => cstate'[d] = cstate[d] /\ from'[d] = from[d]
    BY <1>1, SentTypes DEF CtlInv, SinkInv
  <1>12. Answers'
    <2>1. \A s \in Receipts : s.c = c => got[s] = 0
      BY <1>9, <1>10
    <2>2. ASSUME NEW r \in Receipts, got'[r] > 0
          PROVE  /\ cstate'[r.c] # "new" /\ r.to \in {from'[r.c], Host, Child}
                 /\ r.to \in Conns =>
                       /\ got'[r] = 1
                       /\ \A s \in Receipts \ {r} : s.c = r.c /\ s.to = r.to => got'[s] = 0
                       /\ \A f \in pending : f.c = r.c => f.to # r.to
      <3>1. CASE r = R
        <4>1. got'[r] = 1
          BY <1>8, <1>9, <2>1, <3>1
        <4>2. \A s \in Receipts \ {r} : s.c = r.c => got'[s] = 0
          BY <1>8, <1>9, <2>1, <3>1
        <4> QED
          BY <1>8, <1>11, <3>1, <4>1, <4>2, FreshIsUnknown
      <3>2. CASE r # R
        <4>1. got[r] > 0 /\ got'[r] = got[r] /\ r.c # c
          BY <1>9, <1>10, <2>2, <3>2
        <4>2. \A s \in Receipts : s.c = r.c => got'[s] = got[s]
          BY <1>8, <1>9, <4>1
        <4> QED
          BY <1>9, <1>11, <4>1, <4>2 DEF CtlInv, Answers
      <3> QED
        BY <3>1, <3>2
    <2> QED
      BY <1>4, <2>2 DEF Answers
  <1>13. Timely'
    <2>1. \A r \in Receipts : got'[r] > 0 => got[r] > 0 \/ r.what # "timeout"
      BY <1>8, <1>9
    <2> QED
      BY <1>1, <1>4, <2>1, TimelySend
  <1> QED
    BY <1>3, <1>5, <1>6, <1>12, <1>13 DEF CtlInv

(* A step that only takes something away, and answers nothing. *)
LEMMA FrameKeeps ==
    ASSUME CtlInv, SinkInv', UNCHANGED <<cmdVars, down, up, got, arrived, lateExec>>,
           pending' \subseteq pending,
           \A i \in DOMAIN queue' : \E j \in DOMAIN queue : queue'[i] = queue[j]
    PROVE  CtlInv'
  <1>1. \A e \in pending' : \E f \in pending :
            e.c = f.c /\ e.correl = f.correl /\ e.to = f.to
    OBVIOUS
  <1>2. /\ \A i \in DOMAIN queue' : Carried(queue'[i])
        /\ \A i \in DOMAIN down' : Carried(down'[i])
        /\ \A i \in DOMAIN up' : Carried(up'[i])
    BY DEF CtlInv, Keys
  <1>3. Keys'
    BY <1>1, <1>2, KeysSame DEF CtlInv
  <1>4. Single' /\ Tokens'
    BY <1>1, SingleSame, TokensSame DEF CtlInv
  <1>5. Answers' /\ Timely'
    BY <1>1, AnswersSame, TimelySame DEF CtlInv
  <1> QED
    BY <1>3, <1>4, <1>5 DEF CtlInv

LEMMA ConnOpenKeeps ==
    ASSUME CtlInv, NEW k \in Conns, ConnOpen(k) PROVE CtlInv'
  BY ConnOpenTypes, FrameKeeps DEF CtlInv, ConnOpen, histVars

LEMMA ConnCloseKeeps ==
    ASSUME CtlInv, NEW k \in Conns, ConnClose(k) PROVE CtlInv'
  BY ConnCloseTypes, FrameKeeps DEF CtlInv, ConnClose, histVars

LEMMA OtherEventKeeps ==
    ASSUME CtlInv, OtherEvent PROVE CtlInv'
  BY OtherEventTypes, FrameKeeps DEF CtlInv, OtherEvent, envVars, histVars

LEMMA TeardownKeeps ==
    ASSUME CtlInv, Teardown PROVE CtlInv'
  BY TeardownTypes, FrameKeeps DEF CtlInv, Teardown, histVars

LEMMA StutterKeeps ==
    ASSUME CtlInv, UNCHANGED vars PROVE CtlInv'
  BY StutterTypes, FrameKeeps DEF CtlInv, vars, envVars, histVars

(* The head of the queue is taken. *)
LEMMA QueueTail ==
    ASSUME CtlTypes, queue # << >>, queue' = Tail(queue)
    PROVE  /\ 1 \in DOMAIN queue /\ queue[1] = Head(queue) /\ Head(queue) \in Queued
           /\ \A i \in DOMAIN queue' : \E j \in DOMAIN queue : queue'[i] = queue[j]
  <1>1. PICK s \in Seq(Queued) : s = queue
    BY DEF CtlTypes
  <1> QED
    BY <1>1, TailAt

LEMMA DispatchSkipKeeps ==
    ASSUME CtlInv, DispatchSkip PROVE CtlInv'
  <1>1. \A i \in DOMAIN queue' : \E j \in DOMAIN queue : queue'[i] = queue[j]
    BY QueueTail DEF CtlInv, SinkInv, DispatchSkip
  <1> QED
    BY <1>1, DispatchSkipTypes, FrameKeeps DEF CtlInv, DispatchSkip, envVars, histVars

(* A step that answers the command of an entry and takes the entry away. *)
LEMMA GiveKeeps ==
    ASSUME CtlInv, SinkInv', NEW e \in pending,
           NEW what \in {"result", "timeout", "not_found", "unknown_cmd"},
           pending' = pending \ {e}, Emit({Receipt(e.c, e.to, what)}),
           UNCHANGED <<cmdVars, down, up, arrived, lateExec>>,
           \A i \in DOMAIN queue' : \E j \in DOMAIN queue : queue'[i] = queue[j]
    PROVE  CtlInv'
  <1>1. \A f \in pending' : \E g \in pending :
            f.c = g.c /\ f.correl = g.correl /\ f.to = g.to
    OBVIOUS
  <1>2. /\ \A i \in DOMAIN queue' : Carried(queue'[i])
        /\ \A i \in DOMAIN down' : Carried(down'[i])
        /\ \A i \in DOMAIN up' : Carried(up'[i])
    BY DEF CtlInv, Keys
  <1>3. Keys'
    BY <1>1, <1>2, KeysSame DEF CtlInv
  <1>4. Single' /\ Tokens'
    BY <1>1, SingleSame, TokensSame DEF CtlInv
  <1>5. Answers'
    BY AnswersGive DEF CtlInv, SinkInv
  <1>6. Timely'
    BY TimelyGive DEF CtlInv, SinkInv
  <1> QED
    BY <1>3, <1>4, <1>5, <1>6 DEF CtlInv

LEMMA DispatchExpiredKeeps ==
    ASSUME CtlInv, DispatchExpired PROVE CtlInv'
  <1>1. PICK e \in First(Head(queue).correl) :
            Emit({Receipt(e.c, e.to, "timeout")}) /\ pending' = pending \ {e}
    BY DEF DispatchExpired
  <1>2. \A i \in DOMAIN queue' : \E j \in DOMAIN queue : queue'[i] = queue[j]
    BY QueueTail DEF CtlInv, SinkInv, DispatchExpired
  <1>3. SinkInv' /\ e \in pending
    BY DispatchExpiredTypes, FirstIn DEF CtlInv
  <1>4. UNCHANGED <<cmdVars, down, up, arrived, lateExec>>
    BY DEF DispatchExpired, envVars
  <1> QED
    BY <1>1, <1>2, <1>3, <1>4, GiveKeeps

LEMMA DispatchRunKeeps ==
    ASSUME CtlInv, DispatchRun PROVE CtlInv'
  <1>1. PICK m : m = Head(queue)
    OBVIOUS
  <1>2. PICK e \in First(m.correl) :
            /\ lateExec' = (lateExec \/ (~m.receipt /\ e.c # m.c))
            /\ Said(m, e) \/ Unsaid(m)
            /\ pending' = pending \ {e}
    BY <1>1 DEF DispatchRun, Said, Unsaid
  <1>3. /\ m \in Queued /\ 1 \in DOMAIN queue /\ queue[1] = m
        /\ \A i \in DOMAIN queue' : \E j \in DOMAIN queue : queue'[i] = queue[j]
    BY <1>1, QueueTail DEF CtlInv, SinkInv, DispatchRun
  <1>4. SinkInv' /\ e \in pending /\ e.correl = m.correl
    BY DispatchRunTypes, FirstIn DEF CtlInv
  <1>5. e.c = m.c
    <2>1. m.correl = correl[m.c] /\ cstate[m.c] # "new" /\ m.c \in Cmds
      BY <1>3 DEF CtlInv, Keys, Carried, Queued
    <2> QED
      BY <1>4, <2>1, OwnEntry DEF CtlInv, SinkInv
  <1>6. lateExec' = lateExec
    BY <1>2, <1>5 DEF CtlInv, SinkInv, CtlTypes
  <1>7. UNCHANGED <<cmdVars, down, up, arrived, lateExec>>
    BY <1>6 DEF DispatchRun, envVars
  <1>8. CASE Said(m, e)
    <2>1. PICK what \in {"result", "unknown_cmd"} : Emit({Receipt(e.c, e.to, what)})
      BY <1>5, <1>8 DEF Said
    <2> QED
      BY <1>2, <1>3, <1>4, <1>7, <2>1, GiveKeeps
  <1>9. CASE Unsaid(m)
    <2>1. pending' \subseteq pending /\ got' = got
      BY <1>2, <1>9 DEF Unsaid
    <2> QED
      BY <1>3, <1>4, <1>7, <2>1, FrameKeeps
  <1> QED
    BY <1>2, <1>8, <1>9

LEMMA ChildDieKeeps ==
    ASSUME CtlInv, ChildDie PROVE CtlInv'
  <1>1. /\ down' = << >> /\ up' = << >> /\ SinkInv'
        /\ UNCHANGED <<pending, queue, cmdVars, got, arrived, lateExec>>
    BY ChildDieTypes DEF ChildDie, histVars, CtlInv
  <1>2. /\ \A i \in DOMAIN queue' : Carried(queue'[i])
        /\ \A i \in DOMAIN down' : Carried(down'[i])
        /\ \A i \in DOMAIN up' : Carried(up'[i])
    BY <1>1 DEF CtlInv, Keys
  <1>3. Keys'
    BY <1>1, <1>2, KeysSame DEF CtlInv
  <1>4. Single' /\ Tokens'
    BY <1>1 DEF CtlInv, Single, Tokens
  <1>5. Answers' /\ Timely'
    BY <1>1, AnswersSame, TimelySame DEF CtlInv
  <1> QED
    BY <1>1, <1>3, <1>4, <1>5 DEF CtlInv

LEMMA ChildAnswerKeeps ==
    ASSUME CtlInv, ChildAnswer PROVE CtlInv'
  <1>1. /\ down' = Tail(down) /\ down # << >> /\ SinkInv'
        /\ UNCHANGED <<pending, queue, cmdVars, got, arrived, lateExec>>
    BY ChildAnswerTypes DEF ChildAnswer, histVars, CtlInv
  <1>2. PICK d \in Seq(Remote), u \in Seq(Returned) : d = down /\ u = up
    BY DEF CtlInv, SinkInv, CtlTypes
  <1>3. PICK h \in Remote : h = Head(d)
    BY <1>1, <1>2, TailAt
  <1>4. PICK m \in Returned : m.c = h.c /\ m.correl = h.correl /\ up' = Append(u, m)
    <2>1. PICK long \in BOOLEAN :
              up' = Append(u, [c |-> h.c, correl |-> h.correl, long |-> long])
      BY <1>2, <1>3, ControlAssumption DEF ChildAnswer
    <2> QED
      BY <2>1 DEF Remote, Returned
  <1>5. /\ 1 \in DOMAIN down /\ down[1] = h
        /\ \A i \in DOMAIN down' : /\ i + 1 \in DOMAIN down /\ down'[i] = down[i + 1]
                                   /\ i \in Nat /\ i + 1 # 1
    BY <1>1, <1>2, <1>3, TailAt
  <1>6. /\ \A i \in DOMAIN up' :
              \/ i \in DOMAIN up /\ up'[i] = up[i]
              \/ i = Len(up) + 1 /\ up'[i] = m
        /\ Len(up) + 1 \notin DOMAIN up
    BY <1>2, <1>4, AppendAt
  <1>7. Carried(m)
    BY <1>4, <1>5 DEF CtlInv, Keys, Carried
  <1>8. /\ \A i \in DOMAIN queue' : Carried(queue'[i])
        /\ \A i \in DOMAIN down' : Carried(down'[i])
        /\ \A i \in DOMAIN up' : Carried(up'[i])
    BY <1>1, <1>5, <1>6, <1>7 DEF CtlInv, Keys
  <1>9. Keys'
    BY <1>1, <1>8, KeysSame DEF CtlInv
  <1>10. Tokens'
    <2>1. \A i, j \in DOMAIN down' : down'[i].c = down'[j].c => i = j
      <3>1. \A i, j \in DOMAIN down' : i + 1 = j + 1 => i = j
        BY <1>5
      <3> QED
        BY <1>5, <3>1 DEF CtlInv, Tokens
    <2>2. \A i \in DOMAIN down' : down'[i].c # h.c
      BY <1>5 DEF CtlInv, Tokens
    <2>3. \A i \in DOMAIN up : up[i].c # h.c
      BY <1>5 DEF CtlInv, Tokens
    <2>4. \A i, j \in DOMAIN up' : up'[i].c = up'[j].c => i = j
      BY <1>4, <1>6, <2>3 DEF CtlInv, Tokens
    <2>5. \A i \in DOMAIN down', j \in DOMAIN up' : down'[i].c # up'[j].c
      BY <1>4, <1>5, <1>6, <2>2 DEF CtlInv, Tokens
    <2>6. \A e \in pending : e.to = Child =>
              /\ \A i \in DOMAIN down' : down'[i].c # e.c
              /\ \A i \in DOMAIN up' : up'[i].c # e.c
      BY <1>4, <1>5, <1>6 DEF CtlInv, Tokens
    <2> QED
      BY <1>1, <2>1, <2>4, <2>5, <2>6 DEF Tokens
  <1>11. Single' /\ Answers' /\ Timely'
    BY <1>1, SingleSame, AnswersSame, TimelySame DEF CtlInv
  <1> QED
    BY <1>1, <1>9, <1>10, <1>11 DEF CtlInv

LEMMA UpReceiptKeeps ==
    ASSUME CtlInv, UpReceipt PROVE CtlInv'
  <1>1. PICK u \in Seq(Returned) : u = up
    BY DEF CtlInv, SinkInv, CtlTypes
  <1>2. PICK r \in Returned : r = Head(u)
    BY <1>1, TailAt DEF UpReceipt
  <1>3. /\ 1 \in DOMAIN up /\ up[1] = r
        /\ \A i \in DOMAIN up' : /\ i + 1 \in DOMAIN up /\ up'[i] = up[i + 1]
                                 /\ i \in Nat /\ i + 1 # 1
    BY <1>1, <1>2, TailAt DEF UpReceipt
  <1>4. PICK to \in ReplyTo(r.correl) : Emit({Receipt(r.c, to, "result")})
    BY <1>1, <1>2 DEF UpReceipt
  <1>5. /\ pending' = pending \ First(r.correl)
        /\ arrived' = IF InTime(r.c) THEN arrived \cup {r.c} ELSE arrived
        /\ UNCHANGED <<queue, down, cmdVars, lateExec>>
    BY <1>1, <1>2 DEF UpReceipt, Withdraw
  <1>6. /\ r.c \in Cmds /\ r.correl = correl[r.c] /\ cstate[r.c] = "accepted"
        /\ \A e \in pending : e.c = r.c => e.to # Child
    BY <1>3 DEF CtlInv, Keys, Tokens, Carried, Returned
  <1>7. SinkInv' /\ CtlTypes /\ Keys /\ Single /\ Answers /\ Timely
    BY UpReceiptTypes DEF CtlInv, SinkInv
  <1>8. /\ \A i \in DOMAIN queue' : Carried(queue'[i])
        /\ \A i \in DOMAIN down' : Carried(down'[i])
        /\ \A i \in DOMAIN up' : Carried(up'[i])
    BY <1>3, <1>5, <1>7 DEF Keys
  <1>9. Keys'
    BY <1>5, <1>7, <1>8, KeysSame
  <1>10. Single'
    BY <1>5, <1>7, SingleSame
  <1>11. Tokens'
    <2>1. \A i, j \in DOMAIN up' : i + 1 = j + 1 => i = j
      BY <1>3
    <2>2. \A i, j \in DOMAIN up' : up'[i].c = up'[j].c => i = j
      BY <1>3, <2>1 DEF CtlInv, Tokens
    <2> QED
      BY <1>3, <1>5, <2>2 DEF CtlInv, Tokens
  <1>12. Answers' /\ Timely'
    <2>1. CASE Matches(r.correl) = {}
      <3>1. to = Host /\ pending' = pending
        BY <1>4, <1>5, <2>1 DEF ReplyTo, First
      <3>2. arrived' = arrived
        BY <1>5, <1>6, <1>7, <2>1 DEF InTime, Matches, Keys
      <3>3. Answers'
        BY <1>4, <1>5, <1>6, <1>7, <3>1, AnswersHost
      <3>4. Receipt(r.c, to, "result").what = "result"
        BY DEF Receipt
      <3>5. \A s \in Receipts : got'[s] > 0 => got[s] > 0 \/ s.what = "result"
        BY <1>4, <1>7, <3>4, EmitTypes
      <3>6. Timely'
        BY <1>5, <1>7, <3>1, <3>2, <3>5 DEF Timely, cmdVars
      <3> QED
        BY <3>3, <3>6
    <2>2. CASE Matches(r.correl) # {}
      <3>1. PICK e \in First(r.correl) : to = e.to
        BY <1>4, <2>2 DEF ReplyTo
      <3>2. e \in pending /\ e.c = r.c
        BY <1>6, <1>7, FirstIn, OwnEntry
      <3>3. e.to # Child /\ pending' \subseteq pending \ {e}
        BY <1>5, <1>6, <3>2
      <3>4. Emit({Receipt(e.c, e.to, "result")})
        BY <1>4, <3>1, <3>2
      <3>5. Answers'
        BY <1>5, <1>7, <3>2, <3>3, <3>4, AnswersGive
      <3>6. \A f \in pending' : f \in pending /\ f.c # r.c
        BY <1>6, <1>7, <3>2, <3>3 DEF Single
      <3>7. \A s \in Receipts : s.c = r.c /\ got[s] > 0 /\ s.what = "timeout" => s.to = Child
        BY <1>7, <3>2, <3>3 DEF Timely
      <3>8. Receipt(e.c, e.to, "result").what = "result"
        BY DEF Receipt
      <3>9. \A s \in Receipts : got'[s] > 0 => got[s] > 0 \/ s.what = "result"
        BY <1>7, <3>4, <3>8, EmitTypes
      <3>10. arrived' \subseteq arrived \cup {r.c}
        BY <1>5
      <3>11. UNCHANGED cstate
        BY <1>5 DEF cmdVars
      <3>12. \A c \in arrived' : cstate'[c] # "new" /\ \A f \in pending' : f.c = c => f.to = Child
        BY <1>6, <1>7, <3>6, <3>10, <3>11 DEF Timely
      <3>13. \A s \in Receipts : got'[s] > 0 /\ s.what = "timeout" /\ s.to # Child =>
                s.c \notin arrived' /\ \A f \in pending' : f.c = s.c => f.to = Child
        BY <1>7, <3>6, <3>7, <3>9, <3>10 DEF Timely
      <3> QED
        BY <3>5, <3>12, <3>13 DEF Timely
    <2> QED
      BY <2>1, <2>2
  <1> QED
    BY <1>7, <1>9, <1>10, <1>11, <1>12 DEF CtlInv

(* A receipt taken for a command gets an entry while nothing else of its       *)
(* command is under way.                                                        *)
LEMMA UpLongReceiptKeeps ==
    ASSUME CtlInv, UpLongReceipt PROVE CtlInv'
  <1>1. PICK u \in Seq(Returned) : u = up
    BY DEF CtlInv, SinkInv, CtlTypes
  <1>2. PICK r \in Returned : r = Head(u)
    BY <1>1, TailAt DEF UpLongReceipt
  <1>3. /\ 1 \in DOMAIN up /\ up[1] = r
        /\ \A i \in DOMAIN up' : /\ i + 1 \in DOMAIN up /\ up'[i] = up[i + 1]
                                 /\ i \in Nat /\ i + 1 # 1
    BY <1>1, <1>2, TailAt DEF UpLongReceipt
  <1>4. PICK m \in Queued : m.c = r.c /\ m.correl = r.correl /\ queue' = Append(queue, m)
    <2>1. [c |-> r.c, correl |-> r.correl, receipt |-> TRUE] \in Queued
      BY DEF Returned, Queued
    <2> QED
      BY <1>1, <1>2, <2>1 DEF UpLongReceipt
  <1>5. /\ r.c \in Cmds /\ r.correl \in Correls /\ r.correl = correl[r.c]
        /\ cstate[r.c] = "accepted" /\ \A e \in pending : e.c = r.c => e.to # Child
    BY <1>3 DEF CtlInv, Keys, Tokens, Carried, Returned
  <1>6. PICK y \in Entries : /\ y.c = r.c /\ y.correl = r.correl /\ y.to = Child
                             /\ pending' = pending \cup {y}
    <2>1. Register(r.c, r.correl, Child)
      BY <1>1, <1>2 DEF UpLongReceipt
    <2> QED
      BY <1>5, <2>1, NewEntry DEF CtlInv, SinkInv
  <1>7. SinkInv' /\ UNCHANGED <<down, cmdVars, got, arrived, lateExec>>
    BY UpLongReceiptTypes DEF UpLongReceipt, histVars, CtlInv
  <1>8. \A i \in DOMAIN queue' : queue'[i] = m \/ \E j \in DOMAIN queue : queue'[i] = queue[j]
    <2>1. PICK q \in Seq(Queued) : q = queue
      BY DEF CtlInv, SinkInv, CtlTypes
    <2> QED
      BY <1>4, <2>1, AppendAt
  <1>9. Keys'
    <2>1. Carried(m)
      BY <1>4, <1>5 DEF Carried
    <2>2. /\ \A i \in DOMAIN queue' : Carried(queue'[i])
          /\ \A i \in DOMAIN down' : Carried(down'[i])
          /\ \A i \in DOMAIN up' : Carried(up'[i])
      BY <1>3, <1>7, <1>8, <2>1 DEF CtlInv, Keys
    <2> QED
      BY <1>5, <1>6, <1>7, <2>2 DEF CtlInv, Keys, Carried, cmdVars
  <1>10. Single'
    BY <1>5, <1>6 DEF CtlInv, Single
  <1>11. Tokens'
    <2>1. \A i, j \in DOMAIN up' : i + 1 = j + 1 => i = j
      BY <1>3
    <2>2. \A i, j \in DOMAIN up' : up'[i].c = up'[j].c => i = j
      BY <1>3, <2>1 DEF CtlInv, Tokens
    <2>3. /\ \A i \in DOMAIN down : down[i].c # r.c
          /\ \A i \in DOMAIN up' : up'[i].c # r.c
      BY <1>3 DEF CtlInv, Tokens
    <2> QED
      BY <1>3, <1>6, <1>7, <2>2, <2>3 DEF CtlInv, Tokens
  <1>12. Child \notin Conns
    BY ControlAssumption
  <1>13. Answers'
    BY <1>6, <1>7, <1>12 DEF CtlInv, Answers, cmdVars
  <1>14. Timely'
    BY <1>6, <1>7 DEF CtlInv, Timely, cmdVars
  <1> QED
    BY <1>7, <1>9, <1>10, <1>11, <1>13, <1>14 DEF CtlInv

(* Each entry past its deadline is answered, and no command through two        *)
(* connections.                                                                 *)
LEMMA ReapKeeps ==
    ASSUME CtlInv, Reap PROVE CtlInv'
  <1> DEFINE Late == pending \ Live
             rs == {Receipt(e.c, e.to, "timeout") : e \in Late}
  <1>1. /\ SinkInv' /\ Emit(rs) /\ pending' \subseteq pending
        /\ \A e \in Late : e \in pending /\ e \notin pending'
        /\ UNCHANGED <<queue, down, up, cmdVars, arrived, lateExec>>
    BY ReapTypes DEF Reap, CtlInv, Live, envVars
  <1>2. CtlTypes /\ Keys /\ Single /\ Tokens /\ Answers /\ Timely
    BY DEF CtlInv, SinkInv
  <1>3. \A r \in rs : \E e \in Late : r.c = e.c /\ r.to = e.to /\ r.what = "timeout"
                                      /\ r = Receipt(e.c, e.to, "timeout")
    BY DEF Receipt
  <1>4. \A r \in Receipts : got[r] \in Nat /\ got'[r] = IF r \in rs THEN got[r] + 1 ELSE got[r]
    BY <1>1, <1>2, EmitTypes DEF CtlTypes
  <1>5. Keys'
    BY <1>1, <1>2, KeysSame DEF Keys
  <1>6. Single' /\ Tokens'
    BY <1>1, <1>2, SingleSame, TokensSame
  <1> HIDE DEF Late, rs
  <1>7. \A e, f \in pending : e.to \in Conns /\ f.to \in Conns /\ e.c = f.c => e = f
    BY <1>2, ControlAssumption DEF Single
  <1>8. ASSUME NEW r \in Receipts, got'[r] > 0
        PROVE  /\ cstate[r.c] # "new" /\ r.to \in {from[r.c], Host, Child}
               /\ r.to \in Conns =>
                     /\ got'[r] = 1
                     /\ \A s \in Receipts \ {r} : s.c = r.c /\ s.to = r.to => got'[s] = 0
                     /\ \A f \in pending' : f.c = r.c => f.to # r.to
    <2>1. CASE r \in rs
      <3>1. PICK e \in Late : r.c = e.c /\ r.to = e.to /\ r = Receipt(e.c, e.to, "timeout")
        BY <1>3, <2>1
      <3>2. e \in pending /\ e \notin pending'
        BY <1>1
      <3>3. cstate[r.c] # "new" /\ r.to \in {from[r.c], Child}
        BY <1>2, <3>1, <3>2 DEF Keys
      <3>4. ASSUME r.to \in Conns
            PROVE  /\ got'[r] = 1
                   /\ \A s \in Receipts \ {r} : s.c = r.c /\ s.to = r.to => got'[s] = 0
                   /\ \A f \in pending' : f.c = r.c => f.to # r.to
        <4>1. \A s \in Receipts : s.c = r.c /\ s.to = r.to => got[s] = 0
          BY <1>2, <1>4, <3>1, <3>2, <3>4 DEF Answers
        <4>2. \A s \in rs : s.c = r.c /\ s.to = r.to => s = r
          BY <1>1, <1>3, <1>7, <3>1, <3>2, <3>4
        <4>3. got'[r] = 1
          BY <1>4, <2>1, <4>1
        <4>4. \A s \in Receipts \ {r} : s.c = r.c /\ s.to = r.to => got'[s] = 0
          BY <1>4, <4>1, <4>2
        <4>5. \A f \in pending' : f.c = r.c => f.to # r.to
          BY <1>1, <1>7, <3>1, <3>2, <3>4
        <4> QED
          BY <4>3, <4>4, <4>5
      <3> QED
        BY <3>3, <3>4
    <2>2. CASE r \notin rs
      <3>1. got[r] > 0 /\ got'[r] = got[r]
        BY <1>4, <1>8, <2>2
      <3>2. ASSUME r.to \in Conns
            PROVE  \A s \in Receipts \ {r} : s.c = r.c /\ s.to = r.to => got'[s] = 0
        <4>1. \A s \in rs : ~(s.c = r.c /\ s.to = r.to)
          BY <1>1, <1>2, <1>3, <3>1, <3>2 DEF Answers
        <4> QED
          BY <1>2, <1>4, <3>1, <3>2, <4>1 DEF Answers
      <3> QED
        BY <1>1, <1>2, <3>1, <3>2 DEF Answers
    <2> QED
      BY <2>1, <2>2
  <1>9. Answers'
    BY <1>1, <1>8 DEF Answers, cmdVars
  <1>10. Timely'
    <2>1. \A c \in arrived' : cstate'[c] # "new" /\ \A e \in pending' : e.c = c => e.to = Child
      BY <1>1, <1>2 DEF Timely, cmdVars
    <2>2. ASSUME NEW r \in Receipts, got'[r] > 0, r.what = "timeout", r.to # Child
          PROVE  r.c \notin arrived /\ \A e \in pending' : e.c = r.c => e.to = Child
      <3>1. CASE r \in rs
        <4>1. PICK e \in Late : r.c = e.c /\ r.to = e.to
          BY <1>3, <3>1
        <4> QED
          BY <1>1, <1>2, <2>2, <4>1 DEF Timely, Single
      <3>2. CASE r \notin rs
        BY <1>1, <1>2, <1>4, <2>2, <3>2 DEF Timely
      <3> QED
        BY <3>1, <3>2
    <2> QED
      BY <1>1, <2>1, <2>2 DEF Timely
  <1> QED
    BY <1>1, <1>5, <1>6, <1>9, <1>10 DEF CtlInv

LEMMA ExpireKeeps ==
    ASSUME CtlInv, Expire PROVE CtlInv'
  <1>1. PICK x \in pending : \E y \in pending' :
            /\ pending' = (pending \ {x}) \cup {y}
            /\ y.c = x.c /\ y.correl = x.correl /\ y.to = x.to
    BY ExpireEntries DEF CtlInv, SinkInv
  <1>2. SinkInv' /\ UNCHANGED <<queue, down, up, cmdVars, got, arrived, lateExec>>
    BY ExpireTypes DEF Expire, CtlInv, envVars, histVars
  <1>3. \A e \in pending' : \E f \in pending : e.c = f.c /\ e.correl = f.correl /\ e.to = f.to
    BY <1>1
  <1>4. Keys' /\ Tokens' /\ Answers' /\ Timely'
    BY <1>2, <1>3, KeysSame, TokensSame, AnswersSame, TimelySame DEF CtlInv, Keys
  <1>5. Single'
    BY <1>1 DEF CtlInv, Single
  <1> QED
    BY <1>2, <1>4, <1>5 DEF CtlInv

LEMMA NextKeeps == UniqueCorrel = TRUE /\ CtlInv /\ [Next]_vars => CtlInv'
  BY HostRegisterKeeps, HostPushKeeps, HostPushFailKeeps, ConnOpenKeeps, ConnCloseKeeps,
     ConnLocalKeeps, ConnRemoteKeeps, ConnNoPathKeeps, ConnNoTargetKeeps, ChildAnswerKeeps,
     ChildDieKeeps, UpReceiptKeeps, UpLongReceiptKeeps, DispatchSkipKeeps,
     DispatchExpiredKeeps, DispatchRunKeeps, ReapKeeps, OtherEventKeeps, ExpireKeeps,
     TeardownKeeps, StutterKeeps DEF Next, Dispatch, Closed

(* If no correl is used for two commands, the invariant holds in every state. *)
THEOREM CtlInvHolds ==
    ASSUME UniqueCorrel = TRUE
    PROVE  Spec => []CtlInv
  <1>1. Init => CtlInv
    BY PairInit
  <1>2. CtlInv /\ [Next]_vars => CtlInv'
    BY NextKeeps
  <1> QED
    BY <1>1, <1>2, PTL DEF Spec

(* If no correl is used for two commands, a command is answered at most once   *)
(* through its connection, and by nobody but its sender, the host or the child *)
(* (ctl_send_receipt, qz_ctl_deliver_receipt).                                  *)
THEOREM OneReceiptEach ==
    ASSUME UniqueCorrel = TRUE
    PROVE  Spec => []ReceiptPairing
  <1>1. CtlInv => ReceiptPairing
    BY DEF CtlInv, Answers, ReceiptPairing
  <1> QED
    BY <1>1, CtlInvHolds, PTL

(* If no correl is used for two commands, a command runs only while its own     *)
(* entry stands and is within its deadline, and a sender that is told TIMEOUT    *)
(* had no answer that came in time (ctl_claim, qz_ctl_reap_timeouts).            *)
THEOREM TimeoutsAreTrue ==
    ASSUME UniqueCorrel = TRUE
    PROVE  Spec => []TimeoutIsTrue
  <1>1. ASSUME CtlInv PROVE TypeOK
    <2>1. CtlTypes /\ Keys
      BY <1>1 DEF CtlInv, SinkInv
    <2>2. ASSUME NEW e \in pending
          PROVE  /\ e.c \in Cmds /\ e.correl \in Correls
                 /\ e.to \in Conns \cup {Host, Child} /\ e.expired \in BOOLEAN
                 /\ e.at \in 1 .. regs
                 /\ cstate[e.c] \in {"registered", "accepted"}
      BY <2>1 DEF CtlTypes, Keys, Entries
    <2>3. \A i \in DOMAIN queue : queue[i].c \in Cmds /\ queue[i].receipt \in BOOLEAN
      <3>1. \A i \in DOMAIN queue : queue[i] \in Queued
        BY <2>1 DEF CtlTypes
      <3> QED
        BY <3>1 DEF Queued
    <2> QED
      BY <2>1, <2>2, <2>3 DEF CtlTypes, TypeOK
  <1>2. CtlInv => NeverExecutedLate /\ TimeoutIsTruthful
    BY DEF CtlInv, Keys, Timely, NeverExecutedLate, TimeoutIsTruthful
  <1>3. CtlInv => TimeoutIsTrue
    BY <1>1, <1>2 DEF TimeoutIsTrue
  <1> QED
    BY <1>3, CtlInvHolds, PTL

-----------------------------------------------------------------------------
(* The socket files *)

(* Callers that share no path: two runtimes that are given a path at the same  *)
(* time are given two.                                                          *)
LEMMA PathsAreApart ==
    /\ \A r \in Runtimes : DefaultPath(r) \in Paths /\ DefaultPath(r) \notin Explicit
    /\ \A r, s \in Runtimes : DefaultPath(r) = DefaultPath(s) => r = s
    /\ NoPath \notin Paths /\ NoFile \notin Runtimes /\ Stale \notin Runtimes
  BY EndpointAssumption
  DEF Runtimes, DefaultPath, Explicit, Paths, NoPath, NoFile, Stale

LEMMA EpInitHolds == EpInit => EpInv
  BY EndpointAssumption, PathsAreApart DEF EpInit, EpInv, EpTypeOK

LEMMA StartKeeps ==
    ASSUME SharedPath = FALSE, EpInv, NEW r \in Runtimes, Start(r)
    PROVE  EpInv'
  <1>1. PICK p \in Paths :
            /\ MayUse(r, p) /\ path' = [path EXCEPT ![r] = p]
            /\ IF p = DefaultPath(r) THEN Unlink(p) ELSE UNCHANGED file
    BY DEF Start
  <1>2. epPc[r] = "off" /\ path[r] = NoPath /\ ~bound[r] /\ p # NoPath
    BY PathsAreApart DEF Start, EpInv, EpTypeOK
  <1>3. \A s \in Runtimes \ {r} : path[s] # p
    BY <1>1, <1>2, PathsAreApart DEF MayUse, EpInv
  <1>4. /\ \A s \in Runtimes \ {r} : path'[s] = path[s] /\ epPc'[s] = epPc[s]
        /\ path'[r] = p /\ epPc'[r] = "bind" /\ bound' = bound
    BY <1>1 DEF Start, Go, EpInv, EpTypeOK
  <1>5. /\ \A q \in Paths \ {p} : file'[q] = file[q]
        /\ p = DefaultPath(r) => file'[p] = NoFile
        /\ file' \in [Paths -> Runtimes \cup {Stale, NoFile}]
    BY <1>1 DEF Unlink, EpInv, EpTypeOK
  <1>6. epLife' \in [Runtimes -> 0 .. MaxLife]
    BY EndpointAssumption DEF Start, EpInv, EpTypeOK
  <1>7. EpTypeOK'
    BY <1>1, <1>2, <1>4, <1>5, <1>6 DEF Start, Go, EpInv, EpTypeOK
  <1>8. \A s \in Runtimes : path'[s] # NoPath =>
              path'[s] = DefaultPath(s) \/ path'[s] \in Explicit
    BY <1>1, <1>4 DEF EpInv, MayUse
  <1>9. \A s, t \in Runtimes : path'[s] # NoPath /\ path'[s] = path'[t] => s = t
    BY <1>3, <1>4 DEF EpInv
  <1>10. \A s \in Runtimes \ {r} : path[s] # NoPath => path[s] \in Paths \ {p}
    BY <1>3 DEF EpInv, EpTypeOK
  <1>11. \A s \in Runtimes : bound'[s] =>
               file'[path'[s]] = s /\ epPc'[s] \in {"listen", "up", "fail"}
    BY <1>2, <1>4, <1>5, <1>10 DEF EpInv, EpTypeOK
  <1>12. \A s \in Runtimes : epPc'[s] = "bind" /\ path'[s] = DefaultPath(s) =>
               file'[path'[s]] = NoFile
    BY <1>4, <1>5, <1>10 DEF EpInv, EpTypeOK
  <1>13. /\ \A s \in Runtimes : epPc'[s] \in {"listen", "up"} => bound'[s]
         /\ \A s \in Runtimes : epPc'[s] = "fail" /\ ~bound'[s] => path'[s] # DefaultPath(s)
    BY <1>2, <1>4 DEF EpInv, EpTypeOK
  <1> QED
    BY <1>7, <1>8, <1>9, <1>11, <1>12, <1>13 DEF EpInv

(* A step of r that leaves the other runtimes and their paths alone. *)
LEMMA OwnStepKeeps ==
    ASSUME EpInv, NEW r \in Runtimes, NEW s, NEW b \in BOOLEAN, NEW p \in {path[r], NoPath},
           NEW f \in Runtimes \cup {Stale, NoFile}, path[r] # NoPath,
           s \in {"off", "bind", "listen", "up", "fail", "unlink"}, (p = NoPath) <=> (s = "off"),
           epPc' = [epPc EXCEPT ![r] = s], bound' = [bound EXCEPT ![r] = b],
           path' = [path EXCEPT ![r] = p], file' = [file EXCEPT ![path[r]] = f],
           UNCHANGED epLife,
           b => f = r /\ s \in {"listen", "up", "fail"},
           s \in {"listen", "up"} => b,
           s # "bind",
           s = "fail" /\ ~b => path[r] # DefaultPath(r)
    PROVE  EpInv'
  <1>1. /\ \A t \in Runtimes \ {r} :
              path'[t] = path[t] /\ epPc'[t] = epPc[t] /\ bound'[t] = bound[t]
        /\ path'[r] = p /\ epPc'[r] = s /\ bound'[r] = b
    BY DEF EpInv, EpTypeOK
  <1>2. \A t \in Runtimes \ {r} : path[t] # path[r]
    BY DEF EpInv
  <1>3. path[r] \in Paths /\ file'[path[r]] = f /\ \A q \in Paths \ {path[r]} : file'[q] = file[q]
    BY DEF EpInv, EpTypeOK
  <1>4. \A t \in Runtimes \ {r} : path[t] # NoPath => path[t] \in Paths \ {path[r]}
    BY <1>2 DEF EpInv, EpTypeOK
  <1>5. b => p = path[r]
    OBVIOUS
  <1>6. EpTypeOK'
    BY <1>1 DEF EpInv, EpTypeOK
  <1>7. /\ \A t \in Runtimes : path'[t] # NoPath =>
                 path'[t] = DefaultPath(t) \/ path'[t] \in Explicit
        /\ \A t, u \in Runtimes : path'[t] # NoPath /\ path'[t] = path'[u] => t = u
    BY <1>1 DEF EpInv
  <1>8. \A t \in Runtimes : bound'[t] =>
              file'[path'[t]] = t /\ epPc'[t] \in {"listen", "up", "fail"}
    BY <1>1, <1>3, <1>4, <1>5 DEF EpInv, EpTypeOK
  <1>9. \A t \in Runtimes : epPc'[t] = "bind" /\ path'[t] = DefaultPath(t) =>
              file'[path'[t]] = NoFile
    BY <1>1, <1>3, <1>4 DEF EpInv, EpTypeOK
  <1>10. /\ \A t \in Runtimes : epPc'[t] \in {"listen", "up"} => bound'[t]
         /\ \A t \in Runtimes : epPc'[t] = "fail" /\ ~bound'[t] => path'[t] # DefaultPath(t)
    BY <1>1 DEF EpInv
  <1> QED
    BY <1>6, <1>7, <1>8, <1>9, <1>10 DEF EpInv

(* Runtime r at work: what it holds, and that a map is not changed by writing  *)
(* back what is there.                                                          *)
LEMMA AtWork ==
    ASSUME EpInv, NEW r \in Runtimes, epPc[r] # "off"
    PROVE  /\ path[r] # NoPath /\ path[r] \in Paths /\ bound[r] \in BOOLEAN
           /\ file[path[r]] \in Runtimes \cup {Stale, NoFile}
           /\ path = [path EXCEPT ![r] = path[r]] /\ bound = [bound EXCEPT ![r] = bound[r]]
           /\ file = [file EXCEPT ![path[r]] = file[path[r]]]
  BY DEF EpInv, EpTypeOK

LEMMA WorkKeeps ==
    ASSUME EpInv, NEW r \in Runtimes,
           StartFail(r) \/ Bind(r) \/ Listen(r) \/ ListenFail(r) \/ FailClose(r) \/ Close(r)
           \/ FinalUnlink(r)
    PROVE  EpInv'
  <1>1. epPc[r] # "off" /\ UNCHANGED epLife
    BY DEF StartFail, Bind, Listen, ListenFail, FailClose, Close, FinalUnlink
  <1>2. /\ path[r] # NoPath /\ path[r] \in Paths /\ bound[r] \in BOOLEAN
        /\ file[path[r]] \in Runtimes \cup {Stale, NoFile}
        /\ path = [path EXCEPT ![r] = path[r]] /\ bound = [bound EXCEPT ![r] = bound[r]]
        /\ file = [file EXCEPT ![path[r]] = file[path[r]]]
    BY <1>1, AtWork
  <1>3. CASE StartFail(r)
    <2>1. ~bound[r]
      BY <1>3 DEF StartFail, EpInv
    <2> QED
      BY <1>2, <1>3, <2>1, OwnStepKeeps DEF StartFail, Go
  <1>4. CASE Bind(r)
    <2>1. CASE file[path[r]] = NoFile
      BY <1>2, <1>4, <2>1, OwnStepKeeps DEF Bind, Go
    <2>2. CASE file[path[r]] # NoFile
      <3>1. ~bound[r] /\ path[r] # DefaultPath(r)
        BY <1>4, <2>2 DEF Bind, EpInv
      <3> QED
        BY <1>2, <1>4, <2>2, <3>1, OwnStepKeeps DEF Bind, Go
    <2> QED
      BY <2>1, <2>2
  <1>5. CASE Listen(r)
    <2>1. bound[r] /\ file[path[r]] = r
      BY <1>5 DEF Listen, EpInv
    <2> QED
      BY <1>2, <1>5, <2>1, OwnStepKeeps DEF Listen, Go
  <1>6. CASE ListenFail(r)
    <2>1. bound[r] /\ file[path[r]] = r
      BY <1>6 DEF ListenFail, EpInv
    <2> QED
      BY <1>2, <1>6, <2>1, OwnStepKeeps DEF ListenFail, Go
  <1>7. CASE FailClose(r) \/ Close(r)
    <2>1. epPc' = [epPc EXCEPT ![r] = "unlink"] /\ path' = path /\ UvClose(r)
      BY <1>7 DEF FailClose, Close, Go
    <2>2. PICK f \in {NoFile, file[path[r]]} : file' = [file EXCEPT ![path[r]] = f]
      BY <1>2, <2>1 DEF UvClose, Unlink
    <2>3. bound' = [bound EXCEPT ![r] = FALSE]
      BY <2>1 DEF UvClose
    <2> QED
      BY <1>1, <1>2, <2>1, <2>2, <2>3, OwnStepKeeps
  <1>8. CASE FinalUnlink(r)
    <2>1. ~bound[r]
      BY <1>8 DEF FinalUnlink, EpInv
    <2> QED
      BY <1>2, <1>8, <2>1, OwnStepKeeps DEF FinalUnlink, Go, Unlink
  <1> QED
    BY <1>3, <1>4, <1>5, <1>6, <1>7, <1>8

LEMMA CrashKeeps ==
    ASSUME EpInv, NEW r \in Runtimes, Crash(r)
    PROVE  EpInv'
  <1>1. /\ \A t \in Runtimes \ {r} :
              path'[t] = path[t] /\ epPc'[t] = epPc[t] /\ bound'[t] = bound[t]
        /\ path'[r] = NoPath /\ epPc'[r] = "off" /\ bound'[r] = FALSE
    BY DEF Crash, Go, EpInv, EpTypeOK
  <1>2. \A q \in Paths : file'[q] = IF file[q] = r THEN Stale ELSE file[q]
    BY DEF Crash
  <1>3. \A t \in Runtimes \ {r} : path[t] # NoPath => path[t] \in Paths
    BY DEF EpInv, EpTypeOK
  <1>4. EpTypeOK'
    BY <1>1 DEF Crash, Go, EpInv, EpTypeOK
  <1>5. /\ \A t \in Runtimes : path'[t] # NoPath =>
                 path'[t] = DefaultPath(t) \/ path'[t] \in Explicit
        /\ \A t, u \in Runtimes : path'[t] # NoPath /\ path'[t] = path'[u] => t = u
    BY <1>1 DEF EpInv
  <1>6. \A t \in Runtimes : bound'[t] =>
              file'[path'[t]] = t /\ epPc'[t] \in {"listen", "up", "fail"}
    BY <1>1, <1>2, <1>3 DEF EpInv, EpTypeOK
  <1>7. \A t \in Runtimes : epPc'[t] = "bind" /\ path'[t] = DefaultPath(t) =>
              file'[path'[t]] = NoFile
    BY <1>1, <1>2, <1>3, PathsAreApart DEF EpInv, EpTypeOK
  <1>8. /\ \A t \in Runtimes : epPc'[t] \in {"listen", "up"} => bound'[t]
        /\ \A t \in Runtimes : epPc'[t] = "fail" /\ ~bound'[t] => path'[t] # DefaultPath(t)
    BY <1>1 DEF EpInv
  <1> QED
    BY <1>4, <1>5, <1>6, <1>7, <1>8 DEF EpInv

(* If callers give no explicit path to two runtimes at once, a runtime that     *)
(* listens is reached under its path, and what a killed process left behind     *)
(* does not keep a default path from being bound (qz_ctl_endpoint_init).         *)
THEOREM EndpointsFound ==
    ASSUME SharedPath = FALSE
    PROVE  EpSpec => []EndpointsAreFound
  <1>1. EpInv /\ UNCHANGED epVars => EpInv'
    BY DEF epVars, EpInv, EpTypeOK
  <1>2. EpInv /\ [EpNext]_epVars => EpInv'
    BY <1>1, StartKeeps, WorkKeeps, CrashKeeps DEF EpNext, EpIdle
  <1>3. EpInv => EndpointsAreFound
    BY DEF EpInv, EndpointsAreFound, EndpointReachable, DefaultPathIsFree
  <1> QED
    BY <1>2, <1>3, EpInitHolds, PTL DEF EpSpec
=============================================================================
