--------------------------- MODULE MsgQueueProofs ---------------------------
(***************************************************************************)
(* Proofs about MsgQueue, for any number of producers, messages and heap   *)
(* addresses, of a queue whose producers have stopped when the teardown    *)
(* begins.                                                                 *)
(*                                                                         *)
(* The invariant that carries everything is about the list of nodes from   *)
(* msg_head to msg_tail in the order of the tail exchange (the history     *)
(* variable chain).  Its nodes are distinct and allocated.  Two neighbours *)
(* are linked, or exactly one producer is about to link them: a gap in the *)
(* list always has an owner, and the consumer cannot cross it.             *)
(***************************************************************************)
EXTENDS MsgQueue, SequenceTheorems, TLAPS

Running == mode \in {"blocked", "drain"}

(* The chain runs from msg_head to msg_tail through distinct nodes.  Only  *)
(* its first node can be the stub.                                         *)
ChainShape ==
    /\ Len(chain) >= 1
    /\ chain[1] = msg_head
    /\ mode # "closed" => chain[Len(chain)] = msg_tail
    /\ chain[1] \in live \cup {Stub}
    /\ \A i \in 2 .. Len(chain) : chain[i] \in live
    /\ \A i, j \in 1 .. Len(chain) : chain[i] = chain[j] => i = j

(* Neighbours in the chain are linked unless a producer is about to do it. *)
ChainLinks ==
    /\ \A i \in 1 .. Len(chain) - 1 :
         \/ next[chain[i]] = chain[i + 1]
         \/ /\ next[chain[i]] = NULL
            /\ \E p \in Producers :
                 pc[p] = "link" /\ prev[p] = chain[i] /\ node[p] = chain[i + 1]
    /\ mode # "closed" => next[chain[Len(chain)]] = NULL

(* What a producer holds between malloc and the end of its push. *)
ProducerState ==
    /\ \A p \in Producers :
         pc[p] = "exchange" =>
           /\ node[p] \in live
           /\ next[node[p]] = NULL
           /\ data[node[p]] = <<p, count[p]>>
           /\ count[p] >= 1
           /\ \A i \in 1 .. Len(chain) : chain[i] # node[p]
    /\ \A p \in Producers :
         pc[p] = "link" =>
           \E i \in 1 .. Len(chain) - 1 :
             prev[p] = chain[i] /\ node[p] = chain[i + 1] /\ next[chain[i]] = NULL
    /\ \A p, q \in Producers :
         /\ pc[p] \in {"exchange", "link"}
         /\ pc[q] \in {"exchange", "link"}
         /\ node[p] = node[q]
         => p = q
    /\ ~Running => \A p \in Producers : pc[p] = "idle"

(* While the runtime runs, the messages in the chain are those claimed and *)
(* not yet dispatched.                                                     *)
Pending ==
    /\ \A i \in 2 .. Len(chain) : data[chain[i]] \in Messages
    /\ Running =>
         /\ Len(claimed) = Len(delivered) + (Len(chain) - 1)
         /\ \A i \in 2 .. Len(chain) :
              claimed[Len(delivered) + (i - 1)] = data[chain[i]]

(* Every allocated node is in the chain or owned by a producer. *)
Accounted ==
    /\ \A a \in live :
         \/ \E i \in 1 .. Len(chain) : chain[i] = a
         \/ \E p \in Producers : pc[p] = "exchange" /\ node[p] = a
    /\ mode = "closed" => live = {}

IInv ==
    /\ TypeOK
    /\ ChainShape
    /\ ChainLinks
    /\ ProducerState
    /\ Pending
    /\ FifoOrder
    /\ Accounted

-----------------------------------------------------------------------------
(* Initially the chain is the stub alone. *)
LEMMA InitIInv == Init => IInv
<1> SUFFICES ASSUME Init PROVE IInv
  OBVIOUS
<1> USE ConstantsAssumption DEF Init
<1>1. TypeOK
  <2>1. chain \in Seq(Nodes) /\ delivered \in Seq(Messages) /\ claimed \in Seq(Messages)
    BY DEF Nodes
  <2>2. count \in [Producers -> 0 .. MaxPush]
    OBVIOUS
  <2> QED BY <2>1, <2>2 DEF TypeOK, Nodes
<1>2. Len(chain) = 1 /\ chain[1] = Stub
  OBVIOUS
<1>3. ChainShape /\ ChainLinks /\ Pending
  BY <1>2 DEF ChainShape, ChainLinks, Pending, Running, Nodes
<1>4. ProducerState /\ FifoOrder /\ Accounted
  BY DEF ProducerState, FifoOrder, Accounted, Running
<1> QED BY <1>1, <1>3, <1>4 DEF IInv

(* A rejected push leaves the queue as it is. *)
LEMMA PushRejectIInv ==
  ASSUME IInv, NEW p \in Producers, PushReject(p)
  PROVE  IInv'
<1> USE ConstantsAssumption
<1>1. TypeOK'
  <2>1. count' \in [Producers -> 0 .. MaxPush]
    BY DEF IInv, TypeOK, PushReject, MayPush
  <2>2. UNCHANGED <<queueVars, pc, node, prev, wake, mode, historyVars>>
    BY DEF PushReject
  <2> QED BY <2>1, <2>2 DEF IInv, TypeOK, queueVars, historyVars
<1>2. ChainShape' /\ ChainLinks' /\ Pending' /\ FifoOrder' /\ Accounted'
  BY DEF IInv, PushReject, queueVars, historyVars, ChainShape, ChainLinks, Pending,
         FifoOrder, Accounted, Running
<1>3. ProducerState'
  BY ZenonT(30) DEF IInv, TypeOK, PushReject, MayPush, queueVars, historyVars, ProducerState, Running
<1> QED BY <1>1, <1>2, <1>3 DEF IInv

(* The fresh node is in nobody's hands but the producer's. *)
LEMMA PushAllocIInv ==
  ASSUME LatePost = FALSE, IInv, NEW p \in Producers, PushAlloc(p)
  PROVE  IInv'
<1> USE ConstantsAssumption
<1>0. PICK a \in Addrs \ live :
         /\ live' = live \cup {a}
         /\ data' = [data EXCEPT ![a] = <<p, count[p] + 1>>]
         /\ next' = [next EXCEPT ![a] = NULL]
         /\ node' = [node EXCEPT ![p] = a]
  BY DEF PushAlloc
<1> USE DEF IInv
<1>a. /\ pc[p] = "idle" /\ pc' = [pc EXCEPT ![p] = "exchange"]
      /\ count[p] < MaxPush /\ count' = [count EXCEPT ![p] = @ + 1]
      /\ mode \in {"blocked", "drain"}
      /\ UNCHANGED <<msg_head, msg_tail, prev, wake, mode, delivered, claimed, chain>>
  BY DEF PushAlloc, MayPush, historyVars
<1>b. a # Stub /\ a \in Nodes /\ \A i \in 1 .. Len(chain) : chain[i] # a /\ chain[i] \in Nodes
  BY DEF ChainShape, TypeOK, Nodes
<1>c. \A i \in 1 .. Len(chain) :
         next'[chain[i]] = next[chain[i]] /\ data'[chain[i]] = data[chain[i]]
  BY <1>0, <1>b DEF TypeOK
<1>d. \A q \in Producers : q # p =>
         pc'[q] = pc[q] /\ node'[q] = node[q] /\ count'[q] = count[q]
  BY <1>0, <1>a DEF TypeOK
<1>e. pc'[p] = "exchange" /\ node'[p] = a /\ count'[p] = count[p] + 1
  BY <1>0, <1>a DEF TypeOK
<1>1. TypeOK'
  <2>1. <<p, count[p] + 1>> \in Messages
    BY <1>a DEF TypeOK, Messages
  <2> QED BY <1>0, <1>a, <2>1 DEF TypeOK, Nodes
<1>2. ChainShape'
  BY <1>0, <1>a DEF ChainShape
<1>f. Len(chain) \in Nat /\ Len(chain) >= 1
  BY DEF ChainShape, TypeOK
<1>3. ChainLinks'
  <2>1. ASSUME NEW i \in 1 .. Len(chain) - 1
        PROVE  \/ next'[chain[i]] = chain[i + 1]
               \/ /\ next'[chain[i]] = NULL
                  /\ \E q \in Producers :
                       pc'[q] = "link" /\ prev[q] = chain[i] /\ node'[q] = chain[i + 1]
    <3>1. i \in 1 .. Len(chain) /\ next'[chain[i]] = next[chain[i]]
      BY <1>c, <1>f
    <3> QED BY <3>1, <1>a, <1>d DEF ChainLinks
  <2>2. next'[chain[Len(chain)]] = next[chain[Len(chain)]]
    BY <1>c, <1>f
  <2> QED BY <2>1, <2>2, <1>a DEF ChainLinks
<1>4. ProducerState'
  <2>1. ASSUME NEW q \in Producers, pc'[q] = "exchange"
        PROVE  /\ node'[q] \in live'
               /\ next'[node'[q]] = NULL
               /\ data'[node'[q]] = <<q, count'[q]>>
               /\ count'[q] >= 1
               /\ \A i \in 1 .. Len(chain') : chain'[i] # node'[q]
    <3>1. CASE q = p
      BY <3>1, <1>0, <1>a, <1>b, <1>e DEF TypeOK
    <3>2. CASE q # p
      BY <2>1, <3>2, <1>0, <1>a, <1>d DEF ProducerState, TypeOK, Nodes
    <3> QED BY <3>1, <3>2
  <2>2. ASSUME NEW q \in Producers, pc'[q] = "link"
        PROVE  \E i \in 1 .. Len(chain') - 1 :
                 /\ prev'[q] = chain'[i] /\ node'[q] = chain'[i + 1]
                 /\ next'[chain'[i]] = NULL
    <3>1. q # p /\ pc[q] = "link"
      BY <2>2, <1>d, <1>e
    <3>2. PICK i \in 1 .. Len(chain) - 1 :
             prev[q] = chain[i] /\ node[q] = chain[i + 1] /\ next[chain[i]] = NULL
      BY <3>1 DEF ProducerState
    <3>3. i \in 1 .. Len(chain) /\ next'[chain[i]] = next[chain[i]]
      BY <1>c, <1>f
    <3> QED BY <3>1, <3>2, <3>3, <1>a, <1>d
  <2>3. ASSUME NEW q \in Producers, NEW r \in Producers,
               pc'[q] \in {"exchange", "link"}, pc'[r] \in {"exchange", "link"},
               node'[q] = node'[r]
        PROVE  q = r
    <3>1. ASSUME NEW t \in Producers, t # p, pc[t] \in {"exchange", "link"}
          PROVE  node[t] # a
      <4>1. CASE pc[t] = "exchange"
        BY <4>1 DEF ProducerState
      <4>2. CASE pc[t] = "link"
        <5>1. PICK i \in 1 .. Len(chain) - 1 : node[t] = chain[i + 1]
          BY <4>2 DEF ProducerState
        <5>2. i + 1 \in 1 .. Len(chain)
          BY <1>f
        <5> QED BY <5>1, <5>2, <1>b
      <4> QED BY <3>1, <4>1, <4>2
    <3> QED BY <2>3, <3>1, <1>d, <1>e DEF ProducerState
  <2>4. Running'
    BY <1>a DEF Running
  <2> QED BY <2>1, <2>2, <2>3, <2>4 DEF ProducerState
<1>5. Pending' /\ FifoOrder'
  BY <1>a, <1>c DEF Pending, FifoOrder, TypeOK, Running
<1>6. Accounted'
  <2>0. mode' # "closed"
    BY <1>a
  <2> SUFFICES ASSUME NEW b \in live'
               PROVE  \/ \E i \in 1 .. Len(chain) : chain[i] = b
                      \/ \E q \in Producers : pc'[q] = "exchange" /\ node'[q] = b
    BY <2>0, <1>a DEF Accounted
  <2>1. CASE b = a
    BY <2>1, <1>e
  <2>2. CASE b \in live
    <3>1. CASE \E q \in Producers : pc[q] = "exchange" /\ node[q] = b
      BY <3>1, <1>a, <1>d
    <3> QED BY <2>2, <3>1 DEF Accounted
  <2> QED BY <2>1, <2>2, <1>0
<1> QED BY <1>1, <1>2, <1>3, <1>4, <1>5, <1>6

(* The node becomes the end of the chain; the producer owns the new gap. *)
LEMMA PushExchangeIInv ==
  ASSUME LatePost = FALSE, IInv, NEW p \in Producers, PushExchange(p)
  PROVE  IInv'
<1> USE ConstantsAssumption
<1> USE DEF IInv
<1>a. /\ pc[p] = "exchange" /\ pc' = [pc EXCEPT ![p] = "link"]
      /\ prev' = [prev EXCEPT ![p] = msg_tail]
      /\ msg_tail' = node[p]
      /\ claimed' = Append(claimed, data[node[p]])
      /\ chain' = Append(chain, node[p])
      /\ UNCHANGED <<msg_head, next, data, live, node, count, wake, mode, delivered>>
  BY DEF PushExchange
<1>b. /\ node[p] \in live /\ node[p] \in Nodes /\ next[node[p]] = NULL
      /\ data[node[p]] \in Messages
      /\ \A i \in 1 .. Len(chain) : chain[i] # node[p]
  <2>1. <<p, count[p]>> \in Messages
    BY <1>a DEF ProducerState, TypeOK, Messages
  <2> QED BY <2>1, <1>a DEF ProducerState, TypeOK, Nodes
<1>c. Running /\ mode # "closed"
  BY <1>a DEF ProducerState, Running
<1>d. /\ Len(chain') = Len(chain) + 1 /\ chain'[Len(chain) + 1] = node[p]
      /\ \A i \in 1 .. Len(chain) : chain'[i] = chain[i]
      /\ Len(chain) \in Nat /\ Len(chain) >= 1
  BY <1>a, <1>b DEF TypeOK, ChainShape
<1>e. \A q \in Producers : q # p => pc'[q] = pc[q] /\ prev'[q] = prev[q]
  BY <1>a DEF TypeOK
<1>f. pc'[p] = "link" /\ prev'[p] = chain[Len(chain)] /\ next[chain[Len(chain)]] = NULL
  BY <1>a, <1>c DEF TypeOK, ChainShape, ChainLinks
<1>1. TypeOK'
  BY <1>a, <1>b DEF TypeOK, Nodes
<1>2. ChainShape'
  BY <1>a, <1>b, <1>c, <1>d DEF ChainShape
<1>3. ChainLinks'
  <2>1. ASSUME NEW i \in 1 .. Len(chain') - 1
        PROVE  \/ next'[chain'[i]] = chain'[i + 1]
               \/ /\ next'[chain'[i]] = NULL
                  /\ \E q \in Producers :
                       pc'[q] = "link" /\ prev'[q] = chain'[i] /\ node'[q] = chain'[i + 1]
    <3>1. CASE i = Len(chain)
      <4>1. chain'[i] = chain[Len(chain)] /\ chain'[i + 1] = node[p]
        BY <3>1, <1>d
      <4>2. pc'[p] = "link" /\ prev'[p] = chain[Len(chain)] /\ node'[p] = node[p]
        BY <1>a, <1>f
      <4>3. next'[chain'[i]] = NULL
        <5>1. next' = next
          BY <1>a
        <5> QED BY <5>1, <4>1, <1>f
      <4> QED BY <4>1, <4>2, <4>3
    <3>2. CASE i # Len(chain)
      <4>1. i \in 1 .. Len(chain) - 1 /\ i + 1 \in 1 .. Len(chain)
        BY <3>2, <2>1, <1>d
      <4> QED BY <4>1, <1>a, <1>d, <1>e, SMTT(30) DEF ChainLinks
    <3> QED BY <3>1, <3>2
  <2>2. next'[chain'[Len(chain')]] = NULL
    BY <1>a, <1>b, <1>d
  <2> QED BY <2>1, <2>2 DEF ChainLinks
<1>4. ProducerState'
  <2>1. ASSUME NEW q \in Producers, pc'[q] = "exchange"
        PROVE  /\ node'[q] \in live'
               /\ next'[node'[q]] = NULL
               /\ data'[node'[q]] = <<q, count'[q]>>
               /\ count'[q] >= 1
               /\ \A i \in 1 .. Len(chain') : chain'[i] # node'[q]
    <3>1. q # p /\ pc[q] = "exchange" /\ node[q] # node[p]
      BY <2>1, <1>a, <1>e, <1>f DEF ProducerState
    <3>2. ASSUME NEW i \in 1 .. Len(chain') PROVE chain'[i] # node'[q]
      <4>1. CASE i = Len(chain) + 1
        BY <4>1, <3>1, <1>a, <1>d
      <4>2. CASE i # Len(chain) + 1
        BY <4>2, <3>1, <1>a, <1>d DEF ProducerState
      <4> QED BY <4>1, <4>2
    <3> QED BY <3>1, <3>2, <1>a DEF ProducerState
  <2>2. ASSUME NEW q \in Producers, pc'[q] = "link"
        PROVE  \E i \in 1 .. Len(chain') - 1 :
                 /\ prev'[q] = chain'[i] /\ node'[q] = chain'[i + 1]
                 /\ next'[chain'[i]] = NULL
    <3>1. CASE q = p
      <4>1. /\ Len(chain) \in 1 .. Len(chain') - 1
            /\ chain'[Len(chain)] = chain[Len(chain)]
            /\ chain'[Len(chain) + 1] = node[p]
        BY <1>d
      <4>2. /\ prev'[q] = chain[Len(chain)] /\ node'[q] = node[p]
            /\ next'[chain[Len(chain)]] = NULL
        BY <3>1, <1>a, <1>f
      <4> QED BY <4>1, <4>2
    <3>2. CASE q # p
      <4>1. PICK i \in 1 .. Len(chain) - 1 :
               prev[q] = chain[i] /\ node[q] = chain[i + 1] /\ next[chain[i]] = NULL
        BY <2>2, <3>2, <1>e DEF ProducerState
      <4>2. i \in 1 .. Len(chain') - 1 /\ chain'[i] = chain[i] /\ chain'[i + 1] = chain[i + 1]
        BY <1>d
      <4> QED BY <4>1, <4>2, <3>2, <1>a, <1>e
    <3> QED BY <3>1, <3>2
  <2>3. ASSUME NEW q \in Producers, NEW r \in Producers,
               pc'[q] \in {"exchange", "link"}, pc'[r] \in {"exchange", "link"},
               node'[q] = node'[r]
        PROVE  q = r
    BY <2>3, <1>a, <1>e, <1>f DEF ProducerState
  <2>4. Running'
    BY <1>a, <1>c DEF Running
  <2> QED BY <2>1, <2>2, <2>3, <2>4 DEF ProducerState
<1>5. Pending'
  <2>1. /\ Len(claimed') = Len(claimed) + 1
        /\ claimed'[Len(claimed) + 1] = data[node[p]]
        /\ \A i \in 1 .. Len(claimed) : claimed'[i] = claimed[i]
        /\ Len(claimed) = Len(delivered) + (Len(chain) - 1)
        /\ Len(delivered) \in Nat
    BY <1>a, <1>b, <1>c DEF TypeOK, Pending
  <2>2. ASSUME NEW i \in 2 .. Len(chain')
        PROVE  /\ data'[chain'[i]] \in Messages
               /\ claimed'[Len(delivered') + (i - 1)] = data'[chain'[i]]
    <3>1. CASE i = Len(chain) + 1
      BY <3>1, <2>1, <1>a, <1>b, <1>d
    <3>2. CASE i # Len(chain) + 1
      <4>1. i \in 2 .. Len(chain) /\ Len(delivered) + (i - 1) \in 1 .. Len(claimed)
        BY <3>2, <2>1, <1>d
      <4> QED BY <4>1, <2>1, <1>a, <1>c, <1>d DEF Pending
    <3> QED BY <3>1, <3>2
  <2> QED BY <2>1, <2>2, <1>a, <1>d DEF Pending
<1>6. FifoOrder'
  BY <1>a, <1>b DEF FifoOrder, TypeOK
<1>7. Accounted'
  <2> SUFFICES ASSUME NEW a \in live
               PROVE  \/ \E i \in 1 .. Len(chain') : chain'[i] = a
                      \/ \E q \in Producers : pc'[q] = "exchange" /\ node'[q] = a
    BY <1>a DEF Accounted
  <2>1. CASE \E i \in 1 .. Len(chain) : chain[i] = a
    BY <2>1, <1>d
  <2>2. CASE a = node[p]
    BY <2>2, <1>d
  <2>3. CASE \E q \in Producers : q # p /\ pc[q] = "exchange" /\ node[q] = a
    BY <2>3, <1>a, <1>e
  <2> QED BY <2>1, <2>2, <2>3 DEF Accounted
<1> QED BY <1>1, <1>2, <1>3, <1>4, <1>5, <1>6, <1>7

(* The producer closes its own gap and no other. *)
LEMMA PushLinkIInv ==
  ASSUME IInv, NEW p \in Producers, PushLink(p)
  PROVE  IInv'
<1> USE ConstantsAssumption
<1> USE DEF IInv
<1>a. /\ pc[p] = "link" /\ pc' = [pc EXCEPT ![p] = "send"]
      /\ next' = [next EXCEPT ![prev[p]] = node[p]]
      /\ UNCHANGED <<msg_head, msg_tail, data, live, node, prev, count, wake, mode,
                     delivered, claimed, chain>>
  BY DEF PushLink, historyVars
<1>b. PICK k \in 1 .. Len(chain) - 1 :
         prev[p] = chain[k] /\ node[p] = chain[k + 1] /\ next[chain[k]] = NULL
  BY <1>a DEF ProducerState
<1>c. /\ Len(chain) \in Nat /\ \A i \in 1 .. Len(chain) : chain[i] \in Nodes
      /\ k \in 1 .. Len(chain) /\ k + 1 \in 1 .. Len(chain) /\ k # Len(chain)
  BY DEF TypeOK
<1>d. /\ next'[chain[k]] = chain[k + 1]
      /\ \A i \in 1 .. Len(chain) : i # k => next'[chain[i]] = next[chain[i]]
  BY <1>a, <1>b, <1>c DEF TypeOK, ChainShape
<1>e. pc'[p] = "send" /\ \A q \in Producers : q # p => pc'[q] = pc[q]
  BY <1>a DEF TypeOK
<1>1. TypeOK'
  BY <1>a, <1>b, <1>c DEF TypeOK, Nodes
<1>2. ChainShape'
  BY <1>a DEF ChainShape
<1>3. ChainLinks'
  <2>1. ASSUME NEW i \in 1 .. Len(chain) - 1
        PROVE  \/ next'[chain[i]] = chain[i + 1]
               \/ /\ next'[chain[i]] = NULL
                  /\ \E q \in Producers :
                       pc'[q] = "link" /\ prev[q] = chain[i] /\ node[q] = chain[i + 1]
    <3>1. CASE i = k
      BY <3>1, <1>d
    <3>2. CASE i # k
      <4>1. i \in 1 .. Len(chain) /\ chain[i] # chain[k]
        BY <3>2, <1>c DEF ChainShape
      <4> QED BY <4>1, <3>2, <1>b, <1>d, <1>e DEF ChainLinks
    <3> QED BY <3>1, <3>2
  <2>2. mode # "closed" => next'[chain[Len(chain)]] = NULL
    <3>1. Len(chain) \in 1 .. Len(chain)
      BY <1>c
    <3> QED BY <3>1, <1>c, <1>d DEF ChainLinks
  <2> QED BY <2>1, <2>2, <1>a DEF ChainLinks
<1>4. ProducerState'
  <2>1. ASSUME NEW q \in Producers, pc'[q] = "exchange"
        PROVE  /\ node'[q] \in live'
               /\ next'[node'[q]] = NULL
               /\ data'[node'[q]] = <<q, count'[q]>>
               /\ count'[q] >= 1
               /\ \A i \in 1 .. Len(chain') : chain'[i] # node'[q]
    <3>1. pc[q] = "exchange" /\ node[q] # prev[p]
      BY <2>1, <1>b, <1>c, <1>e DEF ProducerState
    <3> QED BY <3>1, <1>a DEF ProducerState, TypeOK
  <2>2. ASSUME NEW q \in Producers, pc'[q] = "link"
        PROVE  \E i \in 1 .. Len(chain') - 1 :
                 /\ prev'[q] = chain'[i] /\ node'[q] = chain'[i + 1]
                 /\ next'[chain'[i]] = NULL
    <3>1. q # p /\ pc[q] = "link"
      BY <2>2, <1>e
    <3>2. PICK i \in 1 .. Len(chain) - 1 :
             prev[q] = chain[i] /\ node[q] = chain[i + 1] /\ next[chain[i]] = NULL
      BY <3>1 DEF ProducerState
    <3>3. CASE i # k
      BY <3>2, <3>3, <1>a, <1>c, <1>d
    <3>4. CASE i = k
      BY <3>1, <3>2, <3>4, <1>a, <1>b DEF ProducerState
    <3> QED BY <3>3, <3>4
  <2>3. ASSUME NEW q \in Producers, NEW r \in Producers,
               pc'[q] \in {"exchange", "link"}, pc'[r] \in {"exchange", "link"},
               node'[q] = node'[r]
        PROVE  q = r
    BY <2>3, <1>a, <1>e DEF ProducerState
  <2>4. (~Running)' => \A q \in Producers : pc'[q] = "idle"
    BY <1>a DEF ProducerState, Running
  <2> QED BY <2>1, <2>2, <2>3, <2>4 DEF ProducerState
<1>5. Pending' /\ FifoOrder'
  BY <1>a DEF Pending, FifoOrder, Running
<1>6. Accounted'
  BY <1>a, <1>e DEF Accounted
<1> QED BY <1>1, <1>2, <1>3, <1>4, <1>5, <1>6

(* Steps that change neither the list nor what the producers hold. *)
LEMMA ControlStepIInv ==
  ASSUME LatePost = FALSE, IInv,
         \/ \E p \in Producers : PushWake(p)
         \/ WakeCallback
         \/ PopNothing
         \/ StartTeardown
         \/ UNCHANGED vars
  PROVE  IInv'
<1> USE ConstantsAssumption
<1> USE DEF IInv
<1>a. UNCHANGED <<msg_head, msg_tail, next, data, live, node, prev, count, delivered,
                  claimed, chain>>
  BY DEF PushWake, WakeCallback, PopNothing, StartTeardown, vars, queueVars,
         producerVars, historyVars
<1>b. /\ mode' \in {"blocked", "drain", "teardown", "closed"}
      /\ mode' = "closed" <=> mode = "closed"
      /\ Running' => Running
      /\ Running /\ ~Running' => \A p \in Producers : pc'[p] = "idle"
  BY DEF PushWake, WakeCallback, PopNothing, StartTeardown, vars, queueVars,
         producerVars, historyVars, Running, TypeOK
<1>c. /\ pc' \in [Producers -> {"idle", "exchange", "link", "send"}]
      /\ wake' \in BOOLEAN
      /\ \A p \in Producers :
           /\ pc'[p] = "exchange" <=> pc[p] = "exchange"
           /\ pc'[p] = "link" <=> pc[p] = "link"
           /\ pc[p] = "idle" => pc'[p] = "idle"
  <2>1. CASE \E p \in Producers : PushWake(p)
    BY <2>1 DEF PushWake, TypeOK
  <2>2. CASE WakeCallback \/ PopNothing \/ StartTeardown \/ UNCHANGED vars
    BY <2>2 DEF WakeCallback, PopNothing, StartTeardown, vars, producerVars, TypeOK
  <2> QED BY <2>1, <2>2
<1>1. TypeOK'
  BY <1>a, <1>b, <1>c DEF TypeOK
<1>2. ChainShape'
  BY <1>a, <1>b DEF ChainShape
<1>3. ChainLinks'
  BY <1>a, <1>b, <1>c DEF ChainLinks
<1>4. ProducerState'
  BY <1>a, <1>b, <1>c DEF ProducerState
<1>5. Pending' /\ FifoOrder'
  BY <1>a, <1>b DEF Pending, FifoOrder
<1>6. Accounted'
  BY <1>a, <1>b, <1>c DEF Accounted
<1> QED BY <1>1, <1>2, <1>3, <1>4, <1>5, <1>6

(* The consumer crosses a link: the second node becomes the first, and the *)
(* node it leaves is freed.  No producer holds that node as its            *)
(* predecessor, for its link is set already.                               *)
LEMMA AdvanceIInv ==
  ASSUME IInv, Pop \/ DrainPop
  PROVE  IInv'
<1> USE ConstantsAssumption
<1> USE DEF IInv
<1>a. /\ next[msg_head] # NULL
      /\ msg_head' = next[msg_head]
      /\ live' = IF msg_head = Stub THEN live ELSE live \ {msg_head}
      /\ chain' = Tail(chain)
      /\ mode \in {"drain", "teardown"}
      /\ UNCHANGED <<msg_tail, next, data, pc, node, prev, count, wake, mode, claimed>>
  BY DEF Pop, DrainPop, Advance, HasPending, producerVars
<1>b. /\ Len(chain) \in Nat /\ Len(chain) >= 2 /\ next[msg_head] = chain[2]
      /\ chain[1] = msg_head
      /\ \A i \in 1 .. Len(chain) : chain[i] \in Nodes
  BY <1>a DEF TypeOK, ChainShape, ChainLinks
<1>c. /\ chain' \in Seq(Nodes) /\ Len(chain') = Len(chain) - 1
      /\ \A i \in 1 .. Len(chain') : chain'[i] = chain[i + 1]
  BY <1>a, <1>b DEF TypeOK
<1>d. \A i \in 2 .. Len(chain) : chain[i] # msg_head /\ chain[i] \in live'
  BY <1>a, <1>b DEF ChainShape
<1>e. \A p \in Producers : pc[p] = "exchange" => node[p] \in live' /\ node[p] # msg_head
  BY <1>a, <1>b DEF ProducerState
<1>1. TypeOK'
  <2>1. delivered' \in Seq(Messages)
    <3>1. CASE Pop
      <4>1. data[chain[2]] \in Messages
        BY <1>b DEF Pending
      <4> QED BY <3>1, <4>1, <1>a, <1>b DEF Pop, TypeOK
    <3>2. CASE DrainPop
      BY <3>2 DEF DrainPop, TypeOK
    <3> QED BY <3>1, <3>2
  <2>2. msg_head' \in Nodes /\ live' \subseteq Addrs
    BY <1>a, <1>b DEF TypeOK
  <2> QED BY <2>1, <2>2, <1>a, <1>c DEF TypeOK
<1>2. ChainShape'
  <2>1. chain'[1] = chain[2] /\ chain'[Len(chain')] = chain[Len(chain)]
    BY <1>b, <1>c
  <2>2. \A i \in 1 .. Len(chain') : chain'[i] \in live'
    BY <1>b, <1>c, <1>d
  <2>3. ASSUME NEW i \in 1 .. Len(chain'), NEW j \in 1 .. Len(chain'), chain'[i] = chain'[j]
        PROVE  i = j
    <3>1. i + 1 \in 1 .. Len(chain) /\ j + 1 \in 1 .. Len(chain) /\ chain[i + 1] = chain[j + 1]
      BY <2>3, <1>b, <1>c
    <3> QED BY <3>1 DEF ChainShape
  <2> QED BY <2>1, <2>2, <2>3, <1>a, <1>b, <1>c DEF ChainShape
<1>3. ChainLinks'
  <2>1. ASSUME NEW i \in 1 .. Len(chain') - 1
        PROVE  \/ next'[chain'[i]] = chain'[i + 1]
               \/ /\ next'[chain'[i]] = NULL
                  /\ \E p \in Producers :
                       pc'[p] = "link" /\ prev'[p] = chain'[i] /\ node'[p] = chain'[i + 1]
    <3>1. /\ i + 1 \in 1 .. Len(chain) - 1
          /\ chain'[i] = chain[i + 1] /\ chain'[i + 1] = chain[(i + 1) + 1]
      BY <1>b, <1>c
    <3> QED BY <3>1, <1>a DEF ChainLinks
  <2>2. next'[chain'[Len(chain')]] = NULL
    BY <1>a, <1>b, <1>c DEF ChainLinks
  <2> QED BY <2>1, <2>2 DEF ChainLinks
<1>4. ProducerState'
  <2>1. ASSUME NEW p \in Producers, pc[p] = "exchange"
        PROVE  \A i \in 1 .. Len(chain') : chain'[i] # node[p]
    BY <2>1, <1>b, <1>c DEF ProducerState
  <2>2. ASSUME NEW p \in Producers, pc[p] = "link"
        PROVE  \E i \in 1 .. Len(chain') - 1 :
                 prev[p] = chain'[i] /\ node[p] = chain'[i + 1] /\ next[chain'[i]] = NULL
    <3>1. PICK i \in 1 .. Len(chain) - 1 :
             prev[p] = chain[i] /\ node[p] = chain[i + 1] /\ next[chain[i]] = NULL
      BY <2>2 DEF ProducerState
    <3>2. i # 1
      BY <3>1, <1>a, <1>b
    <3>3. /\ i - 1 \in 1 .. Len(chain') - 1
          /\ chain'[i - 1] = chain[i] /\ chain'[(i - 1) + 1] = chain[i + 1]
      BY <3>2, <1>b, <1>c
    <3> QED BY <3>1, <3>3
  <2> QED BY <2>1, <2>2, <1>a, <1>e, ZenonT(30) DEF ProducerState, Running
<1>5. Pending' /\ FifoOrder'
  <2>1. \A i \in 2 .. Len(chain') : data'[chain'[i]] \in Messages
    BY <1>a, <1>b, <1>c DEF Pending
  <2>2. CASE Pop
    <3>1. /\ delivered' = Append(delivered, data[chain[2]])
          /\ Running /\ Running'
      BY <2>2, <1>a, <1>b DEF Pop, Running
    <3>2. /\ Len(delivered) \in Nat /\ Len(delivered') = Len(delivered) + 1
          /\ delivered'[Len(delivered) + 1] = data[chain[2]]
          /\ \A i \in 1 .. Len(delivered) : delivered'[i] = delivered[i]
      <4>1. data[chain[2]] \in Messages
        BY <1>b DEF Pending
      <4> QED BY <3>1, <4>1 DEF TypeOK
    <3>3. claimed[Len(delivered) + 1] = data[chain[2]]
      BY <3>1, <3>2, <1>b DEF Pending
    <3>4. Len(claimed) = Len(delivered') + (Len(chain') - 1)
      <4>1. Len(claimed) = Len(delivered) + (Len(chain) - 1)
        BY <3>1 DEF Pending
      <4> QED BY <4>1, <3>2, <1>b, <1>c
    <3>5. ASSUME NEW i \in 2 .. Len(chain')
          PROVE  claimed[Len(delivered') + (i - 1)] = data[chain'[i]]
      <4>1. /\ i + 1 \in 2 .. Len(chain) /\ chain'[i] = chain[i + 1]
            /\ Len(delivered') + (i - 1) = Len(delivered) + ((i + 1) - 1)
        BY <3>2, <1>b, <1>c
      <4> QED BY <4>1, <3>1 DEF Pending
    <3>6. FifoOrder'
      BY <3>2, <3>3, <3>4, <1>a, <1>b, <1>c DEF FifoOrder
    <3> QED BY <2>1, <3>1, <3>4, <3>5, <3>6, <1>a DEF Pending
  <2>3. CASE DrainPop
    BY <2>1, <2>3, <1>a DEF DrainPop, Pending, FifoOrder, Running
  <2> QED BY <2>2, <2>3
<1>6. Accounted'
  <2> SUFFICES ASSUME NEW a \in live'
               PROVE  \/ \E i \in 1 .. Len(chain') : chain'[i] = a
                      \/ \E p \in Producers : pc[p] = "exchange" /\ node[p] = a
    BY <1>a DEF Accounted
  <2>1. a \in live /\ a # msg_head
    BY <1>a DEF TypeOK
  <2>2. ASSUME NEW i \in 1 .. Len(chain), chain[i] = a
        PROVE  i - 1 \in 1 .. Len(chain') /\ chain'[i - 1] = a
    <3>1. i # 1
      BY <2>1, <2>2, <1>b
    <3> QED BY <2>2, <3>1, <1>b, <1>c
  <2> QED BY <2>1, <2>2 DEF Accounted
<1> QED BY <1>1, <1>2, <1>3, <1>4, <1>5, <1>6

(* The end of the drain leaves the stub alone. *)
LEMMA DrainEndIInv ==
  ASSUME IInv, DrainEnd
  PROVE  IInv'
<1> USE ConstantsAssumption
<1> USE DEF IInv
<1>a. /\ mode = "teardown" /\ mode' = "closed" /\ next[msg_head] = NULL
      /\ live' = IF msg_head = Stub THEN live ELSE live \ {msg_head}
      /\ msg_head' = Stub /\ chain' = <<Stub>>
      /\ UNCHANGED <<msg_tail, next, data, pc, node, prev, count, wake, delivered, claimed>>
  BY DEF DrainEnd, HasPending, producerVars
<1>b. \A p \in Producers : pc[p] = "idle"
  BY <1>a DEF ProducerState, Running
<1>c. Len(chain) = 1 /\ chain[1] = msg_head
  <2>1. Len(chain) \in Nat /\ Len(chain) >= 1 /\ chain[1] = msg_head
    BY DEF ChainShape, TypeOK
  <2>2. ASSUME Len(chain) # 1 PROVE FALSE
    <3>0. \A n \in Nat : n >= 1 /\ n # 1 => 1 \in 1 .. n - 1 /\ 2 \in 2 .. n
      OBVIOUS
    <3>1. 1 \in 1 .. Len(chain) - 1 /\ 2 \in 2 .. Len(chain)
      BY <2>1, <2>2, <3>0
    <3>3. chain[2] \in live
      BY <3>1 DEF ChainShape
    <3>2. next[chain[1]] = chain[1 + 1]
      BY <3>1, <1>b DEF ChainLinks
    <3> QED BY <2>1, <3>2, <3>3, <1>a DEF TypeOK
  <2> QED BY <2>1, <2>2
<1>d. Len(chain') = 1 /\ chain'[1] = Stub
  BY <1>a
<1>e. live' = {}
  <2> SUFFICES ASSUME NEW a \in live, a # msg_head PROVE FALSE
    BY <1>a DEF TypeOK
  <2>1. PICK i \in 1 .. Len(chain) : chain[i] = a
    BY <1>b DEF Accounted
  <2> QED BY <2>1, <1>c
<1>1. TypeOK'
  <2>1. chain' \in Seq(Nodes)
    BY <1>a DEF Nodes
  <2> QED BY <2>1, <1>a, <1>e DEF TypeOK, Nodes
<1>2. ChainShape' /\ ChainLinks'
  BY <1>a, <1>d DEF ChainShape, ChainLinks
<1>3. ProducerState'
  BY <1>a, <1>b DEF ProducerState
<1>4. Pending' /\ FifoOrder'
  BY <1>a, <1>d DEF Pending, FifoOrder, Running
<1>5. Accounted'
  BY <1>e DEF Accounted
<1> QED BY <1>1, <1>2, <1>3, <1>4, <1>5

-----------------------------------------------------------------------------
(* The invariant is inductive. *)
LEMMA NextIInv ==
  ASSUME LatePost = FALSE, IInv, [Next]_vars
  PROVE  IInv'
<1>1. ASSUME NEW p \in Producers, PushReject(p) PROVE IInv'
  BY <1>1, PushRejectIInv
<1>2. ASSUME NEW p \in Producers, PushAlloc(p) PROVE IInv'
  BY <1>2, PushAllocIInv
<1>3. ASSUME NEW p \in Producers, PushExchange(p) PROVE IInv'
  BY <1>3, PushExchangeIInv
<1>4. ASSUME NEW p \in Producers, PushLink(p) PROVE IInv'
  BY <1>4, PushLinkIInv
<1>5. ASSUME NEW p \in Producers, PushWake(p) PROVE IInv'
  BY <1>5, ControlStepIInv
<1>6. CASE WakeCallback \/ PopNothing \/ StartTeardown \/ Stopped \/ UNCHANGED vars
  BY <1>6, ControlStepIInv DEF Stopped
<1>7. CASE Pop \/ DrainPop
  BY <1>7, AdvanceIInv
<1>8. CASE DrainEnd
  BY <1>8, DrainEndIInv
<1> QED BY <1>1, <1>2, <1>3, <1>4, <1>5, <1>6, <1>7, <1>8 DEF Next, Push

(* IInv is an invariant of every queue whose producers stop before the     *)
(* teardown drain of qz_thread_teardown.                                   *)
THEOREM Invariance ==
  ASSUME LatePost = FALSE
  PROVE  Spec => []IInv
<1>1. Init => IInv
  BY InitIInv
<1>2. IInv /\ [Next]_vars => IInv'
  BY NextIInv
<1> QED BY <1>1, <1>2, PTL DEF Spec

(* qz_msg_push never writes through a freed predecessor, and msg_head never *)
(* dangles, although qz_msg_pop frees nodes while producers run.            *)
THEOREM MemorySafety ==
  ASSUME LatePost = FALSE
  PROVE  Spec => []NoUseAfterFree
<1>1. IInv => NoUseAfterFree
  <2> SUFFICES ASSUME IInv PROVE NoUseAfterFree
    OBVIOUS
  <2>1. msg_head \in live \cup {Stub}
    BY DEF IInv, ChainShape
  <2>2. ASSUME NEW p \in Producers, pc[p] = "link"
        PROVE  prev[p] \in live \cup {Stub}
    <3>1. PICK i \in 1 .. Len(chain) - 1 : prev[p] = chain[i]
      BY <2>2 DEF IInv, ProducerState
    <3>2. i = 1 \/ i \in 2 .. Len(chain)
      BY DEF IInv, TypeOK
    <3> QED BY <3>1, <3>2 DEF IInv, ChainShape
  <2> QED BY <2>1, <2>2 DEF NoUseAfterFree, IInv, ProducerState
<1> QED BY <1>1, Invariance, PTL

(* Messages are dispatched exactly in the order of the tail exchange. *)
THEOREM FifoDispatch ==
  ASSUME LatePost = FALSE
  PROVE  Spec => []FifoOrder
<1>1. IInv => FifoOrder
  BY DEF IInv
<1> QED BY <1>1, Invariance, PTL

(* Every variable of the queue stays in its type, and the teardown drain    *)
(* frees every node.                                                        *)
THEOREM NodesStayKept ==
  ASSUME LatePost = FALSE
  PROVE  Spec => []NodesAreKept
<1>1. IInv => TypeOK
  BY DEF IInv
<1>2. IInv => NoLeakAtClose
  BY DEF IInv, Accounted, NoLeakAtClose
<1> QED BY <1>1, <1>2, Invariance, PTL DEF NodesAreKept

-----------------------------------------------------------------------------
(* The refinement of the abstract queue MsgFifo. *)

(* The refinement needs to know which push of which producer a queued node  *)
(* belongs to: numbers are not used twice.                                  *)
Numbered ==
    /\ \A p \in Producers : \A i \in 2 .. Len(chain) : \A n \in Nat :
         n > count[p] => data[chain[i]] # <<p, n>>
    /\ \A p \in Producers :
         pc[p] = "exchange" => \A i \in 2 .. Len(chain) : data[chain[i]] # <<p, count[p]>>
    /\ \A p \in Producers :
         pc[p] = "link" => data[node[p]] = <<p, count[p]>>

(* A push takes the next number, and only its own producer counts.         *)
LEMMA NumberedStep ==
  ASSUME LatePost = FALSE, IInv, Numbered, [Next]_vars
  PROVE  Numbered'
<1> USE ConstantsAssumption
<1>t. /\ Len(chain) \in Nat /\ Len(chain) >= 1 /\ chain \in Seq(Nodes)
      /\ count \in [Producers -> 0 .. MaxPush] /\ MaxPush \in Nat
  BY DEF IInv, TypeOK, ChainShape
<1>1. ASSUME NEW p \in Producers, PushReject(p) PROVE Numbered'
  <2>1. /\ pc[p] = "idle" /\ count' = [count EXCEPT ![p] = @ + 1]
        /\ UNCHANGED <<data, pc, node, chain>>
    BY <1>1 DEF PushReject, MayPush, queueVars, historyVars
  <2>2. \A q \in Producers : count'[q] \in Nat /\ count'[q] >= count[q]
                             /\ (q # p => count'[q] = count[q])
    BY <2>1, <1>t
  <2>3. \A q \in Producers : pc[q] \in {"exchange", "link"} => count'[q] = count[q]
    BY <2>1, <2>2
  <2>4. \A q \in Producers, n \in Nat : n > count'[q] => n > count[q]
    BY <2>2, <1>t
  <2> QED BY <2>1, <2>3, <2>4 DEF Numbered
<1>2. ASSUME NEW p \in Producers, PushAlloc(p) PROVE Numbered'
  <2>0. PICK a \in Addrs \ live :
           /\ data' = [data EXCEPT ![a] = <<p, count[p] + 1>>]
           /\ node' = [node EXCEPT ![p] = a]
    BY <1>2 DEF PushAlloc
  <2>1. /\ pc[p] = "idle" /\ pc' = [pc EXCEPT ![p] = "exchange"]
        /\ count' = [count EXCEPT ![p] = @ + 1]
        /\ UNCHANGED chain
    BY <1>2 DEF PushAlloc, MayPush, historyVars
  <2>2. \A q \in Producers : count'[q] \in Nat /\ count'[q] >= count[q]
                             /\ (q # p => count'[q] = count[q] /\ pc'[q] = pc[q]
                                          /\ node'[q] = node[q])
    BY <2>0, <2>1, <1>t DEF IInv, TypeOK
  <2>3. \A i \in 1 .. Len(chain) : data'[chain[i]] = data[chain[i]]
    <3>1. \A i \in 1 .. Len(chain) : chain[i] \in Nodes /\ chain[i] # a
      BY DEF IInv, TypeOK, ChainShape, Nodes
    <3> QED BY <3>1, <2>0 DEF IInv, TypeOK
  <2>4. ASSUME NEW q \in Producers, pc'[q] = "link"
        PROVE  data'[node'[q]] = <<q, count'[q]>>
    <3>1. q # p /\ pc[q] = "link"
      BY <2>4, <2>1, <2>2 DEF IInv, TypeOK
    <3>2. PICK i \in 1 .. Len(chain) - 1 : node[q] = chain[i + 1]
      BY <3>1 DEF IInv, ProducerState
    <3>3. data'[node[q]] = data[node[q]]
      <4>1. i + 1 \in 1 .. Len(chain)
        BY <1>t
      <4> QED BY <4>1, <3>2, <2>3
    <3> QED BY <3>1, <3>3, <2>2 DEF Numbered
  <2>5. ASSUME NEW q \in Producers, NEW i \in 2 .. Len(chain), NEW n \in Nat, n > count'[q]
        PROVE  data'[chain[i]] # <<q, n>>
    <3>1. n > count[q] /\ i \in 1 .. Len(chain)
      BY <2>5, <2>2, <1>t
    <3> QED BY <3>1, <2>3 DEF Numbered
  <2>6. ASSUME NEW q \in Producers, pc'[q] = "exchange", NEW i \in 2 .. Len(chain)
        PROVE  data'[chain[i]] # <<q, count'[q]>>
    <3>0. i \in 1 .. Len(chain)
      BY <1>t
    <3>1. CASE q = p
      <4>1. count'[q] \in Nat /\ count'[q] > count[q]
        BY <3>1, <2>1, <1>t
      <4> QED BY <4>1, <3>0, <2>3 DEF Numbered
    <3>2. CASE q # p
      BY <2>6, <3>0, <3>2, <2>2, <2>3 DEF Numbered
    <3> QED BY <3>1, <3>2
  <2> QED BY <2>1, <2>4, <2>5, <2>6 DEF Numbered
<1>3. ASSUME NEW p \in Producers, PushExchange(p) PROVE Numbered'
  <2>1. /\ pc[p] = "exchange" /\ pc' = [pc EXCEPT ![p] = "link"]
        /\ chain' = Append(chain, node[p])
        /\ UNCHANGED <<data, node, count>>
    BY <1>3 DEF PushExchange
  <2>2. data[node[p]] = <<p, count[p]>> /\ node[p] \in Nodes
    BY <2>1 DEF IInv, ProducerState, TypeOK, Nodes
  <2>3. /\ Len(chain') = Len(chain) + 1 /\ chain'[Len(chain) + 1] = node[p]
        /\ \A i \in 1 .. Len(chain) : chain'[i] = chain[i]
    BY <2>1, <2>2, <1>t
  <2>4. \A q \in Producers : q # p => pc'[q] = pc[q]
    BY <2>1 DEF IInv, TypeOK
  <2>5. pc'[p] = "link"
    BY <2>1 DEF IInv, TypeOK
  <2>6. ASSUME NEW q \in Producers, NEW i \in 2 .. Len(chain'), NEW n \in Nat,
               n > count[q] \/ (n = count[q] /\ pc'[q] = "exchange")
        PROVE  data[chain'[i]] # <<q, n>>
    <3>1. CASE i = Len(chain) + 1
      <4>1. q # p \/ n # count[p]
        BY <2>6, <2>5, <1>t
      <4> QED BY <4>1, <3>1, <2>2, <2>3
    <3>2. CASE i # Len(chain) + 1
      <4>1. i \in 2 .. Len(chain) /\ chain'[i] = chain[i]
        BY <3>2, <2>3, <1>t
      <4>2. n > count[q] \/ (n = count[q] /\ pc[q] = "exchange")
        BY <2>6, <2>4, <2>5
      <4> QED BY <4>1, <4>2 DEF Numbered
    <3> QED BY <3>1, <3>2
  <2>7. ASSUME NEW q \in Producers, pc'[q] = "link"
        PROVE  data[node[q]] = <<q, count[q]>>
    BY <2>7, <2>2, <2>4 DEF Numbered
  <2>8. \A q \in Producers : count[q] \in Nat
    BY <1>t
  <2> QED BY <2>1, <2>6, <2>7, <2>8 DEF Numbered
<1>4. ASSUME NEW p \in Producers, PushLink(p) \/ PushWake(p) PROVE Numbered'
  <2>1. /\ pc' = [pc EXCEPT ![p] = "send"] \/ pc' = [pc EXCEPT ![p] = "idle"]
        /\ UNCHANGED <<data, node, count, chain>>
    BY <1>4 DEF PushLink, PushWake, queueVars, historyVars
  <2>2. \A q \in Producers :
           pc'[q] \in {"exchange", "link"} => pc'[q] = pc[q]
    BY <2>1 DEF IInv, TypeOK
  <2> QED BY <2>1, <2>2 DEF Numbered
<1>5. CASE WakeCallback \/ PopNothing \/ StartTeardown \/ Stopped \/ UNCHANGED vars
  <2>1. UNCHANGED <<data, node, count, chain, pc>>
    BY <1>5 DEF WakeCallback, PopNothing, StartTeardown, Stopped, vars, queueVars,
         producerVars, historyVars
  <2> QED BY <2>1 DEF Numbered
<1>6. CASE Pop \/ DrainPop
  <2>1. /\ chain' = Tail(chain) /\ next[msg_head] # NULL
        /\ UNCHANGED <<data, node, count, pc>>
    BY <1>6 DEF Pop, DrainPop, Advance, HasPending, producerVars
  <2>2. Len(chain) >= 2
    BY <2>1, <1>t, <1>6 DEF IInv, ChainShape, ChainLinks, Pop, DrainPop
  <2>3. /\ Len(chain') = Len(chain) - 1
        /\ \A i \in 1 .. Len(chain') : chain'[i] = chain[i + 1]
    BY <2>1, <2>2, <1>t
  <2>4. \A i \in 2 .. Len(chain') : i + 1 \in 2 .. Len(chain) /\ chain'[i] = chain[i + 1]
    BY <2>3, <1>t
  <2> QED BY <2>1, <2>4 DEF Numbered
<1>7. CASE DrainEnd
  <2>1. Len(chain') = 1 /\ UNCHANGED <<data, node, count, pc>>
    BY <1>7 DEF DrainEnd, producerVars
  <2> QED BY <2>1, <1>7 DEF Numbered, IInv, ProducerState, Running, DrainEnd
<1> QED BY <1>1, <1>2, <1>3, <1>4, <1>5, <1>6, <1>7 DEF Next, Push

-----------------------------------------------------------------------------
Entries == [m : Messages, linked : BOOLEAN]

(* The entry of the abstract queue at position i. *)
AbsEntry(i) == [m |-> data[chain[i + 1]], linked |-> next[chain[i]] = chain[i + 1]]

AbsShape ==
    /\ AbsQueue \in Seq(Entries)
    /\ Len(AbsQueue) = Len(chain) - 1
    /\ DOMAIN AbsQueue = 1 .. Len(chain) - 1
    /\ \A i \in 1 .. Len(chain) - 1 : AbsQueue[i] = AbsEntry(i)

(* The abstract queue is a sequence, one shorter than the chain. *)
LEMMA AbsQueueSeq == IInv => AbsShape
<1> SUFFICES ASSUME IInv PROVE AbsShape
  OBVIOUS
<1>1. Len(chain) \in Nat /\ Len(chain) >= 1
  BY DEF IInv, TypeOK, ChainShape
<1>2. \A i \in 1 .. Len(chain) - 1 : AbsEntry(i) \in Entries
  <2> SUFFICES ASSUME NEW i \in 1 .. Len(chain) - 1 PROVE AbsEntry(i) \in Entries
    OBVIOUS
  <2>1. i + 1 \in 2 .. Len(chain)
    BY <1>1
  <2>2. data[chain[i + 1]] \in Messages
    BY <2>1 DEF IInv, Pending
  <2>3. (next[chain[i]] = chain[i + 1]) \in BOOLEAN
    OBVIOUS
  <2> QED BY <2>2, <2>3 DEF AbsEntry, Entries
<1>3. AbsQueue = [i \in 1 .. Len(chain) - 1 |-> AbsEntry(i)]
  BY DEF AbsQueue, AbsEntry
<1>4. AbsQueue \in [1 .. Len(chain) - 1 -> Entries]
  BY <1>2, <1>3
<1>5. Len(chain) - 1 \in Nat
  BY <1>1
<1>6. AbsQueue \in Seq(Entries) /\ Len(AbsQueue) = Len(chain) - 1
  BY <1>4, <1>5
<1> QED BY <1>3, <1>6 DEF AbsShape

(* The same of the next state. *)
LEMMA AbsQueueSeqNext == IInv' => AbsShape'
BY AbsQueueSeq, PTL

(* A step that keeps the chain and the data and links of its nodes keeps   *)
(* the abstract queue.                                                     *)
LEMMA SameAbsQueue ==
  ASSUME UNCHANGED chain, Len(chain) \in Nat,
         \A i \in 1 .. Len(chain) :
            next'[chain[i]] = next[chain[i]] /\ data'[chain[i]] = data[chain[i]]
  PROVE  AbsQueue' = AbsQueue
<1>1. \A i \in 1 .. Len(chain) - 1 : AbsEntry(i)' = AbsEntry(i)
  BY DEF AbsEntry
<1>2. AbsQueue = [i \in 1 .. Len(chain) - 1 |-> AbsEntry(i)]
  BY DEF AbsQueue, AbsEntry
<1>3. AbsQueue' = [i \in 1 .. Len(chain) - 1 |-> AbsEntry(i)']
  BY DEF AbsQueue, AbsEntry
<1> QED BY <1>1, <1>2, <1>3

(* The exchange of msg_tail is the abstract Claim. *)
LEMMA ExchangeClaims ==
  ASSUME LatePost = FALSE, IInv, IInv', Numbered, NEW p \in Producers, PushExchange(p)
  PROVE  Fifo!Claim(p)
<1> USE ConstantsAssumption
<1>a. /\ pc[p] = "exchange"
      /\ chain' = Append(chain, node[p])
      /\ UNCHANGED <<next, data, node, count, mode, delivered>>
  BY DEF PushExchange
<1>b. /\ AbsShape /\ AbsShape'
      /\ Len(chain) \in Nat /\ Len(chain) >= 1 /\ chain \in Seq(Nodes)
  <2>1. Len(chain) \in Nat /\ Len(chain) >= 1 /\ chain \in Seq(Nodes)
    BY DEF IInv, TypeOK, ChainShape
  <2> QED BY <2>1, AbsQueueSeq, AbsQueueSeqNext
<1>c. /\ node[p] \in Nodes /\ node[p] \in live /\ data[node[p]] = <<p, count[p]>>
      /\ <<p, count[p]>> \in Messages /\ mode \in {"blocked", "drain"}
  BY <1>a DEF IInv, ProducerState, TypeOK, Nodes, Messages, Running
<1>d. /\ Len(chain') = Len(chain) + 1 /\ chain'[Len(chain) + 1] = node[p]
      /\ \A i \in 1 .. Len(chain) : chain'[i] = chain[i]
  BY <1>a, <1>b, <1>c
<1>e. next[chain[Len(chain)]] # node[p]
  BY <1>c DEF IInv, ChainLinks, TypeOK
<1>n. PICK n \in Nat : n = Len(chain)
  BY <1>b
<1> DEFINE e == [m |-> <<p, count[p]>>, linked |-> FALSE]
<1>1. \A i \in DOMAIN AbsQueue : AbsQueue[i].m # <<p, count[p]>>
  <2> SUFFICES ASSUME NEW i \in 1 .. Len(chain) - 1
               PROVE  AbsQueue[i].m # <<p, count[p]>>
    BY <1>b DEF AbsShape
  <2>1. AbsQueue[i].m = data[chain[i + 1]] /\ i + 1 \in 2 .. Len(chain)
    BY <1>b DEF AbsShape, AbsEntry
  <2> QED BY <2>1, <1>a DEF Numbered
<1>2. e \in Entries
  BY <1>c DEF Entries
<1>3. AbsQueue' = Append(AbsQueue, e)
  <2>1. /\ Append(AbsQueue, e) \in Seq(Entries)
        /\ Len(Append(AbsQueue, e)) = Len(chain)
        /\ Append(AbsQueue, e)[Len(chain)] = e
        /\ \A i \in 1 .. Len(chain) - 1 : Append(AbsQueue, e)[i] = AbsEntry(i)
    <3> HIDE DEF e
    <3> QED BY <1>2, <1>b, AppendProperties DEF AbsShape
  <2>2. /\ AbsQueue' \in Seq(Entries)
        /\ Len(AbsQueue') = Len(chain)
        /\ \A i \in 1 .. Len(chain) : AbsQueue'[i] = AbsEntry(i)'
    BY <1>b, <1>d DEF AbsShape
  <2>3. \A i \in 1 .. Len(chain) - 1 : AbsEntry(i)' = AbsEntry(i)
    BY <1>a, <1>b, <1>d DEF AbsEntry
  <2>4. AbsEntry(n)' = e
    <3>1. chain'[n + 1] = node[p] /\ chain'[n] = chain[n]
      BY <1>b, <1>d, <1>n
    <3>2. (next'[chain'[n]] = chain'[n + 1]) = FALSE
      BY <3>1, <1>a, <1>e, <1>n
    <3> QED BY <3>1, <3>2, <1>a, <1>c DEF AbsEntry
  <2>5. \A i \in 1 .. Len(chain) : AbsQueue'[i] = Append(AbsQueue, e)[i]
    <3> HIDE DEF e
    <3> SUFFICES ASSUME NEW i \in 1 .. Len(chain)
                 PROVE  AbsQueue'[i] = Append(AbsQueue, e)[i]
      OBVIOUS
    <3>1. CASE i = Len(chain)
      BY <3>1, <2>1, <2>2, <2>4, <1>n
    <3>2. CASE i # Len(chain)
      <4>1. i \in 1 .. Len(chain) - 1
        BY <3>2, <1>b
      <4> QED BY <4>1, <2>1, <2>2, <2>3
    <3> QED BY <3>1, <3>2
  <2> HIDE DEF e
  <2> QED BY <2>1, <2>2, <2>5, SeqEqual
<1> QED BY <1>1, <1>3, <1>a, <1>c DEF Fifo!Claim

(* The store into the predecessor's q.next is the abstract Link. *)
LEMMA StoreLinks ==
  ASSUME IInv, IInv', Numbered, NEW p \in Producers, PushLink(p)
  PROVE  Fifo!Link(p)
<1> USE ConstantsAssumption
<1>a. /\ pc[p] = "link" /\ next' = [next EXCEPT ![prev[p]] = node[p]]
      /\ UNCHANGED <<data, count, mode, delivered, chain>>
  BY DEF PushLink, historyVars
<1>b. /\ AbsShape /\ AbsShape'
      /\ Len(chain) \in Nat /\ \A i \in 1 .. Len(chain) : chain[i] \in Nodes
  <2>1. Len(chain) \in Nat /\ \A i \in 1 .. Len(chain) : chain[i] \in Nodes
    BY DEF IInv, TypeOK
  <2> QED BY <2>1, AbsQueueSeq, AbsQueueSeqNext
<1>c. PICK k \in 1 .. Len(chain) - 1 :
         prev[p] = chain[k] /\ node[p] = chain[k + 1] /\ next[chain[k]] = NULL
  BY <1>a DEF IInv, ProducerState
<1>d. k \in 1 .. Len(chain) /\ k + 1 \in 1 .. Len(chain)
  BY <1>b
<1>e. /\ next'[chain[k]] = chain[k + 1]
      /\ \A i \in 1 .. Len(chain) : i # k => next'[chain[i]] = next[chain[i]]
  BY <1>a, <1>b, <1>c, <1>d DEF IInv, TypeOK, ChainShape
<1>1. AbsQueue[k] = [m |-> <<p, count[p]>>, linked |-> FALSE]
  <2>1. chain[k + 1] # NULL
    BY <1>b, <1>d DEF Nodes
  <2>2. data[chain[k + 1]] = <<p, count[p]>>
    BY <1>a, <1>c DEF Numbered
  <2> QED BY <2>1, <2>2, <1>b, <1>c DEF AbsShape, AbsEntry
<1>2. AbsQueue' = [AbsQueue EXCEPT ![k] = [m |-> <<p, count[p]>>, linked |-> TRUE]]
  <2>1. /\ AbsQueue \in [1 .. Len(chain) - 1 -> Entries]
        /\ AbsQueue' \in [1 .. Len(chain) - 1 -> Entries]
        /\ \A i \in 1 .. Len(chain) - 1 : AbsQueue'[i] = AbsEntry(i)'
        /\ \A i \in 1 .. Len(chain) - 1 : AbsQueue[i] = AbsEntry(i)
    BY <1>a, <1>b DEF AbsShape
  <2>2. \A i \in 1 .. Len(chain) - 1 : i # k => AbsQueue'[i] = AbsQueue[i]
    <3> SUFFICES ASSUME NEW i \in 1 .. Len(chain) - 1, i # k
                 PROVE  AbsQueue'[i] = AbsQueue[i]
      OBVIOUS
    <3>1. next'[chain[i]] = next[chain[i]]
      BY <1>b, <1>e
    <3>2. AbsEntry(i)' = AbsEntry(i)
      BY <3>1, <1>a DEF AbsEntry
    <3> QED BY <3>2, <2>1
  <2>3. AbsQueue'[k] = [m |-> <<p, count[p]>>, linked |-> TRUE]
    <3>1. data'[chain'[k + 1]] = <<p, count[p]>>
      BY <1>a, <1>c DEF Numbered
    <3>2. next'[chain'[k]] = chain'[k + 1]
      BY <1>a, <1>e
    <3>3. AbsEntry(k)' = [m |-> <<p, count[p]>>, linked |-> TRUE]
      BY <3>1, <3>2, Zenon DEF AbsEntry
    <3> QED BY <3>3, <2>1
  <2> HIDE DEF AbsQueue
  <2> QED BY <2>1, <2>2, <2>3
<1> QED BY <1>1, <1>2, <1>a, <1>b DEF Fifo!Link, AbsShape

(* qz_msg_pop takes the oldest entry, which is linked. *)
LEMMA AdvanceTakesHead ==
  ASSUME IInv, IInv', Pop \/ DrainPop
  PROVE  /\ AbsQueue # << >>
         /\ Head(AbsQueue).linked
         /\ AbsQueue' = Tail(AbsQueue)
         /\ data[msg_head'] = Head(AbsQueue).m
<1> USE ConstantsAssumption
<1>a. /\ next[msg_head] # NULL /\ msg_head' = next[msg_head]
      /\ chain' = Tail(chain) /\ mode # "closed"
      /\ UNCHANGED <<next, data>>
  BY DEF Pop, DrainPop, Advance, HasPending
<1>b. /\ AbsShape /\ AbsShape' /\ chain \in Seq(Nodes)
      /\ Len(chain) \in Nat /\ Len(chain) >= 2 /\ next[chain[1]] = chain[2]
      /\ chain[1] = msg_head
  <2>1. /\ chain \in Seq(Nodes) /\ Len(chain) \in Nat /\ Len(chain) >= 2
        /\ next[chain[1]] = chain[2] /\ chain[1] = msg_head
    BY <1>a DEF IInv, TypeOK, ChainShape, ChainLinks
  <2> QED BY <2>1, AbsQueueSeq, AbsQueueSeqNext
<1>c. /\ Len(chain') = Len(chain) - 1
      /\ \A i \in 1 .. Len(chain') : chain'[i] = chain[i + 1]
  BY <1>a, <1>b
<1>1. AbsQueue # << >> /\ Head(AbsQueue) = AbsEntry(1)
  BY <1>b DEF AbsShape
<1>2. AbsEntry(1).linked /\ AbsEntry(1).m = data[chain[2]]
  <2>0. next[chain[1]] = chain[1 + 1] /\ chain[1 + 1] = chain[2]
    BY <1>b
  <2>1. AbsEntry(1) = [m |-> data[chain[2]], linked |-> TRUE]
    BY <2>0, Zenon DEF AbsEntry
  <2> QED BY <2>1
<1>3. /\ Tail(AbsQueue) \in Seq(Entries) /\ Len(Tail(AbsQueue)) = Len(chain) - 2
      /\ \A i \in 1 .. Len(chain) - 2 : Tail(AbsQueue)[i] = AbsEntry(i + 1)
  BY <1>1, <1>b, HeadTailProperties DEF AbsShape
<1>4. /\ AbsQueue' \in Seq(Entries) /\ Len(AbsQueue') = Len(chain) - 2
      /\ \A i \in 1 .. Len(chain) - 2 : AbsQueue'[i] = AbsEntry(i)'
  BY <1>b, <1>c DEF AbsShape
<1>5. \A i \in 1 .. Len(chain) - 2 : AbsEntry(i)' = AbsEntry(i + 1)
  BY <1>a, <1>b, <1>c DEF AbsEntry
<1>6. AbsQueue' = Tail(AbsQueue)
  <2>1. \A i \in 1 .. Len(AbsQueue') : AbsQueue'[i] = Tail(AbsQueue)[i]
    BY <1>3, <1>4, <1>5
  <2> QED BY <2>1, <1>3, <1>4, SeqEqual
<1> QED BY <1>1, <1>2, <1>6, <1>a, <1>b

(* The lock-free queue, step by step: the exchange claims, the store links, *)
(* the pop delivers, the drain discards, and nothing else is visible.       *)
LEMMA StepRefines ==
  ASSUME LatePost = FALSE, IInv, IInv', Numbered, [Next]_vars
  PROVE  [Fifo!Next]_Fifo!vars
<1> USE ConstantsAssumption
<1>0. Len(chain) \in Nat /\ Len(chain) >= 1
  BY DEF IInv, TypeOK, ChainShape
<1>1. ASSUME NEW p \in Producers, PushReject(p) PROVE Fifo!Begin(p)
  <2>1. AbsQueue' = AbsQueue
    BY <1>0, <1>1, SameAbsQueue DEF PushReject, queueVars, historyVars
  <2> QED BY <1>1, <2>1 DEF PushReject, MayPush, Fifo!Begin, historyVars
<1>2. ASSUME NEW p \in Producers, PushAlloc(p) PROVE Fifo!Begin(p)
  <2>0. PICK a \in Addrs \ live :
           /\ data' = [data EXCEPT ![a] = <<p, count[p] + 1>>]
           /\ next' = [next EXCEPT ![a] = NULL]
    BY <1>2 DEF PushAlloc
  <2>1. \A i \in 1 .. Len(chain) : chain[i] \in Nodes /\ chain[i] # a
    BY DEF IInv, TypeOK, ChainShape, Nodes
  <2>2. \A i \in 1 .. Len(chain) :
           next'[chain[i]] = next[chain[i]] /\ data'[chain[i]] = data[chain[i]]
    BY <2>0, <2>1 DEF IInv, TypeOK
  <2>3. AbsQueue' = AbsQueue
    BY <1>0, <1>2, <2>2, SameAbsQueue DEF PushAlloc, historyVars
  <2> QED BY <1>2, <2>3 DEF PushAlloc, MayPush, Fifo!Begin, historyVars
<1>3. ASSUME NEW p \in Producers, PushExchange(p) PROVE Fifo!Claim(p)
  BY <1>3, ExchangeClaims
<1>4. ASSUME NEW p \in Producers, PushLink(p) PROVE Fifo!Link(p)
  BY <1>4, StoreLinks
<1>5. CASE \/ \E p \in Producers : PushWake(p)
           \/ WakeCallback \/ PopNothing \/ Stopped \/ UNCHANGED vars
  <2>1. /\ UNCHANGED <<next, data, chain, count, delivered>>
        /\ (mode' \in {"teardown", "closed"}) = (mode \in {"teardown", "closed"})
    BY <1>5 DEF PushWake, WakeCallback, PopNothing, Stopped, vars, queueVars,
                producerVars, historyVars
  <2>2. AbsQueue' = AbsQueue
    BY <1>0, <2>1, SameAbsQueue
  <2> QED BY <2>1, <2>2 DEF Fifo!vars
<1>6. CASE StartTeardown
  <2>1. AbsQueue' = AbsQueue
    BY <1>0, <1>6, SameAbsQueue DEF StartTeardown, queueVars, historyVars
  <2>2. Fifo!Close
    BY <1>6, <2>1 DEF StartTeardown, Fifo!Close, producerVars, historyVars
  <2> QED BY <2>2 DEF Fifo!Next
<1>7. CASE Pop
  <2>1. Fifo!Deliver
    BY <1>7, AdvanceTakesHead DEF Pop, Fifo!Deliver, Advance, producerVars
  <2> QED BY <2>1 DEF Fifo!Next
<1>8. CASE DrainPop
  <2>1. Fifo!Discard
    BY <1>8, AdvanceTakesHead DEF DrainPop, Fifo!Discard, Advance, producerVars
  <2> QED BY <2>1 DEF Fifo!Next
<1>9. CASE DrainEnd
  <2>1. /\ mode = "teardown" /\ mode' = "closed" /\ next[msg_head] = NULL
        /\ chain' = <<Stub>>
        /\ UNCHANGED <<next, data, pc, count, delivered>>
    BY <1>9 DEF DrainEnd, HasPending, producerVars
  <2>2. ASSUME Len(chain) >= 2 PROVE FALSE
    <3>1. 1 \in 1 .. Len(chain) - 1 /\ 2 \in 1 .. Len(chain)
      BY <2>2, <1>0
    <3>2. next[chain[1]] = chain[2]
      BY <3>1, <2>1 DEF IInv, ChainLinks, ProducerState, Running
    <3>3. chain[2] # NULL
      BY <3>1 DEF IInv, TypeOK, Nodes
    <3> QED BY <3>2, <3>3, <2>1 DEF IInv, ChainShape
  <2>3. Len(chain) = 1 /\ Len(chain') = 1
    BY <2>1, <2>2, <1>0
  <2>4. AbsQueue = << >> /\ AbsQueue' = << >>
    <3>1. AbsShape /\ AbsShape'
      BY Zenon, AbsQueueSeq, AbsQueueSeqNext
    <3>2. AbsQueue \in Seq(Entries) /\ Len(AbsQueue) = 0
      BY <3>1, <2>3 DEF AbsShape
    <3>3. AbsQueue' \in Seq(Entries) /\ Len(AbsQueue') = 0
      BY <3>1, <2>3 DEF AbsShape, Entries
    <3> QED BY Zenon, <3>2, <3>3, EmptySeq
  <2> QED BY <2>1, <2>4 DEF Fifo!vars
<1> QED BY <1>1, <1>2, <1>3, <1>4, <1>5, <1>6, <1>7, <1>8, <1>9
        DEF Next, Push, Fifo!Next

(* msgq.c implements the abstract queue MsgFifo: every push takes its place *)
(* in one order, and the consumer sees messages in that order, each once,   *)
(* and none behind a message that is not linked yet.                        *)
THEOREM QueueImplementsFifo ==
  ASSUME LatePost = FALSE
  PROVE  Spec => ImplementsFifo
<1>1. Init => Numbered /\ Fifo!Init
  <2> SUFFICES ASSUME Init PROVE Numbered /\ Fifo!Init
    OBVIOUS
  <2>1. Len(chain) = 1
    BY DEF Init
  <2>2. AbsQueue = << >>
    BY <2>1, InitIInv, AbsQueueSeq, EmptySeq DEF AbsShape
  <2>3. Numbered
    BY <2>1 DEF Numbered, Init
  <2> QED BY <2>2, <2>3 DEF Init, Fifo!Init
<1>2. IInv /\ Numbered /\ [Next]_vars => Numbered'
  BY NumberedStep
<1>3. IInv /\ IInv' /\ Numbered /\ [Next]_vars => [Fifo!Next]_Fifo!vars
  BY StepRefines
<1> QED BY <1>1, <1>2, <1>3, Invariance, PTL DEF Spec, ImplementsFifo, Fifo!Spec
=============================================================================
