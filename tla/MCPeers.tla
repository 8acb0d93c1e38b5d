------------------------------ MODULE MCPeers -------------------------------
(***************************************************************************)
(* What a runtime exchanges with others, for TLC: storage requests that it  *)
(* relays for its children, what goes over sockets, and the formats of both, *)
(* of files and of binary data.  They share no state, so that one of them    *)
(* moves in a behaviour and the others stay as they began.                   *)
(*                                                                         *)
(* Of the two connections of TcpIo the second is one that a listener         *)
(* accepted: two that scripts opened share nothing.                          *)
(***************************************************************************)
EXTENDS StorageRelay, TcpIo, MCCodecs

CONSTANTS c1, c2,       \* connections
          g1, g2, g3    \* a grandchild, its parent and its parent's sibling

VARIABLE part           \* the part that moves

MCTcpData == <<"d1", "d2">>

peerVars == <<relayVars, tcpVars, codecVars, part>>

(* The codecs with nothing to do *)
CodecsIdle == ChunkInit /\ wire = (CHOOSE w \in Wires : TRUE) /\ probe = NoProbe

PeersInit ==
    /\ part \in {"relay", "tcp", "codecs"}
    /\ RelayInit /\ TcpInit
    /\ IF part = "codecs" THEN CodecsInit ELSE CodecsIdle

(* Bound: c is a connection that the listener accepted. *)
Accepted(c) == conn'[c].life = "unused" \/ conn'[c].role = "server"

PeersNext ==
    /\ UNCHANGED part
    /\ IF part = "relay" THEN RelayNext ELSE UNCHANGED relayVars
    /\ IF part = "tcp" THEN TcpNext /\ Accepted(c2) ELSE UNCHANGED tcpVars
    /\ IF part = "codecs" THEN CodecsNext ELSE UNCHANGED codecVars

(* A child that blocks in a storage call gets its answer or ends, unless a full *)
(* table made the relay drop the call, and a connection that was torn down is   *)
(* freed.                                                                       *)
PeersEnd ==
    /\ SyncEnds /\ TornDownGoes

PeersSpec ==
    /\ PeersInit /\ [][PeersNext]_peerVars
    /\ RelayFairness /\ TcpFairness
=============================================================================
