----------------------------- MODULE AlohaFrames -----------------------------
(***************************************************************************)
(* The frames ALOHA interfaces exchange (FrameHeaderType of                *)
(* simulator/aloha/aloha_mac.h), with the identity of the packet carried.  *)
(***************************************************************************)
EXTENDS Naturals, FiniteSets

CONSTANTS Nodes,        \* the nodes that have an ALOHA interface
          Broadcast     \* the broadcast address

ASSUME NodesAssumption == IsFiniteSet(Nodes) /\ Broadcast \notin Nodes

Addresses == Nodes \cup {Broadcast}

\* A packet of the network layer: the id-th one this node's network layer sent.
Packets == [id : Nat, to : Addresses]

Frames == [type : {"DATA", "ACK"}, from : Nodes, to : Addresses, seq : Nat, id : Nat]
=============================================================================
