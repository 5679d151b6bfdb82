--------------------------- MODULE MCAlohaHidden ---------------------------
(* Two stations that cannot hear each other send to, and hear, a third. *)
EXTENDS Aloha
CONSTANTS left, middle, right
MCMayHear == [s \in Nodes |-> IF s = middle THEN {left, right} ELSE {middle}]
MCDestinations == [s \in Nodes |-> IF s = middle THEN {Broadcast} ELSE {middle}]
MCMaxPackets == [s \in Nodes |-> 1]
=============================================================================
