------------------------------ MODULE MCAloha ------------------------------
EXTENDS Aloha, TLC
CONSTANTS n1, n2
MCMayHear == [s \in Nodes |-> Nodes \ {s}]
MCMostlyOneWay == [s \in Nodes |-> IF s = n1 THEN 2 ELSE 1]
MCAnyAddress == [s \in Nodes |-> IF s = n1 THEN {n2, Broadcast} ELSE {n1}]
=============================================================================
