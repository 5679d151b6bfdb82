-------------------------- MODULE MCDot11Management --------------------------
(* A station between two access points, and one that only ever hears the first. *)
EXTENDS Dot11Management, TLC

CONSTANTS mobile, fixed

OwnChannels == [a \in AccessPoints |-> (a - 1) % NumberOfChannels]
Levels1 == [p \in Stations \X AccessPoints |-> IF p[2] = 1 THEN MaxLevel ELSE 0]
Mobile == {mobile} \X AccessPoints
==============================================================================
