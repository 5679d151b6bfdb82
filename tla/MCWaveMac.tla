------------------------------ MODULE MCWaveMac ------------------------------
(* Short intervals; a packet for the control channel. *)
EXTENDS WaveMac, TLC

OneSlot == [c \in Categories |-> 1]
NoSlot == [c \in Categories |-> 0]
Intervals == "CCH" :> 12 @@ "SCH" :> 9
ControlPackets == "CCH" :> 1 @@ "SCH" :> 0
==============================================================================
