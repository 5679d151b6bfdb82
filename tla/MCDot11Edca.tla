----------------------------- MODULE MCDot11Edca -----------------------------
(* Two access categories: 0 waits a slot longer than 1, whose window doubles. *)
EXTENDS Dot11Edca, TLC

TwoAifsn == 0 :> 2 @@ 1 :> 1
SmallWindows == 0 :> 1 @@ 1 :> 0
LargeWindows == 0 :> 1 @@ 1 :> 1
OnePacketEach == [c \in Categories |-> 1]
==============================================================================
