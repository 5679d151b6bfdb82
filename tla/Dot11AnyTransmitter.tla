------------------------- MODULE Dot11AnyTransmitter -------------------------
(***************************************************************************)
(* The reordering buffer of Dot11IncomingBuffer under a transmitter that   *)
(* sends any sequence number at any time: what holds here does not depend  *)
(* on how the other side counts, retries or gives up.                      *)
(***************************************************************************)
EXTENDS Dot11IncomingBuffer

CONSTANT LastNumber   \* bound on the numbers that do not wrap

ASSUME LastNumberAssumption == LastNumber \in Nat

BufferInit == rcv = InitialBuffer

ReceiveWithoutSession(seq) ==
    /\ ~rcv.blockAckSessionIsActive
    /\ rcv' = AcceptWithoutSession(rcv, seq)
    /\ rcv'.currentLowestUnreceived <= LastNumber

ReceiveInSession(seq) ==
    /\ rcv.blockAckSessionIsActive
    /\ FrameAssertions(rcv, seq)
    /\ NonWrapping(rcv, seq) <= LastNumber
    /\ rcv' = BufferSubframe(rcv, NonWrapping(rcv, seq), NonWrapping(rcv, seq))

ReceiveBlockAckRequest(seq) ==
    /\ BlockAckRequestAssertions(rcv, seq)
    /\ rcv' = ProcessBlockAckRequestFrame(rcv, seq)
    /\ rcv'.bitmapWindowStart <= LastNumber

BufferNext ==
    \E seq \in SequenceNumbers :
        \/ ReceiveWithoutSession(seq)
        \/ ReceiveInSession(seq)
        \/ ReceiveBlockAckRequest(seq)

BufferSpec == BufferInit /\ [][BufferNext]_rcv
=============================================================================
