--------------------- MODULE Dot11AnyTransmitter_proofs ----------------------
(***************************************************************************)
(* The buffer keeps its invariants under any transmitter, for every window *)
(* size, every modulus of the sequence numbers and every bound.            *)
(***************************************************************************)
EXTENDS Dot11AnyTransmitter, Dot11IncomingBuffer_proofs

IInv == BufferInv(rcv)

LEMMA InitialInv == BufferInit => IInv
<1> SUFFICES ASSUME BufferInit PROVE IInv  OBVIOUS
<1>1. /\ rcv \in Buffers /\ rcv.blockAckSessionIsActive = FALSE
      /\ rcv.blockAckBitmap = {} /\ rcv.frameBuffer = {}
  BY DEF BufferInit, InitialBuffer, Buffers
<1> QED  BY <1>1 DEF IInv, BufferInv, FramesInv

LEMMA NextInv == IInv /\ [BufferNext]_rcv => IInv'
<1> SUFFICES ASSUME IInv, [BufferNext]_rcv PROVE IInv'  OBVIOUS
<1>1. CASE UNCHANGED rcv  BY <1>1 DEF IInv
<1>2. ASSUME NEW seq \in SequenceNumbers, ReceiveWithoutSession(seq) PROVE IInv'
  BY <1>2, AcceptWithoutSessionInv DEF IInv, ReceiveWithoutSession
<1>3. ASSUME NEW seq \in SequenceNumbers, ReceiveInSession(seq) PROVE IInv'
  <2> DEFINE n == NonWrapping(rcv, seq)
  <2>1. rcv.blockAckSessionIsActive /\ ConversionAssertion(rcv, seq) /\ ShiftAssertion(rcv, n)
        /\ rcv' = BufferSubframe(rcv, n, n)
    BY <1>3 DEF ReceiveInSession, FrameAssertions
  <2>2. rcv \in Buffers  BY DEF IInv, BufferInv
  <2>3. n \in Nat  BY <2>1, <2>2, NonWrappingIsNatural
  <2> HIDE DEF n
  <2> QED  BY <2>1, <2>3, BufferSubframeInv DEF IInv
<1>4. ASSUME NEW seq \in SequenceNumbers, ReceiveBlockAckRequest(seq) PROVE IInv'
  BY <1>4, BlockAckRequestInv DEF IInv, ReceiveBlockAckRequest
<1> QED  BY <1>1, <1>2, <1>3, <1>4 DEF BufferNext

LEMMA InvImplies == IInv => BufferTypeOK /\ WindowConsistent /\ BufferMatchesBitmap
<1> SUFFICES ASSUME IInv PROVE BufferTypeOK /\ WindowConsistent /\ BufferMatchesBitmap
  OBVIOUS
<1>1. BufferTypeOK  BY DEF IInv, BufferInv, Buffers, BufferTypeOK
<1>2. WindowConsistent  BY DEF IInv, BufferInv, WindowInv, WindowConsistent
<1>3. BufferMatchesBitmap  BY DEF IInv, BufferInv, FramesInv, BufferMatchesBitmap
<1> QED  BY <1>1, <1>2, <1>3

\* The fields of the buffer stay in their domains: no sequence number becomes
\* negative, whatever numbers the transmitter uses, as long as no assertion on
\* a number fails.
THEOREM BufferTypeCorrect == BufferSpec => []BufferTypeOK
<1>1. BufferSpec => []IInv  BY InitialInv, NextInv, PTL DEF BufferSpec
<1> QED  BY <1>1, InvImplies, PTL

\* The window never leaves a missing frame behind and its bitmap is what was
\* received of it.
THEOREM WindowAlwaysConsistent == BufferSpec => []WindowConsistent
<1>1. BufferSpec => []IInv  BY InitialInv, NextInv, PTL DEF BufferSpec
<1> QED  BY <1>1, InvImplies, PTL

\* The frame buffer holds exactly the frames whose bits lie beyond the lowest
\* missing frame, so the loops that release frames find what they assert.
THEOREM BufferAlwaysMatchesBitmap == BufferSpec => []BufferMatchesBitmap
<1>1. BufferSpec => []IInv  BY InitialInv, NextInv, PTL DEF BufferSpec
<1> QED  BY <1>1, InvImplies, PTL
=============================================================================
