---------------------------- MODULE Dot11BlockAck ----------------------------
(***************************************************************************)
(* Two 802.11 stations and one traffic id: the transmitter of              *)
(* Dot11BlockAckSender sends packets to the receiver that keeps the buffer *)
(* of Dot11IncomingBuffer.  One signal is on the air at a time: a frame,   *)
(* or the reply to it.  Signals and replies get lost and subframes of an   *)
(* aggregate are corrupted one by one.                                     *)
(*                                                                         *)
(* Packets are numbered in the order the network layer queues them.        *)
(***************************************************************************)
EXTENDS Dot11BlockAckSender

CONSTANTS MaxPackets,       \* bound: the packets the network layer sends
          Starts            \* how a run may begin

ASSUME BlockAckAssumption ==
    /\ MaxPackets \in Nat \ {0}
    /\ Starts \subseteq [firstNumber : Nat,       \* the frames settled before the first packet
                        sessionIsOpen : BOOLEAN, \* whether the Block Ack session is open by then
                        protect : BOOLEAN]
    /\ \A start \in Starts : start.sessionIsOpen => start.firstNumber > 1

VARIABLES snd,       \* the transmitter
          air,       \* the signal on the air
          up,        \* what the receiver's MAC sent to its network layer
          offered,   \* the number of packets queued so far
          outcome,   \* how each packet ended for the transmitter
          opener     \* the packet that waits for the session to open (0: none)

vars == <<rcv, snd, air, up, offered, outcome, opener>>

Packets == 1 .. MaxPackets

Nothing == [type |-> "None"]

Signals ==
    {Nothing, [type |-> "ACK"]}
    \cup [type : {"DATA"}, frame : Frames]
    \cup [type : {"AGGREGATE"}, frames : Seq(Frames), good : BOOLEAN]
    \cup [type : {"BAR"}, start : SequenceNumbers]
    \cup [type : {"BA"}, start : SequenceNumbers, bitmap : SUBSET (0 .. W - 1)]

TypeOK ==
    /\ BufferTypeOK
    /\ snd \in Senders
    /\ air \in Signals
    /\ up \in Seq(Packets)
    /\ offered \in 0 .. MaxPackets
    /\ outcome \in [Packets -> {"none", "acked", "dropped"}]
    /\ opener \in 0 .. MaxPackets

\* An open session has seen the block ack request for number firstNumber and
\* then the frame with that number.
InitialReceiver(start) ==
    IF start.sessionIsOpen
    THEN [blockAckSessionIsActive |-> TRUE,
          currentLowestUnreceived |-> start.firstNumber + 1,
          bitmapWindowStart |-> start.firstNumber,
          blockAckBitmap |-> {start.firstNumber},
          frameBuffer |-> {}]
    ELSE [InitialBuffer EXCEPT !.currentLowestUnreceived = start.firstNumber + 1]

Init ==
    /\ \E start \in Starts :
           /\ rcv = InitialReceiver(start)
           /\ snd = [InitialSender(start.firstNumber % SeqMod, start.sessionIsOpen,
                                   start.protect) EXCEPT
                        !.lastDroppedFrameSequenceNumber =
                            IF start.sessionIsOpen THEN (start.firstNumber - 1) % SeqMod ELSE 0]
    /\ air = Nothing
    /\ up = <<>>
    /\ offered = 0
    /\ outcome = [p \in Packets |-> "none"]
    /\ opener = 0

-----------------------------------------------------------------------------
(* The transmitter. *)

PacketArrives ==
    /\ offered < MaxPackets
    /\ offered' = offered + 1
    /\ snd' = NetworkLayerQueueChangeNotification(snd, offered + 1)
    /\ UNCHANGED <<rcv, air, up, outcome, opener>>

\* The transmitter s, which may send, sends.
TransmitAFrame(s) ==
    \E r \in ReadyToTransmit(s) :
        /\ snd' = AfterTransmission(r)
        /\ air' = SignalOf(r)
        /\ opener' = IF r.blockAckSessionIsEnabled /\ ~s.blockAckSessionIsEnabled
                     THEN r.currentPacket.id ELSE opener

BackoffTimeout ==
    /\ snd.backoff /\ ~snd.waitingForAck /\ air = Nothing
    /\ LET s == AtBackoffTimeout(snd)
       IN IF s.hasPacketToSend
          THEN \E granted \in BOOLEAN : TransmitAFrame(StartTxop(s, granted))
          ELSE snd' = s /\ UNCHANGED <<air, opener>>
    /\ UNCHANGED <<rcv, up, offered, outcome>>

Settle(acked, dropped) ==
    outcome' = [p \in Packets |-> IF p \in acked THEN "acked"
                                  ELSE IF p \in dropped THEN "dropped" ELSE outcome[p]]

AckTimeout ==
    /\ snd.waitingForAck /\ air = Nothing
    /\ snd' = NeverReceivedAcknowledgement(snd)
    /\ Settle({}, DroppedAtTimeout(snd))
    /\ UNCHANGED <<rcv, air, up, offered, opener>>

\* DoSuccessfulTransmissionPostProcessing: the end of the TXOP or the next frame.
AfterSuccess(s) ==
    \/ snd' = EndTxop(s) /\ air' = Nothing /\ opener' = opener
    \/ MayContinueTxop(s) /\ TransmitAFrame(s)

AckReceived ==
    /\ air.type = "ACK"
    /\ AfterSuccess(ProcessAcknowledgementFrame(snd))
    /\ Settle({f.id : f \in {snd.lastTransmitted[i] : i \in DOMAIN snd.lastTransmitted}}, {})
    /\ UNCHANGED <<rcv, up, offered>>

BlockAckReceived ==
    /\ air.type = "BA"
    /\ AfterSuccess(ProcessBlockAckFrame(snd, air))
    /\ IF snd.lastSentFrameWasAn = "AggregateFrame"
       THEN Settle(AckedBy(snd, air), DroppedAtBlockAck(snd, air)) ELSE outcome' = outcome
    /\ UNCHANGED <<rcv, up, offered>>

-----------------------------------------------------------------------------
(* The receiver. *)

\* A mutant: the bitmap is not relative to the start.
BlockAcknowledgementOfNumbers(b) ==
    [type |-> "BA", start |-> b.bitmapWindowStart % SeqMod, bitmap |-> b.blockAckBitmap]

BlockAcknowledgement(b) ==
    [type |-> "BA",
     start |-> b.bitmapWindowStart % SeqMod,
     bitmap |-> {s - b.bitmapWindowStart : s \in b.blockAckBitmap}]

SendUp(first) == up' = up \o first \o InSequence(rcv.frameBuffer \ rcv'.frameBuffer)

ReceiveInSession(frame) ==
    LET n == NonWrapping(rcv, frame.seq)
    IN /\ rcv' = BufferSubframe(rcv, n, frame.id)
       /\ SendUp(IF FrameIsInOrder(rcv, n) THEN <<frame.id>> ELSE <<>>)

ReceiveWithoutSession(frame) ==
    /\ rcv' = AcceptWithoutSession(rcv, frame.seq)
    /\ SendUp(IF SequenceNumberDifference(rcv, frame.seq) < 0 THEN <<>> ELSE <<frame.id>>)

ReceiveFrame ==
    /\ air.type = "DATA"
    /\ FrameAssertions(rcv, air.frame.seq)
    /\ IF rcv.blockAckSessionIsActive THEN ReceiveInSession(air.frame)
       ELSE ReceiveWithoutSession(air.frame)
    /\ air' = [type |-> "ACK"]
    /\ UNCHANGED <<snd, offered, outcome, opener>>

\* The subframes are handed over one after the other; the last one has the
\* block acknowledgement sent if any of them was good.
NextSubframe(good) ==
    IF Len(air.frames) > 1
    THEN air' = [air EXCEPT !.frames = Tail(@), !.good = good]
    ELSE air' = IF good THEN BlockAcknowledgement(rcv') ELSE Nothing

ReceiveSubframe ==
    /\ air.type = "AGGREGATE"
    /\ rcv.blockAckSessionIsActive /\ FrameAssertions(rcv, Head(air.frames).seq)
    /\ ReceiveInSession(Head(air.frames))
    /\ NextSubframe(TRUE)
    /\ UNCHANGED <<snd, offered, outcome, opener>>

CorruptedSubframe ==
    /\ air.type = "AGGREGATE"
    /\ rcv' = rcv
    /\ NextSubframe(air.good)
    /\ UNCHANGED <<snd, up, offered, outcome, opener>>

ReceiveBlockAckRequest ==
    /\ air.type = "BAR"
    /\ BlockAckRequestAssertions(rcv, air.start)
    /\ rcv' = ProcessBlockAckRequestFrame(rcv, air.start)
    /\ SendUp(<<>>)
    /\ air' = BlockAcknowledgement(rcv')
    /\ UNCHANGED <<snd, offered, outcome, opener>>

LoseSignal ==
    /\ air.type \in {"DATA", "BAR", "ACK", "BA"}
    /\ air' = Nothing
    /\ UNCHANGED <<rcv, snd, up, offered, outcome, opener>>

-----------------------------------------------------------------------------
Next ==
    \/ PacketArrives \/ BackoffTimeout \/ AckTimeout
    \/ AckReceived \/ BlockAckReceived
    \/ ReceiveFrame \/ ReceiveSubframe \/ CorruptedSubframe \/ ReceiveBlockAckRequest
    \/ LoseSignal

SignalEnds ==
    \/ AckReceived \/ BlockAckReceived
    \/ ReceiveFrame \/ ReceiveSubframe \/ CorruptedSubframe \/ ReceiveBlockAckRequest
    \/ LoseSignal

\* The engine runs every timer and every end of a signal; the network layer
\* need not send.
Fairness == WF_vars(BackoffTimeout) /\ WF_vars(AckTimeout) /\ WF_vars(SignalEnds)

Spec == Init /\ [][Next]_vars /\ Fairness

-----------------------------------------------------------------------------
(* Properties. *)

Buffered == {f.id : f \in rcv.frameBuffer}

Delivered == {up[i] : i \in DOMAIN up}

\* No assertion of the receiver fails for the frame on the air: numbers convert
\* without a negative result (dot11_incoming_buffer.h:189), the window is never
\* moved past a frame that may still come (272), a block ack request never moves
\* it back (460), and an aggregate only comes when the session is active (353).
ReceiverAssertionsHold ==
    /\ air.type = "DATA" => FrameAssertions(rcv, air.frame.seq)
    /\ air.type = "BAR" => BlockAckRequestAssertions(rcv, air.start)
    /\ air.type = "AGGREGATE" => /\ rcv.blockAckSessionIsActive
                                 /\ FrameAssertions(rcv, Head(air.frames).seq)

\* No assertion of the transmitter fails: the reply finds nothing in the place
\* of the frame that the PHY still owns (dot11_mac.h:4881, 4943, 4944), every
\* subframe sent lies at or after the start of the block acknowledgement
\* (dot11_headers.h:323), and no backoff runs when one is started (2457).
SenderAssertionsHold ==
    /\ air.type = "ACK" => snd.currentPacket = NoFrame
    /\ air.type = "BA" /\ snd.lastSentFrameWasAn = "AggregateFrame" =>
          /\ HoldsNothing(snd)
          /\ \A i \in DOMAIN snd.lastTransmitted :
                CalcTwelveBitSequenceNumberDifference(snd.lastTransmitted[i].seq, air.start) >= 0
    /\ snd.waitingForAck => ~snd.backoff /\ snd.hasPacketToSend

\* The receiver's network layer gets packets in the order the other network
\* layer queued them and each at most once, whatever is lost, retried or given up.
DeliveredInOrder == \A i, j \in DOMAIN up : i < j => up[i] < up[j]

\* The transmitter counts a packet as acknowledged only when the receiver has
\* it - but for the packet that waited for the session to open, whose number
\* the first block ack request declares given up.
AckedIsReceived ==
    \A p \in Packets : outcome[p] = "acked" => p \in Delivered \cup Buffered \/ p = opener

\* A packet ends once: a frame that was acknowledged is not given up later, and
\* one given up, for which the receiver is told not to wait, is not sent again.
OutcomeIsFinal ==
    [][\A p \in Packets : outcome[p] # "none" => outcome'[p] = outcome[p]]_vars

Holding ==
    {snd.lastTransmitted[i].seq : i \in DOMAIN snd.lastTransmitted}
    \cup {snd.currentAggregateFrame[i].seq : i \in DOMAIN snd.currentAggregateFrame}
    \cup (IF snd.currentPacket = NoFrame THEN {} ELSE {snd.currentPacket.seq})

\* A frame waits in the buffer only for a missing one that the transmitter will
\* send again or has given up, and then a block ack request that says so is due.
BufferedFramesGetReleased ==
    rcv.frameBuffer # {} =>
        \/ snd.blockAckRequestNeedsToBeSent
        \/ rcv.currentLowestUnreceived % SeqMod \in Holding

\* The access category has stopped with an aggregate to retry.
Stopped == ~snd.hasPacketToSend /\ ~snd.backoff /\ snd.currentAggregateFrame # <<>>

\* Every packet is eventually acknowledged or given up, unless the access
\* category stops for good.
EveryPacketIsSettled == \A p \in Packets : offered >= p ~> outcome[p] # "none" \/ Stopped

-----------------------------------------------------------------------------
(* What comments and assertions of the code say, and it does not do. *)

\* dot11_mac.h:3312 and 783: the first block ack request starts the window on
\* the next frame, frames before it are not sent again.  So a frame behind the
\* window is one the receiver has had.
FrameBehindWindowWasReceived ==
    air.type = "DATA" /\ rcv.blockAckSessionIsActive =>
        \/ ~HaveAlreadySeen(rcv, NonWrapping(rcv, air.frame.seq))
        \/ air.frame.id \in Delivered \cup Buffered

\* dot11_mac.h:4252 and 4265: a backoff that ends without a transmission has
\* nothing to send.
IdleHoldsNothing ==
    ~snd.hasPacketToSend /\ ~snd.backoff => HoldsNothing(snd)

\* dot11_incoming_buffer.h:460: a block ack request never moves the window back.
\* It holds as long as the numbers given up in a row are fewer than half of
\* SeqMod, and an outage may be longer.
BlockAckRequestMovesForward ==
    air.type = "BAR" => BlockAckRequestAssertions(rcv, air.start)
=============================================================================
