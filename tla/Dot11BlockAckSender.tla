------------------------- MODULE Dot11BlockAckSender -------------------------
(***************************************************************************)
(* The transmitter of an 802.11 MAC for one destination and one traffic id *)
(* of one access category (dot11/dot11_mac.h): sequence numbers, single    *)
(* frames and MPDU aggregates, retries, block ack requests.  Handlers are  *)
(* functions from the transmitter's state to its state after them.         *)
(*                                                                         *)
(* Frames are shorter than the RTS threshold.  A transmit opportunity      *)
(* (TXOP) granted by the scheduler may end after any exchange, and an      *)
(* aggregate may get any number of the frames that are allowed, as the     *)
(* time left decides.                                                      *)
(***************************************************************************)
EXTENDS Dot11IncomingBuffer

CONSTANTS RetryLimit,   \* shortFrameRetryLimit
          NoFrame,      \* an empty currentPacketPtr
          AllowFrameAggregationWithTxopZero  \* off unless configured (dot11_mac.h:1850)

ASSUME SenderAssumption ==
    RetryLimit \in Nat \ {0} /\ AllowFrameAggregationWithTxopZero \in BOOLEAN

Frames == [seq : SequenceNumbers, id : Nat]

ASSUME NoFrameAssumption == NoFrame \notin Frames

Senders == [
    \* OutgoingLinkInfoType
    outgoingSequenceNumber : SequenceNumbers,
    windowStartSequenceNumber : SequenceNumbers,
    lastDroppedFrameSequenceNumber : SequenceNumbers,
    blockAckSessionIsEnabled : BOOLEAN,
    blockAckRequestNeedsToBeSent : BOOLEAN,
    \* EdcaAccessCategoryInfo and the output queue
    networkOutputQueue : Seq(Nat),
    currentPacket : Frames \cup {NoFrame},
    currentAggregateFrame : Seq(Frames),       \* <<>>: no aggregate
    currentShortFrameRetryCount : Nat,
    currentAggregateFrameRetryCount : Nat,
    hasPacketToSend : BOOLEAN,
    backoff : BOOLEAN,                         \* currentNonExtendedBackoffDuration is finite
    \* Dot11Mac
    protect : BOOLEAN,                         \* protectAggregateFramesWithSingleAckedFrame
    waitingForAck : BOOLEAN,                   \* macState
    lastSentFrameWasAn : {"ShortFrame", "AggregateFrame", "BlockAckRequestFrame"},
    lastTransmitted : Seq(Frames),             \* owned by the PHY until it is taken back
    inTxop : BOOLEAN,                          \* currentTransmitOpportunityAkaTxopEndTime
    ackedInTxop : BOOLEAN]                     \* currentTransmitOpportunityAckedFrameCount > 0

\* The transmitter after seq frames that were all settled, with or without an
\* open session (seq = 0 and no session: the state it is constructed in).
InitialSender(seq, session, protect) == [
    outgoingSequenceNumber |-> seq,
    windowStartSequenceNumber |-> seq,
    lastDroppedFrameSequenceNumber |-> 0,
    blockAckSessionIsEnabled |-> session,
    blockAckRequestNeedsToBeSent |-> FALSE,
    networkOutputQueue |-> <<>>,
    currentPacket |-> NoFrame,
    currentAggregateFrame |-> <<>>,
    currentShortFrameRetryCount |-> 0,
    currentAggregateFrameRetryCount |-> 0,
    hasPacketToSend |-> FALSE,
    backoff |-> FALSE,
    protect |-> protect,
    waitingForAck |-> FALSE,
    lastSentFrameWasAn |-> "ShortFrame",
    lastTransmitted |-> <<>>,
    inTxop |-> FALSE,
    ackedInTxop |-> FALSE]

HoldsNothing(s) == s.currentPacket = NoFrame /\ s.currentAggregateFrame = <<>>

ThereAreQueuedPackets(s) == s.networkOutputQueue # <<>>

-----------------------------------------------------------------------------
(* From the queue to the air. *)

\* The next packet of the queue with its sequence number.
TakePacket(s) ==
    LET seq == IncrementTwelveBitSequenceNumber(s.outgoingSequenceNumber)
    IN [s EXCEPT !.outgoingSequenceNumber = seq,
                 !.windowStartSequenceNumber = seq,
                 !.networkOutputQueue = Tail(@),
                 !.currentPacket = [seq |-> seq, id |-> Head(s.networkOutputQueue)],
                 !.currentShortFrameRetryCount = 0]

\* A mutant: an aggregate does not wait for the block ack request.
MayAggregateEarly(s) ==
    /\ AllowFrameAggregationWithTxopZero \/ s.inTxop
    /\ s.protect => s.ackedInTxop

MayAggregate(s) ==
    /\ ~s.blockAckRequestNeedsToBeSent
    /\ AllowFrameAggregationWithTxopZero \/ s.inTxop
    /\ s.protect => s.ackedInTxop

\* A block ack request is used to have the receiver open the session.
EnableSession(s) ==
    [s EXCEPT !.blockAckRequestNeedsToBeSent = TRUE,
              !.blockAckSessionIsEnabled = TRUE,
              !.lastDroppedFrameSequenceNumber = s.outgoingSequenceNumber]

CalcNumberFramesLeftInSequenceNumWindow(s) ==
    W - CalcTwelveBitSequenceNumberDifference(s.outgoingSequenceNumber,
                                              s.windowStartSequenceNumber) - 1

\* How many packets may follow the current one in an aggregate.
FramesThatFit(s) ==
    0 .. IF CalcNumberFramesLeftInSequenceNumWindow(s) < Len(s.networkOutputQueue)
         THEN CalcNumberFramesLeftInSequenceNumWindow(s) ELSE Len(s.networkOutputQueue)

\* The current packet and the next "more" packets; alone it stays a single frame.
BuildAggregateFrameFromCurrentFrame(s, more) ==
    IF more = 0 THEN s
    ELSE [s EXCEPT
            !.outgoingSequenceNumber = (@ + more) % SeqMod,
            !.networkOutputQueue = SubSeq(@, more + 1, Len(@)),
            !.currentPacket = NoFrame,
            !.currentAggregateFrame =
                <<s.currentPacket>> \o
                [i \in 1 .. more |-> [seq |-> (s.outgoingSequenceNumber + i) % SeqMod,
                                      id |-> s.networkOutputQueue[i]]],
            !.currentAggregateFrameRetryCount = 0]

\* What RetrievePacketFromNetworkLayerForAccessCategory may leave to be sent.
Retrieved(s) ==
    LET taken == TakePacket(s)
    IN IF ~MayAggregate(taken) THEN {taken}
       ELSE IF ~taken.blockAckSessionIsEnabled THEN {EnableSession(taken)}
       ELSE {BuildAggregateFrameFromCurrentFrame(taken, more) : more \in FramesThatFit(taken)}

\* Before the first acknowledgement of a TXOP only the first frame of an
\* aggregate is retried.
TakeOneOfAggregate(s) ==
    IF s.protect /\ ~s.ackedInTxop /\ s.currentPacket = NoFrame
    THEN [s EXCEPT !.currentPacket = Head(s.currentAggregateFrame),
                   !.currentAggregateFrame = Tail(@),
                   !.currentShortFrameRetryCount = s.currentAggregateFrameRetryCount]
    ELSE s

\* TransmitAFrame in two parts: what it makes ready, and what it sends of that.
ReadyToTransmit(s) ==
    {TakeOneOfAggregate(r) : r \in IF HoldsNothing(s) THEN Retrieved(s) ELSE {s}}

WhatToSend(s) ==
    IF s.currentPacket = NoFrame THEN "AggregateFrame"
    ELSE IF s.blockAckRequestNeedsToBeSent THEN "BlockAckRequestFrame"
    ELSE "ShortFrame"

\* A mutant: the MAC keeps the frame it hands to the PHY.
AfterTransmissionOfACopy(s) ==
    [s EXCEPT !.waitingForAck = TRUE,
              !.lastSentFrameWasAn = WhatToSend(s),
              !.lastTransmitted = CASE WhatToSend(s) = "ShortFrame" -> <<s.currentPacket>>
                                    [] WhatToSend(s) = "AggregateFrame" -> s.currentAggregateFrame
                                    [] OTHER -> <<>>]

AfterTransmission(s) ==
    LET sent == WhatToSend(s)
    IN [s EXCEPT
          !.waitingForAck = TRUE,
          !.lastSentFrameWasAn = sent,
          !.lastTransmitted = CASE sent = "ShortFrame" -> <<s.currentPacket>>
                                [] sent = "AggregateFrame" -> s.currentAggregateFrame
                                [] OTHER -> <<>>,
          !.currentPacket = IF sent = "ShortFrame" THEN NoFrame ELSE @,
          !.currentAggregateFrame = IF sent = "AggregateFrame" THEN <<>> ELSE @]

\* The signal: frames for DATA and AGGREGATE, a sequence number for BAR.
SignalOf(s) ==
    LET sent == WhatToSend(s)
    IN CASE sent = "ShortFrame" -> [type |-> "DATA", frame |-> s.currentPacket]
         [] sent = "AggregateFrame" ->
              [type |-> "AGGREGATE", frames |-> s.currentAggregateFrame, good |-> FALSE]
         [] OTHER ->
              [type |-> "BAR", start |-> IncrementTwelveBitSequenceNumber(
                                             s.lastDroppedFrameSequenceNumber)]

-----------------------------------------------------------------------------
(* Access to the medium. *)

StartPacketSendProcess(s, forceBackoff) ==
    LET h == [s EXCEPT !.hasPacketToSend = IF HoldsNothing(s) THEN ThereAreQueuedPackets(s) ELSE @]
    IN IF forceBackoff \/ h.hasPacketToSend THEN [h EXCEPT !.backoff = TRUE] ELSE h

\* The notification changes nothing while the access category is active.
NetworkLayerQueueChangeNotification(s, id) ==
    LET queued == [s EXCEPT !.networkOutputQueue = Append(@, id)]
    IN IF s.backoff \/ s.hasPacketToSend THEN queued
       ELSE StartPacketSendProcess(queued, FALSE)

\* A mutant: what was queued during the backoff is not looked at.
AtBackoffTimeoutAsBefore(s) ==
    [s EXCEPT !.backoff = FALSE,
              !.hasPacketToSend = @ /\ (s.currentPacket = NoFrame => ThereAreQueuedPackets(s))]

\* The backoff has expired; hasPacketToSend decides whether a frame is sent.
AtBackoffTimeout(s) ==
    [s EXCEPT !.backoff = FALSE,
              !.hasPacketToSend = IF s.currentPacket = NoFrame THEN ThereAreQueuedPackets(s) ELSE @]

StartTxop(s, granted) == [s EXCEPT !.inTxop = granted, !.ackedInTxop = FALSE]

EndTxop(s) == StartPacketSendProcess([s EXCEPT !.inTxop = FALSE], TRUE)

\* DoSuccessfulTransmissionPostProcessing may go on in the TXOP.
MayContinueTxop(s) ==
    s.inTxop /\ (s.currentAggregateFrame # <<>> \/ ThereAreQueuedPackets(s))

-----------------------------------------------------------------------------
(* The end of an exchange. *)

\* A mutant: the receiver is not told that the frame will not come.
DropCurrentPacketSilently(s) ==
    [s EXCEPT !.lastDroppedFrameSequenceNumber = s.currentPacket.seq,
              !.currentPacket = NoFrame,
              !.hasPacketToSend = ThereAreQueuedPackets(s),
              !.currentShortFrameRetryCount = 0]

DropCurrentPacketAndGoToNextPacket(s) ==
    [s EXCEPT !.lastDroppedFrameSequenceNumber = s.currentPacket.seq,
              !.blockAckRequestNeedsToBeSent = @ \/ s.blockAckSessionIsEnabled,
              !.currentPacket = NoFrame,
              !.hasPacketToSend = ThereAreQueuedPackets(s),
              !.currentShortFrameRetryCount = 0]

\* The last frame given up moves the receiver's window.
DropAggregate(s, frames) ==
    [s EXCEPT !.currentAggregateFrame = <<>>,
              !.currentAggregateFrameRetryCount = 0,
              !.blockAckRequestNeedsToBeSent = TRUE,
              !.lastDroppedFrameSequenceNumber = frames[Len(frames)].seq]

\* What was sent is owned by the MAC again.
TakeBack(s) ==
    LET back == [s EXCEPT !.waitingForAck = FALSE, !.lastTransmitted = <<>>]
    IN CASE s.lastSentFrameWasAn = "ShortFrame" ->
              [back EXCEPT !.currentPacket = Head(s.lastTransmitted)]
         [] s.lastSentFrameWasAn = "AggregateFrame" ->
              [back EXCEPT !.currentAggregateFrame = s.lastTransmitted]
         [] OTHER -> back

GivesUpAfterTimeout(s) ==
    IF s.lastSentFrameWasAn = "AggregateFrame"
    THEN s.currentAggregateFrameRetryCount + 1 >= RetryLimit
    ELSE s.currentShortFrameRetryCount + 1 >= RetryLimit

NeverReceivedAcknowledgement(s) ==
    LET back == [TakeBack(s) EXCEPT !.backoff = TRUE]
        aggregate == s.lastSentFrameWasAn = "AggregateFrame"
    IN IF GivesUpAfterTimeout(s)
       THEN IF aggregate THEN DropAggregate(back, back.currentAggregateFrame)
            ELSE DropCurrentPacketAndGoToNextPacket(back)
       ELSE IF aggregate THEN [back EXCEPT !.currentAggregateFrameRetryCount = @ + 1]
            ELSE [back EXCEPT !.currentShortFrameRetryCount = @ + 1]

\* The packets that end without an acknowledgement with it.
DroppedAtTimeout(s) ==
    IF ~GivesUpAfterTimeout(s) THEN {}
    ELSE IF s.lastSentFrameWasAn = "BlockAckRequestFrame" THEN {s.currentPacket.id}
    ELSE {s.lastTransmitted[i].id : i \in DOMAIN s.lastTransmitted}

ProcessAcknowledgementFrame(s) ==
    [s EXCEPT !.waitingForAck = FALSE, !.lastTransmitted = <<>>, !.ackedInTxop = TRUE]

\* A mutant: a bit counts for the frame after the one it stands for.
IsAckedNext(ba, seq) ==
    LET offset == CalcTwelveBitSequenceNumberDifference(seq, ba.start)
    IN offset < W /\ (offset - 1 \in ba.bitmap \/ offset \in ba.bitmap)

IsAcked(ba, seq) ==
    LET offset == CalcTwelveBitSequenceNumberDifference(seq, ba.start)
    IN offset < W /\ offset \in ba.bitmap

\* The number after the run of set bits at the beginning of the bitmap.
WindowStartAfter(ba) == (ba.start + EndOfRun(ba.bitmap, 0, W)) % SeqMod

\* A mutant: one missing subframe has the whole aggregate sent again.
UnackedWithAcked(s, ba) ==
    IF \A i \in DOMAIN s.lastTransmitted : IsAcked(ba, s.lastTransmitted[i].seq) THEN <<>>
    ELSE s.lastTransmitted

\* The frames sent that are not acknowledged, in the order they were sent in.
Unacked(s, ba) ==
    LET missing == {i \in DOMAIN s.lastTransmitted : ~IsAcked(ba, s.lastTransmitted[i].seq)}
    IN [k \in 1 .. Cardinality(missing) |->
          s.lastTransmitted[CHOOSE i \in missing : Cardinality({j \in missing : j < i}) = k - 1]]

\* The subframes not acknowledged are retried as an aggregate, or given up.
AfterAggregateAcked(s, unacked) ==
    IF unacked = <<>>
    THEN [s EXCEPT !.currentAggregateFrame = <<>>, !.currentAggregateFrameRetryCount = 0]
    ELSE IF s.currentAggregateFrameRetryCount + 1 >= RetryLimit THEN DropAggregate(s, unacked)
    ELSE [s EXCEPT !.currentAggregateFrame = unacked, !.currentAggregateFrameRetryCount = @ + 1]

ProcessBlockAckFrame(s, ba) ==
    LET done == [s EXCEPT !.waitingForAck = FALSE,
                          !.lastTransmitted = <<>>,
                          !.blockAckRequestNeedsToBeSent = FALSE,
                          !.ackedInTxop = TRUE,
                          !.windowStartSequenceNumber = WindowStartAfter(ba)]
    IN IF s.lastSentFrameWasAn = "AggregateFrame" THEN AfterAggregateAcked(done, Unacked(s, ba))
       ELSE [done EXCEPT !.currentShortFrameRetryCount = 0]

AckedBy(s, ba) == {f.id : f \in {g \in {s.lastTransmitted[i] : i \in DOMAIN s.lastTransmitted} :
                                   IsAcked(ba, g.seq)}}

DroppedAtBlockAck(s, ba) ==
    LET unacked == Unacked(s, ba)
    IN IF s.currentAggregateFrameRetryCount + 1 >= RetryLimit
       THEN {unacked[i].id : i \in DOMAIN unacked} ELSE {}
=============================================================================
