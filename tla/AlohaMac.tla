------------------------------ MODULE AlohaMac ------------------------------
(***************************************************************************)
(* The handlers of one ALOHA MAC (simulator/aloha/aloha_mac.h), as         *)
(* functions from the MAC's state before the handler to its state after.   *)
(* Handlers call each other in the code, so the functions compose.         *)
(*                                                                         *)
(* A MAC sends the packets of its output queue one at a time, repeats an   *)
(* unacknowledged unicast frame up to RetryLimit times, acknowledges every *)
(* unicast frame it receives and drops repeated ones.                      *)
(***************************************************************************)
EXTENDS AlohaFrames, Sequences

CONSTANTS RetryLimit,   \* aloha-retry-limit
          NoPacket      \* an empty currentDataPacketPtr

ASSUME MacAssumption == RetryLimit \in Nat /\ NoPacket \notin Packets

TransmittingStates == {"DATA_TRANSMITTING", "ACK_TRANSMITTING"}
MacStates == {"IDLE", "DATA", "ACK"} \cup TransmittingStates

MacRecords == [
    macState : MacStates,
    networkOutputQueue : Seq(Packets),
    currentDataPacket : Packets \cup {NoPacket},
    currentFrameSequenceNumber : Nat,
    currentRetryCount : Nat,
    dataTimer : BOOLEAN,      \* dataFrameTransmissionTimerEventTicket is not null
    ackFrames : Seq(Frames),
    ackTimers : Nat,          \* acknowledgement events scheduled (no ticket: not cancellable)
    transmitCurrentDataAfterAckTransmission : BOOLEAN,
    lastSequenceNumberMap : [Nodes -> Nat]]    \* 0: no entry

InitialMac == [
    macState |-> "IDLE",
    networkOutputQueue |-> <<>>,
    currentDataPacket |-> NoPacket,
    currentFrameSequenceNumber |-> 0,
    currentRetryCount |-> 0,
    dataTimer |-> FALSE,
    ackFrames |-> <<>>,
    ackTimers |-> 0,
    transmitCurrentDataAfterAckTransmission |-> FALSE,
    lastSequenceNumberMap |-> [n \in Nodes |-> 0]]

DataFrame(n, m) == [type |-> "DATA", from |-> n, to |-> m.currentDataPacket.to,
                    seq |-> m.currentFrameSequenceNumber, id |-> m.currentDataPacket.id]

AckFrame(n, frame) == [type |-> "ACK", from |-> n, to |-> frame.from,
                       seq |-> frame.seq, id |-> frame.id]

HasAckToSend(m) == m.ackFrames # <<>>
HasDataPacketToSend(m) == m.currentDataPacket # NoPacket

-----------------------------------------------------------------------------
(* Sending the packets of the output queue. *)

ScheduleDataFrameTransmissionTimerEvent(m) == [m EXCEPT !.dataTimer = TRUE]

\* Every next hop has a MAC address (SimpleMacAddressResolver).
RetrievePacketFromNetworkLayer(m) ==
    [m EXCEPT !.currentDataPacket = Head(m.networkOutputQueue), !.networkOutputQueue = Tail(@)]

StartCurrentPacket(m) ==
    [m EXCEPT !.macState = "DATA",
              !.currentRetryCount = 0,
              !.currentFrameSequenceNumber = @ + 1]

TransmitNextDataFrameIfNecessary(m) ==
    IF m.networkOutputQueue = <<>> THEN m
    ELSE ScheduleDataFrameTransmissionTimerEvent(
            StartCurrentPacket(RetrievePacketFromNetworkLayer(m)))

\* The network layer has put a packet in the output queue.
NetworkLayerQueueChangeNotification(m) ==
    IF m.macState = "IDLE" THEN TransmitNextDataFrameIfNecessary(m) ELSE m

QueuePacket(m, packet) ==
    NetworkLayerQueueChangeNotification([m EXCEPT !.networkOutputQueue = Append(@, packet)])

\* A mutant: the retransmission timer is not cancelled.
EndWithoutCancelling(m) == [m EXCEPT !.currentDataPacket = NoPacket, !.currentRetryCount = 0]

EndCurrentDataTransmission(m) ==
    [m EXCEPT !.dataTimer = FALSE, !.currentDataPacket = NoPacket, !.currentRetryCount = 0]

\* TRUE if this step of the timer hands the current data frame to the PHY.
TransmitsData(m) == m.macState = "DATA"

\* The code aborts in IDLE_STATE.
TransmitDataOrWaitAckTransmissionEndIfAckState(m) ==
    IF TransmitsData(m)
    THEN [m EXCEPT !.macState = "DATA_TRANSMITTING"]
    ELSE [m EXCEPT !.transmitCurrentDataAfterAckTransmission = TRUE]

ProcessDataFrameTransmissionTimerEvent(m) ==
    TransmitDataOrWaitAckTransmissionEndIfAckState([m EXCEPT !.dataTimer = FALSE])

\* The acknowledgement event: the first acknowledgement goes to the PHY.
TransmitAcknowledgement(m) ==
    [m EXCEPT !.ackTimers = @ - 1,
              !.ackFrames = Tail(@),
              !.macState = "ACK_TRANSMITTING"]

-----------------------------------------------------------------------------
(* The end of a transmission. *)

ScheduleAcknowledgement(m) == [m EXCEPT !.macState = "ACK", !.ackTimers = @ + 1]

\* A mutant: one retransmission too many.
GivesUpLate(m) == \/ m.currentDataPacket.to = Broadcast
                  \/ m.currentRetryCount > RetryLimit

\* The current packet is of no more concern after this data transmission.
GivesUp(m) == \/ m.currentDataPacket.to = Broadcast
              \/ m.currentRetryCount >= RetryLimit

\* A mutant: the retries are counted down.
AfterDataTransmissionCountsDown(m) ==
    IF GivesUp(m) THEN EndCurrentDataTransmission(m)
    ELSE [ScheduleDataFrameTransmissionTimerEvent(m) EXCEPT !.currentRetryCount = @ - 1]

AfterDataTransmission(m) ==
    IF GivesUp(m) THEN EndCurrentDataTransmission(m)
    ELSE [ScheduleDataFrameTransmissionTimerEvent(m) EXCEPT !.currentRetryCount = @ + 1]

\* A mutant: the packets that queued up meanwhile are forgotten.
NextTransmissionForgetsQueue(m) ==
    IF HasAckToSend(m) THEN ScheduleAcknowledgement(m)
    ELSE IF ~HasDataPacketToSend(m) THEN [m EXCEPT !.macState = "IDLE"]
    ELSE IF m.macState = "ACK_TRANSMITTING" /\ m.transmitCurrentDataAfterAckTransmission
         THEN ScheduleDataFrameTransmissionTimerEvent(
                [m EXCEPT !.macState = "DATA",
                          !.transmitCurrentDataAfterAckTransmission = FALSE])
    ELSE [m EXCEPT !.macState = "DATA"]

NextTransmission(m) ==
    IF HasAckToSend(m) THEN ScheduleAcknowledgement(m)
    ELSE IF ~HasDataPacketToSend(m)
         THEN TransmitNextDataFrameIfNecessary([m EXCEPT !.macState = "IDLE"])
    ELSE IF m.macState = "ACK_TRANSMITTING" /\ m.transmitCurrentDataAfterAckTransmission
         THEN ScheduleDataFrameTransmissionTimerEvent(
                [m EXCEPT !.macState = "DATA",
                          !.transmitCurrentDataAfterAckTransmission = FALSE])
    ELSE [m EXCEPT !.macState = "DATA"]

TransmissionIsCompleteNotification(m) ==
    NextTransmission(IF m.macState = "DATA_TRANSMITTING" THEN AfterDataTransmission(m) ELSE m)

-----------------------------------------------------------------------------
(* Reception. *)

FrameWithThisAddressIsForThisNode(n, address) == address \in {n, Broadcast}

\* A mutant: repeated frames are not recognised.
NeverSeenBefore(m, frame) == FALSE

HaveAlreadySeenThisPacketBefore(m, frame) == m.lastSequenceNumberMap[frame.from] = frame.seq

\* The packet of the frame goes up to the network layer.
PassesUp(n, m, frame) ==
    /\ FrameWithThisAddressIsForThisNode(n, frame.to)
    /\ frame.type = "DATA"
    /\ ~HaveAlreadySeenThisPacketBefore(m, frame)

QueueAcknowledgement(n, m, frame) ==
    ScheduleAcknowledgement(
        TransmitDataOrWaitAckTransmissionEndIfAckState(
            [m EXCEPT !.macState = "ACK", !.ackFrames = Append(@, AckFrame(n, frame))]))

\* A mutant: sequence numbers of acknowledged frames are not remembered.
ProcessReceivedDataFrameForgets(n, m, frame) ==
    IF frame.to = Broadcast THEN m ELSE QueueAcknowledgement(n, m, frame)

ProcessReceivedDataFrame(n, m, frame) ==
    [(IF frame.to = Broadcast THEN m ELSE QueueAcknowledgement(n, m, frame))
        EXCEPT !.lastSequenceNumberMap[frame.from] = frame.seq]

\* A mutant: any acknowledgement will do.
AnyAck(m, frame) == TRUE

\* The frame acknowledges the packet the MAC last took from its queue.
IsExpectedAck(m, frame) == frame.seq = m.currentFrameSequenceNumber

\* A mutant: the next packet is not taken from the queue.
ProcessReceivedAcknowledgementFrameAndRest(m, frame) ==
    IF ~IsExpectedAck(m, frame) THEN m
    ELSE IF m.macState = "DATA"
         THEN [EndCurrentDataTransmission(m) EXCEPT !.macState = "IDLE"]
    ELSE EndCurrentDataTransmission(m)

ProcessReceivedAcknowledgementFrame(m, frame) ==
    IF ~IsExpectedAck(m, frame) THEN m
    ELSE IF m.macState = "DATA"
         THEN TransmitNextDataFrameIfNecessary(
                [EndCurrentDataTransmission(m) EXCEPT !.macState = "IDLE"])
    ELSE EndCurrentDataTransmission(m)

ReceiveFrameFromPhy(n, m, frame) ==
    IF ~FrameWithThisAddressIsForThisNode(n, frame.to) THEN m
    ELSE IF frame.type = "DATA" THEN ProcessReceivedDataFrame(n, m, frame)
    ELSE ProcessReceivedAcknowledgementFrame(m, frame)
=============================================================================
