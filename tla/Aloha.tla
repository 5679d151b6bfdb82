------------------------------- MODULE Aloha -------------------------------
(***************************************************************************)
(* ALOHA interfaces: the MACs of AlohaMac on the PHYs and the channel of   *)
(* AlohaPhy, with the simulation events that drive them.                   *)
(*                                                                         *)
(* Time is the order of the events.  A delay drawn at random or set by a   *)
(* parameter (retry interval, jitter, frame duration) may be of any        *)
(* length.  What is kept of time is: in the unslotted model an             *)
(* acknowledgement event is due at once, so it runs before any signal that *)
(* began after it was scheduled can end; in the slotted model timers fire  *)
(* at the beginning of a slot, an acknowledgement at the beginning of the  *)
(* next one, and a slot is long enough for one frame to reach everybody.   *)
(***************************************************************************)
EXTENDS AlohaMac, AlohaPhy

CONSTANTS AlohaModel,   \* "UNSLOTTED" or "SLOTTED"
          Destinations, \* Destinations[n]: where n's network layer sends packets
          MaxPackets    \* bound on the packets each node's network layer sends

ASSUME AlohaAssumption ==
    /\ AlohaModel \in {"UNSLOTTED", "SLOTTED"}
    /\ Destinations \in [Nodes -> SUBSET Addresses]
    /\ \A n \in Nodes : n \notin Destinations[n]
    /\ MaxPackets \in [Nodes -> Nat]

VARIABLES
    mac,         \* mac[n]: the state of n's MAC
    slotBegins,  \* slotted: the beginning of a slot, when timers fire
    attempts,    \* attempts[n]: transmissions of n's current packet so far
    offered,     \* offered[n]: destinations of the packets n's network layer sent
    outcome,     \* outcome[n]: what became of the packets n's MAC is done with
    received     \* received[n]: the packets n's network layer got, in order

linkVars == <<offered, outcome, received>>
vars == <<phyVars, mac, slotBegins, attempts, linkVars>>

Outcomes == [how : {"sent", "acked", "dropped"}, attempts : Nat]
Receptions == [from : Nodes, id : Nat]

TypeOK ==
    /\ PhyTypeOK
    /\ mac \in [Nodes -> MacRecords]
    /\ slotBegins \in BOOLEAN
    /\ attempts \in [Nodes -> Nat]
    /\ offered \in [Nodes -> Seq(Addresses)]
    /\ outcome \in [Nodes -> Seq(Outcomes)]
    /\ received \in [Nodes -> Seq(Receptions)]

Init ==
    /\ PhyInit
    /\ mac = [n \in Nodes |-> InitialMac]
    /\ slotBegins = FALSE
    /\ attempts = [n \in Nodes |-> 0]
    /\ offered = [n \in Nodes |-> <<>>]
    /\ outcome = [n \in Nodes |-> <<>>]
    /\ received = [n \in Nodes |-> <<>>]

-----------------------------------------------------------------------------
(* What is kept of time. *)

Slotted == AlohaModel = "SLOTTED"

TimersMayFire == Slotted => slotBegins

AirMayProgress == Slotted => ~slotBegins

\* In a slot all frames are on the air together: those that start in it have
\* all started, and arrived, before the first of them ends.
AllStarted == /\ \A n \in Nodes : phyTxState[n] # "TX_STARTING"
              /\ \A s, n \in Nodes : signal[s][n] # "coming"

SignalMayEnd(n) == IF Slotted THEN AllStarted ELSE mac[n].ackTimers = 0

ChannelIsQuiet == /\ \A n \in Nodes : phyTxState[n] = "IDLE"
                  /\ \A s, n \in Nodes : signal[s][n] = "none"

-----------------------------------------------------------------------------
\* n's network layer puts a packet in the output queue and notifies the MAC.
InsertPacket(n) ==
    /\ AirMayProgress
    /\ Len(offered[n]) < MaxPackets[n]
    /\ \E to \in Destinations[n] :
          /\ offered' = [offered EXCEPT ![n] = Append(@, to)]
          /\ mac' = [mac EXCEPT ![n] =
                        QueuePacket(@, [id |-> Len(offered[n]) + 1, to |-> to])]
    /\ UNCHANGED <<phyVars, slotBegins, attempts, outcome, received>>

DataTimerEvent(n) ==
    /\ TimersMayFire
    /\ mac[n].dataTimer
    /\ mac' = [mac EXCEPT ![n] = ProcessDataFrameTransmissionTimerEvent(@)]
    /\ IF TransmitsData(mac[n])
       THEN /\ TransmitAFrame(n, DataFrame(n, mac[n]))
            /\ attempts' = [attempts EXCEPT ![n] = @ + 1]
       ELSE UNCHANGED <<phyVars, attempts>>
    /\ UNCHANGED <<slotBegins, linkVars>>

AckTimerEvent(n) ==
    /\ TimersMayFire
    /\ mac[n].ackTimers > 0
    /\ mac' = [mac EXCEPT ![n] = TransmitAcknowledgement(@)]
    /\ TransmitAFrame(n, Head(mac[n].ackFrames))
    /\ UNCHANGED <<slotBegins, attempts, linkVars>>

Airborne(n) ==
    /\ AirMayProgress
    /\ StartTransmission(n)
    /\ UNCHANGED <<mac, slotBegins, attempts, linkVars>>

SignalStart(n, s) ==
    /\ StartReceivingSignalFromChannel(n, s)
    /\ UNCHANGED <<mac, slotBegins, attempts, linkVars>>

\* n's MAC is done with its current packet.
Settle(n, how) ==
    /\ outcome' = [outcome EXCEPT ![n] = Append(@, [how |-> how, attempts |-> attempts[n]])]
    /\ attempts' = [attempts EXCEPT ![n] = 0]

\* The frame ends the retransmissions of n's current packet.
Acknowledges(n, frame) ==
    /\ FrameWithThisAddressIsForThisNode(n, frame.to)
    /\ frame.type = "ACK"
    /\ IsExpectedAck(mac[n], frame)
    /\ HasDataPacketToSend(mac[n])

MacReceives(n, frame) ==
    /\ mac' = [mac EXCEPT ![n] = ReceiveFrameFromPhy(n, @, frame)]
    /\ received' = IF PassesUp(n, mac[n], frame)
                   THEN [received EXCEPT ![n] = Append(@, [from |-> frame.from, id |-> frame.id])]
                   ELSE received
    /\ IF Acknowledges(n, frame) THEN Settle(n, "acked") ELSE UNCHANGED <<outcome, attempts>>

SignalEnd(n, s) ==
    /\ SignalMayEnd(n)
    /\ EndReceivingSignalFromChannel(n, s)
    /\ IF GivesFrameToMac(n, s) THEN MacReceives(n, frameOnAir[s])
       ELSE UNCHANGED <<mac, received, outcome, attempts>>
    /\ UNCHANGED <<slotBegins, offered>>

TransmissionEnd(n) ==
    /\ Slotted => AllStarted
    /\ EndCurrentTransmission(n)
    /\ mac' = [mac EXCEPT ![n] = TransmissionIsCompleteNotification(@)]
    /\ IF mac[n].macState = "DATA_TRANSMITTING" /\ GivesUp(mac[n])
       THEN Settle(n, IF mac[n].currentDataPacket.to = Broadcast THEN "sent" ELSE "dropped")
       ELSE UNCHANGED <<outcome, attempts>>
    /\ UNCHANGED <<slotBegins, offered, received>>

\* The next slot begins.  An idle slot changes nothing else.
NextSlot ==
    /\ Slotted /\ ~slotBegins
    /\ ChannelIsQuiet
    /\ slotBegins' = TRUE
    /\ UNCHANGED <<phyVars, mac, attempts, linkVars>>

\* A mutant: an acknowledgement may miss the next slot.
SlotContinuesEarly ==
    /\ Slotted /\ slotBegins
    /\ slotBegins' = FALSE
    /\ UNCHANGED <<phyVars, mac, attempts, linkVars>>

\* All events due at the beginning of the slot have run.
SlotContinues ==
    /\ Slotted /\ slotBegins
    /\ \A n \in Nodes : mac[n].ackTimers = 0
    /\ slotBegins' = FALSE
    /\ UNCHANGED <<phyVars, mac, attempts, linkVars>>

Next ==
    \/ \E n \in Nodes :
          \/ InsertPacket(n)
          \/ DataTimerEvent(n)
          \/ AckTimerEvent(n)
          \/ Airborne(n)
          \/ TransmissionEnd(n)
          \/ \E s \in Nodes : SignalStart(n, s) \/ SignalEnd(n, s)
    \/ NextSlot
    \/ SlotContinues

Spec == Init /\ [][Next]_vars

\* Every scheduled event is executed.  A data timer waits for the beginning of
\* a slot, over and over, until the slot it was set for.
Fairness ==
    /\ \A n \in Nodes :
          /\ SF_vars(DataTimerEvent(n))
          /\ WF_vars(AckTimerEvent(n))
          /\ WF_vars(Airborne(n))
          /\ WF_vars(TransmissionEnd(n))
          /\ \A s \in Nodes : WF_vars(SignalStart(n, s)) /\ WF_vars(SignalEnd(n, s))
    /\ WF_vars(NextSlot)
    /\ WF_vars(SlotContinues)

FairSpec == Spec /\ Fairness

-----------------------------------------------------------------------------
(* Properties. *)

\* Every assertion of the MAC and the PHY holds when the event that evaluates
\* it runs: a timer finds the state it was set for, a transmission starts only
\* on an idle transmitter, and no good frame arrives at a MAC that transmits.
AssertionsHold ==
    \A n \in Nodes : LET m == mac[n] IN
        /\ m.macState \in TransmittingStates <=> phyTxState[n] # "IDLE"
        /\ m.dataTimer => m.macState # "IDLE" /\ HasDataPacketToSend(m)
        /\ m.ackTimers > 0 => m.macState = "ACK" /\ Len(m.ackFrames) = m.ackTimers
        /\ m.macState = "ACK_TRANSMITTING" /\ HasDataPacketToSend(m)
              => \/ m.transmitCurrentDataAfterAckTransmission
                 \/ m.dataTimer /\ m.currentDataPacket.to # Broadcast
        /\ m.macState \in TransmittingStates /\ currentlyReceiving[n] # NoNode
              => currentPacketHasAnError[n]

\* An interface with work to do has an event scheduled for it: it never idles
\* over a queued packet, and waits neither for an acknowledgement nor to send
\* one without a timer.
NeverStalls ==
    \A n \in Nodes : LET m == mac[n] IN
        /\ m.macState = "IDLE" => m.networkOutputQueue = <<>> /\ ~HasDataPacketToSend(m)
        /\ m.macState = "DATA" => m.dataTimer
        /\ m.macState = "ACK" => m.ackTimers > 0

\* A network layer gets the packets of another node at most once and in the
\* order in which they were sent, whatever is lost, repeated or collides
\* (the sequence number check of ProcessReceivedDataFrame).
AtMostOnceInOrder ==
    \A n \in Nodes : \A i, j \in DOMAIN received[n] :
        (i < j /\ received[n][i].from = received[n][j].from)
            => received[n][i].id < received[n][j].id

\* A packet whose retransmissions an acknowledgement ended has been delivered
\* to its destination: an acknowledgement is never taken for another packet's.
AckedWasReceived ==
    \A n \in Nodes : \A k \in DOMAIN outcome[n] :
        outcome[n][k].how = "acked" =>
            \E to \in Nodes \cap {offered[n][k]} : \E j \in DOMAIN received[to] :
                received[to][j] = [from |-> n, id |-> k]

\* A unicast packet is dropped only after RetryLimit + 1 transmissions and never
\* transmitted more often, also when retransmissions are put off until after
\* acknowledgements; a broadcast packet is transmitted once.
AttemptsAsConfigured ==
    \A n \in Nodes :
        /\ attempts[n] <= RetryLimit + 1
        /\ \A k \in DOMAIN outcome[n] :
              /\ outcome[n][k].how = "dropped" => outcome[n][k].attempts = RetryLimit + 1
              /\ outcome[n][k].how = "sent" => outcome[n][k].attempts = 1

\* The slotted interface never ends the simulation for a frame that arrives
\* while an acknowledgement waits for its slot (ProcessReceivedDataFrame).
SlottedNeverExits ==
    \A n, s \in Nodes :
        /\ Slotted /\ mac[n].macState = "ACK"
        /\ GivesFrameToMac(n, s)
        => ~(/\ FrameWithThisAddressIsForThisNode(n, frameOnAir[s].to)
             /\ frameOnAir[s].type = "DATA")

\* Every packet the network layer sends is sent, acknowledged or dropped.
EveryPacketIsSettled ==
    \A n \in Nodes : \A k \in 1 .. MaxPackets[n] :
        Len(offered[n]) >= k ~> Len(outcome[n]) >= k

\* The interfaces keep the promise of AlohaLink.
Link == INSTANCE AlohaLink
          WITH outcome <- [n \in Nodes |-> [k \in DOMAIN outcome[n] |-> outcome[n][k].how]]
ImplementsLink == Link!Spec
=============================================================================
