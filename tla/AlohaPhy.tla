------------------------------ MODULE AlohaPhy ------------------------------
(***************************************************************************)
(* The half-duplex physical layer of the ALOHA interface                   *)
(* (simulator/aloha/aloha_phy.h, aloha_phy.cpp), for all nodes, with the   *)
(* radio channel between them.                                             *)
(*                                                                         *)
(* The channel is the propagation model of the simulator as the PHY uses   *)
(* it: a transmission of s reaches the receivers whose received power      *)
(* passes the threshold (a subset of MayHear[s] chosen per transmission),  *)
(* begins and ends at each of them after a propagation delay, and lasts a  *)
(* positive time.                                                          *)
(***************************************************************************)
EXTENDS AlohaFrames

CONSTANTS NoNode,     \* INVALID_NODEID
          NoFrame,    \* an empty macFramePtr
          MayHear     \* MayHear[s]: the nodes a signal of s may reach

ASSUME PhyAssumption ==
    /\ NoNode \notin Nodes
    /\ NoFrame \notin Frames
    /\ MayHear \in [Nodes -> SUBSET Nodes]
    /\ \A s \in Nodes : s \notin MayHear[s]

VARIABLES
    phyTxState,                 \* IDLE, TX_STARTING or TRANSMITTING
    phyRxState,                 \* SCANNING or RECEIVING
    currentlyReceiving,         \* currentlyReceivingFrameInfo.sourceNodeId
    currentPacketHasAnError,
    numberOfCurrentInterferingSignals,
    currentPropagatedFrame,     \* the frame of the last TransmitAFrame
    frameOnAir,                 \* the frame of the last signal given to the channel
    signal                      \* signal[s][n]: s's signal as n's antenna has it

phyVars == <<phyTxState, phyRxState, currentlyReceiving, currentPacketHasAnError,
             numberOfCurrentInterferingSignals, currentPropagatedFrame, frameOnAir,
             signal>>

rxVars == <<phyRxState, currentlyReceiving, currentPacketHasAnError,
            numberOfCurrentInterferingSignals>>

PhyTypeOK ==
    /\ phyTxState \in [Nodes -> {"IDLE", "TX_STARTING", "TRANSMITTING"}]
    /\ phyRxState \in [Nodes -> {"SCANNING", "RECEIVING"}]
    /\ currentlyReceiving \in [Nodes -> Nodes \cup {NoNode}]
    /\ currentPacketHasAnError \in [Nodes -> BOOLEAN]
    /\ numberOfCurrentInterferingSignals \in [Nodes -> Nat]
    /\ currentPropagatedFrame \in [Nodes -> Frames \cup {NoFrame}]
    /\ frameOnAir \in [Nodes -> Frames \cup {NoFrame}]
    /\ signal \in [Nodes -> [Nodes -> {"none", "coming", "on"}]]

PhyInit ==
    /\ phyTxState = [n \in Nodes |-> "IDLE"]
    /\ phyRxState = [n \in Nodes |-> "SCANNING"]
    /\ currentlyReceiving = [n \in Nodes |-> NoNode]
    /\ currentPacketHasAnError = [n \in Nodes |-> TRUE]
    /\ numberOfCurrentInterferingSignals = [n \in Nodes |-> 0]
    /\ currentPropagatedFrame = [n \in Nodes |-> NoFrame]
    /\ frameOnAir = [n \in Nodes |-> NoFrame]
    /\ signal = [s \in Nodes |-> [n \in Nodes |-> "none"]]

-----------------------------------------------------------------------------
(* Transmission. *)

\* A mutant: the frame being received is not spoiled.
TransmitAFrameKeepsReceiving(n, frame) ==
    /\ phyTxState' = [phyTxState EXCEPT ![n] = "TX_STARTING"]
    /\ currentPropagatedFrame' = [currentPropagatedFrame EXCEPT ![n] = frame]
    /\ UNCHANGED <<rxVars, frameOnAir, signal>>

\* Called by the MAC.  The code asserts that the transmitter is idle.
TransmitAFrame(n, frame) ==
    /\ phyTxState' = [phyTxState EXCEPT ![n] = "TX_STARTING"]
    /\ currentPacketHasAnError' =
          [currentPacketHasAnError EXCEPT ![n] = @ \/ phyRxState[n] = "RECEIVING"]
    /\ currentPropagatedFrame' = [currentPropagatedFrame EXCEPT ![n] = frame]
    /\ UNCHANGED <<phyRxState, currentlyReceiving,
                   numberOfCurrentInterferingSignals, frameOnAir, signal>>

\* The frame goes on the air delayUntilAirborne after TransmitAFrame, by which
\* time the node's previous signal has passed all receivers.  Until then that
\* signal still carries the previous frame: propagatedFramePtrs alternates
\* between two frames.
StartTransmission(s) ==
    /\ phyTxState[s] = "TX_STARTING"
    /\ \A n \in Nodes : signal[s][n] = "none"
    /\ phyTxState' = [phyTxState EXCEPT ![s] = "TRANSMITTING"]
    /\ \E reached \in SUBSET MayHear[s] :
          signal' = [signal EXCEPT ![s] =
                       [n \in Nodes |-> IF n \in reached THEN "coming" ELSE "none"]]
    /\ frameOnAir' = [frameOnAir EXCEPT ![s] = currentPropagatedFrame[s]]
    /\ UNCHANGED <<rxVars, currentPropagatedFrame>>

\* The PHY part of the end of a transmission; the MAC is then notified.
EndCurrentTransmission(s) ==
    /\ phyTxState[s] = "TRANSMITTING"
    /\ phyTxState' = [phyTxState EXCEPT ![s] = "IDLE"]
    /\ UNCHANGED <<rxVars, currentPropagatedFrame, frameOnAir, signal>>

-----------------------------------------------------------------------------
(* Reception. *)

\* Every signal is that of a frame, so it is complete: the MAC sends no noise frames.
LocksOnto(n) == phyRxState[n] = "SCANNING" /\ phyTxState[n] = "IDLE"

\* A mutant: a signal that begins while n transmits is not counted.
StartReceivingOnlyIfListening(n, s) ==
    /\ signal[s][n] = "coming"
    /\ signal' = [signal EXCEPT ![s][n] = "on"]
    /\ phyRxState' = [phyRxState EXCEPT ![n] = "RECEIVING"]
    /\ currentPacketHasAnError' = [currentPacketHasAnError EXCEPT ![n] = ~LocksOnto(n)]
    /\ currentlyReceiving' = [currentlyReceiving EXCEPT ![n] = IF LocksOnto(n) THEN s ELSE @]
    /\ numberOfCurrentInterferingSignals' =
          [numberOfCurrentInterferingSignals EXCEPT
             ![n] = IF LocksOnto(n) \/ phyTxState[n] # "IDLE" THEN @ ELSE @ + 1]
    /\ UNCHANGED <<phyTxState, currentPropagatedFrame, frameOnAir>>

\* The beginning of s's signal reaches n: n locks onto it, or counts it as noise.
StartReceivingSignalFromChannel(n, s) ==
    /\ signal[s][n] = "coming"
    /\ signal' = [signal EXCEPT ![s][n] = "on"]
    /\ phyRxState' = [phyRxState EXCEPT ![n] = "RECEIVING"]
    /\ currentPacketHasAnError' = [currentPacketHasAnError EXCEPT ![n] = ~LocksOnto(n)]
    /\ \/ /\ LocksOnto(n)
          /\ currentlyReceiving' = [currentlyReceiving EXCEPT ![n] = s]
          /\ UNCHANGED numberOfCurrentInterferingSignals
       \/ /\ ~LocksOnto(n)
          /\ numberOfCurrentInterferingSignals' =
                [numberOfCurrentInterferingSignals EXCEPT ![n] = @ + 1]
          /\ UNCHANGED currentlyReceiving
    /\ UNCHANGED <<phyTxState, currentPropagatedFrame, frameOnAir>>

\* The MAC is given s's frame at the end of its signal at n.
GivesFrameToMac(n, s) == currentlyReceiving[n] = s /\ ~currentPacketHasAnError[n]

ProcessEndOfTheSignalCurrentlyBeingReceived(n) ==
    /\ currentlyReceiving' = [currentlyReceiving EXCEPT ![n] = NoNode]
    /\ phyRxState' = [phyRxState EXCEPT ![n] =
                        IF numberOfCurrentInterferingSignals[n] = 0 THEN "SCANNING" ELSE @]
    /\ UNCHANGED numberOfCurrentInterferingSignals

ProcessEndOfANoise(n) ==
    /\ numberOfCurrentInterferingSignals' =
          [numberOfCurrentInterferingSignals EXCEPT ![n] = @ - 1]
    /\ phyRxState' = [phyRxState EXCEPT ![n] =
                        IF /\ numberOfCurrentInterferingSignals[n] = 1
                           /\ currentlyReceiving[n] = NoNode
                        THEN "SCANNING" ELSE @]
    /\ UNCHANGED currentlyReceiving

\* A mutant: the frame being received is good again when the interference ends.
EndReceivingForgetsInterference(n, s) ==
    /\ signal[s][n] = "on"
    /\ signal' = [signal EXCEPT ![s][n] = "none"]
    /\ \/ /\ currentlyReceiving[n] = s
          /\ ProcessEndOfTheSignalCurrentlyBeingReceived(n)
          /\ UNCHANGED currentPacketHasAnError
       \/ /\ currentlyReceiving[n] # s
          /\ ProcessEndOfANoise(n)
          /\ currentPacketHasAnError' =
                [currentPacketHasAnError EXCEPT ![n] =
                   @ /\ ~(numberOfCurrentInterferingSignals[n] = 1 /\ phyTxState[n] = "IDLE")]
    /\ UNCHANGED <<phyTxState, currentPropagatedFrame, frameOnAir>>

\* The end of s's signal at n.  The signals are told apart by their source only.
EndReceivingSignalFromChannel(n, s) ==
    /\ signal[s][n] = "on"
    /\ signal' = [signal EXCEPT ![s][n] = "none"]
    /\ \/ currentlyReceiving[n] = s /\ ProcessEndOfTheSignalCurrentlyBeingReceived(n)
       \/ currentlyReceiving[n] # s /\ ProcessEndOfANoise(n)
    /\ UNCHANGED <<phyTxState, currentPacketHasAnError, currentPropagatedFrame, frameOnAir>>

-----------------------------------------------------------------------------
(* The PHY on its own, under a MAC that transmits whenever the assertion of *)
(* TransmitAFrame allows.  The PHY does not look into frames: one will do.  *)

MacTransmits(n) ==
    /\ phyTxState[n] = "IDLE"
    /\ TransmitAFrame(n, [type |-> "DATA", from |-> n, to |-> Broadcast, seq |-> 1, id |-> 1])

PhyNext ==
    \E n \in Nodes :
        \/ MacTransmits(n)
        \/ StartTransmission(n)
        \/ EndCurrentTransmission(n)
        \/ \E s \in Nodes : \/ StartReceivingSignalFromChannel(n, s)
                            \/ EndReceivingSignalFromChannel(n, s)

PhySpec == PhyInit /\ [][PhyNext]_phyVars

-----------------------------------------------------------------------------
SignalsOn(n) == {s \in Nodes : signal[s][n] = "on"}
Interferers(n) == SignalsOn(n) \ {currentlyReceiving[n]}

\* The interference counter is the number of signals at the antenna other than
\* the one the receiver has locked onto, so a decrement never underflows the
\* unsigned counter and every signal end finds a receiver that knows of it
\* (the assertions of EndReceivingSignalFromChannel and ProcessEndOfANoise).
InterferenceCountExact ==
    \A n \in Nodes :
        /\ currentlyReceiving[n] # NoNode => currentlyReceiving[n] \in SignalsOn(n)
        /\ numberOfCurrentInterferingSignals[n] = Cardinality(Interferers(n))

\* The receiver scans exactly when no signal is at its antenna: it never stays
\* deaf after the last signal ended and never locks onto a second one.
ScanningIffSilent ==
    \A n \in Nodes : phyRxState[n] = "SCANNING" <=> SignalsOn(n) = {}

\* A frame still considered good was alone at the antenna, at a node that is
\* not transmitting: collisions and half-duplex losses never go up to the MAC.
GoodFrameIsAlone ==
    \A n \in Nodes :
        (currentlyReceiving[n] # NoNode /\ ~currentPacketHasAnError[n])
            => SignalsOn(n) = {currentlyReceiving[n]} /\ phyTxState[n] = "IDLE"

\* A frame that was hit stays bad until its signal ends, even when the
\* interference or the node's own transmission is over before.
HitFrameStaysBad ==
    [][\A n \in Nodes :
          (/\ currentlyReceiving[n] # NoNode
           /\ currentlyReceiving'[n] = currentlyReceiving[n]
           /\ currentPacketHasAnError[n])
              => currentPacketHasAnError'[n]]_phyVars
=============================================================================
