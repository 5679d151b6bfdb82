---------------------------- MODULE Aloha_proofs ----------------------------
(***************************************************************************)
(* Proofs about the ALOHA interfaces, for any number of nodes and packets, *)
(* any topology, retry limit and both ALOHA models.                        *)
(*   1. The PHY.  The step lemmas speak of its operations, not of PhyNext, *)
(*      so that they also serve the composition in Aloha.                  *)
(*   2. The composed interfaces.                                           *)
(*   3. Delivery: what the interfaces promise about packets.               *)
(***************************************************************************)
EXTENDS Aloha, FiniteSetTheorems, SequenceTheorems, TLAPS

(* 1. The PHY. *)

\* The inductive invariant: a good frame is alone only because the counter and
\* the receiver's state agree with the signals at the antenna.
PhyInv ==
    /\ PhyTypeOK
    /\ InterferenceCountExact
    /\ ScanningIffSilent
    /\ GoodFrameIsAlone


\* The signals at an antenna are finitely many, so they can be counted.
LEMMA SignalsFinite ==
    ASSUME NEW n \in Nodes
    PROVE  /\ IsFiniteSet(SignalsOn(n))
           /\ IsFiniteSet(Interferers(n))
           /\ Cardinality(Interferers(n)) \in Nat
  <1> USE NodesAssumption, PhyAssumption
  <1>1. SignalsOn(n) \in SUBSET Nodes
    BY DEF SignalsOn
  <1>2. Interferers(n) \in SUBSET Nodes
    BY DEF SignalsOn, Interferers
  <1> QED  BY <1>1, <1>2, FS_Subset, FS_CardinalityType

\* Initially no signal is on the air.
LEMMA PhyInitInv == PhyInit => PhyInv
  <1> USE NodesAssumption, PhyAssumption
  <1> SUFFICES ASSUME PhyInit PROVE PhyInv
    OBVIOUS
  <1>1. PhyTypeOK
    BY DEF PhyInit, PhyTypeOK
  <1>2. \A n \in Nodes : SignalsOn(n) = {} /\ Interferers(n) = {}
    BY DEF PhyInit, SignalsOn, Interferers
  <1>3. InterferenceCountExact
    BY <1>2, FS_EmptySet DEF InterferenceCountExact, PhyInit
  <1>4. ScanningIffSilent /\ GoodFrameIsAlone
    BY <1>2 DEF ScanningIffSilent, GoodFrameIsAlone, PhyInit
  <1> QED  BY <1>1, <1>3, <1>4 DEF PhyInv

\* Handing a frame to an idle transmitter spoils what is being received.
LEMMA TransmitAFrameInv ==
    ASSUME PhyInv, NEW n \in Nodes, NEW frame \in Frames,
           phyTxState[n] = "IDLE", TransmitAFrame(n, frame)
    PROVE  PhyInv'
  <1> USE NodesAssumption, PhyAssumption
  <1> USE DEF PhyInv, TransmitAFrame
  <1>1. PhyTypeOK'
    BY DEF PhyTypeOK
  <1>2. \A k \in Nodes : SignalsOn(k)' = SignalsOn(k) /\ Interferers(k)' = Interferers(k)
    BY DEF SignalsOn, Interferers
  <1>3. InterferenceCountExact'
    BY <1>2 DEF InterferenceCountExact
  <1>4. ScanningIffSilent'
    BY <1>2 DEF ScanningIffSilent
  <1>5. GoodFrameIsAlone'
    <2> SUFFICES ASSUME NEW k \in Nodes,
                        currentlyReceiving[k] # NoNode, ~currentPacketHasAnError'[k]
                 PROVE  SignalsOn(k)' = {currentlyReceiving[k]} /\ phyTxState'[k] = "IDLE"
      BY DEF GoodFrameIsAlone
    <2>1. phyRxState[k] = "RECEIVING"
      BY DEF InterferenceCountExact, ScanningIffSilent, PhyTypeOK
    <2>2. k # n /\ ~currentPacketHasAnError[k]
      BY <2>1 DEF PhyTypeOK
    <2> QED  BY <1>2, <2>2 DEF GoodFrameIsAlone, PhyTypeOK
  <1> QED  BY <1>1, <1>3, <1>4, <1>5

\* Going on the air and ending a transmission leave all receivers alone.
LEMMA TransmitterInv ==
    ASSUME PhyInv, NEW s \in Nodes, StartTransmission(s) \/ EndCurrentTransmission(s)
    PROVE  PhyInv'
  <1> USE NodesAssumption, PhyAssumption
  <1> USE DEF PhyInv
  <1>1. PhyTypeOK'
    <2>1. CASE StartTransmission(s)
      BY <2>1 DEF PhyTypeOK, StartTransmission, rxVars
    <2>2. CASE EndCurrentTransmission(s)
      BY <2>2 DEF PhyTypeOK, EndCurrentTransmission, rxVars
    <2> QED  BY <2>1, <2>2
  <1>2. \A k \in Nodes : SignalsOn(k)' = SignalsOn(k) /\ Interferers(k)' = Interferers(k)
    <2>1. CASE StartTransmission(s)
      BY <2>1 DEF SignalsOn, Interferers, StartTransmission, rxVars, PhyTypeOK
    <2>2. CASE EndCurrentTransmission(s)
      BY <2>2 DEF SignalsOn, Interferers, EndCurrentTransmission, rxVars
    <2> QED  BY <2>1, <2>2
  <1>3. UNCHANGED rxVars
    BY DEF StartTransmission, EndCurrentTransmission
  <1>4. \A k \in Nodes : phyTxState[k] = "IDLE" => phyTxState'[k] = "IDLE"
    BY DEF StartTransmission, EndCurrentTransmission, PhyTypeOK
  <1>5. InterferenceCountExact' /\ ScanningIffSilent' /\ GoodFrameIsAlone'
    BY <1>2, <1>3, <1>4
       DEF InterferenceCountExact, ScanningIffSilent, GoodFrameIsAlone, rxVars
  <1> QED  BY <1>1, <1>5

\* The beginning of a signal: at its receiver it is locked onto or counted.
LEMMA SignalStartInv ==
    ASSUME PhyInv, NEW n \in Nodes, NEW s \in Nodes, StartReceivingSignalFromChannel(n, s)
    PROVE  PhyInv'
  <1> USE NodesAssumption, PhyAssumption
  <1> USE DEF PhyInv
  <1>1. PhyTypeOK'
    <2>1. currentPacketHasAnError' \in [Nodes -> BOOLEAN]
      BY Zenon DEF PhyTypeOK, StartReceivingSignalFromChannel
    <2> QED  BY <2>1 DEF PhyTypeOK, StartReceivingSignalFromChannel
  <1>2. SignalsOn(n)' = SignalsOn(n) \cup {s} /\ s \notin SignalsOn(n)
    <2>1. signal[s][n] = "coming" /\ signal' = [signal EXCEPT ![s][n] = "on"]
      BY DEF StartReceivingSignalFromChannel
    <2>2. \A x \in Nodes : signal'[x][n] = "on" <=> x = s \/ signal[x][n] = "on"
      BY <2>1 DEF PhyTypeOK
    <2> QED  BY <2>1, <2>2 DEF SignalsOn
  <1>3. \A k \in Nodes \ {n} : SignalsOn(k)' = SignalsOn(k)
    BY DEF SignalsOn, StartReceivingSignalFromChannel, PhyTypeOK
  <1>4. \A k \in Nodes \ {n} : /\ phyRxState'[k] = phyRxState[k]
                               /\ currentlyReceiving'[k] = currentlyReceiving[k]
                               /\ currentPacketHasAnError'[k] = currentPacketHasAnError[k]
                               /\ numberOfCurrentInterferingSignals'[k]
                                     = numberOfCurrentInterferingSignals[k]
                               /\ Interferers(k)' = Interferers(k)
    BY <1>3 DEF StartReceivingSignalFromChannel, PhyTypeOK, Interferers
  <1>5. InterferenceCountExact'
    <2>1. CASE LocksOnto(n)
      <3>1. SignalsOn(n) = {} /\ currentlyReceiving[n] = NoNode
        BY <2>1 DEF LocksOnto, ScanningIffSilent, InterferenceCountExact
      <3>2. currentlyReceiving'[n] = s /\ Interferers(n) = {} /\ Interferers(n)' = {}
        BY <1>2, <2>1, <3>1 DEF StartReceivingSignalFromChannel, PhyTypeOK, Interferers
      <3>3. numberOfCurrentInterferingSignals' = numberOfCurrentInterferingSignals
        BY <2>1 DEF StartReceivingSignalFromChannel
      <3>4. /\ currentlyReceiving'[n] # NoNode => currentlyReceiving'[n] \in SignalsOn(n)'
            /\ numberOfCurrentInterferingSignals'[n] = Cardinality(Interferers(n)')
        BY <1>2, <3>2, <3>3 DEF InterferenceCountExact
      <3>5. \A k \in Nodes \ {n} :
              /\ currentlyReceiving'[k] # NoNode => currentlyReceiving'[k] \in SignalsOn(k)'
              /\ numberOfCurrentInterferingSignals'[k] = Cardinality(Interferers(k)')
        BY <1>3, <1>4 DEF InterferenceCountExact
      <3> QED  BY <3>4, <3>5 DEF InterferenceCountExact
    <2>2. CASE ~LocksOnto(n)
      <3>1. UNCHANGED currentlyReceiving
        BY <2>2 DEF StartReceivingSignalFromChannel
      <3>2. s # currentlyReceiving[n]
        BY <1>2 DEF InterferenceCountExact
      <3>3. Interferers(n)' = Interferers(n) \cup {s} /\ s \notin Interferers(n)
        BY <1>2, <3>1, <3>2 DEF Interferers
      <3>4. Cardinality(Interferers(n) \cup {s}) = Cardinality(Interferers(n)) + 1
        BY <3>3, SignalsFinite, FS_AddElement
      <3>5. numberOfCurrentInterferingSignals'[n] = numberOfCurrentInterferingSignals[n] + 1
        BY <2>2 DEF StartReceivingSignalFromChannel, PhyTypeOK
      <3> QED  BY <1>2, <1>3, <1>4, <3>1, <3>3, <3>4, <3>5 DEF InterferenceCountExact
    <2> QED  BY <2>1, <2>2
  <1>6. ScanningIffSilent'
    BY <1>2, <1>3, <1>4 DEF ScanningIffSilent, StartReceivingSignalFromChannel, PhyTypeOK
  <1>7. GoodFrameIsAlone'
    <2> SUFFICES ASSUME NEW k \in Nodes,
                        currentlyReceiving'[k] # NoNode, ~currentPacketHasAnError'[k]
                 PROVE  SignalsOn(k)' = {currentlyReceiving'[k]} /\ phyTxState'[k] = "IDLE"
      BY DEF GoodFrameIsAlone
    <2>1. UNCHANGED phyTxState
      BY DEF StartReceivingSignalFromChannel
    <2>2. CASE k # n
      BY <1>3, <1>4, <2>1, <2>2 DEF GoodFrameIsAlone
    <2>3. CASE k = n
      <3>1. LocksOnto(n)
        BY <2>3 DEF StartReceivingSignalFromChannel, PhyTypeOK
      <3>2. currentlyReceiving'[n] = s
        BY <3>1 DEF StartReceivingSignalFromChannel, PhyTypeOK
      <3> QED  BY <1>2, <2>1, <2>3, <3>1, <3>2 DEF LocksOnto, ScanningIffSilent
    <2> QED  BY <2>2, <2>3
  <1> QED  BY <1>1, <1>5, <1>6, <1>7

\* The end of a signal: it is the one locked onto, or it was counted as noise.
LEMMA SignalEndInv ==
    ASSUME PhyInv, NEW n \in Nodes, NEW s \in Nodes, EndReceivingSignalFromChannel(n, s)
    PROVE  PhyInv'
  <1> USE NodesAssumption, PhyAssumption
  <1> USE DEF PhyInv
  <1>1. SignalsOn(n)' = SignalsOn(n) \ {s} /\ s \in SignalsOn(n)
    BY DEF SignalsOn, EndReceivingSignalFromChannel, PhyTypeOK
  <1>2. \A k \in Nodes \ {n} : SignalsOn(k)' = SignalsOn(k)
    BY DEF SignalsOn, EndReceivingSignalFromChannel, PhyTypeOK
  <1>3. \A k \in Nodes \ {n} : /\ phyRxState'[k] = phyRxState[k]
                               /\ currentlyReceiving'[k] = currentlyReceiving[k]
                               /\ numberOfCurrentInterferingSignals'[k]
                                     = numberOfCurrentInterferingSignals[k]
                               /\ Interferers(k)' = Interferers(k)
    BY <1>2 DEF EndReceivingSignalFromChannel, ProcessEndOfANoise,
       ProcessEndOfTheSignalCurrentlyBeingReceived, PhyTypeOK, Interferers
  <1>4. UNCHANGED <<phyTxState, currentPacketHasAnError>>
    BY DEF EndReceivingSignalFromChannel
  <1>5. CASE currentlyReceiving[n] = s
    <2> USE <1>5 DEF EndReceivingSignalFromChannel, ProcessEndOfTheSignalCurrentlyBeingReceived
    <2>1. PhyTypeOK'
      <3>1. phyRxState' \in [Nodes -> {"SCANNING", "RECEIVING"}]
        BY DEF PhyTypeOK
      <3>2. currentlyReceiving' \in [Nodes -> Nodes \cup {NoNode}]
        BY DEF PhyTypeOK
      <3>3. signal' \in [Nodes -> [Nodes -> {"none", "coming", "on"}]]
        BY DEF PhyTypeOK
      <3>4. UNCHANGED <<phyTxState, currentPacketHasAnError, numberOfCurrentInterferingSignals,
                        currentPropagatedFrame, frameOnAir>>
        OBVIOUS
      <3> HIDE DEF EndReceivingSignalFromChannel, ProcessEndOfTheSignalCurrentlyBeingReceived
      <3> QED  BY <3>1, <3>2, <3>3, <3>4 DEF PhyTypeOK
    <2>2. currentlyReceiving'[n] = NoNode
      BY DEF PhyTypeOK
    <2>3. Interferers(n)' = Interferers(n) /\ SignalsOn(n)' = Interferers(n)
      BY <1>1, <2>2 DEF Interferers, SignalsOn
    <2>4. InterferenceCountExact'
      BY <1>2, <1>3, <2>2, <2>3 DEF InterferenceCountExact
    <2>5. numberOfCurrentInterferingSignals[n] = 0 <=> Interferers(n) = {}
      BY SignalsFinite, FS_EmptySet DEF InterferenceCountExact
    <2>6. phyRxState[n] = "RECEIVING"
      BY <1>1 DEF ScanningIffSilent, PhyTypeOK
    <2>7. ScanningIffSilent'
      BY <1>2, <1>3, <2>3, <2>5, <2>6 DEF ScanningIffSilent, PhyTypeOK
    <2>8. GoodFrameIsAlone'
      BY <1>2, <1>3, <1>4, <2>2 DEF GoodFrameIsAlone
    <2> QED  BY <2>1, <2>4, <2>7, <2>8
  <1>6. CASE currentlyReceiving[n] # s
    <2> USE <1>6 DEF EndReceivingSignalFromChannel, ProcessEndOfANoise
    <2>1. s \in Interferers(n) /\ Interferers(n)' = Interferers(n) \ {s}
      BY <1>1 DEF Interferers
    <2>2. Cardinality(Interferers(n) \ {s}) = Cardinality(Interferers(n)) - 1
      BY <2>1, SignalsFinite, FS_RemoveElement
    <2>3. Interferers(n) # {} /\ Cardinality(Interferers(n)) \in Nat \ {0}
      BY <2>1, SignalsFinite, FS_EmptySet
    <2>4. numberOfCurrentInterferingSignals[n] = Cardinality(Interferers(n))
      BY DEF InterferenceCountExact
    <2>5. PhyTypeOK'
      <3>1. numberOfCurrentInterferingSignals[n] - 1 \in Nat
        BY <2>3, <2>4
      <3>2. numberOfCurrentInterferingSignals' \in [Nodes -> Nat]
        BY <3>1 DEF PhyTypeOK
      <3>3. signal' \in [Nodes -> [Nodes -> {"none", "coming", "on"}]]
        BY DEF PhyTypeOK
      <3> QED  BY <3>2, <3>3 DEF PhyTypeOK
    <2>6. numberOfCurrentInterferingSignals'[n] = Cardinality(Interferers(n))'
      BY <2>1, <2>2, <2>4 DEF PhyTypeOK
    <2>7. InterferenceCountExact'
      BY <1>1, <1>2, <1>3, <2>6 DEF InterferenceCountExact
    <2>8. numberOfCurrentInterferingSignals[n] = 1 <=> Interferers(n) \ {s} = {}
      <3>1. IsFiniteSet(Interferers(n) \ {s})
        BY SignalsFinite, FS_RemoveElement
      <3>2. Cardinality(Interferers(n) \ {s}) = 0 <=> Interferers(n) \ {s} = {}
        BY <3>1, FS_EmptySet
      <3> QED  BY <2>2, <2>3, <2>4, <3>2
    <2>9. phyRxState[n] = "RECEIVING"
      BY <1>1 DEF ScanningIffSilent, PhyTypeOK
    <2>10. SignalsOn(n)' = {} <=> (Interferers(n) \ {s} = {} /\ currentlyReceiving[n] = NoNode)
      <3>1. CASE currentlyReceiving[n] = NoNode
        <4>1. NoNode \notin SignalsOn(n)
          BY DEF SignalsOn
        <4>2. Interferers(n) = SignalsOn(n)
          BY <3>1, <4>1 DEF Interferers
        <4> QED  BY <1>1, <3>1, <4>2
      <3>2. CASE currentlyReceiving[n] # NoNode
        <4>1. currentlyReceiving[n] \in SignalsOn(n)
          BY <3>2 DEF InterferenceCountExact
        <4> QED  BY <1>1, <3>2, <4>1
      <3> QED  BY <3>1, <3>2
    <2>11. ScanningIffSilent'
      BY <1>2, <1>3, <2>8, <2>9, <2>10 DEF ScanningIffSilent, PhyTypeOK
    <2>12. GoodFrameIsAlone'
      <3>1. currentlyReceiving[n] # NoNode => currentPacketHasAnError[n]
        BY <1>1 DEF GoodFrameIsAlone, PhyTypeOK
      <3> QED  BY <1>2, <1>3, <1>4, <3>1 DEF GoodFrameIsAlone
    <2> QED  BY <2>5, <2>7, <2>11, <2>12
  <1> QED  BY <1>5, <1>6

\* The PHY's steps keep the invariant, under any MAC that respects the
\* assertion of TransmitAFrame.
LEMMA PhyNextInv == PhyInv /\ [PhyNext]_phyVars => PhyInv'
  <1> USE NodesAssumption, PhyAssumption
  <1> SUFFICES ASSUME PhyInv, [PhyNext]_phyVars PROVE PhyInv'
    OBVIOUS
  <1>1. ASSUME NEW n \in Nodes, MacTransmits(n) PROVE PhyInv'
    BY <1>1, TransmitAFrameInv DEF MacTransmits, Frames, Addresses
  <1>2. ASSUME NEW n \in Nodes, StartTransmission(n) \/ EndCurrentTransmission(n) PROVE PhyInv'
    BY <1>2, TransmitterInv
  <1>3. ASSUME NEW n \in Nodes, NEW s \in Nodes,
               \/ StartReceivingSignalFromChannel(n, s)
               \/ EndReceivingSignalFromChannel(n, s)
        PROVE  PhyInv'
    BY <1>3, SignalStartInv, SignalEndInv
  <1>4. CASE UNCHANGED phyVars
    BY <1>4 DEF PhyInv, PhyTypeOK, InterferenceCountExact, ScanningIffSilent,
       GoodFrameIsAlone, SignalsOn, Interferers, phyVars
  <1> QED  BY <1>1, <1>2, <1>3, <1>4 DEF PhyNext

\* The type invariant, the exact count of interfering signals (so the unsigned
\* counter never underflows and no signal ends unknown to its receiver), the
\* receiver scanning exactly when its antenna is silent, and no collided or
\* half-duplex frame going up to the MAC.
THEOREM PhyInvariants ==
    PhySpec => [](PhyTypeOK /\ InterferenceCountExact /\ ScanningIffSilent /\ GoodFrameIsAlone)
  <1> USE NodesAssumption, PhyAssumption
  <1>1. PhyInit => PhyInv
    BY PhyInitInv
  <1>2. PhyInv /\ [PhyNext]_phyVars => PhyInv'
    BY PhyNextInv
  <1>3. PhyInv => PhyTypeOK /\ InterferenceCountExact /\ ScanningIffSilent /\ GoodFrameIsAlone
    BY DEF PhyInv
  <1> QED  BY <1>1, <1>2, <1>3, PTL DEF PhySpec

\* A frame that was hit is never taken for a good one before its signal ends.
THEOREM HitFramesStayBad == PhySpec => HitFrameStaysBad
  <1> USE NodesAssumption, PhyAssumption
  <1>1. ASSUME PhyInv, [PhyNext]_phyVars
        PROVE  [\A n \in Nodes :
                  (/\ currentlyReceiving[n] # NoNode
                   /\ currentlyReceiving'[n] = currentlyReceiving[n]
                   /\ currentPacketHasAnError[n])
                      => currentPacketHasAnError'[n]]_phyVars
    <2> SUFFICES ASSUME PhyNext, NEW n \in Nodes, currentlyReceiving[n] # NoNode,
                        currentlyReceiving'[n] = currentlyReceiving[n],
                        currentPacketHasAnError[n]
                 PROVE  currentPacketHasAnError'[n]
      BY <1>1
    <2>1. PhyTypeOK
      BY <1>1 DEF PhyInv
    <2>2. ~LocksOnto(n)
      BY <1>1 DEF PhyInv, LocksOnto, ScanningIffSilent, InterferenceCountExact
    <2>3. ASSUME NEW k \in Nodes, MacTransmits(k) PROVE currentPacketHasAnError'[n]
      BY <2>1, <2>3 DEF MacTransmits, TransmitAFrame, PhyTypeOK
    <2>4. ASSUME NEW k \in Nodes, StartTransmission(k) \/ EndCurrentTransmission(k)
          PROVE  currentPacketHasAnError'[n]
      BY <2>4 DEF StartTransmission, EndCurrentTransmission, rxVars
    <2>5. ASSUME NEW k \in Nodes, NEW s \in Nodes, StartReceivingSignalFromChannel(k, s)
          PROVE  currentPacketHasAnError'[n]
      BY <2>1, <2>2, <2>5 DEF StartReceivingSignalFromChannel, PhyTypeOK
    <2>6. ASSUME NEW k \in Nodes, NEW s \in Nodes, EndReceivingSignalFromChannel(k, s)
          PROVE  currentPacketHasAnError'[n]
      BY <2>6 DEF EndReceivingSignalFromChannel
    <2> QED  BY <2>3, <2>4, <2>5, <2>6 DEF PhyNext
  <1> QED  BY <1>1, PhyInitInv, PhyNextInv, PTL DEF PhySpec, HitFrameStaysBad


-----------------------------------------------------------------------------
(* 2. The composed interfaces. *)


\* The type of a MAC record, field by field: membership in MacRecords in the
\* form in which the provers handle updates of several fields.
MacFields == {"macState", "networkOutputQueue", "currentDataPacket",
              "currentFrameSequenceNumber", "currentRetryCount", "dataTimer", "ackFrames",
              "ackTimers", "transmitCurrentDataAfterAckTransmission", "lastSequenceNumberMap"}

MacShape(m) == m = [field \in MacFields |-> m[field]]

MacTyped(m) ==
    /\ MacShape(m)
    /\ m.macState \in MacStates
    /\ m.networkOutputQueue \in Seq(Packets)
    /\ m.currentDataPacket \in Packets \cup {NoPacket}
    /\ m.currentFrameSequenceNumber \in Nat
    /\ m.currentRetryCount \in Nat
    /\ m.dataTimer \in BOOLEAN
    /\ m.ackFrames \in Seq(Frames)
    /\ m.ackTimers \in Nat
    /\ m.transmitCurrentDataAfterAckTransmission \in BOOLEAN
    /\ m.lastSequenceNumberMap \in [Nodes -> Nat]

LEMMA MacTypedIsMacRecord == \A m : MacTyped(m) <=> m \in MacRecords
  BY DEF MacTyped, MacRecords, MacShape, MacFields

\* What a MAC keeps by itself: every state but IDLE has an event to leave it,
\* and there is one acknowledgement and one event for it exactly in ACK.
MacInv(m) ==
    /\ MacTyped(m)
    /\ m.dataTimer => m.macState # "IDLE" /\ m.currentDataPacket # NoPacket
    /\ m.macState = "IDLE" => m.networkOutputQueue = <<>> /\ m.currentDataPacket = NoPacket
    /\ m.macState = "DATA" => m.dataTimer
    /\ m.macState = "DATA_TRANSMITTING" => m.currentDataPacket # NoPacket
    /\ m.macState = "ACK" => m.ackTimers = 1 /\ Len(m.ackFrames) = 1
    /\ m.macState # "ACK" => m.ackTimers = 0 /\ m.ackFrames = <<>>
    /\ m.macState \in {"ACK", "ACK_TRANSMITTING"} => m.transmitCurrentDataAfterAckTransmission

\* In a slot nothing more can arrive where a frame has been received already:
\* the argument for SlottedNeverExits.
SlotInv ==
    Slotted =>
        /\ slotBegins => \A s \in Nodes : /\ phyTxState[s] # "TRANSMITTING"
                                          /\ \A n \in Nodes : signal[s][n] = "none"
        /\ ~slotBegins => \A n \in Nodes :
               mac[n].macState = "ACK" => AllStarted /\ SignalsOn(n) = {}

\* A transmitter that is busy, or a signal that is on its way, has a frame.
FramesInv ==
    \A s \in Nodes :
        /\ phyTxState[s] = "TX_STARTING" => currentPropagatedFrame[s] \in Frames
        /\ \A n \in Nodes : signal[s][n] # "none" => frameOnAir[s] \in Frames

HistoryTypeOK ==
    /\ slotBegins \in BOOLEAN
    /\ attempts \in [Nodes -> Nat]
    /\ offered \in [Nodes -> Seq(Addresses)]
    /\ outcome \in [Nodes -> Seq(Outcomes)]
    /\ received \in [Nodes -> Seq(Receptions)]

\* The inductive invariant of the composition.
Inv ==
    /\ PhyInv
    /\ mac \in [Nodes -> MacRecords]
    /\ \A n \in Nodes : MacInv(mac[n])
    /\ \A n \in Nodes : mac[n].macState \in TransmittingStates <=> phyTxState[n] # "IDLE"
    /\ SlotInv
    /\ FramesInv
    /\ HistoryTypeOK

-----------------------------------------------------------------------------
(* The handlers of the MAC. *)

LEMMA InitialMacInv == MacInv(InitialMac)
  <1> USE MacAssumption
  <1>1. MacShape(InitialMac)
    BY DEF InitialMac, MacShape, MacFields
  <1>2. /\ InitialMac.macState = "IDLE" /\ InitialMac.networkOutputQueue = <<>>
        /\ InitialMac.currentDataPacket = NoPacket /\ ~InitialMac.dataTimer
        /\ InitialMac.ackFrames = <<>> /\ InitialMac.ackTimers = 0
    BY DEF InitialMac
  <1>3. /\ InitialMac.currentFrameSequenceNumber = 0 /\ InitialMac.currentRetryCount = 0
        /\ InitialMac.dataTimer \in BOOLEAN
        /\ InitialMac.transmitCurrentDataAfterAckTransmission \in BOOLEAN
        /\ InitialMac.lastSequenceNumberMap \in [Nodes -> Nat]
    BY DEF InitialMac
  <1>4. MacTyped(InitialMac)
    BY <1>1, <1>2, <1>3 DEF MacTyped, MacStates
  <1> QED  BY <1>2, <1>4 DEF MacInv

\* Taking the next packet leaves a MAC that is idle, or waits with a timer set.
LEMMA TransmitNextInv ==
    ASSUME NEW m, MacTyped(m), m.macState = "IDLE", m.currentDataPacket = NoPacket,
           ~m.dataTimer, m.ackTimers = 0, m.ackFrames = <<>>
    PROVE  /\ MacInv(TransmitNextDataFrameIfNecessary(m))
           /\ TransmitNextDataFrameIfNecessary(m).macState \in {"IDLE", "DATA"}
  <1> USE MacAssumption
  <1>1. CASE m.networkOutputQueue = <<>>
    BY <1>1 DEF MacInv, TransmitNextDataFrameIfNecessary
  <1>2. CASE m.networkOutputQueue # <<>>
    <2> DEFINE r == RetrievePacketFromNetworkLayer(m)
               c == StartCurrentPacket(r)
               h == ScheduleDataFrameTransmissionTimerEvent(c)
    <2>1. m.networkOutputQueue \in Seq(Packets)
      BY DEF MacTyped
    <2>2. Head(m.networkOutputQueue) \in Packets /\ Tail(m.networkOutputQueue) \in Seq(Packets)
      BY <1>2, <2>1
    <2>3. MacTyped(r) /\ r.currentDataPacket \in Packets
          /\ r.ackTimers = 0 /\ r.ackFrames = <<>>
      BY <2>2 DEF RetrievePacketFromNetworkLayer, MacTyped, MacShape, MacFields
    <2> HIDE DEF r
    <2>4. r.currentFrameSequenceNumber + 1 \in Nat
      BY <2>3 DEF MacTyped
    <2>5. MacTyped(c) /\ c.macState = "DATA" /\ c.currentDataPacket \in Packets
          /\ c.ackTimers = 0 /\ c.ackFrames = <<>>
      BY <2>3, <2>4 DEF StartCurrentPacket, MacTyped, MacShape, MacFields, MacStates
    <2> HIDE DEF c
    <2>6. MacTyped(h) /\ h.macState = "DATA" /\ h.currentDataPacket \in Packets /\ h.dataTimer
          /\ h.ackTimers = 0 /\ h.ackFrames = <<>>
      BY <2>5 DEF ScheduleDataFrameTransmissionTimerEvent, MacTyped, MacShape, MacFields
    <2>7. TransmitNextDataFrameIfNecessary(m) = h
      BY <1>2 DEF TransmitNextDataFrameIfNecessary, r, c
    <2> HIDE DEF h
    <2> QED  BY <2>6, <2>7 DEF MacInv
  <1> QED  BY <1>1, <1>2

LEMMA QueueChangeInv ==
    ASSUME NEW m, MacInv(m), NEW packet \in Packets,
           NEW h, h = QueuePacket(m, packet)
    PROVE  /\ MacInv(h)
           /\ h.macState = m.macState \/ (m.macState = "IDLE" /\ h.macState = "DATA")
  <1> USE MacAssumption
  <1> DEFINE queue == Append(m.networkOutputQueue, packet)
             q == [m EXCEPT !.networkOutputQueue = queue]
  <1>1. queue \in Seq(Packets)
    BY DEF MacInv, MacTyped
  <1>2. h = NetworkLayerQueueChangeNotification(q)
    BY DEF QueuePacket
  <1> HIDE DEF queue
  <1>3. MacTyped(q)
    BY <1>1 DEF MacInv, MacTyped, MacShape, MacFields
  <1>4. /\ q.macState = m.macState /\ q.dataTimer = m.dataTimer /\ q.ackTimers = m.ackTimers
        /\ q.ackFrames = m.ackFrames /\ q.currentDataPacket = m.currentDataPacket
        /\ q.transmitCurrentDataAfterAckTransmission = m.transmitCurrentDataAfterAckTransmission
    BY DEF MacInv, MacTyped, MacShape, MacFields
  <1> HIDE DEF q
  <1>5. CASE m.macState = "IDLE"
    <2>1. /\ q.macState = "IDLE" /\ q.currentDataPacket = NoPacket
          /\ ~q.dataTimer /\ q.ackTimers = 0 /\ q.ackFrames = <<>>
      BY <1>4, <1>5 DEF MacInv
    <2> QED  BY <1>2, <1>3, <1>5, <2>1, TransmitNextInv DEF NetworkLayerQueueChangeNotification
  <1>6. CASE m.macState # "IDLE"
    <2>1. h = q
      BY <1>2, <1>4, <1>6 DEF NetworkLayerQueueChangeNotification
    <2> QED  BY <1>3, <1>4, <1>6, <2>1 DEF MacInv
  <1> QED  BY <1>5, <1>6

LEMMA DataTimerInv ==
    ASSUME NEW m, MacInv(m), m.dataTimer
    PROVE  /\ MacInv(ProcessDataFrameTransmissionTimerEvent(m))
           /\ ProcessDataFrameTransmissionTimerEvent(m).macState
                = IF TransmitsData(m) THEN "DATA_TRANSMITTING" ELSE m.macState
  BY DEF MacInv, MacTyped, MacShape, MacFields, MacStates, TransmittingStates, TransmitsData,
     ProcessDataFrameTransmissionTimerEvent, TransmitDataOrWaitAckTransmissionEndIfAckState

LEMMA SingletonSeq ==
    ASSUME NEW S, NEW seq \in Seq(S), Len(seq) = 1
    PROVE  Head(seq) \in S /\ Tail(seq) = <<>>
<1>1. seq # <<>>  BY EmptySeq
<1>2. Head(seq) \in S /\ Tail(seq) \in Seq(S) /\ Len(Tail(seq)) = 0
  BY <1>1, HeadTailProperties
<1> QED  BY <1>2, EmptySeq

LEMMA AckTimerInv ==
    ASSUME NEW m, MacInv(m), m.ackTimers > 0
    PROVE  /\ m.macState = "ACK"
           /\ Head(m.ackFrames) \in Frames
           /\ MacInv(TransmitAcknowledgement(m))
           /\ TransmitAcknowledgement(m).macState = "ACK_TRANSMITTING"
  <1> USE MacAssumption
  <1>1. m.macState = "ACK" /\ m.ackTimers = 1 /\ Len(m.ackFrames) = 1
    BY DEF MacInv
  <1>2. m.ackFrames \in Seq(Frames)
    BY DEF MacInv, MacTyped
  <1>3. Head(m.ackFrames) \in Frames /\ Tail(m.ackFrames) = <<>>
    BY <1>1, <1>2, SingletonSeq
  <1> DEFINE none == Tail(m.ackFrames)
             left == m.ackTimers - 1
             h == [m EXCEPT !.ackTimers = left, !.ackFrames = none, !.macState = "ACK_TRANSMITTING"]
  <1>4. TransmitAcknowledgement(m) = h
    BY DEF TransmitAcknowledgement
  <1>5. left = 0 /\ none = <<>> /\ none \in Seq(Frames)
    <2>1. left = 0
      BY <1>1
    <2>2. none = <<>>
      BY <1>3
    <2>3. <<>> \in Seq(Frames)
      OBVIOUS
    <2> HIDE DEF none, left
    <2> QED  BY <2>1, <2>2, <2>3
  <1> HIDE DEF none, left
  <1>6. MacTyped(h)
    BY <1>5 DEF MacInv, MacTyped, MacShape, MacFields, MacStates, TransmittingStates
  <1>7. /\ h.macState = "ACK_TRANSMITTING" /\ h.ackTimers = 0 /\ h.ackFrames = <<>>
        /\ h.dataTimer = m.dataTimer /\ h.currentDataPacket = m.currentDataPacket
        /\ h.transmitCurrentDataAfterAckTransmission
    BY <1>1, <1>5 DEF MacInv, MacTyped, MacShape, MacFields
  <1> HIDE DEF h
  <1>8. MacInv(h)
    BY <1>1, <1>6, <1>7 DEF MacInv
  <1> QED  BY <1>1, <1>3, <1>4, <1>7, <1>8

LEMMA EndCurrentInv ==
    ASSUME NEW m, MacTyped(m)
    PROVE  /\ MacTyped(EndCurrentDataTransmission(m))
           /\ EndCurrentDataTransmission(m).macState = m.macState
           /\ EndCurrentDataTransmission(m).currentDataPacket = NoPacket
           /\ ~EndCurrentDataTransmission(m).dataTimer
           /\ EndCurrentDataTransmission(m).ackTimers = m.ackTimers
           /\ EndCurrentDataTransmission(m).ackFrames = m.ackFrames
  BY DEF EndCurrentDataTransmission, MacTyped, MacShape, MacFields

LEMMA TransmissionCompleteInv ==
    ASSUME NEW m, MacInv(m), m.macState \in TransmittingStates
    PROVE  /\ MacInv(TransmissionIsCompleteNotification(m))
           /\ TransmissionIsCompleteNotification(m).macState \in {"IDLE", "DATA"}
  <1> USE MacAssumption
  <1> DEFINE e == IF m.macState = "DATA_TRANSMITTING" THEN AfterDataTransmission(m) ELSE m
  <1>1. /\ MacTyped(e) /\ e.macState = m.macState
        /\ e.ackTimers = 0 /\ e.ackFrames = <<>>
        /\ e.dataTimer => e.currentDataPacket # NoPacket
        /\ m.macState = "DATA_TRANSMITTING" => e.dataTimer \/ e.currentDataPacket = NoPacket
        /\ m.macState = "ACK_TRANSMITTING" => e.transmitCurrentDataAfterAckTransmission
    <2>1. /\ MacTyped(m) /\ m.ackTimers = 0 /\ m.ackFrames = <<>>
          /\ m.dataTimer => m.currentDataPacket # NoPacket
      BY DEF MacInv, TransmittingStates
    <2>2. CASE m.macState = "ACK_TRANSMITTING"
      BY <2>1, <2>2 DEF MacInv
    <2>3. CASE m.macState = "DATA_TRANSMITTING" /\ GivesUp(m)
      <3>1. e = EndCurrentDataTransmission(m)
        BY <2>3 DEF AfterDataTransmission
      <3> HIDE DEF e
      <3> QED  BY <2>1, <2>3, <3>1, EndCurrentInv
    <2>4. CASE m.macState = "DATA_TRANSMITTING" /\ ~GivesUp(m)
      <3> DEFINE t == ScheduleDataFrameTransmissionTimerEvent(m)
                 again == t.currentRetryCount + 1
      <3>1. e = [t EXCEPT !.currentRetryCount = again]
        BY <2>4 DEF AfterDataTransmission
      <3> HIDE DEF e
      <3>2. m.currentDataPacket # NoPacket
        BY <2>4 DEF MacInv
      <3>3. /\ MacTyped(t) /\ t.dataTimer /\ t.macState = m.macState /\ t.ackTimers = 0
            /\ t.ackFrames = <<>> /\ t.currentDataPacket = m.currentDataPacket
        BY <2>1 DEF ScheduleDataFrameTransmissionTimerEvent, MacTyped, MacShape, MacFields
      <3> HIDE DEF t
      <3>4. again \in Nat
        BY <3>3 DEF MacTyped
      <3> HIDE DEF again
      <3>5. /\ MacTyped(e) /\ e.dataTimer /\ e.macState = m.macState /\ e.ackTimers = 0
            /\ e.ackFrames = <<>> /\ e.currentDataPacket = m.currentDataPacket
        BY <3>1, <3>3, <3>4 DEF MacTyped, MacShape, MacFields
      <3> QED  BY <2>4, <3>2, <3>5
    <2> QED  BY <2>2, <2>3, <2>4 DEF TransmittingStates
  <1> HIDE DEF e
  <1>2. TransmissionIsCompleteNotification(m) = NextTransmission(e)
    BY DEF TransmissionIsCompleteNotification, e
  <1>3. ~HasAckToSend(e)
    BY <1>1 DEF HasAckToSend
  <1>4. CASE HasDataPacketToSend(e) /\ m.macState = "ACK_TRANSMITTING"
    <2> DEFINE d == [e EXCEPT !.macState = "DATA", !.dataTimer = TRUE,
                              !.transmitCurrentDataAfterAckTransmission = FALSE]
    <2>1. TransmissionIsCompleteNotification(m) = d
      BY <1>1, <1>2, <1>3, <1>4
         DEF NextTransmission, ScheduleDataFrameTransmissionTimerEvent, MacTyped, MacShape, MacFields
    <2>2. MacTyped(e) /\ e.ackTimers = 0 /\ e.ackFrames = <<>> /\ e.currentDataPacket # NoPacket
      BY <1>1, <1>4 DEF HasDataPacketToSend
    <2>3. MacTyped(d)
      BY <2>2 DEF MacTyped, MacShape, MacFields, MacStates
    <2>4. /\ d.macState = "DATA" /\ d.dataTimer /\ d.ackTimers = 0 /\ d.ackFrames = <<>>
          /\ d.currentDataPacket # NoPacket
      BY <2>2 DEF MacTyped, MacShape, MacFields
    <2> HIDE DEF d
    <2> QED  BY <2>1, <2>3, <2>4 DEF MacInv
  <1>5. CASE HasDataPacketToSend(e) /\ m.macState # "ACK_TRANSMITTING"
    <2>1. m.macState = "DATA_TRANSMITTING" /\ e.dataTimer
      BY <1>1, <1>5 DEF TransmittingStates, HasDataPacketToSend
    <2> QED  BY <1>1, <1>2, <1>3, <1>5, <2>1 DEF NextTransmission, HasDataPacketToSend, MacInv,
             MacTyped, MacShape, MacFields, MacStates, TransmittingStates
  <1>6. CASE ~HasDataPacketToSend(e)
    <2> DEFINE i == [e EXCEPT !.macState = "IDLE"]
    <2>1. /\ MacTyped(i) /\ i.macState = "IDLE" /\ i.currentDataPacket = NoPacket
          /\ ~i.dataTimer /\ i.ackTimers = 0 /\ i.ackFrames = <<>>
      BY <1>1, <1>6 DEF MacTyped, MacShape, MacFields, MacStates, HasDataPacketToSend
    <2>2. TransmissionIsCompleteNotification(m) = TransmitNextDataFrameIfNecessary(i)
      BY <1>2, <1>3, <1>6 DEF NextTransmission
    <2> HIDE DEF i
    <2> QED  BY <2>1, <2>2, TransmitNextInv
  <1> QED  BY <1>4, <1>5, <1>6

\* Remembering a sequence number changes nothing else.
LEMMA RememberInv ==
    ASSUME NEW m, MacInv(m), NEW s \in Nodes, NEW k \in Nat
    PROVE  /\ MacInv([m EXCEPT !.lastSequenceNumberMap[s] = k])
           /\ [m EXCEPT !.lastSequenceNumberMap[s] = k].macState = m.macState
  <1> USE MacAssumption
  <1> DEFINE seen == [m.lastSequenceNumberMap EXCEPT ![s] = k]
             h == [m EXCEPT !.lastSequenceNumberMap = seen]
  <1>1. seen \in [Nodes -> Nat]
    BY DEF MacInv, MacTyped
  <1>2. [m EXCEPT !.lastSequenceNumberMap[s] = k] = h
    OBVIOUS
  <1> HIDE DEF seen
  <1>3. MacTyped(h)
    BY <1>1 DEF MacInv, MacTyped, MacShape, MacFields
  <1>4. /\ h.macState = m.macState /\ h.dataTimer = m.dataTimer /\ h.ackTimers = m.ackTimers
        /\ h.ackFrames = m.ackFrames /\ h.currentDataPacket = m.currentDataPacket
        /\ h.networkOutputQueue = m.networkOutputQueue
        /\ h.transmitCurrentDataAfterAckTransmission = m.transmitCurrentDataAfterAckTransmission
    BY DEF MacInv, MacTyped, MacShape, MacFields
  <1> HIDE DEF h
  <1>5. MacInv(h) /\ h.macState = m.macState
    BY <1>3, <1>4 DEF MacInv
  <1> QED  BY <1>2, <1>5

LEMMA ReceiveInv ==
    ASSUME NEW n \in Nodes, NEW m, MacInv(m), m.macState \in {"IDLE", "DATA"},
           NEW frame \in Frames
    PROVE  /\ MacInv(ReceiveFrameFromPhy(n, m, frame))
           /\ ReceiveFrameFromPhy(n, m, frame).macState \in {"IDLE", "DATA", "ACK"}
  <1> USE MacAssumption
  <1>1. CASE ~FrameWithThisAddressIsForThisNode(n, frame.to)
    BY <1>1 DEF ReceiveFrameFromPhy
  <1>2. CASE FrameWithThisAddressIsForThisNode(n, frame.to) /\ frame.type = "DATA"
    <2>1. ReceiveFrameFromPhy(n, m, frame) = ProcessReceivedDataFrame(n, m, frame)
      BY <1>2 DEF ReceiveFrameFromPhy
    <2>2. frame.from \in Nodes /\ frame.seq \in Nat
      BY DEF Frames
    <2>3. CASE frame.to = Broadcast
      BY <2>1, <2>2, <2>3, RememberInv DEF ProcessReceivedDataFrame
    <2>4. CASE frame.to # Broadcast
      <3> DEFINE acks == Append(m.ackFrames, AckFrame(n, frame))
                 b == [m EXCEPT !.macState = "ACK", !.ackFrames = acks]
                 c == [b EXCEPT !.transmitCurrentDataAfterAckTransmission = TRUE]
                 one == c.ackTimers + 1
                 a == [c EXCEPT !.macState = "ACK", !.ackTimers = one]
      <3>1. AckFrame(n, frame) \in Frames
        BY DEF AckFrame, Frames, Addresses
      <3>2. /\ MacTyped(m) /\ m.ackFrames = <<>> /\ m.ackTimers = 0
            /\ m.dataTimer => m.currentDataPacket # NoPacket
        BY DEF MacInv
      <3>3. acks \in Seq(Frames) /\ Len(acks) = 1
        <4>1. m.ackFrames \in Seq(Frames) /\ Len(m.ackFrames) = 0
          BY <3>2 DEF MacTyped
        <4> QED  BY <3>1, <4>1
      <3> HIDE DEF acks
      <3>4. /\ MacTyped(b) /\ b.macState = "ACK" /\ Len(b.ackFrames) = 1 /\ b.ackTimers = 0
            /\ b.dataTimer => b.currentDataPacket # NoPacket
        BY <3>2, <3>3 DEF MacTyped, MacShape, MacFields, MacStates
      <3> HIDE DEF b
      <3>5. /\ MacTyped(c) /\ c.macState = "ACK" /\ Len(c.ackFrames) = 1 /\ c.ackTimers = 0
            /\ c.dataTimer => c.currentDataPacket # NoPacket
            /\ c.transmitCurrentDataAfterAckTransmission
        BY <3>4 DEF MacTyped, MacShape, MacFields
      <3>6. TransmitDataOrWaitAckTransmissionEndIfAckState(b) = c
        BY <3>4 DEF TransmitDataOrWaitAckTransmissionEndIfAckState, TransmitsData
      <3> HIDE DEF c
      <3>7. one = 1
        BY <3>5
      <3>8. QueueAcknowledgement(n, m, frame) = a
        BY <3>6 DEF QueueAcknowledgement, ScheduleAcknowledgement, b, acks
      <3> HIDE DEF one
      <3>9. /\ MacTyped(a) /\ a.macState = "ACK" /\ Len(a.ackFrames) = 1 /\ a.ackTimers = 1
            /\ a.dataTimer => a.currentDataPacket # NoPacket
            /\ a.transmitCurrentDataAfterAckTransmission
        BY <3>5, <3>7 DEF MacTyped, MacShape, MacFields, MacStates
      <3> HIDE DEF a
      <3>10. MacInv(a)
        BY <3>9 DEF MacInv
      <3>11. ProcessReceivedDataFrame(n, m, frame)
              = [a EXCEPT !.lastSequenceNumberMap[frame.from] = frame.seq]
        BY <2>4, <3>8 DEF ProcessReceivedDataFrame
      <3> QED  BY <2>1, <2>2, <3>9, <3>10, <3>11, RememberInv
    <2> QED  BY <2>3, <2>4
  <1>3. CASE FrameWithThisAddressIsForThisNode(n, frame.to) /\ frame.type # "DATA"
    <2>1. ReceiveFrameFromPhy(n, m, frame) = ProcessReceivedAcknowledgementFrame(m, frame)
      BY <1>3 DEF ReceiveFrameFromPhy
    <2>2. CASE ~IsExpectedAck(m, frame)
      BY <2>1, <2>2 DEF ProcessReceivedAcknowledgementFrame
    <2> DEFINE e == EndCurrentDataTransmission(m)
               i == [e EXCEPT !.macState = "IDLE"]
    <2>3. /\ MacTyped(e) /\ e.macState = m.macState /\ e.currentDataPacket = NoPacket
          /\ ~e.dataTimer /\ e.ackTimers = 0 /\ e.ackFrames = <<>>
          /\ e.networkOutputQueue = m.networkOutputQueue
      BY EndCurrentInv DEF MacInv, EndCurrentDataTransmission, MacTyped, MacShape, MacFields
    <2>4. CASE IsExpectedAck(m, frame) /\ m.macState = "DATA"
      <3>1. ProcessReceivedAcknowledgementFrame(m, frame) = TransmitNextDataFrameIfNecessary(i)
        BY <2>4 DEF ProcessReceivedAcknowledgementFrame
      <3> HIDE DEF e
      <3>2. /\ MacTyped(i) /\ i.macState = "IDLE" /\ i.currentDataPacket = NoPacket
            /\ ~i.dataTimer /\ i.ackTimers = 0 /\ i.ackFrames = <<>>
        BY <2>3 DEF MacTyped, MacShape, MacFields, MacStates
      <3> HIDE DEF i
      <3> QED  BY <2>1, <3>1, <3>2, TransmitNextInv
    <2>5. CASE IsExpectedAck(m, frame) /\ m.macState = "IDLE"
      <3>1. ProcessReceivedAcknowledgementFrame(m, frame) = e
        BY <2>5 DEF ProcessReceivedAcknowledgementFrame
      <3> HIDE DEF e
      <3> QED  BY <2>1, <2>3, <2>5, <3>1 DEF MacInv
    <2> QED  BY <2>2, <2>4, <2>5
  <1> QED  BY <1>1, <1>2, <1>3

-----------------------------------------------------------------------------
(* The events. *)

\* How an event that gives n's MAC a new state keeps what Inv says of MACs.
LEMMA MacStepInv ==
    ASSUME Inv, NEW n \in Nodes, NEW h, MacInv(h), mac' = [mac EXCEPT ![n] = h]
    PROVE  /\ mac' \in [Nodes -> MacRecords]
           /\ \A k \in Nodes : MacInv(mac'[k])
           /\ mac'[n] = h
           /\ \A k \in Nodes \ {n} : mac'[k] = mac[k]
  <1> USE MacAssumption
  <1>1. h \in MacRecords
    BY MacTypedIsMacRecord DEF MacInv
  <1>2. mac \in [Nodes -> MacRecords] /\ \A k \in Nodes : MacInv(mac[k])
    BY DEF Inv
  <1> HIDE DEF Inv
  <1>3. mac' \in [Nodes -> MacRecords]
    BY <1>1, <1>2
  <1>4. mac'[n] = h /\ \A k \in Nodes \ {n} : mac'[k] = mac[k]
    BY <1>2
  <1> QED  BY <1>2, <1>3, <1>4

LEMMA InitInv == Init => Inv
  <1> USE MacAssumption
  <1> SUFFICES ASSUME Init PROVE Inv
    OBVIOUS
  <1>1. PhyInv
    BY PhyInitInv DEF Init
  <1>2. /\ mac \in [Nodes -> MacRecords]
        /\ \A n \in Nodes : MacInv(mac[n]) /\ mac[n].macState = "IDLE"
    <2>1. InitialMac \in MacRecords /\ InitialMac.macState = "IDLE"
      BY InitialMacInv, MacTypedIsMacRecord DEF MacInv, InitialMac
    <2> QED  BY <2>1, InitialMacInv DEF Init
  <1>3. \A n \in Nodes : mac[n].macState \in TransmittingStates <=> phyTxState[n] # "IDLE"
    BY <1>2 DEF Init, PhyInit, TransmittingStates
  <1>4. SlotInv /\ FramesInv
    BY <1>2 DEF SlotInv, FramesInv, Init, PhyInit
  <1>5. HistoryTypeOK
    <2>1. \A S : <<>> \in Seq(S)
      OBVIOUS
    <2> QED  BY <2>1 DEF HistoryTypeOK, Init
  <1> QED  BY <1>1, <1>2, <1>3, <1>4, <1>5 DEF Inv

\* Events that leave the PHY and the channel as they are.
LEMMA PhyStutterInv ==
    ASSUME PhyInv, UNCHANGED phyVars
    PROVE  PhyInv' /\ \A n \in Nodes : SignalsOn(n)' = SignalsOn(n)
  BY PhyNextInv DEF SignalsOn, phyVars

LEMMA InsertPacketInv ==
    ASSUME Inv, NEW n \in Nodes, InsertPacket(n)
    PROVE  Inv'
  <1> USE MacAssumption
  <1> USE DEF Inv
  <1>1. PICK to \in Destinations[n] :
          /\ offered' = [offered EXCEPT ![n] = Append(@, to)]
          /\ mac' = [mac EXCEPT ![n] =
                        QueuePacket(@, [id |-> Len(offered[n]) + 1, to |-> to])]
    BY DEF InsertPacket
  <1>2. to \in Addresses
    BY AlohaAssumption
  <1> DEFINE packet == [id |-> Len(offered[n]) + 1, to |-> to]
             h == QueuePacket(mac[n], packet)
  <1>3. packet \in Packets
    <2>1. Len(offered[n]) + 1 \in Nat
      BY DEF HistoryTypeOK
    <2> QED  BY <1>2, <2>1 DEF Packets
  <1>4. mac' = [mac EXCEPT ![n] = h]
    BY <1>1
  <1> HIDE DEF packet
  <1>5. /\ MacInv(h)
        /\ h.macState = mac[n].macState \/ (mac[n].macState = "IDLE" /\ h.macState = "DATA")
    BY <1>3, QueueChangeInv
  <1> HIDE DEF h
  <1>6. /\ mac' \in [Nodes -> MacRecords] /\ \A k \in Nodes : MacInv(mac'[k])
        /\ mac'[n] = h /\ \A k \in Nodes \ {n} : mac'[k] = mac[k]
    BY <1>4, <1>5, MacStepInv
  <1>7. UNCHANGED <<phyVars, slotBegins, attempts, outcome, received>>
    BY DEF InsertPacket
  <1>8. PhyInv' /\ \A k \in Nodes : SignalsOn(k)' = SignalsOn(k)
    BY <1>7, PhyStutterInv
  <1>9. \A k \in Nodes : mac'[k].macState \in TransmittingStates <=> phyTxState'[k] # "IDLE"
    BY <1>5, <1>6, <1>7 DEF phyVars, TransmittingStates
  <1>10. SlotInv'
    BY <1>5, <1>6, <1>7, <1>8 DEF SlotInv, phyVars, AllStarted, Slotted
  <1>11. FramesInv'
    BY <1>7 DEF FramesInv, phyVars
  <1>12. HistoryTypeOK'
    BY <1>1, <1>2, <1>7 DEF HistoryTypeOK
  <1> QED  BY <1>6, <1>8, <1>9, <1>10, <1>11, <1>12

\* n's MAC hands a frame to its idle PHY.
LEMMA MacTransmitsInv ==
    ASSUME Inv, NEW n \in Nodes, NEW frame \in Frames, NEW h,
           mac[n].macState \notin TransmittingStates,
           TransmitAFrame(n, frame), MacInv(h), h.macState \in TransmittingStates,
           mac' = [mac EXCEPT ![n] = h], UNCHANGED <<slotBegins, linkVars>>,
           attempts' \in [Nodes -> Nat], TimersMayFire
    PROVE  Inv'
  <1> USE MacAssumption
  <1> USE DEF Inv
  <1>1. phyTxState[n] = "IDLE"
    OBVIOUS
  <1>2. PhyInv'
    BY <1>1, TransmitAFrameInv
  <1>3. /\ mac' \in [Nodes -> MacRecords] /\ \A k \in Nodes : MacInv(mac'[k])
        /\ mac'[n] = h /\ \A k \in Nodes \ {n} : mac'[k] = mac[k]
    BY MacStepInv
  <1>4. \A k \in Nodes : mac'[k].macState \in TransmittingStates <=> phyTxState'[k] # "IDLE"
    BY <1>3 DEF TransmitAFrame, PhyInv, PhyTypeOK
  <1>5. SlotInv'
    BY DEF SlotInv, TransmitAFrame, TimersMayFire, PhyInv, PhyTypeOK
  <1>6. FramesInv'
    BY DEF FramesInv, TransmitAFrame, PhyInv, PhyTypeOK
  <1>7. HistoryTypeOK'
    BY DEF HistoryTypeOK, linkVars
  <1> QED  BY <1>2, <1>3, <1>4, <1>5, <1>6, <1>7

LEMMA DataTimerEventInv ==
    ASSUME Inv, NEW n \in Nodes, DataTimerEvent(n)
    PROVE  Inv'
  <1> USE MacAssumption
  <1> USE DEF Inv
  <1> DEFINE h == ProcessDataFrameTransmissionTimerEvent(mac[n])
  <1>1. /\ MacInv(mac[n]) /\ mac[n].dataTimer /\ TimersMayFire
        /\ mac' = [mac EXCEPT ![n] = h] /\ UNCHANGED <<slotBegins, linkVars>>
    BY DEF DataTimerEvent
  <1>2. /\ MacInv(h)
        /\ h.macState = IF TransmitsData(mac[n]) THEN "DATA_TRANSMITTING" ELSE mac[n].macState
    BY <1>1, DataTimerInv
  <1> HIDE DEF h
  <1>3. CASE TransmitsData(mac[n])
    <2>1. mac[n].macState = "DATA" /\ h.macState = "DATA_TRANSMITTING"
      BY <1>2, <1>3 DEF TransmitsData
    <2>2. DataFrame(n, mac[n]) \in Frames
      <3>1. mac[n].currentDataPacket \in Packets /\ mac[n].currentFrameSequenceNumber \in Nat
        BY <1>1 DEF MacInv, MacTyped
      <3> QED  BY <3>1 DEF DataFrame, Frames, Packets
    <2>3. /\ TransmitAFrame(n, DataFrame(n, mac[n]))
          /\ attempts' = [attempts EXCEPT ![n] = @ + 1]
      BY <1>3 DEF DataTimerEvent
    <2>4. attempts' \in [Nodes -> Nat]
      BY <2>3 DEF HistoryTypeOK
    <2>5. mac[n].macState \notin TransmittingStates /\ h.macState \in TransmittingStates
      BY <2>1 DEF TransmittingStates
    <2> HIDE DEF Inv
    <2> QED  BY <1>1, <1>2, <2>2, <2>3, <2>4, <2>5, MacTransmitsInv
  <1>4. CASE ~TransmitsData(mac[n])
    <2>1. UNCHANGED <<phyVars, attempts>> /\ h.macState = mac[n].macState
      BY <1>2, <1>4 DEF DataTimerEvent
    <2>2. PhyInv' /\ \A k \in Nodes : SignalsOn(k)' = SignalsOn(k)
      BY <2>1, PhyStutterInv
    <2>3. /\ mac' \in [Nodes -> MacRecords] /\ \A k \in Nodes : MacInv(mac'[k])
          /\ mac'[n] = h /\ \A k \in Nodes \ {n} : mac'[k] = mac[k]
      BY <1>1, <1>2, MacStepInv
    <2>4. \A k \in Nodes : mac'[k].macState = mac[k].macState
      BY <2>1, <2>3
    <2>5. \A k \in Nodes : mac'[k].macState \in TransmittingStates <=> phyTxState'[k] # "IDLE"
      BY <2>1, <2>4 DEF phyVars
    <2>6. SlotInv' /\ FramesInv' /\ HistoryTypeOK'
      BY <1>1, <2>1, <2>2, <2>4
         DEF SlotInv, FramesInv, HistoryTypeOK, phyVars, linkVars, AllStarted, Slotted
    <2> QED  BY <2>2, <2>3, <2>5, <2>6
  <1> QED  BY <1>3, <1>4

LEMMA AckTimerEventInv ==
    ASSUME Inv, NEW n \in Nodes, AckTimerEvent(n)
    PROVE  Inv'
  <1> USE MacAssumption
  <1> DEFINE h == TransmitAcknowledgement(mac[n])
  <1>1. /\ MacInv(mac[n]) /\ mac[n].ackTimers > 0 /\ TimersMayFire
        /\ mac' = [mac EXCEPT ![n] = h] /\ UNCHANGED <<slotBegins, linkVars>>
        /\ TransmitAFrame(n, Head(mac[n].ackFrames)) /\ UNCHANGED attempts
    BY DEF AckTimerEvent, Inv
  <1>2. /\ mac[n].macState = "ACK" /\ Head(mac[n].ackFrames) \in Frames
        /\ MacInv(h) /\ h.macState = "ACK_TRANSMITTING"
    BY <1>1, AckTimerInv
  <1>3. mac[n].macState \notin TransmittingStates /\ h.macState \in TransmittingStates
    BY <1>2 DEF TransmittingStates
  <1>4. attempts' \in [Nodes -> Nat]
    BY <1>1 DEF Inv, HistoryTypeOK
  <1> QED  BY <1>1, <1>2, <1>3, <1>4, MacTransmitsInv

LEMMA AirborneInv ==
    ASSUME Inv, NEW n \in Nodes, Airborne(n)
    PROVE  Inv'
  <1> USE MacAssumption
  <1> USE DEF Inv
  <1>1. StartTransmission(n) /\ UNCHANGED <<mac, slotBegins, attempts, linkVars>> /\ AirMayProgress
    BY DEF Airborne
  <1>2. PhyInv'
    BY <1>1, TransmitterInv
  <1>3. \A k \in Nodes : phyTxState'[k] # "IDLE" <=> phyTxState[k] # "IDLE"
    BY <1>1 DEF StartTransmission, PhyInv, PhyTypeOK
  <1>4. SlotInv'
    <2>1. Slotted => \A k \in Nodes : mac[k].macState # "ACK"
      BY <1>1 DEF SlotInv, AirMayProgress, StartTransmission, AllStarted
    <2> QED  BY <1>1, <2>1 DEF SlotInv, AirMayProgress, Slotted
  <1>5. FramesInv'
    BY <1>1 DEF FramesInv, StartTransmission, PhyInv, PhyTypeOK
  <1>6. HistoryTypeOK'
    BY <1>1 DEF HistoryTypeOK, linkVars
  <1> QED  BY <1>1, <1>2, <1>3, <1>4, <1>5, <1>6

LEMMA SignalStartEventInv ==
    ASSUME Inv, NEW n \in Nodes, NEW s \in Nodes, SignalStart(n, s)
    PROVE  Inv'
  <1> USE MacAssumption
  <1> USE DEF Inv
  <1>1. /\ StartReceivingSignalFromChannel(n, s)
        /\ UNCHANGED <<mac, slotBegins, attempts, linkVars>>
    BY DEF SignalStart
  <1>2. PhyInv'
    BY <1>1, SignalStartInv
  <1>3. UNCHANGED <<phyTxState, currentPropagatedFrame, frameOnAir>>
    BY <1>1 DEF StartReceivingSignalFromChannel
  <1>4. SlotInv'
    <2>1. Slotted => ~slotBegins /\ \A k \in Nodes : mac[k].macState # "ACK"
      BY <1>1 DEF SlotInv, StartReceivingSignalFromChannel, AllStarted, HistoryTypeOK
    <2> QED  BY <1>1, <2>1 DEF SlotInv, Slotted
  <1>5. FramesInv'
    BY <1>1, <1>3 DEF FramesInv, StartReceivingSignalFromChannel, PhyInv, PhyTypeOK
  <1>6. HistoryTypeOK'
    BY <1>1 DEF HistoryTypeOK, linkVars
  <1> QED  BY <1>1, <1>2, <1>3, <1>4, <1>5, <1>6

\* n's MAC is done with a packet, or not: what is recorded keeps its type.
LEMMA SettleType ==
    ASSUME HistoryTypeOK, NEW n \in Nodes, NEW how \in {"sent", "acked", "dropped"}, Settle(n, how)
    PROVE  outcome' \in [Nodes -> Seq(Outcomes)] /\ attempts' \in [Nodes -> Nat]
  <1> USE MacAssumption
  <1> DEFINE entry == [how |-> how, attempts |-> attempts[n]]
  <1>1. entry \in Outcomes
    BY DEF HistoryTypeOK, Outcomes
  <1>2. outcome' = [outcome EXCEPT ![n] = Append(@, entry)]
    BY DEF Settle
  <1> HIDE DEF entry
  <1>3. outcome' \in [Nodes -> Seq(Outcomes)]
    BY <1>1, <1>2 DEF HistoryTypeOK
  <1>4. attempts' \in [Nodes -> Nat]
    BY DEF Settle, HistoryTypeOK
  <1> QED  BY <1>3, <1>4

LEMMA SignalEndEventInv ==
    ASSUME Inv, NEW n \in Nodes, NEW s \in Nodes, SignalEnd(n, s)
    PROVE  Inv'
  <1> USE MacAssumption
  <1> USE DEF Inv
  <1>1. EndReceivingSignalFromChannel(n, s) /\ UNCHANGED <<slotBegins, offered>> /\ SignalMayEnd(n)
    BY DEF SignalEnd
  <1>2. PhyInv'
    BY <1>1, SignalEndInv
  <1>3. UNCHANGED <<phyTxState, currentPropagatedFrame, frameOnAir>>
    BY <1>1 DEF EndReceivingSignalFromChannel
  <1>4. FramesInv'
    BY <1>1, <1>3 DEF FramesInv, EndReceivingSignalFromChannel, PhyInv, PhyTypeOK
  <1>5. /\ s \in SignalsOn(n) /\ SignalsOn(n)' = SignalsOn(n) \ {s}
        /\ \A k \in Nodes \ {n} : SignalsOn(k)' = SignalsOn(k)
        /\ Slotted => ~slotBegins /\ AllStarted /\ AllStarted'
    <2>1. /\ s \in SignalsOn(n) /\ SignalsOn(n)' = SignalsOn(n) \ {s}
          /\ \A k \in Nodes \ {n} : SignalsOn(k)' = SignalsOn(k)
      BY <1>1 DEF EndReceivingSignalFromChannel, SignalsOn, PhyInv, PhyTypeOK
    <2>2. Slotted => ~slotBegins /\ AllStarted
      BY <1>1 DEF SlotInv, SignalMayEnd, EndReceivingSignalFromChannel
    <2>3. AllStarted => AllStarted'
      BY <1>1 DEF AllStarted, EndReceivingSignalFromChannel, PhyInv, PhyTypeOK
    <2> QED  BY <2>1, <2>2, <2>3
  <1>6. CASE ~GivesFrameToMac(n, s)
    <2>1. UNCHANGED <<mac, received, outcome, attempts>>
      BY <1>6 DEF SignalEnd
    <2>2. \A k \in Nodes : SignalsOn(k) = {} => SignalsOn(k)' = {}
      BY <1>5
    <2>3. SlotInv'
      BY <1>1, <1>5, <2>1, <2>2 DEF SlotInv, Slotted
    <2>4. HistoryTypeOK'
      BY <1>1, <2>1 DEF HistoryTypeOK
    <2> QED  BY <1>2, <1>3, <1>4, <2>1, <2>3, <2>4
  <1>7. CASE GivesFrameToMac(n, s)
    <2> DEFINE frame == frameOnAir[s]
               h == ReceiveFrameFromPhy(n, mac[n], frame)
    <2>1. MacReceives(n, frame)
      BY <1>7 DEF SignalEnd
    <2>2. frame \in Frames
      BY <1>1 DEF FramesInv, EndReceivingSignalFromChannel
    <2>3. SignalsOn(n) = {s} /\ phyTxState[n] = "IDLE"
      BY <1>7, PhyAssumption DEF GivesFrameToMac, PhyInv, GoodFrameIsAlone
    <2>4. mac[n].macState # "ACK"
      <3>1. CASE Slotted
        BY <1>5, <2>3, <3>1 DEF SlotInv
      <3>2. CASE ~Slotted
        <4>1. mac[n].ackTimers = 0
          BY <1>1, <3>2 DEF SignalMayEnd
        <4> QED  BY <4>1 DEF MacInv
      <3> QED  BY <3>1, <3>2
    <2>5. MacInv(mac[n]) /\ mac[n].macState \in {"IDLE", "DATA"}
      BY <2>3, <2>4 DEF MacInv, MacTyped, MacStates
    <2>6. mac' = [mac EXCEPT ![n] = h]
      BY <2>1 DEF MacReceives
    <2> HIDE DEF frame
    <2>7. MacInv(h) /\ h.macState \in {"IDLE", "DATA", "ACK"}
      BY <2>2, <2>5, ReceiveInv
    <2> HIDE DEF h
    <2>8. /\ mac' \in [Nodes -> MacRecords] /\ \A k \in Nodes : MacInv(mac'[k])
          /\ mac'[n] = h /\ \A k \in Nodes \ {n} : mac'[k] = mac[k]
      BY <2>6, <2>7, MacStepInv
    <2>9. \A k \in Nodes : mac'[k].macState \in TransmittingStates <=> phyTxState'[k] # "IDLE"
      BY <1>3, <2>3, <2>7, <2>8 DEF TransmittingStates
    <2>10. SlotInv'
      <3>1. SignalsOn(n)' = {}
        BY <1>5, <2>3
      <3>2. \A k \in Nodes \ {n} : mac'[k] = mac[k] /\ SignalsOn(k)' = SignalsOn(k)
        BY <1>5, <2>8
      <3>3. UNCHANGED slotBegins
        BY <1>1
      <3> QED  BY <1>5, <3>1, <3>2, <3>3 DEF SlotInv, Slotted
    <2>11. HistoryTypeOK'
      <3>1. outcome' \in [Nodes -> Seq(Outcomes)] /\ attempts' \in [Nodes -> Nat]
        <4>1. CASE Acknowledges(n, frame)
          BY <2>1, <4>1, SettleType DEF MacReceives
        <4>2. CASE ~Acknowledges(n, frame)
          BY <2>1, <4>2 DEF MacReceives, HistoryTypeOK
        <4> QED  BY <4>1, <4>2
      <3>2. received' \in [Nodes -> Seq(Receptions)]
        <4> DEFINE entry == [from |-> frame.from, id |-> frame.id]
        <4>1. entry \in Receptions
          BY <2>2 DEF Frames, Receptions
        <4>2. received' = received \/ received' = [received EXCEPT ![n] = Append(@, entry)]
          BY <2>1 DEF MacReceives
        <4> HIDE DEF entry
        <4>3. CASE received' = received
          BY <4>3 DEF HistoryTypeOK
        <4>4. CASE received' = [received EXCEPT ![n] = Append(@, entry)]
          <5>1. received \in [Nodes -> Seq(Receptions)]
            BY DEF HistoryTypeOK
          <5>2. Append(received[n], entry) \in Seq(Receptions)
            BY <4>1, <5>1
          <5> QED  BY <4>4, <5>1, <5>2
        <4> QED  BY <4>2, <4>3, <4>4
      <3> QED  BY <1>1, <3>1, <3>2 DEF HistoryTypeOK
    <2> QED  BY <1>2, <1>4, <2>8, <2>9, <2>10, <2>11
  <1> QED  BY <1>6, <1>7

LEMMA TransmissionEndInv ==
    ASSUME Inv, NEW n \in Nodes, TransmissionEnd(n)
    PROVE  Inv'
  <1> USE MacAssumption
  <1> USE DEF Inv
  <1> DEFINE h == TransmissionIsCompleteNotification(mac[n])
  <1>1. /\ EndCurrentTransmission(n) /\ mac' = [mac EXCEPT ![n] = h]
        /\ UNCHANGED <<slotBegins, offered, received>>
    BY DEF TransmissionEnd
  <1>2. PhyInv'
    BY <1>1, TransmitterInv
  <1>3. MacInv(mac[n]) /\ mac[n].macState \in TransmittingStates
    BY <1>1 DEF EndCurrentTransmission
  <1>4. MacInv(h) /\ h.macState \in {"IDLE", "DATA"}
    BY <1>3, TransmissionCompleteInv
  <1> HIDE DEF h
  <1>5. /\ mac' \in [Nodes -> MacRecords] /\ \A k \in Nodes : MacInv(mac'[k])
        /\ mac'[n] = h /\ \A k \in Nodes \ {n} : mac'[k] = mac[k]
    BY <1>1, <1>4, MacStepInv
  <1>6. /\ phyTxState'[n] = "IDLE" /\ \A k \in Nodes \ {n} : phyTxState'[k] = phyTxState[k]
        /\ UNCHANGED <<rxVars, currentPropagatedFrame, frameOnAir, signal>>
    BY <1>1 DEF EndCurrentTransmission, PhyInv, PhyTypeOK
  <1>7. \A k \in Nodes : mac'[k].macState \in TransmittingStates <=> phyTxState'[k] # "IDLE"
    BY <1>4, <1>5, <1>6 DEF TransmittingStates
  <1>8. SlotInv'
    <2>1. \A k \in Nodes : /\ phyTxState'[k] = "TX_STARTING" => phyTxState[k] = "TX_STARTING"
                           /\ phyTxState'[k] = "TRANSMITTING" => phyTxState[k] = "TRANSMITTING"
                           /\ mac'[k].macState = "ACK" => mac[k].macState = "ACK"
      BY <1>4, <1>5, <1>6
    <2>2. UNCHANGED <<slotBegins, signal>>
      BY <1>1, <1>6
    <2> QED  BY <2>1, <2>2 DEF SlotInv, AllStarted, SignalsOn, Slotted
  <1>9. FramesInv'
    BY <1>6 DEF FramesInv
  <1>10. HistoryTypeOK'
    <2>1. outcome' \in [Nodes -> Seq(Outcomes)] /\ attempts' \in [Nodes -> Nat]
      <3>1. \/ Settle(n, "sent") \/ Settle(n, "dropped")
            \/ UNCHANGED <<outcome, attempts>>
        BY DEF TransmissionEnd
      <3> QED  BY <3>1, SettleType DEF HistoryTypeOK
    <2> QED  BY <1>1, <2>1 DEF HistoryTypeOK
  <1> QED  BY <1>2, <1>5, <1>7, <1>8, <1>9, <1>10

LEMMA SlotEventsInv ==
    ASSUME Inv, NextSlot \/ SlotContinues
    PROVE  Inv'
  <1> USE MacAssumption
  <1> USE DEF Inv
  <1>1. UNCHANGED <<phyVars, mac, attempts, linkVars>>
    BY DEF NextSlot, SlotContinues
  <1>2. PhyInv' /\ \A k \in Nodes : SignalsOn(k)' = SignalsOn(k)
    BY <1>1, PhyStutterInv
  <1>3. SlotInv'
    <2>1. CASE NextSlot
      BY <1>1, <2>1 DEF SlotInv, NextSlot, ChannelIsQuiet, phyVars
    <2>2. CASE SlotContinues
      <3>1. \A k \in Nodes : mac'[k].macState # "ACK"
        BY <1>1, <2>2 DEF SlotContinues, MacInv
      <3> QED  BY <2>2, <3>1 DEF SlotInv, SlotContinues
    <2> QED  BY <2>1, <2>2
  <1>4. FramesInv'
    BY <1>1 DEF FramesInv, phyVars
  <1>5. HistoryTypeOK'
    BY <1>1 DEF HistoryTypeOK, linkVars, NextSlot, SlotContinues
  <1>6. \A k \in Nodes : mac'[k].macState \in TransmittingStates <=> phyTxState'[k] # "IDLE"
    BY <1>1 DEF phyVars
  <1> QED  BY <1>1, <1>2, <1>3, <1>4, <1>5, <1>6

LEMMA NextInv == Inv /\ [Next]_vars => Inv'
  <1> USE MacAssumption
  <1> SUFFICES ASSUME Inv, [Next]_vars PROVE Inv'
    OBVIOUS
  <1>1. ASSUME NEW n \in Nodes,
               \/ InsertPacket(n) \/ DataTimerEvent(n) \/ AckTimerEvent(n)
               \/ Airborne(n) \/ TransmissionEnd(n)
        PROVE  Inv'
    BY <1>1, InsertPacketInv, DataTimerEventInv, AckTimerEventInv, AirborneInv, TransmissionEndInv
  <1>2. ASSUME NEW n \in Nodes, NEW s \in Nodes, SignalStart(n, s) \/ SignalEnd(n, s)
        PROVE  Inv'
    BY <1>2, SignalStartEventInv, SignalEndEventInv
  <1>3. CASE NextSlot \/ SlotContinues
    BY <1>3, SlotEventsInv
  <1>4. CASE UNCHANGED vars
    <2> USE DEF Inv
    <2>1. UNCHANGED <<phyVars, mac, slotBegins, attempts, linkVars>>
      BY <1>4 DEF vars
    <2>2. PhyInv' /\ \A k \in Nodes : SignalsOn(k)' = SignalsOn(k)
      BY <2>1, PhyStutterInv
    <2>3. SlotInv' /\ FramesInv' /\ HistoryTypeOK'
      BY <2>1, <2>2 DEF SlotInv, FramesInv, HistoryTypeOK, phyVars, linkVars, AllStarted, Slotted
    <2>4. \A k \in Nodes : mac'[k].macState \in TransmittingStates <=> phyTxState'[k] # "IDLE"
      BY <2>1 DEF phyVars
    <2> QED  BY <2>1, <2>2, <2>3, <2>4
  <1> QED  BY <1>1, <1>2, <1>3, <1>4 DEF Next

\* The inductive invariant says what the properties claim.
LEMMA InvImplies == Inv => TypeOK /\ AssertionsHold /\ NeverStalls /\ SlottedNeverExits
  <1> USE MacAssumption
  <1> SUFFICES ASSUME Inv PROVE TypeOK /\ AssertionsHold /\ NeverStalls /\ SlottedNeverExits
    OBVIOUS
  <1> USE DEF Inv
  <1>1. TypeOK
    BY DEF TypeOK, PhyInv, HistoryTypeOK
  <1>2. AssertionsHold
    <2> SUFFICES ASSUME NEW n \in Nodes
                 PROVE  LET m == mac[n] IN
                   /\ m.macState \in TransmittingStates <=> phyTxState[n] # "IDLE"
                   /\ m.dataTimer => m.macState # "IDLE" /\ HasDataPacketToSend(m)
                   /\ m.ackTimers > 0 => m.macState = "ACK" /\ Len(m.ackFrames) = m.ackTimers
                   /\ m.macState = "ACK_TRANSMITTING" /\ HasDataPacketToSend(m)
                         => \/ m.transmitCurrentDataAfterAckTransmission
                            \/ m.dataTimer /\ m.currentDataPacket.to # Broadcast
                   /\ m.macState \in TransmittingStates /\ currentlyReceiving[n] # NoNode
                         => currentPacketHasAnError[n]
      BY DEF AssertionsHold
    <2>1. MacInv(mac[n]) /\ (mac[n].macState \in TransmittingStates <=> phyTxState[n] # "IDLE")
      OBVIOUS
    <2>2. mac[n].macState \in TransmittingStates /\ currentlyReceiving[n] # NoNode
             => currentPacketHasAnError[n]
      BY <2>1 DEF PhyInv, GoodFrameIsAlone, PhyTypeOK
    <2> HIDE DEF Inv
    <2> DEFINE m == mac[n]
    <2> HIDE DEF Inv, m
    <2>3. MacInv(m) => /\ m.dataTimer => m.macState # "IDLE" /\ HasDataPacketToSend(m)
                       /\ m.ackTimers > 0 => m.macState = "ACK" /\ m.ackTimers = 1
                                                                /\ Len(m.ackFrames) = 1
                       /\ m.macState = "ACK_TRANSMITTING"
                             => m.transmitCurrentDataAfterAckTransmission
      BY DEF MacInv, HasDataPacketToSend
    <2> QED  BY <2>1, <2>2, <2>3 DEF m
  <1>3. NeverStalls
    BY DEF NeverStalls, MacInv, HasDataPacketToSend
  <1>4. SlottedNeverExits
    <2> SUFFICES ASSUME NEW n \in Nodes, NEW s \in Nodes, Slotted, mac[n].macState = "ACK",
                        GivesFrameToMac(n, s)
                 PROVE  FALSE
      BY DEF SlottedNeverExits
    <2>1. s \in SignalsOn(n)
      BY PhyAssumption DEF GivesFrameToMac, PhyInv, InterferenceCountExact
    <2> QED  BY <2>1 DEF SlotInv, SignalsOn, HistoryTypeOK
  <1> QED  BY <1>1, <1>2, <1>3, <1>4

-----------------------------------------------------------------------------
\* Every variable of the MACs, the PHYs and the channel keeps its type; in
\* particular the unsigned counters never go below zero.
THEOREM TypeCorrect == Spec => []TypeOK
  BY InitInv, NextInv, InvImplies, PTL DEF Spec

\* No assertion of the ALOHA code can fail: every event finds the interface in
\* a state in which its handler is prepared for it.
THEOREM NoAssertionFails == Spec => []AssertionsHold
  BY InitInv, NextInv, InvImplies, PTL DEF Spec

\* An interface with something to send always has an event scheduled for it.
THEOREM NeverStallsAtAll == Spec => []NeverStalls
  BY InitInv, NextInv, InvImplies, PTL DEF Spec

\* With slots that hold a frame, the slotted interface never ends the simulation.
THEOREM SlottedRunsOn == Spec => []SlottedNeverExits
  BY InitInv, NextInv, InvImplies, PTL DEF Spec


\* Under the MACs of this program too, a frame still considered good was alone at
\* the antenna of a node that does not transmit.
THEOREM CollisionsNeverGoUp == Spec => []GoodFrameIsAlone
  <1> USE MacAssumption
  <1>1. Inv => GoodFrameIsAlone
    BY DEF Inv, PhyInv
  <1> QED  BY <1>1, InitInv, NextInv, PTL DEF Spec

\* The interference counter always is the number of interfering signals.
THEOREM InterferenceAlwaysExact == Spec => []InterferenceCountExact
  <1> USE MacAssumption
  <1>1. Inv => InterferenceCountExact
    BY DEF Inv, PhyInv
  <1> QED  BY <1>1, InitInv, NextInv, PTL DEF Spec

-----------------------------------------------------------------------------
(* 3. Delivery: in order, at most once, acknowledged only when delivered,   *)
(* and as often attempted as configured; with it, that every step of Aloha  *)
(* is one of AlohaLink or none.                                             *)
(*                                                                          *)
(* The argument: the number of a frame is that of its packet, a node only   *)
(* ever has frames of the packet it sends now, or sent last, on their way,  *)
(* and so what a receiver remembers of a sender is never ahead of a frame   *)
(* that is still to come.                                                   *)

\* The packets that n has taken from its queue so far.
Started(n) == mac[n].currentFrameSequenceNumber

HasReceived(n, s, id) == \E j \in DOMAIN received[n] : received[n][j] = [from |-> s, id |-> id]

\* A MAC m at work on what its network layer offered: its queue holds the packets not
\* yet started, in order; out has an entry for those done with; att and the retry
\* counter agree on the transmissions of the current one.
Sending(m, off, out, att) ==
    LET started == m.currentFrameSequenceNumber IN
    /\ Len(off) = started + Len(m.networkOutputQueue)
    /\ \A i \in 1 .. Len(m.networkOutputQueue) :
           m.networkOutputQueue[i] = [id |-> started + i, to |-> off[started + i]]
    /\ m.currentRetryCount <= RetryLimit
    /\ m.currentDataPacket = NoPacket => Len(out) = started /\ att = 0
    /\ m.currentDataPacket # NoPacket =>
           /\ Len(out) = started - 1
           /\ m.currentDataPacket = [id |-> started, to |-> off[started]]
           /\ att = m.currentRetryCount + (IF m.macState = "DATA_TRANSMITTING" THEN 1 ELSE 0)
           /\ m.currentDataPacket.to = Broadcast => m.currentRetryCount = 0

\* A frame that s may have made: of a packet it has started, or in answer to one it got.
Genuine(s, frame) ==
    /\ frame.from = s /\ frame.seq = frame.id
    /\ frame.type = "DATA" =>
           frame.id \in 1 .. Started(s) /\ frame.to = offered[s][frame.id]
    /\ frame.type = "ACK" =>
           /\ frame.to \in Nodes
           /\ frame.id \in 1 .. Started(frame.to) /\ offered[frame.to][frame.id] = s
           /\ HasReceived(s, frame.to, frame.id)

GenuineFrames ==
    \A s \in Nodes :
        /\ currentPropagatedFrame[s] # NoFrame => Genuine(s, currentPropagatedFrame[s])
        /\ frameOnAir[s] # NoFrame => Genuine(s, frameOnAir[s])
        /\ \A i \in 1 .. Len(mac[s].ackFrames) :
               mac[s].ackFrames[i].type = "ACK" /\ Genuine(s, mac[s].ackFrames[i])

\* What is about to go on the air is of the packet started last.
LatestGoesOut ==
    \A s \in Nodes :
        phyTxState[s] = "TX_STARTING" /\ currentPropagatedFrame[s].type = "DATA"
            => currentPropagatedFrame[s].id = Started(s)

\* What n remembers of s is the latest it has received, and nothing older is on the air.
Remembers(n, s) ==
    /\ mac[n].lastSequenceNumberMap[s] <= Started(s)
    /\ mac[n].lastSequenceNumberMap[s] # 0 => HasReceived(n, s, mac[n].lastSequenceNumberMap[s])
    /\ frameOnAir[s] # NoFrame /\ frameOnAir[s].type = "DATA"
           => mac[n].lastSequenceNumberMap[s] <= frameOnAir[s].id

RemembersLatest ==
    \A n \in Nodes :
        /\ \A s \in Nodes : Remembers(n, s)
        /\ \A j \in DOMAIN received[n] :
               received[n][j].id <= mac[n].lastSequenceNumberMap[received[n][j].from]

\* A node does not hear itself.
NoEcho == \A s \in Nodes : signal[s][s] = "none"

DeliveryInv ==
    /\ Inv
    /\ \A n \in Nodes : Sending(mac[n], offered[n], outcome[n], attempts[n])
    /\ GenuineFrames
    /\ LatestGoesOut
    /\ RemembersLatest
    /\ NoEcho
    /\ AtMostOnceInOrder
    /\ AckedWasReceived
    /\ AttemptsAsConfigured

-----------------------------------------------------------------------------
(* The handlers of the MAC. *)

\* What a MAC sends and what it remembers are untouched by the handler.
SendsTheSame(m, h) ==
    /\ h.networkOutputQueue = m.networkOutputQueue
    /\ h.currentDataPacket = m.currentDataPacket
    /\ h.currentFrameSequenceNumber = m.currentFrameSequenceNumber
    /\ h.currentRetryCount = m.currentRetryCount

ReceivesTheSame(m, h) ==
    /\ h.ackFrames = m.ackFrames
    /\ h.lastSequenceNumberMap = m.lastSequenceNumberMap

\* The next packet is the one after the last started.
LEMMA SendingNext ==
    ASSUME NEW m, MacTyped(m), m.macState # "DATA_TRANSMITTING", m.currentDataPacket = NoPacket,
           NEW off \in Seq(Addresses), NEW out \in Seq(Outcomes), NEW att \in Nat,
           Sending(m, off, out, att),
           NEW h, h = TransmitNextDataFrameIfNecessary(m)
    PROVE  /\ Sending(h, off, out, att)
           /\ ReceivesTheSame(m, h)
           /\ h.currentFrameSequenceNumber >= m.currentFrameSequenceNumber
  <1>1. CASE m.networkOutputQueue = <<>>
    BY <1>1 DEF TransmitNextDataFrameIfNecessary, ReceivesTheSame, MacTyped
  <1>2. CASE m.networkOutputQueue # <<>>
    <2> DEFINE k == m.currentFrameSequenceNumber
               queue == m.networkOutputQueue
               first == Head(queue)
               rest == Tail(queue)
               next == k + 1
    <2>1. /\ h.networkOutputQueue = rest /\ h.currentDataPacket = first
          /\ h.currentFrameSequenceNumber = next /\ h.currentRetryCount = 0
          /\ h.macState = "DATA" /\ ReceivesTheSame(m, h)
      BY <1>2 DEF TransmitNextDataFrameIfNecessary, ScheduleDataFrameTransmissionTimerEvent,
         StartCurrentPacket, RetrievePacketFromNetworkLayer, ReceivesTheSame, MacTyped, MacShape,
         MacFields
    <2>2. queue \in Seq(Packets) /\ k \in Nat /\ Len(queue) \in Nat \ {0}
      BY <1>2 DEF MacTyped
    <2>3. /\ Len(off) = k + Len(queue) /\ Len(out) = k /\ att = 0
          /\ \A i \in 1 .. Len(queue) : queue[i] = [id |-> k + i, to |-> off[k + i]]
      BY DEF Sending
    <2>4. first = [id |-> next, to |-> off[next]] /\ first # NoPacket
      <3>1. first = queue[1] /\ first \in Packets
        BY <1>2, <2>2
      <3> QED  BY <2>2, <2>3, <3>1, MacAssumption
    <2>5. /\ Len(rest) = Len(queue) - 1
          /\ \A i \in 1 .. Len(rest) : rest[i] = [id |-> next + i, to |-> off[next + i]]
      <3>1. Len(rest) = Len(queue) - 1 /\ \A i \in 1 .. Len(rest) : rest[i] = queue[i + 1]
        BY <1>2, <2>2, HeadTailProperties
      <3> HIDE DEF rest, queue
      <3>2. ASSUME NEW i \in 1 .. Len(rest)
            PROVE  rest[i] = [id |-> next + i, to |-> off[next + i]]
        <4>1. i + 1 \in 1 .. Len(queue) /\ k + (i + 1) = next + i
          <5>1. next = k + 1 /\ k \in Nat /\ Len(queue) \in Nat /\ Len(rest) = Len(queue) - 1
            BY <2>2, <3>1
          <5> HIDE DEF k, next
          <5> QED  BY <5>1
        <4> QED  BY <2>3, <3>1, <4>1
      <3> QED  BY <3>1, <3>2
    <2>6. Len(off) = next + Len(rest) /\ Len(out) = next - 1
      <3>1. next = k + 1 /\ k \in Nat /\ Len(queue) \in Nat /\ Len(rest) = Len(queue) - 1
            /\ Len(off) = k + Len(queue) /\ Len(out) = k
        BY <2>2, <2>3, <2>5
      <3> HIDE DEF k, next, rest, queue
      <3> QED  BY <3>1
    <2> HIDE DEF first, rest, queue
    <2> QED  BY <2>1, <2>2, <2>3, <2>4, <2>5, <2>6, MacAssumption DEF Sending
  <1> QED  BY <1>1, <1>2

LEMMA SendingSame ==
    ASSUME NEW m, NEW h, SendsTheSame(m, h),
           m.macState = "DATA_TRANSMITTING" <=> h.macState = "DATA_TRANSMITTING",
           NEW off, NEW out, NEW att, Sending(m, off, out, att)
    PROVE  Sending(h, off, out, att)
  BY DEF SendsTheSame, Sending

\* Done with its packet, a MAC has as many packets settled as started.
LEMMA SendingEnd ==
    ASSUME NEW m, MacTyped(m), m.currentDataPacket # NoPacket,
           NEW off \in Seq(Addresses), NEW out \in Seq(Outcomes), NEW att \in Nat,
           Sending(m, off, out, att), NEW entry \in Outcomes,
           NEW h, h.networkOutputQueue = m.networkOutputQueue,
           h.currentFrameSequenceNumber = m.currentFrameSequenceNumber,
           h.currentDataPacket = NoPacket, h.currentRetryCount = 0
    PROVE  Sending(h, off, Append(out, entry), 0)
  <1>1. Len(Append(out, entry)) = Len(out) + 1
    BY AppendProperties
  <1>2. Len(out) = m.currentFrameSequenceNumber - 1 /\ m.currentFrameSequenceNumber \in Nat
    BY DEF Sending, MacTyped
  <1>3. Len(Append(out, entry)) = h.currentFrameSequenceNumber
    BY <1>1, <1>2
  <1> QED  BY <1>3, MacAssumption DEF Sending

\* A packet the network layer adds comes last.
LEMMA SendingQueue ==
    ASSUME NEW m, MacInv(m), NEW off \in Seq(Addresses), NEW out \in Seq(Outcomes),
           NEW att \in Nat, Sending(m, off, out, att), NEW to \in Addresses,
           NEW packet, packet = [id |-> Len(off) + 1, to |-> to],
           NEW h, h = QueuePacket(m, packet)
    PROVE  /\ Sending(h, Append(off, to), out, att)
           /\ ReceivesTheSame(m, h)
           /\ h.currentFrameSequenceNumber >= m.currentFrameSequenceNumber
           /\ m.macState # "IDLE" => h.currentFrameSequenceNumber = m.currentFrameSequenceNumber
  <1> DEFINE k == m.currentFrameSequenceNumber
             old == m.networkOutputQueue
             queue == Append(old, packet)
             longer == Append(off, to)
             q == [m EXCEPT !.networkOutputQueue = queue]
  <1>1. packet \in Packets /\ Len(off) \in Nat
    BY DEF Packets
  <1>2. /\ old \in Seq(Packets) /\ k \in Nat /\ MacTyped(m)
    BY DEF MacInv, MacTyped
  <1>3. /\ queue \in Seq(Packets) /\ Len(queue) = Len(old) + 1 /\ Len(old) \in Nat
        /\ \A i \in 1 .. Len(old) : queue[i] = old[i]
        /\ queue[Len(old) + 1] = packet
    BY <1>1, <1>2, AppendProperties, LenProperties
  <1>4. /\ longer \in Seq(Addresses) /\ Len(longer) = Len(off) + 1
        /\ \A i \in 1 .. Len(off) : longer[i] = off[i]
        /\ longer[Len(off) + 1] = to
    BY AppendProperties
  <1>5. h = NetworkLayerQueueChangeNotification(q)
    BY DEF QueuePacket
  <1> HIDE DEF queue, longer
  <1>6. /\ MacTyped(q) /\ q.networkOutputQueue = queue
        /\ ReceivesTheSame(m, q) /\ q.macState = m.macState
        /\ q.currentDataPacket = m.currentDataPacket
        /\ q.currentFrameSequenceNumber = k /\ q.currentRetryCount = m.currentRetryCount
    BY <1>2, <1>3 DEF MacTyped, MacShape, MacFields, ReceivesTheSame
  <1> HIDE DEF q
  <1>7. /\ Len(off) = k + Len(old)
        /\ \A i \in 1 .. Len(old) : old[i] = [id |-> k + i, to |-> off[k + i]]
    BY DEF Sending
  <1>8. Sending(q, longer, out, att)
    <2>1. Len(longer) = k + Len(queue)
      <3> HIDE DEF k, old
      <3> QED  BY <1>2, <1>3, <1>4, <1>7
    <2>2. ASSUME NEW i \in 1 .. Len(queue)
          PROVE  queue[i] = [id |-> k + i, to |-> longer[k + i]]
      <3> HIDE DEF k, old
      <3>1. CASE i \in 1 .. Len(old)
        <4>1. k + i \in 1 .. Len(off)
          BY <1>2, <1>3, <1>7, <3>1
        <4> QED  BY <1>3, <1>4, <1>7, <3>1, <4>1
      <3>2. CASE i \notin 1 .. Len(old)
        <4>1. i = Len(old) + 1 /\ k + i = Len(off) + 1
          <5>1. i \in 1 .. Len(old) + 1 /\ Len(old) \in Nat /\ ~(i \in 1 .. Len(old))
            BY <1>3, <3>2
          <5>2. i = Len(old) + 1
            BY <5>1
          <5> QED  BY <1>2, <1>3, <1>7, <5>2
        <4> QED  BY <1>3, <1>4, <4>1
      <3> QED  BY <3>1, <3>2
    <2>3. m.currentDataPacket # NoPacket => longer[k] = off[k]
      <3>1. m.currentDataPacket # NoPacket => Len(out) = k - 1 /\ Len(out) \in Nat
        BY LenProperties DEF Sending
      <3> HIDE DEF k, old
      <3>2. m.currentDataPacket # NoPacket => k \in 1 .. Len(off)
        BY <1>2, <1>3, <1>7, <3>1
      <3> QED  BY <1>4, <3>2
    <2> QED  BY <1>6, <2>1, <2>2, <2>3 DEF Sending
  <1>9. CASE m.macState = "IDLE"
    <2>1. h = TransmitNextDataFrameIfNecessary(q)
      BY <1>5, <1>6, <1>9 DEF NetworkLayerQueueChangeNotification
    <2>2. q.macState # "DATA_TRANSMITTING" /\ q.currentDataPacket = NoPacket
      BY <1>6, <1>9 DEF MacInv
    <2>3. /\ Sending(h, longer, out, att) /\ ReceivesTheSame(q, h)
          /\ h.currentFrameSequenceNumber >= q.currentFrameSequenceNumber
      BY <1>4, <1>6, <1>8, <2>1, <2>2, SendingNext
    <2> QED  BY <1>6, <1>9, <2>3 DEF ReceivesTheSame, longer
  <1>10. CASE m.macState # "IDLE"
    <2>1. h = q
      BY <1>5, <1>6, <1>10 DEF NetworkLayerQueueChangeNotification
    <2> QED  BY <1>2, <1>6, <1>8, <2>1 DEF longer
  <1> QED  BY <1>9, <1>10

\* A timer puts the frame of the current packet on its way, or off.
LEMMA SendingDataTimer ==
    ASSUME NEW m, MacInv(m), m.dataTimer, NEW off, NEW out, NEW att \in Nat,
           Sending(m, off, out, att),
           NEW h, h = ProcessDataFrameTransmissionTimerEvent(m)
    PROVE  /\ Sending(h, off, out, IF TransmitsData(m) THEN att + 1 ELSE att)
           /\ SendsTheSame(m, h) /\ ReceivesTheSame(m, h)
  <1>1. /\ SendsTheSame(m, h) /\ ReceivesTheSame(m, h)
        /\ h.macState = IF TransmitsData(m) THEN "DATA_TRANSMITTING" ELSE m.macState
    BY DEF MacInv, MacTyped, MacShape, MacFields, SendsTheSame, ReceivesTheSame, TransmitsData,
       ProcessDataFrameTransmissionTimerEvent, TransmitDataOrWaitAckTransmissionEndIfAckState
  <1>2. CASE TransmitsData(m)
    <2>1. m.macState = "DATA" /\ m.currentDataPacket # NoPacket /\ m.currentRetryCount \in Nat
      BY <1>2 DEF TransmitsData, MacInv, MacTyped
    <2>2. att = m.currentRetryCount
      BY <2>1 DEF Sending
    <2> QED  BY <1>1, <1>2, <2>1, <2>2 DEF Sending, SendsTheSame
  <1>3. CASE ~TransmitsData(m)
    BY <1>1, <1>3, SendingSame
  <1> QED  BY <1>1, <1>2, <1>3

LEMMA SendingAckTimer ==
    ASSUME NEW m, MacInv(m), m.ackTimers > 0, NEW off, NEW out, NEW att,
           Sending(m, off, out, att),
           NEW h, h = TransmitAcknowledgement(m)
    PROVE  /\ Sending(h, off, out, att)
           /\ SendsTheSame(m, h) /\ h.lastSequenceNumberMap = m.lastSequenceNumberMap
           /\ h.ackFrames = <<>>
  <1>1. /\ SendsTheSame(m, h) /\ h.lastSequenceNumberMap = m.lastSequenceNumberMap
        /\ h.macState = "ACK_TRANSMITTING"
    BY DEF MacInv, MacTyped, MacShape, MacFields, SendsTheSame, TransmitAcknowledgement
  <1>2. m.macState = "ACK" /\ MacInv(h)
    BY AckTimerInv
  <1> QED  BY <1>1, <1>2, SendingSame DEF MacInv

\* The MAC is done with its packet at the end of this transmission.
SettlesAtEnd(m) == m.macState = "DATA_TRANSMITTING" /\ GivesUp(m)

\* After a transmission: the packet is settled, is to be repeated, or was not sent.
LEMMA SendingComplete ==
    ASSUME NEW m, MacInv(m), m.macState \in TransmittingStates,
           NEW off \in Seq(Addresses), NEW out \in Seq(Outcomes), NEW att \in Nat,
           Sending(m, off, out, att), NEW entry \in Outcomes,
           NEW h, h = TransmissionIsCompleteNotification(m)
    PROVE  /\ SettlesAtEnd(m) => Sending(h, off, Append(out, entry), 0)
           /\ ~SettlesAtEnd(m) => Sending(h, off, out, att)
           /\ ReceivesTheSame(m, h)
           /\ h.currentFrameSequenceNumber >= m.currentFrameSequenceNumber
  <1> DEFINE e == IF m.macState = "DATA_TRANSMITTING" THEN AfterDataTransmission(m) ELSE m
             i == [e EXCEPT !.macState = "IDLE"]
             out2 == IF SettlesAtEnd(m) THEN Append(out, entry) ELSE out
             att2 == IF SettlesAtEnd(m) THEN 0 ELSE att
  <1>1. MacTyped(m) /\ m.ackFrames = <<>>
    BY DEF MacInv, TransmittingStates
  <1>2. out2 \in Seq(Outcomes) /\ att2 \in Nat
    BY AppendProperties
  <1>3. /\ MacTyped(e) /\ ReceivesTheSame(m, e) /\ e.macState = m.macState
        /\ e.currentFrameSequenceNumber = m.currentFrameSequenceNumber
        /\ e.currentDataPacket # NoPacket => e.currentDataPacket = m.currentDataPacket
        /\ \A s : s # "DATA_TRANSMITTING" => Sending([e EXCEPT !.macState = s], off, out2, att2)
    <2>1. CASE m.macState # "DATA_TRANSMITTING"
      <3>1. e = m /\ out2 = out /\ att2 = att
        BY <2>1 DEF SettlesAtEnd
      <3> HIDE DEF e, out2, att2
      <3>2. ASSUME NEW s, s # "DATA_TRANSMITTING"
            PROVE  Sending([m EXCEPT !.macState = s], off, out, att)
        <4>1. /\ SendsTheSame(m, [m EXCEPT !.macState = s])
              /\ [m EXCEPT !.macState = s].macState = s
          BY <1>1 DEF SendsTheSame, MacTyped, MacShape, MacFields
        <4> QED  BY <2>1, <3>2, <4>1, SendingSame
      <3> QED  BY <1>1, <3>1, <3>2 DEF ReceivesTheSame
    <2>2. CASE m.macState = "DATA_TRANSMITTING" /\ GivesUp(m)
      <3>1. e = EndCurrentDataTransmission(m) /\ out2 = Append(out, entry) /\ att2 = 0
        BY <2>2 DEF AfterDataTransmission, SettlesAtEnd
      <3> HIDE DEF e, out2, att2
      <3>2. /\ MacTyped(e) /\ ReceivesTheSame(m, e) /\ e.macState = m.macState
            /\ e.networkOutputQueue = m.networkOutputQueue
            /\ e.currentFrameSequenceNumber = m.currentFrameSequenceNumber
            /\ e.currentDataPacket = NoPacket /\ e.currentRetryCount = 0
        BY <1>1, <3>1, EndCurrentInv
           DEF EndCurrentDataTransmission, MacTyped, MacShape, MacFields, ReceivesTheSame
      <3>3. m.currentDataPacket # NoPacket
        BY <2>2 DEF MacInv
      <3>4. ASSUME NEW s
            PROVE  Sending([e EXCEPT !.macState = s], off, out2, att2)
        <4>1. SendsTheSame(e, [e EXCEPT !.macState = s])
          BY <3>2 DEF SendsTheSame, MacTyped, MacShape, MacFields
        <4> QED  BY <1>1, <3>1, <3>2, <3>3, <4>1, SendingEnd DEF SendsTheSame
      <3> QED  BY <3>2, <3>4
    <2>3. CASE m.macState = "DATA_TRANSMITTING" /\ ~GivesUp(m)
      <3> DEFINE retries == m.currentRetryCount
                 again == retries + 1
      <3>1. e = [ScheduleDataFrameTransmissionTimerEvent(m) EXCEPT !.currentRetryCount = @ + 1]
            /\ out2 = out /\ att2 = att
        BY <2>3 DEF AfterDataTransmission, SettlesAtEnd
      <3> HIDE DEF e, out2, att2
      <3>2. /\ retries \in Nat /\ again \in Nat /\ m.currentDataPacket # NoPacket
            /\ m.currentDataPacket.to # Broadcast /\ ~(retries >= RetryLimit)
        BY <1>1, <2>3 DEF MacInv, MacTyped, GivesUp
      <3>3. att = again
        BY <2>3, <3>2 DEF Sending
      <3>4. again <= RetryLimit
        <4> HIDE DEF retries
        <4> QED  BY <3>2, MacAssumption
      <3>5. /\ MacTyped(e) /\ ReceivesTheSame(m, e) /\ e.macState = m.macState
            /\ e.networkOutputQueue = m.networkOutputQueue
            /\ e.currentFrameSequenceNumber = m.currentFrameSequenceNumber
            /\ e.currentDataPacket = m.currentDataPacket /\ e.currentRetryCount = again
        BY <1>1, <3>1, <3>2
           DEF ScheduleDataFrameTransmissionTimerEvent, MacTyped, MacShape, MacFields,
               ReceivesTheSame
      <3> HIDE DEF again
      <3>6. ASSUME NEW s, s # "DATA_TRANSMITTING"
            PROVE  Sending([e EXCEPT !.macState = s], off, out2, att2)
        <4> DEFINE f == [e EXCEPT !.macState = s]
        <4>1. SendsTheSame(e, f) /\ f.macState = s
          BY <3>5 DEF SendsTheSame, MacTyped, MacShape, MacFields
        <4> HIDE DEF f
        <4>2. /\ f.networkOutputQueue = m.networkOutputQueue
              /\ f.currentFrameSequenceNumber = m.currentFrameSequenceNumber
              /\ f.currentDataPacket = m.currentDataPacket /\ f.currentRetryCount = again
          BY <3>5, <4>1 DEF SendsTheSame
        <4>3. att = f.currentRetryCount + (IF f.macState = "DATA_TRANSMITTING" THEN 1 ELSE 0)
          BY <3>2, <3>3, <3>6, <4>1, <4>2
        <4> HIDE DEF retries
        <4> DEFINE k == m.currentFrameSequenceNumber
                   queue == m.networkOutputQueue
        <4>4. /\ Len(off) = k + Len(queue) /\ Len(out) = k - 1
              /\ \A j \in 1 .. Len(queue) : queue[j] = [id |-> k + j, to |-> off[k + j]]
              /\ m.currentDataPacket = [id |-> k, to |-> off[k]]
          BY <3>2 DEF Sending
        <4>5. f.networkOutputQueue = queue /\ f.currentFrameSequenceNumber = k
          BY <4>2
        <4>6. f.currentDataPacket = [id |-> k, to |-> off[k]]
              /\ f.currentDataPacket # NoPacket /\ f.currentDataPacket.to # Broadcast
              /\ f.currentRetryCount <= RetryLimit
          BY <3>2, <3>4, <4>2, <4>4
        <4> HIDE DEF k, queue
        <4>7. Sending(f, off, out, att)
          BY <4>3, <4>4, <4>5, <4>6 DEF Sending
        <4> QED  BY <3>1, <4>7 DEF f
      <3> QED  BY <3>5, <3>6
    <2> QED  BY <2>1, <2>2, <2>3
  <1>4. TransmissionIsCompleteNotification(m) = NextTransmission(e)
    BY DEF TransmissionIsCompleteNotification
  <1>5. Sending(h, off, out2, att2) /\ ReceivesTheSame(e, h)
        /\ h.currentFrameSequenceNumber >= e.currentFrameSequenceNumber
    <2> HIDE DEF e, out2, att2
    <2>1. ~HasAckToSend(e)
      BY <1>1, <1>3 DEF HasAckToSend, ReceivesTheSame
    <2>2. CASE ~HasDataPacketToSend(e)
      <3>1. h = TransmitNextDataFrameIfNecessary(i)
        BY <1>4, <2>1, <2>2 DEF NextTransmission
      <3>2. /\ MacTyped(i) /\ i.macState = "IDLE" /\ i.currentDataPacket = NoPacket
            /\ ReceivesTheSame(e, i)
            /\ i.currentFrameSequenceNumber = e.currentFrameSequenceNumber
        BY <1>3, <2>2
           DEF MacTyped, MacShape, MacFields, MacStates, HasDataPacketToSend, ReceivesTheSame
      <3>3. Sending(i, off, out2, att2)
        BY <1>3
      <3> HIDE DEF i
      <3>4. /\ Sending(h, off, out2, att2) /\ ReceivesTheSame(i, h)
            /\ h.currentFrameSequenceNumber >= i.currentFrameSequenceNumber
        BY <1>2, <3>1, <3>2, <3>3, SendingNext
      <3> QED  BY <3>2, <3>4 DEF ReceivesTheSame
    <2>3. CASE HasDataPacketToSend(e)
      <3> DEFINE d == [e EXCEPT !.macState = "DATA"]
      <3>1. Sending(d, off, out2, att2)
        BY <1>3
      <3>2. /\ SendsTheSame(d, h) /\ ReceivesTheSame(e, h) /\ h.macState = "DATA"
            /\ d.macState = "DATA"
            /\ h.currentFrameSequenceNumber = e.currentFrameSequenceNumber
        BY <1>3, <1>4, <2>1, <2>3
           DEF NextTransmission, ScheduleDataFrameTransmissionTimerEvent, SendsTheSame,
               ReceivesTheSame, MacTyped, MacShape, MacFields
      <3> HIDE DEF d
      <3>3. h.currentFrameSequenceNumber >= e.currentFrameSequenceNumber
        BY <1>3, <3>2 DEF MacTyped
      <3> QED  BY <3>1, <3>2, <3>3, SendingSame
    <2> QED  BY <2>2, <2>3
  <1> QED  BY <1>3, <1>5 DEF ReceivesTheSame


\* A data frame is acknowledged, unless broadcast, and its number remembered.
LEMMA SendingReceivesData ==
    ASSUME NEW n \in Nodes, NEW m, MacInv(m), m.macState \in {"IDLE", "DATA"},
           NEW frame \in Frames, frame.type = "DATA",
           FrameWithThisAddressIsForThisNode(n, frame.to),
           NEW h, h = ReceiveFrameFromPhy(n, m, frame)
    PROVE  /\ SendsTheSame(m, h) /\ h.macState # "DATA_TRANSMITTING"
           /\ h.lastSequenceNumberMap = [m.lastSequenceNumberMap EXCEPT ![frame.from] = frame.seq]
           /\ frame.to = Broadcast => h.ackFrames = <<>>
           /\ frame.to # Broadcast => h.ackFrames = <<AckFrame(n, frame)>>
  <1> DEFINE seen == [m.lastSequenceNumberMap EXCEPT ![frame.from] = frame.seq]
             acks == Append(m.ackFrames, AckFrame(n, frame))
             b == [m EXCEPT !.macState = "ACK", !.ackFrames = acks]
             c == [b EXCEPT !.transmitCurrentDataAfterAckTransmission = TRUE]
             a == [c EXCEPT !.macState = "ACK", !.ackTimers = @ + 1]
             r == IF frame.to = Broadcast THEN m ELSE a
  <1>1. MacShape(m) /\ m.macState # "DATA_TRANSMITTING" /\ m.ackFrames = <<>>
    BY DEF MacInv, MacTyped
  <1>2. acks = <<AckFrame(n, frame)>>
    BY <1>1
  <1> HIDE DEF acks
  <1>3. /\ MacShape(b) /\ SendsTheSame(m, b) /\ b.macState = "ACK" /\ b.ackFrames = acks
        /\ b.lastSequenceNumberMap = m.lastSequenceNumberMap
    BY <1>1 DEF MacShape, MacFields, SendsTheSame
  <1>4. QueueAcknowledgement(n, m, frame) = a
    <2>1. TransmitDataOrWaitAckTransmissionEndIfAckState(b) = c
      BY <1>3 DEF TransmitDataOrWaitAckTransmissionEndIfAckState, TransmitsData
    <2> QED  BY <2>1 DEF QueueAcknowledgement, ScheduleAcknowledgement, acks
  <1> HIDE DEF b
  <1>5. /\ MacShape(a) /\ SendsTheSame(m, a) /\ a.macState = "ACK" /\ a.ackFrames = acks
        /\ a.lastSequenceNumberMap = m.lastSequenceNumberMap
    BY <1>3 DEF MacShape, MacFields, SendsTheSame
  <1> HIDE DEF a
  <1>6. /\ MacShape(r) /\ SendsTheSame(m, r) /\ r.macState # "DATA_TRANSMITTING"
        /\ r.lastSequenceNumberMap = m.lastSequenceNumberMap
        /\ r.ackFrames = IF frame.to = Broadcast THEN <<>> ELSE acks
    BY <1>1, <1>5 DEF SendsTheSame
  <1>7. h = [r EXCEPT !.lastSequenceNumberMap[frame.from] = frame.seq]
    BY <1>4 DEF ReceiveFrameFromPhy, ProcessReceivedDataFrame
  <1> HIDE DEF r
  <1>8. h = [r EXCEPT !.lastSequenceNumberMap = seen]
    BY <1>6, <1>7
  <1> HIDE DEF seen
  <1>9. SendsTheSame(r, h) /\ h.macState = r.macState /\ h.ackFrames = r.ackFrames
        /\ h.lastSequenceNumberMap = seen
    BY <1>6, <1>8 DEF MacShape, MacFields, SendsTheSame
  <1> QED  BY <1>2, <1>6, <1>9 DEF SendsTheSame, seen

\* The expected acknowledgement settles the current packet, if there is one.
SettledByAck(m, frame) == IsExpectedAck(m, frame) /\ HasDataPacketToSend(m)

LEMMA SendingReceivesAck ==
    ASSUME NEW n \in Nodes, NEW m, MacInv(m), m.macState \in {"IDLE", "DATA"},
           NEW frame \in Frames, frame.type = "ACK",
           FrameWithThisAddressIsForThisNode(n, frame.to),
           NEW off \in Seq(Addresses), NEW out \in Seq(Outcomes), NEW att \in Nat,
           Sending(m, off, out, att), NEW entry \in Outcomes,
           NEW h, h = ReceiveFrameFromPhy(n, m, frame)
    PROVE  /\ SettledByAck(m, frame) => Sending(h, off, Append(out, entry), 0)
           /\ ~SettledByAck(m, frame) => Sending(h, off, out, att)
           /\ ReceivesTheSame(m, h)
           /\ h.currentFrameSequenceNumber >= m.currentFrameSequenceNumber
  <1>1. h = ProcessReceivedAcknowledgementFrame(m, frame) /\ MacTyped(m)
    BY DEF ReceiveFrameFromPhy, MacInv
  <1>2. CASE ~IsExpectedAck(m, frame)
    BY <1>1, <1>2 DEF ProcessReceivedAcknowledgementFrame, SettledByAck, ReceivesTheSame, MacTyped
  <1> DEFINE e == EndCurrentDataTransmission(m)
             i == [e EXCEPT !.macState = "IDLE"]
  <1>3. /\ MacTyped(i) /\ ReceivesTheSame(m, i) /\ i.macState = "IDLE"
        /\ i.networkOutputQueue = m.networkOutputQueue
        /\ i.currentFrameSequenceNumber = m.currentFrameSequenceNumber
        /\ i.currentDataPacket = NoPacket /\ i.currentRetryCount = 0
    BY <1>1 DEF EndCurrentDataTransmission, MacTyped, MacShape, MacFields, MacStates,
       ReceivesTheSame
  <1>4. CASE IsExpectedAck(m, frame) /\ m.macState = "DATA"
    <2>1. h = TransmitNextDataFrameIfNecessary(i)
      BY <1>1, <1>4 DEF ProcessReceivedAcknowledgementFrame
    <2>2. m.currentDataPacket # NoPacket /\ SettledByAck(m, frame)
      BY <1>4 DEF MacInv, SettledByAck, HasDataPacketToSend
    <2> HIDE DEF i
    <2> DEFINE out2 == Append(out, entry)
    <2>3. Sending(i, off, out2, 0)
      BY <1>1, <1>3, <2>2, SendingEnd
    <2>4. out2 \in Seq(Outcomes)
      BY AppendProperties
    <2> HIDE DEF out2
    <2>5. /\ Sending(h, off, out2, 0) /\ ReceivesTheSame(i, h)
          /\ h.currentFrameSequenceNumber >= i.currentFrameSequenceNumber
      BY <1>3, <2>1, <2>3, <2>4, SendingNext
    <2> QED  BY <1>3, <2>2, <2>5 DEF ReceivesTheSame, out2
  <1>5. CASE IsExpectedAck(m, frame) /\ m.macState = "IDLE"
    <2>1. h = e /\ m.currentDataPacket = NoPacket
      BY <1>1, <1>5 DEF ProcessReceivedAcknowledgementFrame, MacInv
    <2>2. /\ MacTyped(e) /\ ReceivesTheSame(m, e)
          /\ e.networkOutputQueue = m.networkOutputQueue
          /\ e.currentFrameSequenceNumber = m.currentFrameSequenceNumber
          /\ e.currentDataPacket = NoPacket /\ e.currentRetryCount = 0
      BY <1>1 DEF EndCurrentDataTransmission, MacTyped, MacShape, MacFields, ReceivesTheSame
    <2> HIDE DEF e
    <2>3. Sending(e, off, out, att)
      BY <2>1, <2>2, MacAssumption DEF Sending
    <2>4. e.currentFrameSequenceNumber >= m.currentFrameSequenceNumber
      BY <1>1, <2>2 DEF MacTyped
    <2> QED  BY <2>1, <2>2, <2>3, <2>4 DEF SettledByAck, HasDataPacketToSend
  <1> QED  BY <1>2, <1>4, <1>5


-----------------------------------------------------------------------------
(* What only grows: packets started, offered and received. *)

LEMMA AppendExtends ==
    ASSUME NEW S, NEW seq \in Seq(S), NEW e \in S,
           NEW longer, longer = Append(seq, e)
    PROVE  /\ longer \in Seq(S) /\ Len(seq) \in Nat /\ Len(longer) = Len(seq) + 1
           /\ DOMAIN seq = 1 .. Len(seq) /\ DOMAIN longer = 1 .. Len(longer)
           /\ \A i \in 1 .. Len(seq) : i \in 1 .. Len(longer) /\ longer[i] = seq[i]
           /\ longer[Len(longer)] = e
           /\ \A i \in 1 .. Len(longer) : i \in 1 .. Len(seq) \/ i = Len(longer)
  BY AppendProperties, LenProperties

Grows ==
    /\ \A s \in Nodes : Started(s)' >= Started(s)
    /\ \A s \in Nodes : \A i \in 1 .. Len(offered[s]) :
           i \in 1 .. Len(offered'[s]) /\ offered'[s][i] = offered[s][i]
    /\ \A n \in Nodes : \A j \in DOMAIN received[n] :
           j \in DOMAIN received'[n] /\ received'[n][j] = received[n][j]

LEMMA StartedIsOffered ==
    ASSUME DeliveryInv, NEW s \in Nodes
    PROVE  /\ Started(s) \in Nat /\ Len(offered[s]) \in Nat /\ Started(s) <= Len(offered[s])
           /\ Len(outcome[s]) \in Nat /\ Len(outcome[s]) <= Started(s)
           /\ mac[s].currentDataPacket # NoPacket
                 => Len(outcome[s]) = Started(s) - 1 /\ Started(s) \in 1 .. Len(offered[s])
  <1>1. /\ MacTyped(mac[s]) /\ offered[s] \in Seq(Addresses) /\ outcome[s] \in Seq(Outcomes)
        /\ Sending(mac[s], offered[s], outcome[s], attempts[s])
    BY DEF DeliveryInv, Inv, MacInv, HistoryTypeOK
  <1>2. /\ Started(s) \in Nat /\ Len(offered[s]) \in Nat /\ Len(outcome[s]) \in Nat
        /\ Len(mac[s].networkOutputQueue) \in Nat
    BY <1>1, LenProperties DEF Started, MacTyped
  <1>3. /\ Len(offered[s]) = Started(s) + Len(mac[s].networkOutputQueue)
        /\ mac[s].currentDataPacket = NoPacket => Len(outcome[s]) = Started(s)
        /\ mac[s].currentDataPacket # NoPacket => Len(outcome[s]) = Started(s) - 1
    BY <1>1 DEF Sending, Started
  <1> QED  BY <1>2, <1>3

LEMMA GenuineGrows ==
    ASSUME DeliveryInv, Inv', Grows, NEW s \in Nodes, NEW frame, Genuine(s, frame)
    PROVE  Genuine(s, frame)'
  <1>1. \A t \in Nodes : Started(t)' \in Nat
    BY DEF Inv, MacInv, MacTyped, Started
  <1>2. \A t \in Nodes : \A i \in 1 .. Started(t) :
            i \in 1 .. Started(t)' /\ offered'[t][i] = offered[t][i]
    <2> SUFFICES ASSUME NEW t \in Nodes, NEW i \in 1 .. Started(t)
                 PROVE  i \in 1 .. Started(t)' /\ offered'[t][i] = offered[t][i]
      OBVIOUS
    <2>1. /\ Started(t) \in Nat /\ Len(offered[t]) \in Nat /\ Started(t) <= Len(offered[t])
          /\ Started(t)' \in Nat /\ Started(t)' >= Started(t)
      BY <1>1, StartedIsOffered DEF Grows
    <2>2. i \in 1 .. Len(offered[t]) /\ i \in 1 .. Started(t)'
      BY <2>1
    <2> QED  BY <2>2 DEF Grows
  <1>3. \A t \in Nodes : \A id : HasReceived(s, t, id) => HasReceived(s, t, id)'
    BY DEF HasReceived, Grows
  <1> QED  BY <1>2, <1>3 DEF Genuine

\* Frames are genuine after a step in which new ones are.
LEMMA GenuineFramesStep ==
    ASSUME DeliveryInv, Inv', Grows,
           \A s \in Nodes : currentPropagatedFrame'[s] = currentPropagatedFrame[s]
                               \/ Genuine(s, currentPropagatedFrame[s])',
           \A s \in Nodes : \/ frameOnAir'[s] = frameOnAir[s]
                            \/ frameOnAir'[s] = currentPropagatedFrame[s],
           \A s \in Nodes : \/ mac'[s].ackFrames = mac[s].ackFrames
                            \/ \A i \in 1 .. Len(mac'[s].ackFrames) :
                                  /\ mac'[s].ackFrames[i].type = "ACK"
                                  /\ Genuine(s, mac[s].ackFrames[i])'
    PROVE  GenuineFrames'
  <1> SUFFICES ASSUME NEW s \in Nodes
               PROVE  (/\ currentPropagatedFrame[s] # NoFrame
                             => Genuine(s, currentPropagatedFrame[s])
                       /\ frameOnAir[s] # NoFrame => Genuine(s, frameOnAir[s])
                       /\ \A i \in 1 .. Len(mac[s].ackFrames) :
                             mac[s].ackFrames[i].type = "ACK"
                                /\ Genuine(s, mac[s].ackFrames[i]))'
    BY DEF GenuineFrames
  <1>1. \A frame : Genuine(s, frame) => Genuine(s, frame)'
    BY GenuineGrows
  <1>2. /\ currentPropagatedFrame[s] # NoFrame => Genuine(s, currentPropagatedFrame[s])
        /\ frameOnAir[s] # NoFrame => Genuine(s, frameOnAir[s])
        /\ \A i \in 1 .. Len(mac[s].ackFrames) :
              mac[s].ackFrames[i].type = "ACK" /\ Genuine(s, mac[s].ackFrames[i])
    BY DEF DeliveryInv, GenuineFrames
  <1> HIDE DEF DeliveryInv, Inv
  <1>3. (currentPropagatedFrame[s] # NoFrame => Genuine(s, currentPropagatedFrame[s]))'
    <2>1. CASE currentPropagatedFrame'[s] = currentPropagatedFrame[s]
      <3>1. PICK f : f = currentPropagatedFrame[s]
        OBVIOUS
      <3>2. f # NoFrame => Genuine(s, f)
        BY <1>2, <3>1
      <3>3. f # NoFrame => Genuine(s, f)'
        BY <1>1, <3>2
      <3>4. currentPropagatedFrame'[s] = f
        BY <2>1, <3>1
      <3> QED  BY <3>3, <3>4 DEF Genuine
    <2> QED  BY <2>1
  <1>4. (frameOnAir[s] # NoFrame => Genuine(s, frameOnAir[s]))'
    <2>1. PICK f : f = frameOnAir'[s]
      OBVIOUS
    <2>2. f # NoFrame => Genuine(s, f)
      BY <1>2, <2>1
    <2>3. f # NoFrame => Genuine(s, f)'
      BY <1>1, <2>2
    <2> QED  BY <2>1, <2>3 DEF Genuine
  <1>5. (\A i \in 1 .. Len(mac[s].ackFrames) :
            mac[s].ackFrames[i].type = "ACK" /\ Genuine(s, mac[s].ackFrames[i]))'
    <2>1. CASE mac'[s].ackFrames = mac[s].ackFrames
      <3>1. PICK acks : acks = mac[s].ackFrames
        OBVIOUS
      <3>2. \A i \in 1 .. Len(acks) : acks[i].type = "ACK" /\ Genuine(s, acks[i])
        BY <1>2, <3>1
      <3>3. \A i \in 1 .. Len(acks) : acks[i].type = "ACK" /\ Genuine(s, acks[i])'
        BY <1>1, <3>2
      <3>4. mac'[s].ackFrames = acks
        BY <2>1, <3>1
      <3> QED  BY <3>3, <3>4 DEF Genuine
    <2> QED  BY <2>1
  <1> QED  BY <1>3, <1>4, <1>5

\* What is remembered stays true while nothing is received and only frames of
\* packets started last go on the air.
LEMMA RemembersStep ==
    ASSUME DeliveryInv, Inv', Grows, UNCHANGED received,
           \A n \in Nodes : mac'[n].lastSequenceNumberMap = mac[n].lastSequenceNumberMap,
           \A s \in Nodes : \/ frameOnAir'[s] = frameOnAir[s]
                            \/ frameOnAir'[s].type = "DATA" => frameOnAir'[s].id = Started(s)
    PROVE  RemembersLatest' /\ AtMostOnceInOrder'
  <1>1. \A s \in Nodes : Started(s) \in Nat /\ Started(s)' \in Nat /\ Started(s)' >= Started(s)
    BY StartedIsOffered DEF Inv, MacInv, MacTyped, Started, Grows
  <1>2. \A n, s \in Nodes : mac[n].lastSequenceNumberMap[s] \in Nat
    BY DEF DeliveryInv, Inv, MacInv, MacTyped
  <1>3. RemembersLatest /\ AtMostOnceInOrder
    BY DEF DeliveryInv
  <1>4. ASSUME NEW n \in Nodes, NEW s \in Nodes
        PROVE  Remembers(n, s)'
    <2>1. Remembers(n, s)
      BY <1>3 DEF RemembersLatest
    <2>2. (mac[n].lastSequenceNumberMap[s] <= Started(s))'
      <3>1. mac[n].lastSequenceNumberMap[s] <= Started(s)
        BY <2>1 DEF Remembers
      <3> QED  BY <1>1, <1>2, <3>1
    <2>3. (mac[n].lastSequenceNumberMap[s] # 0
              => HasReceived(n, s, mac[n].lastSequenceNumberMap[s]))'
      BY <2>1 DEF Remembers, HasReceived
    <2>4. (frameOnAir[s] # NoFrame /\ frameOnAir[s].type = "DATA"
              => mac[n].lastSequenceNumberMap[s] <= frameOnAir[s].id)'
      BY <2>1 DEF Remembers
    <2> QED  BY <2>2, <2>3, <2>4 DEF Remembers
  <1>5. \A n \in Nodes : \A j \in DOMAIN received'[n] :
            received'[n][j].id <= mac'[n].lastSequenceNumberMap[received'[n][j].from]
    BY <1>3 DEF RemembersLatest
  <1> QED  BY <1>3, <1>4, <1>5 DEF RemembersLatest, AtMostOnceInOrder


\* What is said of settled packets stays true.
LEMMA OutcomeKept ==
    ASSUME DeliveryInv, Inv', Grows, UNCHANGED outcome,
           \A n \in Nodes : attempts'[n] <= RetryLimit + 1
    PROVE  AckedWasReceived' /\ AttemptsAsConfigured'
  <1>1. AckedWasReceived /\ AttemptsAsConfigured
    BY DEF DeliveryInv
  <1>2. AttemptsAsConfigured'
    BY <1>1 DEF AttemptsAsConfigured
  <1>3. \A n \in Nodes : \A k \in DOMAIN outcome[n] : offered'[n][k] = offered[n][k]
    <2> SUFFICES ASSUME NEW n \in Nodes, NEW k \in DOMAIN outcome[n]
                 PROVE  offered'[n][k] = offered[n][k]
      OBVIOUS
    <2>1. outcome[n] \in Seq(Outcomes)
      BY DEF DeliveryInv, Inv, HistoryTypeOK
    <2>2. k \in 1 .. Len(outcome[n])
      BY <2>1
    <2>3. k \in 1 .. Len(offered[n])
      BY <2>2, StartedIsOffered
    <2> QED  BY <2>3 DEF Grows
  <1>4. AckedWasReceived'
    <2> SUFFICES ASSUME NEW n \in Nodes, NEW k \in DOMAIN outcome[n], outcome[n][k].how = "acked"
                 PROVE  \E to \in Nodes \cap {offered'[n][k]} : \E j \in DOMAIN received'[to] :
                            received'[to][j] = [from |-> n, id |-> k]
      BY DEF AckedWasReceived
    <2>1. PICK to \in Nodes \cap {offered[n][k]} : \E j \in DOMAIN received[to] :
              received[to][j] = [from |-> n, id |-> k]
      BY <1>1 DEF AckedWasReceived
    <2>2. PICK j \in DOMAIN received[to] : received[to][j] = [from |-> n, id |-> k]
      BY <2>1
    <2>3. j \in DOMAIN received'[to] /\ received'[to][j] = [from |-> n, id |-> k]
      BY <2>1, <2>2 DEF Grows
    <2> QED  BY <1>3, <2>1, <2>3
  <1> QED  BY <1>2, <1>4

\* The packet started last is settled.
LEMMA OutcomeSettles ==
    ASSUME DeliveryInv, Inv', Grows, UNCHANGED offered,
           NEW n \in Nodes, NEW how \in {"sent", "acked", "dropped"}, Settle(n, how),
           mac[n].currentDataPacket # NoPacket,
           how = "acked" => \E to \in Nodes \cap {offered[n][Started(n)]} :
                                HasReceived(to, n, Started(n)),
           how = "dropped" => attempts[n] = RetryLimit + 1,
           how = "sent" => attempts[n] = 1
    PROVE  AckedWasReceived' /\ AttemptsAsConfigured'
  <1> DEFINE entry == [how |-> how, attempts |-> attempts[n]]
  <1>1. AckedWasReceived /\ AttemptsAsConfigured
    BY DEF DeliveryInv
  <1>2. /\ outcome \in [Nodes -> Seq(Outcomes)] /\ attempts \in [Nodes -> Nat]
        /\ entry \in Outcomes
    BY DEF DeliveryInv, Inv, HistoryTypeOK, Outcomes
  <1>3. /\ outcome' = [outcome EXCEPT ![n] = Append(@, entry)]
        /\ attempts' = [attempts EXCEPT ![n] = 0]
    BY DEF Settle
  <1>4. entry.how = how /\ entry.attempts = attempts[n]
    OBVIOUS
  <1> HIDE DEF entry
  <1>5. /\ DOMAIN outcome[n] = 1 .. Len(outcome[n])
        /\ DOMAIN outcome'[n] = 1 .. Len(outcome'[n])
        /\ Len(outcome[n]) \in Nat /\ Len(outcome'[n]) = Len(outcome[n]) + 1
        /\ \A k \in DOMAIN outcome'[n] :
              \/ k \in DOMAIN outcome[n] /\ outcome'[n][k] = outcome[n][k]
              \/ k = Len(outcome[n]) + 1 /\ outcome'[n][k] = entry
    <2>1. outcome'[n] = Append(outcome[n], entry) /\ outcome[n] \in Seq(Outcomes)
      BY <1>2, <1>3
    <2> QED  BY <1>2, <2>1, AppendExtends
  <1>6. \A k \in Nodes \ {n} : outcome'[k] = outcome[k] /\ attempts'[k] = attempts[k]
    BY <1>2, <1>3
  <1>7. Len(outcome[n]) + 1 = Started(n)
    BY StartedIsOffered
  <1>8. AttemptsAsConfigured'
    <2>1. \A s \in Nodes : attempts'[s] <= RetryLimit + 1
      BY <1>1, <1>2, <1>3, MacAssumption DEF AttemptsAsConfigured
    <2>2. ASSUME NEW s \in Nodes, NEW k \in DOMAIN outcome'[s]
          PROVE  /\ outcome'[s][k].how = "dropped" => outcome'[s][k].attempts = RetryLimit + 1
                 /\ outcome'[s][k].how = "sent" => outcome'[s][k].attempts = 1
      <3>1. CASE s = n /\ outcome'[n][k] = entry
        BY <1>4, <3>1
      <3>2. CASE k \in DOMAIN outcome[s] /\ outcome'[s][k] = outcome[s][k]
        BY <1>1, <3>2 DEF AttemptsAsConfigured
      <3> QED  BY <1>5, <1>6, <2>2, <3>1, <3>2
    <2> QED  BY <2>1, <2>2 DEF AttemptsAsConfigured
  <1>9. AckedWasReceived'
    <2> SUFFICES ASSUME NEW s \in Nodes, NEW k \in DOMAIN outcome'[s],
                        outcome'[s][k].how = "acked"
                 PROVE  \E to \in Nodes \cap {offered[s][k]} : \E j \in DOMAIN received'[to] :
                            received'[to][j] = [from |-> s, id |-> k]
      BY DEF AckedWasReceived
    <2>1. \E to \in Nodes \cap {offered[s][k]} : \E j \in DOMAIN received[to] :
              received[to][j] = [from |-> s, id |-> k]
      <3>1. CASE s = n /\ k = Len(outcome[n]) + 1 /\ outcome'[n][k] = entry
        BY <1>4, <1>7, <3>1 DEF HasReceived
      <3>2. CASE k \in DOMAIN outcome[s] /\ outcome'[s][k] = outcome[s][k]
        BY <1>1, <3>2 DEF AckedWasReceived
      <3> QED  BY <1>5, <1>6, <3>1, <3>2
    <2>2. PICK to \in Nodes \cap {offered[s][k]} : \E j \in DOMAIN received[to] :
              received[to][j] = [from |-> s, id |-> k]
      BY <2>1
    <2>3. PICK j \in DOMAIN received[to] : received[to][j] = [from |-> s, id |-> k]
      BY <2>2
    <2>4. j \in DOMAIN received'[to] /\ received'[to][j] = [from |-> s, id |-> k]
      BY <2>2, <2>3 DEF Grows
    <2> QED  BY <2>2, <2>4
  <1> QED  BY <1>8, <1>9


-----------------------------------------------------------------------------
(* The events. *)

LEMMA MacGrows ==
    ASSUME DeliveryInv, NEW n \in Nodes, NEW h, mac' = [mac EXCEPT ![n] = h],
           h.currentFrameSequenceNumber >= mac[n].currentFrameSequenceNumber,
           UNCHANGED <<offered, received>>
    PROVE  Grows
  <1>1. mac \in [Nodes -> MacRecords] /\ \A s \in Nodes : Started(s) \in Nat
    BY StartedIsOffered DEF DeliveryInv, Inv
  <1>2. \A s \in Nodes : Started(s)' >= Started(s)
    BY <1>1 DEF Started
  <1> QED  BY <1>2 DEF Grows

\* Events in which no MAC, no transmitter and no frame changes.
LEMMA OtherEventsDelivery ==
    ASSUME DeliveryInv, Inv', NoEcho',
           UNCHANGED <<mac, phyTxState, currentPropagatedFrame, frameOnAir, attempts, linkVars>>
    PROVE  DeliveryInv'
  <1>1. UNCHANGED <<offered, outcome, received>>
    BY DEF linkVars
  <1>2. Grows
    <2>1. \A s \in Nodes : Started(s) \in Nat
      BY StartedIsOffered
    <2> QED  BY <1>1, <2>1 DEF Grows, Started
  <1>3. GenuineFrames'
    BY <1>2, GenuineFramesStep
  <1>4. RemembersLatest' /\ AtMostOnceInOrder'
    BY <1>1, <1>2, RemembersStep
  <1>5. AckedWasReceived' /\ AttemptsAsConfigured'
    BY <1>1, <1>2, OutcomeKept DEF DeliveryInv, AttemptsAsConfigured
  <1>6. LatestGoesOut' /\ \A k \in Nodes : Sending(mac[k], offered[k], outcome[k], attempts[k])'
    BY <1>1 DEF DeliveryInv, LatestGoesOut, Sending, Started
  <1> QED  BY <1>3, <1>4, <1>5, <1>6 DEF DeliveryInv

LEMMA InsertPacketDelivery ==
    ASSUME DeliveryInv, NEW n \in Nodes, InsertPacket(n)
    PROVE  DeliveryInv'
  <1>1. Inv /\ Inv'
    BY InsertPacketInv DEF DeliveryInv
  <1>2. PICK to \in Destinations[n] :
          /\ offered' = [offered EXCEPT ![n] = Append(@, to)]
          /\ mac' = [mac EXCEPT ![n] =
                        QueuePacket(@, [id |-> Len(offered[n]) + 1, to |-> to])]
    BY DEF InsertPacket
  <1>3. UNCHANGED <<phyVars, slotBegins, attempts, outcome, received>>
    BY DEF InsertPacket
  <1> DEFINE packet == [id |-> Len(offered[n]) + 1, to |-> to]
             h == QueuePacket(mac[n], packet)
             longer == Append(offered[n], to)
  <1>4. /\ MacInv(mac[n]) /\ to \in Addresses /\ offered \in [Nodes -> Seq(Addresses)]
        /\ outcome[n] \in Seq(Outcomes) /\ attempts[n] \in Nat
        /\ mac \in [Nodes -> MacRecords]
        /\ Sending(mac[n], offered[n], outcome[n], attempts[n])
    BY AlohaAssumption DEF DeliveryInv, Inv, HistoryTypeOK
  <1>5. mac' = [mac EXCEPT ![n] = h] /\ offered' = [offered EXCEPT ![n] = longer]
    BY <1>2
  <1>6. /\ Sending(h, longer, outcome[n], attempts[n]) /\ ReceivesTheSame(mac[n], h)
        /\ h.currentFrameSequenceNumber >= mac[n].currentFrameSequenceNumber
        /\ mac[n].macState # "IDLE"
              => h.currentFrameSequenceNumber = mac[n].currentFrameSequenceNumber
    BY <1>4, SendingQueue
  <1>7. \A i \in 1 .. Len(offered[n]) : i \in 1 .. Len(longer) /\ longer[i] = offered[n][i]
    BY <1>4, AppendExtends
  <1> HIDE DEF h, longer
  <1>8. /\ mac'[n] = h /\ offered'[n] = longer
        /\ \A k \in Nodes \ {n} : mac'[k] = mac[k] /\ offered'[k] = offered[k]
    BY <1>4, <1>5
  <1>9. Grows
    <2>1. \A s \in Nodes : Started(s) \in Nat
      BY StartedIsOffered
    <2>2. \A s \in Nodes : Started(s)' >= Started(s)
      BY <1>6, <1>8, <2>1 DEF Started
    <2> QED  BY <1>3, <1>7, <1>8, <2>2 DEF Grows
  <1>10. \A k \in Nodes : /\ mac'[k].ackFrames = mac[k].ackFrames
                          /\ mac'[k].lastSequenceNumberMap = mac[k].lastSequenceNumberMap
    BY <1>6, <1>8 DEF ReceivesTheSame
  <1>11. GenuineFrames'
    BY <1>1, <1>3, <1>9, <1>10, GenuineFramesStep DEF phyVars
  <1>12. RemembersLatest' /\ AtMostOnceInOrder'
    BY <1>1, <1>3, <1>9, <1>10, RemembersStep DEF phyVars
  <1>13. AckedWasReceived' /\ AttemptsAsConfigured'
    BY <1>1, <1>3, <1>9, OutcomeKept DEF DeliveryInv, AttemptsAsConfigured
  <1>14. LatestGoesOut'
    <2>1. phyTxState[n] = "TX_STARTING" => mac[n].macState # "IDLE"
      BY <1>1 DEF Inv, TransmittingStates
    <2> QED  BY <1>3, <1>6, <1>8, <2>1 DEF DeliveryInv, LatestGoesOut, Started, phyVars
  <1>15. ASSUME NEW k \in Nodes
         PROVE  Sending(mac[k], offered[k], outcome[k], attempts[k])'
    <2>1. UNCHANGED <<attempts, outcome>>
      BY <1>3
    <2>2. CASE k = n
      BY <1>6, <1>8, <2>1, <2>2
    <2>3. CASE k # n
      BY <1>8, <2>1, <2>3 DEF DeliveryInv
    <2> QED  BY <2>2, <2>3
  <1>16. NoEcho'
    BY <1>3 DEF DeliveryInv, NoEcho, phyVars
  <1> QED  BY <1>1, <1>11, <1>12, <1>13, <1>14, <1>15, <1>16 DEF DeliveryInv

LEMMA AirborneDelivery ==
    ASSUME DeliveryInv, NEW n \in Nodes, Airborne(n)
    PROVE  DeliveryInv'
  <1>1. Inv /\ Inv'
    BY AirborneInv DEF DeliveryInv
  <1>2. /\ StartTransmission(n)
        /\ UNCHANGED <<mac, slotBegins, attempts, offered, outcome, received>>
    BY DEF Airborne, linkVars
  <1>3. /\ phyTxState[n] = "TX_STARTING"
        /\ frameOnAir'[n] = currentPropagatedFrame[n]
        /\ \A k \in Nodes \ {n} : frameOnAir'[k] = frameOnAir[k]
        /\ \A k \in Nodes : phyTxState'[k] = "TX_STARTING" => phyTxState[k] = "TX_STARTING"
        /\ UNCHANGED currentPropagatedFrame
    BY <1>1, <1>2 DEF StartTransmission, Inv, PhyInv, PhyTypeOK
  <1>4. Grows
    <2>1. \A s \in Nodes : Started(s) \in Nat
      BY StartedIsOffered
    <2> QED  BY <1>2, <2>1 DEF Grows, Started
  <1>5. GenuineFrames'
    BY <1>1, <1>2, <1>3, <1>4, GenuineFramesStep
  <1>6. RemembersLatest' /\ AtMostOnceInOrder'
    <2>1. frameOnAir'[n].type = "DATA" => frameOnAir'[n].id = Started(n)
      BY <1>3 DEF DeliveryInv, LatestGoesOut
    <2> QED  BY <1>1, <1>2, <1>3, <1>4, <2>1, RemembersStep
  <1>7. AckedWasReceived' /\ AttemptsAsConfigured'
    BY <1>1, <1>2, <1>4, OutcomeKept DEF DeliveryInv, AttemptsAsConfigured
  <1>8. LatestGoesOut'
    BY <1>2, <1>3 DEF DeliveryInv, LatestGoesOut, Started
  <1>9. \A k \in Nodes : Sending(mac[k], offered[k], outcome[k], attempts[k])'
    BY <1>2 DEF DeliveryInv, Sending
  <1>10. NoEcho'
    BY <1>1, <1>2, PhyAssumption DEF DeliveryInv, NoEcho, StartTransmission, Inv, PhyInv, PhyTypeOK
  <1> QED  BY <1>1, <1>5, <1>6, <1>7, <1>8, <1>9, <1>10 DEF DeliveryInv


\* A transmission is attempted at most as often as configured.
LEMMA AttemptsBounded ==
    ASSUME NEW m, MacInv(m), NEW off, NEW out, NEW att, Sending(m, off, out, att)
    PROVE  att <= RetryLimit + 1
  <1>1. m.currentRetryCount \in Nat /\ m.currentRetryCount <= RetryLimit
    BY DEF MacInv, MacTyped, Sending
  <1>2. \/ att = 0
        \/ att = m.currentRetryCount + (IF m.macState = "DATA_TRANSMITTING" THEN 1 ELSE 0)
    BY DEF Sending
  <1> QED  BY <1>1, <1>2, MacAssumption

LEMMA DataTimerDelivery ==
    ASSUME DeliveryInv, NEW n \in Nodes, DataTimerEvent(n)
    PROVE  DeliveryInv'
  <1> DEFINE m == mac[n]
             h == ProcessDataFrameTransmissionTimerEvent(m)
             att == IF TransmitsData(m) THEN attempts[n] + 1 ELSE attempts[n]
  <1>1. Inv /\ Inv'
    BY DataTimerEventInv DEF DeliveryInv
  <1>2. /\ mac[n].dataTimer /\ mac' = [mac EXCEPT ![n] = h]
        /\ UNCHANGED <<offered, outcome, received>>
    BY DEF DataTimerEvent, linkVars
  <1>3. /\ MacInv(m) /\ mac \in [Nodes -> MacRecords] /\ attempts \in [Nodes -> Nat]
        /\ Sending(m, offered[n], outcome[n], attempts[n])
    BY DEF DeliveryInv, Inv, HistoryTypeOK
  <1>4. /\ Sending(h, offered[n], outcome[n], att)
        /\ SendsTheSame(m, h) /\ ReceivesTheSame(m, h)
    BY <1>2, <1>3, SendingDataTimer
  <1>5. /\ TransmitsData(m) => TransmitAFrame(n, DataFrame(n, m))
                               /\ attempts' = [attempts EXCEPT ![n] = @ + 1]
        /\ ~TransmitsData(m) => UNCHANGED <<phyVars, attempts>>
    BY DEF DataTimerEvent
  <1>6. attempts'[n] = att /\ \A k \in Nodes \ {n} : attempts'[k] = attempts[k]
    BY <1>3, <1>5
  <1>7. UNCHANGED <<frameOnAir, signal>>
    BY <1>5 DEF TransmitAFrame, phyVars
  <1> HIDE DEF h, att
  <1>8. mac'[n] = h /\ \A k \in Nodes \ {n} : mac'[k] = mac[k]
    BY <1>2, <1>3
  <1>9. \A k \in Nodes : /\ Started(k)' = Started(k) /\ Started(k) \in Nat
                         /\ mac'[k].ackFrames = mac[k].ackFrames
                         /\ mac'[k].lastSequenceNumberMap = mac[k].lastSequenceNumberMap
    BY <1>4, <1>8, StartedIsOffered DEF Started, SendsTheSame, ReceivesTheSame
  <1>10. Grows
    BY <1>2, <1>9 DEF Grows
  <1>11. /\ \A k \in Nodes \ {n} : /\ currentPropagatedFrame'[k] = currentPropagatedFrame[k]
                                   /\ phyTxState'[k] = phyTxState[k]
         /\ ~TransmitsData(m) => UNCHANGED <<currentPropagatedFrame, phyTxState>>
         /\ TransmitsData(m) => currentPropagatedFrame'[n] = DataFrame(n, m)
    BY <1>1, <1>5 DEF TransmitAFrame, phyVars, Inv, PhyInv, PhyTypeOK
  <1>12. TransmitsData(m) => /\ Started(n) \in 1 .. Started(n)
                             /\ m.currentDataPacket = [id |-> Started(n),
                                                       to |-> offered[n][Started(n)]]
    <2>1. TransmitsData(m) => m.currentDataPacket # NoPacket
      BY <1>3 DEF TransmitsData, MacInv
    <2> HIDE DEF m
    <2> QED  BY <1>3, <1>9, <2>1, StartedIsOffered DEF Sending, Started, m
  <1>13. GenuineFrames'
    <2>1. TransmitsData(m) => Genuine(n, currentPropagatedFrame[n])'
      <3>1. TransmitsData(m) => /\ currentPropagatedFrame'[n] = DataFrame(n, m)
                                /\ m.currentDataPacket.id = Started(n)
                                /\ m.currentDataPacket.to = offered[n][Started(n)]
        BY <1>11, <1>12
      <3> QED  BY <1>2, <1>9, <1>12, <3>1 DEF Genuine, DataFrame, Started
    <2> QED  BY <1>1, <1>7, <1>9, <1>10, <1>11, <2>1, GenuineFramesStep
  <1>14. RemembersLatest' /\ AtMostOnceInOrder'
    BY <1>1, <1>2, <1>7, <1>9, <1>10, RemembersStep
  <1>15. ASSUME NEW k \in Nodes
         PROVE  Sending(mac[k], offered[k], outcome[k], attempts[k])'
    <2>1. CASE k = n
      BY <1>2, <1>4, <1>6, <1>8, <2>1
    <2>2. CASE k # n
      BY <1>2, <1>6, <1>8, <2>2 DEF DeliveryInv
    <2> QED  BY <2>1, <2>2
  <1>16. AckedWasReceived' /\ AttemptsAsConfigured'
    <2>1. ASSUME NEW k \in Nodes
          PROVE  attempts'[k] <= RetryLimit + 1
      <3>1. MacInv(mac'[k])
        BY <1>1 DEF Inv
      <3> QED  BY <1>15, <3>1, AttemptsBounded
    <2> QED  BY <1>1, <1>2, <1>10, <2>1, OutcomeKept
  <1>17. LatestGoesOut'
    BY <1>9, <1>11, <1>12 DEF DeliveryInv, LatestGoesOut, DataFrame
  <1>18. NoEcho'
    BY <1>7 DEF DeliveryInv, NoEcho
  <1> QED  BY <1>1, <1>13, <1>14, <1>15, <1>16, <1>17, <1>18 DEF DeliveryInv

LEMMA AckTimerDelivery ==
    ASSUME DeliveryInv, NEW n \in Nodes, AckTimerEvent(n)
    PROVE  DeliveryInv'
  <1> DEFINE m == mac[n]
             h == TransmitAcknowledgement(m)
             ack == Head(m.ackFrames)
  <1>1. Inv /\ Inv'
    BY AckTimerEventInv DEF DeliveryInv
  <1>2. /\ m.ackTimers > 0 /\ mac' = [mac EXCEPT ![n] = h] /\ TransmitAFrame(n, ack)
        /\ UNCHANGED <<attempts, offered, outcome, received>>
    BY DEF AckTimerEvent, linkVars
  <1>3. /\ MacInv(m) /\ mac \in [Nodes -> MacRecords]
        /\ Sending(m, offered[n], outcome[n], attempts[n])
    BY DEF DeliveryInv, Inv
  <1>4. /\ Sending(h, offered[n], outcome[n], attempts[n])
        /\ SendsTheSame(m, h) /\ h.lastSequenceNumberMap = m.lastSequenceNumberMap
        /\ h.ackFrames = <<>>
    BY <1>2, <1>3, SendingAckTimer
  <1>5. ack.type = "ACK" /\ Genuine(n, ack)
    <2>1. m.ackFrames \in Seq(Frames) /\ Len(m.ackFrames) = 1
      BY <1>2, <1>3, AckTimerInv DEF MacInv, MacTyped
    <2>2. ack = m.ackFrames[1] /\ 1 \in 1 .. Len(m.ackFrames)
      BY <2>1
    <2> QED  BY <2>2 DEF DeliveryInv, GenuineFrames
  <1> HIDE DEF h, ack
  <1>6. mac'[n] = h /\ \A k \in Nodes \ {n} : mac'[k] = mac[k]
    BY <1>2, <1>3
  <1>7. /\ \A k \in Nodes \ {n} : /\ currentPropagatedFrame'[k] = currentPropagatedFrame[k]
                                  /\ phyTxState'[k] = phyTxState[k]
        /\ currentPropagatedFrame'[n] = ack
        /\ UNCHANGED <<frameOnAir, signal>>
    BY <1>1, <1>2 DEF TransmitAFrame, Inv, PhyInv, PhyTypeOK
  <1>8. \A k \in Nodes : /\ Started(k)' = Started(k) /\ Started(k) \in Nat
                         /\ mac'[k].ackFrames = mac[k].ackFrames \/ mac'[k].ackFrames = <<>>
                         /\ mac'[k].lastSequenceNumberMap = mac[k].lastSequenceNumberMap
    BY <1>4, <1>6, StartedIsOffered DEF Started, SendsTheSame
  <1>9. Grows
    BY <1>2, <1>8 DEF Grows
  <1>10. GenuineFrames'
    <2>1. Genuine(n, currentPropagatedFrame[n])'
      <3>1. PICK f : f = ack
        OBVIOUS
      <3>2. Genuine(n, f)'
        BY <1>1, <1>5, <1>9, <3>1, GenuineGrows
      <3> QED  BY <1>7, <3>1, <3>2 DEF Genuine
    <2>2. \A k \in Nodes : \/ mac'[k].ackFrames = mac[k].ackFrames
                           \/ \A i \in 1 .. Len(mac'[k].ackFrames) :
                                 /\ mac'[k].ackFrames[i].type = "ACK"
                                 /\ Genuine(k, mac[k].ackFrames[i])'
      BY <1>8
    <2> QED  BY <1>1, <1>7, <1>9, <2>1, <2>2, GenuineFramesStep
  <1>11. RemembersLatest' /\ AtMostOnceInOrder'
    BY <1>1, <1>2, <1>7, <1>8, <1>9, RemembersStep
  <1>12. AckedWasReceived' /\ AttemptsAsConfigured'
    BY <1>1, <1>2, <1>9, OutcomeKept DEF DeliveryInv, AttemptsAsConfigured
  <1>13. ASSUME NEW k \in Nodes
         PROVE  Sending(mac[k], offered[k], outcome[k], attempts[k])'
    <2>1. CASE k = n
      BY <1>2, <1>4, <1>6, <2>1
    <2>2. CASE k # n
      BY <1>2, <1>6, <2>2 DEF DeliveryInv
    <2> QED  BY <2>1, <2>2
  <1>14. LatestGoesOut'
    BY <1>5, <1>7, <1>8 DEF DeliveryInv, LatestGoesOut
  <1>15. NoEcho'
    BY <1>7 DEF DeliveryInv, NoEcho
  <1> QED  BY <1>1, <1>10, <1>11, <1>12, <1>13, <1>14, <1>15 DEF DeliveryInv


LEMMA TransmissionEndDelivery ==
    ASSUME DeliveryInv, NEW n \in Nodes, TransmissionEnd(n)
    PROVE  DeliveryInv'
  <1> DEFINE m == mac[n]
             h == TransmissionIsCompleteNotification(m)
             how == IF m.currentDataPacket.to = Broadcast THEN "sent" ELSE "dropped"
             entry == [how |-> how, attempts |-> attempts[n]]
  <1>1. Inv /\ Inv'
    BY TransmissionEndInv DEF DeliveryInv
  <1>2. /\ EndCurrentTransmission(n) /\ mac' = [mac EXCEPT ![n] = h]
        /\ SettlesAtEnd(m) => Settle(n, how)
        /\ ~SettlesAtEnd(m) => UNCHANGED <<outcome, attempts>>
        /\ UNCHANGED <<offered, received>>
    BY DEF TransmissionEnd, SettlesAtEnd
  <1>3. /\ MacInv(m) /\ mac \in [Nodes -> MacRecords] /\ m.macState \in TransmittingStates
        /\ Sending(m, offered[n], outcome[n], attempts[n])
        /\ offered[n] \in Seq(Addresses) /\ outcome \in [Nodes -> Seq(Outcomes)]
        /\ attempts \in [Nodes -> Nat]
    BY <1>2 DEF DeliveryInv, Inv, HistoryTypeOK, EndCurrentTransmission
  <1>4. entry \in Outcomes
    BY <1>3 DEF Outcomes
  <1>5. /\ SettlesAtEnd(m) => Sending(h, offered[n], Append(outcome[n], entry), 0)
        /\ ~SettlesAtEnd(m) => Sending(h, offered[n], outcome[n], attempts[n])
        /\ ReceivesTheSame(m, h)
        /\ h.currentFrameSequenceNumber >= m.currentFrameSequenceNumber
    BY <1>3, <1>4, SendingComplete
  <1>6. SettlesAtEnd(m) =>
           /\ outcome' = [outcome EXCEPT ![n] = Append(@, entry)]
           /\ attempts' = [attempts EXCEPT ![n] = 0]
    BY <1>2 DEF Settle
  <1>7. /\ SettlesAtEnd(m) => outcome'[n] = Append(outcome[n], entry) /\ attempts'[n] = 0
        /\ ~SettlesAtEnd(m) => outcome'[n] = outcome[n] /\ attempts'[n] = attempts[n]
        /\ \A k \in Nodes \ {n} : outcome'[k] = outcome[k] /\ attempts'[k] = attempts[k]
    BY <1>2, <1>3, <1>6
  <1> HIDE DEF h, entry
  <1>8. mac'[n] = h /\ \A k \in Nodes \ {n} : mac'[k] = mac[k]
    BY <1>2, <1>3
  <1>9. Grows
    BY <1>2, <1>5, MacGrows
  <1>10. \A k \in Nodes : /\ mac'[k].ackFrames = mac[k].ackFrames
                          /\ mac'[k].lastSequenceNumberMap = mac[k].lastSequenceNumberMap
    BY <1>5, <1>8 DEF ReceivesTheSame
  <1>11. /\ phyTxState'[n] = "IDLE" /\ \A k \in Nodes \ {n} : phyTxState'[k] = phyTxState[k]
         /\ UNCHANGED <<currentPropagatedFrame, frameOnAir, signal>>
    BY <1>1, <1>2 DEF EndCurrentTransmission, Inv, PhyInv, PhyTypeOK
  <1>12. GenuineFrames'
    BY <1>1, <1>9, <1>10, <1>11, GenuineFramesStep
  <1>13. RemembersLatest' /\ AtMostOnceInOrder'
    BY <1>1, <1>2, <1>9, <1>10, <1>11, RemembersStep
  <1>14. AckedWasReceived' /\ AttemptsAsConfigured'
    <2>1. CASE ~SettlesAtEnd(m)
      BY <1>1, <1>2, <1>9, <2>1, OutcomeKept DEF DeliveryInv, AttemptsAsConfigured
    <2>2. CASE SettlesAtEnd(m)
      <3>1. m.currentDataPacket # NoPacket
        BY <1>3, <2>2 DEF SettlesAtEnd, MacInv
      <3>2. /\ m.currentRetryCount \in Nat /\ m.currentRetryCount <= RetryLimit
            /\ attempts[n] = m.currentRetryCount + 1
            /\ m.currentDataPacket.to = Broadcast => m.currentRetryCount = 0
            /\ m.currentDataPacket.to # Broadcast => m.currentRetryCount >= RetryLimit
        BY <1>3, <2>2, <3>1 DEF SettlesAtEnd, GivesUp, Sending, MacInv, MacTyped
      <3>3. /\ how = "dropped" => attempts[n] = RetryLimit + 1
            /\ how = "sent" => attempts[n] = 1
        <4>1. m.currentRetryCount >= RetryLimit => m.currentRetryCount = RetryLimit
          <5> HIDE DEF m
          <5> QED  BY <3>2, MacAssumption
        <4> QED  BY <3>2, <4>1
      <3>4. how \in {"sent", "acked", "dropped"} /\ how # "acked"
        OBVIOUS
      <3> HIDE DEF how
      <3> QED  BY <1>1, <1>2, <1>9, <2>2, <3>1, <3>3, <3>4, OutcomeSettles
    <2> QED  BY <2>1, <2>2
  <1>15. ASSUME NEW k \in Nodes
         PROVE  Sending(mac[k], offered[k], outcome[k], attempts[k])'
    <2>1. CASE k = n
      BY <1>2, <1>5, <1>7, <1>8, <2>1
    <2>2. CASE k # n
      BY <1>2, <1>7, <1>8, <2>2 DEF DeliveryInv
    <2> QED  BY <2>1, <2>2
  <1>16. LatestGoesOut'
    BY <1>8, <1>11 DEF DeliveryInv, LatestGoesOut, Started
  <1>17. NoEcho'
    BY <1>11 DEF DeliveryInv, NoEcho
  <1> QED  BY <1>1, <1>12, <1>13, <1>14, <1>15, <1>16, <1>17 DEF DeliveryInv

\* A frame arrives only where nobody transmits and no acknowledgement waits, from
\* another node.
LEMMA ArrivesAtListener ==
    ASSUME DeliveryInv, NEW n \in Nodes, NEW s \in Nodes, SignalEnd(n, s), GivesFrameToMac(n, s)
    PROVE  /\ n # s /\ frameOnAir[s] \in Frames /\ Genuine(s, frameOnAir[s])
           /\ phyTxState[n] = "IDLE" /\ MacInv(mac[n]) /\ mac[n].macState \in {"IDLE", "DATA"}
  <1> USE DEF DeliveryInv, Inv
  <1>1. EndReceivingSignalFromChannel(n, s) /\ SignalMayEnd(n)
    BY DEF SignalEnd
  <1>2. n # s /\ frameOnAir[s] \in Frames
    BY <1>1 DEF NoEcho, FramesInv, EndReceivingSignalFromChannel
  <1>3. Genuine(s, frameOnAir[s])
    BY <1>2, PhyAssumption DEF GenuineFrames
  <1>4. SignalsOn(n) = {s} /\ phyTxState[n] = "IDLE"
    BY PhyAssumption DEF GivesFrameToMac, PhyInv, GoodFrameIsAlone
  <1>5. mac[n].macState # "ACK"
    <2>1. CASE Slotted
      BY <1>1, <1>4, <2>1 DEF SlotInv, SignalMayEnd, HistoryTypeOK, EndReceivingSignalFromChannel
    <2>2. CASE ~Slotted
      <3>1. mac[n].ackTimers = 0
        BY <1>1, <2>2 DEF SignalMayEnd
      <3> QED  BY <3>1 DEF MacInv
    <2> QED  BY <2>1, <2>2
  <1>6. MacInv(mac[n]) /\ mac[n].macState \in {"IDLE", "DATA"}
    BY <1>4, <1>5 DEF MacInv, MacTyped, MacStates
  <1> QED  BY <1>2, <1>3, <1>4, <1>6


\* What the end of a signal leaves alone.
LEMMA SignalEndKeeps ==
    ASSUME DeliveryInv, NEW n \in Nodes, NEW s \in Nodes, SignalEnd(n, s)
    PROVE  /\ UNCHANGED <<phyTxState, currentPropagatedFrame, frameOnAir, offered>>
           /\ NoEcho'
  BY DEF SignalEnd, EndReceivingSignalFromChannel, DeliveryInv, NoEcho, Inv, PhyInv, PhyTypeOK

LEMMA DataArrives ==
    ASSUME DeliveryInv, Inv', NEW n \in Nodes, NEW s \in Nodes, SignalEnd(n, s),
           GivesFrameToMac(n, s), frameOnAir[s].type = "DATA",
           FrameWithThisAddressIsForThisNode(n, frameOnAir[s].to)
    PROVE  DeliveryInv'
  <1> DEFINE m == mac[n]
             frame == frameOnAir[s]
             h == ReceiveFrameFromPhy(n, m, frame)
             last == m.lastSequenceNumberMap[s]
             entry == [from |-> s, id |-> frame.id]
             more == Append(received[n], entry)
  <1>1. /\ n # s /\ frame \in Frames /\ Genuine(s, frame) /\ phyTxState[n] = "IDLE"
        /\ MacInv(m) /\ m.macState \in {"IDLE", "DATA"}
    BY ArrivesAtListener
  <1>2. /\ frame.from = s /\ frame.seq = frame.id /\ frame.id \in 1 .. Started(s)
        /\ frame.to = offered[s][frame.id] /\ frame \in Frames /\ frame.id \in Nat
    BY <1>1 DEF Genuine, Frames
  <1>3. UNCHANGED <<phyTxState, currentPropagatedFrame, frameOnAir, offered>> /\ NoEcho'
    BY SignalEndKeeps
  <1>4. /\ mac' = [mac EXCEPT ![n] = h] /\ UNCHANGED <<outcome, attempts>>
        /\ last # frame.id => received' = [received EXCEPT ![n] = more]
        /\ last = frame.id => received' = received
    <2>1. MacReceives(n, frame) /\ ~Acknowledges(n, frame)
      BY DEF SignalEnd, Acknowledges
    <2> QED  BY <1>2, <2>1 DEF MacReceives, PassesUp, HaveAlreadySeenThisPacketBefore
  <1>5. /\ mac \in [Nodes -> MacRecords] /\ received \in [Nodes -> Seq(Receptions)]
        /\ m.macState # "DATA_TRANSMITTING" /\ m.lastSequenceNumberMap \in [Nodes -> Nat]
        /\ last \in Nat
    BY <1>1 DEF DeliveryInv, Inv, HistoryTypeOK, MacInv, MacTyped
  <1>6. /\ SendsTheSame(m, h) /\ h.macState # "DATA_TRANSMITTING"
        /\ h.lastSequenceNumberMap = [m.lastSequenceNumberMap EXCEPT ![s] = frame.id]
        /\ frame.to = Broadcast => h.ackFrames = <<>>
        /\ frame.to # Broadcast => h.ackFrames = <<AckFrame(n, frame)>>
    BY <1>1, <1>2, SendingReceivesData
  <1>7. /\ entry \in Receptions /\ entry.from = s /\ entry.id = frame.id
    BY <1>2 DEF Receptions
  <1> HIDE DEF h, entry, last
  <1>8. /\ more \in Seq(Receptions) /\ DOMAIN more = 1 .. Len(more) /\ Len(received[n]) \in Nat
        /\ Len(more) = Len(received[n]) + 1
        /\ DOMAIN received[n] = 1 .. Len(received[n])
        /\ \A j \in DOMAIN received[n] : j \in DOMAIN more /\ more[j] = received[n][j]
        /\ Len(more) \in DOMAIN more /\ more[Len(more)] = entry
        /\ \A j \in DOMAIN more : j \in DOMAIN received[n] \/ j = Len(more)
    <2>1. received[n] \in Seq(Receptions)
      BY <1>5
    <2>2. /\ more \in Seq(Receptions) /\ Len(received[n]) \in Nat
          /\ Len(more) = Len(received[n]) + 1
          /\ DOMAIN received[n] = 1 .. Len(received[n]) /\ DOMAIN more = 1 .. Len(more)
          /\ \A i \in 1 .. Len(received[n]) : i \in 1 .. Len(more) /\ more[i] = received[n][i]
          /\ more[Len(more)] = entry
          /\ \A i \in 1 .. Len(more) : i \in 1 .. Len(received[n]) \/ i = Len(more)
      BY <1>7, <2>1, AppendExtends
    <2> HIDE DEF more
    <2>3. Len(more) \in 1 .. Len(more)
      BY <2>2
    <2> QED  BY <2>2, <2>3
  <1> HIDE DEF more
  <1>9. /\ mac'[n] = h /\ \A k \in Nodes \ {n} : mac'[k] = mac[k]
        /\ \A k \in Nodes \ {n} : received'[k] = received[k]
        /\ last # frame.id => received'[n] = more
        /\ last = frame.id => received'[n] = received[n]
    BY <1>4, <1>5
  <1>10. \A k \in Nodes : Started(k)' = Started(k) /\ Started(k) \in Nat
    BY <1>6, <1>9, StartedIsOffered DEF Started, SendsTheSame
  <1>11. Grows
    <2>1. \A k \in Nodes : Started(k)' >= Started(k)
      BY <1>10
    <2>2. \A k \in Nodes : \A i \in 1 .. Len(offered[k]) :
             i \in 1 .. Len(offered'[k]) /\ offered'[k][i] = offered[k][i]
      BY <1>3
    <2>3. \A k \in Nodes : \A j \in DOMAIN received[k] :
             j \in DOMAIN received'[k] /\ received'[k][j] = received[k][j]
      <3>1. \A k \in Nodes \ {n} : received'[k] = received[k]
        BY <1>9
      <3>2. received'[n] = more \/ received'[n] = received[n]
        BY <1>9
      <3>3. \A j \in DOMAIN received[n] : j \in DOMAIN more /\ more[j] = received[n][j]
        BY <1>8
      <3> QED  BY ONLY <3>1, <3>2, <3>3
    <2> QED  BY ONLY <2>1, <2>2, <2>3 DEF Grows
  <1>12. Remembers(n, s)
    BY DEF DeliveryInv, RemembersLatest
  <1>13. /\ last <= frame.id
         /\ \A j \in DOMAIN received[n] : received[n][j].from = s => received[n][j].id <= last
    BY <1>1, <1>12, PhyAssumption DEF Remembers, DeliveryInv, RemembersLatest, last
  <1>14. HasReceived(n, s, frame.id)'
    <2>1. CASE last # frame.id
      BY <1>3, <1>8, <1>9, <2>1 DEF HasReceived, entry
    <2>2. CASE last = frame.id
      <3>1. HasReceived(n, s, frame.id)
        BY <1>2, <1>12, <2>2 DEF Remembers, last
      <3> QED  BY <1>3, <1>9, <2>2, <3>1 DEF HasReceived
    <2> QED  BY <2>1, <2>2
  <1>15. GenuineFrames'
    <2>1. frame.to # Broadcast => Genuine(n, AckFrame(n, frame))'
      <3>1. frame.to # Broadcast => offered[s][frame.id] = n
        BY <1>2 DEF FrameWithThisAddressIsForThisNode
      <3> QED  BY <1>2, <1>3, <1>10, <1>14, <3>1 DEF Genuine, AckFrame, HasReceived, Started
    <2>2. \A i \in 1 .. Len(mac'[n].ackFrames) :
              /\ mac'[n].ackFrames[i].type = "ACK"
              /\ Genuine(n, mac[n].ackFrames[i])'
      <3>1. CASE frame.to = Broadcast
        BY <1>6, <1>9, <3>1
      <3>2. CASE frame.to # Broadcast
        <4>1. mac'[n].ackFrames = <<AckFrame(n, frame)>>
          BY <1>6, <1>9, <3>2
        <4>2. /\ Len(mac'[n].ackFrames) = 1 /\ mac'[n].ackFrames[1] = AckFrame(n, frame)
          BY <4>1
        <4>3. frame' = frame
          BY <1>3
        <4>4. ASSUME NEW i \in 1 .. Len(mac'[n].ackFrames)
              PROVE  mac'[n].ackFrames[i] = AckFrame(n, frame)
          BY <4>2
        <4> QED  BY <2>1, <3>2, <4>3, <4>4 DEF Genuine, AckFrame
      <3> QED  BY <3>1, <3>2
    <2> QED  BY <1>3, <1>9, <1>11, <2>2, GenuineFramesStep
  <1>16. RemembersLatest'
    <2>1. \A k \in Nodes \ {n} : mac'[k].lastSequenceNumberMap = mac[k].lastSequenceNumberMap
      BY <1>9
    <2>2. /\ mac'[n].lastSequenceNumberMap[s] = frame.id
          /\ \A t \in Nodes \ {s} : mac'[n].lastSequenceNumberMap[t] = m.lastSequenceNumberMap[t]
      BY <1>5, <1>6, <1>9
    <2>3. Remembers(n, s)'
      BY <1>2, <1>3, <1>10, <1>14, <2>2 DEF Remembers, HasReceived
    <2>4. ASSUME NEW k \in Nodes, NEW t \in Nodes, k # n \/ t # s
          PROVE  Remembers(k, t)'
      <3>1. Remembers(k, t)
        BY DEF DeliveryInv, RemembersLatest
      <3>2. mac'[k].lastSequenceNumberMap[t] = mac[k].lastSequenceNumberMap[t]
        BY <2>1, <2>2, <2>4
      <3>3. \A id : HasReceived(k, t, id) => HasReceived(k, t, id)'
        BY <1>11 DEF HasReceived, Grows
      <3> QED  BY <1>3, <1>10, <3>1, <3>2, <3>3 DEF Remembers, HasReceived
    <2>5. ASSUME NEW k \in Nodes, NEW j \in DOMAIN received'[k]
          PROVE  received'[k][j].id <= mac'[k].lastSequenceNumberMap[received'[k][j].from]
      <3>1. CASE k # n
        BY <1>9, <2>1, <3>1 DEF DeliveryInv, RemembersLatest
      <3>2. CASE k = n /\ j \in DOMAIN received[n]
        <4>1. received'[n][j] = received[n][j] /\ received[n][j] \in Receptions
          <5>1. received'[n][j] = received[n][j]
            BY <1>8, <1>9, <3>2
          <5>2. received[n] \in Seq(Receptions)
            BY <1>5
          <5> QED  BY <3>2, <5>1, <5>2, <1>8
        <4>2. received[n][j].id <= m.lastSequenceNumberMap[received[n][j].from]
          BY <3>2 DEF DeliveryInv, RemembersLatest
        <4>3. received[n][j].id \in Nat /\ received[n][j].from \in Nodes
          BY <4>1 DEF Receptions
        <4>4. CASE received[n][j].from = s
          <5>1. received[n][j].id <= last
            BY <1>13, <3>2, <4>4
          <5>2. received[n][j].id <= frame.id
            BY <1>2, <1>5, <1>13, <4>3, <5>1
          <5> QED  BY <2>2, <3>2, <4>1, <4>4, <5>2
        <4>5. CASE received[n][j].from # s
          BY <2>2, <3>2, <4>1, <4>2, <4>3, <4>5
        <4> QED  BY <4>4, <4>5
      <3>3. CASE k = n /\ j \notin DOMAIN received[n]
        <4>1. received'[n][j] = entry
          BY <1>8, <1>9, <2>5, <3>3
        <4> QED  BY <1>2, <1>7, <2>2, <3>3, <4>1
      <3> QED  BY <3>1, <3>2, <3>3
    <2> QED  BY <2>3, <2>4, <2>5 DEF RemembersLatest
  <1>17. AtMostOnceInOrder'
    <2> SUFFICES ASSUME NEW k \in Nodes, NEW i \in DOMAIN received'[k], NEW j \in DOMAIN received'[k],
                        i < j, received'[k][i].from = received'[k][j].from
                 PROVE  received'[k][i].id < received'[k][j].id
      BY DEF AtMostOnceInOrder
    <2>1. CASE k # n \/ last = frame.id
      BY <1>9, <2>1 DEF DeliveryInv, AtMostOnceInOrder
    <2>2. CASE k = n /\ last # frame.id
      <3>1. i \in DOMAIN received[n] /\ i \in Nat /\ j \in Nat
        BY <1>8, <1>9, <2>2
      <3>2. received'[n][i] = received[n][i]
        BY <1>8, <1>9, <2>2, <3>1
      <3>3. CASE j \in DOMAIN received[n]
        <4>1. received'[n][j] = received[n][j]
          BY <1>8, <1>9, <2>2, <3>3
        <4>2. received[n][i].from = received[n][j].from
          BY <2>2, <3>2, <4>1
        <4> QED  BY <2>2, <3>1, <3>2, <3>3, <4>1, <4>2 DEF DeliveryInv, AtMostOnceInOrder
      <3>4. CASE j \notin DOMAIN received[n]
        <4>1. received'[n][j] = entry
          BY <1>8, <1>9, <2>2, <3>4
        <4>2. received[n][i].id <= last
          BY <1>7, <1>13, <2>2, <3>1, <3>2, <4>1
        <4>3. received[n][i].id \in Nat
          <5>1. received[n] \in Seq(Receptions)
            BY <1>5
          <5>2. received[n][i] \in Receptions
            BY <1>8, <3>1, <5>1
          <5> QED  BY <5>2 DEF Receptions
        <4>4. received[n][i].id < frame.id
          BY <1>2, <1>5, <1>13, <2>2, <4>2, <4>3
        <4> QED  BY <1>7, <2>2, <3>2, <4>1, <4>4
      <3> QED  BY <3>3, <3>4
    <2> QED  BY <2>1, <2>2
  <1>18. AckedWasReceived' /\ AttemptsAsConfigured'
    BY <1>4, <1>11, OutcomeKept DEF DeliveryInv, AttemptsAsConfigured
  <1>19. ASSUME NEW k \in Nodes
         PROVE  Sending(mac[k], offered[k], outcome[k], attempts[k])'
    <2>1. CASE k = n
      <3>1. Sending(h, offered[n], outcome[n], attempts[n])
        BY <1>5, <1>6, SendingSame DEF DeliveryInv
      <3> QED  BY <1>3, <1>4, <1>9, <2>1, <3>1
    <2>2. CASE k # n
      BY <1>3, <1>4, <1>9, <2>2 DEF DeliveryInv
    <2> QED  BY <2>1, <2>2
  <1>20. LatestGoesOut'
    BY <1>3, <1>10 DEF DeliveryInv, LatestGoesOut
  <1> QED  BY <1>3, <1>15, <1>16, <1>17, <1>18, <1>19, <1>20 DEF DeliveryInv


\* An acknowledgement settles a packet only if its receiver has got that packet.
LEMMA AckArrives ==
    ASSUME DeliveryInv, Inv', NEW n \in Nodes, NEW s \in Nodes, SignalEnd(n, s),
           GivesFrameToMac(n, s), frameOnAir[s].type = "ACK",
           FrameWithThisAddressIsForThisNode(n, frameOnAir[s].to)
    PROVE  DeliveryInv'
  <1> DEFINE m == mac[n]
             frame == frameOnAir[s]
             h == ReceiveFrameFromPhy(n, m, frame)
             entry == [how |-> "acked", attempts |-> attempts[n]]
             settled == SettledByAck(m, frame)
  <1>1. /\ frame \in Frames /\ Genuine(s, frame) /\ phyTxState[n] = "IDLE"
        /\ MacInv(m) /\ m.macState \in {"IDLE", "DATA"}
    BY ArrivesAtListener
  <1>2. UNCHANGED <<phyTxState, currentPropagatedFrame, frameOnAir, offered>> /\ NoEcho'
    BY SignalEndKeeps
  <1>3. /\ mac' = [mac EXCEPT ![n] = h] /\ UNCHANGED received
        /\ settled => Settle(n, "acked")
        /\ ~settled => UNCHANGED <<outcome, attempts>>
    <2>1. MacReceives(n, frame) /\ (Acknowledges(n, frame) <=> settled)
      BY DEF SignalEnd, Acknowledges, SettledByAck
    <2> QED  BY <2>1 DEF MacReceives, PassesUp
  <1>4. /\ mac \in [Nodes -> MacRecords] /\ outcome \in [Nodes -> Seq(Outcomes)]
        /\ attempts \in [Nodes -> Nat] /\ offered[n] \in Seq(Addresses) /\ entry \in Outcomes
        /\ Sending(m, offered[n], outcome[n], attempts[n])
    BY DEF DeliveryInv, Inv, HistoryTypeOK, Outcomes
  <1>5. /\ settled => Sending(h, offered[n], Append(outcome[n], entry), 0)
        /\ ~settled => Sending(h, offered[n], outcome[n], attempts[n])
        /\ ReceivesTheSame(m, h)
        /\ h.currentFrameSequenceNumber >= m.currentFrameSequenceNumber
    <2>1. outcome[n] \in Seq(Outcomes) /\ attempts[n] \in Nat
      BY <1>4
    <2>2. h = ReceiveFrameFromPhy(n, m, frame)
      OBVIOUS
    <2> HIDE DEF h, entry, m, frame
    <2>3. frame.type = "ACK" /\ FrameWithThisAddressIsForThisNode(n, frame.to)
      BY DEF frame
    <2> QED  BY <1>1, <1>4, <2>1, <2>2, <2>3, SendingReceivesAck DEF m
  <1>6. /\ settled => outcome'[n] = Append(outcome[n], entry) /\ attempts'[n] = 0
        /\ ~settled => outcome'[n] = outcome[n] /\ attempts'[n] = attempts[n]
        /\ \A k \in Nodes \ {n} : outcome'[k] = outcome[k] /\ attempts'[k] = attempts[k]
    BY <1>3, <1>4 DEF Settle
  <1> HIDE DEF h, entry
  <1>7. mac'[n] = h /\ \A k \in Nodes \ {n} : mac'[k] = mac[k]
    BY <1>3, <1>4
  <1>8. Grows
    BY <1>2, <1>3, <1>5, MacGrows
  <1>9. \A k \in Nodes : /\ mac'[k].ackFrames = mac[k].ackFrames
                         /\ mac'[k].lastSequenceNumberMap = mac[k].lastSequenceNumberMap
    BY <1>5, <1>7 DEF ReceivesTheSame
  <1>10. GenuineFrames'
    BY <1>2, <1>8, <1>9, GenuineFramesStep
  <1>11. RemembersLatest' /\ AtMostOnceInOrder'
    BY <1>2, <1>3, <1>8, <1>9, RemembersStep
  <1>12. AckedWasReceived' /\ AttemptsAsConfigured'
    <2>1. CASE ~settled
      BY <1>3, <1>8, <2>1, OutcomeKept DEF DeliveryInv, AttemptsAsConfigured
    <2>2. CASE settled
      <3>1. m.currentDataPacket # NoPacket /\ frame.id = Started(n) /\ frame.to = n
        <4>1. frame.seq = frame.id /\ frame.to \in Nodes
          BY <1>1 DEF Genuine
        <4> QED  BY <2>2, <4>1, NodesAssumption
                 DEF SettledByAck, IsExpectedAck, HasDataPacketToSend, Started,
                     FrameWithThisAddressIsForThisNode
      <3>2. s \in Nodes \cap {offered[n][Started(n)]} /\ HasReceived(s, n, Started(n))
        BY <1>1, <3>1 DEF Genuine
      <3> QED  BY <1>2, <1>3, <1>8, <2>2, <3>1, <3>2, OutcomeSettles
    <2> QED  BY <2>1, <2>2
  <1>13. ASSUME NEW k \in Nodes
         PROVE  Sending(mac[k], offered[k], outcome[k], attempts[k])'
    <2>1. CASE k = n
      BY <1>2, <1>5, <1>6, <1>7, <2>1
    <2>2. CASE k # n
      BY <1>2, <1>6, <1>7, <2>2 DEF DeliveryInv
    <2> QED  BY <2>1, <2>2
  <1>14. LatestGoesOut'
    BY <1>1, <1>2, <1>7 DEF DeliveryInv, LatestGoesOut, Started
  <1> QED  BY <1>2, <1>10, <1>11, <1>12, <1>13, <1>14 DEF DeliveryInv

LEMMA SignalEndDelivery ==
    ASSUME DeliveryInv, NEW n \in Nodes, NEW s \in Nodes, SignalEnd(n, s)
    PROVE  DeliveryInv'
  <1> DEFINE frame == frameOnAir[s]
             forMac == /\ GivesFrameToMac(n, s)
                       /\ FrameWithThisAddressIsForThisNode(n, frame.to)
  <1>1. Inv /\ Inv'
    BY SignalEndEventInv DEF DeliveryInv
  <1>2. UNCHANGED <<phyTxState, currentPropagatedFrame, frameOnAir, offered>> /\ NoEcho'
    BY SignalEndKeeps
  <1>3. CASE ~forMac
    <2>1. UNCHANGED <<received, outcome, attempts>> /\ mac' = mac
      <3>1. CASE ~GivesFrameToMac(n, s)
        BY <3>1 DEF SignalEnd
      <3>2. CASE GivesFrameToMac(n, s)
        <4>1. ReceiveFrameFromPhy(n, mac[n], frame) = mac[n] /\ mac \in [Nodes -> MacRecords]
          BY <1>1, <1>3, <3>2 DEF ReceiveFrameFromPhy, Inv
        <4> QED  BY <1>3, <3>2, <4>1 DEF SignalEnd, MacReceives, PassesUp, Acknowledges
      <3> QED  BY <3>1, <3>2
    <2> QED  BY <1>1, <1>2, <2>1, OtherEventsDelivery DEF linkVars
  <1>4. CASE forMac
    <2>1. frame.type \in {"DATA", "ACK"}
      BY <1>4, ArrivesAtListener DEF Frames
    <2> QED  BY <1>1, <1>4, <2>1, DataArrives, AckArrives
  <1> QED  BY <1>3, <1>4

LEMMA InitDelivery == Init => DeliveryInv
  <1> SUFFICES ASSUME Init PROVE DeliveryInv
    OBVIOUS
  <1>1. /\ InitialMac.networkOutputQueue = <<>> /\ InitialMac.currentDataPacket = NoPacket
        /\ InitialMac.currentFrameSequenceNumber = 0 /\ InitialMac.currentRetryCount = 0
        /\ InitialMac.ackFrames = <<>> /\ InitialMac.lastSequenceNumberMap = [n \in Nodes |-> 0]
    BY DEF InitialMac
  <1>2. \A n \in Nodes : /\ mac[n] = InitialMac /\ offered[n] = <<>> /\ outcome[n] = <<>>
                         /\ received[n] = <<>> /\ attempts[n] = 0
                         /\ currentPropagatedFrame[n] = NoFrame /\ frameOnAir[n] = NoFrame
                         /\ phyTxState[n] = "IDLE" /\ signal[n][n] = "none"
    BY DEF Init, PhyInit
  <1>3. \A n \in Nodes : Sending(mac[n], offered[n], outcome[n], attempts[n])
    BY <1>1, <1>2, MacAssumption DEF Sending
  <1>4. GenuineFrames /\ LatestGoesOut /\ NoEcho
    BY <1>1, <1>2 DEF GenuineFrames, LatestGoesOut, NoEcho
  <1>5. RemembersLatest
    BY <1>1, <1>2 DEF RemembersLatest, Remembers, Started
  <1>6. AtMostOnceInOrder /\ AckedWasReceived
    BY <1>2 DEF AtMostOnceInOrder, AckedWasReceived
  <1>7. AttemptsAsConfigured
    BY <1>2, MacAssumption DEF AttemptsAsConfigured
  <1> QED  BY InitInv, <1>3, <1>4, <1>5, <1>6, <1>7 DEF DeliveryInv

LEMMA NextDelivery == DeliveryInv /\ [Next]_vars => DeliveryInv'
  <1> SUFFICES ASSUME DeliveryInv, [Next]_vars PROVE DeliveryInv'
    OBVIOUS
  <1>1. ASSUME NEW n \in Nodes,
               \/ InsertPacket(n) \/ DataTimerEvent(n) \/ AckTimerEvent(n)
               \/ Airborne(n) \/ TransmissionEnd(n)
        PROVE  DeliveryInv'
    BY <1>1, InsertPacketDelivery, DataTimerDelivery, AckTimerDelivery, AirborneDelivery,
       TransmissionEndDelivery
  <1>2. ASSUME NEW n \in Nodes, NEW s \in Nodes, SignalEnd(n, s)
        PROVE  DeliveryInv'
    BY <1>2, SignalEndDelivery
  <1>3. Inv'
    BY NextInv DEF DeliveryInv
  <1>4. ASSUME NEW n \in Nodes, NEW s \in Nodes, SignalStart(n, s)
        PROVE  DeliveryInv'
    <2>1. UNCHANGED <<mac, phyTxState, currentPropagatedFrame, frameOnAir, attempts, linkVars>>
      BY <1>4 DEF SignalStart, StartReceivingSignalFromChannel
    <2>2. NoEcho'
      BY <1>4 DEF SignalStart, StartReceivingSignalFromChannel, DeliveryInv, NoEcho, Inv, PhyInv,
         PhyTypeOK
    <2> QED  BY <1>3, <2>1, <2>2, OtherEventsDelivery
  <1>5. CASE NextSlot \/ SlotContinues \/ UNCHANGED vars
    <2>1. UNCHANGED <<phyVars, mac, attempts, linkVars>>
      BY <1>5 DEF NextSlot, SlotContinues, vars
    <2>2. NoEcho'
      BY <2>1 DEF DeliveryInv, NoEcho, phyVars
    <2> QED  BY <1>3, <2>1, <2>2, OtherEventsDelivery DEF phyVars
  <1> QED  BY <1>1, <1>2, <1>4, <1>5 DEF Next

-----------------------------------------------------------------------------
\* A network layer gets the packets of another node at most once and in the order
\* in which they were sent, whatever is lost, repeated or collides.
THEOREM DeliveredAtMostOnceInOrder == Spec => []AtMostOnceInOrder
  <1>1. DeliveryInv => AtMostOnceInOrder
    BY DEF DeliveryInv
  <1> QED  BY <1>1, InitDelivery, NextDelivery, PTL DEF Spec

\* A packet whose retransmissions an acknowledgement ended has been delivered to
\* its destination.
THEOREM AcknowledgedWasReceived == Spec => []AckedWasReceived
  <1>1. DeliveryInv => AckedWasReceived
    BY DEF DeliveryInv
  <1> QED  BY <1>1, InitDelivery, NextDelivery, PTL DEF Spec

\* A unicast packet is dropped only after RetryLimit + 1 transmissions and never
\* transmitted more often; a broadcast packet is transmitted once.
THEOREM AttemptedAsConfigured == Spec => []AttemptsAsConfigured
  <1>1. DeliveryInv => AttemptsAsConfigured
    BY DEF DeliveryInv
  <1> QED  BY <1>1, InitDelivery, NextDelivery, PTL DEF Spec


-----------------------------------------------------------------------------
(* AlohaLink: every step is one of the link's, or none that it can tell. *)

\* What the link says of the packets that are done with.
Told == [n \in Nodes |-> [k \in DOMAIN outcome[n] |-> outcome[n][k].how]]

Hows == {"sent", "acked", "dropped"}

LEMMA ToldType ==
    ASSUME DeliveryInv, NEW n \in Nodes
    PROVE  Told[n] \in Seq(Hows) /\ Len(Told[n]) = Len(outcome[n])
           /\ \A k \in 1 .. Len(outcome[n]) : Told[n][k] = outcome[n][k].how
  <1>1. outcome[n] \in Seq(Outcomes)
    BY DEF DeliveryInv, Inv, HistoryTypeOK
  <1>2. Len(outcome[n]) \in Nat /\ DOMAIN outcome[n] = 1 .. Len(outcome[n])
    BY <1>1, LenProperties
  <1>3. Told[n] = [k \in 1 .. Len(outcome[n]) |-> outcome[n][k].how]
    BY <1>2 DEF Told
  <1>4. \A k \in 1 .. Len(outcome[n]) : outcome[n][k].how \in Hows
    <2> SUFFICES ASSUME NEW k \in 1 .. Len(outcome[n]) PROVE outcome[n][k].how \in Hows
      OBVIOUS
    <2>1. outcome[n][k] \in Outcomes
      BY <1>1, ElementOfSeq
    <2> QED  BY <2>1 DEF Outcomes, Hows
  <1>5. Told[n] \in [1 .. Len(outcome[n]) -> Hows]
    BY <1>3, <1>4
  <1> QED  BY <1>2, <1>3, <1>5

\* Settling a packet is an addition to what is told.
LEMMA ToldSettles ==
    ASSUME DeliveryInv, DeliveryInv', NEW n \in Nodes, NEW how \in Hows, Settle(n, how)
    PROVE  Told' = [Told EXCEPT ![n] = Append(@, how)]
  <1> DEFINE entry == [how |-> how, attempts |-> attempts[n]]
             more == Append(Told[n], how)
  <1>1. /\ outcome \in [Nodes -> Seq(Outcomes)] /\ entry \in Outcomes /\ entry.how = how
        /\ outcome' = [outcome EXCEPT ![n] = Append(@, entry)]
    BY DEF DeliveryInv, Inv, HistoryTypeOK, Outcomes, Settle, Hows
  <1> HIDE DEF entry
  <1>2. /\ outcome'[n] = Append(outcome[n], entry)
        /\ \A k \in Nodes \ {n} : outcome'[k] = outcome[k]
    BY <1>1
  <1>3. /\ Len(outcome[n]) \in Nat /\ Len(outcome'[n]) = Len(outcome[n]) + 1
        /\ \A i \in 1 .. Len(outcome[n]) : outcome'[n][i] = outcome[n][i]
        /\ outcome'[n][Len(outcome'[n])] = entry
        /\ \A i \in 1 .. Len(outcome'[n]) : i \in 1 .. Len(outcome[n]) \/ i = Len(outcome'[n])
    BY <1>1, <1>2, AppendExtends
  <1>4. /\ Told[n] \in Seq(Hows) /\ Len(Told[n]) = Len(outcome[n])
        /\ \A k \in 1 .. Len(outcome[n]) : Told[n][k] = outcome[n][k].how
    BY ToldType
  <1>5. /\ Told'[n] \in Seq(Hows) /\ Len(Told'[n]) = Len(outcome'[n])
        /\ \A k \in 1 .. Len(outcome'[n]) : Told'[n][k] = outcome'[n][k].how
    <2>1. (/\ Told[n] \in Seq(Hows) /\ Len(Told[n]) = Len(outcome[n])
           /\ \A k \in 1 .. Len(outcome[n]) : Told[n][k] = outcome[n][k].how)'
      BY ToldType, PTL
    <2> QED  BY <2>1
  <1>6. /\ more \in Seq(Hows) /\ Len(more) = Len(Told[n]) + 1
        /\ \A i \in 1 .. Len(Told[n]) : more[i] = Told[n][i]
        /\ more[Len(more)] = how
    BY <1>4, AppendExtends
  <1> HIDE DEF more
  <1>7. Told'[n] = more
    <2>1. \A i \in 1 .. Len(Told'[n]) : Told'[n][i] = more[i]
      BY <1>1, <1>3, <1>4, <1>5, <1>6
    <2> QED  BY <1>3, <1>4, <1>5, <1>6, <2>1, SeqEqual
  <1>8. \A k \in Nodes \ {n} : Told'[k] = Told[k]
    BY <1>2 DEF Told
  <1>9. Told \in [Nodes -> Seq(Hows)] /\ DOMAIN Told' = Nodes
    BY ToldType DEF Told
  <1> QED
    <2>1. Told' = [k \in Nodes |-> Told'[k]]
      BY DEF Told
    <2>2. Told' = [Told EXCEPT ![n] = more]
      BY <1>7, <1>8, <1>9, <2>1
    <2> QED  BY <2>2 DEF more


LEMMA OfferStep ==
    ASSUME DeliveryInv, NEW n \in Nodes, InsertPacket(n)
    PROVE  Link!Offer(n)
  <1>1. \A to \in Destinations[n] : to \in (Nodes \cup {Broadcast}) \ {n}
    BY AlohaAssumption DEF Addresses
  <1> QED  BY <1>1 DEF InsertPacket, Link!Offer

\* A packet that goes up is in service or was before, and later than all before it.
LEMMA DeliverStep ==
    ASSUME DeliveryInv, NEW n \in Nodes, NEW s \in Nodes, SignalEnd(n, s),
           GivesFrameToMac(n, s), PassesUp(n, mac[n], frameOnAir[s])
    PROVE  \E id \in 1 .. Len(offered[s]) : s \in Nodes \ {n} /\ Link!Deliver(n, s, id)
  <1> DEFINE frame == frameOnAir[s]
             id == frame.id
             last == mac[n].lastSequenceNumberMap[s]
  <1>1. /\ n # s /\ Genuine(s, frame) /\ MacInv(mac[n]) /\ frame \in Frames
        /\ frame.type = "DATA" /\ frame.to \in {n, Broadcast}
    BY ArrivesAtListener DEF PassesUp, FrameWithThisAddressIsForThisNode
  <1>2. /\ frame.from = s /\ frame.seq = id /\ id \in 1 .. Started(s)
        /\ frame.to = offered[s][id] /\ id \in Nat /\ last # id /\ last \in Nat
    BY <1>1 DEF Genuine, Frames, PassesUp, HaveAlreadySeenThisPacketBefore, MacInv, MacTyped
  <1>3. id \in 1 .. Len(offered[s]) /\ id <= Len(Told[s]) + 1
    <2>1. /\ Started(s) \in Nat /\ Len(offered[s]) \in Nat /\ Started(s) <= Len(offered[s])
          /\ Len(outcome[s]) = Started(s) \/ Len(outcome[s]) = Started(s) - 1
      BY StartedIsOffered DEF DeliveryInv, Sending, Started
    <2>2. Len(Told[s]) = Len(outcome[s])
      BY ToldType
    <2> QED  BY <1>2, <2>1, <2>2
  <1>4. received' = [received EXCEPT ![n] = Append(@, [from |-> s, id |-> id])]
        /\ UNCHANGED <<offered, outcome>>
    BY <1>1, <1>2 DEF SignalEnd, MacReceives, Acknowledges
  <1>5. \A j \in DOMAIN received[n] : received[n][j].from = s => received[n][j].id < id
    <2> SUFFICES ASSUME NEW j \in DOMAIN received[n], received[n][j].from = s
                 PROVE  received[n][j].id < id
      OBVIOUS
    <2>1. received[n] \in Seq(Receptions)
      BY DEF DeliveryInv, Inv, HistoryTypeOK
    <2>2. received[n][j].id \in Nat
      <3>1. received[n][j] \in Receptions
        BY <2>1
      <3> QED  BY <3>1 DEF Receptions
    <2>3. received[n][j].id <= last
      BY DEF DeliveryInv, RemembersLatest
    <2>4. last <= id
      <3>1. Remembers(n, s)
        BY DEF DeliveryInv, RemembersLatest
      <3> QED  BY <1>1, <3>1, PhyAssumption DEF Remembers
    <2> HIDE DEF last, id
    <2> QED  BY <1>2, <2>2, <2>3, <2>4
  <1>6. \A earlier \in Link!ReceivedFrom(n, s) : earlier < id
    BY <1>5 DEF Link!ReceivedFrom
  <1>7. UNCHANGED Told
    BY <1>4 DEF Told
  <1>8. Link!Deliver(n, s, id)
    BY <1>1, <1>2, <1>3, <1>4, <1>6, <1>7 DEF Link!Deliver, Told
  <1> QED  BY <1>1, <1>3, <1>8

LEMMA SettleStep ==
    ASSUME DeliveryInv, DeliveryInv', NEW n \in Nodes, NEW how \in Hows, Settle(n, how),
           UNCHANGED <<offered, received>>, mac[n].currentDataPacket # NoPacket,
           how = "sent" => mac[n].currentDataPacket.to = Broadcast,
           how # "sent" => mac[n].currentDataPacket.to # Broadcast,
           how = "acked" => /\ offered[n][Started(n)] \in Nodes
                            /\ HasReceived(offered[n][Started(n)], n, Started(n))
    PROVE  Link!Settle(n)
  <1> DEFINE id == Len(Told[n]) + 1
  <1>1. id = Started(n) /\ Len(offered[n]) \in Nat /\ id \in 1 .. Len(offered[n])
    BY StartedIsOffered, ToldType
  <1>2. mac[n].currentDataPacket.to = offered[n][id]
    <2>1. Sending(mac[n], offered[n], outcome[n], attempts[n])
      BY DEF DeliveryInv
    <2> HIDE DEF id
    <2> QED  BY <1>1, <2>1 DEF Sending, Started
  <1>3. Told' = [Told EXCEPT ![n] = Append(@, how)]
    BY ToldSettles
  <1>4. how = "acked" => id \in Link!ReceivedFrom(offered[n][id], n)
    <2> HIDE DEF id
    <2> QED  BY <1>1 DEF HasReceived, Link!ReceivedFrom
  <1>5. Link!MaySettle(n, how)
    BY <1>1, <1>2, <1>4 DEF Link!MaySettle, Told, Hows
  <1> QED  BY <1>3, <1>5 DEF Link!Settle, Told, Hows

LEMMA SignalEndLink ==
    ASSUME DeliveryInv, DeliveryInv', NEW n \in Nodes, NEW s \in Nodes, SignalEnd(n, s)
    PROVE  [Link!Next]_(Link!linkVars)
  <1> DEFINE frame == frameOnAir[s]
  <1>1. UNCHANGED offered
    BY DEF SignalEnd
  <1>2. CASE GivesFrameToMac(n, s) /\ PassesUp(n, mac[n], frame)
    BY <1>2, DeliverStep DEF Link!Next
  <1>3. CASE GivesFrameToMac(n, s) /\ Acknowledges(n, frame)
    <2>1. Settle(n, "acked") /\ UNCHANGED received /\ mac[n].currentDataPacket # NoPacket
      BY <1>3 DEF SignalEnd, MacReceives, PassesUp, Acknowledges, HasDataPacketToSend
    <2>2. /\ Genuine(s, frame) /\ frame.type = "ACK" /\ frame.to \in {n, Broadcast}
          /\ frame.seq = Started(n)
      BY <1>3, ArrivesAtListener
         DEF Acknowledges, FrameWithThisAddressIsForThisNode, IsExpectedAck, Started
    <2>3. /\ offered[n][Started(n)] = s /\ HasReceived(s, n, Started(n))
      BY <2>2, NodesAssumption DEF Genuine
    <2>4. mac[n].currentDataPacket.to # Broadcast
      <3>1. Sending(mac[n], offered[n], outcome[n], attempts[n])
        BY DEF DeliveryInv
      <3>2. mac[n].currentDataPacket.to = s
        BY <2>1, <2>3, <3>1 DEF Sending, Started
      <3> QED  BY <3>2, NodesAssumption
    <2>5. Link!Settle(n)
      BY <1>1, <2>1, <2>3, <2>4, SettleStep DEF Hows
    <2> QED  BY <2>5 DEF Link!Next
  <1>4. CASE ~(GivesFrameToMac(n, s) /\ (PassesUp(n, mac[n], frame) \/ Acknowledges(n, frame)))
    <2>1. UNCHANGED linkVars
      BY <1>1, <1>4 DEF SignalEnd, MacReceives, linkVars
    <2> QED  BY <2>1 DEF linkVars, Link!linkVars
  <1> QED  BY <1>2, <1>3, <1>4

LEMMA TransmissionEndLink ==
    ASSUME DeliveryInv, DeliveryInv', NEW n \in Nodes, TransmissionEnd(n)
    PROVE  [Link!Next]_(Link!linkVars)
  <1>1. UNCHANGED <<offered, received>>
    BY DEF TransmissionEnd
  <1>2. CASE mac[n].macState = "DATA_TRANSMITTING" /\ GivesUp(mac[n])
    <2> DEFINE how == IF mac[n].currentDataPacket.to = Broadcast THEN "sent" ELSE "dropped"
    <2>1. Settle(n, how)
      BY <1>2 DEF TransmissionEnd
    <2>2. mac[n].currentDataPacket # NoPacket
      BY <1>2 DEF DeliveryInv, Inv, MacInv
    <2>3. /\ how \in Hows /\ how # "acked"
          /\ how = "sent" <=> mac[n].currentDataPacket.to = Broadcast
      BY DEF Hows
    <2> HIDE DEF how
    <2>4. Link!Settle(n)
      BY <1>1, <2>1, <2>2, <2>3, SettleStep
    <2> QED  BY <2>4 DEF Link!Next
  <1>3. CASE ~(mac[n].macState = "DATA_TRANSMITTING" /\ GivesUp(mac[n]))
    BY <1>1, <1>3 DEF TransmissionEnd, Link!linkVars
  <1> QED  BY <1>2, <1>3

\* Every step of the interfaces is a step of the link as the network layers see it,
\* or none.  That every packet is settled (Link's fairness) is left to the runs.
THEOREM LinkSafety == Spec => Link!Init /\ [][Link!Next]_(Link!linkVars)
  <1>1. Init => Link!Init
    <2> SUFFICES ASSUME Init PROVE Link!Init
      OBVIOUS
    <2>1. \A n \in Nodes : outcome[n] = <<>>
      BY DEF Init
    <2>2. \A n \in Nodes : Told[n] = <<>>
      BY <2>1 DEF Told
    <2> QED  BY <2>2 DEF Init, Link!Init, Told
  <1>2. DeliveryInv /\ DeliveryInv' /\ [Next]_vars => [Link!Next]_(Link!linkVars)
    <2> SUFFICES ASSUME DeliveryInv, DeliveryInv', [Next]_vars
                 PROVE  [Link!Next]_(Link!linkVars)
      OBVIOUS
    <2>1. ASSUME NEW n \in Nodes, InsertPacket(n) PROVE Link!Next
      BY <2>1, OfferStep DEF Link!Next
    <2>2. ASSUME NEW n \in Nodes, NEW s \in Nodes, SignalEnd(n, s)
          PROVE  [Link!Next]_(Link!linkVars)
      BY <2>2, SignalEndLink
    <2>3. ASSUME NEW n \in Nodes, TransmissionEnd(n)
          PROVE  [Link!Next]_(Link!linkVars)
      BY <2>3, TransmissionEndLink
    <2>4. ASSUME NEW n \in Nodes, NEW s \in Nodes,
                 DataTimerEvent(n) \/ AckTimerEvent(n) \/ Airborne(n) \/ SignalStart(n, s)
          PROVE  UNCHANGED linkVars
      BY <2>4 DEF DataTimerEvent, AckTimerEvent, Airborne, SignalStart
    <2>5. CASE NextSlot \/ SlotContinues \/ UNCHANGED vars
      BY <2>5 DEF NextSlot, SlotContinues, vars, linkVars, Link!linkVars
    <2>6. UNCHANGED linkVars => UNCHANGED Link!linkVars
      BY DEF linkVars, Link!linkVars
    <2> QED  BY <2>1, <2>2, <2>3, <2>4, <2>5, <2>6 DEF Next
  <1> QED  BY <1>1, <1>2, InitDelivery, NextDelivery, PTL DEF Spec

=============================================================================
