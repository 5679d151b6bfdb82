# Verification of Scenargie 2.1

TLA+ models of parts of the Scenargie 2.1 network simulator
(`src/scenargie_simulator/2.1/source/`), the TLC runs that check them and TLAPS
proofs about them. Paths below are relative to that directory.

1. [The system](#1-the-system) 2. [Plan](#2-plan) 3. [ALOHA](#3-aloha)
4. [802.11 Block Ack](#4-80211-block-ack) 5. [802.11 channel access and WAVE](#5-80211-channel-access-and-wave)
6. [802.11 management](#6-80211-management) 7. [Runs](#7-runs) 8. [Proofs](#8-proofs)
9. [Where code and comments disagree](#9-where-code-and-comments-disagree)
10. [Not modelled](#10-not-modelled)

## 1. The system

Scenargie is a discrete event simulator. Everything runs in one thread per
partition: an object schedules events with the engine, the engine runs them in
the order of their times, and events of one time in the order in which they were
scheduled. What is concurrent is the *simulated* system: nodes, timers and
signals interleave in any order that delays, jitter and propagation allow. The
engine itself is a binary; only its interface (`simulator/scensim_engine.h`) is
in the repository.

| Component | State it keeps | Operations | Interacts with | Hard behaviour | What makes it correct |
|---|---|---|---|---|---|
| ALOHA PHY (`simulator/aloha/aloha_phy.*`) | transmitter and receiver state, source being received, error flag, count of interfering signals | TransmitAFrame, start and end of a transmission, start and end of a signal | MAC (calls, callbacks), propagation model | any overlap of signals with each other and with the node's own transmission; one error flag for all of it | the count is exact, no frame that was hit is taken for good, the receiver never stays deaf |
| ALOHA MAC (`simulator/aloha/aloha_mac.h`) | macState, output queue, current packet, sequence numbers, retry count, waiting acknowledgements, a data timer, acknowledgement events that cannot be cancelled | queue notification, data timer, acknowledgement event, frame received, transmission complete | PHY, output queue, network layer | losses, a repeated frame or a late acknowledgement at any moment, acknowledgement and data competing for the transmitter | at most once and in order, an acknowledgement belongs to its packet, never waits without an event, assertions hold |
| 802.11 Block Ack (`dot11/dot11_incoming_buffer.h`, parts of `dot11_mac.h`, `dot11_headers.h`) | receiver: window, bitmap, reordering buffer; transmitter: numbers, window, packet or aggregate in hand, retry counts, "block ack request needed" | receive frame, subframe, block ack request; backoff end, ACK, BA, timeout | PHY (owns the frame on the air), access categories, network layer | numbers that wrap, partly acknowledged aggregates, frames given up while the receiver waits for them, lost requests and replies | in order and at most once; acknowledged means received; nothing stays in the buffer; both sides' assertions hold |
| 802.11 EDCA (`dot11/dot11_mac.h`) | per access category: backoff, contention window, queue, TXOP; NAV; MAC state | channel busy/clear, backoff timeout, internal collision, RTS/CTS | PHY, Block Ack, queues | several backoffs that end together, pausing and resuming them, NAV against the carrier | a category with packets has a backoff running, one transmission at a time |
| 802.11 stations and access points (`dot11_mac_sta.*`, `dot11_mac_ap.*`) | association state machine, channels, sleeping stations and their buffers | scan, authenticate, associate, hand over, power save | MAC, Distribution system | lost management frames, timeouts that race with late answers, handover with packets in hand | the two ends agree on the association, buffered packets are sent or dropped |
| 802.11 PHY and rate control | signal being received, interference, error model | like the ALOHA PHY, with aggregates | MAC, propagation | floating-point error rates | consistent half-duplex state |
| ITS DCC (`its/geonet_dcc.h`) | vehicles heard lately | scan a frame, look up power, rate, threshold | GeoNetworking MAC | - | tables looked up with a count of vehicles |
| ITS T109, WAVE (`its/t109_*.h`, `its/wave_*.h`) | periods, channel in use, queues | period timers, transmit | PHY | a transmission at the end of a period | transmissions stay inside their period and channel |
| ITS GeoNetworking (`its/geonet_*`, `its/its_app.h`) | location table, packets, facilities | forward by area | DCC, WAVE | duplicates | loop-free forwarding |
| ARP, NDP (`simulator/scensim_arp.h`, `scensim_ndp.h`) | cache, packets waiting for an address | request, reply, timeout | network layer, MAC | replies racing timeouts | packets leave or are dropped once |
| Interface queues (`simulator/scensim_queues.h`) | queues by priority | insert, dequeue | network layer, MACs | limits | bounded, FIFO within a priority |
| DTN bundles (`simulator/scensim_bundle.h`) | stored bundles, copies left | send bundle, request, acknowledge | UDP | copies lost or duplicated | copies conserved |
| Network, transport, mobile IP, applications | routes, sockets, counters | forward, deliver | everything below | mostly adapters of vendored code | - |
| Propagation, fading, GIS, mobility; multi-agent; multi-system | geometry, agents, configuration | - | - | numerical | - |
| Vendored protocols (FreeBSD TCP, ISC DHCP, AODV, OLSR, boost) | - | - | - | third-party | - |

The hazards of this code, each at its line and with the properties that cover it
(or the reason why none does), are in `PROJECT.json`.

## 2. Plan

The project is about medium access: the layers in which this simulator does its own
work and in which orders of events decide. The modules, in the order they were
built:

1. **ALOHA**: the smallest complete interface: PHY, channel, MAC, queue.
   `AlohaFrames`, `AlohaPhy`, `AlohaMac`, composed by `Aloha`; abstract
   specification `AlohaLink`, refined by `Aloha`.
2. **802.11 Block Ack**: the most intricate protocol of the repository.
   `Dot11IncomingBuffer` and `Dot11BlockAckSender`, composed by `Dot11BlockAck`;
   `Dot11AnyTransmitter` for what the receiver guarantees on its own.
3. **802.11 channel access**: `Dot11EdcaMac` (MAC and carrier sense, as functions),
   composed with the world around one station by `Dot11Edca`.
4. **WAVE**: `WaveMac` composes two MACs of `Dot11EdcaMac` with the timer that moves
   the PHY from channel to channel.
5. **802.11 management**: `Dot11Management`, stations and access points.

Proved by now (section 8): the safety of ALOHA down to the refinement of `AlohaLink`,
the reordering buffer of Block Ack, the safety of the whole Block Ack protocol, the
safety of 802.11 management, the safety of WAVE, and that of one contending station:
every invariant that a passing run checks except `BackoffIsTimed`. Worth adding next: transmit opportunities of
several exchanges in `Dot11EdcaMac`, and a model of two contending stations.

## 3. ALOHA

**Modules.** `AlohaFrames` has the types. `AlohaPhy` is the PHY of every node with
the channel between them; it is also a specification of its own (`PhySpec`, a MAC
that transmits whenever the PHY's assertion allows). `AlohaMac` has the MAC's
handlers as functions from a MAC record to a MAC record, because in the code the
handlers call each other. `Aloha` joins both: one action per event of the
simulator. `AlohaLink` states what the network layers may rely on.

| Code | Model |
|---|---|
| `AlohaPhy::TransmitAFrame`, `StartTransmission`, `EndCurrentTransmission` | operators of the same names; actions `DataTimerEvent`/`AckTimerEvent`, `Airborne`, `TransmissionEnd` of `Aloha` |
| `StartReceivingSignalFromChannel`, `EndReceivingSignalFromChannel` | the same names; `SignalStart`, `SignalEnd` |
| members of `AlohaPhy` | the variables of `AlohaPhy`, by node |
| members of `AlohaMac` | the fields of `mac[n]`; an event ticket is a Boolean, acknowledgement events (which have no ticket) are counted |
| output queue, `NetworkLayerQueueChangeNotification` | `networkOutputQueue`, `InsertPacket` |

`attempts`, `offered`, `outcome` and `received` are history: what the network
layers asked for and got.

**Time.** The order of events is kept and durations are not: a retry interval, a
jitter or a frame may be of any length. Three facts about time are kept because
the code relies on them. (1) `delayUntilAirborne` is at least the propagation
delay, so a node's previous signal has passed before its next one starts. (2)
Unslotted, an acknowledgement event is due at once, and frames have positive
length, so it runs before a signal that began later can end. (3) Slotted, timers
fire at the start of a slot, an acknowledgement at the start of the next one, and
a slot holds a frame and its propagation. `slotBegins` divides a slot's beginning
from the rest of it.

**Losses.** Whether the power of a signal passes the threshold at a receiver is
chosen for each transmission (`reached`), so any pattern of losses and
collisions, of nodes at rest or moving, is covered. Every signal carries a complete
frame (`HasACompleteFrame`), as the MAC sends no noise frames.

**Bounds.** Two stations, one with two packets and one with one, and
`RetryLimit = 1` give late, repeated and crossing acknowledgements for a previous
packet. Hidden terminals (`left`, `right`, and `middle` that hears both and
broadcasts) give the collisions that two stations cannot have; at `middle` one signal
is received, one interferes and one is its own, which is all that the PHY tells
apart. `MaxPackets` is the bound on every counter.

**Fairness** (`FairSpec`). The engine runs every scheduled event, hence weak
fairness for acknowledgement events, transmissions and signals. A data timer is
set for some later slot and so can be ready and passed over at many slot starts
before its own; it gets strong fairness. The network layer need not send.

`CHECK_DEADLOCK FALSE`: after the last packet nothing remains to be done.

## 4. 802.11 Block Ack

**Modules.** `Dot11IncomingBuffer` is `IncomingFrameBuffer` for data frames: the
number that arrives (mod 4096 in the code, `SeqMod` here) becomes a number that
does not wrap, frames set bits in a bitmap of `W` (64 in the code) and wait in the
buffer until the ones before them have come. The three loops of the code over
bitmap and buffer are given by what they compute (`EndOfRun`, the frames
released). `Dot11AnyTransmitter` puts any transmitter at all in front of it.
`Dot11BlockAckSender` has the transmitter's handlers for one destination and
traffic id as functions on a record, and `Dot11BlockAck` joins both by a medium
with one signal at a time.

| Code (`dot11_mac.h`) | Model |
|---|---|
| `NetworkLayerQueueChangeNotification`, `StartPacketSendProcessForAnAccessCategory` | `PacketArrives` with the operators of the same names |
| `ProcessInterframeSpaceAndBackoffTimeout`, `CalculateAndSetTransmitOpportunityDurationAkaTxop` | `BackoffTimeout` with `AtBackoffTimeout`, `StartTxop` |
| `TransmitAFrame`, `RetrievePacketFromNetworkLayerForAccessCategory`, `BuildAggregateFrameFromCurrentFrame`, `TransmitAnAggregateFrame`, `TransmitABlockAckRequest` | `ReadyToTransmit` (with `Retrieved`, `MayAggregate`, `EnableSession`), `WhatToSend`, `AfterTransmission`, `SignalOf` |
| `ProcessAcknowledgementFrame`, `ProcessBlockAckFrame` and `DoSuccessfulTransmissionPostProcessing` | `AckReceived`, `BlockAckReceived`, `AfterSuccess` |
| `NeverReceivedClearToSendOrAcknowledgementAction`, `DropCurrentPacketAndGoToNextPacket`, `DropCurrentAggregateFrameAndGoToNextPacket` | `AckTimeout` with `NeverReceivedAcknowledgement`, `DropCurrentPacketAndGoToNextPacket`, `DropAggregate` |
| `ProcessDataFrame`, `ReceiveAggregatedSubframeFromPhy`, `NotifyThatPhyReceivedCorruptedAggregatedSubframe` | `ReceiveFrame`, `ReceiveSubframe`, `CorruptedSubframe` |
| `ProcessBlockAckRequestFrame` | `ReceiveBlockAckRequest` |
| `IncomingFrameBuffer::UpdateReceivedFrameBitmap`, `ProcessIncomingFrame` | `UpdateReceivedFrameBitmap`, `BufferSubframe`, `AcceptWithoutSession` |

`up`, `offered`, `outcome` and `opener` are history: packets passed up, queued, how
each ended, and which one was in hand when the session was opened.

**Abstractions.** Frames are below the RTS threshold. One access category and one
traffic id below the management priority, so the sequence is that of data frames
only. The TXOP may be granted or not and may end after any exchange; an aggregate
gets any allowed number of frames, since the time left decides. Other traffic
only delays. Whether frames are aggregated without a TXOP is configured
(`AllowFrameAggregationWithTxopZero`): the runs take the default, the theorems cover
both. At most one signal is on the air and an acknowledgement timeout
comes when there is none: the timeout is longer than the reply takes.

**Bounds.** `W` = 2 or 3 (the code's 64): aggregates of several frames, gaps inside
them, and frames beyond the window all occur. `SeqMod` = 16 is more than twice what
can be given up in a row with 5 or 6 packets; `outage` uses 8 to show what happens
otherwise. `block_ack` has two starts (`Starts`): as the code does, without a session, which
opens on the way; and with an open session at number 13, so that numbers wrap, and
with aggregates that a single acknowledged frame protects. An open session has seen
the request for number `firstNumber` and the frame of that number, which is what the
opening of a session leaves when the frames sent next get through. `RetryLimit = 2`
separates the first retry from the last attempt. The reordering buffer alone is
checked with `W` = 4, as more than one gap needs room.

**Fairness** (`Spec` includes it). Weak fairness for the backoff, for the
acknowledgement timeout and for the end of the signal on the air: all are events
scheduled with the engine. Losses are not fair and may go on for ever: a frame is
then given up at its retry limit. The network layer need not send.

**Two exceptions in the properties.** `AckedIsReceived` exempts the packet that
was in hand when the session was opened and `EveryPacketIsSettled` ends in
`Stopped` when the access category has stopped with an aggregate in hand. Both are
what the code does; the runs `opening_frame` and `forgotten_aggregate` show them
(section 9). The start with an open session never has an `opener`, so there the
first exception does not apply.

`CHECK_DEADLOCK FALSE`: when everything is settled (or the category has stopped)
nothing remains to be done.

## 5. 802.11 channel access and WAVE

**Modules.** `Dot11EdcaMac` has one MAC (`dot11/dot11_mac.h`) with the carrier sense
of its PHY (`dot11/dot11_phy.h`). The two call each other in the middle of their
handlers, so every handler is a function from the station's record to the record
after it, and a handler that calls another applies its function. `failed` records
that an `assert` of the code did not hold. `Dot11Edca` adds packets that arrive,
signals of other stations and replies. `WaveMac` (`its/wave_mac.h`) has two MACs; the
PHY part of the record is that of the MAC the PHY is attached to, the other one
sees a silent PHY.

| Code | Model |
|---|---|
| `NetworkLayerQueueChangeNotification`, `StartPacketSendProcessForAnAccessCategory` | `Arrive` with the operators of these names |
| `StartBackoffIfNecessary`, `StartBackoffForCategory`, `PauseBackoff`, `SubtractElapsedTimeFromBackoff`, `ProcessInterframeSpaceAndBackoffTimeout` | operators of the same or a shorter name; `WakeupTimer` |
| busy and clear channel notifications, `ProcessNavExpiration` | `BusyChannelNotification`, `ClearChannelNotification` with `GoOnWhenClear`, `NavExpiration` |
| `TransmitAFrame`, `RetrievePacketFromNetworkLayerForAccessCategory` | `TransmitAFrame`, `TransmitCurrentPacket`, `RetrievePacket` |
| `ReceiveFrameFromPhy` and the handler of every frame type | `ReceiveFrameFromPhy` and `Process...`; one operator per type |
| `Dot11Phy`: signal arrival and end, start and end of a transmission, `SwitchToChannels` | `ProcessNewSignal`, `ProcessEndOf...Signal`, `StartOrEndTransmission`, `SwitchToChannels`; the actions `ForeignSignalStarts`, `ReceivedSignalEnds`, `OtherSignalEnds`, `TransmissionTimer` |
| `WaveMac::PhyEntity`, its timer event | `TxRxEnd`, `SuspendTransmission`, `StartChannelSwitching`, `TxRxStart` |
| `SuspendTransmissionFunction`, `ResumeTransmissionFunction` | the same names |

`quiet` and `gap` are history: how long the medium has been free, and how long it was
before the frame now starting. `stale` is `currentWakeupTimerExpirationTime` where it has
no timer: a suspension cancels the timer but leaves its expiration time, and
`StartBackoffForCategory` sets no timer for a backoff that ends at that very time.

**Time** is counted here, in ticks, because backoffs, interframe spaces and
permissions are subtracted from one another. Times are relative to now (a timer is
the time left), so that no clock grows. `TimePasses` is a tick; everything due at an
instant happens, in any order, before the next one. Beyond the longest interframe
space only the position in the slot matters, so `idleFor` is kept modulo a slot
there.

**The world.** A signal may reach the station at any tick, with a preamble it detects
or not, and loud or not: `others` counts signals whose energy alone makes the medium
busy, and a reception that is captured or broken off by an own transmission
is one of them only if it is loud. Signals that are not loud are taken not to add up to the
threshold. Carrier detection is off, as by default (`dot11_phy.h:1164`). A signal ends after a tick or more, as a frame for another station with any
reservation up to `MaxReserved`, a group frame, a data frame or an RTS for this
station, or corrupt. A frame that asks for a reply may get one a SIFS after its end,
which may be hit. A draw of backoff slots is any number up to the window. The
queue may hand out any packet of it or none, as in the code packets are dropped
whose lifetime is over or whose next hop is unknown.

**Bounds.** `edca`: two categories with one packet each, the second an interframe
space of one slot less and a window that doubles; two foreign signals, which can
overlap each other, the station's frames and its replies; `RetryLimit = 2` separates
the first retry from the last attempt; an RTS, CTS or data frame of one or two
ticks, a slot of two, so that a signal can come at, before and after every slot
boundary. `wave`: intervals of 12 and 9 ticks hold a frame exchange and leave its
last frame out; a packet for the control channel, two foreign signals; a reply lasts
three ticks and is checked as one, so that it can outlast the interval. The service
channel's MAC has no packet of its own but answers frames. The numbers of the
standard (9 us, 50 ms) would only add ticks in which nothing happens.

**Fairness.** `edca`: time passes when nothing is due, what is due is run, every
signal ends; the last three are stated as `[]<>` of the state that makes them true,
which says the same as weak fairness of the events and is far cheaper to check.
`wave`: the same, without the end of signals (it is not needed for the switch).
The engine runs every event it holds and no handler schedules another at the same
instant without end. Neither losses nor foreign signals are fair.

**What the properties say.** `TimerIsEarliest` and `WaitsForInterframeSpace` are about
the bookkeeping that every interruption updates; `BusyStateMatchesPhy` about two
state machines that are told of changes and never compare notes;
`NothingIsForgotten` and `EverythingSettles` about every way a frame exchange ends;
`UnacknowledgedFrameIsTakenBack` about who owns the frame. `WaitsForInterframeSpace`
leaves out the data frame after a CTS, for which `lastSent` is `LONG`. For WAVE,
`PermissionIsForInterval` ties the MAC's permission to the timer of the PHY entity,
and `ServesBothChannels` and `DataEndsInInterval` say what the alternation is for;
`BackoffIsTimed` says that an expiration time left by a suspension never makes a MAC
wait for a timer that does not exist.

`CHECK_DEADLOCK FALSE` in the WAVE runs: after a failed assertion the program has
ended.

## 6. 802.11 management

**Module.** `Dot11Management` has stations (`dot11/dot11_mac_sta.*`) and access points
(`dot11/dot11_mac_ap.*`). Every timer event of a station is a member of `events`; the
management frame queue of a MAC is `toAp[s]` or `toStation[a]`, whose first frame is
received or given up. (The receiver recognises a repeated management frame by its
number, `dot11_mac.h:6268`, so a repetition is left out.)

| Code | Model |
|---|---|
| `StartChannelScanning`, `ChannelScanTimedOut`, `FinishChannelScanning`, `GetChannelAndDurationToScan` | `InitializationEvent`, `ChannelScanTimedOut`, with `StartChannelScanning`, `ScanNextChannel`, `ApToSwitchTo` |
| `SwitchToAnotherAccessPoint`, `StartAuthentication` | `StartAuthentication` |
| `AuthenticationTimeout`, `ProcessAssociateFailure` | `HandshakeTimeout` |
| `CheckLinkStatus`, `CalculateLinkStatus`, `Disassociate` | `CheckLinkStatus`, `Disassociate` |
| `ProcessBeaconFrame`, `ReceiveBeaconInfo` | `ReceiveBeacon`, `AfterBeacon`, `Averages` |
| `ProcessManagementFrame` of the station | `StationReceives` with `ProcessAuthenticationFrame`, `ProcessAssociationResponse` |
| `ProcessManagementFrame` of the access point, `AddNewAssociatedStaRecord`, `SendAuthenticationEvent` | `ApReceives` with an operator for each frame type; `SendAuthentication` |
| `RequeueBufferedPackets`, a change of channel during a transmission | `HeadMayBeLost` |

**Abstractions.** Received power is one of a few levels, the same in both
directions; a moving average comes some way nearer to the level received, or stays.
Beacons are heard in every state and in any number; in every scan of a channel and
between two checks of the link there must be one of each access point that is in reach,
or it is lost (`due`).

**Disturbances.** In a quiet network everything works at once. A move, a lost
beacon, a frame given up although the receiver hears the sender, and a handshake
timeout while frames of the handshake are still on their way are *disturbances*, and
`MaxDisturbances` bounds how many there will be. A frame to someone out of reach is
always given up and costs nothing.

**Bounds.** Two access points on two channels, one station that may move between and
away from them and one that stays, so numbers are taken, given back and taken
again; `MaxAssociationId = 2` makes numbers be used again at once. Three disturbances
suffice for the stale answers below; a fourth takes TLC beyond reasonable time.

**Fairness**: every event is run, the MACs send or give up what they have queued,
beacons do not cease. Weak fairness suffices for these, as none of them is ever
disabled without having happened or having been cancelled. The moving average may stay,
as its coefficient may be 0.0 (`dot11_mac_sta.h:693`); one strong fairness says that it
comes nearer in the end (`TellingBeacon`), which it does with any other coefficient.
With 0.0 a station would never notice that its access point is leaving, and the average
of one once good would hide every other.

**Two exceptions in the properties** are what the code does.
`AssociationIsAgreed` is about a response to the station's latest request
(`answered`). The station takes any association response of its access point for the
answer (`dot11_mac_sta.cpp:167`), and any authentication frame at all (149). After two
late timeouts and a lost beacon, an answer to an earlier attempt can make it
associated with an access point that has meanwhile processed its disassociation and
has no record of it. `GetsAssociated` exempts a station that goes for an access point
whose average was good and that it no longer hears: averages are never forgotten
(`dot11_mac_sta.h:867`), so it authenticates in vain with that one again and again
although another is in reach.

**Left out**, as nothing asks for it in the source: the default
`ChannelScanningController` never schedules a background scan
(`nextScanStartTime` stays `INFINITE_TIME`) and never asks an associated station to
switch, and nothing installs another controller. So power save frames,
reassociation, handover without a scan and the buffers for sleeping stations are
not reached. An access point never sends a disassociation.

## 7. Runs

| Run | Checks | Shows |
|---|---|---|
| `aloha_hidden` | `AssertionsHold`, `AttemptsAsConfigured`, `InterferenceCountExact`, `GoodFrameIsAlone`, `HitFrameStaysBad` | hidden terminals: the asserts of MAC and PHY hold, retries are counted right, the PHY's bookkeeping is exact under any overlap |
| `aloha_slotted` | `SlottedNeverExits` | with slots, the branch of `ProcessReceivedDataFrame` that ends the simulation is unreachable |
| `aloha_link` | `TypeOK`, `NeverStalls`, `AtMostOnceInOrder`, `AckedWasReceived`, `EveryPacketIsSettled`, `ImplementsLink` | two stations, any losses: in order, at most once, no acknowledgement mistaken; under fairness every packet is settled; `Aloha` implements `AlohaLink` with its liveness |
| `any_transmitter` | `WindowConsistent`, `BufferMatchesBitmap` | the reordering buffer is consistent whatever numbers arrive |
| `block_ack` | `TypeOK`, `ReceiverAssertionsHold`, `SenderAssertionsHold`, `DeliveredInOrder`, `AckedIsReceived`, `BufferedFramesGetReleased`, `OutcomeIsFinal`, `EveryPacketIsSettled` | the protocol from the first frame on, through the opening of the session; and with wrapping numbers and protected aggregates |
| `edca` | `TypeOK`, `AssertionsHold`, `BusyStateMatchesPhy`, `NothingIsForgotten`, `UnacknowledgedFrameIsTakenBack`, `WaitsForInterframeSpace`, `TimerIsEarliest`, `EverythingSettles` | a station with two categories among signals that come at any tick: all asserts hold and every packet is settled |
| `wave` | `SilentWhileSwitching`, `PermissionIsForInterval`, `BackoffOnlyOnOwnChannel`, `BackoffIsTimed`, `DataEndsInInterval`, `ServesBothChannels` | transmissions keep to the interval of their channel, no backoff is without a timer and the alternation never stops |
| `association` | `TypeOK`, `OneEventWaits`, `AssociationIsAgreed`, `GetsAssociated` | stations and access points agree, and a station in reach is associated in the end |
| `opening_frame` (violation) | `FrameBehindWindowWasReceived` | section 9 |
| `forgotten_aggregate` (violation) | `IdleHoldsNothing` | section 9 |
| `outage` (violation) | `BlockAckRequestMovesForward` | section 9 |
| `wave_cts` (violation) | `NoAssertionFails` | section 9 |

The operators introduced by a comment "A mutant: ..." are not part of the models.
Each is a plausible mistake in the definition that follows it, and `PROJECT.json`
names the property that fails when it takes that definition's place.

## 8. Proofs

`X_proofs` extends `X` (`Dot11IncomingBuffer_proofs` and `Dot11EdcaMac_proofs`
hold lemmas about operators; the theorems that rest on them are in
`Dot11AnyTransmitter_proofs` and `Dot11BlockAck_proofs`, and in `Dot11Edca_proofs` and
`WaveMac_proofs`). All theorems hold for
every value of the constants that satisfies the named assumptions of the modules:
any finite set of nodes, any reachability, any retry limit, window and modulus, any
number of access categories and any timing.
Only the theorems of `Dot11BlockAck_proofs` have a hypothesis beyond these,
`NumbersSuffice`.

**`Aloha_proofs`, the PHY** - `PhyInvariants`, `HitFramesStayBad`. The inductive invariant
`PhyInv` is the type invariant with `InterferenceCountExact`, `ScanningIffSilent` and
`GoodFrameIsAlone` - together, as they need one another: the count at the end of a
signal is right only if the source remembered is on the air, and whether the
receiver scans again is decided by the count.

**`Aloha_proofs`, the interfaces** - `TypeCorrect`, `NoAssertionFails`,
`NeverStallsAtAll`, `SlottedRunsOn`, `CollisionsNeverGoUp`, `InterferenceAlwaysExact`.
Whether the MAC's assertions hold depends on the PHY and the other way round. The invariant `Inv` is `PhyInv`, for every MAC an invariant of its record
(which timer may be set in which state, which state has acknowledgements waiting),
the coupling of `macState` with `phyTxState`, and, slotted, that acknowledgements
wait only between the end of the signals and the next slot. Each handler gets a
lemma on records; each event a lemma that uses them. The unslotted assertion that
only one acknowledgement is pending rests on fact (2) above, which is the guard
`SignalMayEnd`.

**`Aloha_proofs`, delivery** - `DeliveredAtMostOnceInOrder`, `AcknowledgedWasReceived`,
`AttemptedAsConfigured`, `LinkSafety`. What the network layer may rely on. The three
properties are not inductive; `DeliveryInv` adds to `Inv` where a frame can come from:
every data frame on the air or at an antenna, and every acknowledgement that waits or
travels, carries a number its origin used, no later than the present one
(`GenuineFrames`); the frame of the present number is the packet in hand
(`LatestGoesOut`, `Sending`); a receiver that got the present number remembers it
(`RemembersLatest`), and an acknowledgement of the present number exists only if the
packet was delivered (`NoEcho`). With these, a receiver that hears a number it does
not remember hears a new packet, and a transmitter that hears an acknowledgement of its
present number knows that the packet arrived. `LinkSafety` follows: the initial states
of `Aloha` are initial states of `AlohaLink` under the refinement mapping, and every
step is one of its steps or changes nothing it sees. (Its fairness stays with TLC.)

**`Dot11Management_proofs`** - `ManagementTypeCorrect`, `OneTimerPerStation`,
`BothSidesAgree`. `Inv` has for every station that one event waits for it and that it
has an access point whenever its state says so; for every access point that the
numbers in use are those of its records, that no two records share one and that none
exceeds the latest given out - so that the least free number, which the code searches
for without a check, exists as long as there are as many numbers as stations
(`FreshAssociationId`, by counting). Agreement needs the *order* of a station's queue:
while it waits for a response, no disassociation is queued behind its latest request
(`NoDisassociationBehind`). So the record that the request makes is still there when
the response is read, and stays as long as the station remains
(`Registered`). There are two lemmas for most steps, one for those that give up an
attempt and owe nothing (`GivesUpAttempt`), one for those that leave every attempt where
it is (`KeepsAttempts`).

**`Dot11IncomingBuffer_proofs`, `Dot11AnyTransmitter_proofs`** - `BufferTypeCorrect`,
`WindowAlwaysConsistent`, `BufferAlwaysMatchesBitmap`. `BufferInv`: in a session the
bitmap lies in the window, has all that is below the lowest missing number and not
that number, and the buffer holds one frame for each bit above it; without a session
both are empty. The code's loops trust exactly this: the loop that
releases frames takes the buffer's first frame for the bit that it just passed.
`EndOfRunLemma` says what the loops compute; there is a lemma each for a frame in
order, one out of order in the window, one beyond it, and a block ack request.

**`Dot11BlockAck_proofs`** - `BlockAckTypeCorrect`,
`ReceiverAssertionsAlwaysHold`, `SenderAssertionsAlwaysHold`, `InOrderDelivery`,
`AcknowledgedIsReceived`, `BufferGetsReleased`, `PacketsEndOnce`: every safety property
of the run `block_ack`. The two ends share nothing but numbers modulo `SeqMod`, and
the receiver's assertions hold only if the transmitter keeps to a window that it is
not told. The invariant `Inv` therefore gives every packet `p` the number `f + p` that it has for
the receiver (`f` changes once, when the session opens and the receiver's numbers start
again), and says that there are `f`, a count `taken` of packets
that have left the queue and a packet `d`, the one given up last, such that

* the transmitter's frames carry their numbers, in order, fewer than `W` apart, and lie
  where `lastSentFrameWasAn` says (`SenderOK`: `PlacesOK`, `RequestOK`, `NumbersOK`, `OrderOK`,
  `DropOK`); a request that is due carries the number after `d`;
* the receiver's buffer is consistent (`BufferInv` of the any-transmitter proof) and has
  delivered what it does not wait for (`ReceiverOK`);
* in a session, a packet the transmitter no longer holds has been received or
  comes no later than `d`, and then a request is due (`WindowOK`);
* the signal on the air is the transmitter's last frame, what is left of it, or a
  reply that is still true (`AirOK`); a packet acknowledged was received (`OutcomesOK`).

From this, with no request due, the lowest number missing is that of a frame still
held or the next one (`LowestMissing`). So every frame that comes lies within `W` of
it, gets its true number in the receiver and never pushes the window past a missing
frame (`FrameInReach`); a request only moves the window forward (`RequestInReach`).
Every operation of the transmitter has a lemma that says which frames it keeps, lets
go and gives up; every operation of the receiver one that says how far it advances
(`FrameEffect`, `RequestEffect`) and what it passes up (`SendUpOK`); every action a
lemma that puts them together.

`NumbersSuffice` is what the arithmetic of numbers modulo `SeqMod` needs: (1) `4 * W < SeqMod` (256
and 4096 in the code); (2) `2 * MaxPackets < SeqMod`: fewer packets than half the
numbers are queued, so no outage can use them up - beyond that the
assertion fails, run `outage`; (3) the session is not opened by a request for number
0, where an assertion fails as well (section 9). The run `block_ack` satisfies all
three. The last one was found by the proof, where the lemma on the opening of a
session did not go through; a check with a start that allows it showed the failure.

**`Dot11EdcaMac_proofs`, `WaveMac_proofs`** - `PhasesOfInterval`, `SwitchesInSilence`,
`PermissionFitsInterval`, `BackoffsWaitForChannel`, `DataFitsInterval`: every safety
property of the run `wave` but `BackoffIsTimed`, for any intervals, timing and number of access categories.
Two arguments meet here.

*What a MAC may do.* Everything that is checked against the permission is
checked deep in a handler (`ExceedsPermission`, `ReplyExceedsPermission`,
`StartBackoffIfNecessary`), and a handler gets there by many ways: a CTS that is
received, a backoff that ends while another category's begins, a channel that turns
clear inside the end of a signal. `Dot11EdcaMac_proofs` has a lemma for every operator
of `Dot11EdcaMac` that says what it does to the types and that it `Obeys`: it leaves the
permission alone; without one it neither sends nor starts to count down, nor changes
the end of the frame on the air; and with one, a data frame on the air ends before it
does and another frame at most `Overrun` later, the difference between a control frame's
duration at the rate it is sent at and at the rate it is checked at (`EndsInPermission`).
No assumption is made on the state of the MAC but its types, so these facts do not depend
on the bounds of a run. The four loops over the access categories are one
recursive function, `ForEachCategory`; `LoopInvariant` is their common induction.

*What the PHY entity does.* `WaveInv` says for each phase how far the interval has
come (`Since`) and when the timer is due: while transmissions are allowed
(`Operating`) the permission of the MAC the PHY is attached to is the time left on the
timer, which is the time left in the interval; afterwards nobody has a permission
(`Permissions`). A frame that is waited for ends before the timer is due
(`WaitingForFrame`); the switch ends no later than `Overrun`, the two halves of the
synchronization tolerance and the switching time after the interval began
(`Switching`). So the timer always finds the interval it expects: `SuspendTransmission`
asks for the channel that is not the present one, and that is right only if the interval
that began meanwhile has not ended too. This is where the assumption is used
that every interval outlasts the switch together with an overrun
(`WaveAssumption`; the intervals are parameters, read at `wave_mac.h:408`, and in the
standard 50 ms against a few milliseconds; with a longer switch
`CalculateCurrentTxRxOperationEndTime` would also return the end of an interval that is
over). That an interval is finite is said of `INFINITE`, the number that stands for no
time limit.

**`Dot11EdcaMac_proofs`, `Dot11Edca_proofs`** - `MacAndPhyAgree`, `StationTyped`,
`NoAssertionFails`, `MacKnowsItsChannel`, `EveryPacketMoves`, `FrameIsTakenBack`,
`FramesKeepTheirDistance`, `TimerServesAll`: every safety property of the run `edca`,
for any number of access categories, windows, interframe spaces and timeouts, with and
without attempts that skip the backoff, for any arrivals and any signals of others.
None of the properties is inductive, and none can be had without most of the others:
that no assertion fails when a backoff is interrupted needs that the slots counted off
were there, hence that the timer is that of the earliest backoff, hence how each
category's duration follows from its slots. `EdcaInv` has five parts:

* `MacOK` says, for every state of the MAC, what its PHY does and whether the timer is
  set. The delicate state is the wait for a reply: the timer is off while the frame is on
  the air, on for at most `ReplyTimeout` after it, and off again once it has ended
  while something is received - and then the PHY must be sensing, since only its next
  notification ends the wait.
* `InOrder` says of every category (`CategoryOK`) that its duration is that of its slots,
  or at most that of none when it tries without a backoff, which it does
  only while backoffs are counted; that a packet in hand is marked as to be sent
  (`hasPacketToSend`); and that a category without a backoff has nothing to send unless the exchange under way
  is its own (`ExchangeOf`).
* `CountingOK` says what the timer stands for while backoffs are counted. (Without
  channel intervals there is no suspension, so `stale` stays without a time.)
* `QuietOK` and `QuietEnough` relate the time the medium was free to the time each
  backoff still takes: what is left of it and what has passed add up to an
  interframe space. This carries `WaitsForInterframeSpace` through pauses,
  arrivals in the middle of a wait (`JoinsTheWait`, `JumpIsQuiet`) and the end of the
  timer (`QuietAtTheEnd`); `GapOK` holds it until the frame starts.
* `Settled`: between events the PHY has told that a silent medium is clear. Inside
  an event it need not have: `Consistent` is what holds whenever the MAC returns to the
  PHY, and the lemmas of the handlers are about it.

There is a lemma for every call between the two layers: the PHY's `SensesBusyOK`,
`SensesClearOK`, `ReceiveFrameOK`, `EndTransmissionOK`, and the MAC's `WakeupTimerOK` and
`ArriveKeeps`. The end of a backoff (`BackoffTimeoutOK`) is a loop in which one category
sends and those after it give way; `TryLoopOK` says what holds after each round.
`Dot11Edca` gains one assumption, `TimesAreFinite`: the longest backoff, timeout and
reservation are below `INFINITE`, which in the code is the greatest number a time can
have.

Proved facts are model-checked too, in the run that names the property
(`PhyTypeOK` and `ScanningIffSilent` are parts of the invariant only, and `BufferTypeOK`
is a part of the type invariant of `block_ack`). **Only
model-checked** are `BackoffIsTimed` and the liveness properties (`EverythingSettles` and
`ServesBothChannels` among them), with the fair part of the refinement of `AlohaLink`:
TLAPS proves nothing about fairness as used here. No model uses a RECURSIVE
operator, and no proof needs induction over data: where a set of numbers has to
have a least member, the library's theorem on well-founded relations says so; the
rounds of `ForEachCategory`, one for each category, are an induction over the numbers up
to `NumberAccessCategories`, which is had from least members too (`RoundsExist`,
`EveryRound`); and where frames are put in order (`InSequence`, `Unacked`) they are ranked
by how many of the others come before them, so that counting replaces induction
(`Ranking`).

## 9. Where code and comments disagree

* **The frame that opens a session** (`opening_frame`). The request that opens a
  Block Ack session carries the number after the frame in hand
  (`dot11_mac.h:3315`, `3794`); the comment at 3312 says the window begins "on the next
  data/management frame", and the comment at 783 that frames at and before that number
  "will not be resent". The frame in hand is sent after the request. It is behind the
  window: the receiver acknowledges it as a repeated frame and does not deliver it.
* **An aggregate forgotten** (`forgotten_aggregate`). An aggregate waits for its
  retry and the backoff ends: `dot11_mac.h:4253` looks at the packet in hand and at the
  queue, not at the aggregate. With an empty queue the category becomes idle with the
  aggregate in hand, although the comments (4252, 4265) say there is nothing to
  send, and a packet that is queued later does not wake it.
* **A long outage** (`outage`). Numbers are compared within half of the
  number space. Frames given up one after the other while the receiver hears
  nothing use up numbers; after about 2000 of 4096 the next block ack request
  seems to lie behind the window and `dot11_incoming_buffer.h:460` fails. The run does
  it with 8 numbers.

* **A CTS without a data frame** (`wave_cts`). Towards the end of a channel interval
  `TransmitAFrame` checks that the RTS fits before the permission ends
  (`dot11_mac.h:4053`), but not the data frame it asks for. When the CTS comes, the data
  frame does not fit and is not sent: `assert(packetWasSentToPhy)`,
  `dot11_mac.h:4619`, fails.

Four more things that the models show and no run is spent on. A session opened
by a request for number 0: the frame in hand has number 4095 and is sent after the
request. The receiver's window starts at 0, the frame's number becomes -1 in
`ConvertSequenceNumberToNonWrappingOne`, and `assert((difference >= 0) ||
(referenceSequenceNumber >= -difference))`, `dot11_incoming_buffer.h:189`, fails.
(`ReceiverAssertionsHold` fails in `block_ack` with a start without a session at a number
from which the packet that opens it can be the last one before the wrap.) A frame that does not
fit before the permission ends stays in hand with `hasPacketToSend` false
(`dot11_mac.h:4058`), and nothing sets it again: the category is silent in all later
intervals, so `NothingIsForgotten` would fail in the WAVE model. With two categories in the WAVE
model, a packet of the second may arrive in the very instant in which the permission
ends, before the event that suspends the transmissions: `StartBackoffForCategory` makes
the MAC idle (`dot11_mac.h:2402`) although the timer runs for the first category, and the
suspension cancels no timer of an idle MAC. The timer ends in `IdleState`, for which
`ProcessWakeupTimerEvent` has `assert(false); abort();` (`dot11_mac.h:5124`). The run
`wave` has one category and does not meet this. And the two exceptions of section 6.

## 10. Not modelled

* Within ALOHA: powers, statistics, traces, configuration.
* Within Block Ack: management and null frames in the same numbering, several
  traffic ids, RTS/CTS, packets whose lifetime ends or that wait for a sleeping
  station, change of the access point.
* Within the channel access: transmit opportunities that last longer than one
  exchange, power save polls, the change of channel while a frame is on the air
  (`ChangingChannelsState`), and a station whose packets are requeued in the middle of
  an exchange (`RequeueBufferedPackets`). Block Ack is a module of its own; it takes
  the backoffs of this one as a single step.
* Within WAVE: requests for continuous, immediate or extended access, which have no
  caller, and `wave_net.h`, which adds and removes headers.
* Within management: see section 6.
* 802.11 PHY and rate control: the numerics of signals, errors and rates.
* ITS T109: a broadcast MAC of the same structure as section 5's, with one category;
  its periods are arithmetic on times. ITS DCC: tables. GeoNetworking: geometry.
* ARP/NDP and the bundle store are self-contained and could be modelled; they lie
  outside medium access and would each need a module and runs of their own.
* Everything else of section 1: geometry and signal numerics (floating point),
  adapters of vendored protocols, configuration of multi-interface nodes, the
  multi-agent extension (its partitions exchange data through engine interfaces that
  are not in the repository), and the engine (binary).
