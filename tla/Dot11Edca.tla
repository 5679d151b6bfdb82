------------------------------ MODULE Dot11Edca ------------------------------
(***************************************************************************)
(* One 802.11 station that contends for its channel: packets arrive from   *)
(* the network layer, the signals of other stations start and end at any   *)
(* time, and a frame that asks for a reply may get one, SIFS later.        *)
(***************************************************************************)
EXTENDS Dot11EdcaMac

CONSTANTS Packets,        \* packets that will arrive, for each category
          MaxSignals,     \* foreign signals that will reach the station
          MaxReserved     \* the longest reservation a foreign frame announces

ASSUME EnvironmentAssumption ==
    /\ Packets \in [Categories -> Nat]
    /\ MaxSignals \in Nat /\ MaxReserved \in Nat

\* No time that comes up reaches INFINITE_TIME.
ASSUME TimesAreFinite ==
    /\ ReplyTimeout < INFINITE /\ MaxReserved < INFINITE
    /\ \A c \in Categories :
           NonExtendedBackoffDuration(c, MaxWindow[c]) + ExtendedDelay < INFINITE

VARIABLES station,
          toArrive,       \* packets still to arrive
          signals,        \* foreign signals still to come
          reply,          \* until the reply starts; INFINITE: there is none
          young           \* the signals that started at this instant, by the part they play

vars == <<station, toArrive, signals, reply, young>>

\* Every part of the station stays in its type; timers never end in the past.
TypeOK ==
    /\ station \in Stations
    /\ toArrive \in [Categories -> Nat]
    /\ signals \in 0 .. MaxSignals
    /\ reply \in 0 .. ShortInterframeSpace \cup {INFINITE}
    /\ young \in [receiving : BOOLEAN, others : Nat]

Init ==
    /\ station = InitialStation
    /\ toArrive = Packets
    /\ signals = MaxSignals
    /\ reply = INFINITE
    /\ young = NoYoung

\* The network layer puts a packet into the output queue and says so.
Arrive(c) ==
    /\ toArrive[c] > 0
    /\ toArrive' = [toArrive EXCEPT ![c] = @ - 1]
    /\ \E d \in Draws :
           station' = NetworkLayerQueueChangeNotification(
                          [station EXCEPT !.ac[c].queued = @ + 1], d)
    /\ UNCHANGED <<signals, reply, young>>

SignalReaches(signal) ==
    \E d \in Draws, preambleIsDetected, loud \in BOOLEAN :
        /\ station' = ProcessNewSignal(station, signal, preambleIsDetected, loud, d)
        /\ young' = YoungAfterSignal(station, young, preambleIsDetected, loud)

ForeignSignalStarts ==
    /\ signals > 0
    /\ signals' = signals - 1
    /\ SignalReaches("FOREIGN")
    /\ UNCHANGED <<toArrive, reply>>

ReplyStarts ==
    /\ reply = 0
    /\ reply' = INFINITE
    /\ SignalReaches("REPLY")
    /\ UNCHANGED <<toArrive, signals>>

ReceivedSignalEnds ==
    /\ station.phyState = "Receiving" /\ ~young.receiving
    /\ \E d \in Draws, frame \in FramesOf(station), reserved \in 0 .. MaxReserved :
           /\ frame # "OTHER" => reserved = 0
           /\ station' = ProcessEndOfReceivedSignal(station, frame, reserved, d)
    /\ UNCHANGED <<toArrive, signals, reply, young>>

OtherSignalEnds ==
    /\ station.others > young.others
    /\ \E d \in Draws : station' = ProcessEndOfOtherSignal(station, d)
    /\ UNCHANGED <<toArrive, signals, reply, young>>

TransmissionTimer ==
    /\ IsTransmittingAFrame(station) /\ station.txLeft = 0
    /\ \E d \in Draws : station' = StartOrEndTransmission(station, d)
    /\ reply' \in RepliesAfterTransmission(station', reply)
    /\ UNCHANGED <<toArrive, signals, young>>

WakeupTimer ==
    /\ station.timer = 0
    /\ \E d \in Draws, r \in AllRetrievals(station) :
           station' = WakeupTimerEvent(station, d, r)
    /\ UNCHANGED <<toArrive, signals, reply, young>>

TimePasses ==
    /\ NothingIsDue(station) /\ reply > 0
    /\ station' = Tick(station)
    /\ reply' = Left(reply)
    /\ young' = NoYoung
    /\ UNCHANGED <<toArrive, signals>>

Next ==
    \/ \E c \in Categories : Arrive(c)
    \/ ForeignSignalStarts
    \/ ReplyStarts
    \/ ReceivedSignalEnds
    \/ OtherSignalEnds
    \/ TransmissionTimer
    \/ WakeupTimer
    \/ TimePasses

\* The engine runs every event it holds: time passes when no event is due, an event
\* that is due is run, and every signal ends.
Fairness ==
    /\ WF_vars(TimePasses)
    /\ []<>(NothingIsDue(station) /\ reply > 0)
    /\ []<>(station.phyState # "Receiving")
    /\ []<>(station.others = 0)

Spec == Init /\ [][Next]_vars /\ Fairness

-----------------------------------------------------------------------------
(* Properties. *)

\* No assertion of the MAC and the PHY fails: a backoff is only started when none
\* runs (dot11_mac.h:2457), the timer only ends in a state that set it (5122), the
\* slots counted off were there (2684), an acknowledgement finds nothing in the
\* place of the frame the PHY holds (4881), the PHY only sends when it does not
\* (dot11_phy.h:1470).
AssertionsHold == ~station.failed

\* What the MAC believes of the channel is what its PHY hears, although busy and
\* clear are told by calls and not looked at: between events a MAC in a busy
\* state has a PHY that senses or sends (or it would wait forever), and one that
\* is idle or counts its backoff has a PHY that hears nothing.
BusyStateMatchesPhy ==
    /\ station.macState \in {"BusyMedium", "CtsOrAckTransmission"} =>
           station.sensing \/ IsTransmittingAFrame(station)
    /\ station.macState \in {"Idle", "WaitingForIfsAndBackoff", "WaitingForNavExpiration"} =>
           ~station.sensing /\ station.phyState = "Scanning"

HasSomethingToSend(c) == station.ac[c].queued > 0 \/ station.ac[c].packet # NONE

IsExchanging(c) ==
    station.last = c /\ (IsWaiting(station) \/ station.outgoing \in {"DATA", "RTS"})

\* A category that has something to send has a backoff to count down, or the
\* exchange of its frame is under way: no ending of an exchange, internal
\* collision or pause leaves a packet that only a later arrival would set moving.
NothingIsForgotten ==
    \A c \in Categories :
        HasSomethingToSend(c) =>
            IsExchanging(c) \/ station.ac[c].duration # INFINITE

\* The frame the PHY holds until it is acknowledged is taken back, or is done with,
\* by every way out of the wait for its acknowledgement: timeout, acknowledgement,
\* any other frame, a corrupted one, a clear channel after the timeout.
UnacknowledgedFrameIsTakenBack ==
    station.sent # NONE => station.macState = "WaitingForAck"

\* A frame sent after a backoff leaves the medium quiet for an interframe space
\* first, and for an extended one while the last frame received was corrupt:
\* whatever was interrupted, reserved or restarted before.
WaitsForInterframeSpace ==
    station.phyState = "TxStarting" /\ station.outgoing # "CONTROL"
            /\ station.lastSent # "LONG" =>
        station.gap >= ShortestInterframeSpace + (IF station.corrupt THEN ExtendedDelay ELSE 0)

\* The one timer stands for all categories that wait: it ends with the earliest
\* of their backoffs, also when one joins the wait of others.
TimerIsEarliest ==
    station.macState = "WaitingForIfsAndBackoff" =>
        station.timer = CurrentBackoffExpiration(station)

\* In the end every packet that arrived was sent, acknowledged, or given up, and
\* the PHY holds nothing: no interruption by other stations' signals, reservation
\* or lost reply leaves the station waiting for an event that does not come.
EverythingSettles ==
    <>[](\A c \in Categories : ~HasSomethingToSend(c) /\ station.sent = NONE)

=============================================================================
