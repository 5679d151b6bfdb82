------------------------------- MODULE WaveMac -------------------------------
(***************************************************************************)
(* The WAVE MAC (its/wave_mac.h): one PHY that alternates between the      *)
(* control channel and a service channel, each with an 802.11 MAC of its   *)
(* own.  The PHY part of a station is that of the MAC the PHY is attached  *)
(* to; the other MAC sees a silent PHY.                                    *)
(*                                                                         *)
(* Both channels are always in use, as the constructor leaves them.  The   *)
(* operations that change this at run time have no caller in the source.   *)
(***************************************************************************)
EXTENDS Dot11EdcaMac

CONSTANTS ChannelInterval,          \* channelIntervals, for each category
          HalfSyncTolerance,        \* syncTolerance/2
          MaxChannelSwitchingTime,
          Packets,                  \* packets that will arrive, for each channel category
          MaxSignals                \* foreign signals that will reach the station

ChannelCategories == {"CCH", "SCH"}

ASSUME WaveAssumption ==
    /\ ChannelInterval \in [ChannelCategories -> Nat \ {0}]
    /\ HalfSyncTolerance \in Nat \ {0} /\ MaxChannelSwitchingTime \in Nat
    /\ \A c \in ChannelCategories :
           2 * HalfSyncTolerance + MaxChannelSwitchingTime + ControlTime - ControlTimeChecked
               < ChannelInterval[c]
    /\ ChannelInterval["CCH"] + ChannelInterval["SCH"] < INFINITE
    /\ Packets \in [ChannelCategories -> Nat] /\ MaxSignals \in Nat

SyncInterval == ChannelInterval["CCH"] + ChannelInterval["SCH"]

VARIABLES mac,             \* macPtrs, with the PHY of the one it is attached to
          currentCategory,
          attached,        \* the MAC the PHY notifies, on whose channel it is
          event,           \* of the timer event, which is always scheduled
          eventTime,       \* until it is due
          now,             \* the time in the sync interval
          toArrive, signals, reply, young

waveVars == <<currentCategory, attached, event, eventTime>>
environmentVars == <<toArrive, signals, reply, young>>
vars == <<mac, waveVars, now, environmentVars>>

CategoryAt(t) == IF t < ChannelInterval["CCH"] THEN "CCH" ELSE "SCH"

\* CalculateCurrentTxRxOperationEndTime, from now.
OperationEnd ==
    (IF CategoryAt(now) = "CCH" THEN ChannelInterval["CCH"] ELSE SyncInterval) - now

\* A failed assertion ends the program.
Failed == \E c \in ChannelCategories : mac[c].failed

-----------------------------------------------------------------------------
(* The timer of the PHY entity. *)

Init ==
    /\ mac = [c \in ChannelCategories |->
                 [InitialStation EXCEPT
                     !.permission = IF c = "CCH" THEN ChannelInterval[c] ELSE 0]]
    /\ currentCategory = "CCH" /\ attached = "CCH"
    /\ event = "TX_RX_END" /\ eventTime = ChannelInterval["CCH"]
    /\ now = 0
    /\ toArrive = Packets /\ signals = MaxSignals /\ reply = INFINITE /\ young = NoYoung

\* A mutant: the permission is for a whole interval.
ResumeForWholeInterval ==
    /\ event' = "TX_RX_END" /\ eventTime' = OperationEnd
    /\ mac' = [mac EXCEPT ![currentCategory] =
                  ResumeTransmissionFunction(@, ChannelInterval[currentCategory])]
    /\ UNCHANGED <<currentCategory, attached, environmentVars>>

\* A mutant: only the control channel is resumed.
ResumeControlChannel ==
    /\ event' = "TX_RX_END" /\ eventTime' = OperationEnd
    /\ mac' = IF currentCategory = "SCH" THEN mac
              ELSE [mac EXCEPT !["CCH"] = ResumeTransmissionFunction(@, OperationEnd)]
    /\ UNCHANGED <<currentCategory, attached, environmentVars>>

\* ResumeTxRxOperationAndScheduleEndEventIfNecessary
Resume ==
    /\ event' = "TX_RX_END" /\ eventTime' = OperationEnd
    /\ mac' = [mac EXCEPT ![currentCategory] = ResumeTransmissionFunction(@, OperationEnd)]
    /\ UNCHANGED <<currentCategory, attached, environmentVars>>

\* SuspendTransmissionAndRescheduleChannelSwitchingEvent: a transmission is waited for,
\* and the event comes a nanosecond after its end.
SuspendFor(category) ==
    LET phy == mac[attached]
    IN  /\ UNCHANGED <<attached, environmentVars>>
        /\ IF OutgoingTransmissionEnd(phy) > 0
           THEN /\ event' = "SUSPEND_TRANSMISSION"
                /\ eventTime' = OutgoingTransmissionEnd(phy)
                /\ UNCHANGED <<mac, currentCategory>>
           ELSE /\ event' = "CHANNEL_SWITCH" /\ eventTime' = HalfSyncTolerance
                /\ mac' = [mac EXCEPT ![currentCategory] =
                              Expect(SuspendTransmissionFunction(@),
                                     ~IsTransmittingAFrame(phy) /\ category # currentCategory)]
                /\ currentCategory' = category

Other(category) == IF category = "CCH" THEN "SCH" ELSE "CCH"

\* SwitchToCurrentIntervalChannel
TxRxEnd ==
    /\ ~Failed
    /\ event = "TX_RX_END" /\ eventTime = 0
    /\ IF CategoryAt(now) = currentCategory THEN Resume ELSE SuspendFor(CategoryAt(now))
    /\ UNCHANGED now

\* It asks for the channel it waited to switch to.
SuspendTransmission ==
    /\ ~Failed
    /\ event = "SUSPEND_TRANSMISSION" /\ eventTime = 0
    /\ \A c \in ChannelCategories : NothingIsDue(mac[c])
    /\ SuspendFor(Other(currentCategory))
    /\ UNCHANGED now

\* The PHY goes over to the MAC of the new channel, with the frame it sent last.
StartChannelSwitching ==
    /\ ~Failed
    /\ event = "CHANNEL_SWITCH" /\ eventTime = 0
    /\ event' = "TX_RX_START"
    /\ eventTime' = MaxChannelSwitchingTime + HalfSyncTolerance
    /\ attached' = currentCategory
    /\ mac' = [mac EXCEPT
                  ![attached] = [SwitchToChannels(@) EXCEPT !.sent = NONE],
                  ![currentCategory] = [SwitchToChannels(@) EXCEPT !.sent = mac[attached].sent]]
    /\ young' = NoYoung
    /\ reply' = INFINITE
    /\ UNCHANGED <<currentCategory, now, toArrive, signals>>

TxRxStart ==
    /\ ~Failed
    /\ event = "TX_RX_START" /\ eventTime = 0
    /\ Resume
    /\ UNCHANGED now

-----------------------------------------------------------------------------
(* The two MACs, the PHY and the world around them. *)

Arrive(c) ==
    /\ ~Failed
    /\ toArrive[c] > 0
    /\ toArrive' = [toArrive EXCEPT ![c] = @ - 1]
    /\ \E d \in Draws, k \in Categories :
           LET more == [mac[c] EXCEPT !.ac[k].queued = @ + 1]
           IN  mac' = [mac EXCEPT ![c] = NetworkLayerQueueChangeNotification(more, d)]
    /\ UNCHANGED <<waveVars, now, signals, reply, young>>

SignalReaches(signal) ==
    \E d \in Draws, preambleIsDetected, loud \in BOOLEAN :
        /\ mac' = [mac EXCEPT ![attached] =
                      ProcessNewSignal(@, signal, preambleIsDetected, loud, d)]
        /\ young' = YoungAfterSignal(mac[attached], young, preambleIsDetected, loud)

ForeignSignalStarts ==
    /\ ~Failed
    /\ signals > 0
    /\ signals' = signals - 1
    /\ SignalReaches("FOREIGN")
    /\ UNCHANGED <<waveVars, now, toArrive, reply>>

ReplyStarts ==
    /\ ~Failed
    /\ reply = 0
    /\ reply' = INFINITE
    /\ SignalReaches("REPLY")
    /\ UNCHANGED <<waveVars, now, toArrive, signals>>

ReceivedSignalEnds ==
    /\ ~Failed
    /\ mac[attached].phyState = "Receiving" /\ ~young.receiving
    /\ \E d \in Draws, frame \in FramesOf(mac[attached]) :
           mac' = [mac EXCEPT ![attached] = ProcessEndOfReceivedSignal(@, frame, 0, d)]
    /\ UNCHANGED <<waveVars, now, environmentVars>>

OtherSignalEnds ==
    /\ ~Failed
    /\ mac[attached].others > young.others
    /\ \E d \in Draws : mac' = [mac EXCEPT ![attached] = ProcessEndOfOtherSignal(@, d)]
    /\ UNCHANGED <<waveVars, now, environmentVars>>

TransmissionTimer ==
    /\ ~Failed
    /\ IsTransmittingAFrame(mac[attached]) /\ mac[attached].txLeft = 0
    /\ \E d \in Draws : mac' = [mac EXCEPT ![attached] = StartOrEndTransmission(@, d)]
    /\ reply' \in RepliesAfterTransmission(mac'[attached], reply)
    /\ UNCHANGED <<waveVars, now, toArrive, signals, young>>

WakeupTimer(c) ==
    /\ ~Failed
    /\ mac[c].timer = 0
    /\ \E d \in Draws, r \in AllRetrievals(mac[c]) :
           mac' = [mac EXCEPT ![c] = WakeupTimerEvent(@, d, r)]
    /\ UNCHANGED <<waveVars, now, environmentVars>>

NothingIsDueNow ==
    (\A c \in ChannelCategories : NothingIsDue(mac[c])) /\ reply > 0 /\ eventTime > 0

TimePasses ==
    /\ ~Failed
    /\ NothingIsDueNow
    /\ mac' = [c \in ChannelCategories |-> Tick(mac[c])]
    /\ now' = (now + 1) % SyncInterval
    /\ eventTime' = eventTime - 1
    /\ reply' = Left(reply)
    /\ young' = NoYoung
    /\ UNCHANGED <<currentCategory, attached, event, toArrive, signals>>

Next ==
    \/ TxRxEnd \/ SuspendTransmission \/ StartChannelSwitching \/ TxRxStart
    \/ \E c \in ChannelCategories : Arrive(c) \/ WakeupTimer(c)
    \/ ForeignSignalStarts \/ ReplyStarts \/ ReceivedSignalEnds \/ OtherSignalEnds
    \/ TransmissionTimer
    \/ TimePasses

\* The engine runs every event it holds, until an assertion fails.
Fairness == WF_vars(TimePasses) /\ []<>(Failed \/ NothingIsDueNow)

Spec == Init /\ [][Next]_vars /\ Fairness

-----------------------------------------------------------------------------
(* Properties. *)

\* From the suspension of the transmissions to the start of the next interval the
\* PHY sends nothing, so a switch never cuts a frame (wave_mac.h:1049, dot11_phy.h:2194);
\* frames received in the meantime are not answered.
SilentWhileSwitching ==
    ~Failed /\ event \in {"CHANNEL_SWITCH", "TX_RX_START"} =>
        ~IsTransmittingAFrame(mac[attached])

\* A MAC may send only on the channel of the present interval, with the PHY on it,
\* and until the time at which the timer ends the operation: the permission and the
\* timer are kept apart but never drift.
PermissionIsForInterval ==
    \A c \in ChannelCategories :
        mac[c].permission > 0 =>
            /\ c = currentCategory /\ c = attached /\ c = CategoryAt(now)
            /\ event = "TX_RX_END" /\ eventTime = mac[c].permission

\* The backoffs of a channel only count down while the PHY is on it and listens for
\* it: packets that arrive for the other channel, or at a switch, wait.
BackoffOnlyOnOwnChannel ==
    \A c \in ChannelCategories :
        mac[c].macState = "WaitingForIfsAndBackoff" =>
            c = attached /\ event \in {"TX_RX_END", "SUSPEND_TRANSMISSION"}

\* A MAC that counts down has its timer set to the earliest of its backoffs: the
\* expiration time that a suspension leaves behind (dot11_mac.h:2575) is never that of
\* a later backoff, whose timer StartBackoffForCategory (2413) would then not set.
BackoffIsTimed ==
    \A c \in ChannelCategories :
        mac[c].macState = "WaitingForIfsAndBackoff" =>
            mac[c].timer = CurrentBackoffExpiration(mac[c])

\* A data frame on the air ends before the interval does, be it sent after a backoff
\* or in the answer to a CTS.  (Replies and RTS frames are checked at another rate
\* than the one they are sent at: the switch then waits for their end.)
DataEndsInInterval ==
    IsTransmittingAFrame(mac[attached]) /\ mac[attached].outgoing = "DATA" =>
        OutgoingTransmissionEnd(mac[attached]) < mac[attached].permission

\* Both channels get their turn again and again, whatever transmission a switch had
\* to wait for, unless the program ends at an assertion.
ServesBothChannels ==
    \A c \in ChannelCategories : []<>(Failed \/ mac[c].permission > 0)

\* No assertion of the two MACs, the PHY and the timer fails; the one of
\* dot11_mac.h:4619 says that after a CTS the data packet is sent.
NoAssertionFails == ~Failed

=============================================================================
