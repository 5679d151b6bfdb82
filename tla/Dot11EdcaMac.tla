----------------------------- MODULE Dot11EdcaMac -----------------------------
(***************************************************************************)
(* The channel access (EDCA) of one 802.11 MAC (dot11/dot11_mac.h) and the *)
(* carrier sense of its PHY (dot11/dot11_phy.h), which call each other.    *)
(* Handlers are functions from the station to the station after them.      *)
(*                                                                         *)
(* Times are relative to now: a timer is the time left, a start the time   *)
(* passed since, in ticks.  Transmit opportunities (TXOP), Block Ack and   *)
(* power save are left out: one frame exchange per medium access.          *)
(***************************************************************************)
EXTENDS Integers, FiniteSets

CONSTANTS NumberAccessCategories,  \* numbered from 0; the highest goes first
          Aifsn,                   \* arbitrationInterframeSpaceDurationSlots
          MinWindow, MaxWindow,    \* min-, maxContentionWindowSlots
          RetryLimit,              \* shortFrameRetryLimit, longFrameRetryLimit
          SlotTime, ShortInterframeSpace, RxTxTurnaroundTime,
          ExtendedDelay,           \* additionalDelayForExtendedInterframeSpaceMode
          ReplyTimeout,            \* ackTimeoutDuration, clearToSendTimeoutDuration
          DataTime,                \* the duration of a data frame,
          ControlTime,             \* of an RTS, a CTS or an ACK,
          ControlTimeChecked,      \* and what the permission check takes it for
          DisabledToJump           \* disabledToJumpOnMediumWithoutBackoff

Categories == 0 .. NumberAccessCategories - 1

ASSUME EdcaAssumption ==
    /\ NumberAccessCategories \in Nat \ {0}
    /\ Aifsn \in [Categories -> Nat \ {0}]
    /\ MinWindow \in [Categories -> Nat] /\ MaxWindow \in [Categories -> Nat]
    /\ \A c \in Categories : MinWindow[c] <= MaxWindow[c]
    /\ RetryLimit \in Nat \ {0}
    /\ DisabledToJump \in BOOLEAN

ASSUME TimingAssumption ==
    /\ {SlotTime, ShortInterframeSpace, RxTxTurnaroundTime, ReplyTimeout, DataTime,
        ControlTime, ControlTimeChecked} \subseteq Nat \ {0}
    /\ ExtendedDelay \in Nat
    /\ RxTxTurnaroundTime < SlotTime /\ RxTxTurnaroundTime <= ShortInterframeSpace
    /\ ControlTimeChecked <= ControlTime

\* INFINITE_TIME: later than every time that comes up.
INFINITE == 1000000
NONE == "NONE"

\* Frames of the network layer; a LONG one reaches rtsThresholdSizeBytes.
UnicastFrames == {"SHORT", "LONG"}
DataFrames == UnicastFrames \cup {"BROADCAST"}

MacStates == {"Idle", "BusyMedium", "CtsOrAckTransmission", "WaitingForNavExpiration",
              "WaitingForIfsAndBackoff", "WaitingForCts", "WaitingForAck", "Transient"}
PhyStates == {"Scanning", "Receiving", "TxStarting", "Transmitting"}

AccessCategoryInfos == [
    window : Nat,                        \* currentContentionWindowSlots
    slots : Nat,                         \* currentNumOfBackoffSlots
    duration : Nat,                      \* currentNonExtendedBackoffDuration
    elapsed : Nat,                       \* now - ifsAndBackoffStartTime, while it waits
    jumping : BOOLEAN,                   \* tryingToJumpOnMediumWithoutABackoff
    hasPacketToSend : BOOLEAN,
    shortRetries : Nat, longRetries : Nat,
    packet : DataFrames \cup {NONE},     \* currentPacketPtr
    queued : Nat]                        \* packets of its priorities in the output queue

Stations == [
    macState : MacStates,
    timer : Nat,                         \* wakeupTimerEventTicket; INFINITE: null
    stale : Nat,                         \* currentWakeupTimerExpirationTime without a timer
    nav : Nat,                           \* mediumReservedUntilTimeAkaNAV
    permission : Nat,                    \* transmissionPermissionEndTime
    idleFor : Nat,                       \* now - mediumBecameIdleTime
    corrupt : BOOLEAN,                   \* lastFrameReceivedWasCorrupt
    last : Categories,                   \* accessCategoryIndexForLastSentFrame
    lastSent : {"SHORT", "LONG", "RTS"}, \* lastSentFrameWasAn
    ac : [Categories -> AccessCategoryInfos],
    phyState : PhyStates,
    sensing : BOOLEAN,                   \* currentlySensingBusyMedium
    receiving : {NONE, "FOREIGN", "REPLY"},  \* the signal the PHY has locked on
    loud : BOOLEAN,                      \* its energy alone makes the medium busy
    others : Nat,                        \* loud signals the PHY has not locked on
    outgoing : {NONE, "DATA", "RTS", "CONTROL"},
    txLeft : Nat,                        \* until the frame starts, or ends
    sent : UnicastFrames \cup {NONE},    \* currentPropagatedFramePtr, while unacknowledged
    quiet : Nat,                         \* since the medium was last busy or reserved (history)
    gap : Nat,                           \* quiet time before the frame about to start (history)
    failed : BOOLEAN]                    \* an assertion of the code has failed

MinOf(a, b) == IF a <= b THEN a ELSE b
MaxOf(a, b) == IF a >= b THEN a ELSE b

\* One step for each category, from high priority to low.
ForEachCategory(Step(_, _), s) ==
    LET after[n \in 0 .. NumberAccessCategories] ==
            IF n = 0 THEN s ELSE Step(after[n - 1], NumberAccessCategories - n)
    IN  after[NumberAccessCategories]

InterframeSpace(c) == ShortInterframeSpace + SlotTime * Aifsn[c]

LongestInterframeSpace ==
    CHOOSE t \in {InterframeSpace(c) : c \in Categories} :
        \A c \in Categories : InterframeSpace(c) <= t

ShortestInterframeSpace ==
    CHOOSE t \in {InterframeSpace(c) : c \in Categories} :
        \A c \in Categories : InterframeSpace(c) >= t

InitialStation == [
    macState |-> "Idle", timer |-> INFINITE, stale |-> INFINITE, nav |-> 0,
    permission |-> INFINITE, idleFor |-> 0, corrupt |-> FALSE,
    last |-> 0, lastSent |-> "SHORT",
    ac |-> [c \in Categories |->
        [window |-> MinWindow[c], slots |-> 0, duration |-> INFINITE, elapsed |-> 0,
         jumping |-> FALSE, hasPacketToSend |-> FALSE, shortRetries |-> 0,
         longRetries |-> 0, packet |-> NONE, queued |-> 0]],
    phyState |-> "Scanning", sensing |-> FALSE, receiving |-> NONE, loud |-> FALSE, others |-> 0,
    outgoing |-> NONE, txLeft |-> 0, sent |-> NONE,
    quiet |-> 0, gap |-> 0, failed |-> FALSE]

\* assert(condition), which ends the program.
Expect(s, condition) == IF condition THEN s ELSE [s EXCEPT !.failed = TRUE]

-----------------------------------------------------------------------------
(* Backoff durations and the wakeup timer.  A draw d gives every category a *)
(* number from which its next number of backoff slots is taken.             *)

AccessCategoryIsActive(s, c) == s.ac[c].duration # INFINITE \/ s.ac[c].hasPacketToSend

NonExtendedBackoffDuration(c, slots) ==
    InterframeSpace(c) + SlotTime * slots - RxTxTurnaroundTime

\* A mutant: a channel that is clear for longer than the interframe space is forgotten.
DurationForJumpingOnMediumInIfs(s, c) == InterframeSpace(c) - RxTxTurnaroundTime - s.idleFor

\* Without a backoff: the rest of the interframe space, or up to the next slot.
DurationForJumpingOnMedium(s, c) ==
    LET ifs == InterframeSpace(c) - RxTxTurnaroundTime
    IN  IF ifs >= s.idleFor THEN ifs - s.idleFor
        ELSE SlotTime - ((s.idleFor - ifs) % SlotTime)

\* A mutant: the extended interframe space is forgotten.
CurrentBackoffExpirationWithoutEifs(s) ==
    LET left == {s.ac[c].duration - s.ac[c].elapsed :
                     c \in {k \in Categories : s.ac[k].duration # INFINITE}}
    IN  IF left = {} THEN INFINITE ELSE CHOOSE t \in left : \A u \in left : t <= u

\* Of the categories whose duration is finite; INFINITE if there is none.
CurrentBackoffExpiration(s) ==
    LET left == {s.ac[c].duration - s.ac[c].elapsed :
                     c \in {k \in Categories : s.ac[k].duration # INFINITE}}
    IN  IF left = {} THEN INFINITE
        ELSE (CHOOSE t \in left : \A u \in left : t <= u)
             + (IF s.corrupt THEN ExtendedDelay ELSE 0)

RecalcRandomBackoff(s, c, d) ==
    LET slots == d[c] % (s.ac[c].window + 1)
    IN  [s EXCEPT !.ac[c].slots = slots,
                  !.ac[c].duration = NonExtendedBackoffDuration(c, slots)]

DoubleTheContentionWindowAndPickANewBackoff(s, c, d) ==
    RecalcRandomBackoff(
        [s EXCEPT !.ac[c].window = MinOf(2 * s.ac[c].window + 1, MaxWindow[c])], c, d)

\* The start times are forgotten outside the wait, where the code does not read them.
NoStartTimes(s) == [c \in Categories |-> [s.ac[c] EXCEPT !.elapsed = 0]]

StartBackoffIfNecessary(s) ==
    LET started == [s EXCEPT !.ac = NoStartTimes(s)]
        duration == CurrentBackoffExpiration(started)
    IN  IF s.permission = 0 \/ duration = INFINITE
        THEN [started EXCEPT !.macState = "Idle"]
        ELSE [started EXCEPT !.macState = "WaitingForIfsAndBackoff", !.timer = duration,
                             !.stale = INFINITE]

\* A mutant: the timer is set for the category that starts.
StartBackoffForCategoryAlone(s, c) ==
    IF s.permission = 0 THEN [s EXCEPT !.macState = "Idle"]
    ELSE [s EXCEPT !.ac[c].elapsed = 0, !.macState = "WaitingForIfsAndBackoff",
                   !.timer = s.ac[c].duration]

\* A mutant: the end of the permission is not looked at.
StartBackoffForCategoryAtAnyTime(s, c) ==
    LET started == [s EXCEPT !.ac[c].elapsed = 0]
    IN  [started EXCEPT !.macState = "WaitingForIfsAndBackoff",
                        !.timer = CurrentBackoffExpiration(started)]

\* At the end of the permission a running timer is left running; a timer believed to
\* end at the new time already is not set.
StartBackoffForCategory(s, c) ==
    LET started == [s EXCEPT !.ac[c].elapsed = 0]
        expiration == CurrentBackoffExpiration(started)
    IN  IF s.permission = 0 THEN [s EXCEPT !.macState = "Idle"]
        ELSE IF expiration = s.stale
        THEN [started EXCEPT !.macState = "WaitingForIfsAndBackoff"]
        ELSE [started EXCEPT !.macState = "WaitingForIfsAndBackoff",
                             !.timer = expiration, !.stale = INFINITE]

HasPacket(s, c) ==
    IF s.ac[c].packet = NONE THEN s.ac[c].queued > 0 ELSE s.ac[c].hasPacketToSend

StartPacketSendProcess(s, c, forceBackoff, d) ==
    LET asked == [s EXCEPT !.ac[c].jumping = FALSE,
                           !.ac[c].hasPacketToSend = HasPacket(s, c)]
        jump == [asked EXCEPT !.ac[c].slots = 0, !.ac[c].jumping = TRUE,
                              !.ac[c].duration = DurationForJumpingOnMedium(s, c)]
    IN  IF ~forceBackoff /\ ~HasPacket(s, c)
        THEN [asked EXCEPT !.ac[c].duration = INFINITE]
        ELSE Expect(CASE s.macState \notin {"Idle", "WaitingForIfsAndBackoff"} ->
                             RecalcRandomBackoff(asked, c, d)
                      [] OTHER ->
                             StartBackoffForCategory(
                                 IF DisabledToJump THEN RecalcRandomBackoff(asked, c, d)
                                 ELSE Expect(jump, ~forceBackoff), c),
                    s.ac[c].duration = INFINITE /\ s.macState # "Transient")

NetworkLayerQueueChangeNotification(s, d) ==
    LET Start(t, c) == IF AccessCategoryIsActive(t, c) THEN t
                       ELSE StartPacketSendProcess(t, c, FALSE, d)
    IN  ForEachCategory(Start, s)

-----------------------------------------------------------------------------
(* Carrier sense, NAV and permission. *)

NumberBackoffSlotsUsed(s, c) ==
    LET ifs == InterframeSpace(c) + (IF s.corrupt THEN ExtendedDelay ELSE 0)
    IN  IF s.ac[c].elapsed <= ifs THEN 0
        ELSE (s.ac[c].elapsed + RxTxTurnaroundTime - ifs) \div SlotTime

\* An unsigned number: the assertion of the code that it is not negative says less.
SubtractUsedSlots(s, c) ==
    [Expect(s, NumberBackoffSlotsUsed(s, c) <= s.ac[c].slots) EXCEPT
        !.ac[c].slots = @ - MinOf(@, NumberBackoffSlotsUsed(s, c))]

SubtractElapsedTime(s, c) ==
    LET used == SubtractUsedSlots(s, c)
    IN  IF s.ac[c].jumping \/ s.ac[c].duration = INFINITE THEN s
        ELSE [used EXCEPT !.ac[c].duration = NonExtendedBackoffDuration(c, used.ac[c].slots)]

\* A mutant: the attempt without a backoff is not called off first.
PauseBackoffStillRunning(s, c, d) ==
    IF s.ac[c].jumping THEN StartPacketSendProcess(s, c, TRUE, d) ELSE SubtractElapsedTime(s, c)

PauseBackoff(s, c, d) ==
    IF s.ac[c].jumping
    THEN StartPacketSendProcess([s EXCEPT !.ac[c].duration = INFINITE], c, TRUE, d)
    ELSE SubtractElapsedTime(s, c)

\* Both waits have a timer to cancel.
BusyChannelNotification(s, d) ==
    LET Pause(t, c) == PauseBackoff(t, c, d)
        busy == [Expect(s, s.timer # INFINITE) EXCEPT !.macState = "BusyMedium"]
        paused == ForEachCategory(Pause, busy)
    IN  CASE s.macState = "WaitingForNavExpiration" -> [busy EXCEPT !.timer = INFINITE]
          [] s.macState = "WaitingForIfsAndBackoff" ->
                 [paused EXCEPT !.timer = INFINITE, !.ac = NoStartTimes(paused)]
          [] s.macState = "Idle" -> [s EXCEPT !.macState = "BusyMedium"]
          [] OTHER -> Expect(s, s.macState # "Transient")

\* The channel is clear: the NAV first, then the interframe space and backoff.
GoOnWhenClear(s) ==
    IF s.nav > 0
    THEN [Expect(s, s.timer = INFINITE) EXCEPT
             !.macState = "WaitingForNavExpiration", !.timer = s.nav, !.stale = INFINITE]
    ELSE StartBackoffIfNecessary([s EXCEPT !.idleFor = 0])

\* A mutant: the backoffs that wait do not go on.
NavExpirationOnly(s) == [s EXCEPT !.macState = "Idle", !.idleFor = 0]

NavExpiration(s) ==
    StartBackoffIfNecessary([s EXCEPT !.macState = "Transient", !.idleFor = 0])

\* A mutant: the MAC goes on waiting for a backoff whose timer is cancelled.
SuspendTransmissionFunctionInWait(s) ==
    LET subtracted == ForEachCategory(SubtractElapsedTime, s)
    IN  IF s.macState = "WaitingForIfsAndBackoff"
        THEN [subtracted EXCEPT !.timer = INFINITE, !.stale = s.timer, !.permission = 0,
                                !.ac = NoStartTimes(subtracted)]
        ELSE [s EXCEPT !.permission = 0]

\* Cancelled past CancelWakeupTimer, the timer leaves its expiration time behind.
SuspendTransmissionFunction(s) ==
    LET asserted == Expect(s, s.macState \notin {"CtsOrAckTransmission", "Transient"}
                              /\ s.phyState \in {"Scanning", "Receiving"})
        subtracted == ForEachCategory(SubtractElapsedTime, asserted)
        stale == IF s.timer = INFINITE THEN s.stale ELSE s.timer
        suspended ==
            CASE s.macState \in {"WaitingForCts", "WaitingForAck"} ->
                     [asserted EXCEPT !.timer = INFINITE, !.stale = stale,
                         !.macState = IF s.phyState = "Receiving" THEN @ ELSE "BusyMedium"]
              [] s.macState = "WaitingForIfsAndBackoff" ->
                     [subtracted EXCEPT !.timer = INFINITE, !.stale = stale,
                                        !.macState = "Idle", !.ac = NoStartTimes(subtracted)]
              [] OTHER -> asserted
    IN  [suspended EXCEPT !.permission = 0]

ResumeTransmissionFunction(s, permission) ==
    LET permitted == [Expect(s, permission > 0) EXCEPT !.permission = permission]
    IN  IF s.macState = "Idle" THEN StartBackoffIfNecessary(permitted) ELSE permitted

-----------------------------------------------------------------------------
(* Transmission. *)

FrameDuration(frame) == IF frame = "DATA" THEN DataTime ELSE ControlTime

\* A reception is broken off: only the energy of its signal remains.
TransmitFrame(s, frame, packet, delay) ==
    [Expect(s, s.phyState \in {"Scanning", "Receiving"}) EXCEPT
        !.phyState = "TxStarting", !.outgoing = frame, !.txLeft = delay, !.sent = packet,
        !.receiving = NONE, !.loud = FALSE, !.others = IF s.loud THEN @ + 1 ELSE @]

\* GetOutgoingTransmissionEndTime, from now.
OutgoingTransmissionEnd(s) ==
    CASE s.phyState = "TxStarting" -> s.txLeft + FrameDuration(s.outgoing)
      [] s.phyState = "Transmitting" -> s.txLeft
      [] OTHER -> 0

\* A mutant: the time until the frame starts is left out.
ExceedsPermissionOnceStarted(s, delay, duration) ==
    s.permission # INFINITE /\ duration >= s.permission

ExceedsPermission(s, delay, duration) ==
    s.permission # INFINITE /\ delay + duration >= s.permission

\* What the queue hands out: so many packets leave it, of which the last is usable,
\* or none (NONE; lifetime over, no next hop, no address: the queue is emptied).
Retrievals(s, c) ==
    {[taken |-> n, packet |-> p] : n \in 1 .. s.ac[c].queued, p \in DataFrames}
        \cup {[taken |-> s.ac[c].queued, packet |-> NONE]}

RetrievePacket(s, c, r) ==
    [s EXCEPT !.ac[c].queued = @ - r.taken, !.ac[c].packet = r.packet,
              !.ac[c].shortRetries = 0, !.ac[c].longRetries = 0]

\* TransmitAFrame with a packet in hand.
TransmitCurrentPacket(s, c, noRequestToSend, delay) ==
    LET packet == s.ac[c].packet
        withRts == packet = "LONG" /\ ~noRequestToSend
        moved == [s EXCEPT !.last = c, !.ac[c].packet = NONE,
                           !.lastSent = IF packet = "LONG" THEN "LONG" ELSE "SHORT"]
    IN  IF ExceedsPermission(s, delay, IF withRts THEN ControlTimeChecked ELSE DataTime)
        THEN [s EXCEPT !.ac[c].hasPacketToSend = FALSE]
        ELSE CASE withRts ->
                      TransmitFrame([s EXCEPT !.last = c, !.lastSent = "RTS",
                                              !.macState = "WaitingForCts"], "RTS", NONE, delay)
               [] packet = "BROADCAST" ->
                      TransmitFrame([moved EXCEPT !.ac[c].window = MinWindow[c],
                                                  !.macState = "BusyMedium"],
                                    "DATA", NONE, delay)
               [] OTHER ->
                      TransmitFrame([moved EXCEPT !.macState = "WaitingForAck"],
                                    "DATA", packet, delay)

TransmitAFrame(s, c, noRequestToSend, delay, r) ==
    IF s.ac[c].packet # NONE THEN TransmitCurrentPacket(s, c, noRequestToSend, delay)
    ELSE IF r.packet = NONE
         THEN [RetrievePacket(s, c, r) EXCEPT !.ac[c].hasPacketToSend = FALSE]
         ELSE TransmitCurrentPacket(RetrievePacket(s, c, r), c, noRequestToSend, delay)

\* A category whose slots are used up sends, unless one before it in the round did.
TryToSend(s, c, r) ==
    LET ready == [s EXCEPT !.ac[c].duration = INFINITE, !.ac[c].jumping = FALSE,
                           !.ac[c].hasPacketToSend = HasPacket(s, c)]
        sent == TransmitAFrame(ready, c, FALSE, RxTxTurnaroundTime, r)
    IN  IF ~HasPacket(s, c) THEN ready
        ELSE IF sent.phyState = "TxStarting"
             THEN [sent EXCEPT !.gap = s.quiet + RxTxTurnaroundTime]
             ELSE sent

\* A mutant: a category that tried without a backoff does not draw one.
GiveWayForGood(s, c, d) ==
    IF s.ac[c].jumping THEN [s EXCEPT !.ac[c].duration = INFINITE]
    ELSE DoubleTheContentionWindowAndPickANewBackoff(s, c, d)

GiveWay(s, c, d) ==
    CASE s.ac[c].jumping ->
             StartPacketSendProcess([s EXCEPT !.ac[c].duration = INFINITE], c, TRUE, d)
      [] ~s.ac[c].jumping /\ s.ac[c].slots = 0 ->
             DoubleTheContentionWindowAndPickANewBackoff(s, c, d)
      [] OTHER ->
             [s EXCEPT !.ac[c].duration = NonExtendedBackoffDuration(c, s.ac[c].slots)]

\* r gives every category what its queue would hand out.
IfsAndBackoffTimeout(s, d, r) ==
    LET Try(t, c) ==
            LET used == SubtractUsedSlots(t, c)
            IN  IF t.ac[c].duration = INFINITE THEN t
                ELSE IF used.ac[c].slots = 0 /\ t.phyState # "TxStarting"
                     THEN TryToSend(used, c, r[c])
                     ELSE GiveWay(used, c, d)
        tried == ForEachCategory(Try, s)
    IN  IF tried.phyState = "TxStarting" THEN [tried EXCEPT !.ac = NoStartTimes(tried)]
        ELSE StartBackoffIfNecessary([tried EXCEPT !.macState = "Transient"])

-----------------------------------------------------------------------------
(* The end of a frame exchange. *)

DropCurrentPacketAndGoToNextPacket(s, c, d) ==
    RecalcRandomBackoff(
        [s EXCEPT !.ac[c].packet = NONE, !.ac[c].hasPacketToSend = s.ac[c].queued > 0,
                  !.ac[c].shortRetries = 0, !.ac[c].longRetries = 0,
                  !.ac[c].window = MinWindow[c]], c, d)

\* A data frame is taken back from the PHY, an RTS has left its packet in hand.
NeverReceivedClearToSendOrAcknowledgement(s, d) ==
    LET c == s.last
        doubled == DoubleTheContentionWindowAndPickANewBackoff([s EXCEPT !.timer = INFINITE], c, d)
        back == IF s.lastSent = "RTS" THEN doubled
                ELSE [doubled EXCEPT !.ac[c].packet = s.sent, !.sent = NONE]
        counted == IF s.lastSent = "LONG" THEN [back EXCEPT !.ac[c].longRetries = @ + 1]
                   ELSE [back EXCEPT !.ac[c].shortRetries = @ + 1]
        retries == IF s.lastSent = "LONG" THEN counted.ac[c].longRetries
                   ELSE counted.ac[c].shortRetries
    IN  IF retries >= RetryLimit THEN DropCurrentPacketAndGoToNextPacket(counted, c, d)
        ELSE counted

IsWaiting(s) == s.macState \in {"WaitingForCts", "WaitingForAck"}

\* Any other frame than the expected reply ends the exchange.
GiveUpWaiting(s, d) ==
    IF IsWaiting(s)
    THEN NeverReceivedClearToSendOrAcknowledgement([s EXCEPT !.macState = "BusyMedium"], d)
    ELSE s

\* A mutant: the channel counts as clear when the timeout ends.
ReplyTimeoutExpirationGoesOn(s, d) ==
    IF s.phyState = "Receiving" THEN s ELSE GoOnWhenClear(GiveUpWaiting(s, d))

ReplyTimeoutExpiration(s, d) ==
    IF s.phyState = "Receiving" THEN s
    ELSE IF s.sensing THEN GiveUpWaiting(s, d) ELSE GoOnWhenClear(GiveUpWaiting(s, d))

\* No transmit opportunity goes on (TXOP limit 0).
DoSuccessfulTransmissionPostProcessing(s, d) == StartPacketSendProcess(s, s.last, TRUE, d)

TransmissionIsComplete(s, d) ==
    CASE IsWaiting(s) -> [s EXCEPT !.timer = ReplyTimeout, !.stale = INFINITE]
      [] s.macState = "CtsOrAckTransmission" -> [s EXCEPT !.macState = "BusyMedium"]
      [] OTHER -> DoSuccessfulTransmissionPostProcessing(
                      Expect(s, s.macState = "BusyMedium"), d)

ClearChannelNotification(s, d) ==
    CASE IsWaiting(s) /\ s.timer # INFINITE -> s
      [] IsWaiting(s) /\ s.timer = INFINITE ->
             GoOnWhenClear(NeverReceivedClearToSendOrAcknowledgement(
                               [s EXCEPT !.macState = "Transient"], d))
      [] s.macState = "WaitingForNavExpiration" -> s
      [] OTHER -> GoOnWhenClear(Expect(s, s.macState \in {"BusyMedium", "Transient"}))

WakeupTimerEvent(s, d, r) ==
    LET fired == [s EXCEPT !.timer = INFINITE]
    IN  CASE s.macState = "WaitingForNavExpiration" -> NavExpiration(fired)
          [] s.macState = "WaitingForIfsAndBackoff" -> IfsAndBackoffTimeout(fired, d, r)
          [] IsWaiting(s) -> ReplyTimeoutExpiration(fired, d)
          [] OTHER -> Expect(fired, FALSE)

-----------------------------------------------------------------------------
(* Reception. *)

ReceivedFrames == {"CORRUPT", "OTHER", "GROUP", "DATA", "RTS", "CTS", "ACK"}

\* A reply goes out after SIFS, if the permission leaves the time.
Reply(s) ==
    TransmitFrame([s EXCEPT !.macState = "CtsOrAckTransmission"],
                  "CONTROL", NONE, ShortInterframeSpace)

\* A mutant: replies go out without a permission.
ReplyNeedsNoPermission(s) == FALSE

ReplyExceedsPermission(s) == ExceedsPermission(s, ShortInterframeSpace, ControlTimeChecked)

ProcessRequestToSendFrame(s, d) ==
    LET busy == GiveUpWaiting(s, d)
    IN  IF s.nav > 0 THEN busy
        ELSE IF ReplyExceedsPermission(s) THEN [busy EXCEPT !.macState = "BusyMedium"]
        ELSE Reply(busy)

ProcessDataFrame(s, d) ==
    LET busy == GiveUpWaiting(s, d)
    IN  IF ReplyExceedsPermission(s) THEN busy ELSE Reply(busy)

\* The packet was kept for the data frame that follows the CTS.
ProcessClearToSendFrame(s) ==
    LET c == s.last
        sent == TransmitAFrame([s EXCEPT !.timer = INFINITE, !.ac[c].shortRetries = 0],
                               c, TRUE, ShortInterframeSpace, [taken |-> 0, packet |-> NONE])
    IN  IF s.macState # "WaitingForCts" THEN s
        ELSE Expect(sent, sent.phyState = "TxStarting")

ProcessAcknowledgementFrame(s, d) ==
    LET c == s.last
        done == [s EXCEPT !.timer = INFINITE, !.macState = "BusyMedium", !.sent = NONE,
                          !.ac[c].window = MinWindow[c]]
    IN  IF s.macState # "WaitingForAck" THEN s
        ELSE DoSuccessfulTransmissionPostProcessing(
                 Expect(done, s.ac[c].packet = NONE), d)

\* A mutant: the frame that waits for its reply is not taken back.
ProcessFrameForAnotherOnly(s, reserved, d) ==
    [s EXCEPT !.nav = MaxOf(@, reserved), !.macState = "BusyMedium"]

\* A frame for another station reserves the medium for the time its header says.
ProcessFrameForAnother(s, reserved, d) ==
    GiveUpWaiting([s EXCEPT !.nav = MaxOf(@, reserved),
                            !.macState = IF IsWaiting(s) THEN @ ELSE "BusyMedium"], d)

NotifyThatPhyReceivedCorruptedFrame(s, d) ==
    LET busy == GiveUpWaiting([s EXCEPT !.corrupt = TRUE], d)
    IN  Expect(busy, busy.macState = "BusyMedium")

ReceiveFrameFromPhy(s, frame, reserved, d) ==
    LET good == [s EXCEPT !.corrupt = FALSE]
    IN  CASE frame = "CORRUPT" -> NotifyThatPhyReceivedCorruptedFrame(s, d)
          [] frame = "OTHER"   -> ProcessFrameForAnother(good, reserved, d)
          [] frame = "GROUP"   -> GiveUpWaiting(good, d)
          [] frame = "DATA"    -> ProcessDataFrame(good, d)
          [] frame = "RTS"     -> ProcessRequestToSendFrame(good, d)
          [] frame = "CTS"     -> ProcessClearToSendFrame(good)
          [] frame = "ACK"     -> ProcessAcknowledgementFrame(good, d)

-----------------------------------------------------------------------------
(* The PHY: signals that carry energy above its thresholds start and end. *)

SensesBusy(s, d) ==
    IF s.sensing THEN s ELSE BusyChannelNotification([s EXCEPT !.sensing = TRUE], d)

\* The channel goes clear when the PHY has nothing left to hear or to send.
SensesClearIfSilent(s, d) ==
    IF s.phyState = "Scanning" /\ s.others = 0
    THEN ClearChannelNotification([s EXCEPT !.sensing = FALSE], d)
    ELSE s

\* A preamble that is detected, or that captures the receiver, is received.  What is
\* captured from remains as energy; a signal that is neither received nor loud is nothing
\* (the sum of such signals is taken to stay below the threshold).
ProcessNewSignal(s, signal, preambleIsDetected, loud, d) ==
    LET received == [s EXCEPT !.phyState = "Receiving", !.receiving = signal, !.loud = loud]
        added == [s EXCEPT !.others = @ + 1]
    IN  CASE s.phyState = "Scanning" /\ preambleIsDetected -> SensesBusy(received, d)
          [] s.phyState = "Receiving" /\ preambleIsDetected ->
                 [received EXCEPT !.others = IF s.loud THEN @ + 1 ELSE @]
          [] s.phyState = "Scanning" /\ ~preambleIsDetected /\ loud -> SensesBusy(added, d)
          [] OTHER -> IF loud THEN added ELSE s

ProcessEndOfOtherSignal(s, d) ==
    LET less == [s EXCEPT !.others = @ - 1]
    IN  IF s.sensing THEN SensesClearIfSilent(less, d) ELSE less

ProcessEndOfReceivedSignal(s, frame, reserved, d) ==
    LET over == [s EXCEPT !.phyState = "Scanning", !.receiving = NONE, !.loud = FALSE]
        told == ReceiveFrameFromPhy(over, frame, reserved, d)
    IN  SensesClearIfSilent(Expect(told, told.sensing), d)

StartTransmission(s) ==
    [s EXCEPT !.phyState = "Transmitting", !.sensing = TRUE,
              !.txLeft = FrameDuration(s.outgoing), !.gap = 0]

EndCurrentTransmission(s, d) ==
    SensesClearIfSilent(
        TransmissionIsComplete([s EXCEPT !.phyState = "Scanning", !.outgoing = NONE], d), d)

StartOrEndTransmission(s, d) ==
    IF s.phyState = "TxStarting" THEN StartTransmission(s) ELSE EndCurrentTransmission(s, d)

IsTransmittingAFrame(s) == s.phyState \in {"TxStarting", "Transmitting"}

\* The PHY forgets what it hears, and tells the MAC nothing.  Carrier detection is off, as
\* by default (dot11_phy.h:1164), so that no end of a detectable signal is remembered.
SwitchToChannels(s) ==
    [Expect(s, ~IsTransmittingAFrame(s)) EXCEPT
        !.phyState = "Scanning", !.receiving = NONE, !.loud = FALSE, !.others = 0,
        !.sensing = FALSE, !.quiet = 0]

-----------------------------------------------------------------------------
(* Time. *)

\* What the station does at this instant comes before the next tick.
NothingIsDue(s) == s.timer > 0 /\ (IsTransmittingAFrame(s) => s.txLeft > 0)

Left(t) == IF t = INFINITE THEN t ELSE MaxOf(t - 1, 0)

\* A time that is over does not come again.
LeftOnce(t) == IF t = 0 THEN INFINITE ELSE Left(t)

\* Beyond the longest interframe space only the position in the slot matters.
Tick(s) ==
    [s EXCEPT
        !.timer = Left(@), !.nav = Left(@), !.permission = Left(@), !.txLeft = Left(@),
        !.stale = LeftOnce(@),
        !.idleFor = IF @ < LongestInterframeSpace + SlotTime THEN @ + 1 ELSE @ + 1 - SlotTime,
        !.quiet = IF s.sensing \/ s.nav > 0 THEN 0
                  ELSE MinOf(@ + 1, LongestInterframeSpace + ExtendedDelay),
        !.ac = [c \in Categories |->
                   [s.ac[c] EXCEPT
                       !.elapsed = IF s.macState = "WaitingForIfsAndBackoff"
                                      /\ s.ac[c].duration # INFINITE THEN @ + 1 ELSE @]]]

-----------------------------------------------------------------------------
(* What the world around the station may choose. *)

LargestWindow ==
    CHOOSE w \in {MaxWindow[c] : c \in Categories} : \A c \in Categories : MaxWindow[c] <= w

Draws == [Categories -> 0 .. LargestWindow]

AllRetrievals(s) ==
    LET all == UNION {Retrievals(s, c) : c \in Categories}
    IN  {r \in [Categories -> all] : \A c \in Categories : r[c] \in Retrievals(s, c)}

\* The frame a received signal turns out to be.
FramesOf(s) ==
    IF s.receiving = "FOREIGN" THEN {"CORRUPT", "OTHER", "GROUP", "DATA", "RTS"}
    ELSE {"CORRUPT", IF s.lastSent = "RTS" THEN "CTS" ELSE "ACK"}

\* A signal lasts a tick at least: the ones that started at this instant are young.
NoYoung == [receiving |-> FALSE, others |-> 0]

YoungAfterSignal(s, young, preambleIsDetected, loud) ==
    LET more == [young EXCEPT !.others = @ + 1]
    IN  CASE s.phyState = "Scanning" /\ preambleIsDetected -> [young EXCEPT !.receiving = TRUE]
          [] s.phyState = "Receiving" /\ preambleIsDetected ->
                 [(IF young.receiving /\ s.loud THEN more ELSE young) EXCEPT !.receiving = TRUE]
          [] OTHER -> IF loud THEN more ELSE young

\* A frame that asks for a reply may get one, a SIFS after its end.
RepliesAfterTransmission(s, reply) ==
    IF IsWaiting(s) /\ ~IsTransmittingAFrame(s) THEN {ShortInterframeSpace, INFINITE}
    ELSE {reply}

=============================================================================
