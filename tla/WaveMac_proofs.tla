---------------------------- MODULE WaveMac_proofs ----------------------------
(***************************************************************************)
(* Proofs about the WAVE MAC, for any intervals, timing and number of      *)
(* categories: the MACs send and count down on their own channel and in    *)
(* their own interval only, and never while the PHY changes channels.      *)
(*                                                                         *)
(* The inductive invariant says how the timer of the PHY entity, the       *)
(* permissions it hands out and the time are related in each phase of an   *)
(* interval.  What the handlers of a MAC keep, whatever it is at, is       *)
(* proved in Dot11EdcaMac_proofs.                                          *)
(***************************************************************************)
EXTENDS WaveMac, Dot11EdcaMac_proofs

Events == {"TX_RX_END", "SUSPEND_TRANSMISSION", "CHANNEL_SWITCH", "TX_RX_START"}

\* The time since the present interval began.
Since == now - (IF CategoryAt(now) = "CCH" THEN 0 ELSE ChannelInterval["CCH"])

\* The operation of the interval: its channel is open until it ends.
Operating ==
    event = "TX_RX_END" =>
        /\ attached = currentCategory /\ mac[attached].permission = eventTime
        /\ eventTime > 0 => currentCategory = CategoryAt(now) /\ eventTime = OperationEnd
        /\ eventTime = 0 => currentCategory # CategoryAt(now) /\ Since = 0

\* A control frame that outlasts the interval is waited for.
WaitingForFrame ==
    event = "SUSPEND_TRANSMISSION" =>
        /\ attached = currentCategory /\ currentCategory # CategoryAt(now)
        /\ OutgoingTransmissionEnd(mac[attached]) <= eventTime
        /\ Since + eventTime < Overrun

\* The switch comes early in the interval.
Switching ==
    /\ event = "CHANNEL_SWITCH" =>
           /\ attached # currentCategory /\ currentCategory = CategoryAt(now)
           /\ Since + eventTime <= Overrun + HalfSyncTolerance
    /\ event = "TX_RX_START" =>
           /\ attached = currentCategory /\ currentCategory = CategoryAt(now)
           /\ Since + eventTime <= Overrun + 2 * HalfSyncTolerance + MaxChannelSwitchingTime

\* Only the MAC of the present channel may have a permission, and only then.
Permissions ==
    /\ \A c \in ChannelCategories : c # attached =>
           mac[c].permission = 0 /\ ~IsTransmittingAFrame(mac[c])
    /\ event # "TX_RX_END" => mac[attached].permission = 0

FramesEnd == \A c \in ChannelCategories : EndsInPermission(mac[c])

TypesOK ==
    /\ mac \in [ChannelCategories -> StationTypes]
    /\ currentCategory \in ChannelCategories /\ attached \in ChannelCategories
    /\ event \in Events /\ eventTime \in Nat
    /\ now \in Nat /\ now < SyncInterval
    /\ young \in [receiving : BOOLEAN, others : Nat]

WaveInv ==
    /\ TypesOK
    /\ Operating /\ WaitingForFrame /\ Switching /\ Permissions /\ FramesEnd
    /\ SilentWhileSwitching /\ BackoffOnlyOnOwnChannel

-----------------------------------------------------------------------------
(* Intervals. *)

\* The intervals are finite and outlast what comes before their channel is open.
LEMMA IntervalTimes ==
    /\ \A c \in ChannelCategories :
           /\ ChannelInterval[c] \in Nat /\ ChannelInterval[c] > 0
           /\ Overrun + 2 * HalfSyncTolerance + MaxChannelSwitchingTime < ChannelInterval[c]
    /\ "CCH" \in ChannelCategories /\ "SCH" \in ChannelCategories
    /\ SyncInterval = ChannelInterval["CCH"] + ChannelInterval["SCH"]
    /\ SyncInterval \in Nat /\ SyncInterval < INFINITE /\ Overrun \in Nat
    /\ HalfSyncTolerance \in Nat /\ MaxChannelSwitchingTime \in Nat
<1>1. Overrun \in Nat  BY Timings DEF Overrun
<1>2. "CCH" \in ChannelCategories /\ "SCH" \in ChannelCategories  BY DEF ChannelCategories
<1>3. /\ \A c \in ChannelCategories : ChannelInterval[c] \in Nat /\ ChannelInterval[c] > 0
      /\ HalfSyncTolerance \in Nat /\ MaxChannelSwitchingTime \in Nat
  BY WaveAssumption
<1>4. \A c \in ChannelCategories :
          Overrun + 2 * HalfSyncTolerance + MaxChannelSwitchingTime < ChannelInterval[c]
  BY <1>3, WaveAssumption, Timings DEF Overrun
<1>5. SyncInterval \in Nat /\ SyncInterval < INFINITE
  BY <1>2, <1>3, WaveAssumption DEF SyncInterval
<1> QED  BY <1>1, <1>2, <1>3, <1>4, <1>5 DEF SyncInterval

\* The same, channel by channel.
LEMMA BothIntervals ==
    /\ ChannelInterval["CCH"] \in Nat /\ ChannelInterval["CCH"] > Overrun
    /\ ChannelInterval["SCH"] \in Nat /\ ChannelInterval["SCH"] > Overrun
    /\ SyncInterval = ChannelInterval["CCH"] + ChannelInterval["SCH"]
    /\ SyncInterval \in Nat /\ SyncInterval < INFINITE /\ Overrun \in Nat
    /\ INFINITE \in Nat
<1>1. \A c \in ChannelCategories : ChannelInterval[c] > Overrun
  <2> TAKE c \in ChannelCategories
  <2> DEFINE i == ChannelInterval[c]
  <2>1. i \in Nat /\ Overrun + 2 * HalfSyncTolerance + MaxChannelSwitchingTime < i
        /\ Overrun \in Nat /\ HalfSyncTolerance \in Nat /\ MaxChannelSwitchingTime \in Nat
    BY IntervalTimes
  <2> HIDE DEF i
  <2>2. i > Overrun  BY <2>1
  <2> QED  BY <2>2 DEF i
<1> QED  BY <1>1, IntervalTimes, Timings

\* Where the time is in the present interval.
LEMMA TimeInInterval ==
    ASSUME TypesOK
    PROVE  /\ CategoryAt(now) \in ChannelCategories
           /\ Since \in Nat /\ OperationEnd \in Nat
           /\ OperationEnd = ChannelInterval[CategoryAt(now)] - Since
           /\ OperationEnd > 0 /\ OperationEnd < INFINITE
           /\ OperationEnd + Overrun < INFINITE
<1>1. CASE CategoryAt(now) = "CCH"
  <2>1. Since = now /\ OperationEnd = ChannelInterval["CCH"] - now
        /\ now < ChannelInterval["CCH"]
    BY <1>1, IntervalTimes DEF Since, OperationEnd, CategoryAt, TypesOK
  <2>2. now \in Nat /\ "CCH" \in ChannelCategories  BY IntervalTimes DEF TypesOK
  <2> QED  BY <1>1, <2>1, <2>2, BothIntervals
<1>2. CASE CategoryAt(now) # "CCH"
  <2>1. Since = now - ChannelInterval["CCH"] /\ OperationEnd = SyncInterval - now
        /\ now >= ChannelInterval["CCH"] /\ CategoryAt(now) = "SCH"
    BY <1>2, IntervalTimes DEF Since, OperationEnd, CategoryAt, TypesOK
  <2>2. now \in Nat /\ now < SyncInterval /\ "SCH" \in ChannelCategories
    BY IntervalTimes DEF TypesOK
  <2> QED  BY <2>1, <2>2, BothIntervals
<1> QED  BY <1>1, <1>2

\* A tick later it is a tick later in the same interval, or the other one begins.
LEMMA NextInstant ==
    ASSUME TypesOK, now' = (now + 1) % SyncInterval
    PROVE  /\ now' \in Nat /\ now' < SyncInterval
           /\ Since + 1 < ChannelInterval[CategoryAt(now)] =>
                  /\ CategoryAt(now)' = CategoryAt(now)
                  /\ Since' = Since + 1 /\ OperationEnd' = OperationEnd - 1
           /\ Since + 1 = ChannelInterval[CategoryAt(now)] =>
                  CategoryAt(now)' # CategoryAt(now) /\ Since' = 0
<1>1. now \in Nat /\ now < SyncInterval /\ SyncInterval \in Nat  BY IntervalTimes DEF TypesOK
<1>2. now' = IF now + 1 = SyncInterval THEN 0 ELSE now + 1
  <2>1. CASE now + 1 = SyncInterval
    <3>1. (now + 1) % SyncInterval = 0  BY <1>1, <2>1
    <3> QED  BY <2>1, <3>1
  <2>2. CASE now + 1 # SyncInterval
    <3>1. (now + 1) % SyncInterval = now + 1  BY <1>1, <2>2
    <3> QED  BY <2>2, <3>1
  <2> QED  BY <2>1, <2>2
<1>3. CASE CategoryAt(now) = "CCH"
  <2>1. Since = now /\ OperationEnd = ChannelInterval["CCH"] - now
        /\ now < ChannelInterval["CCH"]
    BY <1>3, IntervalTimes DEF Since, OperationEnd, CategoryAt, TypesOK
  <2>2. now' = now + 1  BY <1>1, <1>2, <2>1, IntervalTimes
  <2>3. CASE now + 1 < ChannelInterval["CCH"]
    <3>1. CategoryAt(now)' = "CCH"  BY <2>2, <2>3 DEF CategoryAt
    <3>2. Since' = now' /\ OperationEnd' = ChannelInterval["CCH"] - now'
      BY <3>1, <2>2, IntervalTimes DEF Since, OperationEnd
    <3> QED  BY <1>1, <1>3, <2>1, <2>2, <2>3, <3>1, <3>2, IntervalTimes
  <2>4. CASE now + 1 = ChannelInterval["CCH"]
    <3>1. CategoryAt(now)' = "SCH"  BY <2>2, <2>4, IntervalTimes DEF CategoryAt
    <3>2. Since' = now' - ChannelInterval["CCH"]  BY <3>1 DEF Since
    <3>3. Since' = 0 /\ now' \in Nat /\ now' < SyncInterval
      <4> DEFINE i == ChannelInterval["CCH"]
                 j == ChannelInterval["SCH"]
      <4>1. i \in Nat /\ j \in Nat /\ j > Overrun /\ Overrun \in Nat /\ SyncInterval = i + j
        BY BothIntervals
      <4>2. now' = i /\ Since' = now' - i  BY <2>2, <2>4, <3>2
      <4> HIDE DEF i, j
      <4>3. now' = i /\ i - i = 0 /\ i < SyncInterval  BY <4>1, <4>2
      <4> QED  BY <4>1, <4>2, <4>3
    <3>4. ~(Since + 1 < ChannelInterval[CategoryAt(now)])
      BY <1>1, <1>3, <2>1, <2>4, BothIntervals
    <3> QED  BY <1>3, <3>1, <3>3, <3>4
  <2> QED  BY <1>1, <2>1, <2>3, <2>4, IntervalTimes
<1>4. CASE CategoryAt(now) # "CCH"
  <2>1. Since = now - ChannelInterval["CCH"] /\ OperationEnd = SyncInterval - now
        /\ now >= ChannelInterval["CCH"] /\ CategoryAt(now) = "SCH"
    BY <1>4, IntervalTimes DEF Since, OperationEnd, CategoryAt, TypesOK
  <2>2. CASE now + 1 < SyncInterval
    <3>1. now' = now + 1  BY <1>1, <1>2, <2>2
    <3>2. CategoryAt(now)' = "SCH"  BY <1>1, <2>1, <3>1, IntervalTimes DEF CategoryAt
    <3>3. Since' = now' - ChannelInterval["CCH"] /\ OperationEnd' = SyncInterval - now'
      BY <3>2 DEF Since, OperationEnd, SyncInterval
    <3> QED  BY <1>1, <2>1, <2>2, <3>1, <3>2, <3>3, IntervalTimes
  <2>3. CASE now + 1 = SyncInterval
    <3>1. now' = 0  BY <1>1, <1>2, <2>3
    <3>2. CategoryAt(now)' = "CCH"  BY <3>1, IntervalTimes DEF CategoryAt
    <3>3. Since' = 0  BY <3>1, <3>2 DEF Since
    <3> QED  BY <1>1, <2>1, <2>3, <3>1, <3>2, <3>3, IntervalTimes
  <2> QED  BY <1>1, <2>2, <2>3
<1> QED  BY <1>3, <1>4

-----------------------------------------------------------------------------
(* What each action keeps. *)

\* One of the two MACs has handled an event, while the timer of the PHY entity waits.
StationMoves(c, t) ==
    /\ t \in StationTypes /\ Obeys(mac[c], t)
    /\ mac' = [mac EXCEPT ![c] = t]
    /\ UNCHANGED <<waveVars, now>>

\* It keeps the invariant if the MAC obeys its permission.
LEMMA StationMovesKeeps ==
    ASSUME WaveInv, ~Failed, NEW c \in ChannelCategories, NEW t, StationMoves(c, t),
           young' \in [receiving : BOOLEAN, others : Nat]
    PROVE  WaveInv'
<1> USE DEF WaveInv
<1>1. /\ t \in StationTypes /\ Obeys(mac[c], t)
      /\ mac' = [mac EXCEPT ![c] = t]
      /\ currentCategory' = currentCategory /\ attached' = attached
      /\ event' = event /\ eventTime' = eventTime /\ now' = now
  BY DEF StationMoves, waveVars
<1>2. mac'[c] = t /\ \A k \in ChannelCategories : k # c => mac'[k] = mac[k]
  BY <1>1 DEF TypesOK
<1>3. \A k \in ChannelCategories : Obeys(mac[k], mac'[k])
  BY <1>1, <1>2, SameAccessSelf, SameAccessObeys
<1>4. attached \in ChannelCategories  BY DEF TypesOK
<1>5. TypesOK'  BY <1>1 DEF TypesOK
<1>6. Operating'
  BY <1>1, <1>3, <1>4 DEF Operating, Obeys, CategoryAt, OperationEnd, Since
<1>7. WaitingForFrame'
  <2> SUFFICES ASSUME event = "SUSPEND_TRANSMISSION" PROVE WaitingForFrame'
    BY <1>1 DEF WaitingForFrame
  <2>1. mac[attached].permission = 0  BY DEF Permissions
  <2>2. OutgoingTransmissionEnd(mac'[attached]) \in {0, OutgoingTransmissionEnd(mac[attached])}
    BY <1>3, <1>4, <2>1 DEF Obeys
  <2>3. OutgoingTransmissionEnd(mac'[attached]) <= eventTime
    BY <2>2 DEF WaitingForFrame, TypesOK
  <2> QED  BY <1>1, <2>3 DEF WaitingForFrame, CategoryAt, Since
<1>8. Switching'  BY <1>1 DEF Switching, CategoryAt, Since
<1>9. Permissions'  BY <1>1, <1>3, <1>4 DEF Permissions, Obeys
<1>10. FramesEnd'  BY <1>3 DEF FramesEnd, Obeys
<1>11. SilentWhileSwitching'
  BY <1>1, <1>3, <1>4 DEF SilentWhileSwitching, Permissions, Obeys
<1>12. BackoffOnlyOnOwnChannel'
  <2> SUFFICES ASSUME NEW k \in ChannelCategories, mac'[k].macState = "WaitingForIfsAndBackoff"
               PROVE  k = attached /\ event \in {"TX_RX_END", "SUSPEND_TRANSMISSION"}
    BY <1>1 DEF BackoffOnlyOnOwnChannel
  <2>1. CASE mac[k].permission = 0
    BY <1>3, <2>1 DEF Obeys, BackoffOnlyOnOwnChannel
  <2>2. CASE mac[k].permission # 0  BY <2>2 DEF Permissions, TypesOK
  <2> QED  BY <2>1, <2>2
<1> QED  BY <1>5, <1>6, <1>7, <1>8, <1>9, <1>10, <1>11, <1>12

\* The invariant holds when the first interval begins.
LEMMA InitKeeps ==
    ASSUME Init
    PROVE  WaveInv
<1> DEFINE s == [c \in ChannelCategories |->
                    [InitialStation EXCEPT
                        !.permission = IF c = "CCH" THEN ChannelInterval[c] ELSE 0]]
<1>1. mac = s /\ currentCategory = "CCH" /\ attached = "CCH" /\ event = "TX_RX_END"
      /\ eventTime = ChannelInterval["CCH"] /\ now = 0 /\ young = NoYoung
  BY DEF Init
<1>2. ASSUME NEW c \in ChannelCategories
      PROVE  /\ s[c] \in StationTypes /\ ~IsTransmittingAFrame(s[c])
             /\ s[c].macState = "Idle"
             /\ s[c].permission = IF c = "CCH" THEN ChannelInterval[c] ELSE 0
  <2> DEFINE p == IF c = "CCH" THEN ChannelInterval[c] ELSE 0
             u == [InitialStation EXCEPT !.permission = p]
  <2>1. s[c] = u  OBVIOUS
  <2>2. p \in Nat  BY IntervalTimes
  <2> HIDE DEF p
  <2>3. u \in StationTypes /\ ~IsTransmittingAFrame(u) /\ u.macState = "Idle"
        /\ u.permission = p
    BY <2>2, InitialTyped DEF StationTypes, IsTransmittingAFrame
  <2> QED  BY <2>1, <2>3 DEF p
<1> HIDE DEF s
<1>3. CategoryAt(now) = "CCH" /\ Since = 0 /\ OperationEnd = ChannelInterval["CCH"]
  BY <1>1, BothIntervals DEF CategoryAt, Since, OperationEnd
<1>4. TypesOK
  <2>1. mac \in [ChannelCategories -> StationTypes]
    <3>1. mac = [c \in ChannelCategories |-> s[c]]  BY <1>1 DEF s
    <3> QED  BY <1>2, <3>1
  <2>2. young \in [receiving : BOOLEAN, others : Nat]  BY <1>1 DEF NoYoung
  <2> QED  BY <1>1, <2>1, <2>2, BothIntervals, IntervalTimes DEF TypesOK, Events
<1>5. Operating /\ WaitingForFrame /\ Switching
  BY <1>1, <1>2, <1>3, IntervalTimes DEF Operating, WaitingForFrame, Switching
<1>6. Permissions  BY <1>1, <1>2 DEF Permissions
<1>7. FramesEnd  BY <1>1, <1>2 DEF FramesEnd, EndsInPermission
<1>8. SilentWhileSwitching /\ BackoffOnlyOnOwnChannel
  BY <1>1, <1>2 DEF SilentWhileSwitching, BackoffOnlyOnOwnChannel
<1> QED  BY <1>4, <1>5, <1>6, <1>7, <1>8 DEF WaveInv

\* Packets arrive for either channel at any time.
LEMMA ArriveKeeps ==
    ASSUME WaveInv, NEW c \in ChannelCategories, Arrive(c)
    PROVE  WaveInv'
<1>1. ~Failed /\ UNCHANGED <<waveVars, now, young>>  BY DEF Arrive
<1>2. PICK d \in Draws, k \in Categories :
          mac' = [mac EXCEPT ![c] = NetworkLayerQueueChangeNotification(
                                        [mac[c] EXCEPT !.ac[k].queued = @ + 1], d)]
  BY DEF Arrive
<1> DEFINE s == mac[c]
           i == [s.ac[k] EXCEPT !.queued = s.ac[k].queued + 1]
           more == With(s, k, i)
           t == NetworkLayerQueueChangeNotification(more, d)
<1>3. s \in StationTypes  BY DEF WaveInv, TypesOK
<1>4. d \in DrawTypes  BY DrawsTyped
<1>5. i \in AccessCategoryInfos
  <2>1. s.ac[k].queued + 1 \in Nat  BY <1>3 DEF StationTypes, AccessCategoryInfos
  <2> QED  BY <1>3, <2>1, InfoTyped DEF AccessCategoryInfos
<1>6. mac' = [mac EXCEPT ![c] = t]
  <2>1. mac' = [mac EXCEPT ![c] = NetworkLayerQueueChangeNotification(
                                      [mac[c] EXCEPT !.ac[k].queued = @ + 1], d)]
    BY <1>2
  <2>2. [mac[c] EXCEPT !.ac[k].queued = @ + 1] = more  BY <1>3 DEF With, StationTypes
  <2> HIDE DEF more, s, i
  <2> QED  BY <2>1, <2>2
<1> HIDE DEF i
<1>7. more \in StationTypes /\ SameAccess(s, more)  BY <1>3, <1>5, WithTyped
<1> HIDE DEF more
<1>8. t \in StationTypes /\ SameAccess(s, t)
  BY <1>4, <1>7, QueueChangeTyped, SameAccessTransitive
<1>9. StationMoves(c, t)  BY <1>1, <1>6, <1>8, SameAccessObeys DEF StationMoves
<1>10. young' \in [receiving : BOOLEAN, others : Nat]  BY <1>1 DEF WaveInv, TypesOK
<1> HIDE DEF t
<1> QED  BY <1>1, <1>9, <1>10, StationMovesKeeps

\* A signal reaches the antenna.
LEMMA SignalReachesKeeps ==
    ASSUME WaveInv, ~Failed, NEW signal \in {"FOREIGN", "REPLY"}, SignalReaches(signal),
           UNCHANGED <<waveVars, now>>
    PROVE  WaveInv'
<1>1. PICK d \in Draws, preambleIsDetected \in BOOLEAN, loud \in BOOLEAN :
          /\ mac' = [mac EXCEPT ![attached] =
                        ProcessNewSignal(@, signal, preambleIsDetected, loud, d)]
          /\ young' = YoungAfterSignal(mac[attached], young, preambleIsDetected, loud)
  BY DEF SignalReaches
<1> DEFINE s == mac[attached]
           t == ProcessNewSignal(s, signal, preambleIsDetected, loud, d)
<1>2. s \in StationTypes /\ attached \in ChannelCategories  BY DEF WaveInv, TypesOK
<1>3. d \in DrawTypes  BY DrawsTyped
<1> HIDE DEF s
<1>4. t \in StationTypes /\ Obeys(s, t)  BY <1>2, <1>3, ProcessNewSignalTyped
<1>5. mac' = [mac EXCEPT ![attached] = t]  BY <1>1 DEF s
<1> HIDE DEF t
<1>6. StationMoves(attached, t)  BY <1>4, <1>5 DEF StationMoves, s
<1>7. young' \in [receiving : BOOLEAN, others : Nat]
  <2>1. young \in [receiving : BOOLEAN, others : Nat]  BY DEF WaveInv, TypesOK
  <2> DEFINE more == [young EXCEPT !.others = @ + 1]
             begun == [young EXCEPT !.receiving = TRUE]
             both == [more EXCEPT !.receiving = TRUE]
  <2>2. young.others + 1 \in Nat  BY <2>1
  <2>3. begun \in [receiving : BOOLEAN, others : Nat]  BY <2>1
  <2>4. more \in [receiving : BOOLEAN, others : Nat]  BY <2>1, <2>2
  <2>5. both \in [receiving : BOOLEAN, others : Nat]
    <3> HIDE DEF more
    <3> QED  BY <2>4
  <2>6. [(IF young.receiving /\ mac[attached].loud THEN more ELSE young)
             EXCEPT !.receiving = TRUE] \in {begun, both}
    <3> HIDE DEF more
    <3>1. CASE young.receiving /\ mac[attached].loud  BY <3>1
    <3>2. CASE ~(young.receiving /\ mac[attached].loud)  BY <3>2
    <3> QED  BY <3>1, <3>2
  <2>7. young' \in {young, begun, more, both}
    <3> DEFINE preempts == [(IF young.receiving /\ mac[attached].loud THEN more ELSE young)
                               EXCEPT !.receiving = TRUE]
    <3>1. young' = CASE mac[attached].phyState = "Scanning" /\ preambleIsDetected -> begun
                     [] mac[attached].phyState = "Receiving" /\ preambleIsDetected -> preempts
                     [] OTHER -> IF loud THEN more ELSE young
      BY <1>1 DEF YoungAfterSignal
    <3>2. preempts \in {begun, both}  BY <2>6
    <3> HIDE DEF begun, more, both, preempts
    <3> QED  BY <3>1, <3>2
  <2> HIDE DEF begun, more, both
  <2> QED  BY <2>1, <2>3, <2>4, <2>5, <2>7
<1> QED  BY <1>2, <1>6, <1>7, StationMovesKeeps

\* A signal ends, and its frame may be answered.
LEMMA SignalEndsKeeps ==
    ASSUME WaveInv, ReceivedSignalEnds \/ OtherSignalEnds
    PROVE  WaveInv'
<1> DEFINE s == mac[attached]
<1>1. s \in StationTypes /\ attached \in ChannelCategories
      /\ young \in [receiving : BOOLEAN, others : Nat]
  BY DEF WaveInv, TypesOK
<1>2. ~Failed /\ UNCHANGED <<waveVars, now, young>>
  BY DEF ReceivedSignalEnds, OtherSignalEnds, environmentVars
<1>3. CASE ReceivedSignalEnds
  <2>1. PICK d \in Draws, frame \in FramesOf(s) :
            mac' = [mac EXCEPT ![attached] = ProcessEndOfReceivedSignal(@, frame, 0, d)]
    BY <1>3 DEF ReceivedSignalEnds
  <2> DEFINE t == ProcessEndOfReceivedSignal(s, frame, 0, d)
  <2>2. frame \in ReceivedFrames  BY DEF FramesOf, ReceivedFrames
  <2>3. d \in DrawTypes  BY DrawsTyped
  <2>4. s.phyState = "Receiving"  BY <1>3 DEF ReceivedSignalEnds
  <2>5. mac' = [mac EXCEPT ![attached] = t]  BY <2>1
  <2> HIDE DEF s
  <2>6. t \in StationTypes /\ Obeys(s, t)
    BY <1>1, <2>2, <2>3, <2>4, EndOfReceivedSignalTyped
  <2> HIDE DEF t
  <2>7. StationMoves(attached, t)  BY <1>2, <2>5, <2>6 DEF StationMoves, s
  <2> QED  BY <1>1, <1>2, <2>7, StationMovesKeeps
<1>4. CASE OtherSignalEnds
  <2>1. PICK d \in Draws :
            mac' = [mac EXCEPT ![attached] = ProcessEndOfOtherSignal(@, d)]
    BY <1>4 DEF OtherSignalEnds
  <2> DEFINE t == ProcessEndOfOtherSignal(s, d)
  <2>2. d \in DrawTypes  BY DrawsTyped
  <2>3. s.others > 0
    <3>1. s.others > young.others  BY <1>4 DEF OtherSignalEnds
    <3>2. s.others \in Nat /\ young.others \in Nat  BY <1>1 DEF StationTypes
    <3> HIDE DEF s
    <3> QED  BY <3>1, <3>2
  <2>4. mac' = [mac EXCEPT ![attached] = t]  BY <2>1
  <2> HIDE DEF s
  <2>5. t \in StationTypes /\ Obeys(s, t)  BY <1>1, <2>2, <2>3, EndOfOtherSignalTyped
  <2> HIDE DEF t
  <2>6. StationMoves(attached, t)  BY <1>2, <2>4, <2>5 DEF StationMoves, s
  <2> QED  BY <1>1, <1>2, <2>6, StationMovesKeeps
<1> QED  BY <1>3, <1>4

\* The timers of the PHY and of the MACs.
LEMMA TimersKeep ==
    ASSUME WaveInv,
           TransmissionTimer \/ \E c \in ChannelCategories : WakeupTimer(c)
    PROVE  WaveInv'
<1>1. young \in [receiving : BOOLEAN, others : Nat]  BY DEF WaveInv, TypesOK
<1>2. CASE TransmissionTimer
  <2> DEFINE s == mac[attached]
  <2>1. s \in StationTypes /\ attached \in ChannelCategories  BY DEF WaveInv, TypesOK
  <2>2. PICK d \in Draws : mac' = [mac EXCEPT ![attached] = StartOrEndTransmission(@, d)]
    BY <1>2 DEF TransmissionTimer
  <2>3. ~Failed /\ UNCHANGED <<waveVars, now, young>> /\ IsTransmittingAFrame(s)
        /\ s.txLeft = 0
    BY <1>2 DEF TransmissionTimer
  <2> DEFINE t == StartOrEndTransmission(s, d)
  <2>4. d \in DrawTypes  BY DrawsTyped
  <2>5. mac' = [mac EXCEPT ![attached] = t]  BY <2>2
  <2> HIDE DEF s
  <2>6. t \in StationTypes /\ Obeys(s, t)
    BY <2>1, <2>3, <2>4, StartOrEndTransmissionTyped
  <2> HIDE DEF t
  <2>7. StationMoves(attached, t)  BY <2>3, <2>5, <2>6 DEF StationMoves, s
  <2> QED  BY <1>1, <2>1, <2>3, <2>7, StationMovesKeeps
<1>3. ASSUME NEW c \in ChannelCategories, WakeupTimer(c) PROVE WaveInv'
  <2> DEFINE s == mac[c]
  <2>1. s \in StationTypes  BY DEF WaveInv, TypesOK
  <2>2. PICK d \in Draws, r \in AllRetrievals(s) :
            mac' = [mac EXCEPT ![c] = WakeupTimerEvent(@, d, r)]
    BY <1>3 DEF WakeupTimer
  <2>3. ~Failed /\ UNCHANGED <<waveVars, now, young>>
    BY <1>3 DEF WakeupTimer, environmentVars
  <2> DEFINE t == WakeupTimerEvent(s, d, r)
  <2>4. d \in DrawTypes  BY DrawsTyped
  <2>5. mac' = [mac EXCEPT ![c] = t]  BY <2>2
  <2> HIDE DEF s
  <2>6. t \in StationTypes /\ Obeys(s, t)  BY <2>1, <2>4, WakeupTimerEventTyped
  <2> HIDE DEF t
  <2>7. StationMoves(c, t)  BY <2>3, <2>5, <2>6 DEF StationMoves, s
  <2> QED  BY <1>1, <2>3, <2>7, StationMovesKeeps
<1> QED  BY <1>2, <1>3

\* The end of a transmission is a time.
LEMMA EndOfTransmission ==
    ASSUME NEW s \in StationTypes
    PROVE  /\ OutgoingTransmissionEnd(s) \in Nat
           /\ OutgoingTransmissionEnd(s) > 0 => IsTransmittingAFrame(s)
           /\ s.permission = 0 /\ EndsInPermission(s) /\ IsTransmittingAFrame(s)
                  => OutgoingTransmissionEnd(s) < Overrun
<1>1. s.txLeft \in Nat /\ FrameDuration(s.outgoing) \in Nat /\ Overrun \in Nat
  BY Timings DEF StationTypes, FrameDuration, Overrun
<1>2. OutgoingTransmissionEnd(s) \in Nat  BY <1>1 DEF OutgoingTransmissionEnd
<1>3. OutgoingTransmissionEnd(s) > 0 => IsTransmittingAFrame(s)
  BY DEF OutgoingTransmissionEnd, IsTransmittingAFrame
<1>4. INFINITE # 0  BY DEF INFINITE
<1>5. s.permission = 0 /\ EndsInPermission(s) /\ IsTransmittingAFrame(s)
          => OutgoingTransmissionEnd(s) < Overrun
  BY <1>1, <1>2, <1>4 DEF EndsInPermission
<1> QED  BY <1>2, <1>3, <1>5

\* The transmission of the old interval is suspended, now or after the frame on the air.
LEMMA SuspendForKeeps ==
    ASSUME WaveInv, NEW category \in ChannelCategories, SuspendFor(category), now' = now,
           attached = currentCategory, category = CategoryAt(now), category # currentCategory,
           mac[attached].permission = 0, Since <= Overrun,
           OutgoingTransmissionEnd(mac[attached]) > 0 =>
               Since + OutgoingTransmissionEnd(mac[attached]) < Overrun
    PROVE  WaveInv'
<1> DEFINE s == mac[attached]
           u == SuspendTransmissionFunction(s)
           t == Expect(u, ~IsTransmittingAFrame(s) /\ category # currentCategory)
           end == OutgoingTransmissionEnd(s)
<1>1. s \in StationTypes /\ attached \in ChannelCategories
      /\ mac \in [ChannelCategories -> StationTypes]
      /\ young' \in [receiving : BOOLEAN, others : Nat] /\ attached' = attached
  BY DEF WaveInv, TypesOK, SuspendFor, environmentVars
<1>2. end \in Nat  BY <1>1, EndOfTransmission
<1>3. Since \in Nat /\ Overrun \in Nat /\ HalfSyncTolerance \in Nat
      /\ now' \in Nat /\ now' < SyncInterval
  BY TimeInInterval, IntervalTimes DEF WaveInv, TypesOK
<1>4. CategoryAt(now)' = CategoryAt(now) /\ Since' = Since  BY DEF CategoryAt, Since
<1>5. CASE end > 0
  <2>1. /\ event' = "SUSPEND_TRANSMISSION" /\ eventTime' = end
        /\ mac' = mac /\ currentCategory' = currentCategory
    BY <1>5 DEF SuspendFor
  <2>2. TypesOK'  BY <1>1, <1>2, <1>3, <2>1 DEF WaveInv, TypesOK, Events
  <2>3. Operating' /\ Switching'  BY <2>1 DEF Operating, Switching
  <2>4. WaitingForFrame'
    <3>1. OutgoingTransmissionEnd(mac'[attached']) = end  BY <1>1, <2>1
    <3>2. OutgoingTransmissionEnd(mac'[attached']) <= eventTime'  BY <1>2, <2>1, <3>1
    <3>3. Since' + eventTime' < Overrun  BY <1>4, <1>5, <2>1
    <3> QED  BY <1>1, <1>4, <2>1, <3>2, <3>3 DEF WaitingForFrame
  <2>5. Permissions'  BY <1>1, <2>1 DEF WaveInv, Permissions
  <2>6. FramesEnd'  BY <2>1 DEF WaveInv, FramesEnd
  <2>7. SilentWhileSwitching'  BY <2>1 DEF SilentWhileSwitching
  <2>8. BackoffOnlyOnOwnChannel'  BY <1>1, <2>1 DEF WaveInv, BackoffOnlyOnOwnChannel
  <2> QED  BY <2>2, <2>3, <2>4, <2>5, <2>6, <2>7, <2>8 DEF WaveInv
<1>6. CASE ~(end > 0)
  <2>1. /\ event' = "CHANNEL_SWITCH" /\ eventTime' = HalfSyncTolerance
        /\ mac' = [mac EXCEPT ![attached] = t] /\ currentCategory' = category
    BY <1>6 DEF SuspendFor
  <2>2. u \in StationTypes /\ u.permission = 0 /\ u.macState # "WaitingForIfsAndBackoff"
        /\ u.phyState = s.phyState /\ u.outgoing = s.outgoing /\ u.txLeft = s.txLeft
    BY <1>1, SuspendTyped
  <2> DEFINE condition == ~IsTransmittingAFrame(s) /\ category # currentCategory
  <2>3. t \in StationTypes /\ SameAccess(u, t) /\ t.macState = u.macState
        /\ (~condition => t.failed)
    <3> HIDE DEF u, condition, s
    <3>1. t = Expect(u, condition)  BY DEF condition
    <3>2. Expect(u, condition) \in StationTypes /\ SameAccess(u, Expect(u, condition))
          /\ Expect(u, condition).macState = u.macState
      BY <2>2, ExpectTyped
    <3>3. ~condition => Expect(u, condition).failed
      BY <2>2 DEF Expect, StationTypes
    <3> QED  BY <3>1, <3>2, <3>3
  <2> HIDE DEF u, t
  <2>4. t.permission = 0 /\ t.macState # "WaitingForIfsAndBackoff"
        /\ t.phyState = s.phyState /\ t.outgoing = s.outgoing /\ t.txLeft = s.txLeft
    BY <2>2, <2>3 DEF SameAccess
  <2>5. mac'[attached] = t /\ \A k \in ChannelCategories : k # attached => mac'[k] = mac[k]
    BY <1>1, <2>1
  <2>6. TypesOK'  BY <1>1, <1>3, <2>1, <2>3 DEF WaveInv, TypesOK, Events
  <2>7. Operating' /\ WaitingForFrame'  BY <2>1 DEF Operating, WaitingForFrame
  <2>8. Switching'
    <3>1. Since' + eventTime' <= Overrun + HalfSyncTolerance  BY <1>3, <1>4, <2>1
    <3> QED  BY <1>1, <1>4, <2>1, <3>1 DEF Switching
  <2>9. Permissions'  BY <1>1, <2>1, <2>4, <2>5 DEF WaveInv, Permissions
  <2>10. FramesEnd'
    <3>1. EndsInPermission(s)  BY <1>1 DEF WaveInv, FramesEnd
    <3>2. EndsInPermission(t)
      BY <2>4, <3>1 DEF EndsInPermission, IsTransmittingAFrame, OutgoingTransmissionEnd
    <3> QED  BY <2>5, <3>2 DEF WaveInv, FramesEnd
  <2>11. SilentWhileSwitching'
    <3>1. IsTransmittingAFrame(t) => t.failed
      BY <2>3, <2>4 DEF IsTransmittingAFrame
    <3> QED  BY <1>1, <2>5, <3>1 DEF SilentWhileSwitching, Failed
  <2>12. BackoffOnlyOnOwnChannel'
    BY <2>4, <2>5 DEF WaveInv, BackoffOnlyOnOwnChannel
  <2> QED
    BY <2>6, <2>7, <2>8, <2>9, <2>10, <2>11, <2>12 DEF WaveInv
<1> QED  BY <1>5, <1>6

\* At the end of an operation the interval is always over.
LEMMA TxRxEndKeeps ==
    ASSUME WaveInv, TxRxEnd
    PROVE  WaveInv'
<1>1. event = "TX_RX_END" /\ eventTime = 0 /\ now' = now  BY DEF TxRxEnd
<1>2. /\ attached = currentCategory /\ mac[attached].permission = 0
      /\ currentCategory # CategoryAt(now) /\ Since = 0
  BY <1>1 DEF WaveInv, Operating
<1>3. SuspendFor(CategoryAt(now))  BY <1>2 DEF TxRxEnd
<1>4. CategoryAt(now) \in ChannelCategories /\ Overrun \in Nat
  BY TimeInInterval, IntervalTimes DEF WaveInv
<1>5. mac[attached] \in StationTypes /\ EndsInPermission(mac[attached])
  BY DEF WaveInv, TypesOK, FramesEnd
<1>6. OutgoingTransmissionEnd(mac[attached]) > 0 =>
          Since + OutgoingTransmissionEnd(mac[attached]) < Overrun
  BY <1>2, <1>5, EndOfTransmission
<1>7. Since <= Overrun  BY <1>2, <1>4
<1> QED  BY <1>1, <1>2, <1>3, <1>4, <1>6, <1>7, SuspendForKeeps

\* The frame that was waited for is over.
LEMMA SuspendTransmissionKeeps ==
    ASSUME WaveInv, SuspendTransmission
    PROVE  WaveInv'
<1>1. event = "SUSPEND_TRANSMISSION" /\ eventTime = 0 /\ now' = now
      /\ SuspendFor(Other(currentCategory))
  BY DEF SuspendTransmission
<1>2. /\ attached = currentCategory /\ mac[attached].permission = 0
      /\ currentCategory # CategoryAt(now)
      /\ OutgoingTransmissionEnd(mac[attached]) <= 0 /\ Since + 0 < Overrun
  BY <1>1 DEF WaveInv, WaitingForFrame, Permissions
<1>3. CategoryAt(now) \in ChannelCategories /\ Overrun \in Nat /\ Since \in Nat
  BY TimeInInterval, IntervalTimes DEF WaveInv
<1>4. Other(currentCategory) = CategoryAt(now)
  BY <1>2, <1>3 DEF WaveInv, TypesOK, ChannelCategories, Other
<1>5. OutgoingTransmissionEnd(mac[attached]) \in Nat
  BY EndOfTransmission DEF WaveInv, TypesOK
<1>6. Since <= Overrun /\ ~(OutgoingTransmissionEnd(mac[attached]) > 0)
  BY <1>2, <1>3, <1>5
<1> QED  BY <1>1, <1>2, <1>3, <1>4, <1>6, SuspendForKeeps

\* The PHY goes over to the MAC of the new channel; neither of the two is sending.
LEMMA StartChannelSwitchingKeeps ==
    ASSUME WaveInv, StartChannelSwitching
    PROVE  WaveInv'
<1> DEFINE old == mac[attached]
           new == mac[currentCategory]
           u == SwitchToChannels(old)
           v == SwitchToChannels(new)
           x == [u EXCEPT !.sent = NONE]
           y == [v EXCEPT !.sent = old.sent]
<1>1. /\ ~Failed /\ event = "CHANNEL_SWITCH" /\ eventTime = 0
      /\ event' = "TX_RX_START" /\ eventTime' = MaxChannelSwitchingTime + HalfSyncTolerance
      /\ attached' = currentCategory /\ currentCategory' = currentCategory /\ now' = now
      /\ young' = NoYoung
  BY DEF StartChannelSwitching
<1>2. /\ attached # currentCategory /\ currentCategory = CategoryAt(now)
      /\ Since + eventTime <= Overrun + HalfSyncTolerance
      /\ attached \in ChannelCategories /\ currentCategory \in ChannelCategories
      /\ mac \in [ChannelCategories -> StationTypes]
  BY <1>1 DEF WaveInv, Switching, TypesOK
<1>3. mac' = [mac EXCEPT ![attached] = x, ![currentCategory] = y]
  BY <1>2 DEF StartChannelSwitching
<1>4. old \in StationTypes /\ new \in StationTypes /\ old.permission = 0 /\ new.permission = 0
  BY <1>1, <1>2 DEF WaveInv, Permissions
<1>5. /\ u \in StationTypes /\ ~IsTransmittingAFrame(u) /\ u.permission = 0
      /\ u.macState = old.macState
      /\ v \in StationTypes /\ ~IsTransmittingAFrame(v) /\ v.permission = 0
      /\ v.macState = new.macState
  <2> HIDE DEF old, new
  <2> QED  BY <1>4, SwitchToChannelsTyped
<1>6. old.macState # "WaitingForIfsAndBackoff" /\ new.macState # "WaitingForIfsAndBackoff"
  BY <1>1, <1>2 DEF WaveInv, BackoffOnlyOnOwnChannel
<1> HIDE DEF u, v
<1>7. /\ x \in StationTypes /\ ~IsTransmittingAFrame(x) /\ x.permission = 0
      /\ x.macState # "WaitingForIfsAndBackoff"
  BY <1>5, <1>6 DEF StationTypes, IsTransmittingAFrame
<1>8. /\ y \in StationTypes /\ ~IsTransmittingAFrame(y) /\ y.permission = 0
      /\ y.macState # "WaitingForIfsAndBackoff"
  BY <1>4, <1>5, <1>6 DEF StationTypes, IsTransmittingAFrame
<1> HIDE DEF x, y
<1>9. ASSUME NEW c \in ChannelCategories
      PROVE  /\ mac'[c] \in StationTypes /\ ~IsTransmittingAFrame(mac'[c])
             /\ mac'[c].permission = 0 /\ mac'[c].macState # "WaitingForIfsAndBackoff"
  <2>1. c = attached \/ c = currentCategory  BY <1>2 DEF ChannelCategories
  <2>2. mac'[c] \in {x, y}  BY <1>2, <1>3, <2>1
  <2> QED  BY <1>7, <1>8, <2>2
<1>10. TypesOK'
  <2>1. mac' \in [ChannelCategories -> StationTypes]
    <3>1. mac' = [c \in ChannelCategories |-> mac'[c]]  BY <1>2, <1>3
    <3> QED  BY <1>9, <3>1
  <2>2. young' \in [receiving : BOOLEAN, others : Nat]  BY <1>1 DEF NoYoung
  <2>3. eventTime' \in Nat  BY <1>1, IntervalTimes
  <2> QED  BY <1>1, <1>2, <2>1, <2>2, <2>3 DEF WaveInv, TypesOK, Events
<1>11. Operating' /\ WaitingForFrame'  BY <1>1 DEF Operating, WaitingForFrame
<1>12. Switching'
  <2>1. CategoryAt(now)' = CategoryAt(now) /\ Since' = Since
    BY <1>1 DEF CategoryAt, Since
  <2>2. Since \in Nat /\ Overrun \in Nat /\ HalfSyncTolerance \in Nat
        /\ MaxChannelSwitchingTime \in Nat
    BY TimeInInterval, IntervalTimes DEF WaveInv
  <2>3. Since' + eventTime' <= Overrun + 2 * HalfSyncTolerance + MaxChannelSwitchingTime
    BY <1>1, <1>2, <2>1, <2>2
  <2> QED  BY <1>1, <1>2, <2>1, <2>3 DEF Switching
<1>13. Permissions'  BY <1>1, <1>2, <1>9 DEF Permissions
<1>14. FramesEnd'  BY <1>9 DEF FramesEnd, EndsInPermission
<1>15. SilentWhileSwitching' /\ BackoffOnlyOnOwnChannel'
  BY <1>1, <1>2, <1>9 DEF SilentWhileSwitching, BackoffOnlyOnOwnChannel
<1> QED  BY <1>10, <1>11, <1>12, <1>13, <1>14, <1>15 DEF WaveInv

\* The channel of the interval is open until the interval ends.
LEMMA TxRxStartKeeps ==
    ASSUME WaveInv, TxRxStart
    PROVE  WaveInv'
<1> DEFINE s == mac[attached]
           t == ResumeTransmissionFunction(s, OperationEnd)
<1>1. /\ ~Failed /\ event = "TX_RX_START" /\ event' = "TX_RX_END"
      /\ eventTime' = OperationEnd /\ attached' = attached
      /\ currentCategory' = currentCategory /\ now' = now /\ young' = young
  BY DEF TxRxStart, Resume, environmentVars
<1>2. /\ attached = currentCategory /\ currentCategory = CategoryAt(now)
      /\ attached \in ChannelCategories /\ s \in StationTypes
      /\ mac \in [ChannelCategories -> StationTypes]
  BY <1>1 DEF WaveInv, Switching, TypesOK
<1>3. mac' = [mac EXCEPT ![attached] = t]  BY <1>2 DEF TxRxStart, Resume
<1>4. ~IsTransmittingAFrame(s)  BY <1>1 DEF WaveInv, SilentWhileSwitching
<1>5. OperationEnd \in Nat /\ OperationEnd > 0  BY TimeInInterval DEF WaveInv
<1>6. t \in StationTypes /\ t.permission = OperationEnd /\ ~IsTransmittingAFrame(t)
  <2> DEFINE p == OperationEnd
             r == ResumeTransmissionFunction(s, p)
  <2>1. p \in Nat  BY <1>5
  <2> HIDE DEF s, p
  <2>2. r \in StationTypes /\ r.permission = p /\ r.phyState = s.phyState
    BY <1>2, <2>1, ResumeTyped
  <2> QED  BY <1>4, <2>2 DEF p, IsTransmittingAFrame
<1> HIDE DEF t
<1>7. mac'[attached] = t /\ \A c \in ChannelCategories : c # attached => mac'[c] = mac[c]
  BY <1>2, <1>3
<1>8. CategoryAt(now)' = CategoryAt(now) /\ OperationEnd' = OperationEnd
  BY <1>1 DEF CategoryAt, OperationEnd
<1>9. TypesOK'  BY <1>1, <1>2, <1>3, <1>5, <1>6 DEF WaveInv, TypesOK, Events
<1>10. Operating'
  <2>1. mac'[attached'].permission = eventTime'  BY <1>1, <1>6, <1>7
  <2>2. eventTime' > 0 /\ eventTime' # 0 /\ eventTime' = OperationEnd'  BY <1>1, <1>5, <1>8
  <2> QED  BY <1>1, <1>2, <1>8, <2>1, <2>2 DEF Operating
<1>11. WaitingForFrame' /\ Switching'  BY <1>1 DEF WaitingForFrame, Switching
<1>12. Permissions'  BY <1>1, <1>7 DEF WaveInv, Permissions
<1>13. FramesEnd'
  <2>1. EndsInPermission(t)  BY <1>6 DEF EndsInPermission
  <2> QED  BY <1>7, <2>1 DEF WaveInv, FramesEnd
<1>14. SilentWhileSwitching'  BY <1>1 DEF SilentWhileSwitching
<1>15. BackoffOnlyOnOwnChannel'
  BY <1>1, <1>7 DEF WaveInv, BackoffOnlyOnOwnChannel
<1> QED  BY <1>9, <1>10, <1>11, <1>12, <1>13, <1>14, <1>15 DEF WaveInv

\* A tick later: the permission and the timer of the PHY entity run out together.
LEMMA TimePassesKeeps ==
    ASSUME WaveInv, TimePasses
    PROVE  WaveInv'
<1>1. /\ ~Failed /\ eventTime > 0 /\ eventTime' = eventTime - 1
      /\ mac' = [c \in ChannelCategories |-> Tick(mac[c])]
      /\ now' = (now + 1) % SyncInterval /\ young' = NoYoung
      /\ currentCategory' = currentCategory /\ attached' = attached /\ event' = event
      /\ \A c \in ChannelCategories : NothingIsDue(mac[c])
  BY DEF TimePasses, NothingIsDueNow
<1>2. /\ mac \in [ChannelCategories -> StationTypes] /\ eventTime \in Nat
      /\ attached \in ChannelCategories /\ TypesOK
      /\ \A c \in ChannelCategories : mac[c] \in StationTypes
  BY DEF WaveInv, TypesOK
<1>3. \A c \in ChannelCategories : mac'[c] = Tick(mac[c])  BY <1>1
<1>4. /\ CategoryAt(now) \in ChannelCategories
      /\ Since \in Nat /\ OperationEnd \in Nat
      /\ OperationEnd = ChannelInterval[CategoryAt(now)] - Since
      /\ OperationEnd > 0 /\ OperationEnd < INFINITE
      /\ OperationEnd + Overrun < INFINITE /\ Overrun \in Nat /\ INFINITE \in Nat
  BY <1>2, TimeInInterval, IntervalTimes, BothIntervals
<1> DEFINE i == ChannelInterval[CategoryAt(now)]
           o == OperationEnd
<1>5. /\ i \in Nat /\ Overrun + 2 * HalfSyncTolerance + MaxChannelSwitchingTime < i
      /\ HalfSyncTolerance \in Nat /\ MaxChannelSwitchingTime \in Nat
  BY <1>4, IntervalTimes
<1>6. /\ now' \in Nat /\ now' < SyncInterval
      /\ Since + 1 < i => /\ CategoryAt(now)' = CategoryAt(now)
                          /\ Since' = Since + 1 /\ OperationEnd' = o - 1
      /\ Since + 1 = i => CategoryAt(now)' # CategoryAt(now) /\ Since' = 0
  BY <1>1, <1>2, NextInstant
<1>7. o = i - Since /\ o \in Nat /\ o > 0 /\ o + Overrun < INFINITE  BY <1>4
<1> HIDE DEF i, o
<1>8. ASSUME NEW c \in ChannelCategories
      PROVE  mac[c].permission \in {0, o} /\ (mac[c].permission # 0 => c = attached
                 /\ event = "TX_RX_END" /\ mac[c].permission = eventTime)
  BY <1>1, <1>2 DEF WaveInv, Permissions, Operating, o
<1>9. ASSUME NEW c \in ChannelCategories
      PROVE  /\ EndsInPermission(mac'[c])
             /\ OutgoingTransmissionEnd(mac'[c]) =
                    IF IsTransmittingAFrame(mac[c]) THEN OutgoingTransmissionEnd(mac[c]) - 1
                    ELSE 0
  <2> DEFINE s == mac[c]
             t == Tick(s)
  <2>1. s \in StationTypes /\ NothingIsDue(s) /\ EndsInPermission(s)
    BY <1>1, <1>2 DEF WaveInv, FramesEnd
  <2>2. s.permission \in {0, o}  BY <1>8
  <2>3. mac'[c] = t  BY <1>3
  <2> HIDE DEF s
  <2>4. s.permission < INFINITE /\ s.permission # INFINITE /\ s.permission \in Nat
        /\ s.permission + Overrun < INFINITE
    BY <1>4, <1>7, <2>2
  <2>5. ASSUME IsTransmittingAFrame(s) PROVE s.txLeft < INFINITE
    <3>1. s.txLeft \in Nat /\ FrameDuration(s.outgoing) \in Nat
      BY <2>1, Timings DEF StationTypes, FrameDuration
    <3>2. s.txLeft <= OutgoingTransmissionEnd(s) /\ OutgoingTransmissionEnd(s) \in Nat
      BY <2>5, <3>1 DEF OutgoingTransmissionEnd, IsTransmittingAFrame
    <3>3. OutgoingTransmissionEnd(s) < s.permission + Overrun
      BY <1>4, <2>1, <2>4, <2>5, <3>2 DEF EndsInPermission
    <3> QED  BY <1>4, <2>4, <3>1, <3>2, <3>3
  <2>6. EndsInPermission(t)
        /\ OutgoingTransmissionEnd(t) =
               IF IsTransmittingAFrame(s) THEN OutgoingTransmissionEnd(s) - 1 ELSE 0
    BY <2>1, <2>4, <2>5, TickKeepsEnds
  <2> HIDE DEF t
  <2> QED  BY <2>3, <2>6 DEF s
<1>10. ASSUME NEW c \in ChannelCategories
       PROVE  /\ mac'[c] \in StationTypes /\ mac'[c].permission = Left(mac[c].permission)
              /\ mac'[c].macState = mac[c].macState /\ mac'[c].phyState = mac[c].phyState
              /\ mac'[c].failed = mac[c].failed
  <2> DEFINE s == mac[c]
             t == Tick(s)
  <2>1. s \in StationTypes /\ mac'[c] = t  BY <1>2, <1>3
  <2> HIDE DEF s
  <2>2. t \in StationTypes /\ t.permission = Left(s.permission)
        /\ t.macState = s.macState /\ t.phyState = s.phyState /\ t.failed = s.failed
    BY <2>1, TickTyped
  <2> HIDE DEF t
  <2> QED  BY <2>1, <2>2 DEF s
<1>11. TypesOK'
  <2>1. mac' \in [ChannelCategories -> StationTypes]
    <3>1. mac' = [c \in ChannelCategories |-> mac'[c]]  BY <1>1
    <3> QED  BY <1>10, <3>1
  <2>2. young' \in [receiving : BOOLEAN, others : Nat]  BY <1>1 DEF NoYoung
  <2>3. eventTime' \in Nat  BY <1>1, <1>2
  <2> QED  BY <1>1, <1>2, <1>6, <2>1, <2>2, <2>3 DEF TypesOK
<1>12. Operating'
  <2> SUFFICES ASSUME event = "TX_RX_END" PROVE Operating'  BY <1>1 DEF Operating
  <2>1. /\ attached = currentCategory /\ mac[attached].permission = eventTime
        /\ currentCategory = CategoryAt(now) /\ eventTime = o
    BY <1>1, <1>2 DEF WaveInv, Operating, o
  <2>2. mac'[attached].permission = eventTime'
    BY <1>1, <1>2, <1>4, <1>7, <1>10, <2>1, LeftTyped
  <2>3. eventTime' > 0 => Since + 1 < i  BY <1>1, <1>4, <1>5, <1>7, <2>1
  <2>4. eventTime' = 0 => Since + 1 = i  BY <1>1, <1>4, <1>5, <1>7, <2>1
  <2> QED  BY <1>1, <1>6, <2>1, <2>2, <2>3, <2>4 DEF Operating
<1>13. WaitingForFrame'
  <2> SUFFICES ASSUME event = "SUSPEND_TRANSMISSION" PROVE WaitingForFrame'
    BY <1>1 DEF WaitingForFrame
  <2>1. /\ attached = currentCategory /\ currentCategory # CategoryAt(now)
        /\ OutgoingTransmissionEnd(mac[attached]) <= eventTime
        /\ Since + eventTime < Overrun
    BY DEF WaveInv, WaitingForFrame
  <2>2. OutgoingTransmissionEnd(mac[attached]) \in Nat  BY <1>2, EndOfTransmission
  <2>3. OutgoingTransmissionEnd(mac'[attached]) <= eventTime'
    BY <1>1, <1>2, <1>9, <2>1, <2>2
  <2>4. Since + 1 < i  BY <1>1, <1>2, <1>4, <1>5, <2>1
  <2>5. Since' + eventTime' < Overrun  BY <1>1, <1>2, <1>4, <1>6, <2>1, <2>4
  <2> QED  BY <1>1, <1>6, <2>1, <2>3, <2>4, <2>5 DEF WaitingForFrame
<1>14. Switching'
  <2>1. CASE event = "CHANNEL_SWITCH"
    <3>1. attached # currentCategory /\ currentCategory = CategoryAt(now)
          /\ Since + eventTime <= Overrun + HalfSyncTolerance
      BY <2>1 DEF WaveInv, Switching
    <3>2. Since + 1 < i  BY <1>1, <1>2, <1>4, <1>5, <3>1
    <3>3. Since' + eventTime' <= Overrun + HalfSyncTolerance
      BY <1>1, <1>2, <1>4, <1>5, <1>6, <3>1, <3>2
    <3> QED  BY <1>1, <1>6, <2>1, <3>1, <3>2, <3>3 DEF Switching
  <2>2. CASE event = "TX_RX_START"
    <3>1. attached = currentCategory /\ currentCategory = CategoryAt(now)
          /\ Since + eventTime <= Overrun + 2 * HalfSyncTolerance + MaxChannelSwitchingTime
      BY <2>2 DEF WaveInv, Switching
    <3>2. Since + 1 < i  BY <1>1, <1>2, <1>4, <1>5, <3>1
    <3>3. Since' + eventTime' <= Overrun + 2 * HalfSyncTolerance + MaxChannelSwitchingTime
      BY <1>1, <1>2, <1>4, <1>5, <1>6, <3>1, <3>2
    <3> QED  BY <1>1, <1>6, <2>2, <3>1, <3>2, <3>3 DEF Switching
  <2> QED  BY <1>1, <2>1, <2>2 DEF Switching
<1>15. Permissions'
  <2>1. \A c \in ChannelCategories : mac[c].permission = 0 => mac'[c].permission = 0
    BY <1>10, LeftTyped
  <2> QED  BY <1>1, <1>2, <1>10, <2>1 DEF WaveInv, Permissions, IsTransmittingAFrame
<1>16. FramesEnd'  BY <1>9 DEF FramesEnd
<1>17. SilentWhileSwitching'
  BY <1>1, <1>2, <1>10 DEF WaveInv, SilentWhileSwitching, IsTransmittingAFrame, Failed
<1>18. BackoffOnlyOnOwnChannel'
  BY <1>1, <1>10 DEF WaveInv, BackoffOnlyOnOwnChannel
<1> QED  BY <1>11, <1>12, <1>13, <1>14, <1>15, <1>16, <1>17, <1>18 DEF WaveInv

-----------------------------------------------------------------------------
(* The theorems. *)

\* Every step of the PHY entity, of the two MACs and of the world keeps the invariant.
LEMMA NextKeeps ==
    ASSUME WaveInv, [Next]_vars
    PROVE  WaveInv'
<1>1. CASE TxRxEnd  BY <1>1, TxRxEndKeeps
<1>2. CASE SuspendTransmission  BY <1>2, SuspendTransmissionKeeps
<1>3. CASE StartChannelSwitching  BY <1>3, StartChannelSwitchingKeeps
<1>4. CASE TxRxStart  BY <1>4, TxRxStartKeeps
<1>5. ASSUME NEW c \in ChannelCategories, Arrive(c) PROVE WaveInv'
  BY <1>5, ArriveKeeps
<1>6. CASE TransmissionTimer \/ \E c \in ChannelCategories : WakeupTimer(c)
  BY <1>6, TimersKeep
<1>7. CASE ForeignSignalStarts
  <2>1. ~Failed /\ SignalReaches("FOREIGN") /\ UNCHANGED <<waveVars, now>>
    BY <1>7 DEF ForeignSignalStarts
  <2> QED  BY <2>1, SignalReachesKeeps
<1>8. CASE ReplyStarts
  <2>1. ~Failed /\ SignalReaches("REPLY") /\ UNCHANGED <<waveVars, now>>
    BY <1>8 DEF ReplyStarts
  <2> QED  BY <2>1, SignalReachesKeeps
<1>9. CASE ReceivedSignalEnds \/ OtherSignalEnds  BY <1>9, SignalEndsKeeps
<1>10. CASE TimePasses  BY <1>10, TimePassesKeeps
<1>11. CASE UNCHANGED vars
  <2>1. /\ mac' = mac /\ currentCategory' = currentCategory /\ attached' = attached
        /\ event' = event /\ eventTime' = eventTime /\ now' = now /\ young' = young
    BY <1>11 DEF vars, waveVars, environmentVars
  <2> QED
    BY <2>1 DEF WaveInv, TypesOK, Operating, WaitingForFrame, Switching, Permissions,
                FramesEnd, SilentWhileSwitching, BackoffOnlyOnOwnChannel, Since,
                OperationEnd, CategoryAt, Failed
<1> QED
  BY <1>1, <1>2, <1>3, <1>4, <1>5, <1>6, <1>7, <1>8, <1>9, <1>10, <1>11 DEF Next

\* The timer of the PHY entity, the permissions it hands out and the time stay related
\* as the phases of an interval say, and every field keeps its type.
THEOREM PhasesOfInterval == Spec => []WaveInv
<1>1. Init => WaveInv  BY InitKeeps
<1>2. WaveInv /\ [Next]_vars => WaveInv'  BY NextKeeps
<1> QED  BY <1>1, <1>2, PTL DEF Spec

\* The PHY sends nothing from the suspension to the start of the next operation, so that
\* changing channels never cuts a frame (wave_mac.h:1049, dot11_phy.h:2194).
THEOREM SwitchesInSilence == Spec => []SilentWhileSwitching
<1>1. WaveInv => SilentWhileSwitching  BY DEF WaveInv
<1> QED  BY <1>1, PhasesOfInterval, PTL

\* A MAC may send only in the interval of its channel, with the PHY on it, and exactly
\* until the timer ends the operation (wave_mac.h:972-1007).
THEOREM PermissionFitsInterval == Spec => []PermissionIsForInterval
<1>1. ASSUME WaveInv PROVE PermissionIsForInterval
  <2> SUFFICES ASSUME NEW c \in ChannelCategories, mac[c].permission > 0
               PROVE  /\ c = currentCategory /\ c = attached /\ c = CategoryAt(now)
                      /\ event = "TX_RX_END" /\ eventTime = mac[c].permission
    BY DEF PermissionIsForInterval
  <2>1. c = attached /\ event = "TX_RX_END"  BY <1>1 DEF WaveInv, Permissions
  <2> QED  BY <1>1, <2>1 DEF WaveInv, Operating
<1> QED  BY <1>1, PhasesOfInterval, PTL

\* A MAC counts its backoffs down only while the PHY listens to its channel.
THEOREM BackoffsWaitForChannel == Spec => []BackoffOnlyOnOwnChannel
<1>1. WaveInv => BackoffOnlyOnOwnChannel  BY DEF WaveInv
<1> QED  BY <1>1, PhasesOfInterval, PTL

\* A data frame, sent after a backoff or in the answer to a CTS, ends before the
\* permission does, and with it before the interval (dot11_mac.h:4532-4562).
THEOREM DataFitsInterval == Spec => []DataEndsInInterval
<1>1. ASSUME WaveInv PROVE DataEndsInInterval
  <2> DEFINE s == mac[attached]
  <2>1. attached \in ChannelCategories /\ s \in StationTypes /\ EndsInPermission(s)
    BY <1>1 DEF WaveInv, TypesOK, FramesEnd
  <2>2. s.permission # INFINITE
    <3>1. s.permission = 0 \/ (s.permission = eventTime /\ event = "TX_RX_END")
      BY <1>1 DEF WaveInv, Permissions, Operating
    <3>2. event = "TX_RX_END" => eventTime = 0 \/ eventTime = OperationEnd
      BY <1>1 DEF WaveInv, Operating, TypesOK
    <3>3. OperationEnd \in Nat /\ OperationEnd < INFINITE  BY <1>1, TimeInInterval DEF WaveInv
    <3>4. INFINITE # 0  BY DEF INFINITE
    <3> QED  BY <3>1, <3>2, <3>3, <3>4
  <2>3. s.permission \in Nat  BY <2>1, <2>2 DEF StationTypes
  <2>4. IsTransmittingAFrame(s) /\ s.outgoing = "DATA"
            => OutgoingTransmissionEnd(s) < s.permission
    BY <2>1, <2>2, <2>3 DEF EndsInPermission
  <2> QED  BY <2>4 DEF DataEndsInInterval
<1> QED  BY <1>1, PhasesOfInterval, PTL

==============================================================================
