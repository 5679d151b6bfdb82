--------------------------- MODULE Dot11Management ---------------------------
(***************************************************************************)
(* 802.11 management: stations (dot11/dot11_mac_sta.h, .cpp) scan the      *)
(* channels for beacons, authenticate and associate with the access point  *)
(* (dot11/dot11_mac_ap.h, .cpp) they hear best, and leave it when they     *)
(* hear it no more.                                                        *)
(*                                                                         *)
(* What the default ChannelScanningController never asks for is left out:  *)
(* background scans, the power save mode that goes with them, handovers    *)
(* without a scan, reassociation.  Nor does an access point ever send a    *)
(* disassociation.                                                         *)
(*                                                                         *)
(* Management frames wait in the FIFO queue of their MAC, which repeats    *)
(* the first until it is acknowledged or given up; the receiver drops what *)
(* it has seen before.                                                     *)
(***************************************************************************)
EXTENDS Naturals, Sequences, FiniteSets

CONSTANTS Stations,
          NumberAccessPoints,       \* numbered from 1, in the order of their addresses
          NumberOfChannels,         \* numbered from 0
          ChannelOf,                \* the channel of each access point
          MaxAssociationId,
          MaxLevel,                 \* signal levels; 0: not received
          DisassociationThreshold, AssociationThreshold,
          InitialLevel, MayMove,    \* levels at the start, station-AP pairs that change theirs
          MaxDisturbances           \* moves, losses and delays that will happen

AccessPoints == 1 .. NumberAccessPoints
NoAp == 0                           \* invalidMacAddress
Levels == 0 .. MaxLevel

ASSUME ManagementAssumption ==
    /\ NumberAccessPoints \in Nat \ {0} /\ NumberOfChannels \in Nat \ {0}
    /\ ChannelOf \in [AccessPoints -> 0 .. NumberOfChannels - 1]
    /\ IsFiniteSet(Stations) /\ MaxAssociationId \in Nat
    /\ Cardinality(Stations) <= MaxAssociationId
    /\ MaxLevel \in Nat
    /\ 0 < DisassociationThreshold /\ DisassociationThreshold <= AssociationThreshold
    /\ InitialLevel \in [Stations \X AccessPoints -> Levels]
    /\ MayMove \subseteq Stations \X AccessPoints
    /\ MaxDisturbances \in Nat

VARIABLES station,
          ap,
          toAp,          \* toAp[s]: the management frame queue of a station
          toStation,     \* toStation[a]: that of an access point
          level,         \* how well station and access point receive each other
          disturbances

vars == <<station, ap, toAp, toStation, level, disturbances>>

StationStates == {"NotAssociated", "ChannelScanning", "WaitingForAuthentication",
                  "WaitingForAssociationResponse", "Associated"}

StationEvents == {"Initialization", "ChannelScanTimeout", "AuthenticationTimeout",
                  "AssociateFailure", "CheckLinkStatus"}

StationInfos == [
    state : StationStates,
    ap : AccessPoints \cup {NoAp},       \* currentApAddress
    authenticated : BOOLEAN,
    id : 0 .. MaxAssociationId,          \* associationId
    events : SUBSET StationEvents,       \* those scheduled
    channel : 0 .. NumberOfChannels - 1,
    nextScan : Nat,                      \* nextScanChannelId
    average : [AccessPoints -> Levels],  \* averageRssiDbm; 0: no beacon received yet
    heard : BOOLEAN,                     \* a beacon since the last check of the link
    leave : BOOLEAN,                     \* shouldDisassociateFromCurrentAp
    due : SUBSET AccessPoints,           \* beacons to come before the scan or check ends
    answered : BOOLEAN,                  \* the response was to its latest request (history)
    linkIsUp : BOOLEAN]                  \* what the network layer was told last

ApInfos == [
    currentAssociationId : 0 .. MaxAssociationId,
    used : SUBSET (1 .. MaxAssociationId),               \* associationIdIsBeingUsed
    record : [Stations -> 0 .. MaxAssociationId],        \* associatedStaInformation; 0: none
    authentications : Seq(Stations)]                     \* scheduled SendAuthenticationEvents

\* present: it belongs to the latest attempt of its station (history).
RequestFrames == [type : {"AUTHENTICATION", "ASSOCIATION_REQUEST", "DISASSOCIATION"},
                  ap : AccessPoints, present : BOOLEAN]
ResponseFrames == [type : {"AUTHENTICATION", "ASSOCIATION_RESPONSE"},
                   station : Stations, id : 0 .. MaxAssociationId, present : BOOLEAN]

Init ==
    /\ station = [s \in Stations |->
           [state |-> "NotAssociated", ap |-> NoAp, authenticated |-> FALSE, id |-> 0,
            events |-> {"Initialization"}, channel |-> 0, nextScan |-> 0,
            average |-> [a \in AccessPoints |-> 0], heard |-> FALSE, leave |-> FALSE,
            due |-> {}, answered |-> FALSE, linkIsUp |-> FALSE]]
    /\ ap = [a \in AccessPoints |->
           [currentAssociationId |-> 0, used |-> {}, record |-> [s \in Stations |-> 0],
            authentications |-> <<>>]]
    /\ toAp = [s \in Stations |-> <<>>]
    /\ toStation = [a \in AccessPoints |-> <<>>]
    /\ level = InitialLevel
    /\ disturbances = 0

-----------------------------------------------------------------------------
(* The medium. *)

Hears(s, a) == station[s].channel = ChannelOf[a] /\ level[s, a] > 0

Audible(s, channel) == {a \in AccessPoints : ChannelOf[a] = channel /\ level[s, a] > 0}

\* What makes the medium differ from a prompt and reliable one.
Disturb == disturbances < MaxDisturbances /\ disturbances' = disturbances + 1

DisturbIf(condition) ==
    (condition /\ Disturb) \/ (~condition /\ UNCHANGED disturbances)

\* A frame in hand or on the air is deleted or lost when the station changes channels
\* (RequeueBufferedPackets, ChangingChannelsState).
HeadMayBeLost(queue) == {queue} \cup (IF queue = <<>> THEN {} ELSE {Tail(queue)})

InFlight(s) ==
    \/ toAp[s] # <<>>
    \/ \E a \in AccessPoints :
           \/ \E i \in DOMAIN ap[a].authentications : ap[a].authentications[i] = s
           \/ \E i \in DOMAIN toStation[a] : toStation[a][i].station = s

Old(frame) == [frame EXCEPT !.present = FALSE]

-----------------------------------------------------------------------------
(* The station. *)

\* A mutant: a later scan does not begin with the first channel again.
StartChannelScanningWithoutReset(s, st) ==
    [st EXCEPT !.state = "ChannelScanning", !.events = @ \cup {"ChannelScanTimeout"},
               !.channel = 0, !.nextScan = IF @ = 0 THEN 1 ELSE @, !.due = Audible(s, 0)]

\* It scans the channels from the first on.
StartChannelScanning(s, st) ==
    [st EXCEPT !.state = "ChannelScanning", !.events = @ \cup {"ChannelScanTimeout"},
               !.channel = 0, !.nextScan = 1, !.due = Audible(s, 0)]

ScanNextChannel(s, st) ==
    [st EXCEPT !.events = @ \cup {"ChannelScanTimeout"}, !.channel = st.nextScan,
               !.nextScan = @ + 1, !.due = Audible(s, st.nextScan)]

\* At the end of a scan: the best average, if it reaches the threshold.
ApToSwitchTo(st) ==
    LET Better(a, b) == st.average[a] > st.average[b]
                        \/ (st.average[a] = st.average[b] /\ a < b)
        best == CHOOSE a \in AccessPoints :
                    \A b \in AccessPoints \ {a} : Better(a, b)
    IN  IF st.average[best] >= AssociationThreshold THEN best ELSE NoAp

Send(s, queue, type, a) ==
    toAp' = [toAp EXCEPT ![s] = Append(queue, [type |-> type, ap |-> a, present |-> TRUE])]

\* SwitchToAnotherAccessPoint, StartAuthentication
StartAuthentication(s, st, a) ==
    /\ station' = [station EXCEPT ![s] =
           [st EXCEPT !.state = "WaitingForAuthentication", !.ap = a, !.authenticated = FALSE,
                      !.events = @ \cup {"AuthenticationTimeout"}, !.leave = FALSE,
                      !.channel = ChannelOf[a]]]
    /\ \E queue \in HeadMayBeLost(toAp[s]) :
           Send(s, [i \in DOMAIN queue |-> Old(queue[i])], "AUTHENTICATION", a)
    /\ toStation' = [b \in AccessPoints |->
           [i \in DOMAIN toStation[b] |->
               IF toStation[b][i].station = s THEN Old(toStation[b][i]) ELSE toStation[b][i]]]

\* Every timer event is taken off the schedule first.
Without(s, event) == [station[s] EXCEPT !.events = @ \ {event}]

InitializationEvent(s) ==
    /\ "Initialization" \in station[s].events
    /\ station' = [station EXCEPT ![s] = StartChannelScanning(s, Without(s, "Initialization"))]
    /\ \E queue \in HeadMayBeLost(toAp[s]) : toAp' = [toAp EXCEPT ![s] = queue]
    /\ UNCHANGED <<ap, toStation, level, disturbances>>

\* The scan of a channel lasts several beacon intervals.
ChannelScanTimedOut(s) ==
    LET st == Without(s, "ChannelScanTimeout")
    IN  /\ "ChannelScanTimeout" \in station[s].events /\ station[s].due = {}
        /\ CASE st.nextScan < NumberOfChannels ->
                    /\ station' = [station EXCEPT ![s] = ScanNextChannel(s, st)]
                    /\ \E queue \in HeadMayBeLost(toAp[s]) :
                           toAp' = [toAp EXCEPT ![s] = queue]
                    /\ UNCHANGED toStation
             [] st.nextScan >= NumberOfChannels /\ ApToSwitchTo(st) = NoAp ->
                    /\ station' = [station EXCEPT ![s] = StartChannelScanning(s, st)]
                    /\ \E queue \in HeadMayBeLost(toAp[s]) :
                           toAp' = [toAp EXCEPT ![s] = queue]
                    /\ UNCHANGED toStation
             [] OTHER -> StartAuthentication(s, st, ApToSwitchTo(st))
        /\ UNCHANGED <<ap, level, disturbances>>

\* AuthenticationTimeout and ProcessAssociateFailure: a timeout that comes while frames
\* are on their way is a disturbance.
HandshakeTimeout(s) ==
    \E event \in {"AuthenticationTimeout", "AssociateFailure"} \cap station[s].events :
        /\ DisturbIf(InFlight(s))
        /\ station' = [station EXCEPT ![s] = StartChannelScanning(s,
               [Without(s, event) EXCEPT !.ap = NoAp, !.authenticated = FALSE])]
        /\ \E queue \in HeadMayBeLost(toAp[s]) : toAp' = [toAp EXCEPT ![s] = queue]
        /\ UNCHANGED <<ap, toStation, level>>

\* The next scan starts after a delay (scanningStartDelay).
Disassociate(s, st) ==
    /\ station' = [station EXCEPT ![s] =
           [st EXCEPT !.state = "NotAssociated", !.ap = NoAp, !.authenticated = FALSE,
                      !.events = (@ \ {"CheckLinkStatus"}) \cup {"Initialization"},
                      !.due = {}, !.leave = FALSE, !.linkIsUp = FALSE]]
    /\ \E queue \in HeadMayBeLost(toAp[s]) : Send(s, queue, "DISASSOCIATION", st.ap)

\* The check of the link comes several beacon intervals after the one before.
CheckLinkStatus(s) ==
    LET st == Without(s, "CheckLinkStatus")
    IN  /\ "CheckLinkStatus" \in station[s].events /\ station[s].due = {}
        /\ IF ~st.heard \/ st.leave THEN Disassociate(s, st)
           ELSE /\ station' = [station EXCEPT ![s] =
                       [st EXCEPT !.events = @ \cup {"CheckLinkStatus"}, !.heard = FALSE,
                                  !.due = Audible(s, st.channel)]]
                /\ UNCHANGED toAp
        /\ UNCHANGED <<ap, toStation, level, disturbances>>

\* The moving average: its coefficient may be anything from 0.0 to 1.0.
Averages(average, received) ==
    {l \in Levels : (average <= l /\ l <= received) \/ (received <= l /\ l <= average)}

\* ReceiveBeaconInfo: the first beacon of an access point decides nothing.
AfterBeacon(s, a, average) ==
    LET st == station[s]
        isFirst == st.average[a] = 0
        isOwn == st.state = "Associated" /\ a = st.ap
    IN  [st EXCEPT !.average[a] = average, !.due = @ \ {a}, !.heard = @ \/ isOwn,
                   !.leave = IF ~isFirst /\ isOwn THEN average < DisassociationThreshold
                             ELSE @]

\* ProcessBeaconFrame: whatever the station is at, beacons come on its channel.
ReceiveBeacon(s, a) ==
    /\ a \in Audible(s, station[s].channel)
    /\ \E average \in IF station[s].average[a] = 0 THEN {level[s, a]}
                      ELSE Averages(station[s].average[a], level[s, a]) :
           LET st == AfterBeacon(s, a, average)
           IN  IF st.state = "Associated" /\ st.leave THEN Disassociate(s, st)
               ELSE station' = [station EXCEPT ![s] = st] /\ UNCHANGED toAp
    /\ UNCHANGED <<ap, toStation, level, disturbances>>

LoseBeacon(s, a) ==
    /\ a \in station[s].due
    /\ Disturb
    /\ station' = [station EXCEPT ![s].due = @ \ {a}]
    /\ UNCHANGED <<ap, toAp, toStation, level>>

\* A mutant: the timeout is not cancelled.
ProcessAuthenticationFrameLate(s) ==
    IF station[s].state # "WaitingForAuthentication" THEN UNCHANGED <<station, toAp>>
    ELSE /\ station' = [station EXCEPT ![s].state = "WaitingForAssociationResponse",
                                      ![s].authenticated = TRUE,
                                      ![s].events = @ \cup {"AssociateFailure"}]
         /\ Send(s, toAp[s], "ASSOCIATION_REQUEST", station[s].ap)

\* The frame of type AUTHENTICATION, whoever sent it.
ProcessAuthenticationFrame(s) ==
    LET st == Without(s, "AuthenticationTimeout")
    IN  IF station[s].state # "WaitingForAuthentication" THEN UNCHANGED <<station, toAp>>
        ELSE /\ station' = [station EXCEPT ![s] =
                    [st EXCEPT !.state = "WaitingForAssociationResponse",
                               !.authenticated = TRUE,
                               !.events = @ \cup {"AssociateFailure"}]]
             /\ Send(s, toAp[s], "ASSOCIATION_REQUEST", st.ap)

ProcessAssociationResponse(s, a, frame) ==
    LET st == Without(s, "AssociateFailure")
    IN  /\ IF station[s].state # "WaitingForAssociationResponse" \/ station[s].ap # a
           THEN UNCHANGED station
           ELSE station' = [station EXCEPT ![s] =
                    [st EXCEPT !.state = "Associated", !.id = frame.id, !.linkIsUp = TRUE,
                               !.events = @ \cup {"CheckLinkStatus"}, !.heard = FALSE,
                               !.leave = FALSE, !.due = Audible(s, st.channel),
                               !.answered = frame.present]]
        /\ UNCHANGED toAp

-----------------------------------------------------------------------------
(* The access point. *)

\* A mutant: it does not matter that the numbers end.
NextAssociationId(info) == info.currentAssociationId + 1

\* Numbers are used again when all were used once.
NewAssociationId(info) ==
    IF info.currentAssociationId < MaxAssociationId THEN info.currentAssociationId + 1
    ELSE CHOOSE i \in (1 .. MaxAssociationId) \ info.used :
             \A j \in (1 .. MaxAssociationId) \ info.used : i <= j

AddNewAssociatedStaRecord(info, s) ==
    LET id == NewAssociationId(info)
    IN  [info EXCEPT !.record[s] = id, !.used = @ \cup {id},
                     !.currentAssociationId = IF @ < MaxAssociationId THEN @ + 1 ELSE @]

WithRecord(info, s) ==
    IF info.record[s] = 0 THEN AddNewAssociatedStaRecord(info, s) ELSE info

\* A mutant: the number is that of the record made last.
AssociationResponseOfLast(info, s, present) ==
    [type |-> "ASSOCIATION_RESPONSE", station |-> s, id |-> info.currentAssociationId,
     present |-> present]

AssociationResponse(info, s, present) ==
    [type |-> "ASSOCIATION_RESPONSE", station |-> s, id |-> info.record[s],
     present |-> present]

ProcessAssociationRequestFrame(a, s, frame) ==
    LET info == WithRecord(ap[a], s)
    IN  /\ ap' = [ap EXCEPT ![a] = info]
        /\ toStation' = [toStation EXCEPT ![a] =
               Append(@, AssociationResponse(info, s, frame.present))]

\* The record goes, and its number may be used again.
ProcessDisassociationFrame(a, s) ==
    LET info == ap[a]
    IN  /\ ap' = [ap EXCEPT ![a] =
               IF info.record[s] = 0 THEN info
               ELSE [info EXCEPT !.used = info.used \ {info.record[s]}, !.record[s] = 0]]
        /\ UNCHANGED toStation

\* The answer is scheduled, after authProcessingDelay.
ScheduleAuthentication(a, s) ==
    /\ ap' = [ap EXCEPT ![a].authentications = Append(@, s)]
    /\ UNCHANGED toStation

SendAuthentication(a) ==
    LET waiting == ap[a].authentications
    IN  /\ waiting # <<>>
        /\ ap' = [ap EXCEPT ![a].authentications = Tail(@)]
        /\ toStation' = [toStation EXCEPT ![a] =
               Append(@, [type |-> "AUTHENTICATION", station |-> Head(waiting), id |-> 0,
                          present |-> FALSE])]
        /\ UNCHANGED <<station, toAp, level, disturbances>>

-----------------------------------------------------------------------------
(* The frames at the head of the queues. *)

ApReceives(s) ==
    /\ toAp[s] # <<>> /\ Hears(s, Head(toAp[s]).ap)
    /\ LET frame == Head(toAp[s])
       IN  CASE frame.type = "AUTHENTICATION" -> ScheduleAuthentication(frame.ap, s)
             [] frame.type = "ASSOCIATION_REQUEST" ->
                    ProcessAssociationRequestFrame(frame.ap, s, frame)
             [] frame.type = "DISASSOCIATION" -> ProcessDisassociationFrame(frame.ap, s)
    /\ toAp' = [toAp EXCEPT ![s] = Tail(@)]
    /\ UNCHANGED <<station, level, disturbances>>

StationReceives(a) ==
    /\ toStation[a] # <<>> /\ Hears(Head(toStation[a]).station, a)
    /\ LET frame == Head(toStation[a])
       IN  CASE frame.type = "AUTHENTICATION" -> ProcessAuthenticationFrame(frame.station)
             [] frame.type = "ASSOCIATION_RESPONSE" ->
                    ProcessAssociationResponse(frame.station, a, frame)
    /\ toStation' = [toStation EXCEPT ![a] = Tail(@)]
    /\ UNCHANGED <<ap, level, disturbances>>

\* Given up after its retries: always so when the receiver does not hear it.
GiveUpRequest(s) ==
    /\ toAp[s] # <<>>
    /\ DisturbIf(Hears(s, Head(toAp[s]).ap))
    /\ toAp' = [toAp EXCEPT ![s] = Tail(@)]
    /\ UNCHANGED <<station, ap, toStation, level>>

GiveUpResponse(a) ==
    /\ toStation[a] # <<>>
    /\ DisturbIf(Hears(Head(toStation[a]).station, a))
    /\ toStation' = [toStation EXCEPT ![a] = Tail(@)]
    /\ UNCHANGED <<station, ap, toAp, level>>

\* The station moves, or something comes in between.
Move(s, a) ==
    /\ <<s, a>> \in MayMove
    /\ Disturb
    /\ \E l \in Levels \ {level[s, a]} :
           /\ level' = [level EXCEPT ![<<s, a>>] = l]
           /\ station' = [station EXCEPT ![s].due = IF l = 0 THEN @ \ {a} ELSE @]
    /\ UNCHANGED <<ap, toAp, toStation>>

Next ==
    \/ \E s \in Stations :
           \/ InitializationEvent(s) \/ ChannelScanTimedOut(s)
           \/ HandshakeTimeout(s) \/ CheckLinkStatus(s)
           \/ ApReceives(s) \/ GiveUpRequest(s)
           \/ \E a \in AccessPoints : ReceiveBeacon(s, a) \/ LoseBeacon(s, a) \/ Move(s, a)
    \/ \E a \in AccessPoints :
           SendAuthentication(a) \/ StationReceives(a) \/ GiveUpResponse(a)

DueBeacon(s, a) == a \in station[s].due /\ ReceiveBeacon(s, a)

\* It brings the average closer to its level.
TellingBeacon(s, a) == DueBeacon(s, a) /\ station'[s].average[a] # station[s].average[a]

\* The engine runs every event it holds; the MACs send, or give up, what they have queued;
\* the beacons do not cease, and the average comes closer to their level in the end, as
\* it does unless its coefficient is 0.0: there are only so many steps to it.
Fairness ==
    /\ \A s \in Stations :
           /\ WF_vars(InitializationEvent(s) \/ ChannelScanTimedOut(s) \/ CheckLinkStatus(s))
           /\ WF_vars(HandshakeTimeout(s))
           /\ WF_vars(ApReceives(s) \/ GiveUpRequest(s))
           /\ WF_vars(\E a \in AccessPoints : DueBeacon(s, a))
    /\ \A a \in AccessPoints :
           /\ WF_vars(SendAuthentication(a))
           /\ WF_vars(StationReceives(a) \/ GiveUpResponse(a))
    /\ SF_vars(\E s \in Stations, a \in AccessPoints : TellingBeacon(s, a))

Spec == Init /\ [][Next]_vars /\ Fairness

-----------------------------------------------------------------------------
(* Properties. *)

\* No association has a number beyond the last; the rest is the types of the variables.
TypeOK ==
    /\ station \in [Stations -> StationInfos]
    /\ ap \in [AccessPoints -> ApInfos]
    /\ toAp \in [Stations -> Seq(RequestFrames)]
    /\ toStation \in [AccessPoints -> Seq(ResponseFrames)]
    /\ level \in [Stations \X AccessPoints -> Levels]
    /\ disturbances \in 0 .. MaxDisturbances

EventOf(state) ==
    CASE state = "NotAssociated" -> "Initialization"
      [] state = "ChannelScanning" -> "ChannelScanTimeout"
      [] state = "WaitingForAuthentication" -> "AuthenticationTimeout"
      [] state = "WaitingForAssociationResponse" -> "AssociateFailure"
      [] state = "Associated" -> "CheckLinkStatus"

\* Exactly one event waits for a station, and it is the one whose handler asserts the
\* state it is in: a frame, a beacon or a timeout that takes the station elsewhere leaves
\* no timer behind that would fail its assertion (dot11_mac_sta.h:333, 350, 401,
\* dot11_mac_sta.cpp:269, 391).
OneEventWaits ==
    \A s \in Stations : station[s].events = {EventOf(station[s].state)}

\* The two sides of an association agree: the access point has the record of a station
\* that takes itself to be associated, under the number the station was given, and no
\* other station has that number.  Only a response to an earlier request may
\* deceive the station.
AssociationIsAgreed ==
    \A s \in Stations :
        station[s].state = "Associated" /\ station[s].answered =>
            /\ ap[station[s].ap].record[s] = station[s].id
            /\ \A t \in Stations \ {s} : ap[station[s].ap].record[t] # station[s].id

\* The station goes for an access point whose beacons were good but come no more.
BestIsGone(s) ==
    ApToSwitchTo(station[s]) # NoAp /\ level[s, ApToSwitchTo(station[s])] = 0

\* A station in reach of an access point ends up associated, whatever was lost or late
\* before, unless it keeps to one whose last beacons were better: averages are never
\* forgotten.
GetsAssociated ==
    \A s \in Stations :
        \/ <>[](station[s].state = "Associated")
        \/ []<>BestIsGone(s)
        \/ []<>(\A a \in AccessPoints : level[s, a] < AssociationThreshold)

=============================================================================
