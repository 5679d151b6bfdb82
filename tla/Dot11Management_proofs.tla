----------------------- MODULE Dot11Management_proofs -----------------------
(***************************************************************************)
(* Type correctness of the 802.11 management model and its two safety      *)
(* invariants, for any number of stations and access points.               *)
(*                                                                         *)
(* That the two sides of an association agree rests on the order of a      *)
(* station's queue: while it waits for an association response, no         *)
(* disassociation waits behind its latest request, so the record the       *)
(* request makes is still there when the response is read.                 *)
(***************************************************************************)
EXTENDS Dot11Management, FiniteSetTheorems, SequenceTheorems,
        WellFoundedInduction, TLAPS

-----------------------------------------------------------------------------
(* The inductive invariant. *)

HasAp == {"WaitingForAuthentication", "WaitingForAssociationResponse", "Associated"}

\* A station on its own.
StationOK(st) ==
    /\ st \in StationInfos
    /\ st.events = {EventOf(st.state)}
    /\ st.state \in HasAp => st.ap \in AccessPoints

\* An access point on its own: the numbers in use are those of the records, no two
\* records have the same, and none was never given out.
ApOK(info) ==
    /\ info \in ApInfos
    /\ info.used = {info.record[s] : s \in Stations} \ {0}
    /\ \A s, t \in Stations : info.record[s] = info.record[t] /\ info.record[s] # 0 => s = t
    /\ \A id \in info.used : id <= info.currentAssociationId

NoDisassociation(queue) ==
    \A i \in DOMAIN queue : queue[i].type # "DISASSOCIATION"

IsPresentRequest(frame) == frame.present /\ frame.type = "ASSOCIATION_REQUEST"

NoPresentRequest(queue) == \A i \in DOMAIN queue : ~IsPresentRequest(queue[i])

NoDisassociationBehind(queue) ==
    \A i, j \in DOMAIN queue :
        i <= j /\ IsPresentRequest(queue[i]) => queue[j].type # "DISASSOCIATION"

\* What a station has asked for, by its state.
RequestsOK(s) ==
    /\ station[s].state = "WaitingForAuthentication" => NoPresentRequest(toAp[s])
    /\ station[s].state = "WaitingForAssociationResponse" => NoDisassociationBehind(toAp[s])

\* The access point has the record of a station, and nothing on its way removes it.
Registered(s, a, id) ==
    /\ ap[a].record[s] = id /\ id # 0
    /\ NoDisassociation(toAp[s])

\* A response to the latest request.
ResponseOK(a, frame) ==
    frame.type = "ASSOCIATION_RESPONSE" /\ frame.present =>
        /\ station[frame.station].state # "WaitingForAuthentication"
        /\ station[frame.station].state = "WaitingForAssociationResponse" =>
               Registered(frame.station, a, frame.id)

AssociatedOK(s) ==
    station[s].state = "Associated" /\ station[s].answered =>
        Registered(s, station[s].ap, station[s].id)

Inv ==
    /\ TypeOK
    /\ \A s \in Stations : StationOK(station[s]) /\ RequestsOK(s) /\ AssociatedOK(s)
    /\ \A a \in AccessPoints :
           /\ ApOK(ap[a])
           /\ \A i \in DOMAIN toStation[a] : ResponseOK(a, toStation[a][i])

-----------------------------------------------------------------------------
(* Stations on their own. *)

LEMMA AudibleType ==
    \A s, c : Audible(s, c) \subseteq AccessPoints
  BY DEF Audible

LEMMA StartChannelScanningOK ==
    ASSUME NEW s, NEW st \in StationInfos, st.events = {}
    PROVE  /\ StationOK(StartChannelScanning(s, st))
           /\ StartChannelScanning(s, st).state = "ChannelScanning"
  <1> DEFINE new == StartChannelScanning(s, st)
  <1>1. Audible(s, 0) \subseteq AccessPoints /\ 0 \in 0 .. NumberOfChannels - 1
    BY AudibleType, ManagementAssumption
  <1>2. new.state = "ChannelScanning"
    BY DEF StartChannelScanning, StationInfos
  <1>3. new.events = {"ChannelScanTimeout"}
    BY DEF StartChannelScanning, StationInfos
  <1>4. new \in StationInfos
    BY <1>1 DEF StartChannelScanning, StationInfos, StationStates, StationEvents
  <1>5. StationOK(new)
    BY <1>2, <1>3, <1>4 DEF StationOK, EventOf, HasAp
  <1> QED BY <1>2, <1>5

LEMMA ScanNextChannelOK ==
    ASSUME NEW s, NEW st \in StationInfos, st.events = {}, st.state = "ChannelScanning",
           st.nextScan < NumberOfChannels
    PROVE  /\ StationOK(ScanNextChannel(s, st))
           /\ ScanNextChannel(s, st).state = "ChannelScanning"
  <1> DEFINE new == ScanNextChannel(s, st)
  <1>1. Audible(s, st.nextScan) \subseteq AccessPoints
    BY AudibleType
  <1>2. st.nextScan \in 0 .. NumberOfChannels - 1 /\ st.nextScan + 1 \in Nat
    BY ManagementAssumption DEF StationInfos
  <1>3. new.state = "ChannelScanning" /\ new.events = {"ChannelScanTimeout"}
    BY DEF ScanNextChannel, StationInfos
  <1>4. new \in StationInfos
    BY <1>1, <1>2 DEF ScanNextChannel, StationInfos, StationStates, StationEvents
  <1>5. StationOK(new)
    BY <1>3, <1>4 DEF StationOK, EventOf, HasAp
  <1> QED BY <1>3, <1>5

\* There is a least number in a set of them.
LEMMA LeastNumber ==
    ASSUME NEW T \in SUBSET Nat, T # {}
    PROVE  \E x \in T : \A y \in T : x <= y
  <1> DEFINE R == OpToRel(<, Nat)
  <1>1. IsWellFoundedOn(R, Nat)
    BY NatLessThanWellFounded
  <1>2. \A x, y \in Nat : x < y => <<x, y>> \in R
    BY DEF OpToRel
  <1> HIDE DEF R
  <1>3. PICK x \in T : \A y \in T : ~ (<<y, x>> \in R)
    BY <1>1, WFMin
  <1>4. \A y \in T : ~(y < x)
    BY <1>2, <1>3
  <1>5. x \in Nat /\ \A y \in T : y \in Nat
    OBVIOUS
  <1> QED BY <1>4, <1>5

\* There is a best access point: the first of those with the best average.
LEMMA ApToSwitchToType ==
    ASSUME NEW st \in StationInfos
    PROVE  ApToSwitchTo(st) \in AccessPoints \cup {NoAp}
  <1> DEFINE Better(a, b) == st.average[a] > st.average[b]
                             \/ (st.average[a] = st.average[b] /\ a < b)
             IsBest(a) == \A b \in AccessPoints \ {a} : Better(a, b)
             below == {MaxLevel - st.average[a] : a \in AccessPoints}
  <1>1. /\ MaxLevel \in Nat /\ 1 \in AccessPoints
        /\ \A a \in AccessPoints : a \in Nat /\ st.average[a] \in 0 .. MaxLevel
    BY ManagementAssumption DEF StationInfos, Levels, AccessPoints
  <1>2. PICK x \in below : \A y \in below : x <= y
    <2>1. below \in SUBSET Nat /\ below # {}
      BY <1>1
    <2> HIDE DEF below
    <2> QED BY <2>1, LeastNumber
  <1>3. PICK c \in AccessPoints : x = MaxLevel - st.average[c]
    BY <1>2
  <1>4. \A b \in AccessPoints : st.average[c] >= st.average[b]
    <2> TAKE b \in AccessPoints
    <2>1. x <= MaxLevel - st.average[b]
      BY <1>2
    <2>2. st.average[b] \in 0 .. MaxLevel /\ st.average[c] \in 0 .. MaxLevel
      BY <1>1
    <2> QED BY <1>1, <1>3, <2>1, <2>2
  <1> DEFINE loudest == {a \in AccessPoints : st.average[a] = st.average[c]}
  <1>5. PICK best \in loudest : \A b \in loudest : best <= b
    <2>1. loudest \in SUBSET Nat /\ loudest # {}
      BY <1>1, <1>3
    <2> HIDE DEF loudest
    <2> QED BY <2>1, LeastNumber
  <1>6. best \in AccessPoints /\ IsBest(best)
    BY <1>1, <1>4, <1>5
  <1>7. (CHOOSE a \in AccessPoints : IsBest(a)) \in AccessPoints
    <2> HIDE DEF IsBest
    <2> QED BY <1>6
  <1> QED BY <1>7 DEF ApToSwitchTo

\* A timer event of a station is the one that waits for it.
LEMMA WithoutOK ==
    ASSUME NEW s \in Stations, StationOK(station[s]), NEW event \in station[s].events
    PROVE  /\ event = EventOf(station[s].state)
           /\ Without(s, event) \in StationInfos
           /\ Without(s, event).events = {}
           /\ Without(s, event).state = station[s].state
           /\ Without(s, event).ap = station[s].ap
           /\ Without(s, event).id = station[s].id
           /\ Without(s, event).answered = station[s].answered
           /\ Without(s, event).nextScan = station[s].nextScan
  <1>1. station[s] \in StationInfos /\ station[s].events = {event}
    BY DEF StationOK
  <1>2. event = EventOf(station[s].state)
    BY <1>1 DEF StationOK
  <1> QED BY <1>1, <1>2 DEF Without, StationInfos

LEMMA ChannelType ==
    ASSUME NEW a \in AccessPoints
    PROVE  ChannelOf[a] \in 0 .. NumberOfChannels - 1
  BY ManagementAssumption

\* What StartAuthentication makes of the station.
Authenticating(st, a) ==
    [st EXCEPT !.state = "WaitingForAuthentication", !.ap = a, !.authenticated = FALSE,
               !.events = @ \cup {"AuthenticationTimeout"}, !.leave = FALSE,
               !.channel = ChannelOf[a]]

LEMMA AuthenticatingOK ==
    ASSUME NEW st \in StationInfos, st.events = {}, NEW a \in AccessPoints
    PROVE  /\ StationOK(Authenticating(st, a))
           /\ Authenticating(st, a).state = "WaitingForAuthentication"
  <1> DEFINE new == Authenticating(st, a)
  <1>1. ChannelOf[a] \in 0 .. NumberOfChannels - 1
    BY ChannelType
  <1>2. /\ new.state = "WaitingForAuthentication" /\ new.events = {"AuthenticationTimeout"}
        /\ new.ap = a
    BY DEF Authenticating, StationInfos
  <1>3. new \in StationInfos
    BY <1>1 DEF Authenticating, StationInfos, StationStates, StationEvents
  <1>4. StationOK(new)
    BY <1>2, <1>3 DEF StationOK, EventOf, HasAp
  <1> QED BY <1>2, <1>4

\* What Disassociate makes of it.
Disassociated(st) ==
    [st EXCEPT !.state = "NotAssociated", !.ap = NoAp, !.authenticated = FALSE,
               !.events = (@ \ {"CheckLinkStatus"}) \cup {"Initialization"},
               !.due = {}, !.leave = FALSE, !.linkIsUp = FALSE]

LEMMA DisassociatedOK ==
    ASSUME NEW st \in StationInfos, st.events \subseteq {"CheckLinkStatus"}
    PROVE  /\ StationOK(Disassociated(st))
           /\ Disassociated(st).state = "NotAssociated"
  <1> DEFINE new == Disassociated(st)
  <1>1. new.state = "NotAssociated" /\ new.events = {"Initialization"}
    BY DEF Disassociated, StationInfos
  <1>2. new \in StationInfos
    BY DEF Disassociated, StationInfos, StationStates, StationEvents
  <1>3. StationOK(new)
    BY <1>1, <1>2 DEF StationOK, EventOf, HasAp
  <1> QED BY <1>1, <1>3

\* What matters of a station to its attempt to associate.
SameAttempt(new, st) ==
    new.state = st.state /\ new.ap = st.ap /\ new.id = st.id /\ new.answered = st.answered

LEMMA AveragesType == \A average, received : Averages(average, received) \subseteq Levels
  BY DEF Averages

LEMMA AfterBeaconOK ==
    ASSUME NEW s \in Stations, StationOK(station[s]), NEW a \in AccessPoints,
           NEW average \in Levels
    PROVE  /\ StationOK(AfterBeacon(s, a, average))
           /\ SameAttempt(AfterBeacon(s, a, average), station[s])
           /\ AfterBeacon(s, a, average).events = station[s].events
  <1> DEFINE new == AfterBeacon(s, a, average)
             isFirst == station[s].average[a] = 0
             isOwn == station[s].state = "Associated" /\ a = station[s].ap
             lower == average < DisassociationThreshold
             leave == IF ~isFirst /\ isOwn THEN lower ELSE station[s].leave
             heard == station[s].heard \/ isOwn
  <1>1. station[s] \in StationInfos
    BY DEF StationOK
  <1>2. isOwn \in BOOLEAN /\ lower \in BOOLEAN
    OBVIOUS
  <1>3. leave \in BOOLEAN /\ heard \in BOOLEAN
    BY <1>1, <1>2 DEF StationInfos
  <1>4. [station[s].average EXCEPT ![a] = average] \in [AccessPoints -> Levels]
    BY <1>1 DEF StationInfos
  <1>5. new = [station[s] EXCEPT !.average[a] = average, !.due = @ \ {a},
                                 !.heard = heard, !.leave = leave]
    BY <1>1 DEF AfterBeacon, StationInfos
  <1> HIDE DEF leave, heard
  <1>6. new.events = station[s].events /\ SameAttempt(new, station[s])
    BY <1>1, <1>5 DEF StationInfos, SameAttempt
  <1>7. new \in StationInfos
    <2> DEFINE averages == [station[s].average EXCEPT ![a] = average]
               expected == station[s].due \ {a}
    <2>1. new = [station[s] EXCEPT !.average = averages, !.due = expected,
                                   !.heard = heard, !.leave = leave]
      BY <1>1, <1>5 DEF StationInfos
    <2>2. averages \in [AccessPoints -> Levels]
      BY <1>4
    <2>3. expected \in SUBSET AccessPoints
      BY <1>1 DEF StationInfos
    <2> HIDE DEF averages, expected, new
    <2> QED BY <1>1, <1>3, <2>1, <2>2, <2>3 DEF StationInfos
  <1>8. StationOK(new)
    BY <1>6, <1>7 DEF StationOK, SameAttempt
  <1> QED BY <1>6, <1>8

\* What ProcessAuthenticationFrame, ProcessAssociationResponse and a check that finds the
\* link in order make of it.
Requesting(st) ==
    [st EXCEPT !.state = "WaitingForAssociationResponse", !.authenticated = TRUE,
               !.events = @ \cup {"AssociateFailure"}]

AssociatedWith(s, st, frame) ==
    [st EXCEPT !.state = "Associated", !.id = frame.id, !.linkIsUp = TRUE,
               !.events = @ \cup {"CheckLinkStatus"}, !.heard = FALSE, !.leave = FALSE,
               !.due = Audible(s, st.channel), !.answered = frame.present]

StillAssociated(s, st) ==
    [st EXCEPT !.events = @ \cup {"CheckLinkStatus"}, !.heard = FALSE,
               !.due = Audible(s, st.channel)]

LEMMA RequestingOK ==
    ASSUME NEW st \in StationInfos, st.events = {}, st.ap \in AccessPoints
    PROVE  /\ StationOK(Requesting(st))
           /\ Requesting(st).state = "WaitingForAssociationResponse"
           /\ Requesting(st).ap = st.ap
  <1> DEFINE new == Requesting(st)
  <1>1. /\ new.state = "WaitingForAssociationResponse" /\ new.events = {"AssociateFailure"}
        /\ new.ap = st.ap
    BY DEF Requesting, StationInfos
  <1>2. new \in StationInfos
    BY DEF Requesting, StationInfos, StationStates, StationEvents
  <1>3. StationOK(new)
    BY <1>1, <1>2 DEF StationOK, EventOf, HasAp
  <1> QED BY <1>1, <1>3

LEMMA AssociatedWithOK ==
    ASSUME NEW s, NEW st \in StationInfos, st.events = {}, st.ap \in AccessPoints,
           NEW frame \in ResponseFrames
    PROVE  /\ StationOK(AssociatedWith(s, st, frame))
           /\ AssociatedWith(s, st, frame).state = "Associated"
           /\ AssociatedWith(s, st, frame).ap = st.ap
           /\ AssociatedWith(s, st, frame).id = frame.id
           /\ AssociatedWith(s, st, frame).answered = frame.present
  <1> DEFINE new == AssociatedWith(s, st, frame)
  <1>1. /\ new.state = "Associated" /\ new.events = {"CheckLinkStatus"}
        /\ new.ap = st.ap /\ new.id = frame.id /\ new.answered = frame.present
    BY DEF AssociatedWith, StationInfos
  <1>2. /\ Audible(s, st.channel) \subseteq AccessPoints
        /\ frame.id \in 0 .. MaxAssociationId /\ frame.present \in BOOLEAN
    BY AudibleType DEF ResponseFrames
  <1>3. new \in StationInfos
    BY <1>2 DEF AssociatedWith, StationInfos, StationStates, StationEvents
  <1>4. StationOK(new)
    BY <1>1, <1>3 DEF StationOK, EventOf, HasAp
  <1> QED BY <1>1, <1>4

LEMMA StillAssociatedOK ==
    ASSUME NEW s, NEW st \in StationInfos, st.events = {}, st.ap \in AccessPoints,
           st.state = "Associated"
    PROVE  /\ StationOK(StillAssociated(s, st))
           /\ SameAttempt(StillAssociated(s, st), st)
  <1> DEFINE new == StillAssociated(s, st)
  <1>1. new.events = {"CheckLinkStatus"} /\ SameAttempt(new, st)
    BY DEF StillAssociated, StationInfos, SameAttempt
  <1>2. Audible(s, st.channel) \subseteq AccessPoints
    BY AudibleType
  <1>3. new \in StationInfos
    BY <1>2 DEF StillAssociated, StationInfos, StationEvents
  <1>4. StationOK(new)
    BY <1>1, <1>3 DEF StationOK, EventOf, HasAp, SameAttempt
  <1> QED BY <1>1, <1>4

LEMMA DueOK ==
    ASSUME NEW st, StationOK(st), NEW due \in SUBSET AccessPoints
    PROVE  /\ StationOK([st EXCEPT !.due = due])
           /\ SameAttempt([st EXCEPT !.due = due], st)
  <1> DEFINE new == [st EXCEPT !.due = due]
  <1>1. st \in StationInfos
    BY DEF StationOK
  <1>2. new.events = st.events /\ SameAttempt(new, st) /\ new \in StationInfos
    BY <1>1 DEF StationInfos, SameAttempt
  <1>3. StationOK(new)
    BY <1>2 DEF StationOK, SameAttempt
  <1> QED BY <1>2, <1>3

-----------------------------------------------------------------------------
(* Access points on their own. *)

\* The numbers do not run out: there is one for every station.
LEMMA FreshAssociationId ==
    ASSUME NEW info, ApOK(info), NEW s \in Stations, info.record[s] = 0
    PROVE  /\ NewAssociationId(info) \in (1 .. MaxAssociationId) \ info.used
           /\ info.currentAssociationId < MaxAssociationId =>
                  NewAssociationId(info) = info.currentAssociationId + 1
  <1> DEFINE free == (1 .. MaxAssociationId) \ info.used
             current == info.currentAssociationId
  <1>1. /\ current \in 0 .. MaxAssociationId
        /\ info.used \subseteq 1 .. MaxAssociationId
        /\ info.record \in [Stations -> 0 .. MaxAssociationId]
        /\ \A id \in info.used : id <= current
        /\ MaxAssociationId \in Nat /\ IsFiniteSet(Stations)
        /\ Cardinality(Stations) <= MaxAssociationId
    BY ManagementAssumption DEF ApOK, ApInfos
  <1>2. CASE current < MaxAssociationId
    <2>1. current + 1 \in free
      BY <1>1, <1>2
    <2> QED BY <1>2, <2>1 DEF NewAssociationId
  <1>3. CASE ~(current < MaxAssociationId)
    <2> DEFINE others == Stations \ {s}
               numbered == {info.record[t] : t \in others}
    <2>1. /\ IsFiniteSet(others) /\ Cardinality(others) = Cardinality(Stations) - 1
          /\ Cardinality(Stations) \in Nat
      BY <1>1, FS_RemoveElement, FS_CardinalityType
    <2>2. IsFiniteSet(numbered) /\ Cardinality(numbered) <= Cardinality(others)
      <3> DEFINE f == [t \in others |-> info.record[t]]
      <3>1. f \in Surjection(others, numbered)
        BY DEF Surjection
      <3> HIDE DEF f, numbered, others
      <3> QED BY <2>1, <3>1, FS_Surjection
    <2>3. info.used \subseteq numbered
      BY DEF ApOK
    <2>4. /\ IsFiniteSet(1 .. MaxAssociationId)
          /\ Cardinality(1 .. MaxAssociationId) = MaxAssociationId
      BY <1>1, FS_Interval
    <2>5. free # {}
      <3>1. SUFFICES ASSUME free = {} PROVE FALSE
        OBVIOUS
      <3>2. 1 .. MaxAssociationId \subseteq numbered
        BY <2>3, <3>1
      <3>3. Cardinality(1 .. MaxAssociationId) <= Cardinality(numbered)
        BY <2>2, <3>2, FS_Subset
      <3>4. Cardinality(numbered) \in Nat
        BY <2>2, FS_CardinalityType
      <3> QED BY <1>1, <2>1, <2>2, <2>4, <3>3, <3>4
    <2>6. \E i \in free : \A j \in free : i <= j
      <3>1. free \in SUBSET Nat
        BY <1>1
      <3> HIDE DEF free
      <3> QED BY <2>5, <3>1, LeastNumber
    <2>7. (CHOOSE i \in free : \A j \in free : i <= j) \in free
      <3> HIDE DEF free
      <3> QED BY <2>6
    <2> QED BY <1>1, <1>3, <2>7 DEF NewAssociationId
  <1> QED BY <1>2, <1>3

LEMMA WithRecordOK ==
    ASSUME NEW info, ApOK(info), NEW s \in Stations
    PROVE  /\ ApOK(WithRecord(info, s))
           /\ WithRecord(info, s).record[s] # 0
           /\ info.record[s] # 0 => WithRecord(info, s).record[s] = info.record[s]
           /\ \A t \in Stations \ {s} : WithRecord(info, s).record[t] = info.record[t]
  <1> DEFINE current == info.currentAssociationId
             id == NewAssociationId(info)
             next == IF current < MaxAssociationId THEN current + 1 ELSE current
             new == WithRecord(info, s)
  <1>1. CASE info.record[s] # 0
    BY <1>1 DEF WithRecord
  <1>2. CASE info.record[s] = 0
    <2>1. /\ id \in (1 .. MaxAssociationId) \ info.used
          /\ current < MaxAssociationId => id = current + 1
      BY <1>2, FreshAssociationId
    <2>2. /\ info \in ApInfos
          /\ current \in 0 .. MaxAssociationId /\ MaxAssociationId \in Nat
          /\ info.record \in [Stations -> 0 .. MaxAssociationId]
          /\ \A i \in info.used : i <= current /\ i \in Nat
      BY ManagementAssumption DEF ApOK, ApInfos
    <2> HIDE DEF id
    <2>3. next \in 0 .. MaxAssociationId /\ id <= next /\ current <= next
      BY <2>1, <2>2
    <2>4. /\ new.record = [info.record EXCEPT ![s] = id]
          /\ new.used = info.used \cup {id}
          /\ new.currentAssociationId = next
          /\ new \in ApInfos
      <3> DEFINE record == [info.record EXCEPT ![s] = id]
                 used == info.used \cup {id}
      <3>1. new = [info EXCEPT !.record = record, !.used = used,
                               !.currentAssociationId = next]
        BY <1>2, <2>2 DEF WithRecord, AddNewAssociatedStaRecord, ApInfos, id
      <3>2. record \in [Stations -> 0 .. MaxAssociationId]
        BY <2>1, <2>2
      <3>3. used \subseteq 1 .. MaxAssociationId
        BY <2>1, <2>2 DEF ApInfos
      <3> HIDE DEF next, new, record, used
      <3>4. /\ new.record = record /\ new.used = used /\ new.currentAssociationId = next
            /\ new \in ApInfos
        BY <2>2, <2>3, <3>1, <3>2, <3>3 DEF ApInfos
      <3> QED BY <3>4 DEF record, used
    <2> HIDE DEF next, new
    <2>5. \A t \in Stations : new.record[t] = IF t = s THEN id ELSE info.record[t]
      BY <2>2, <2>4
    <2>6. id # 0 /\ \A t \in Stations : info.record[t] # id
      BY <2>1, <2>2 DEF ApOK
    <2>7. new.used = {new.record[t] : t \in Stations} \ {0}
      BY <1>2, <2>4, <2>5, <2>6 DEF ApOK
    <2>8. \A t, u \in Stations : new.record[t] = new.record[u] /\ new.record[t] # 0 => t = u
      BY <2>5, <2>6 DEF ApOK
    <2>9. \A i \in new.used : i <= new.currentAssociationId
      <3> TAKE i \in new.used
      <3>1. CASE i = id
        BY <2>3, <2>4, <3>1
      <3>2. CASE i \in info.used
        <4>1. i <= current /\ i \in Nat /\ current \in Nat /\ next \in Nat
          BY <2>2, <2>3, <3>2
        <4> QED BY <2>3, <2>4, <4>1
      <3> QED BY <2>4, <3>1, <3>2
    <2> QED BY <1>2, <2>4, <2>5, <2>6, <2>7, <2>8, <2>9 DEF ApOK, new
  <1> QED BY <1>1, <1>2

\* What ProcessDisassociationFrame makes of the access point.
WithoutRecord(info, s) ==
    [info EXCEPT !.used = @ \ {info.record[s]}, !.record[s] = 0]

LEMMA WithoutRecordOK ==
    ASSUME NEW info, ApOK(info), NEW s \in Stations
    PROVE  /\ ApOK(WithoutRecord(info, s))
           /\ \A t \in Stations \ {s} : WithoutRecord(info, s).record[t] = info.record[t]
  <1> DEFINE new == WithoutRecord(info, s)
  <1>1. info \in ApInfos /\ info.record \in [Stations -> 0 .. MaxAssociationId]
        /\ MaxAssociationId \in Nat
    BY ManagementAssumption DEF ApOK, ApInfos
  <1>2. /\ new.used = info.used \ {info.record[s]}
        /\ new.record = [info.record EXCEPT ![s] = 0]
        /\ new.currentAssociationId = info.currentAssociationId
        /\ new \in ApInfos
    <2> DEFINE record == [info.record EXCEPT ![s] = 0]
               used == info.used \ {info.record[s]}
    <2>1. new = [info EXCEPT !.used = used, !.record = record]
      BY <1>1 DEF WithoutRecord, ApInfos
    <2>2. record \in [Stations -> 0 .. MaxAssociationId]
      BY <1>1
    <2>3. used \subseteq 1 .. MaxAssociationId
      BY <1>1 DEF ApInfos
    <2> HIDE DEF new, record, used
    <2>4. /\ new.record = record /\ new.used = used /\ new \in ApInfos
          /\ new.currentAssociationId = info.currentAssociationId
      BY <1>1, <2>1, <2>2, <2>3 DEF ApInfos
    <2> QED BY <2>4 DEF record, used
  <1> HIDE DEF new
  <1>3. \A t \in Stations : new.record[t] = IF t = s THEN 0 ELSE info.record[t]
    BY <1>1, <1>2
  <1>4. new.used = {new.record[t] : t \in Stations} \ {0}
    BY <1>2, <1>3 DEF ApOK
  <1>5. \A t, u \in Stations : new.record[t] = new.record[u] /\ new.record[t] # 0 => t = u
    BY <1>3 DEF ApOK
  <1>6. \A i \in new.used : i <= new.currentAssociationId
    BY <1>2 DEF ApOK
  <1> QED BY <1>2, <1>3, <1>4, <1>5, <1>6 DEF ApOK, new

LEMMA AuthenticationsOK ==
    ASSUME NEW info, ApOK(info), NEW waiting \in Seq(Stations)
    PROVE  /\ ApOK([info EXCEPT !.authentications = waiting])
           /\ [info EXCEPT !.authentications = waiting].record = info.record
  <1> DEFINE new == [info EXCEPT !.authentications = waiting]
  <1>1. info \in ApInfos
    BY DEF ApOK
  <1>2. /\ new \in ApInfos /\ new.record = info.record /\ new.used = info.used
        /\ new.currentAssociationId = info.currentAssociationId
    BY <1>1 DEF ApInfos
  <1> HIDE DEF new
  <1>3. ApOK(new)
    BY <1>2 DEF ApOK
  <1> QED BY <1>2, <1>3 DEF new

-----------------------------------------------------------------------------
(* The queues. *)

LEMMA TailElements ==
    ASSUME NEW S, NEW queue \in Seq(S), queue # <<>>
    PROVE  /\ Tail(queue) \in Seq(S) /\ Head(queue) \in S
           /\ 1 \in DOMAIN queue /\ Head(queue) = queue[1]
           /\ \A i \in DOMAIN Tail(queue) :
                  i \in Nat /\ i + 1 \in DOMAIN queue /\ Tail(queue)[i] = queue[i + 1]
  BY HeadTailProperties, LenProperties

LEMMA AppendElements ==
    ASSUME NEW S, NEW queue \in Seq(S), NEW e \in S
    PROVE  /\ Append(queue, e) \in Seq(S)
           /\ \A i \in DOMAIN Append(queue, e) :
                  \/ i \in DOMAIN queue /\ Append(queue, e)[i] = queue[i]
                  \/ i = Len(queue) + 1 /\ Append(queue, e)[i] = e
  BY AppendProperties, LenProperties

LEMMA HeadMayBeLostType ==
    ASSUME NEW S, NEW queue \in Seq(S)
    PROVE  HeadMayBeLost(queue) \subseteq Seq(S)
  BY TailElements DEF HeadMayBeLost

-----------------------------------------------------------------------------
(* Steps that leave the access points and their queues alone. *)

LEMMA InvTypes ==
    ASSUME Inv
    PROVE  /\ station \in [Stations -> StationInfos]
           /\ ap \in [AccessPoints -> ApInfos]
           /\ toAp \in [Stations -> Seq(RequestFrames)]
           /\ toStation \in [AccessPoints -> Seq(ResponseFrames)]
           /\ \A s \in Stations : StationOK(station[s])
           /\ \A a \in AccessPoints : ApOK(ap[a])
           /\ \A a \in AccessPoints : \A i \in DOMAIN toStation[a] :
                  toStation[a][i] \in ResponseFrames /\ toStation[a][i].station \in Stations
  <1>1. /\ station \in [Stations -> StationInfos]
        /\ ap \in [AccessPoints -> ApInfos]
        /\ toAp \in [Stations -> Seq(RequestFrames)]
        /\ toStation \in [AccessPoints -> Seq(ResponseFrames)]
        /\ \A s \in Stations : StationOK(station[s])
        /\ \A a \in AccessPoints : ApOK(ap[a])
    BY DEF Inv, TypeOK
  <1>2. ASSUME NEW a \in AccessPoints, NEW i \in DOMAIN toStation[a]
        PROVE  toStation[a][i] \in ResponseFrames
    <2>1. toStation[a] \in Seq(ResponseFrames)
      BY <1>1
    <2> QED BY <2>1
  <1>3. \A frame \in ResponseFrames : frame.station \in Stations
    BY DEF ResponseFrames
  <1> QED BY <1>1, <1>2, <1>3

\* A station that gives up its attempt owes nothing: whatever it has queued.
LEMMA GivesUpAttempt ==
    ASSUME Inv, NEW s \in Stations, NEW new, NEW queue \in Seq(RequestFrames),
           StationOK(new), new.state \in {"ChannelScanning", "NotAssociated"},
           station' = [station EXCEPT ![s] = new],
           toAp' = [toAp EXCEPT ![s] = queue],
           UNCHANGED <<ap, toStation>>,
           level' \in [Stations \X AccessPoints -> Levels],
           disturbances' \in 0 .. MaxDisturbances
    PROVE  Inv'
  <1>1. /\ station'[s] = new /\ toAp'[s] = queue
        /\ \A t \in Stations \ {s} : station'[t] = station[t] /\ toAp'[t] = toAp[t]
    BY InvTypes
  <1>2. TypeOK'
    BY InvTypes DEF TypeOK, StationOK
  <1>3. ASSUME NEW t \in Stations
        PROVE  (StationOK(station[t]) /\ RequestsOK(t) /\ AssociatedOK(t))'
    <2>1. CASE t = s
      BY <1>1, <2>1 DEF RequestsOK, AssociatedOK
    <2>2. CASE t # s
      BY <1>1, <2>2 DEF RequestsOK, AssociatedOK, Registered, Inv
    <2> QED BY <2>1, <2>2
  <1>4. ASSUME NEW a \in AccessPoints, NEW i \in DOMAIN toStation'[a]
        PROVE  ResponseOK(a, toStation[a][i])'
    <2> DEFINE frame == toStation[a][i]
    <2>1. i \in DOMAIN toStation[a] /\ toStation'[a][i] = frame
      OBVIOUS
    <2>2. frame.station \in Stations /\ ResponseOK(a, frame)
      BY <2>1, InvTypes DEF Inv
    <2> HIDE DEF frame
    <2>3. CASE frame.station = s
      BY <1>1, <2>1, <2>3 DEF ResponseOK
    <2>4. CASE frame.station # s
      BY <1>1, <2>1, <2>2, <2>4 DEF ResponseOK, Registered
    <2> QED BY <2>3, <2>4
  <1>5. \A a \in AccessPoints : ApOK(ap[a])'
    BY InvTypes
  <1> QED BY <1>2, <1>3, <1>4, <1>5 DEF Inv

-----------------------------------------------------------------------------
(* Steps that leave every attempt where it is. *)

LEMMA RequestsTail ==
    ASSUME NEW queue \in Seq(RequestFrames), queue # <<>>
    PROVE  /\ NoPresentRequest(queue) => NoPresentRequest(Tail(queue))
           /\ NoDisassociation(queue) => NoDisassociation(Tail(queue))
           /\ NoDisassociationBehind(queue) => NoDisassociationBehind(Tail(queue))
  <1>1. \A i \in DOMAIN Tail(queue) :
            i \in Nat /\ i + 1 \in DOMAIN queue /\ Tail(queue)[i] = queue[i + 1]
    BY TailElements
  <1>2. ASSUME NoDisassociationBehind(queue),
               NEW i \in DOMAIN Tail(queue), NEW j \in DOMAIN Tail(queue), i <= j,
               IsPresentRequest(Tail(queue)[i])
        PROVE  Tail(queue)[j].type # "DISASSOCIATION"
    <2>1. /\ i + 1 \in DOMAIN queue /\ j + 1 \in DOMAIN queue /\ i + 1 <= j + 1
          /\ IsPresentRequest(queue[i + 1]) /\ Tail(queue)[j] = queue[j + 1]
      BY <1>1, <1>2
    <2> QED BY <1>2, <2>1 DEF NoDisassociationBehind
  <1> QED BY <1>1, <1>2 DEF NoPresentRequest, NoDisassociation, NoDisassociationBehind

\* One queue comes after another in a step that only takes frames off.
OnlyTaken(new, queue) == new = queue \/ (queue # <<>> /\ new = Tail(queue))

LEMMA KeepsAttempts ==
    ASSUME Inv,
           station' \in [Stations -> StationInfos],
           \A s \in Stations :
               StationOK(station'[s]) /\ SameAttempt(station'[s], station[s]),
           ap' \in [AccessPoints -> ApInfos],
           \A a \in AccessPoints : ApOK(ap'[a]),
           \A s \in Stations, a \in AccessPoints : \A id :
               Registered(s, a, id) => ap'[a].record[s] = id,
           toAp' \in [Stations -> Seq(RequestFrames)],
           \A s \in Stations : OnlyTaken(toAp'[s], toAp[s]),
           toStation' \in [AccessPoints -> Seq(ResponseFrames)],
           \A a \in AccessPoints : \A i \in DOMAIN toStation'[a] :
               \/ ResponseOK(a, toStation[a][i])'
               \/ \E j \in DOMAIN toStation[a] : toStation'[a][i] = toStation[a][j],
           level' \in [Stations \X AccessPoints -> Levels],
           disturbances' \in 0 .. MaxDisturbances
    PROVE  Inv'
  <1>1. TypeOK'
    BY DEF TypeOK
  <1>2. ASSUME NEW s \in Stations
        PROVE  /\ NoPresentRequest(toAp[s]) => NoPresentRequest(toAp'[s])
               /\ NoDisassociation(toAp[s]) => NoDisassociation(toAp'[s])
               /\ NoDisassociationBehind(toAp[s]) => NoDisassociationBehind(toAp'[s])
    <2>1. toAp[s] \in Seq(RequestFrames)
      BY InvTypes
    <2>2. OnlyTaken(toAp'[s], toAp[s])
      OBVIOUS
    <2> QED BY <2>1, <2>2, RequestsTail DEF OnlyTaken
  <1>3. ASSUME NEW s \in Stations, NEW a \in AccessPoints, NEW id, Registered(s, a, id)
        PROVE  Registered(s, a, id)'
    BY <1>2, <1>3 DEF Registered
  <1>4. ASSUME NEW s \in Stations
        PROVE  (StationOK(station[s]) /\ RequestsOK(s) /\ AssociatedOK(s))'
    <2>1. StationOK(station[s]) /\ RequestsOK(s) /\ AssociatedOK(s)
      BY DEF Inv
    <2>2. StationOK(station'[s]) /\ SameAttempt(station'[s], station[s])
      OBVIOUS
    <2>3. RequestsOK(s)'
      BY <1>2, <2>1, <2>2 DEF RequestsOK, SameAttempt
    <2>4. AssociatedOK(s)'
      <3>1. SUFFICES ASSUME station'[s].state = "Associated" /\ station'[s].answered
                     PROVE  Registered(s, station[s].ap, station[s].id)'
        BY DEF AssociatedOK
      <3>2. /\ station[s].state = "Associated" /\ station[s].answered
            /\ station'[s].ap = station[s].ap /\ station'[s].id = station[s].id
        BY <2>2, <3>1 DEF SameAttempt
      <3>3. Registered(s, station[s].ap, station[s].id) /\ station[s].ap \in AccessPoints
        BY <2>1, <3>2 DEF AssociatedOK, StationOK, HasAp
      <3> QED BY <1>2, <3>2, <3>3 DEF Registered
    <2> QED BY <2>2, <2>3, <2>4
  <1>5. ASSUME NEW a \in AccessPoints, NEW i \in DOMAIN toStation'[a]
        PROVE  ResponseOK(a, toStation[a][i])'
    <2>1. CASE ResponseOK(a, toStation[a][i])'
      BY <2>1
    <2>2. ASSUME NEW j \in DOMAIN toStation[a], toStation'[a][i] = toStation[a][j]
          PROVE  ResponseOK(a, toStation[a][i])'
      <3>1. /\ toStation[a][j].station \in Stations /\ ResponseOK(a, toStation[a][j])
        BY InvTypes DEF Inv
      <3> DEFINE frame == toStation[a][j]
      <3> HIDE DEF frame
      <3>2. frame.station \in Stations /\ ResponseOK(a, frame) /\ toStation'[a][i] = frame
        BY <2>2, <3>1 DEF frame
      <3>3. station'[frame.station].state = station[frame.station].state
        BY <3>2 DEF SameAttempt
      <3>4. PICK r : r = frame
        OBVIOUS
      <3>5. /\ r.station \in Stations /\ ResponseOK(a, r) /\ toStation'[a][i] = r
            /\ station'[r.station].state = station[r.station].state
        BY <3>2, <3>3, <3>4
      <3> QED BY <1>3, <3>5 DEF ResponseOK
    <2> QED BY <2>1, <2>2
  <1> QED BY <1>1, <1>4, <1>5 DEF Inv

LEMMA ResponsesTaken ==
    ASSUME Inv, NEW a \in AccessPoints, toStation[a] # <<>>,
           toStation' = [toStation EXCEPT ![a] = Tail(@)]
    PROVE  /\ toStation' \in [AccessPoints -> Seq(ResponseFrames)]
           /\ \A b \in AccessPoints : \A i \in DOMAIN toStation'[b] :
                  \E j \in DOMAIN toStation[b] : toStation'[b][i] = toStation[b][j]
  <1>1. toStation \in [AccessPoints -> Seq(ResponseFrames)]
    BY InvTypes
  <1>2. toStation[a] \in Seq(ResponseFrames)
    BY <1>1
  <1>3. Tail(toStation[a]) \in Seq(ResponseFrames)
    BY <1>2, TailElements
  <1>4. \A i \in DOMAIN Tail(toStation[a]) :
            i + 1 \in DOMAIN toStation[a] /\ Tail(toStation[a])[i] = toStation[a][i + 1]
    BY <1>2, TailElements
  <1> DEFINE rest == Tail(toStation[a])
  <1> HIDE DEF rest
  <1>5. \A i \in DOMAIN rest : \E j \in DOMAIN toStation[a] : rest[i] = toStation[a][j]
    BY <1>4 DEF rest
  <1>6. toStation' = [toStation EXCEPT ![a] = rest] /\ rest \in Seq(ResponseFrames)
    BY <1>3 DEF rest
  <1> QED BY <1>1, <1>5, <1>6

LEMMA RequestsTaken ==
    ASSUME Inv, NEW s \in Stations, toAp[s] # <<>>, toAp' = [toAp EXCEPT ![s] = Tail(@)]
    PROVE  /\ toAp' \in [Stations -> Seq(RequestFrames)]
           /\ \A t \in Stations : OnlyTaken(toAp'[t], toAp[t])
  <1>1. toAp \in [Stations -> Seq(RequestFrames)] /\ Tail(toAp[s]) \in Seq(RequestFrames)
    BY InvTypes, TailElements
  <1> QED BY <1>1 DEF OnlyTaken

LEMMA StationReceivesInv ==
    ASSUME Inv, NEW a \in AccessPoints, StationReceives(a)
    PROVE  Inv'
  <1> DEFINE frame == Head(toStation[a])
             s == frame.station
  <1>1. /\ toStation[a] # <<>>
        /\ UNCHANGED <<ap, level, disturbances>>
        /\ toStation' = [toStation EXCEPT ![a] = Tail(@)]
        /\ frame.type = "AUTHENTICATION" => ProcessAuthenticationFrame(s)
        /\ frame.type # "AUTHENTICATION" /\ frame.type = "ASSOCIATION_RESPONSE" =>
               ProcessAssociationResponse(s, a, frame)
    BY DEF StationReceives
  <1>2. frame \in ResponseFrames /\ ResponseOK(a, frame)
    <2>1. toStation[a] \in Seq(ResponseFrames)
      BY InvTypes
    <2>2. 1 \in DOMAIN toStation[a] /\ frame = toStation[a][1] /\ frame \in ResponseFrames
      BY <1>1, <2>1, TailElements
    <2> HIDE DEF frame
    <2> QED BY <2>2 DEF Inv
  <1>3. PICK f : f = frame
    OBVIOUS
  <1> HIDE DEF frame
  <1>4. /\ f.station \in Stations /\ f \in ResponseFrames /\ ResponseOK(a, f) /\ s = f.station
        /\ f.type \in {"AUTHENTICATION", "ASSOCIATION_RESPONSE"}
    BY <1>2, <1>3 DEF ResponseFrames
  <1>5. PICK t \in Stations : t = f.station
    BY <1>4
  <1>6. /\ toStation' \in [AccessPoints -> Seq(ResponseFrames)]
        /\ \A b \in AccessPoints : \A i \in DOMAIN toStation'[b] :
               \E j \in DOMAIN toStation[b] : toStation'[b][i] = toStation[b][j]
    BY <1>1, ResponsesTaken
  <1>7. /\ level' \in [Stations \X AccessPoints -> Levels]
        /\ disturbances' \in 0 .. MaxDisturbances
    BY <1>1 DEF Inv, TypeOK
  <1>8. CASE UNCHANGED <<station, toAp>>
    BY <1>1, <1>6, <1>7, <1>8, InvTypes, KeepsAttempts
       DEF SameAttempt, OnlyTaken, Registered
  <1>9. StationOK(station[t]) /\ station[t] \in StationInfos
    BY InvTypes
  <1>10. CASE f.type = "AUTHENTICATION" /\ station[t].state = "WaitingForAuthentication"
    <2> DEFINE st == Without(t, "AuthenticationTimeout")
               new == Requesting(st)
               request == [type |-> "ASSOCIATION_REQUEST", ap |-> st.ap, present |-> TRUE]
               queue == Append(toAp[t], request)
    <2>1. station' = [station EXCEPT ![t] = new] /\ toAp' = [toAp EXCEPT ![t] = queue]
      BY <1>1, <1>3, <1>5, <1>10 DEF ProcessAuthenticationFrame, Send, Requesting
    <2>2. "AuthenticationTimeout" \in station[t].events
      BY <1>9, <1>10 DEF StationOK, EventOf
    <2>3. st \in StationInfos /\ st.events = {} /\ st.ap \in AccessPoints
      BY <1>9, <1>10, <2>2, WithoutOK DEF StationOK, HasAp
    <2>4. StationOK(new) /\ new.state = "WaitingForAssociationResponse"
      BY <2>3, RequestingOK
    <2>5. toAp[t] \in Seq(RequestFrames) /\ request \in RequestFrames
      BY <2>3, InvTypes DEF RequestFrames
    <2>6. NoPresentRequest(toAp[t])
      BY <1>10 DEF Inv, RequestsOK
    <2> HIDE DEF st, new, request
    <2>7. queue \in Seq(RequestFrames)
      BY <2>5, AppendElements
    <2>8. NoDisassociationBehind(queue)
      <3>1. SUFFICES ASSUME NEW i \in DOMAIN queue, NEW j \in DOMAIN queue, i <= j,
                            IsPresentRequest(queue[i])
                     PROVE  queue[j].type # "DISASSOCIATION"
        BY DEF NoDisassociationBehind
      <3>2. i \notin DOMAIN toAp[t] \/ queue[i] # toAp[t][i]
        BY <2>6, <3>1 DEF NoPresentRequest
      <3>3. /\ i = Len(toAp[t]) + 1 /\ Len(toAp[t]) \in Nat
            /\ DOMAIN toAp[t] = 1 .. Len(toAp[t])
            /\ \/ j \in DOMAIN toAp[t]
               \/ j = Len(toAp[t]) + 1 /\ queue[j] = request
        BY <2>5, <3>2, AppendElements, LenProperties
      <3>4. queue[j] = request
        BY <3>1, <3>3
      <3> QED BY <3>4 DEF request
    <2> HIDE DEF queue
    <2>9. /\ station'[t] = new /\ toAp'[t] = queue
          /\ \A u \in Stations \ {t} : station'[u] = station[u] /\ toAp'[u] = toAp[u]
      BY <2>1, InvTypes
    <2>10. TypeOK'
      BY <1>1, <1>6, <1>7, <2>1, <2>4, <2>7, InvTypes DEF TypeOK, StationOK
    <2>11. ASSUME NEW u \in Stations
           PROVE  (StationOK(station[u]) /\ RequestsOK(u) /\ AssociatedOK(u))'
      <3>1. CASE u = t
        BY <2>4, <2>8, <2>9, <3>1 DEF RequestsOK, AssociatedOK
      <3>2. CASE u # t
        BY <1>1, <2>9, <3>2 DEF RequestsOK, AssociatedOK, Registered, Inv
      <3> QED BY <3>1, <3>2
    <2>12. ASSUME NEW b \in AccessPoints, NEW i \in DOMAIN toStation'[b]
           PROVE  ResponseOK(b, toStation[b][i])'
      <3>1. PICK j \in DOMAIN toStation[b] : toStation'[b][i] = toStation[b][j]
        BY <1>6
      <3>2. PICK r : r = toStation[b][j]
        OBVIOUS
      <3>3. r.station \in Stations /\ ResponseOK(b, r) /\ toStation'[b][i] = r
        BY <3>1, <3>2, InvTypes DEF Inv
      <3>4. CASE r.station = t
        BY <1>10, <3>3, <3>4 DEF ResponseOK
      <3>5. CASE r.station # t
        BY <1>1, <2>9, <3>3, <3>5 DEF ResponseOK, Registered
      <3> QED BY <3>4, <3>5
    <2> QED BY <1>1, <2>10, <2>11, <2>12, InvTypes DEF Inv
  <1>11. CASE /\ f.type = "ASSOCIATION_RESPONSE"
              /\ station[t].state = "WaitingForAssociationResponse" /\ station[t].ap = a
    <2> DEFINE st == Without(t, "AssociateFailure")
               new == AssociatedWith(t, st, f)
    <2>1. station' = [station EXCEPT ![t] = new] /\ toAp' = toAp
      BY <1>1, <1>3, <1>5, <1>11 DEF ProcessAssociationResponse, AssociatedWith
    <2>2. "AssociateFailure" \in station[t].events
      BY <1>9, <1>11 DEF StationOK, EventOf
    <2>3. st \in StationInfos /\ st.events = {} /\ st.ap = a
      BY <1>9, <1>11, <2>2, WithoutOK
    <2>4. /\ StationOK(new) /\ new.state = "Associated"
          /\ new.ap = a /\ new.id = f.id /\ new.answered = f.present
      BY <1>4, <2>3, AssociatedWithOK
    <2>5. f.present => Registered(t, a, f.id)
      BY <1>4, <1>5, <1>11 DEF ResponseOK
    <2> HIDE DEF st, new
    <2>6. station'[t] = new /\ \A u \in Stations \ {t} : station'[u] = station[u]
      BY <2>1, InvTypes
    <2>7. TypeOK'
      BY <1>1, <1>6, <1>7, <2>1, <2>4, InvTypes DEF TypeOK, StationOK
    <2>8. ASSUME NEW u \in Stations
          PROVE  (StationOK(station[u]) /\ RequestsOK(u) /\ AssociatedOK(u))'
      <3>1. CASE u = t
        BY <1>1, <2>1, <2>4, <2>5, <2>6, <3>1 DEF RequestsOK, AssociatedOK, Registered
      <3>2. CASE u # t
        BY <1>1, <2>1, <2>6, <3>2 DEF RequestsOK, AssociatedOK, Registered, Inv
      <3> QED BY <3>1, <3>2
    <2>9. ASSUME NEW b \in AccessPoints, NEW i \in DOMAIN toStation'[b]
          PROVE  ResponseOK(b, toStation[b][i])'
      <3>1. PICK j \in DOMAIN toStation[b] : toStation'[b][i] = toStation[b][j]
        BY <1>6
      <3>2. PICK r : r = toStation[b][j]
        OBVIOUS
      <3>3. r.station \in Stations /\ ResponseOK(b, r) /\ toStation'[b][i] = r
        BY <3>1, <3>2, InvTypes DEF Inv
      <3>4. CASE r.station = t
        BY <2>4, <2>6, <3>3, <3>4 DEF ResponseOK
      <3>5. CASE r.station # t
        BY <1>1, <2>1, <2>6, <3>3, <3>5 DEF ResponseOK, Registered
      <3> QED BY <3>4, <3>5
    <2> QED BY <1>1, <2>7, <2>8, <2>9, InvTypes DEF Inv
  <1> QED BY <1>1, <1>3, <1>4, <1>5, <1>8, <1>10, <1>11
        DEF ProcessAuthenticationFrame, ProcessAssociationResponse

-----------------------------------------------------------------------------
(* A new attempt: whatever was asked or answered before belongs to the past. *)

LEMMA StartAuthenticationInv ==
    ASSUME Inv, NEW s \in Stations, NEW st \in StationInfos, st.events = {},
           NEW a \in AccessPoints, StartAuthentication(s, st, a),
           UNCHANGED <<ap, level, disturbances>>
    PROVE  Inv'
  <1> DEFINE new == Authenticating(st, a)
             request == [type |-> "AUTHENTICATION", ap |-> a, present |-> TRUE]
             old(queue) == [i \in DOMAIN queue |-> Old(queue[i])]
  <1>1. PICK kept \in HeadMayBeLost(toAp[s]) :
            toAp' = [toAp EXCEPT ![s] = Append(old(kept), request)]
    BY DEF StartAuthentication, Send
  <1>2. station' = [station EXCEPT ![s] = new]
    BY DEF StartAuthentication, Authenticating
  <1>3. StationOK(new) /\ new.state = "WaitingForAuthentication"
    BY AuthenticatingOK
  <1>4. kept \in Seq(RequestFrames)
    BY <1>1, InvTypes, HeadMayBeLostType
  <1>5. \A frame \in RequestFrames :
            Old(frame) \in RequestFrames /\ ~IsPresentRequest(Old(frame))
    BY DEF RequestFrames, Old, IsPresentRequest
  <1>6. /\ old(kept) \in Seq(RequestFrames)
        /\ \A i \in DOMAIN old(kept) : ~IsPresentRequest(old(kept)[i])
    <2>1. /\ \A i \in DOMAIN kept : kept[i] \in RequestFrames
          /\ DOMAIN kept = 1 .. Len(kept) /\ Len(kept) \in Nat
      BY <1>4, LenProperties
    <2> QED BY <1>5, <2>1, IsASeq
  <1>7. request \in RequestFrames /\ ~IsPresentRequest(request)
    BY DEF RequestFrames, IsPresentRequest
  <1> DEFINE past == old(kept)
             queue == Append(past, request)
  <1> HIDE DEF new, request, past
  <1>8. queue \in Seq(RequestFrames) /\ NoPresentRequest(queue)
    BY <1>6, <1>7, AppendElements DEF NoPresentRequest, past
  <1>9. toAp' = [toAp EXCEPT ![s] = queue]
    BY <1>1 DEF past
  <1> HIDE DEF queue
  <1>10. /\ station'[s] = new /\ toAp'[s] = queue
         /\ \A t \in Stations \ {s} : station'[t] = station[t] /\ toAp'[t] = toAp[t]
    BY <1>2, <1>9, InvTypes
  <1>11. ASSUME NEW b \in AccessPoints
         PROVE  /\ toStation'[b] \in Seq(ResponseFrames)
                /\ DOMAIN toStation'[b] = DOMAIN toStation[b]
                /\ \A i \in DOMAIN toStation[b] :
                       toStation'[b][i] = IF toStation[b][i].station = s
                                          THEN Old(toStation[b][i]) ELSE toStation[b][i]
    <2> DEFINE then(i) == IF toStation[b][i].station = s
                          THEN Old(toStation[b][i]) ELSE toStation[b][i]
    <2>1. toStation'[b] = [i \in DOMAIN toStation[b] |-> then(i)]
      BY DEF StartAuthentication
    <2>2. toStation[b] \in Seq(ResponseFrames)
      BY InvTypes
    <2>3. /\ \A i \in DOMAIN toStation[b] : toStation[b][i] \in ResponseFrames
          /\ DOMAIN toStation[b] = 1 .. Len(toStation[b]) /\ Len(toStation[b]) \in Nat
      BY <2>2, LenProperties
    <2>4. \A frame \in ResponseFrames : Old(frame) \in ResponseFrames
      BY DEF ResponseFrames, Old
    <2>5. \A i \in DOMAIN toStation[b] : then(i) \in ResponseFrames
      BY <2>3, <2>4
    <2> HIDE DEF then
    <2>6. toStation'[b] \in Seq(ResponseFrames)
      BY <2>1, <2>3, <2>5, IsASeq
    <2> QED BY <2>1, <2>6 DEF then
  <1>12. toStation' \in [AccessPoints -> Seq(ResponseFrames)]
    <2>1. toStation' = [b \in AccessPoints |-> toStation'[b]]
      BY DEF StartAuthentication
    <2> QED BY <1>11, <2>1
  <1>13. TypeOK'
    BY <1>2, <1>3, <1>8, <1>9, <1>12, InvTypes DEF TypeOK, StationOK, Inv
  <1>14. ASSUME NEW t \in Stations
         PROVE  (StationOK(station[t]) /\ RequestsOK(t) /\ AssociatedOK(t))'
    <2>1. CASE t = s
      BY <1>3, <1>8, <1>10, <2>1 DEF RequestsOK, AssociatedOK
    <2>2. CASE t # s
      BY <1>10, <2>2 DEF RequestsOK, AssociatedOK, Registered, Inv
    <2> QED BY <2>1, <2>2
  <1>15. ASSUME NEW b \in AccessPoints, NEW i \in DOMAIN toStation'[b]
         PROVE  ResponseOK(b, toStation[b][i])'
    <2>1. PICK r : r = toStation[b][i]
      OBVIOUS
    <2>2. i \in DOMAIN toStation[b]
      BY <1>11
    <2>3. /\ r \in ResponseFrames /\ r.station \in Stations /\ ResponseOK(b, r)
          /\ toStation'[b][i] = IF r.station = s THEN Old(r) ELSE r
      BY <1>11, <2>1, <2>2, InvTypes DEF Inv
    <2>4. CASE r.station = s
      <3>1. ~toStation'[b][i].present
        BY <2>3, <2>4 DEF Old, ResponseFrames
      <3> QED BY <3>1 DEF ResponseOK
    <2>5. CASE r.station # s
      BY <1>10, <2>3, <2>5 DEF ResponseOK, Registered
    <2> QED BY <2>4, <2>5
  <1> QED BY <1>13, <1>14, <1>15, InvTypes DEF Inv

-----------------------------------------------------------------------------
(* The requests an access point receives. *)

\* A frame goes into the queue of an access point.
LEMMA ResponseAppended ==
    ASSUME Inv, NEW a \in AccessPoints, NEW response \in ResponseFrames,
           toStation' = [toStation EXCEPT ![a] = Append(@, response)]
    PROVE  /\ toStation' \in [AccessPoints -> Seq(ResponseFrames)]
           /\ \A b \in AccessPoints : \A i \in DOMAIN toStation'[b] :
                  \/ b = a /\ toStation'[b][i] = response
                  \/ \E j \in DOMAIN toStation[b] : toStation'[b][i] = toStation[b][j]
  <1> DEFINE queue == Append(toStation[a], response)
  <1>1. toStation[a] \in Seq(ResponseFrames)
    BY InvTypes
  <1>2. queue \in Seq(ResponseFrames)
    BY <1>1, AppendElements
  <1>3. \A i \in DOMAIN queue :
            queue[i] = response \/ \E j \in DOMAIN toStation[a] : queue[i] = toStation[a][j]
    BY <1>1, AppendElements
  <1> HIDE DEF queue
  <1>4. toStation' = [toStation EXCEPT ![a] = queue]
    BY DEF queue
  <1> QED BY <1>2, <1>3, <1>4, InvTypes

LEMMA ApReceivesInv ==
    ASSUME Inv, NEW s \in Stations, ApReceives(s)
    PROVE  Inv'
  <1>1. /\ toAp[s] # <<>>
        /\ UNCHANGED <<station, level, disturbances>>
        /\ toAp' = [toAp EXCEPT ![s] = Tail(@)]
    BY DEF ApReceives
  <1>2. toAp[s] \in Seq(RequestFrames)
    BY InvTypes
  <1>3. PICK f : f = Head(toAp[s])
    OBVIOUS
  <1>4. f \in RequestFrames /\ 1 \in DOMAIN toAp[s] /\ f = toAp[s][1]
    BY <1>1, <1>2, <1>3, TailElements
  <1>5. PICK a \in AccessPoints : a = f.ap
    BY <1>4 DEF RequestFrames
  <1>6. f.type \in {"AUTHENTICATION", "ASSOCIATION_REQUEST", "DISASSOCIATION"}
    BY <1>4 DEF RequestFrames
  <1>7. /\ f.type = "AUTHENTICATION" => ScheduleAuthentication(a, s)
        /\ f.type = "ASSOCIATION_REQUEST" => ProcessAssociationRequestFrame(a, s, f)
        /\ f.type = "DISASSOCIATION" => ProcessDisassociationFrame(a, s)
    BY <1>3, <1>5, <1>6 DEF ApReceives
  <1>8. /\ toAp' \in [Stations -> Seq(RequestFrames)]
        /\ \A t \in Stations : OnlyTaken(toAp'[t], toAp[t])
    BY <1>1, RequestsTaken
  <1>9. /\ level' \in [Stations \X AccessPoints -> Levels]
        /\ disturbances' \in 0 .. MaxDisturbances
        /\ station' \in [Stations -> StationInfos]
        /\ \A t \in Stations : StationOK(station'[t]) /\ SameAttempt(station'[t], station[t])
    BY <1>1, InvTypes DEF Inv, TypeOK, SameAttempt
  <1>10. ASSUME NEW info, ApOK(info), ap' = [ap EXCEPT ![a] = info]
         PROVE  /\ ap' \in [AccessPoints -> ApInfos]
                /\ \A b \in AccessPoints : ApOK(ap'[b])
                /\ ap'[a] = info /\ \A b \in AccessPoints \ {a} : ap'[b] = ap[b]
    BY <1>10, InvTypes DEF ApOK
  <1>11. CASE f.type = "AUTHENTICATION"
    <2> DEFINE waiting == Append(ap[a].authentications, s)
               info == [ap[a] EXCEPT !.authentications = waiting]
    <2>1. ap[a] \in ApInfos /\ ApOK(ap[a])
      BY InvTypes
    <2>2. ap[a].authentications \in Seq(Stations)
      BY <2>1 DEF ApInfos
    <2>3. waiting \in Seq(Stations)
      BY <2>2, AppendElements
    <2>4. ap' = [ap EXCEPT ![a] = info] /\ toStation' = toStation
      BY <1>7, <1>11 DEF ScheduleAuthentication
    <2> HIDE DEF waiting
    <2>5. ApOK(info) /\ info.record = ap[a].record
      BY <2>1, <2>3, AuthenticationsOK
    <2> HIDE DEF info
    <2> QED BY <1>8, <1>9, <1>10, <2>4, <2>5, InvTypes, KeepsAttempts DEF Registered
  <1>12. CASE f.type = "ASSOCIATION_REQUEST"
    <2> DEFINE info == WithRecord(ap[a], s)
               response == AssociationResponse(info, s, f.present)
    <2>1. /\ ap' = [ap EXCEPT ![a] = info]
          /\ toStation' = [toStation EXCEPT ![a] = Append(@, response)]
      BY <1>7, <1>12 DEF ProcessAssociationRequestFrame
    <2>2. /\ ApOK(info) /\ info.record[s] # 0
          /\ ap[a].record[s] # 0 => info.record[s] = ap[a].record[s]
          /\ \A t \in Stations \ {s} : info.record[t] = ap[a].record[t]
      BY InvTypes, WithRecordOK
    <2> HIDE DEF info
    <2>3. /\ response \in ResponseFrames
          /\ response.station = s /\ response.id = info.record[s]
          /\ response.present = f.present
      <3>1. info.record[s] \in 0 .. MaxAssociationId /\ f.present \in BOOLEAN
        BY <1>4, <2>2 DEF ApOK, ApInfos, RequestFrames
      <3> QED BY <3>1 DEF AssociationResponse, ResponseFrames
    <2> HIDE DEF response
    <2>31. PICK r : r = response
      OBVIOUS
    <2>4. /\ toStation' \in [AccessPoints -> Seq(ResponseFrames)]
          /\ \A b \in AccessPoints : \A i \in DOMAIN toStation'[b] :
                 \/ b = a /\ toStation'[b][i] = response
                 \/ \E j \in DOMAIN toStation[b] : toStation'[b][i] = toStation[b][j]
      BY <2>1, <2>3, ResponseAppended
    <2>5. ASSUME NEW t \in Stations, NEW b \in AccessPoints, NEW id, Registered(t, b, id)
          PROVE  ap'[b].record[t] = id
      <3>1. ap[b].record[t] = id /\ id # 0
        BY <2>5 DEF Registered
      <3> QED BY <1>10, <2>1, <2>2, <3>1
    <2>6. ASSUME NEW b \in AccessPoints, NEW i \in DOMAIN toStation'[b], b = a,
                 toStation'[b][i] = response
          PROVE  ResponseOK(b, toStation[b][i])'
      <3>1. SUFFICES ASSUME f.present
                     PROVE  /\ station[s].state # "WaitingForAuthentication"
                            /\ station[s].state = "WaitingForAssociationResponse" =>
                                   Registered(s, a, r.id)'
        BY <1>1, <2>3, <2>31, <2>6 DEF ResponseOK
      <3>2. IsPresentRequest(toAp[s][1]) /\ RequestsOK(s)
        BY <1>4, <1>12, <3>1 DEF IsPresentRequest, Inv
      <3>3. station[s].state # "WaitingForAuthentication"
        BY <1>4, <3>2 DEF RequestsOK, NoPresentRequest
      <3>4. ASSUME station[s].state = "WaitingForAssociationResponse"
            PROVE  Registered(s, a, r.id)'
        <4>1. /\ DOMAIN toAp[s] = 1 .. Len(toAp[s]) /\ Len(toAp[s]) \in Nat
          BY <1>2, LenProperties
        <4>2. NoDisassociation(toAp[s])
          BY <1>4, <3>2, <3>4, <4>1
          DEF RequestsOK, NoDisassociationBehind, NoDisassociation
        <4>3. NoDisassociation(Tail(toAp[s]))
          BY <1>1, <1>2, <4>2, RequestsTail
        <4>4. toAp'[s] = Tail(toAp[s])
          BY <1>1, InvTypes
        <4>5. ap'[a] = info
          BY <1>10, <2>1, <2>2
        <4> QED BY <2>2, <2>3, <2>31, <4>3, <4>4, <4>5 DEF Registered
      <3> QED BY <3>3, <3>4
    <2>7. \A b \in AccessPoints : \A i \in DOMAIN toStation'[b] :
              \/ ResponseOK(b, toStation[b][i])'
              \/ \E j \in DOMAIN toStation[b] : toStation'[b][i] = toStation[b][j]
      BY <2>4, <2>6
    <2> QED BY <1>8, <1>9, <1>10, <2>1, <2>2, <2>4, <2>5, <2>7, KeepsAttempts
  <1>13. CASE f.type = "DISASSOCIATION"
    <2> DEFINE info == IF ap[a].record[s] = 0 THEN ap[a] ELSE WithoutRecord(ap[a], s)
    <2>1. ap' = [ap EXCEPT ![a] = info] /\ toStation' = toStation
      BY <1>7, <1>13 DEF ProcessDisassociationFrame, WithoutRecord
    <2>2. ApOK(info) /\ \A t \in Stations \ {s} : info.record[t] = ap[a].record[t]
      BY InvTypes, WithoutRecordOK
    <2> HIDE DEF info
    <2>3. ASSUME NEW t \in Stations, NEW b \in AccessPoints, NEW id, Registered(t, b, id)
          PROVE  ap'[b].record[t] = id
      <3>1. ~NoDisassociation(toAp[s])
        BY <1>4, <1>13 DEF NoDisassociation
      <3>2. t # s /\ ap[b].record[t] = id
        BY <2>3, <3>1 DEF Registered
      <3> QED BY <1>10, <2>1, <2>2, <3>2
    <2> QED BY <1>8, <1>9, <1>10, <2>1, <2>2, <2>3, InvTypes, KeepsAttempts
  <1> QED BY <1>6, <1>11, <1>12, <1>13

LEMMA SendAuthenticationInv ==
    ASSUME Inv, NEW a \in AccessPoints, SendAuthentication(a)
    PROVE  Inv'
  <1> DEFINE waiting == ap[a].authentications
             response == [type |-> "AUTHENTICATION", station |-> Head(waiting), id |-> 0,
                          present |-> FALSE]
             info == [ap[a] EXCEPT !.authentications = Tail(waiting)]
  <1>1. /\ waiting # <<>> /\ UNCHANGED <<station, toAp, level, disturbances>>
        /\ ap' = [ap EXCEPT ![a] = info]
        /\ toStation' = [toStation EXCEPT ![a] = Append(@, response)]
    BY DEF SendAuthentication
  <1>2. ApOK(ap[a]) /\ waiting \in Seq(Stations)
    BY InvTypes DEF ApInfos
  <1>3. Tail(waiting) \in Seq(Stations) /\ Head(waiting) \in Stations
    BY <1>1, <1>2, TailElements
  <1>4. response \in ResponseFrames /\ response.type = "AUTHENTICATION"
    BY <1>3, ManagementAssumption DEF ResponseFrames
  <1> HIDE DEF waiting, response
  <1>5. ApOK(info) /\ info.record = ap[a].record
    BY <1>2, <1>3, AuthenticationsOK
  <1> HIDE DEF info
  <1>6. /\ ap' \in [AccessPoints -> ApInfos] /\ \A b \in AccessPoints : ApOK(ap'[b])
        /\ \A b \in AccessPoints : ap'[b].record = ap[b].record
    <2>1. info \in ApInfos
      BY <1>5 DEF ApOK
    <2>2. \A b \in AccessPoints : ap'[b] = IF b = a THEN info ELSE ap[b]
      BY <1>1, InvTypes
    <2> QED BY <1>1, <1>5, <2>1, <2>2, InvTypes
  <1>7. /\ toStation' \in [AccessPoints -> Seq(ResponseFrames)]
        /\ \A b \in AccessPoints : \A i \in DOMAIN toStation'[b] :
               \/ b = a /\ toStation'[b][i] = response
               \/ \E j \in DOMAIN toStation[b] : toStation'[b][i] = toStation[b][j]
    BY <1>1, <1>4, ResponseAppended
  <1>8. \A b \in AccessPoints : \A i \in DOMAIN toStation'[b] :
            \/ ResponseOK(b, toStation[b][i])'
            \/ \E j \in DOMAIN toStation[b] : toStation'[b][i] = toStation[b][j]
    BY <1>4, <1>7 DEF ResponseOK
  <1>9. /\ level' \in [Stations \X AccessPoints -> Levels]
        /\ disturbances' \in 0 .. MaxDisturbances
    BY <1>1 DEF Inv, TypeOK
  <1> QED BY <1>1, <1>6, <1>7, <1>8, <1>9, InvTypes, KeepsAttempts
          DEF SameAttempt, OnlyTaken, Registered

-----------------------------------------------------------------------------
(* The timers and beacons of a station. *)

LEMMA InitializationEventInv ==
    ASSUME Inv, NEW s \in Stations, InitializationEvent(s)
    PROVE  Inv'
  <1> DEFINE st == Without(s, "Initialization")
             new == StartChannelScanning(s, st)
  <1>1. /\ "Initialization" \in station[s].events
        /\ station' = [station EXCEPT ![s] = new]
        /\ UNCHANGED <<ap, toStation, level, disturbances>>
    BY DEF InitializationEvent
  <1>2. PICK queue \in HeadMayBeLost(toAp[s]) : toAp' = [toAp EXCEPT ![s] = queue]
    BY DEF InitializationEvent
  <1>3. queue \in Seq(RequestFrames)
    BY <1>2, InvTypes, HeadMayBeLostType
  <1>4. st \in StationInfos /\ st.events = {}
    BY <1>1, InvTypes, WithoutOK
  <1> HIDE DEF st
  <1>5. StationOK(new) /\ new.state = "ChannelScanning"
    BY <1>4, StartChannelScanningOK
  <1> HIDE DEF new
  <1> QED BY <1>1, <1>2, <1>3, <1>5, GivesUpAttempt DEF Inv, TypeOK

LEMMA ChannelScanTimedOutInv ==
    ASSUME Inv, NEW s \in Stations, ChannelScanTimedOut(s)
    PROVE  Inv'
  <1> DEFINE st == Without(s, "ChannelScanTimeout")
  <1>1. /\ "ChannelScanTimeout" \in station[s].events
        /\ UNCHANGED <<ap, level, disturbances>>
    BY DEF ChannelScanTimedOut
  <1>2. /\ st \in StationInfos /\ st.events = {}
        /\ "ChannelScanTimeout" = EventOf(st.state) /\ st.state \in StationStates
    BY <1>1, InvTypes, WithoutOK DEF StationInfos
  <1>3. st.state = "ChannelScanning" /\ st.nextScan \in Nat
    BY <1>2 DEF EventOf, StationInfos, StationStates
  <1>4. \/ /\ st.nextScan < NumberOfChannels
           /\ station' = [station EXCEPT ![s] = ScanNextChannel(s, st)]
           /\ \E queue \in HeadMayBeLost(toAp[s]) : toAp' = [toAp EXCEPT ![s] = queue]
           /\ UNCHANGED toStation
        \/ /\ station' = [station EXCEPT ![s] = StartChannelScanning(s, st)]
           /\ \E queue \in HeadMayBeLost(toAp[s]) : toAp' = [toAp EXCEPT ![s] = queue]
           /\ UNCHANGED toStation
        \/ ApToSwitchTo(st) # NoAp /\ StartAuthentication(s, st, ApToSwitchTo(st))
    <2>1. NumberOfChannels \in Nat
      BY ManagementAssumption
    <2> HIDE DEF st
    <2>2. CASE st.nextScan < NumberOfChannels
      BY <2>2 DEF ChannelScanTimedOut, st
    <2>3. CASE st.nextScan >= NumberOfChannels /\ ApToSwitchTo(st) = NoAp
      <3>1. ~(st.nextScan < NumberOfChannels)
        BY <1>3, <2>1, <2>3
      <3> QED BY <2>3, <3>1 DEF ChannelScanTimedOut, st
    <2>4. CASE st.nextScan >= NumberOfChannels /\ ApToSwitchTo(st) # NoAp
      <3>1. ~(st.nextScan < NumberOfChannels)
        BY <1>3, <2>1, <2>4
      <3> QED BY <2>4, <3>1 DEF ChannelScanTimedOut, st
    <2> QED BY <1>3, <2>1, <2>2, <2>3, <2>4
  <1> HIDE DEF st
  <1>5. ASSUME NEW new, StationOK(new), new.state = "ChannelScanning",
               station' = [station EXCEPT ![s] = new], UNCHANGED toStation,
               \E queue \in HeadMayBeLost(toAp[s]) : toAp' = [toAp EXCEPT ![s] = queue]
        PROVE  Inv'
    <2>1. PICK queue \in HeadMayBeLost(toAp[s]) : toAp' = [toAp EXCEPT ![s] = queue]
      BY <1>5
    <2>2. queue \in Seq(RequestFrames)
      BY <2>1, InvTypes, HeadMayBeLostType
    <2> QED BY <1>1, <1>5, <2>1, <2>2, GivesUpAttempt DEF Inv, TypeOK
  <1>6. ApToSwitchTo(st) # NoAp => ApToSwitchTo(st) \in AccessPoints
    BY <1>2, ApToSwitchToType
  <1>7. /\ StationOK(StartChannelScanning(s, st))
        /\ StartChannelScanning(s, st).state = "ChannelScanning"
    BY <1>2, StartChannelScanningOK
  <1>8. st.nextScan < NumberOfChannels =>
            /\ StationOK(ScanNextChannel(s, st))
            /\ ScanNextChannel(s, st).state = "ChannelScanning"
    BY <1>2, <1>3, ScanNextChannelOK
  <1> QED BY <1>1, <1>2, <1>4, <1>5, <1>6, <1>7, <1>8, StartAuthenticationInv

LEMMA HandshakeTimeoutInv ==
    ASSUME Inv, NEW s \in Stations, HandshakeTimeout(s)
    PROVE  Inv'
  <1>1. PICK event \in {"AuthenticationTimeout", "AssociateFailure"} \cap station[s].events :
            /\ DisturbIf(InFlight(s))
            /\ station' = [station EXCEPT ![s] = StartChannelScanning(s,
                   [Without(s, event) EXCEPT !.ap = NoAp, !.authenticated = FALSE])]
            /\ \E queue \in HeadMayBeLost(toAp[s]) : toAp' = [toAp EXCEPT ![s] = queue]
            /\ UNCHANGED <<ap, toStation, level>>
    BY DEF HandshakeTimeout
  <1> DEFINE alone == Without(s, event)
             st == [alone EXCEPT !.ap = NoAp, !.authenticated = FALSE]
             new == StartChannelScanning(s, st)
  <1>2. alone \in StationInfos /\ alone.events = {}
    BY <1>1, InvTypes, WithoutOK
  <1>3. station' = [station EXCEPT ![s] = new]
    BY <1>1
  <1> HIDE DEF alone
  <1>4. st \in StationInfos /\ st.events = {}
    BY <1>2 DEF StationInfos
  <1> HIDE DEF st
  <1>5. StationOK(new) /\ new.state = "ChannelScanning"
    BY <1>4, StartChannelScanningOK
  <1> HIDE DEF new
  <1>6. PICK queue \in HeadMayBeLost(toAp[s]) : toAp' = [toAp EXCEPT ![s] = queue]
    BY <1>1
  <1>7. queue \in Seq(RequestFrames)
    BY <1>6, InvTypes, HeadMayBeLostType
  <1>8. disturbances' \in 0 .. MaxDisturbances
    BY <1>1, ManagementAssumption DEF DisturbIf, Disturb, Inv, TypeOK
  <1>9. level' \in [Stations \X AccessPoints -> Levels] /\ UNCHANGED <<ap, toStation>>
    BY <1>1 DEF Inv, TypeOK
  <1> QED BY <1>3, <1>5, <1>6, <1>7, <1>8, <1>9, GivesUpAttempt

LEMMA DisassociateInv ==
    ASSUME Inv, NEW s \in Stations, NEW st \in StationInfos,
           st.events \subseteq {"CheckLinkStatus"}, st.ap \in AccessPoints,
           Disassociate(s, st), UNCHANGED <<ap, toStation, level, disturbances>>
    PROVE  Inv'
  <1> DEFINE new == Disassociated(st)
             request == [type |-> "DISASSOCIATION", ap |-> st.ap, present |-> TRUE]
  <1>1. station' = [station EXCEPT ![s] = new]
    BY DEF Disassociate, Disassociated
  <1>2. PICK kept \in HeadMayBeLost(toAp[s]) :
            toAp' = [toAp EXCEPT ![s] = Append(kept, request)]
    BY DEF Disassociate, Send
  <1>3. kept \in Seq(RequestFrames) /\ request \in RequestFrames
    BY <1>2, InvTypes, HeadMayBeLostType DEF RequestFrames
  <1>4. StationOK(new) /\ new.state = "NotAssociated"
    BY DisassociatedOK
  <1> HIDE DEF new, request
  <1>5. Append(kept, request) \in Seq(RequestFrames)
    BY <1>3, AppendElements
  <1> QED BY <1>1, <1>2, <1>4, <1>5, GivesUpAttempt DEF Inv, TypeOK

\* A station that stays what it is.
LEMMA StaysInv ==
    ASSUME Inv, NEW s \in Stations, NEW new, StationOK(new), SameAttempt(new, station[s]),
           station' = [station EXCEPT ![s] = new], UNCHANGED <<ap, toAp, toStation>>,
           level' \in [Stations \X AccessPoints -> Levels],
           disturbances' \in 0 .. MaxDisturbances
    PROVE  Inv'
  <1>1. station' \in [Stations -> StationInfos]
    BY InvTypes DEF StationOK
  <1>2. \A t \in Stations : StationOK(station'[t]) /\ SameAttempt(station'[t], station[t])
    <2>1. \A t \in Stations : station'[t] = IF t = s THEN new ELSE station[t]
      BY InvTypes
    <2>2. \A t \in Stations : SameAttempt(station[t], station[t])
      BY DEF SameAttempt
    <2> QED BY <2>1, <2>2, InvTypes
  <1> QED BY <1>1, <1>2, InvTypes, KeepsAttempts DEF OnlyTaken, Registered

LEMMA CheckLinkStatusInv ==
    ASSUME Inv, NEW s \in Stations, CheckLinkStatus(s)
    PROVE  Inv'
  <1> DEFINE st == Without(s, "CheckLinkStatus")
  <1>1. /\ "CheckLinkStatus" \in station[s].events
        /\ UNCHANGED <<ap, toStation, level, disturbances>>
        /\ \/ Disassociate(s, st)
           \/ /\ station' = [station EXCEPT ![s] = StillAssociated(s, st)]
              /\ UNCHANGED toAp
    BY DEF CheckLinkStatus, StillAssociated
  <1>2. /\ st \in StationInfos /\ st.events = {} /\ SameAttempt(st, station[s])
        /\ "CheckLinkStatus" = EventOf(st.state) /\ st.state \in StationStates
        /\ StationOK(station[s])
    BY <1>1, InvTypes, WithoutOK DEF StationInfos, SameAttempt
  <1>3. st.state = "Associated"
    BY <1>2 DEF EventOf, StationStates
  <1>4. st.ap \in AccessPoints
    BY <1>2, <1>3 DEF StationOK, SameAttempt, HasAp
  <1> HIDE DEF st
  <1>5. CASE Disassociate(s, st)
    BY <1>1, <1>2, <1>4, <1>5, DisassociateInv
  <1>6. CASE station' = [station EXCEPT ![s] = StillAssociated(s, st)] /\ UNCHANGED toAp
    <2> DEFINE new == StillAssociated(s, st)
    <2>1. StationOK(new) /\ SameAttempt(new, st)
      BY <1>2, <1>3, <1>4, StillAssociatedOK
    <2> HIDE DEF new
    <2>2. SameAttempt(new, station[s])
      BY <1>2, <2>1 DEF SameAttempt
    <2>3. station' = [station EXCEPT ![s] = new]
      BY <1>6 DEF new
    <2> QED BY <1>1, <1>6, <2>1, <2>2, <2>3, StaysInv DEF Inv, TypeOK
  <1> QED BY <1>1, <1>5, <1>6

LEMMA LevelType ==
    ASSUME Inv, NEW s \in Stations, NEW a \in AccessPoints
    PROVE  level[s, a] \in Levels
  <1>1. level \in [Stations \X AccessPoints -> Levels] /\ <<s, a>> \in Stations \X AccessPoints
    BY DEF Inv, TypeOK
  <1>2. level[<<s, a>>] \in Levels
    BY <1>1
  <1> QED BY <1>2

LEMMA ReceiveBeaconInv ==
    ASSUME Inv, NEW s \in Stations, NEW a \in AccessPoints, ReceiveBeacon(s, a)
    PROVE  Inv'
  <1> DEFINE received == level[s, a]
             averages == IF station[s].average[a] = 0 THEN {received}
                         ELSE Averages(station[s].average[a], received)
  <1>1. received \in Levels
    BY LevelType
  <1>2. PICK average \in averages :
            LET st == AfterBeacon(s, a, average)
            IN  IF st.state = "Associated" /\ st.leave THEN Disassociate(s, st)
                ELSE station' = [station EXCEPT ![s] = st] /\ UNCHANGED toAp
    BY DEF ReceiveBeacon
  <1> HIDE DEF received
  <1>3. average \in Levels
    BY <1>1, <1>2, AveragesType
  <1> DEFINE st == AfterBeacon(s, a, average)
  <1>4. UNCHANGED <<ap, toStation, level, disturbances>>
    BY DEF ReceiveBeacon
  <1>5. /\ StationOK(st) /\ SameAttempt(st, station[s])
        /\ st.events = station[s].events /\ StationOK(station[s])
    BY <1>3, InvTypes, AfterBeaconOK
  <1>6. \/ st.state = "Associated" /\ Disassociate(s, st)
        \/ station' = [station EXCEPT ![s] = st] /\ UNCHANGED toAp
    BY <1>2
  <1> HIDE DEF st
  <1>7. CASE st.state = "Associated" /\ Disassociate(s, st)
    <2>1. /\ st \in StationInfos /\ st.events \subseteq {"CheckLinkStatus"}
          /\ st.ap \in AccessPoints
      BY <1>5, <1>7 DEF StationOK, EventOf, HasAp
    <2> QED BY <1>4, <1>7, <2>1, DisassociateInv
  <1>8. CASE station' = [station EXCEPT ![s] = st] /\ UNCHANGED toAp
    BY <1>4, <1>5, <1>8, StaysInv DEF Inv, TypeOK
  <1> QED BY <1>6, <1>7, <1>8

LEMMA DisturbType ==
    ASSUME Inv, \/ Disturb
                \/ UNCHANGED disturbances
    PROVE  disturbances' \in 0 .. MaxDisturbances
  BY ManagementAssumption DEF Disturb, Inv, TypeOK

LEMMA LoseBeaconInv ==
    ASSUME Inv, NEW s \in Stations, NEW a \in AccessPoints, LoseBeacon(s, a)
    PROVE  Inv'
  <1> DEFINE due == station[s].due \ {a}
             new == [station[s] EXCEPT !.due = due]
  <1>1. /\ station' = [station EXCEPT ![s] = new]
        /\ UNCHANGED <<ap, toAp, toStation, level>> /\ Disturb
    BY DEF LoseBeacon
  <1>2. due \subseteq AccessPoints
    BY InvTypes DEF StationInfos
  <1> HIDE DEF due
  <1>3. StationOK(new) /\ SameAttempt(new, station[s])
    BY <1>2, InvTypes, DueOK
  <1> HIDE DEF new
  <1>4. disturbances' \in 0 .. MaxDisturbances
    BY <1>1, DisturbType
  <1> QED BY <1>1, <1>3, <1>4, StaysInv DEF Inv, TypeOK

LEMMA MoveInv ==
    ASSUME Inv, NEW s \in Stations, NEW a \in AccessPoints, Move(s, a)
    PROVE  Inv'
  <1>1. PICK l \in Levels :
            /\ level' = [level EXCEPT ![<<s, a>>] = l]
            /\ station' = [station EXCEPT ![s].due = IF l = 0 THEN @ \ {a} ELSE @]
    BY DEF Move
  <1> DEFINE due == IF l = 0 THEN station[s].due \ {a} ELSE station[s].due
             new == [station[s] EXCEPT !.due = due]
  <1>2. /\ station' = [station EXCEPT ![s] = new]
        /\ UNCHANGED <<ap, toAp, toStation>> /\ Disturb
    BY <1>1 DEF Move
  <1>3. due \subseteq AccessPoints
    BY InvTypes DEF StationInfos
  <1> HIDE DEF due
  <1>4. StationOK(new) /\ SameAttempt(new, station[s])
    BY <1>3, InvTypes, DueOK
  <1> HIDE DEF new
  <1>5. disturbances' \in 0 .. MaxDisturbances
    BY <1>2, DisturbType
  <1>6. level' \in [Stations \X AccessPoints -> Levels]
    BY <1>1 DEF Inv, TypeOK
  <1> QED BY <1>2, <1>4, <1>5, <1>6, StaysInv

LEMMA NoStationChange ==
    ASSUME Inv, UNCHANGED station
    PROVE  /\ station' \in [Stations -> StationInfos]
           /\ \A s \in Stations :
                  StationOK(station'[s]) /\ SameAttempt(station'[s], station[s])
  BY InvTypes DEF SameAttempt

LEMMA GiveUpRequestInv ==
    ASSUME Inv, NEW s \in Stations, GiveUpRequest(s)
    PROVE  Inv'
  <1>1. /\ toAp[s] # <<>> /\ toAp' = [toAp EXCEPT ![s] = Tail(@)]
        /\ UNCHANGED <<station, ap, toStation, level>>
        /\ Disturb \/ UNCHANGED disturbances
    BY DEF GiveUpRequest, DisturbIf
  <1>2. /\ toAp' \in [Stations -> Seq(RequestFrames)]
        /\ \A t \in Stations : OnlyTaken(toAp'[t], toAp[t])
    BY <1>1, RequestsTaken
  <1>3. /\ disturbances' \in 0 .. MaxDisturbances
        /\ level' \in [Stations \X AccessPoints -> Levels]
    BY <1>1, DisturbType DEF Inv, TypeOK
  <1> QED BY <1>1, <1>2, <1>3, InvTypes, NoStationChange, KeepsAttempts DEF Registered

LEMMA GiveUpResponseInv ==
    ASSUME Inv, NEW a \in AccessPoints, GiveUpResponse(a)
    PROVE  Inv'
  <1>1. /\ toStation[a] # <<>> /\ toStation' = [toStation EXCEPT ![a] = Tail(@)]
        /\ UNCHANGED <<station, ap, toAp, level>>
        /\ Disturb \/ UNCHANGED disturbances
    BY DEF GiveUpResponse, DisturbIf
  <1>2. /\ toStation' \in [AccessPoints -> Seq(ResponseFrames)]
        /\ \A b \in AccessPoints : \A i \in DOMAIN toStation'[b] :
               \E j \in DOMAIN toStation[b] : toStation'[b][i] = toStation[b][j]
    BY <1>1, ResponsesTaken
  <1>3. /\ disturbances' \in 0 .. MaxDisturbances
        /\ level' \in [Stations \X AccessPoints -> Levels]
    BY <1>1, DisturbType DEF Inv, TypeOK
  <1> QED BY <1>1, <1>2, <1>3, InvTypes, NoStationChange, KeepsAttempts
          DEF Registered, OnlyTaken

-----------------------------------------------------------------------------
(* The theorems. *)

LEMMA InitInv == Init => Inv
  <1> SUFFICES ASSUME Init PROVE Inv
    OBVIOUS
  <1>1. /\ \A s \in Stations : toAp[s] = <<>>
        /\ \A a \in AccessPoints : toStation[a] = <<>>
    BY DEF Init
  <1>2. ASSUME NEW s \in Stations
        PROVE  StationOK(station[s]) /\ station[s].state = "NotAssociated"
    <2>1. /\ 0 \in 0 .. NumberOfChannels - 1 /\ 0 \in Levels
          /\ 0 \in 0 .. MaxAssociationId
      BY ManagementAssumption DEF Levels
    <2>2. [a \in AccessPoints |-> 0] \in [AccessPoints -> Levels]
      BY <2>1
    <2> QED BY <2>1, <2>2
            DEF Init, StationOK, StationInfos, StationStates, StationEvents, EventOf, HasAp
  <1>3. ASSUME NEW a \in AccessPoints
        PROVE  ApOK(ap[a])
    <2>1. 0 \in 0 .. MaxAssociationId /\ <<>> \in Seq(Stations)
      BY ManagementAssumption
    <2>2. /\ ap[a].record = [s \in Stations |-> 0] /\ ap[a].used = {}
          /\ ap[a] \in ApInfos
      BY <2>1 DEF Init, ApInfos
    <2> QED BY <2>2 DEF ApOK
  <1>4. TypeOK
    <2>1. station \in [Stations -> StationInfos] /\ ap \in [AccessPoints -> ApInfos]
      BY <1>2, <1>3 DEF Init, StationOK, ApOK
    <2>2. /\ toAp \in [Stations -> Seq(RequestFrames)]
          /\ toStation \in [AccessPoints -> Seq(ResponseFrames)]
      BY DEF Init
    <2>3. /\ level \in [Stations \X AccessPoints -> Levels]
          /\ disturbances \in 0 .. MaxDisturbances
      BY ManagementAssumption DEF Init
    <2> QED BY <2>1, <2>2, <2>3 DEF TypeOK
  <1>5. \A s \in Stations : RequestsOK(s) /\ AssociatedOK(s)
    BY <1>2 DEF RequestsOK, AssociatedOK
  <1> QED BY <1>1, <1>2, <1>3, <1>4, <1>5 DEF Inv

LEMMA NextInv ==
    ASSUME Inv, [Next]_vars
    PROVE  Inv'
  <1>1. CASE Next
    <2>1. ASSUME NEW s \in Stations,
                 \/ InitializationEvent(s) \/ ChannelScanTimedOut(s)
                 \/ HandshakeTimeout(s) \/ CheckLinkStatus(s)
                 \/ ApReceives(s) \/ GiveUpRequest(s)
          PROVE  Inv'
      BY <2>1, InitializationEventInv, ChannelScanTimedOutInv, HandshakeTimeoutInv,
         CheckLinkStatusInv, ApReceivesInv, GiveUpRequestInv
    <2>2. ASSUME NEW s \in Stations, NEW a \in AccessPoints,
                 ReceiveBeacon(s, a) \/ LoseBeacon(s, a) \/ Move(s, a)
          PROVE  Inv'
      BY <2>2, ReceiveBeaconInv, LoseBeaconInv, MoveInv
    <2>3. ASSUME NEW a \in AccessPoints,
                 SendAuthentication(a) \/ StationReceives(a) \/ GiveUpResponse(a)
          PROVE  Inv'
      BY <2>3, SendAuthenticationInv, StationReceivesInv, GiveUpResponseInv
    <2> QED BY <1>1, <2>1, <2>2, <2>3 DEF Next
  <1>2. CASE UNCHANGED vars
    <2>1. UNCHANGED <<station, ap, toAp, toStation, level, disturbances>>
      BY <1>2 DEF vars
    <2>2. /\ disturbances' \in 0 .. MaxDisturbances
          /\ level' \in [Stations \X AccessPoints -> Levels]
      BY <2>1 DEF Inv, TypeOK
    <2> QED BY <2>1, <2>2, InvTypes, NoStationChange, KeepsAttempts DEF Registered, OnlyTaken
  <1> QED BY <1>1, <1>2

LEMMA InvAlways == Spec => []Inv
  BY InitInv, NextInv, PTL DEF Spec

\* The variables of stations, access points and queues keep their types; no association
\* number goes beyond the last (dot11_mac_ap.h, AddNewAssociatedStaRecord).
THEOREM ManagementTypeCorrect == Spec => []TypeOK
  <1>1. Inv => TypeOK
    BY DEF Inv
  <1> QED BY <1>1, InvAlways, PTL

\* Exactly one event waits for every station, the one whose handler asserts the state the
\* station is in (dot11_mac_sta.h, dot11_mac_sta.cpp).
THEOREM OneTimerPerStation == Spec => []OneEventWaits
  <1>1. Inv => OneEventWaits
    BY DEF Inv, StationOK, OneEventWaits
  <1> QED BY <1>1, InvAlways, PTL

\* A station that takes itself to be associated, by the response to its latest request, has
\* a record at its access point under the number it was given, and nobody else has that
\* number there (dot11_mac_ap.cpp, dot11_mac_sta.cpp).
THEOREM BothSidesAgree == Spec => []AssociationIsAgreed
  <1>1. ASSUME Inv PROVE AssociationIsAgreed
    <2>1. SUFFICES ASSUME NEW s \in Stations,
                          station[s].state = "Associated", station[s].answered
                   PROVE  /\ ap[station[s].ap].record[s] = station[s].id
                          /\ \A t \in Stations \ {s} :
                                 ap[station[s].ap].record[t] # station[s].id
      BY DEF AssociationIsAgreed
    <2>2. /\ Registered(s, station[s].ap, station[s].id)
          /\ station[s].ap \in AccessPoints
      BY <1>1, <2>1 DEF Inv, AssociatedOK, StationOK, HasAp
    <2>3. ApOK(ap[station[s].ap])
      BY <1>1, <2>2, InvTypes
    <2> QED BY <2>2, <2>3 DEF Registered, ApOK
  <1> QED BY <1>1, InvAlways, PTL
=============================================================================
