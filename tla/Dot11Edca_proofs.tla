--------------------------- MODULE Dot11Edca_proofs ---------------------------
(***************************************************************************)
(* Proofs about a station that contends for its channel, for any number of *)
(* categories, any timing and whatever the world does: the safety          *)
(* properties of Dot11Edca.                                                *)
(*                                                                         *)
(* The inductive invariant relates the state of the MAC to that of its PHY *)
(* (MacOK), says who is to move each category (CategoryOK), what the timer *)
(* stands for (CountingOK) and how long the medium has been free before a  *)
(* frame goes out (GapOK).                                                 *)
(***************************************************************************)
EXTENDS Dot11Edca, Dot11EdcaMac_proofs

Cap == LongestInterframeSpace + ExtendedDelay
Counts(s) == s.macState = "WaitingForIfsAndBackoff"

\* The category whose frame exchange is under way, if there is one.
ExchangeOf(s) == IF IsWaiting(s) \/ s.outgoing \in {"DATA", "RTS"} THEN {s.last} ELSE {}

\* A category that has something to send has a backoff, of the slots it has drawn or of
\* none, or its exchange is under way.
CategoryOK(i, c, counts, exchanging) ==
    /\ i.slots <= MaxWindow[c] /\ i.window <= MaxWindow[c]
    /\ i.jumping => i.duration # INFINITE
    /\ i.duration # INFINITE =>
           IF i.jumping
           THEN counts /\ i.slots = 0 /\ i.duration <= NonExtendedBackoffDuration(c, 0)
           ELSE i.duration = NonExtendedBackoffDuration(c, i.slots)
    /\ i.packet # NONE => i.hasPacketToSend
    /\ exchanging => i.hasPacketToSend /\ i.duration = INFINITE
    /\ ~exchanging /\ i.duration = INFINITE =>
           i.queued = 0 /\ i.packet = NONE /\ ~i.hasPacketToSend

InOrder(s, counts, exchanging) ==
    \A c \in Categories : CategoryOK(s.ac[c], c, counts, c \in exchanging)

PhyOK(s) ==
    /\ s.phyState = "Scanning" /\ s.others > 0 => s.sensing
    /\ s.phyState \in {"Receiving", "Transmitting"} => s.sensing
    /\ IsTransmittingAFrame(s) <=> s.outgoing # NONE

HearsNothing(s) == s.phyState = "Scanning" /\ ~s.sensing

\* What the MAC is at, what its PHY does and whether the timer is set.
MacOK(s) ==
    /\ s.macState = "Idle" =>
           /\ HearsNothing(s) /\ s.timer = INFINITE /\ s.nav = 0
           /\ \A c \in Categories : s.ac[c].duration = INFINITE
    /\ s.macState = "WaitingForIfsAndBackoff" => HearsNothing(s) /\ s.nav = 0
    /\ s.macState = "WaitingForNavExpiration" => HearsNothing(s) /\ s.timer = s.nav
    /\ s.macState = "BusyMedium" =>
           /\ s.timer = INFINITE /\ s.outgoing \in {NONE, "DATA"}
           /\ s.outgoing = NONE => s.sensing
    /\ s.macState = "CtsOrAckTransmission" => s.timer = INFINITE /\ s.outgoing = "CONTROL"
    /\ s.macState = "WaitingForCts" =>
           /\ s.outgoing \in {NONE, "RTS"}
           /\ s.lastSent = "RTS" /\ s.ac[s.last].packet = "LONG"
    /\ s.macState = "WaitingForAck" =>
           /\ s.outgoing \in {NONE, "DATA"}
           /\ s.lastSent # "RTS" /\ s.ac[s.last].packet = NONE
    /\ IsWaiting(s) =>
          \/ s.timer = INFINITE /\ (s.sensing \/ s.outgoing # NONE)
          \/ s.timer <= ReplyTimeout /\ s.outgoing = NONE
    /\ s.macState # "Transient"
    /\ s.sent # NONE => s.macState = "WaitingForAck"

\* The medium has been free for the interframe space by the time the backoff is over.
QuietEnough(s, c) ==
    \/ s.quiet >= Cap
    \/ s.quiet + s.ac[c].duration >= s.ac[c].elapsed + NonExtendedBackoffDuration(c, 0)

QuietOK(s) ==
    s.macState \in {"Idle", "WaitingForIfsAndBackoff"} => s.quiet >= Cap \/ s.idleFor <= s.quiet

CountingOK(s) ==
    Counts(s) =>
        /\ s.timer = CurrentBackoffExpiration(s) /\ s.timer < INFINITE
        /\ \E c \in Categories : s.ac[c].duration # INFINITE
        /\ \A c \in Categories : s.ac[c].duration # INFINITE => QuietEnough(s, c)

GapOK(s) ==
    s.phyState = "TxStarting" /\ s.outgoing # "CONTROL" /\ s.lastSent # "LONG" =>
        s.gap >= ShortestInterframeSpace + Extension(s)

Basics(s) ==
    /\ s \in StationTypes /\ s.timer \in Nat /\ s.stale = INFINITE
    /\ s.permission = INFINITE /\ ~s.failed /\ s.nav <= MaxReserved

\* All but what is said of the categories one by one.
Coherent(s) == Basics(s) /\ PhyOK(s) /\ MacOK(s) /\ QuietOK(s) /\ CountingOK(s) /\ GapOK(s)

\* So it is when the MAC hands control back to the PHY ...
Consistent(s) == Coherent(s) /\ InOrder(s, Counts(s), ExchangeOf(s))

\* ... and between events the PHY has told that the medium is clear.
Settled(s) == s.phyState = "Scanning" /\ s.sensing => s.others > 0

EdcaInv ==
    /\ Consistent(station) /\ Settled(station)
    /\ toArrive \in [Categories -> Nat] /\ signals \in 0 .. MaxSignals
    /\ reply \in 0 .. ShortInterframeSpace \cup {INFINITE}
    /\ young \in [receiving : BOOLEAN, others : Nat]

-----------------------------------------------------------------------------
(* Categories. *)

\* A backoff of slots that fit in the window is finite.
LEMMA SmallDurations ==
    ASSUME NEW c \in Categories, NEW n \in Nat, n <= MaxWindow[c]
    PROVE  /\ NonExtendedBackoffDuration(c, n) \in Nat
           /\ NonExtendedBackoffDuration(c, 0) \in Nat
           /\ NonExtendedBackoffDuration(c, 0) = InterframeSpace(c) - RxTxTurnaroundTime
           /\ NonExtendedBackoffDuration(c, n)
                = NonExtendedBackoffDuration(c, 0) + SlotTime * n
           /\ NonExtendedBackoffDuration(c, 0) <= NonExtendedBackoffDuration(c, n)
           /\ NonExtendedBackoffDuration(c, n) + ExtendedDelay < INFINITE
           /\ NonExtendedBackoffDuration(c, n) # INFINITE
<1> DEFINE m == MaxWindow[c]
           a == SlotTime * n
           b == SlotTime * m
           f == InterframeSpace(c)
<1>1. m \in Nat /\ n <= m /\ SlotTime \in Nat /\ f \in Nat /\ RxTxTurnaroundTime \in Nat
      /\ ExtendedDelay \in Nat /\ INFINITE \in Nat /\ 0 \in Nat
  BY Windows, Timings, InterframeSpaces
<1>2. NonExtendedBackoffDuration(c, n) = f + a - RxTxTurnaroundTime
      /\ NonExtendedBackoffDuration(c, n) \in Nat /\ a \in Nat
  BY BackoffDurations
<1>3. NonExtendedBackoffDuration(c, m) = f + b - RxTxTurnaroundTime
      /\ NonExtendedBackoffDuration(c, m) \in Nat /\ b \in Nat
  BY <1>1, BackoffDurations
<1>4. NonExtendedBackoffDuration(c, 0) = f + SlotTime * 0 - RxTxTurnaroundTime
      /\ NonExtendedBackoffDuration(c, 0) \in Nat
  BY <1>1, BackoffDurations
<1>5. SlotTime * 0 = 0  BY <1>1
<1>6. a <= b
  <2>1. m - n \in Nat  BY <1>1
  <2> DEFINE k == m - n
  <2>2. b = a + SlotTime * k  BY <1>1
  <2> HIDE DEF k, a, b
  <2>3. SlotTime * k \in Nat  BY <1>1, <2>1 DEF k
  <2> QED  BY <1>2, <1>3, <2>2, <2>3
<1>7. NonExtendedBackoffDuration(c, m) + ExtendedDelay < INFINITE  BY TimesAreFinite
<1> HIDE DEF a, b, f, m
<1>8. NonExtendedBackoffDuration(c, n) = NonExtendedBackoffDuration(c, 0) + a
  BY <1>1, <1>2, <1>4, <1>5
<1>9. NonExtendedBackoffDuration(c, n) <= NonExtendedBackoffDuration(c, m)
  BY <1>1, <1>2, <1>3, <1>6
<1>10. NonExtendedBackoffDuration(c, 0) = f - RxTxTurnaroundTime  BY <1>1, <1>4, <1>5
<1> QED  BY <1>1, <1>2, <1>3, <1>4, <1>7, <1>8, <1>9, <1>10 DEF a, f

\* Everything but the categories.
SameRest(s, t) ==
    /\ t.macState = s.macState /\ t.timer = s.timer /\ t.stale = s.stale /\ t.nav = s.nav
    /\ t.permission = s.permission /\ t.idleFor = s.idleFor /\ t.corrupt = s.corrupt
    /\ t.last = s.last /\ t.lastSent = s.lastSent
    /\ t.phyState = s.phyState /\ t.sensing = s.sensing /\ t.receiving = s.receiving
    /\ t.others = s.others /\ t.outgoing = s.outgoing /\ t.txLeft = s.txLeft
    /\ t.sent = s.sent /\ t.quiet = s.quiet /\ t.gap = s.gap /\ t.failed = s.failed

LEMMA SameRestTransitive ==
    ASSUME NEW s, NEW t, NEW u, SameRest(s, t), SameRest(t, u)
    PROVE  SameRest(s, u)
  BY DEF SameRest

\* A change of a category leaves the rest and the other categories alone.
LEMMA WithRest ==
    ASSUME NEW s \in StationTypes, NEW c \in Categories, NEW i \in AccessCategoryInfos
    PROVE  /\ With(s, c, i) \in StationTypes /\ SameRest(s, With(s, c, i))
           /\ With(s, c, i).ac[c] = i /\ Elsewhere(s, With(s, c, i), c)
<1>1. With(s, c, i) \in StationTypes /\ With(s, c, i).ac[c] = i  BY WithTyped
<1>2. Elsewhere(s, With(s, c, i), c)  BY WithElsewhere
<1>3. SameRest(s, With(s, c, i))  BY DEF With, SameRest, StationTypes
<1> QED  BY <1>1, <1>2, <1>3

\* The backoff that a category has drawn.
LEMMA DrawnOK ==
    ASSUME NEW i \in AccessCategoryInfos, NEW c \in Categories, NEW n \in Nat,
           n <= MaxWindow[c], i.window <= MaxWindow[c], ~i.jumping,
           i.packet # NONE => i.hasPacketToSend, NEW counts
    PROVE  /\ CategoryOK(WaitingSlots(i, c, n), c, counts, FALSE)
           /\ WaitingSlots(i, c, n) \in AccessCategoryInfos
           /\ WaitingSlots(i, c, n).duration = NonExtendedBackoffDuration(c, n)
           /\ ~WaitingSlots(i, c, n).jumping
<1>1. NonExtendedBackoffDuration(c, n) \in Nat /\ NonExtendedBackoffDuration(c, n) # INFINITE
  BY SmallDurations
<1> DEFINE j == WaitingSlots(i, c, n)
<1>2. j \in AccessCategoryInfos  BY WaitingSlotsTyped
<1>3. /\ j.slots = n /\ j.duration = NonExtendedBackoffDuration(c, n)
      /\ j.jumping = i.jumping /\ j.window = i.window /\ j.packet = i.packet
      /\ j.hasPacketToSend = i.hasPacketToSend
  BY DEF WaitingSlots, AccessCategoryInfos
<1> HIDE DEF j
<1>4. CategoryOK(j, c, counts, FALSE)  BY <1>1, <1>3 DEF CategoryOK
<1> QED  BY <1>2, <1>3, <1>4 DEF j

\* The times of the start are of no concern to it.
LEMMA NoStartTimesOK ==
    ASSUME NEW s \in StationTypes, NEW counts, NEW exchanging
    PROVE  \A c \in Categories :
               /\ CategoryOK(s.ac[c], c, counts, c \in exchanging) =>
                      CategoryOK(NoStartTimes(s)[c], c, counts, c \in exchanging)
               /\ NoStartTimes(s)[c].duration = s.ac[c].duration
               /\ NoStartTimes(s)[c].elapsed = 0
               /\ NoStartTimes(s)[c].packet = s.ac[c].packet
               /\ NoStartTimes(s)[c].jumping = s.ac[c].jumping
<1> TAKE c \in Categories
<1> DEFINE i == s.ac[c]
           j == [i EXCEPT !.elapsed = 0]
<1>1. i \in AccessCategoryInfos  BY InfoTyped
<1>2. NoStartTimes(s)[c] = j  BY NoStartTimesTyped
<1> HIDE DEF i
<1>3. /\ j.slots = i.slots /\ j.duration = i.duration /\ j.elapsed = 0
      /\ j.jumping = i.jumping /\ j.window = i.window /\ j.packet = i.packet
      /\ j.hasPacketToSend = i.hasPacketToSend /\ j.queued = i.queued
  BY <1>1 DEF AccessCategoryInfos
<1> HIDE DEF j
<1> QED  BY <1>2, <1>3 DEF CategoryOK, i

\* Who counts does not matter to a category that does not try without a backoff.
LEMMA CountsOrNot ==
    ASSUME NEW i, NEW c, NEW counts, NEW counting, NEW x \in BOOLEAN,
           CategoryOK(i, c, counts, x), ~i.jumping \/ (counts => counting)
    PROVE  CategoryOK(i, c, counting, x)
  BY DEF CategoryOK

\* One category after another.
LEMMA InOrderWith ==
    ASSUME NEW s, NEW t, NEW c \in Categories, NEW counts, NEW exchanging,
           Elsewhere(s, t, c), CategoryOK(t.ac[c], c, counts, c \in exchanging),
           \A k \in Categories : k # c => CategoryOK(s.ac[k], k, counts, k \in exchanging)
    PROVE  InOrder(t, counts, exchanging)
  BY DEF InOrder, Elsewhere

-----------------------------------------------------------------------------
(* Backoffs that are drawn. *)

\* A category that has nothing to say about its packet yet.
PacketKnown(i) == i.packet # NONE => i.hasPacketToSend

\* A category that is told to back off draws a backoff, whatever it was at.
LEMMA ForcedBackoff ==
    ASSUME NEW s \in StationTypes, NEW c \in Categories, NEW d \in DrawTypes,
           s.macState \notin {"Idle", "WaitingForIfsAndBackoff", "Transient"},
           s.ac[c].duration = INFINITE, s.ac[c].window <= MaxWindow[c],
           PacketKnown(s.ac[c]), NEW counts
    PROVE  LET t == StartPacketSendProcess(s, c, TRUE, d)
           IN  /\ t \in StationTypes /\ SameRest(s, t) /\ Elsewhere(s, t, c)
               /\ CategoryOK(t.ac[c], c, counts, FALSE) /\ ~t.ac[c].jumping
               /\ t.ac[c].duration # INFINITE
<1> DEFINE t == StartPacketSendProcess(s, c, TRUE, d)
           i == Asked(s, c)
<1>1. PICK n \in 0 .. s.ac[c].window :
          t = IF ~TRUE /\ ~HasPacket(s, c) THEN NoBackoff(s, c)
              ELSE Expect(IF s.macState \notin {"Idle", "WaitingForIfsAndBackoff"}
                          THEN With(s, c, WaitingSlots(i, c, n))
                          ELSE StartBackoffForCategory(
                                   IF DisabledToJump
                                   THEN With(s, c, WaitingSlots(i, c, n))
                                   ELSE Expect(With(s, c, Jumping(s, c)), ~TRUE), c),
                          StartCondition(s, c))
  BY StartPacketSendProcessCases
<1> HIDE DEF t, i
<1>2. s.ac[c] \in AccessCategoryInfos /\ s.ac[c].window \in Nat
  BY InfoTyped DEF AccessCategoryInfos
<1>3. n \in Nat /\ n <= MaxWindow[c]  BY <1>2, Windows
<1>4. i \in AccessCategoryInfos  BY AskedTyped DEF i
<1>5. i.window = s.ac[c].window /\ ~i.jumping /\ i.packet = s.ac[c].packet
      /\ i.hasPacketToSend = HasPacket(s, c)
  BY <1>2 DEF i, Asked, AccessCategoryInfos
<1>6. i.packet # NONE => i.hasPacketToSend  BY <1>5 DEF HasPacket, PacketKnown
<1> DEFINE j == WaitingSlots(i, c, n)
<1>7. CategoryOK(j, c, counts, FALSE) /\ j \in AccessCategoryInfos /\ ~j.jumping
      /\ j.duration # INFINITE
  BY <1>3, <1>4, <1>5, <1>6, DrawnOK, SmallDurations
<1> HIDE DEF j
<1>8. t = Expect(With(s, c, j), StartCondition(s, c))  BY <1>1 DEF j
<1>9. StartCondition(s, c)  BY DEF StartCondition
<1>10. With(s, c, j) \in StationTypes /\ SameRest(s, With(s, c, j))
       /\ With(s, c, j).ac[c] = j /\ Elsewhere(s, With(s, c, j), c)
  BY <1>7, WithRest
<1>11. t = With(s, c, j)
  <2> DEFINE w == With(s, c, j)
  <2> HIDE DEF w
  <2>1. t = Expect(w, StartCondition(s, c))  BY <1>8 DEF w
  <2> QED  BY <1>9, <2>1 DEF Expect, w
<1> QED  BY <1>7, <1>10, <1>11 DEF t

\* A category without a packet has nothing to do.
LEMMA NothingToStart ==
    ASSUME NEW s \in StationTypes, NEW c \in Categories, NEW counts, NEW d \in DrawTypes,
           CategoryOK(s.ac[c], c, counts, FALSE), s.ac[c].duration = INFINITE
    PROVE  LET t == StartPacketSendProcess(s, c, FALSE, d)
           IN  /\ t \in StationTypes /\ SameRest(s, t) /\ Elsewhere(s, t, c)
               /\ CategoryOK(t.ac[c], c, counts, FALSE)
               /\ t.ac[c].duration = INFINITE /\ t.ac[c].packet = NONE
<1> DEFINE t == StartPacketSendProcess(s, c, FALSE, d)
           i == [Asked(s, c) EXCEPT !.duration = INFINITE]
<1>1. s.ac[c] \in AccessCategoryInfos  BY InfoTyped
<1>2. s.ac[c].queued = 0 /\ s.ac[c].packet = NONE /\ ~s.ac[c].hasPacketToSend
  BY DEF CategoryOK
<1>3. ~HasPacket(s, c)  BY <1>2 DEF HasPacket
<1>4. t = NoBackoff(s, c)
  <2>1. PICK n \in 0 .. s.ac[c].window :
            t = IF ~FALSE /\ ~HasPacket(s, c) THEN NoBackoff(s, c)
                ELSE Expect(IF s.macState \notin {"Idle", "WaitingForIfsAndBackoff"}
                            THEN With(s, c, WaitingSlots(Asked(s, c), c, n))
                            ELSE StartBackoffForCategory(
                                     IF DisabledToJump
                                     THEN With(s, c, WaitingSlots(Asked(s, c), c, n))
                                     ELSE Expect(With(s, c, Jumping(s, c)), ~FALSE), c),
                            StartCondition(s, c))
    BY StartPacketSendProcessCases
  <2> QED  BY <1>3, <2>1
<1>5. i \in AccessCategoryInfos  BY NoBackoffTyped
<1>6. /\ i.slots = s.ac[c].slots /\ i.window = s.ac[c].window /\ ~i.jumping
      /\ i.duration = INFINITE /\ i.queued = s.ac[c].queued /\ i.packet = s.ac[c].packet
      /\ i.hasPacketToSend = HasPacket(s, c)
  BY <1>1 DEF Asked, AccessCategoryInfos
<1> HIDE DEF i, t
<1>7. CategoryOK(i, c, counts, FALSE)  BY <1>2, <1>3, <1>6 DEF CategoryOK
<1>8. t = With(s, c, i)  BY <1>4 DEF NoBackoff, i
<1>9. With(s, c, i) \in StationTypes /\ SameRest(s, With(s, c, i))
      /\ With(s, c, i).ac[c] = i /\ Elsewhere(s, With(s, c, i), c)
  BY <1>5, WithRest
<1>10. t \in StationTypes /\ SameRest(s, t) /\ Elsewhere(s, t, c)
       /\ CategoryOK(t.ac[c], c, counts, FALSE) /\ t.ac[c].duration = INFINITE
       /\ t.ac[c].packet = NONE
  BY <1>2, <1>6, <1>7, <1>8, <1>9
<1> QED  BY <1>10 DEF t

\* The timer of the wait depends on the categories, and on the last frame received.
LEMMA SameExpiration ==
    ASSUME NEW s, NEW t, t.ac = s.ac, t.corrupt = s.corrupt
    PROVE  CurrentBackoffExpiration(t) = CurrentBackoffExpiration(s)
  BY DEF CurrentBackoffExpiration

\* While no backoff is counted and the channel is not free, a category may be dealt
\* with alone.
LEMMA OneCategoryAside ==
    ASSUME NEW s, NEW t \in StationTypes, Coherent(s), SameRest(s, t),
           s.macState \notin {"Idle", "WaitingForIfsAndBackoff"},
           t.ac[t.last].packet = s.ac[s.last].packet
    PROVE  Coherent(t) /\ ExchangeOf(t) = ExchangeOf(s) /\ Counts(t) = Counts(s)
<1>1. Basics(t) /\ PhyOK(t) /\ QuietOK(t) /\ CountingOK(t)
  BY DEF Coherent, Basics, PhyOK, QuietOK, CountingOK, Counts, SameRest, IsTransmittingAFrame
<1>2. GapOK(t)  BY DEF Coherent, GapOK, Extension, SameRest
<1>3. MacOK(t)
  BY DEF Coherent, MacOK, HearsNothing, SameRest, IsWaiting
<1> QED  BY <1>1, <1>2, <1>3 DEF Coherent, ExchangeOf, IsWaiting, Counts, SameRest

\* The PHY hears what it heard.
SamePhy(s, t) == t.phyState = s.phyState /\ t.sensing = s.sensing /\ t.others = s.others

\* A category joins the wait of others, or waits first.
LEMMA JoinsTheWait ==
    ASSUME NEW s, Coherent(s), s.macState \in {"Idle", "WaitingForIfsAndBackoff"},
           NEW c \in Categories, NEW i \in AccessCategoryInfos,
           s.ac[c].duration = INFINITE, i.duration + ExtendedDelay < INFINITE,
           s.quiet >= Cap \/ s.quiet + i.duration >= NonExtendedBackoffDuration(c, 0)
    PROVE  LET t == StartBackoffForCategory(With(s, c, i), c)
           IN  /\ Coherent(t) /\ Counts(t) /\ Elsewhere(s, t, c)
               /\ t.ac[c] = [i EXCEPT !.elapsed = 0]
               /\ ExchangeOf(t) = ExchangeOf(s) /\ t.last = s.last /\ SamePhy(s, t)
<1> DEFINE j == [i EXCEPT !.elapsed = 0]
           u == With(s, c, i)
           x == With(s, c, j)
           time == CurrentBackoffExpiration(x)
           t == Counting(x, time)
<1>1. s \in StationTypes /\ s.permission = INFINITE /\ s.timer \in Nat /\ s.stale = INFINITE
  BY DEF Coherent, Basics
<1>2. j \in AccessCategoryInfos /\ j.duration = i.duration /\ j.elapsed = 0
      /\ j.duration \in Nat /\ i.duration # INFINITE
  <2>1. ExtendedDelay \in Nat /\ INFINITE \in Nat  BY Timings
  <2> QED  BY <2>1 DEF AccessCategoryInfos
<1>3. [u EXCEPT !.ac[c].elapsed = 0] = x
  <2>1. u \in StationTypes /\ u.ac[c] = i  BY <1>1, WithTyped
  <2>2. With(u, c, j) = x  BY <1>1, WithTwice
  <2> HIDE DEF u, x
  <2>3. [u EXCEPT !.ac[c].elapsed = 0] = With(u, c, j)
    BY <2>1 DEF With, StationTypes
  <2> QED  BY <2>2, <2>3
<1> HIDE DEF j
<1>4. x \in StationTypes /\ SameRest(s, x) /\ x.ac[c] = j /\ Elsewhere(s, x, c)
  BY <1>1, <1>2, WithRest
<1> HIDE DEF x
<1>6. time \in Nat /\ time < INFINITE
  <2>1. PICK e \in Categories :
            x.ac[e].duration # INFINITE
            /\ time = x.ac[e].duration - x.ac[e].elapsed + Extension(x)
    BY <1>2, <1>4, ExpirationTyped
  <2>2. Extension(x) \in Nat /\ Extension(x) = Extension(s)
    BY <1>4, Timings DEF Extension, SameRest
  <2>3. CASE e = c
    <3>1. Extension(x) <= ExtendedDelay /\ ExtendedDelay \in Nat /\ INFINITE \in Nat
      BY Timings DEF Extension
    <3>2. time = i.duration - 0 + Extension(x)  BY <1>2, <1>4, <2>1, <2>3
    <3> HIDE DEF time
    <3> QED  BY <1>2, <2>2, <3>1, <3>2
  <2>4. CASE e # c
    <3>1. x.ac[e] = s.ac[e]  BY <1>4, <2>4 DEF Elsewhere
    <3>2. Counts(s)  BY <2>1, <3>1 DEF Coherent, MacOK, Counts
    <3>3. s.timer = CurrentBackoffExpiration(s) /\ s.timer < INFINITE
      BY <3>2 DEF Coherent, CountingOK
    <3>4. CurrentBackoffExpiration(s) <= s.ac[e].duration - s.ac[e].elapsed + Extension(s)
      BY <1>1, <2>1, <3>1, ExpirationTyped
    <3>5. PICK k \in Categories :
              s.ac[k].duration # INFINITE
              /\ CurrentBackoffExpiration(s) = s.ac[k].duration - s.ac[k].elapsed + Extension(s)
      BY <1>1, <2>1, <3>1, ExpirationTyped
    <3>6. x.ac[k] = s.ac[k]  BY <1>4, <3>5 DEF Elsewhere
    <3>7. time <= s.ac[k].duration - s.ac[k].elapsed + Extension(s)
      BY <1>4, <2>2, <3>5, <3>6, ExpirationTyped
    <3>8. time \in Int /\ INFINITE \in Int  BY <1>4, ExpirationTyped, Timings
    <3> HIDE DEF time
    <3> QED  BY <1>1, <2>1, <2>2, <3>1, <3>3, <3>4, <3>5, <3>7, <3>8
  <2> QED  BY <2>3, <2>4
<1>5. StartBackoffForCategory(u, c) = t
  <2>1. u.permission = INFINITE /\ u.stale = INFINITE  BY <1>1 DEF With, StationTypes
  <2> HIDE DEF u
  <2>2. INFINITE # 0 /\ time # u.stale  BY <1>6, <2>1, Timings
  <2> QED  BY <1>3, <2>1, <2>2 DEF StartBackoffForCategory, Counting
<1> HIDE DEF time, u
<1>7. /\ t \in StationTypes /\ t.macState = "WaitingForIfsAndBackoff" /\ t.timer = time
      /\ t.ac = x.ac /\ t.stale = INFINITE
  <2>1. time \in Int /\ x.permission # 0
    BY <1>1, <1>4, <1>6, Timings DEF SameRest
  <2>2. t \in StationTypes /\ t.macState = "WaitingForIfsAndBackoff"
    BY <1>4, <2>1, CountingTyped, SameAccessSelf
  <2>3. t.timer = time /\ t.ac = x.ac /\ t.stale = INFINITE  BY <1>4 DEF Counting, StationTypes
  <2> QED  BY <2>2, <2>3
<1>8. /\ t.nav = s.nav /\ t.permission = s.permission /\ t.idleFor = s.idleFor
      /\ t.corrupt = s.corrupt /\ t.last = s.last /\ t.lastSent = s.lastSent
      /\ t.phyState = s.phyState /\ t.sensing = s.sensing /\ t.others = s.others
      /\ t.outgoing = s.outgoing /\ t.sent = s.sent /\ t.quiet = s.quiet
      /\ t.gap = s.gap /\ t.failed = s.failed
  BY <1>4 DEF Counting, StationTypes, SameRest
<1> HIDE DEF t
<1>9. HearsNothing(s) /\ s.nav = 0 /\ s.sent = NONE /\ s.outgoing = NONE
  <2>1. HearsNothing(s) /\ s.nav = 0 /\ s.sent = NONE  BY DEF Coherent, MacOK
  <2> QED  BY <2>1 DEF Coherent, PhyOK, HearsNothing, IsTransmittingAFrame
<1>10. Basics(t) /\ PhyOK(t) /\ QuietOK(t)
  BY <1>6, <1>7, <1>8 DEF Coherent, Basics, PhyOK, QuietOK, IsTransmittingAFrame
<1>11. MacOK(t)  BY <1>7, <1>8, <1>9 DEF MacOK, HearsNothing, IsWaiting
<1>12. GapOK(t)  BY <1>8, <1>9 DEF GapOK, HearsNothing
<1>13. Elsewhere(s, t, c) /\ t.ac[c] = j  BY <1>4, <1>7 DEF Elsewhere
<1>14. CountingOK(t)
  <2>1. t.timer = CurrentBackoffExpiration(t) /\ t.timer < INFINITE
    <3>1. t.corrupt = x.corrupt  BY <1>4, <1>8 DEF SameRest
    <3> QED  BY <1>6, <1>7, <3>1, SameExpiration DEF time
  <2>2. t.ac[c].duration # INFINITE  BY <1>2, <1>13
  <2>3. ASSUME NEW k \in Categories, t.ac[k].duration # INFINITE
        PROVE  QuietEnough(t, k)
    <3>1. CASE k = c
      <4>1. NonExtendedBackoffDuration(c, 0) \in Nat  BY BackoffDurations
      <4>2. s.quiet >= Cap \/ s.quiet + j.duration >= j.elapsed + NonExtendedBackoffDuration(c, 0)
        BY <1>2, <4>1
      <4> QED  BY <1>8, <1>13, <3>1, <4>2 DEF QuietEnough
    <3>2. CASE k # c
      <4>1. t.ac[k] = s.ac[k]  BY <1>13, <3>2 DEF Elsewhere
      <4>2. Counts(s)  BY <2>3, <4>1 DEF Coherent, MacOK, Counts
      <4>3. QuietEnough(s, k)  BY <2>3, <4>1, <4>2 DEF Coherent, CountingOK
      <4> QED  BY <1>8, <4>1, <4>3 DEF QuietEnough
    <3> QED  BY <3>1, <3>2
  <2> QED  BY <2>1, <2>2, <2>3 DEF CountingOK
<1>15. ExchangeOf(t) = {} /\ ExchangeOf(s) = {}
  BY <1>7, <1>8, <1>9 DEF ExchangeOf, IsWaiting, NONE
<1>16. Coherent(t) /\ Counts(t)
  BY <1>7, <1>10, <1>11, <1>12, <1>14 DEF Coherent, Counts
<1>17. SamePhy(s, t)  BY <1>8 DEF SamePhy
<1> QED  BY <1>5, <1>8, <1>13, <1>15, <1>16, <1>17 DEF u, j

-----------------------------------------------------------------------------
(* A packet arrives. *)

\* A category that has got its first packet.
Fresh(i, c) ==
    /\ i.slots <= MaxWindow[c] /\ i.window <= MaxWindow[c] /\ ~i.jumping
    /\ i.duration = INFINITE /\ i.queued > 0 /\ i.packet = NONE /\ ~i.hasPacketToSend

\* The rest of the interframe space is all that an attempt without a backoff waits.
LEMMA JumpIsQuiet ==
    ASSUME NEW s \in StationTypes, NEW c \in Categories, s.quiet >= Cap \/ s.idleFor <= s.quiet
    PROVE  s.quiet >= Cap \/
           s.quiet + DurationForJumpingOnMedium(s, c) >= NonExtendedBackoffDuration(c, 0)
<1> DEFINE ifs == InterframeSpace(c) - RxTxTurnaroundTime
           jump == DurationForJumpingOnMedium(s, c)
<1>1. NonExtendedBackoffDuration(c, 0) = ifs
  <2>1. 0 \in Nat  BY Timings
  <2>2. NonExtendedBackoffDuration(c, 0) = InterframeSpace(c) + SlotTime * 0 - RxTxTurnaroundTime
    BY <2>1, BackoffDurations
  <2>3. InterframeSpace(c) \in Nat  BY InterframeSpaces
  <2> QED  BY <2>2, <2>3, Timings
<1>2. jump \in Nat  BY JumpDurations
<1>3. ifs \in Int  BY InterframeSpaces, Timings
<1>4. jump = IF ifs >= s.idleFor THEN ifs - s.idleFor
             ELSE SlotTime - ((s.idleFor - ifs) % SlotTime)
  BY DEF DurationForJumpingOnMedium
<1> HIDE DEF ifs, jump
<1>5. s.quiet \in Nat /\ s.idleFor \in Nat  BY DEF StationTypes
<1>6. CASE ifs >= s.idleFor
  <2>1. jump = ifs - s.idleFor  BY <1>4, <1>6
  <2> QED  BY <1>1, <1>3, <1>5, <2>1 DEF jump
<1>7. CASE ~(ifs >= s.idleFor)  BY <1>1, <1>2, <1>3, <1>5, <1>7 DEF jump
<1> QED  BY <1>6, <1>7

\* A category with its first packet starts, and the others stay as they are.
LEMMA FreshStart ==
    ASSUME NEW s, Coherent(s), NEW c \in Categories, NEW d \in DrawTypes, Fresh(s.ac[c], c)
    PROVE  LET t == StartPacketSendProcess(s, c, FALSE, d)
           IN  /\ Coherent(t) /\ Elsewhere(s, t, c) /\ SamePhy(s, t)
               /\ CategoryOK(t.ac[c], c, Counts(t), FALSE)
               /\ Counts(s) => Counts(t)
               /\ ExchangeOf(t) = ExchangeOf(s)
<1> DEFINE t == StartPacketSendProcess(s, c, FALSE, d)
           i == Asked(s, c)
           g == Jumping(s, c)
<1>1. s \in StationTypes /\ s.macState # "Transient"  BY DEF Coherent, Basics, MacOK
<1>2. HasPacket(s, c) /\ StartCondition(s, c)  BY <1>1 DEF Fresh, HasPacket, StartCondition
<1>3. PICK n \in 0 .. s.ac[c].window :
          t = IF ~FALSE /\ ~HasPacket(s, c) THEN NoBackoff(s, c)
              ELSE Expect(IF s.macState \notin {"Idle", "WaitingForIfsAndBackoff"}
                          THEN With(s, c, WaitingSlots(i, c, n))
                          ELSE StartBackoffForCategory(
                                   IF DisabledToJump
                                   THEN With(s, c, WaitingSlots(i, c, n))
                                   ELSE Expect(With(s, c, g), ~FALSE), c),
                          StartCondition(s, c))
  BY <1>1, StartPacketSendProcessCases
<1>4. s.ac[c] \in AccessCategoryInfos /\ s.ac[c].window \in Nat /\ s.ac[c].slots \in Nat
  BY <1>1, InfoTyped DEF AccessCategoryInfos
<1>5. n \in Nat /\ n <= MaxWindow[c]  BY <1>4, Windows DEF Fresh
<1>6. i \in AccessCategoryInfos /\ g \in AccessCategoryInfos  BY <1>1, AskedTyped
<1>7. /\ i.window = s.ac[c].window /\ ~i.jumping /\ i.packet = NONE /\ i.hasPacketToSend
      /\ g.window = s.ac[c].window /\ g.jumping /\ g.packet = NONE /\ g.hasPacketToSend
      /\ g.slots = 0 /\ g.duration = DurationForJumpingOnMedium(s, c)
  BY <1>2, <1>4 DEF Asked, Jumping, AccessCategoryInfos, Fresh
<1> HIDE DEF i, g
<1>13. i.window <= MaxWindow[c] /\ (i.packet # NONE => i.hasPacketToSend)
  BY <1>7 DEF Fresh
<1> DEFINE j == WaitingSlots(i, c, n)
<1>8. \A counts : CategoryOK(j, c, counts, FALSE)
  <2> TAKE counts
  <2> QED  BY <1>5, <1>6, <1>7, <1>13, DrawnOK
<1>9. j \in AccessCategoryInfos /\ j.duration = NonExtendedBackoffDuration(c, n)
      /\ j.packet = NONE /\ j.duration + ExtendedDelay < INFINITE
      /\ j.duration >= NonExtendedBackoffDuration(c, 0)
  <2>1. j \in AccessCategoryInfos /\ j.duration = NonExtendedBackoffDuration(c, n)
    BY <1>5, <1>6, <1>7, <1>13, DrawnOK
  <2>2. j.packet = NONE  BY <1>6, <1>7 DEF WaitingSlots, AccessCategoryInfos
  <2> HIDE DEF j
  <2> QED  BY <1>5, <2>1, <2>2, SmallDurations
<1> HIDE DEF t, j
<1>10. t = IF s.macState \notin {"Idle", "WaitingForIfsAndBackoff"} THEN With(s, c, j)
           ELSE StartBackoffForCategory(IF DisabledToJump THEN With(s, c, j)
                                        ELSE With(s, c, g), c)
  <2> DEFINE w == With(s, c, j)
             v == With(s, c, g)
             y == IF s.macState \notin {"Idle", "WaitingForIfsAndBackoff"} THEN w
                  ELSE StartBackoffForCategory(IF DisabledToJump THEN w
                                               ELSE Expect(v, ~FALSE), c)
  <2>1. t = Expect(y, StartCondition(s, c))  BY <1>2, <1>3 DEF j
  <2>2. Expect(v, ~FALSE) = v  BY DEF Expect
  <2> HIDE DEF w, v
  <2>3. y = IF s.macState \notin {"Idle", "WaitingForIfsAndBackoff"} THEN w
            ELSE StartBackoffForCategory(IF DisabledToJump THEN w ELSE v, c)
    BY <2>2
  <2> HIDE DEF y
  <2>4. t = y  BY <1>2, <2>1 DEF Expect
  <2> QED  BY <2>3, <2>4 DEF w, v
<1>11. CASE s.macState \notin {"Idle", "WaitingForIfsAndBackoff"}
  <2> DEFINE w == With(s, c, j)
  <2>1. w \in StationTypes /\ SameRest(s, w) /\ w.ac[c] = j /\ Elsewhere(s, w, c)
    BY <1>1, <1>9, WithRest
  <2> HIDE DEF w
  <2>2. w.ac[w.last].packet = s.ac[w.last].packet
    <3>1. w.last \in Categories  BY <2>1 DEF StationTypes
    <3>2. s.ac[c].packet = NONE  BY DEF Fresh
    <3> QED  BY <1>9, <2>1, <3>1, <3>2 DEF Elsewhere
  <2>3. w.last = s.last  BY <2>1 DEF SameRest
  <2>4. Coherent(w) /\ ExchangeOf(w) = ExchangeOf(s) /\ Counts(w) = Counts(s)
    BY <1>11, <2>1, <2>2, <2>3, OneCategoryAside
  <2>5. t = w  BY <1>10, <1>11 DEF w
  <2>6. SamePhy(s, w)  BY <2>1 DEF SameRest, SamePhy
  <2> QED  BY <1>8, <2>1, <2>4, <2>5, <2>6 DEF t
<1>12. CASE s.macState \in {"Idle", "WaitingForIfsAndBackoff"}
  <2> DEFINE k == IF DisabledToJump THEN j ELSE g
             u == StartBackoffForCategory(With(s, c, k), c)
  <2>1. k \in AccessCategoryInfos  BY <1>6, <1>9
  <2>2. g.duration \in Nat /\ g.duration # INFINITE /\ g.duration <= NonExtendedBackoffDuration(c, 0)
        /\ g.duration + ExtendedDelay < INFINITE
    <3>1. g.duration \in Nat /\ g.duration <= NonExtendedBackoffDuration(c, 0)
      BY <1>1, <1>7, JumpDurations
    <3>2. NonExtendedBackoffDuration(c, n) \in Nat /\ NonExtendedBackoffDuration(c, 0) \in Nat
          /\ NonExtendedBackoffDuration(c, 0) <= NonExtendedBackoffDuration(c, n)
          /\ NonExtendedBackoffDuration(c, n) + ExtendedDelay < INFINITE
      BY <1>5, SmallDurations
    <3> QED  BY <3>1, <3>2, Timings
  <2>3. k.duration + ExtendedDelay < INFINITE  BY <1>9, <2>2
  <2>4. s.quiet >= Cap \/ s.quiet + k.duration >= NonExtendedBackoffDuration(c, 0)
    <3>1. s.quiet >= Cap \/ s.idleFor <= s.quiet  BY <1>12 DEF Coherent, QuietOK
    <3>2. CASE DisabledToJump
      <4>1. s.quiet \in Nat /\ NonExtendedBackoffDuration(c, 0) \in Nat /\ j.duration \in Nat
        BY <1>1, <1>9, BackoffDurations DEF StationTypes, AccessCategoryInfos
      <4> QED  BY <1>9, <3>2, <4>1
    <3>3. CASE ~DisabledToJump
      <4>1. k.duration = DurationForJumpingOnMedium(s, c)  BY <1>7, <3>3
      <4> HIDE DEF k
      <4> QED  BY <1>1, <3>1, <4>1, JumpIsQuiet
    <3> QED  BY <3>2, <3>3
  <2>5. k.packet = NONE  BY <1>7, <1>9
  <2>6. k.elapsed \in Nat /\ [k EXCEPT !.elapsed = 0] \in AccessCategoryInfos
    BY <2>1 DEF AccessCategoryInfos
  <2>7. CategoryOK(k, c, TRUE, FALSE)
    <3>1. CategoryOK(g, c, TRUE, FALSE)
      BY <1>7, <2>2, Windows DEF CategoryOK, Fresh
    <3> QED  BY <1>8, <3>1
  <2>8. t = u  BY <1>10, <1>12
  <2> HIDE DEF k
  <2>9. s.ac[c].duration = INFINITE  BY DEF Fresh
  <2>10. /\ Coherent(u) /\ Counts(u) /\ Elsewhere(s, u, c)
         /\ u.ac[c] = [k EXCEPT !.elapsed = 0]
         /\ ExchangeOf(u) = ExchangeOf(s) /\ u.last = s.last /\ SamePhy(s, u)
    BY <1>12, <2>1, <2>3, <2>4, <2>9, JoinsTheWait
  <2>11. CategoryOK([k EXCEPT !.elapsed = 0], c, TRUE, FALSE)
    BY <2>1, <2>7 DEF CategoryOK, AccessCategoryInfos
  <2> HIDE DEF u
  <2> QED  BY <2>8, <2>10, <2>11 DEF t, Counts
<1> QED  BY <1>11, <1>12

\* What is queued is of no concern to the wait.
LEMMA SameBackoffs ==
    ASSUME NEW s, NEW u \in StationTypes, Coherent(s), SameRest(s, u),
           \A k \in Categories :
               /\ u.ac[k].packet = s.ac[k].packet
               /\ u.ac[k].duration = s.ac[k].duration
               /\ s.ac[k].duration # INFINITE => u.ac[k].elapsed = s.ac[k].elapsed
    PROVE  Coherent(u) /\ ExchangeOf(u) = ExchangeOf(s) /\ Counts(u) = Counts(s)
<1>1. s \in StationTypes  BY DEF Coherent, Basics
<1>2. ExchangeOf(u) = ExchangeOf(s) /\ Counts(u) = Counts(s)
  BY DEF ExchangeOf, IsWaiting, Counts, SameRest
<1>3. Basics(u) /\ PhyOK(u) /\ GapOK(u) /\ QuietOK(u)
  <2>1. Basics(u) /\ PhyOK(u) /\ QuietOK(u)
    BY DEF Coherent, Basics, PhyOK, QuietOK, SameRest, IsTransmittingAFrame
  <2>2. GapOK(u)  BY DEF Coherent, GapOK, Extension, SameRest
  <2> QED  BY <2>1, <2>2
<1>4. MacOK(u)
  <2>1. s.last \in Categories  BY <1>1 DEF StationTypes
  <2>2. MacOK(s) /\ \A k \in Categories : u.ac[k].duration = s.ac[k].duration
    BY DEF Coherent
  <2>3. u.ac[u.last].packet = s.ac[s.last].packet  BY <2>1 DEF SameRest
  <2> QED  BY <2>2, <2>3 DEF MacOK, HearsNothing, SameRest, IsWaiting
<1>5. CountingOK(u)
  <2>1. CASE ~Counts(s)  BY <1>2, <2>1 DEF CountingOK
  <2>2. CASE Counts(s)
    <3>1. CountingOK(s)  BY DEF Coherent
    <3>2. CurrentBackoffExpiration(u) = CurrentBackoffExpiration(s)
      <4> DEFINE K == {k \in Categories : s.ac[k].duration # INFINITE}
                 L == {k \in Categories : u.ac[k].duration # INFINITE}
      <4>1. K = L  OBVIOUS
      <4>2. \A k \in K : u.ac[k].duration = s.ac[k].duration
                      /\ u.ac[k].elapsed = s.ac[k].elapsed
        OBVIOUS
      <4> DEFINE F == {s.ac[k].duration - s.ac[k].elapsed : k \in K}
                 G == {u.ac[k].duration - u.ac[k].elapsed : k \in L}
      <4>3. CurrentBackoffExpiration(s) =
                IF F = {} THEN INFINITE
                ELSE (CHOOSE a \in F : \A b \in F : a <= b)
                     + (IF s.corrupt THEN ExtendedDelay ELSE 0)
        BY DEF CurrentBackoffExpiration
      <4>4. CurrentBackoffExpiration(u) =
                IF G = {} THEN INFINITE
                ELSE (CHOOSE a \in G : \A b \in G : a <= b)
                     + (IF u.corrupt THEN ExtendedDelay ELSE 0)
        BY DEF CurrentBackoffExpiration
      <4> HIDE DEF K, L
      <4>5. F = G  BY <4>1, <4>2
      <4> HIDE DEF F, G
      <4>6. u.corrupt = s.corrupt  BY DEF SameRest
      <4> QED  BY <4>3, <4>4, <4>5, <4>6
    <3>3. \A k \in Categories : u.ac[k].duration # INFINITE => QuietEnough(u, k)
      <4> TAKE k \in Categories
      <4>1. HAVE u.ac[k].duration # INFINITE
      <4>2. u.ac[k].duration = s.ac[k].duration /\ u.ac[k].elapsed = s.ac[k].elapsed  BY <4>1
      <4>3. QuietEnough(s, k)  BY <2>2, <3>1, <4>1, <4>2 DEF CountingOK
      <4>4. u.quiet = s.quiet  BY DEF SameRest
      <4> QED  BY <4>2, <4>3, <4>4 DEF QuietEnough
    <3>4. \E k \in Categories : u.ac[k].duration # INFINITE
      BY <2>2, <3>1 DEF CountingOK
    <3>5. u.timer = CurrentBackoffExpiration(u) /\ u.timer < INFINITE
      BY <2>2, <3>1, <3>2 DEF CountingOK, SameRest
    <3> QED  BY <3>3, <3>4, <3>5 DEF CountingOK
  <2> QED  BY <2>1, <2>2
<1> QED  BY <1>2, <1>3, <1>4, <1>5 DEF Coherent

\* Every category but the one with the new packet is as it was: one round settles it.
LEMMA StartRoundOK ==
    ASSUME NEW s, Coherent(s), NEW c \in Categories, NEW d \in DrawTypes,
           \/ CategoryOK(s.ac[c], c, Counts(s), c \in ExchangeOf(s))
           \/ Fresh(s.ac[c], c) /\ c \notin ExchangeOf(s)
    PROVE  LET t == StartRound(s, c, d)
           IN  /\ Coherent(t) /\ Elsewhere(s, t, c) /\ SamePhy(s, t)
               /\ CategoryOK(t.ac[c], c, Counts(t), c \in ExchangeOf(t))
               /\ Counts(s) => Counts(t)
               /\ ExchangeOf(t) = ExchangeOf(s)
<1> DEFINE u == StartPacketSendProcess(s, c, FALSE, d)
           t == StartRound(s, c, d)
<1>1. s \in StationTypes  BY DEF Coherent, Basics
<1>2. t = IF AccessCategoryIsActive(s, c) THEN s ELSE u  BY DEF StartRound
<1> HIDE DEF t, u
<1>3. CASE Fresh(s.ac[c], c) /\ c \notin ExchangeOf(s)
  <2>1. ~AccessCategoryIsActive(s, c)  BY <1>3 DEF Fresh, AccessCategoryIsActive
  <2>2. /\ Coherent(u) /\ Elsewhere(s, u, c) /\ SamePhy(s, u)
        /\ CategoryOK(u.ac[c], c, Counts(u), FALSE)
        /\ Counts(s) => Counts(u)
        /\ ExchangeOf(u) = ExchangeOf(s)
    BY <1>3, FreshStart DEF u
  <2>3. (c \in ExchangeOf(u)) = FALSE  BY <1>3, <2>2
  <2> QED  BY <1>2, <2>1, <2>2, <2>3 DEF t
<1>4. CASE CategoryOK(s.ac[c], c, Counts(s), c \in ExchangeOf(s)) /\ AccessCategoryIsActive(s, c)
  BY <1>2, <1>4, ElsewhereSame DEF t, SamePhy
<1>5. CASE CategoryOK(s.ac[c], c, Counts(s), c \in ExchangeOf(s)) /\ ~AccessCategoryIsActive(s, c)
  <2>1. s.ac[c].duration = INFINITE /\ ~s.ac[c].hasPacketToSend
    BY <1>5 DEF AccessCategoryIsActive
  <2>2. c \notin ExchangeOf(s)  BY <1>5, <2>1 DEF CategoryOK
  <2>3. CategoryOK(s.ac[c], c, Counts(s), FALSE)
    <3>1. (c \in ExchangeOf(s)) = FALSE  BY <2>2
    <3> QED  BY <1>5, <3>1
  <2>4. s.ac[c].packet = NONE  BY <2>1, <2>3 DEF CategoryOK
  <2>5. u \in StationTypes /\ SameRest(s, u) /\ Elsewhere(s, u, c)
        /\ CategoryOK(u.ac[c], c, Counts(s), FALSE)
        /\ u.ac[c].duration = INFINITE /\ u.ac[c].packet = NONE
    BY <1>1, <2>1, <2>3, NothingToStart DEF u
  <2>6. /\ u.macState = s.macState /\ u.timer = s.timer /\ u.corrupt = s.corrupt
        /\ u.last = s.last /\ u.outgoing = s.outgoing /\ SamePhy(s, u)
    BY <2>5 DEF SameRest, SamePhy
  <2>7. \A k \in Categories :
            /\ u.ac[k].packet = s.ac[k].packet
            /\ u.ac[k].duration = s.ac[k].duration
            /\ s.ac[k].duration # INFINITE => u.ac[k] = s.ac[k]
    BY <2>1, <2>4, <2>5 DEF Elsewhere
  <2>8. Coherent(u) /\ ExchangeOf(u) = ExchangeOf(s) /\ Counts(u) = Counts(s)
    BY <2>5, <2>7, SameBackoffs
  <2>12. t = u  BY <1>2, <1>5
  <2>13. CategoryOK(u.ac[c], c, Counts(u), c \in ExchangeOf(u))
    <3>1. (c \in ExchangeOf(u)) = FALSE  BY <2>2, <2>8
    <3> QED  BY <2>5, <2>8, <3>1
  <2> QED  BY <2>5, <2>6, <2>8, <2>12, <2>13 DEF t
<1> QED  BY <1>3, <1>4, <1>5

\* Where a packet has arrived, every category is as it was or has got its first.
QueueOK(s) ==
    \A k \in Categories :
        \/ CategoryOK(s.ac[k], k, Counts(s), k \in ExchangeOf(s))
        \/ Fresh(s.ac[k], k) /\ k \notin ExchangeOf(s)

\* A packet that arrives is sent on its way, or waits for the packet before it.
LEMMA ArriveKeeps ==
    ASSUME NEW s, Consistent(s), NEW c \in Categories, NEW d \in DrawTypes
    PROVE  LET t == NetworkLayerQueueChangeNotification([s EXCEPT !.ac[c].queued = @ + 1], d)
           IN  Consistent(t) /\ SamePhy(s, t)
<1> DEFINE x == [s EXCEPT !.ac[c].queued = @ + 1]
           i == [s.ac[c] EXCEPT !.queued = @ + 1]
           t == NetworkLayerQueueChangeNotification(x, d)
           last == NumberAccessCategories
           Good == {p \in Int \X StationTypes :
                        /\ Coherent(p[2]) /\ QueueOK(p[2]) /\ SamePhy(s, p[2])
                        /\ \A k \in Categories : k >= last - p[1] =>
                               CategoryOK(p[2].ac[k], k, Counts(p[2]), k \in ExchangeOf(p[2]))}
<1>1. s \in StationTypes /\ Coherent(s) /\ InOrder(s, Counts(s), ExchangeOf(s))
  BY DEF Consistent, Coherent, Basics
<1>2. s.ac[c] \in AccessCategoryInfos  BY <1>1, InfoTyped
<1>3. /\ i \in AccessCategoryInfos /\ i.packet = s.ac[c].packet
      /\ i.duration = s.ac[c].duration /\ i.elapsed = s.ac[c].elapsed
      /\ i.slots = s.ac[c].slots /\ i.window = s.ac[c].window /\ i.jumping = s.ac[c].jumping
      /\ i.hasPacketToSend = s.ac[c].hasPacketToSend /\ i.queued > 0
  BY <1>2 DEF AccessCategoryInfos
<1>4. x = With(s, c, i)  BY <1>1 DEF With, StationTypes
<1> HIDE DEF i, x
<1>5. x \in StationTypes /\ SameRest(s, x) /\ x.ac[c] = i /\ Elsewhere(s, x, c)
  BY <1>1, <1>3, <1>4, WithRest
<1>6. Coherent(x) /\ ExchangeOf(x) = ExchangeOf(s) /\ Counts(x) = Counts(s)
  <2>1. \A k \in Categories :
            /\ x.ac[k].packet = s.ac[k].packet
            /\ x.ac[k].duration = s.ac[k].duration
            /\ s.ac[k].duration # INFINITE => x.ac[k].elapsed = s.ac[k].elapsed
    BY <1>3, <1>5 DEF Elsewhere
  <2> QED  BY <1>1, <1>5, <2>1, SameBackoffs
<1>7. QueueOK(x)
  <2> SUFFICES ASSUME NEW k \in Categories
               PROVE  \/ CategoryOK(x.ac[k], k, Counts(s), k \in ExchangeOf(s))
                      \/ Fresh(x.ac[k], k) /\ k \notin ExchangeOf(s)
    BY <1>6 DEF QueueOK
  <2>1. CategoryOK(s.ac[k], k, Counts(s), k \in ExchangeOf(s))  BY <1>1 DEF InOrder
  <2>2. CASE k # c  BY <1>5, <2>1, <2>2 DEF Elsewhere
  <2>3. CASE k = c /\ (k \in ExchangeOf(s) \/ s.ac[c].duration # INFINITE)
    BY <1>3, <1>5, <2>1, <2>3 DEF CategoryOK
  <2>4. CASE k = c /\ ~(k \in ExchangeOf(s) \/ s.ac[c].duration # INFINITE)
    BY <1>3, <1>5, <2>1, <2>4 DEF CategoryOK, Fresh
  <2> QED  BY <2>2, <2>3, <2>4
<1>8. last \in Nat  BY Timings
<1>9. <<0, x>> \in Good
  BY <1>5, <1>6, <1>7, <1>8 DEF SamePhy, SameRest, Categories
<1>10. ASSUME NEW n \in 1 .. last, NEW y, <<n - 1, y>> \in Good
       PROVE  <<n, OneRound("START", y, last - n, d, d)>> \in Good
  <2> DEFINE k == last - n
             u == StartRound(y, k, d)
  <2>1. /\ y \in StationTypes /\ Coherent(y) /\ QueueOK(y) /\ SamePhy(s, y)
        /\ \A j \in Categories : j >= last - (n - 1) =>
               CategoryOK(y.ac[j], j, Counts(y), j \in ExchangeOf(y))
    BY <1>10
  <2>2. k \in Categories /\ \A j \in Categories : j >= k => j = k \/ j >= last - (n - 1)
    BY <1>8 DEF Categories
  <2>3. OneRound("START", y, k, d, d) = u  BY DEF OneRound
  <2> HIDE DEF k
  <2>4. \/ CategoryOK(y.ac[k], k, Counts(y), k \in ExchangeOf(y))
        \/ Fresh(y.ac[k], k) /\ k \notin ExchangeOf(y)
    BY <2>1, <2>2 DEF QueueOK
  <2>5. /\ Coherent(u) /\ Elsewhere(y, u, k) /\ SamePhy(y, u)
        /\ CategoryOK(u.ac[k], k, Counts(u), k \in ExchangeOf(u))
        /\ Counts(y) => Counts(u)
        /\ ExchangeOf(u) = ExchangeOf(y)
    BY <2>1, <2>2, <2>4, StartRoundOK
  <2> HIDE DEF u
  <2>6. u \in StationTypes  BY <2>5 DEF Coherent, Basics
  <2>7. ASSUME NEW j \in Categories, j # k,
               CategoryOK(y.ac[j], j, Counts(y), j \in ExchangeOf(y))
        PROVE  CategoryOK(u.ac[j], j, Counts(u), j \in ExchangeOf(u))
    <3>1. u.ac[j] = y.ac[j]  BY <2>5, <2>7 DEF Elsewhere
    <3>2. (j \in ExchangeOf(u)) = (j \in ExchangeOf(y))  BY <2>5
    <3>3. CategoryOK(y.ac[j], j, Counts(u), j \in ExchangeOf(y))
      BY <2>5, <2>7 DEF CategoryOK
    <3> QED  BY <3>1, <3>2, <3>3
  <2>8. QueueOK(u)
    <3> SUFFICES ASSUME NEW j \in Categories
                 PROVE  \/ CategoryOK(u.ac[j], j, Counts(u), j \in ExchangeOf(u))
                        \/ Fresh(u.ac[j], j) /\ j \notin ExchangeOf(u)
      BY DEF QueueOK
    <3>1. CASE j = k  BY <2>5, <3>1
    <3>2. CASE j # k
      <4>1. u.ac[j] = y.ac[j]  BY <2>5, <3>2 DEF Elsewhere
      <4>2. \/ CategoryOK(y.ac[j], j, Counts(y), j \in ExchangeOf(y))
            \/ Fresh(y.ac[j], j) /\ j \notin ExchangeOf(y)
        BY <2>1 DEF QueueOK
      <4> QED  BY <2>5, <2>7, <3>2, <4>1, <4>2
    <3> QED  BY <3>1, <3>2
  <2>9. \A j \in Categories : j >= last - n =>
            CategoryOK(u.ac[j], j, Counts(u), j \in ExchangeOf(u))
    <3> TAKE j \in Categories
    <3>1. HAVE j >= last - n
    <3>2. j = k \/ j >= last - (n - 1)  BY <2>2, <3>1 DEF k
    <3> QED  BY <2>1, <2>5, <2>7, <3>2
  <2>10. SamePhy(s, u)  BY <2>1, <2>5 DEF SamePhy
  <2>11. <<n, u>> \in Good  BY <2>5, <2>6, <2>8, <2>9, <2>10
  <2> QED  BY <2>3, <2>11 DEF k
<1> HIDE DEF Good
<1>11. RunsTo("START", x, d, d, t)  BY StartLoop
<1> HIDE DEF t
<1>12. <<NumberAccessCategories, t>> \in Good
  <2> HIDE DEF last
  <2> QED  BY <1>9, <1>10, <1>11, LoopInvariant DEF last
<1>13. /\ Coherent(t) /\ SamePhy(s, t)
       /\ \A k \in Categories : CategoryOK(t.ac[k], k, Counts(t), k \in ExchangeOf(t))
  BY <1>8, <1>12 DEF Good, Categories
<1>14. Consistent(t)  BY <1>13 DEF Consistent, InOrder
<1> QED  BY <1>13, <1>14 DEF t, x

-----------------------------------------------------------------------------
(* The channel is clear. *)

\* The MAC has just been told: no backoff is counted, no exchange is under way.
AtRest(s) ==
    /\ s \in StationTypes /\ s.permission = INFINITE /\ ~s.failed /\ s.nav <= MaxReserved
    /\ s.timer = INFINITE /\ s.stale = INFINITE /\ HearsNothing(s) /\ s.others = 0
    /\ s.outgoing = NONE /\ s.sent = NONE
    /\ InOrder(s, FALSE, {})

\* A backoff that does not try at once lasts the interframe space at least, and
\* not for ever.
LEMMA BackoffsOfRest ==
    ASSUME NEW s \in StationTypes, InOrder(s, FALSE, {}), NEW c \in Categories,
           s.ac[c].duration # INFINITE
    PROVE  /\ ~s.ac[c].jumping /\ s.ac[c].duration = NonExtendedBackoffDuration(c, s.ac[c].slots)
           /\ s.ac[c].duration >= NonExtendedBackoffDuration(c, 0)
           /\ s.ac[c].duration + ExtendedDelay < INFINITE
           /\ s.ac[c].duration \in Nat /\ NonExtendedBackoffDuration(c, 0) \in Nat
<1>1. CategoryOK(s.ac[c], c, FALSE, c \in {})  BY DEF InOrder
<1>2. s.ac[c].slots \in Nat /\ s.ac[c].slots <= MaxWindow[c]
  BY <1>1, InfoTyped DEF CategoryOK, AccessCategoryInfos
<1>3. ~s.ac[c].jumping /\ s.ac[c].duration = NonExtendedBackoffDuration(c, s.ac[c].slots)
  BY <1>1 DEF CategoryOK
<1> QED  BY <1>2, <1>3, SmallDurations

\* StartBackoffIfNecessary starts the timer for the backoffs that there are.
LEMMA StartBackoffOK ==
    ASSUME NEW s, AtRest(s), s.nav = 0, s.quiet >= Cap \/ s.idleFor <= s.quiet
    PROVE  Consistent(StartBackoffIfNecessary(s)) /\ HearsNothing(StartBackoffIfNecessary(s))
<1> DEFINE x == [s EXCEPT !.ac = NoStartTimes(s)]
           time == CurrentBackoffExpiration(x)
           idle == [x EXCEPT !.macState = "Idle"]
           on == Counting(x, time)
           t == StartBackoffIfNecessary(s)
<1>1. s \in StationTypes /\ InOrder(s, FALSE, {}) /\ s.permission = INFINITE
  BY DEF AtRest
<1>2. x \in StationTypes /\ x.ac = NoStartTimes(s) /\ SameRest(s, x)
  BY <1>1, NoStartTimesTyped DEF StationTypes, SameRest
<1>3. \A c \in Categories :
          /\ CategoryOK(x.ac[c], c, FALSE, c \in {})
          /\ x.ac[c].duration = s.ac[c].duration /\ x.ac[c].elapsed = 0
  <2>1. \A c \in Categories : CategoryOK(s.ac[c], c, FALSE, c \in {})
    BY <1>1 DEF InOrder
  <2> QED  BY <1>1, <1>2, <2>1, NoStartTimesOK
<1>4. t = IF time = INFINITE THEN idle ELSE on
  <2>1. INFINITE # 0  BY Timings
  <2> QED  BY <1>1, <2>1 DEF StartBackoffIfNecessary, Counting
<1> HIDE DEF x, t
<1>5. InOrder(x, FALSE, {})  BY <1>3 DEF InOrder
<1>6. CASE \A c \in Categories : x.ac[c].duration = INFINITE
  <2>1. t = idle  BY <1>2, <1>4, <1>6, ExpirationTyped
  <2>2. idle \in StationTypes /\ idle.macState = "Idle" /\ idle.ac = x.ac
        /\ idle.timer = x.timer /\ idle.stale = x.stale /\ idle.nav = x.nav /\ idle.permission = x.permission
        /\ idle.idleFor = x.idleFor /\ idle.phyState = x.phyState /\ idle.sensing = x.sensing
        /\ idle.others = x.others /\ idle.outgoing = x.outgoing /\ idle.sent = x.sent
        /\ idle.quiet = x.quiet /\ idle.failed = x.failed
    BY <1>2 DEF StationTypes, MacStates
  <2> HIDE DEF idle
  <2>3. HearsNothing(idle) /\ Basics(idle) /\ PhyOK(idle) /\ QuietOK(idle)
    BY <1>2, <2>2, Timings DEF AtRest, SameRest, HearsNothing, Basics, PhyOK, QuietOK,
                              IsTransmittingAFrame
  <2>4. GapOK(idle) /\ CountingOK(idle)
    BY <2>2, <2>3 DEF HearsNothing, GapOK, CountingOK, Counts
  <2>5. MacOK(idle)
    BY <1>2, <1>6, <2>2, <2>3 DEF AtRest, SameRest, MacOK, IsWaiting
  <2>6. ExchangeOf(idle) = {} /\ Counts(idle) = FALSE
    BY <1>2, <2>2 DEF AtRest, SameRest, ExchangeOf, IsWaiting, Counts, NONE
  <2>7. InOrder(idle, FALSE, {})  BY <1>5, <2>2 DEF InOrder
  <2> QED  BY <2>1, <2>3, <2>4, <2>5, <2>6, <2>7 DEF Consistent, Coherent, t
<1>7. CASE \E c \in Categories : x.ac[c].duration # INFINITE
  <2>1. PICK e \in Categories : x.ac[e].duration # INFINITE
                                /\ time = x.ac[e].duration - x.ac[e].elapsed + Extension(x)
    BY <1>2, <1>7, ExpirationTyped
  <2>2. x.ac[e].duration \in Nat /\ x.ac[e].duration + ExtendedDelay < INFINITE
    BY <1>2, <1>5, <2>1, BackoffsOfRest
  <2>3. Extension(x) \in 0 .. ExtendedDelay  BY Timings DEF Extension
  <2> HIDE DEF time
  <2>4. time \in Nat /\ time < INFINITE
    <3>1. x.ac[e].elapsed = 0  BY <1>3
    <3>2. ExtendedDelay \in Nat /\ INFINITE \in Nat  BY Timings
    <3> QED  BY <2>1, <2>2, <2>3, <3>1, <3>2
  <2>5. t = on  BY <1>4, <2>4, Timings
  <2>6. on \in StationTypes /\ on.macState = "WaitingForIfsAndBackoff"
    <3>1. x.permission # 0 /\ time \in Int
      BY <1>1, <1>2, <2>4, Timings DEF SameRest
    <3> QED  BY <1>2, <3>1, CountingTyped, SameAccessSelf
  <2>7. /\ on.ac = x.ac /\ on.timer = time /\ on.stale = INFINITE /\ on.nav = x.nav /\ on.permission = x.permission
        /\ on.idleFor = x.idleFor /\ on.phyState = x.phyState /\ on.sensing = x.sensing
        /\ on.others = x.others /\ on.outgoing = x.outgoing /\ on.sent = x.sent
        /\ on.quiet = x.quiet /\ on.failed = x.failed /\ on.corrupt = x.corrupt
    BY <1>2 DEF Counting, StationTypes
  <2> HIDE DEF on
  <2>8. HearsNothing(on) /\ Basics(on) /\ PhyOK(on) /\ QuietOK(on)
    BY <1>2, <2>4, <2>6, <2>7 DEF AtRest, SameRest, HearsNothing, Basics, PhyOK, QuietOK,
                                  IsTransmittingAFrame
  <2>9. GapOK(on)  BY <2>8 DEF HearsNothing, GapOK
  <2>10. CountingOK(on)
    <3>1. on.timer = CurrentBackoffExpiration(on) /\ on.timer < INFINITE
      BY <2>4, <2>7, SameExpiration DEF time
    <3>2. \E c \in Categories : on.ac[c].duration # INFINITE  BY <1>7, <2>7
    <3>3. ASSUME NEW c \in Categories, on.ac[c].duration # INFINITE
          PROVE  QuietEnough(on, c)
      <4>1. /\ x.ac[c].duration >= NonExtendedBackoffDuration(c, 0)
            /\ x.ac[c].duration \in Nat /\ NonExtendedBackoffDuration(c, 0) \in Nat
        <5>1. x.ac[c].duration # INFINITE  BY <2>7, <3>3
        <5> QED  BY <1>2, <1>5, <5>1, BackoffsOfRest
      <4>2. on.quiet \in Nat /\ on.ac[c].elapsed = 0
        BY <1>3, <2>6, <2>7 DEF StationTypes
      <4> QED  BY <2>7, <4>1, <4>2 DEF QuietEnough
    <3> QED  BY <3>1, <3>2, <3>3 DEF CountingOK
  <2>11. MacOK(on)
    BY <1>2, <2>6, <2>7, <2>8 DEF AtRest, SameRest, MacOK, IsWaiting
  <2>12. ExchangeOf(on) = {} /\ Counts(on) = TRUE
    BY <1>2, <2>6, <2>7 DEF AtRest, SameRest, ExchangeOf, IsWaiting, Counts, NONE
  <2>13. InOrder(on, TRUE, {})
    <3> SUFFICES ASSUME NEW c \in Categories PROVE CategoryOK(on.ac[c], c, TRUE, c \in {})
      BY DEF InOrder
    <3>1. CategoryOK(x.ac[c], c, FALSE, c \in {})  BY <1>3
    <3>2. (c \in {}) = FALSE  OBVIOUS
    <3>3. CategoryOK(x.ac[c], c, FALSE, FALSE)  BY <3>1, <3>2
    <3>4. CategoryOK(x.ac[c], c, TRUE, FALSE)  BY <3>3, CountsOrNot
    <3> QED  BY <2>7, <3>2, <3>4
  <2> QED  BY <2>5, <2>6, <2>8, <2>9, <2>10, <2>11, <2>12, <2>13 DEF Consistent, Coherent, t
<1> QED  BY <1>6, <1>7

\* A reservation is waited for first.
LEMMA GoOnOK ==
    ASSUME NEW s, AtRest(s)
    PROVE  Consistent(GoOnWhenClear(s)) /\ HearsNothing(GoOnWhenClear(s))
<1> DEFINE free == [s EXCEPT !.idleFor = 0]
           nav == [s EXCEPT !.macState = "WaitingForNavExpiration", !.timer = s.nav,
                            !.stale = INFINITE]
           t == GoOnWhenClear(s)
<1>1. s \in StationTypes /\ InOrder(s, FALSE, {}) /\ s.timer = INFINITE  BY DEF AtRest
<1>2. t = IF s.nav > 0 THEN nav ELSE StartBackoffIfNecessary(free)
  BY <1>1 DEF GoOnWhenClear, Expect
<1> HIDE DEF t
<1>3. CASE s.nav > 0
  <2>1. nav \in StationTypes
    <3>1. s.nav \in Int /\ INFINITE \in Int  BY <1>1, Timings DEF StationTypes
    <3> QED  BY <1>1, <3>1 DEF StationTypes, MacStates
  <2>2. /\ nav.macState = "WaitingForNavExpiration" /\ nav.timer = s.nav /\ nav.ac = s.ac
        /\ nav.stale = INFINITE /\ nav.nav = s.nav /\ nav.permission = s.permission
        /\ nav.phyState = s.phyState /\ nav.sensing = s.sensing /\ nav.others = s.others
        /\ nav.outgoing = s.outgoing /\ nav.sent = s.sent /\ nav.failed = s.failed
    BY <1>1 DEF StationTypes
  <2> HIDE DEF nav
  <2>3. nav.nav \in Nat  BY <2>1 DEF StationTypes
  <2>4. HearsNothing(nav) /\ Basics(nav) /\ PhyOK(nav) /\ QuietOK(nav)
    BY <2>1, <2>2, <2>3 DEF AtRest, HearsNothing, Basics, PhyOK, QuietOK,
                            IsTransmittingAFrame
  <2>5. GapOK(nav) /\ CountingOK(nav)
    BY <2>2, <2>4 DEF HearsNothing, GapOK, CountingOK, Counts
  <2>6. MacOK(nav)  BY <2>2, <2>4 DEF AtRest, MacOK, IsWaiting
  <2>7. ExchangeOf(nav) = {} /\ Counts(nav) = FALSE
    BY <2>2 DEF AtRest, ExchangeOf, IsWaiting, Counts, NONE
  <2>8. InOrder(nav, FALSE, {})  BY <1>1, <2>2 DEF InOrder
  <2>9. t = nav  BY <1>2, <1>3
  <2> QED  BY <2>4, <2>5, <2>6, <2>7, <2>8, <2>9 DEF Consistent, Coherent, t
<1>4. CASE ~(s.nav > 0)
  <2>1. /\ free \in StationTypes /\ free.idleFor = 0 /\ free.ac = s.ac
        /\ free.stale = s.stale /\ free.nav = s.nav /\ free.permission = s.permission /\ free.timer = s.timer
        /\ free.phyState = s.phyState /\ free.sensing = s.sensing /\ free.others = s.others
        /\ free.outgoing = s.outgoing /\ free.sent = s.sent /\ free.failed = s.failed
    BY <1>1 DEF StationTypes
  <2>2. t = StartBackoffIfNecessary(free)  BY <1>2, <1>4
  <2> HIDE DEF free
  <2>3. AtRest(free)  BY <2>1 DEF AtRest, HearsNothing, InOrder
  <2>4. free.nav = 0 /\ free.idleFor <= free.quiet  BY <1>4, <2>1 DEF StationTypes
  <2> QED  BY <2>2, <2>3, <2>4, StartBackoffOK DEF t
<1> QED  BY <1>3, <1>4

\* When the reservation is over, the backoffs go on.
LEMMA NavExpirationOK ==
    ASSUME NEW s, AtRest(s), s.nav = 0
    PROVE  Consistent(NavExpiration(s)) /\ HearsNothing(NavExpiration(s))
<1> DEFINE x == [s EXCEPT !.macState = "Transient", !.idleFor = 0]
<1>1. s \in StationTypes  BY DEF AtRest
<1>2. /\ x \in StationTypes /\ x.idleFor = 0 /\ x.ac = s.ac
      /\ x.stale = s.stale /\ x.nav = s.nav /\ x.permission = s.permission /\ x.timer = s.timer
      /\ x.phyState = s.phyState /\ x.sensing = s.sensing /\ x.others = s.others
      /\ x.outgoing = s.outgoing /\ x.sent = s.sent /\ x.failed = s.failed
  BY <1>1 DEF StationTypes, MacStates
<1>3. NavExpiration(s) = StartBackoffIfNecessary(x)  BY DEF NavExpiration
<1> HIDE DEF x
<1>4. AtRest(x)  BY <1>2 DEF AtRest, HearsNothing, InOrder
<1>5. x.nav = 0 /\ x.idleFor <= x.quiet  BY <1>2 DEF StationTypes
<1> QED  BY <1>3, <1>4, <1>5, StartBackoffOK

-----------------------------------------------------------------------------
(* The end of a frame exchange. *)

\* A category that has drawn a backoff for the packet it has.
Ready(i, c) == CategoryOK(i, c, FALSE, FALSE) /\ i.hasPacketToSend /\ i.duration # INFINITE

\* Without its reply a frame is taken back, counted, and perhaps dropped: the
\* category draws another backoff.
LEMMA NeverReceivedOK ==
    ASSUME NEW s \in StationTypes, NEW d \in DrawTypes,
           CategoryOK(s.ac[s.last], s.last, FALSE, TRUE),
           s.lastSent = "RTS" => s.sent = NONE
    PROVE  LET t == NeverReceivedClearToSendOrAcknowledgement(s, d)
           IN  /\ t \in StationTypes /\ Elsewhere(s, t, s.last)
               /\ SameRest([s EXCEPT !.timer = INFINITE, !.sent = NONE], t)
               /\ CategoryOK(t.ac[s.last], s.last, FALSE, FALSE)
<1> DEFINE c == s.last
           off == TimerOff(s)
           doubled == DoubleTheContentionWindowAndPickANewBackoff(off, c, d)
           back == TakenBack(s, doubled)
           counted == Counted(s, back)
           dropped == DropCurrentPacketAndGoToNextPacket(counted, c, d)
           t == NeverReceivedClearToSendOrAcknowledgement(s, d)
           off2 == [s EXCEPT !.timer = INFINITE, !.sent = NONE]
<1>1. c \in Categories /\ s.ac[c] \in AccessCategoryInfos
  BY InfoTyped DEF StationTypes
<1>2. t = IF Retries(s, counted) >= RetryLimit THEN dropped ELSE counted
  BY NeverReceivedTyped
<1>3. s.ac[c].hasPacketToSend /\ ~s.ac[c].jumping
  BY DEF CategoryOK
<1> HIDE DEF c, t
<1>4. off \in StationTypes /\ off.ac = s.ac  BY TimerOffTyped DEF TimerOff, StationTypes
<1>5. SameRest(off2, [off EXCEPT !.sent = NONE]) /\ off2.ac = s.ac
  BY DEF TimerOff, StationTypes, SameRest
<1>6. off.sent = s.sent  BY DEF TimerOff, StationTypes
<1> HIDE DEF off, off2
<1>7. doubled \in StationTypes /\ SameRest(off, doubled) /\ Elsewhere(s, doubled, c)
      /\ Ready(doubled.ac[c], c)
  <2>1. PICK w \in Nat : \E n \in 0 .. w :
            /\ w <= MaxWindow[c]
            /\ doubled = With(off, c, WaitingSlots([off.ac[c] EXCEPT !.window = w], c, n))
    BY <1>1, <1>4, DoubleTyped
  <2>2. PICK n \in 0 .. w :
            /\ w <= MaxWindow[c]
            /\ doubled = With(off, c, WaitingSlots([off.ac[c] EXCEPT !.window = w], c, n))
    BY <2>1
  <2> DEFINE i == [off.ac[c] EXCEPT !.window = w]
             j == WaitingSlots(i, c, n)
  <2>3. i \in AccessCategoryInfos /\ ~i.jumping /\ i.hasPacketToSend /\ i.window <= MaxWindow[c]
    BY <1>1, <1>3, <1>4, <2>2 DEF AccessCategoryInfos
  <2> HIDE DEF i
  <2>4. n \in Nat /\ n <= MaxWindow[c]  BY <1>1, <2>2, Windows
  <2>5. CategoryOK(j, c, FALSE, FALSE) /\ j \in AccessCategoryInfos
        /\ j.duration = NonExtendedBackoffDuration(c, n)
    BY <1>1, <2>3, <2>4, DrawnOK
  <2>6. j.hasPacketToSend  BY <2>3 DEF WaitingSlots, AccessCategoryInfos
  <2>7. j.duration # INFINITE  BY <1>1, <2>4, <2>5, SmallDurations
  <2> HIDE DEF j
  <2>8. With(off, c, j) \in StationTypes /\ SameRest(off, With(off, c, j))
        /\ With(off, c, j).ac[c] = j /\ Elsewhere(off, With(off, c, j), c)
    BY <1>1, <1>4, <2>5, WithRest
  <2>9. doubled = With(off, c, j)  BY <2>2 DEF i, j
  <2> HIDE DEF doubled
  <2> QED  BY <1>4, <2>5, <2>6, <2>7, <2>8, <2>9 DEF Ready, Elsewhere
<1> HIDE DEF doubled
<1>8. back \in StationTypes /\ SameRest(off2, back) /\ Elsewhere(s, back, c)
      /\ Ready(back.ac[c], c)
  <2> DEFINE i == [doubled.ac[c] EXCEPT !.packet = s.sent]
             w == With(doubled, c, i)
             u == [w EXCEPT !.sent = NONE]
  <2>1. doubled.ac[c] \in AccessCategoryInfos  BY <1>1, <1>7, InfoTyped
  <2>2. i \in AccessCategoryInfos /\ i.hasPacketToSend = doubled.ac[c].hasPacketToSend
        /\ i.slots = doubled.ac[c].slots /\ i.window = doubled.ac[c].window
        /\ i.duration = doubled.ac[c].duration /\ i.jumping = doubled.ac[c].jumping
        /\ i.queued = doubled.ac[c].queued
    BY <2>1 DEF StationTypes, AccessCategoryInfos, DataFrames
  <2> HIDE DEF i
  <2>3. Ready(i, c)  BY <1>7, <2>2 DEF Ready, CategoryOK
  <2>4. w \in StationTypes /\ SameRest(doubled, w) /\ w.ac[c] = i /\ Elsewhere(doubled, w, c)
    BY <1>1, <1>7, <2>2, WithRest
  <2>5. back = IF s.lastSent = "RTS" THEN doubled ELSE u  BY DEF TakenBack, c, i
  <2> HIDE DEF back, w
  <2>6. u \in StationTypes /\ u.ac = w.ac /\ SameRest([w EXCEPT !.sent = NONE], u)
    BY <2>4 DEF StationTypes, SameRest
  <2>7. SameRest(off2, u)
    BY <1>4, <1>5, <1>7, <2>4 DEF SameRest, StationTypes
  <2>8. CASE s.lastSent = "RTS"
    <3>1. s.sent = NONE  BY <2>8
    <3>2. SameRest(off2, doubled)
      BY <1>4, <1>5, <1>6, <1>7, <3>1 DEF SameRest, StationTypes
    <3>3. back = doubled  BY <2>5, <2>8
    <3> QED  BY <1>7, <3>2, <3>3
  <2>9. CASE s.lastSent # "RTS"
    <3>1. back = u  BY <2>5, <2>9
    <3> HIDE DEF u
    <3>2. Elsewhere(s, u, c)  BY <1>7, <2>4, <2>6 DEF Elsewhere
    <3> QED  BY <2>3, <2>4, <2>6, <2>7, <3>1, <3>2
  <2> QED  BY <2>8, <2>9
<1> HIDE DEF back
<1>9. counted \in StationTypes /\ SameRest(off2, counted) /\ Elsewhere(s, counted, c)
      /\ Ready(counted.ac[c], c)
  <2> DEFINE i == IF s.lastSent = "LONG" THEN [back.ac[c] EXCEPT !.longRetries = @ + 1]
                  ELSE [back.ac[c] EXCEPT !.shortRetries = @ + 1]
             w == With(back, c, i)
  <2>1. back.ac[c] \in AccessCategoryInfos  BY <1>1, <1>8, InfoTyped
  <2>2. i \in AccessCategoryInfos /\ i.hasPacketToSend = back.ac[c].hasPacketToSend
        /\ i.slots = back.ac[c].slots /\ i.window = back.ac[c].window
        /\ i.duration = back.ac[c].duration /\ i.jumping = back.ac[c].jumping
        /\ i.queued = back.ac[c].queued /\ i.packet = back.ac[c].packet
    BY <2>1 DEF AccessCategoryInfos
  <2>3. counted = w  BY DEF Counted, c
  <2> HIDE DEF i
  <2>4. Ready(i, c)  BY <1>8, <2>2 DEF Ready, CategoryOK
  <2>5. w \in StationTypes /\ SameRest(back, w) /\ w.ac[c] = i /\ Elsewhere(back, w, c)
    BY <1>1, <1>8, <2>2, WithRest
  <2> HIDE DEF w, counted
  <2> QED  BY <1>8, <2>3, <2>4, <2>5, SameRestTransitive, ElsewhereTransitive
<1> HIDE DEF counted
<1>10. dropped \in StationTypes /\ SameRest(off2, dropped) /\ Elsewhere(s, dropped, c)
       /\ CategoryOK(dropped.ac[c], c, FALSE, FALSE)
  <2> DEFINE i == Dropped(counted, c)
  <2>1. PICK n \in 0 .. MinWindow[c] : dropped = With(counted, c, WaitingSlots(i, c, n))
    BY <1>1, <1>9, DropTyped
  <2>2. i \in AccessCategoryInfos  BY <1>1, <1>9, DropTyped
  <2>3. counted.ac[c] \in AccessCategoryInfos  BY <1>1, <1>9, InfoTyped
  <2>4. i.window = MinWindow[c] /\ i.jumping = counted.ac[c].jumping /\ i.packet = NONE
    BY <2>3 DEF Dropped, AccessCategoryInfos
  <2> HIDE DEF i
  <2>5. ~i.jumping  BY <1>9, <2>4 DEF Ready, CategoryOK
  <2>6. n \in Nat /\ n <= MaxWindow[c] /\ i.window <= MaxWindow[c]
    BY <1>1, <2>1, <2>4, Windows
  <2> DEFINE j == WaitingSlots(i, c, n)
  <2>7. CategoryOK(j, c, FALSE, FALSE) /\ j \in AccessCategoryInfos
    BY <1>1, <2>2, <2>4, <2>5, <2>6, DrawnOK
  <2> HIDE DEF j
  <2>8. With(counted, c, j) \in StationTypes /\ SameRest(counted, With(counted, c, j))
        /\ With(counted, c, j).ac[c] = j /\ Elsewhere(counted, With(counted, c, j), c)
    BY <1>1, <1>9, <2>7, WithRest
  <2>9. dropped = With(counted, c, j)  BY <2>1 DEF j
  <2> QED  BY <1>9, <2>7, <2>8, <2>9, SameRestTransitive, ElsewhereTransitive
<1> HIDE DEF dropped
<1> QED  BY <1>2, <1>9, <1>10 DEF Ready, t, c, off2

\* A station that has sent its frame and may get a reply.
AwaitsReply(s) ==
    /\ s \in StationTypes /\ IsWaiting(s) /\ s.outgoing = NONE
    /\ s.lastSent = "RTS" => s.sent = NONE
    /\ InOrder(s, FALSE, {s.last})

GivenUp(s, m) == [s EXCEPT !.macState = m, !.timer = INFINITE, !.sent = NONE]

\* It gives up the reply.
LEMMA GivesUp ==
    ASSUME NEW s, AwaitsReply(s), NEW d \in DrawTypes, NEW m \in {"BusyMedium", "Transient"}
    PROVE  LET t == NeverReceivedClearToSendOrAcknowledgement([s EXCEPT !.macState = m], d)
           IN  /\ t \in StationTypes /\ SameRest(GivenUp(s, m), t) /\ InOrder(t, FALSE, {})
<1> DEFINE x == [s EXCEPT !.macState = m]
           t == NeverReceivedClearToSendOrAcknowledgement(x, d)
           c == s.last
<1>1. s \in StationTypes /\ c \in Categories  BY DEF AwaitsReply, StationTypes
<1>2. x \in StationTypes /\ x.last = s.last /\ x.lastSent = s.lastSent /\ x.sent = s.sent
      /\ x.ac = s.ac
  BY <1>1 DEF StationTypes, MacStates
<1>3. [x EXCEPT !.timer = INFINITE, !.sent = NONE] = GivenUp(s, m)
  BY <1>1 DEF GivenUp, StationTypes
<1>4. \A k \in Categories : CategoryOK(s.ac[k], k, FALSE, k \in {c})
  BY DEF AwaitsReply, InOrder
<1>5. CategoryOK(x.ac[x.last], x.last, FALSE, TRUE)
  <2>1. CategoryOK(s.ac[c], c, FALSE, c \in {c})  BY <1>1, <1>4
  <2>2. (c \in {c}) = TRUE  OBVIOUS
  <2> QED  BY <1>2, <2>1, <2>2
<1> HIDE DEF x
<1>6. x.lastSent = "RTS" => x.sent = NONE  BY <1>2 DEF AwaitsReply
<1>7. /\ t \in StationTypes /\ Elsewhere(x, t, x.last)
      /\ SameRest([x EXCEPT !.timer = INFINITE, !.sent = NONE], t)
      /\ CategoryOK(t.ac[x.last], x.last, FALSE, FALSE)
  BY <1>2, <1>5, <1>6, NeverReceivedOK
<1> HIDE DEF t
<1>8. InOrder(t, FALSE, {})
  <2> SUFFICES ASSUME NEW k \in Categories PROVE CategoryOK(t.ac[k], k, FALSE, k \in {})
    BY DEF InOrder
  <2>1. (k \in {}) = FALSE  OBVIOUS
  <2>2. CASE k = c  BY <1>2, <1>7, <2>1, <2>2
  <2>3. CASE k # c
    <3>1. t.ac[k] = s.ac[k]  BY <1>2, <1>7, <2>3 DEF Elsewhere
    <3>2. (k \in {c}) = FALSE  BY <2>3
    <3>3. CategoryOK(s.ac[k], k, FALSE, k \in {c})  BY <1>4
    <3> QED  BY <2>1, <3>1, <3>2, <3>3
  <2> QED  BY <2>2, <2>3
<1> QED  BY <1>3, <1>7, <1>8 DEF t, x

\* A station that awaits the reply to its frame has it in hand, or its PHY has.
LEMMA AwaitsReplyFrom ==
    ASSUME NEW s, Consistent(s), IsWaiting(s), s.outgoing = NONE
    PROVE  AwaitsReply(s)
<1>1. ExchangeOf(s) = {s.last} /\ Counts(s) = FALSE  BY DEF ExchangeOf, IsWaiting, Counts
<1>2. s \in StationTypes /\ MacOK(s) /\ InOrder(s, Counts(s), ExchangeOf(s))
  BY DEF Consistent, Coherent, Basics
<1>3. s.lastSent = "RTS" => s.sent = NONE  BY <1>2 DEF MacOK
<1>4. InOrder(s, FALSE, {s.last})  BY <1>1, <1>2
<1> QED  BY <1>2, <1>3, <1>4 DEF AwaitsReply

\* A MAC that is told the channel is busy, and has nothing else under way.
Busy(s) ==
    /\ s \in StationTypes /\ s.permission = INFINITE /\ ~s.failed /\ s.nav <= MaxReserved
    /\ s.macState = "BusyMedium" /\ s.timer = INFINITE /\ s.stale = INFINITE
    /\ s.phyState \in {"Scanning", "Receiving"} /\ s.sensing
    /\ s.outgoing = NONE /\ s.sent = NONE
    /\ InOrder(s, FALSE, {})

\* It is in order.
LEMMA BusyOK ==
    ASSUME NEW s, Busy(s)
    PROVE  Consistent(s)
<1>1. Basics(s) /\ PhyOK(s)
  BY Timings DEF Busy, Basics, PhyOK, IsTransmittingAFrame
<1>2. MacOK(s) /\ QuietOK(s) /\ CountingOK(s) /\ GapOK(s)
  BY DEF Busy, MacOK, IsWaiting, QuietOK, CountingOK, Counts, GapOK
<1>3. ExchangeOf(s) = {} /\ Counts(s) = FALSE
  BY DEF Busy, ExchangeOf, IsWaiting, Counts, NONE
<1>4. InOrder(s, Counts(s), ExchangeOf(s))  BY <1>3 DEF Busy
<1> QED  BY <1>1, <1>2, <1>4 DEF Consistent, Coherent

\* So it is whenever the MAC is in that state and sends nothing.
LEMMA BusyFrom ==
    ASSUME NEW s, Consistent(s), s.macState = "BusyMedium",
           s.phyState \in {"Scanning", "Receiving"}
    PROVE  Busy(s)
<1>1. s \in StationTypes /\ MacOK(s) /\ PhyOK(s) /\ Basics(s)
      /\ InOrder(s, Counts(s), ExchangeOf(s))
  BY DEF Consistent, Coherent, Basics
<1>2. s.outgoing = NONE  BY <1>1 DEF PhyOK, IsTransmittingAFrame
<1>3. s.timer = INFINITE /\ s.sensing /\ s.sent = NONE
  BY <1>1, <1>2 DEF MacOK
<1>4. ExchangeOf(s) = {} /\ Counts(s) = FALSE
  BY <1>2 DEF ExchangeOf, IsWaiting, Counts, NONE
<1>5. InOrder(s, FALSE, {})  BY <1>1, <1>4
<1> QED  BY <1>1, <1>2, <1>3, <1>5 DEF Busy, Basics

\* A frame is received: the PHY scans again, and has not told of a clear channel yet.
Receives(s) == Consistent(s) /\ s.phyState = "Scanning" /\ s.sensing

\* The MAC is busy then, or awaits its reply.
LEMMA ReceivesWhen ==
    ASSUME NEW s, Receives(s)
    PROVE  /\ s.macState = "BusyMedium" \/ IsWaiting(s)
           /\ s.outgoing = NONE /\ s \in StationTypes /\ s.stale = INFINITE
           /\ s.permission = INFINITE /\ ~s.failed /\ s.nav <= MaxReserved
<1>1. Basics(s) /\ PhyOK(s) /\ MacOK(s)  BY DEF Receives, Consistent, Coherent
<1>2. s.outgoing = NONE  BY <1>1 DEF Receives, PhyOK, IsTransmittingAFrame
<1>3. s.macState \in MacStates  BY <1>1 DEF Basics, StationTypes
<1>4. s.macState = "BusyMedium" \/ IsWaiting(s)
  BY <1>1, <1>2, <1>3 DEF Receives, MacOK, HearsNothing, MacStates, IsWaiting, NONE
<1> QED  BY <1>1, <1>2, <1>4 DEF Basics

\* Whatever it was at, another frame ends it.
LEMMA GiveUpWaitingOK ==
    ASSUME NEW s, Receives(s), NEW d \in DrawTypes
    PROVE  LET t == GiveUpWaiting(s, d)
           IN  /\ Busy(t) /\ t.phyState = "Scanning" /\ t.nav = s.nav
               /\ t.others = s.others /\ t.corrupt = s.corrupt
<1> DEFINE x == NeverReceivedClearToSendOrAcknowledgement([s EXCEPT !.macState = "BusyMedium"], d)
           t == GiveUpWaiting(s, d)
           g == GivenUp(s, "BusyMedium")
<1>1. /\ s.macState = "BusyMedium" \/ IsWaiting(s)
      /\ s.outgoing = NONE /\ s \in StationTypes /\ s.stale = INFINITE
      /\ s.permission = INFINITE /\ ~s.failed /\ s.nav <= MaxReserved
  BY ReceivesWhen
<1>2. t = IF IsWaiting(s) THEN x ELSE s  BY DEF GiveUpWaiting
<1>3. s.phyState = "Scanning" /\ s.sensing /\ Consistent(s)  BY DEF Receives
<1>4. CASE IsWaiting(s)
  <2>1. AwaitsReply(s)  BY <1>1, <1>3, <1>4, AwaitsReplyFrom
  <2>2. x \in StationTypes /\ SameRest(g, x) /\ InOrder(x, FALSE, {})  BY <2>1, GivesUp
  <2>3. /\ g.macState = "BusyMedium" /\ g.timer = INFINITE /\ g.sent = NONE
        /\ g.stale = s.stale
        /\ g.nav = s.nav /\ g.others = s.others /\ g.corrupt = s.corrupt
        /\ g.phyState = s.phyState /\ g.sensing = s.sensing /\ g.outgoing = s.outgoing
        /\ g.permission = s.permission /\ g.failed = s.failed
    BY <1>1 DEF GivenUp, StationTypes
  <2>4. t = x  BY <1>2, <1>4
  <2> HIDE DEF x, g, t
  <2> QED  BY <1>1, <1>3, <2>2, <2>3, <2>4 DEF Busy, SameRest, t
<1>5. CASE ~IsWaiting(s)
  <2>1. Busy(s)  BY <1>1, <1>3, <1>5, BusyFrom
  <2> QED  BY <1>2, <1>3, <1>5, <2>1
<1> QED  BY <1>4, <1>5

\* The channel goes clear: whatever the MAC was at, it goes on or is at rest.
LEMMA SensesClearOK ==
    ASSUME NEW s, Consistent(s), s.sensing, NEW d \in DrawTypes
    PROVE  Consistent(SensesClearIfSilent(s, d)) /\ Settled(SensesClearIfSilent(s, d))
<1> DEFINE x == [s EXCEPT !.sensing = FALSE]
           t == ClearChannelNotification(x, d)
           r == SensesClearIfSilent(s, d)
           over == NeverReceivedClearToSendOrAcknowledgement([x EXCEPT !.macState = "Transient"], d)
           g == GivenUp(x, "Transient")
<1>1. s \in StationTypes /\ s.others \in Nat  BY DEF Consistent, Coherent, Basics, StationTypes
<1>2. CASE ~(s.phyState = "Scanning" /\ s.others = 0)
  <2>1. r = s  BY <1>2 DEF SensesClearIfSilent
  <2>2. Settled(s)  BY <1>1, <1>2 DEF Settled
  <2> QED  BY <2>1, <2>2
<1>3. CASE s.phyState = "Scanning" /\ s.others = 0
  <2>1. r = t  BY <1>3 DEF SensesClearIfSilent
  <2>2. Receives(s)  BY <1>3 DEF Receives
  <2>3. /\ s.macState = "BusyMedium" \/ IsWaiting(s)
        /\ s.outgoing = NONE /\ s.stale = INFINITE
        /\ s.permission = INFINITE /\ ~s.failed /\ s.nav <= MaxReserved
    BY <2>2, ReceivesWhen
  <2>4. /\ x \in StationTypes /\ ~x.sensing /\ x.phyState = s.phyState
        /\ x.macState = s.macState /\ x.timer = s.timer /\ x.stale = s.stale /\ x.nav = s.nav
        /\ x.permission = s.permission /\ x.failed = s.failed /\ x.others = s.others
        /\ x.outgoing = s.outgoing /\ x.sent = s.sent /\ x.ac = s.ac
        /\ x.last = s.last /\ x.lastSent = s.lastSent /\ x.corrupt = s.corrupt
        /\ x.quiet = s.quiet /\ x.idleFor = s.idleFor
    BY <1>1 DEF StationTypes
  <2> HIDE DEF x, r
  <2>5. CASE IsWaiting(s) /\ s.timer # INFINITE
    <3>1. t = x  BY <2>4, <2>5 DEF ClearChannelNotification, IsWaiting
    <3>2. Basics(x) /\ PhyOK(x) /\ QuietOK(x) /\ CountingOK(x) /\ GapOK(x)
      <4>1. Basics(s)  BY DEF Consistent, Coherent
      <4>2. Basics(x)  BY <2>4, <4>1 DEF Basics
      <4>3. PhyOK(x) /\ GapOK(x)
        BY <1>3, <2>3, <2>4 DEF PhyOK, GapOK, IsTransmittingAFrame
      <4>4. QuietOK(x) /\ CountingOK(x)
        BY <2>4, <2>5 DEF QuietOK, CountingOK, Counts, IsWaiting
      <4> QED  BY <4>2, <4>3, <4>4
    <3>3. MacOK(x)
      <4>1. MacOK(s)  BY DEF Consistent, Coherent
      <4> QED  BY <2>3, <2>4, <2>5, <4>1 DEF MacOK, IsWaiting
    <3>4. ExchangeOf(x) = ExchangeOf(s) /\ Counts(x) = Counts(s)
      BY <2>4 DEF ExchangeOf, IsWaiting, Counts
    <3>5. InOrder(x, Counts(x), ExchangeOf(x))
      BY <2>4, <3>4 DEF Consistent, InOrder
    <3> QED  BY <2>1, <2>4, <3>1, <3>2, <3>3, <3>5 DEF Consistent, Coherent, Settled, r
  <2>6. CASE IsWaiting(s) /\ s.timer = INFINITE
    <3>1. AwaitsReply(s)  BY <2>3, <2>6, AwaitsReplyFrom DEF Receives
    <3>2. AwaitsReply(x)  BY <2>4, <3>1 DEF AwaitsReply, IsWaiting, InOrder
    <3>3. over \in StationTypes /\ SameRest(g, over) /\ InOrder(over, FALSE, {})
      BY <3>2, GivesUp
    <3>4. /\ g.timer = INFINITE /\ g.sent = NONE /\ g.stale = x.stale
          /\ g.nav = x.nav /\ g.others = x.others /\ g.outgoing = x.outgoing
          /\ g.phyState = x.phyState /\ g.sensing = x.sensing
          /\ g.permission = x.permission /\ g.failed = x.failed
      BY <2>4 DEF GivenUp, StationTypes
    <3>5. t = GoOnWhenClear(over)  BY <2>4, <2>6 DEF ClearChannelNotification, IsWaiting
    <3> HIDE DEF t, over, g
    <3>6. /\ over.timer = g.timer /\ over.sent = g.sent /\ over.nav = g.nav
          /\ over.stale = g.stale
          /\ over.others = g.others /\ over.outgoing = g.outgoing
          /\ over.phyState = g.phyState /\ over.sensing = g.sensing
          /\ over.permission = g.permission /\ over.failed = g.failed
      BY <3>3 DEF SameRest
    <3>7. HearsNothing(x) /\ x.others = 0 /\ x.outgoing = NONE /\ x.stale = INFINITE
          /\ x.permission = INFINITE /\ ~x.failed /\ x.nav <= MaxReserved
      BY <1>3, <2>3, <2>4 DEF HearsNothing
    <3>8. HearsNothing(over)  BY <3>4, <3>6, <3>7 DEF HearsNothing
    <3>9. AtRest(over)  BY <3>3, <3>4, <3>6, <3>7, <3>8 DEF AtRest
    <3> QED  BY <2>1, <3>5, <3>9, GoOnOK DEF Settled, HearsNothing, r
  <2>7. CASE ~IsWaiting(s)
    <3>1. Busy(s)  BY <1>3, <2>3, <2>7, BusyFrom
    <3>2. t = GoOnWhenClear(x)
      BY <2>3, <2>4, <2>7 DEF ClearChannelNotification, IsWaiting, Expect
    <3> HIDE DEF t
    <3>3. AtRest(x)
      BY <1>3, <2>3, <2>4, <3>1 DEF AtRest, HearsNothing, Busy, InOrder
    <3> QED  BY <2>1, <3>2, <3>3, GoOnOK DEF Settled, HearsNothing, r
  <2> QED  BY <2>5, <2>6, <2>7
<1> QED  BY <1>2, <1>3

-----------------------------------------------------------------------------
(* The channel goes busy. *)

\* What does not last longer than so many slots does not use up more.
LEMMA Division ==
    ASSUME NEW x \in Nat, NEW size \in Nat, size > 0, NEW n \in Nat, x <= size * n
    PROVE  x \div size <= n
<1> DEFINE q == x \div size
<1>1. q \in Nat /\ size * q <= x  OBVIOUS
<1>2. SUFFICES ASSUME q > n PROVE FALSE  BY <1>1
<1> HIDE DEF q
<1> DEFINE k == q - (n + 1)
<1>3. k \in Nat /\ q = n + 1 + k  BY <1>1, <1>2
<1> HIDE DEF k
<1>4. size * q = size * n + size + size * k  BY <1>3
<1>5. size * k \in Nat /\ size * n \in Nat /\ size * q \in Nat  BY <1>1, <1>3
<1> QED  BY <1>1, <1>4, <1>5

\* No category has counted more slots than it has drawn.
LEMMA UsedSlotsOK ==
    ASSUME NEW s \in StationTypes, NEW c \in Categories, s.ac[c].slots <= MaxWindow[c],
           s.ac[c].duration <= NonExtendedBackoffDuration(c, s.ac[c].slots),
           s.ac[c].elapsed <= s.ac[c].duration + Extension(s)
    PROVE  NumberBackoffSlotsUsed(s, c) <= s.ac[c].slots
<1> DEFINE n == s.ac[c].slots
           e == s.ac[c].elapsed
           f == InterframeSpace(c)
           x == Extension(s)
           a == SlotTime * n
           used == NumberBackoffSlotsUsed(s, c)
<1>1. n \in Nat /\ e \in Nat /\ s.ac[c].duration \in Nat
  BY InfoTyped DEF AccessCategoryInfos
<1>2. x \in Nat /\ f \in Nat  BY Timings, InterframeSpaces DEF Extension
<1>3. used = IF e <= f + x THEN 0 ELSE (e + RxTxTurnaroundTime - (f + x)) \div SlotTime
  BY DEF NumberBackoffSlotsUsed, Extension
<1>4. NonExtendedBackoffDuration(c, n) = f + a - RxTxTurnaroundTime /\ a \in Nat
  BY <1>1, BackoffDurations
<1> HIDE DEF n, e, f, x, used
<1> DEFINE time == e + RxTxTurnaroundTime - (f + x)
<1>5. CASE e <= f + x  BY <1>1, <1>3, <1>5 DEF used, n
<1>6. CASE ~(e <= f + x)
  <2>1. time \in Nat  BY <1>1, <1>2, <1>6, Timings
  <2>2. time <= a
    <3> HIDE DEF a
    <3>1. e <= NonExtendedBackoffDuration(c, n) + x
      <4>1. NonExtendedBackoffDuration(c, n) \in Nat  BY <1>1, BackoffDurations
      <4>2. s.ac[c].duration <= NonExtendedBackoffDuration(c, n)  BY DEF n
      <4>3. e <= s.ac[c].duration + x  BY DEF e, x
      <4> QED  BY <1>1, <1>2, <4>1, <4>2, <4>3
    <3> QED  BY <1>1, <1>2, <1>4, <3>1, Timings
  <2>3. used = time \div SlotTime  BY <1>3, <1>6
  <2> HIDE DEF time
  <2>4. time \div SlotTime <= n  BY <1>1, <2>1, <2>2, Timings, Division
  <2> QED  BY <2>3, <2>4 DEF used, n
<1> QED  BY <1>5, <1>6

\* The timer ends with the earliest backoff.
LEMMA NotOverdue ==
    ASSUME NEW s, Coherent(s), Counts(s), NEW c \in Categories, s.ac[c].duration # INFINITE
    PROVE  s.ac[c].elapsed <= s.ac[c].duration + Extension(s)
<1>1. s \in StationTypes /\ s.timer \in Nat /\ s.timer = CurrentBackoffExpiration(s)
  BY DEF Coherent, Basics, CountingOK
<1>2. s.timer <= s.ac[c].duration - s.ac[c].elapsed + Extension(s)
  BY <1>1, ExpirationTyped
<1>3. s.ac[c].duration \in Nat /\ s.ac[c].elapsed \in Nat /\ Extension(s) \in Nat
  BY <1>1, InfoTyped, Timings DEF AccessCategoryInfos, Extension
<1> QED  BY <1>1, <1>2, <1>3

\* The slots a category has counted are taken off, and nothing else changes.
LEMMA SlotsTakenOff ==
    ASSUME NEW s \in StationTypes, NEW c \in Categories,
           CategoryOK(s.ac[c], c, TRUE, FALSE), s.ac[c].duration # INFINITE,
           s.ac[c].elapsed <= s.ac[c].duration + Extension(s)
    PROVE  LET u == SubtractUsedSlots(s, c)
           IN  /\ u \in StationTypes /\ SameRest(s, u) /\ Elsewhere(s, u, c)
               /\ \E n \in 0 .. s.ac[c].slots : u.ac[c] = [s.ac[c] EXCEPT !.slots = n]
<1> DEFINE u == SubtractUsedSlots(s, c)
<1>1. s.ac[c] \in AccessCategoryInfos  BY InfoTyped
<1>2. NumberBackoffSlotsUsed(s, c) <= s.ac[c].slots
  <2>1. s.ac[c].slots <= MaxWindow[c]  BY DEF CategoryOK
  <2>2. s.ac[c].duration <= NonExtendedBackoffDuration(c, s.ac[c].slots)
    <3>1. s.ac[c].slots \in Nat  BY <1>1 DEF AccessCategoryInfos
    <3>2. NonExtendedBackoffDuration(c, s.ac[c].slots) \in Nat  BY <3>1, BackoffDurations
    <3> QED  BY <3>2 DEF CategoryOK
  <2> QED  BY <2>1, <2>2, UsedSlotsOK
<1>3. PICK n \in 0 .. s.ac[c].slots :
          /\ u = With(Expect(s, NumberBackoffSlotsUsed(s, c) <= s.ac[c].slots), c,
                      [s.ac[c] EXCEPT !.slots = n])
          /\ [s.ac[c] EXCEPT !.slots = n] \in AccessCategoryInfos
  BY UsedSlotsTyped
<1> DEFINE i == [s.ac[c] EXCEPT !.slots = n]
<1>4. u = With(s, c, i)  BY <1>2, <1>3, ExpectTyped
<1> HIDE DEF u, i
<1>5. i \in AccessCategoryInfos  BY <1>3 DEF i
<1>6. With(s, c, i) \in StationTypes /\ SameRest(s, With(s, c, i))
      /\ With(s, c, i).ac[c] = i /\ Elsewhere(s, With(s, c, i), c)
  BY <1>5, WithRest
<1> QED  BY <1>4, <1>6 DEF u, i

\* A category pauses: it keeps the slots it has left, or draws some.
LEMMA PauseOK ==
    ASSUME NEW s \in StationTypes, NEW c \in Categories, NEW d \in DrawTypes,
           s.macState = "BusyMedium", CategoryOK(s.ac[c], c, TRUE, FALSE),
           s.ac[c].duration # INFINITE =>
               s.ac[c].elapsed <= s.ac[c].duration + Extension(s)
    PROVE  LET t == PauseBackoff(s, c, d)
           IN  /\ t \in StationTypes /\ SameRest(s, t) /\ Elsewhere(s, t, c)
               /\ CategoryOK(t.ac[c], c, FALSE, FALSE)
<1> DEFINE t == PauseBackoff(s, c, d)
<1>1. s.ac[c] \in AccessCategoryInfos  BY InfoTyped
<1>2. t = IF s.ac[c].jumping THEN StartPacketSendProcess(CalledOff(s, c), c, TRUE, d)
          ELSE SubtractElapsedTime(s, c)
  BY PauseBackoffTyped
<1> HIDE DEF t
<1>3. CASE s.ac[c].jumping
  <2> DEFINE off == CalledOff(s, c)
             i == [s.ac[c] EXCEPT !.duration = INFINITE]
             u == StartPacketSendProcess(off, c, TRUE, d)
  <2>1. i \in AccessCategoryInfos /\ i.duration = INFINITE /\ i.window = s.ac[c].window
        /\ i.packet = s.ac[c].packet /\ i.hasPacketToSend = s.ac[c].hasPacketToSend
    BY <1>1, Timings DEF AccessCategoryInfos
  <2>2. off = With(s, c, i)  BY DEF CalledOff
  <2> HIDE DEF i, off
  <2>3. off \in StationTypes /\ SameRest(s, off) /\ off.ac[c] = i /\ Elsewhere(s, off, c)
    BY <2>1, <2>2, WithRest
  <2>4. off.macState = "BusyMedium"  BY <2>3 DEF SameRest
  <2>5. i.window <= MaxWindow[c] /\ PacketKnown(i)  BY <2>1 DEF CategoryOK, PacketKnown
  <2>6. /\ u \in StationTypes /\ SameRest(off, u) /\ Elsewhere(off, u, c)
        /\ CategoryOK(u.ac[c], c, FALSE, FALSE)
    BY <2>1, <2>3, <2>4, <2>5, ForcedBackoff
  <2>7. t = u  BY <1>2, <1>3 DEF off
  <2> HIDE DEF u
  <2> QED  BY <2>3, <2>6, <2>7, SameRestTransitive, ElsewhereTransitive DEF t
<1>4. CASE ~s.ac[c].jumping /\ s.ac[c].duration = INFINITE
  <2>1. t = s  BY <1>2, <1>4 DEF SubtractElapsedTime
  <2>2. CategoryOK(s.ac[c], c, FALSE, FALSE)  BY <1>4, CountsOrNot
  <2> QED  BY <2>1, <2>2, ElsewhereSame DEF SameRest, t
<1>5. CASE ~s.ac[c].jumping /\ s.ac[c].duration # INFINITE
  <2> DEFINE u == SubtractUsedSlots(s, c)
             j == WaitingSlots(u.ac[c], c, u.ac[c].slots)
  <2>1. /\ u \in StationTypes /\ SameRest(s, u) /\ Elsewhere(s, u, c)
        /\ \E n \in 0 .. s.ac[c].slots : u.ac[c] = [s.ac[c] EXCEPT !.slots = n]
    BY <1>5, SlotsTakenOff
  <2>2. t = With(u, c, j)  BY <1>2, <1>5, SubtractElapsedTimeTyped
  <2> HIDE DEF u
  <2>3. PICK n \in 0 .. s.ac[c].slots : u.ac[c] = [s.ac[c] EXCEPT !.slots = n]  BY <2>1
  <2>4. /\ u.ac[c] \in AccessCategoryInfos /\ u.ac[c].slots = n
        /\ u.ac[c].window = s.ac[c].window /\ ~u.ac[c].jumping
        /\ u.ac[c].packet = s.ac[c].packet
        /\ u.ac[c].hasPacketToSend = s.ac[c].hasPacketToSend
    <3>1. u.ac[c] \in AccessCategoryInfos  BY <2>1, InfoTyped
    <3> QED  BY <1>1, <1>5, <2>3, <3>1 DEF AccessCategoryInfos
  <2>5. n \in Nat /\ n <= MaxWindow[c] /\ u.ac[c].window <= MaxWindow[c]
    <3>1. s.ac[c].slots \in Nat /\ s.ac[c].slots <= MaxWindow[c] /\ MaxWindow[c] \in Nat
      BY <1>1, Windows DEF AccessCategoryInfos, CategoryOK
    <3> QED  BY <2>4, <3>1 DEF CategoryOK
  <2>6. u.ac[c].packet # NONE => u.ac[c].hasPacketToSend  BY <2>4 DEF CategoryOK
  <2>7. CategoryOK(j, c, FALSE, FALSE) /\ j \in AccessCategoryInfos
    BY <2>4, <2>5, <2>6, DrawnOK
  <2> HIDE DEF j
  <2>8. With(u, c, j) \in StationTypes /\ SameRest(u, With(u, c, j))
        /\ With(u, c, j).ac[c] = j /\ Elsewhere(u, With(u, c, j), c)
    BY <2>1, <2>7, WithRest
  <2> QED  BY <2>1, <2>2, <2>7, <2>8, SameRestTransitive, ElsewhereTransitive DEF t
<1> QED  BY <1>3, <1>4, <1>5

\* The PHY has heard something: the MAC knows nothing of it yet.
SameMac(s, x) ==
    /\ x.macState = s.macState /\ x.timer = s.timer /\ x.stale = s.stale /\ x.nav = s.nav
    /\ x.permission = s.permission /\ x.idleFor = s.idleFor /\ x.corrupt = s.corrupt
    /\ x.last = s.last /\ x.lastSent = s.lastSent /\ x.ac = s.ac
    /\ x.outgoing = s.outgoing /\ x.sent = s.sent /\ x.quiet = s.quiet /\ x.gap = s.gap
    /\ x.failed = s.failed

\* A MAC that is busy anyway does not mind.
LEMMA BusyAnyway ==
    ASSUME NEW s, Consistent(s), IsWaiting(s) \/ s.macState = "BusyMedium", s.outgoing = NONE,
           NEW x \in StationTypes, SameMac(s, x), x.phyState \in {"Scanning", "Receiving"},
           x.sensing
    PROVE  Consistent(x)
<1>1. Basics(s) /\ MacOK(s) /\ InOrder(s, Counts(s), ExchangeOf(s))
  BY DEF Consistent, Coherent
<1>2. Basics(x) /\ PhyOK(x)
  BY <1>1 DEF Basics, PhyOK, SameMac, IsTransmittingAFrame
<1>3. QuietOK(x) /\ CountingOK(x) /\ GapOK(x)
  BY DEF QuietOK, CountingOK, Counts, GapOK, SameMac, IsWaiting
<1>4. MacOK(x)  BY <1>1 DEF MacOK, SameMac, IsWaiting
<1>5. ExchangeOf(x) = ExchangeOf(s) /\ Counts(x) = Counts(s)
  BY DEF ExchangeOf, Counts, SameMac, IsWaiting
<1>6. InOrder(x, Counts(x), ExchangeOf(x))  BY <1>1, <1>5 DEF InOrder, SameMac
<1> QED  BY <1>2, <1>3, <1>4, <1>6 DEF Consistent, Coherent

\* Every category pauses.
LEMMA PauseLoopOK ==
    ASSUME NEW s \in StationTypes, NEW d \in DrawTypes, s.macState = "BusyMedium",
           InOrder(s, TRUE, {}),
           \A c \in Categories : s.ac[c].duration # INFINITE =>
               s.ac[c].elapsed <= s.ac[c].duration + Extension(s),
           NEW t, RunsTo("PAUSE", s, d, d, t)
    PROVE  t \in StationTypes /\ SameRest(s, t) /\ InOrder(t, FALSE, {})
<1> DEFINE last == NumberAccessCategories
           Paused(n, y) ==
               /\ SameRest(s, y)
               /\ \A k \in Categories :
                      /\ k >= last - n => CategoryOK(y.ac[k], k, FALSE, FALSE)
                      /\ k < last - n => y.ac[k] = s.ac[k]
           Good == {p \in Int \X StationTypes : Paused(p[1], p[2])}
<1>1. last \in Nat  BY Timings
<1>2. \A k \in Categories : CategoryOK(s.ac[k], k, TRUE, FALSE)
  <2> TAKE k \in Categories
  <2>1. CategoryOK(s.ac[k], k, TRUE, k \in {})  BY DEF InOrder
  <2>2. (k \in {}) = FALSE  OBVIOUS
  <2> QED  BY <2>1, <2>2
<1>3. <<0, s>> \in Good
  <2>1. \A k \in Categories : ~(k >= last - 0)  BY <1>1 DEF Categories
  <2>2. SameRest(s, s)  BY DEF SameRest
  <2>3. Paused(0, s)  BY <2>1, <2>2
  <2> HIDE DEF Paused
  <2> QED  BY <2>3
<1>4. ASSUME NEW n \in 1 .. last, NEW y, <<n - 1, y>> \in Good
      PROVE  <<n, OneRound("PAUSE", y, last - n, d, d)>> \in Good
  <2> DEFINE k == last - n
             u == PauseBackoff(y, k, d)
  <2>1. /\ y \in StationTypes /\ SameRest(s, y)
        /\ \A j \in Categories :
               /\ j >= last - (n - 1) => CategoryOK(y.ac[j], j, FALSE, FALSE)
               /\ j < last - (n - 1) => y.ac[j] = s.ac[j]
    BY <1>4
  <2>2. /\ k \in Categories /\ k < last - (n - 1)
        /\ \A j \in Categories :
               /\ j >= last - n => j = k \/ j >= last - (n - 1)
               /\ j < last - n => j # k /\ j < last - (n - 1)
    BY <1>1 DEF Categories
  <2>3. OneRound("PAUSE", y, k, d, d) = u  BY DEF OneRound
  <2>4. y.ac[k] = s.ac[k]  BY <2>1, <2>2
  <2> HIDE DEF k
  <2>5. y.macState = "BusyMedium" /\ Extension(y) = Extension(s)
    BY <2>1 DEF SameRest, Extension
  <2>6. CategoryOK(y.ac[k], k, TRUE, FALSE)  BY <1>2, <2>2, <2>4
  <2>7. y.ac[k].duration # INFINITE =>
            y.ac[k].elapsed <= y.ac[k].duration + Extension(y)
    BY <2>2, <2>4, <2>5
  <2>8. /\ u \in StationTypes /\ SameRest(y, u) /\ Elsewhere(y, u, k)
        /\ CategoryOK(u.ac[k], k, FALSE, FALSE)
    BY <2>1, <2>2, <2>5, <2>6, <2>7, PauseOK
  <2> HIDE DEF u
  <2>9. SameRest(s, u)  BY <2>1, <2>8, SameRestTransitive
  <2>10. \A j \in Categories :
             /\ j >= last - n => CategoryOK(u.ac[j], j, FALSE, FALSE)
             /\ j < last - n => u.ac[j] = s.ac[j]
    <3> TAKE j \in Categories
    <3>1. CASE j = k
      <4>1. ~(j < last - n)  BY <2>2, <3>1
      <4> QED  BY <2>8, <3>1, <4>1
    <3>2. CASE j # k
      <4>1. u.ac[j] = y.ac[j]  BY <2>8, <3>2 DEF Elsewhere
      <4> QED  BY <2>1, <2>2, <3>2, <4>1
    <3> QED  BY <3>1, <3>2
  <2>11. Paused(n, u)  BY <2>9, <2>10
  <2>12. <<n, u>> \in Good
    <3> HIDE DEF Paused
    <3> QED  BY <2>8, <2>11
  <2> QED  BY <2>3, <2>12 DEF k
<1> HIDE DEF Good
<1>5. <<NumberAccessCategories, t>> \in Good
  <2> HIDE DEF last
  <2> QED  BY <1>3, <1>4, LoopInvariant DEF last
<1>6. /\ t \in StationTypes /\ SameRest(s, t)
      /\ \A k \in Categories : CategoryOK(t.ac[k], k, FALSE, FALSE)
  <2>1. \A k \in Categories : k >= last - NumberAccessCategories
    BY <1>1 DEF Categories
  <2> QED  BY <1>5, <2>1 DEF Good
<1>7. InOrder(t, FALSE, {})
  <2> SUFFICES ASSUME NEW k \in Categories PROVE CategoryOK(t.ac[k], k, FALSE, k \in {})
    BY DEF InOrder
  <2>1. (k \in {}) = FALSE  OBVIOUS
  <2> QED  BY <1>6, <2>1
<1> QED  BY <1>6, <1>7

\* The MAC is told that the channel is busy.
LEMMA SensesBusyOK ==
    ASSUME NEW s, Consistent(s), s.phyState = "Scanning",
           NEW x \in StationTypes, SameMac(s, x), x.phyState \in {"Scanning", "Receiving"},
           x.sensing = s.sensing, NEW d \in DrawTypes
    PROVE  LET t == SensesBusy(x, d)
           IN  Consistent(t) /\ t.phyState = x.phyState /\ t.others = x.others
<1> DEFINE y == [x EXCEPT !.sensing = TRUE]
           r == BusyChannelNotification(y, d)
           t == SensesBusy(x, d)
<1>1. /\ Basics(s) /\ MacOK(s) /\ PhyOK(s) /\ InOrder(s, Counts(s), ExchangeOf(s))
      /\ CountingOK(s) /\ Coherent(s)
  BY DEF Consistent, Coherent
<1>2. s.outgoing = NONE  BY <1>1 DEF PhyOK, IsTransmittingAFrame
<1>3. s.macState \in MacStates /\ x.sensing \in BOOLEAN  BY <1>1 DEF Basics, StationTypes
<1>4. t = IF x.sensing THEN x ELSE r  BY DEF SensesBusy
<1> HIDE DEF t
<1>5. CASE s.sensing
  <2>1. IsWaiting(s) \/ s.macState = "BusyMedium"
    BY <1>5, ReceivesWhen DEF Receives
  <2>2. Consistent(x)  BY <1>2, <1>5, <2>1, BusyAnyway
  <2> QED  BY <1>4, <1>5, <2>2 DEF t
<1>6. CASE ~s.sensing
  <2>1. /\ y \in StationTypes /\ SameMac(s, y) /\ y.phyState = x.phyState /\ y.sensing
        /\ y.others = x.others
    BY DEF StationTypes, SameMac
  <2>2. t = r  BY <1>4, <1>6
  <2> HIDE DEF y
  <2> DEFINE b == [y EXCEPT !.macState = "BusyMedium"]
  <2>3. /\ b \in StationTypes /\ b.macState = "BusyMedium" /\ b.timer = s.timer
        /\ b.stale = s.stale /\ b.nav = s.nav /\ b.permission = s.permission /\ b.failed = s.failed
        /\ b.outgoing = s.outgoing /\ b.sent = s.sent /\ b.ac = s.ac
        /\ b.phyState = x.phyState /\ b.sensing /\ b.others = x.others /\ b.corrupt = s.corrupt
    BY <2>1 DEF SameMac, StationTypes, MacStates
  <2>8. s.macState \in {"WaitingForNavExpiration", "WaitingForIfsAndBackoff"} =>
            TurnsBusy(y) = b
    <3>1. y.macState = s.macState /\ y.timer = s.timer  BY <2>1 DEF SameMac
    <3>2. MaxReserved < INFINITE /\ MaxReserved \in Nat /\ INFINITE \in Nat
      BY TimesAreFinite, EnvironmentAssumption, Timings
    <3>3. s.nav \in Int  BY <1>1 DEF Basics, StationTypes
    <3>4. s.macState \in {"WaitingForNavExpiration", "WaitingForIfsAndBackoff"} =>
              s.timer < INFINITE
      BY <1>1, <3>2, <3>3 DEF Basics, MacOK, CountingOK, Counts
    <3> QED  BY <3>1, <3>2, <3>4 DEF TurnsBusy, Expect
  <2>4. PICK p : /\ RunsTo("PAUSE", TurnsBusy(y), d, d, p)
                 /\ r = CASE y.macState = "WaitingForNavExpiration" ->
                                 [TurnsBusy(y) EXCEPT !.timer = INFINITE]
                          [] y.macState = "WaitingForIfsAndBackoff" ->
                                 [p EXCEPT !.timer = INFINITE, !.ac = NoStartTimes(p)]
                          [] y.macState = "Idle" -> b
                          [] OTHER -> Expect(y, y.macState # "Transient")
    BY PauseLoop
  <2>5. y.macState = s.macState  BY <2>1 DEF SameMac
  <2> HIDE DEF r
  <2>6. CASE s.macState \in {"Idle", "WaitingForNavExpiration", "WaitingForIfsAndBackoff"}
    <3>1. ExchangeOf(s) = {} /\ s.sent = NONE
      BY <1>1, <1>2, <2>6 DEF ExchangeOf, IsWaiting, MacOK, NONE
    <3>2. CASE s.macState # "WaitingForIfsAndBackoff"
      <4> DEFINE off == TimerOff(b)
      <4>1. Counts(s) = FALSE  BY <3>2 DEF Counts
      <4>2. InOrder(s, FALSE, {})  BY <1>1, <3>1, <4>1
      <4>3. off = IF s.macState = "Idle" THEN b ELSE [b EXCEPT !.timer = INFINITE]
        <5>1. CASE s.macState = "Idle"
          <6>1. b.timer = INFINITE  BY <1>1, <2>3, <5>1 DEF MacOK
          <6> HIDE DEF b
          <6>2. [b EXCEPT !.timer = INFINITE] = b  BY <2>3, <6>1 DEF StationTypes
          <6> QED  BY <5>1, <6>2 DEF TimerOff
        <5>2. CASE s.macState # "Idle"  BY <5>2 DEF TimerOff
        <5> QED  BY <5>1, <5>2
      <4>4. r = off  BY <2>4, <2>5, <2>6, <2>8, <3>2, <4>3
      <4> HIDE DEF b
      <4>5. off \in StationTypes /\ off.timer = INFINITE /\ off.ac = b.ac
            /\ off.macState = b.macState /\ off.stale = b.stale
            /\ off.nav = b.nav /\ off.permission = b.permission /\ off.failed = b.failed
            /\ off.outgoing = b.outgoing /\ off.sent = b.sent /\ off.others = b.others
            /\ off.phyState = b.phyState /\ off.sensing = b.sensing
        <5>1. off \in StationTypes  BY <2>3, TimerOffTyped
        <5> QED  BY <2>3, <5>1 DEF TimerOff, StationTypes
      <4> HIDE DEF off
      <4>6. Busy(off)
        BY <1>1, <1>2, <2>3, <3>1, <4>2, <4>5 DEF Busy, Basics, InOrder
      <4> QED  BY <2>2, <2>3, <4>4, <4>5, <4>6, BusyOK DEF t
    <3>3. CASE s.macState = "WaitingForIfsAndBackoff"
      <4> DEFINE off == CountdownOff(p)
      <4>1. Counts(s) = TRUE  BY <3>3 DEF Counts
      <4>2. InOrder(b, TRUE, {})  BY <1>1, <2>3, <3>1, <4>1 DEF InOrder
      <4>3. \A c \in Categories : b.ac[c].duration # INFINITE =>
                b.ac[c].elapsed <= b.ac[c].duration + Extension(b)
        BY <1>1, <2>3, <4>1, NotOverdue DEF Extension
      <4>4. r = off  BY <2>4, <2>5, <3>3 DEF CountdownOff
      <4> HIDE DEF b
      <4>5. p \in StationTypes /\ SameRest(b, p) /\ InOrder(p, FALSE, {})
        BY <2>3, <2>4, <2>8, <3>3, <4>2, <4>3, PauseLoopOK
      <4>6. off \in StationTypes  BY <4>5, TimerOffTyped
      <4>7. /\ off.timer = INFINITE /\ off.ac = NoStartTimes(p) /\ off.macState = p.macState
            /\ off.stale = p.stale /\ off.nav = p.nav /\ off.permission = p.permission /\ off.failed = p.failed
            /\ off.outgoing = p.outgoing /\ off.sent = p.sent /\ off.others = p.others
            /\ off.phyState = p.phyState /\ off.sensing = p.sensing
        BY <4>5 DEF CountdownOff, StationTypes
      <4> HIDE DEF off
      <4>8. InOrder(off, FALSE, {})
        BY <4>5, <4>7, NoStartTimesOK DEF InOrder
      <4>9. Busy(off)
        <5>1. /\ off.timer = INFINITE /\ off.macState = b.macState /\ off.stale = b.stale
              /\ off.nav = b.nav /\ off.permission = b.permission /\ off.failed = b.failed
              /\ off.outgoing = b.outgoing /\ off.sent = b.sent
              /\ off.phyState = b.phyState /\ off.sensing = b.sensing
          <6>1. SameRest(b, p)  BY <4>5
          <6> QED  BY ONLY <4>7, <6>1 DEF SameRest
        <5>2. /\ b.stale = INFINITE /\ b.permission = INFINITE /\ ~b.failed /\ b.nav <= MaxReserved
              /\ b.macState = "BusyMedium"
              /\ b.phyState \in {"Scanning", "Receiving"} /\ b.sensing
              /\ b.outgoing = NONE /\ b.sent = NONE
          BY <1>1, <1>2, <2>3, <3>1 DEF Basics
        <5> QED  BY ONLY <4>6, <4>8, <5>1, <5>2 DEF Busy
      <4> QED  BY <2>2, <2>3, <4>4, <4>5, <4>7, <4>9, BusyOK DEF t, SameRest
    <3> QED  BY <3>2, <3>3
  <2>7. CASE s.macState \notin {"Idle", "WaitingForNavExpiration", "WaitingForIfsAndBackoff"}
    <3>1. IsWaiting(s) \/ s.macState = "BusyMedium"
      BY <1>1, <1>2, <1>3, <2>7 DEF MacOK, MacStates, IsWaiting, NONE
    <3>2. Consistent(y)  BY <1>2, <2>1, <3>1, BusyAnyway
    <3>3. r = y  BY <1>1, <2>4, <2>5, <2>7 DEF Expect, MacOK
    <3> QED  BY <2>1, <2>2, <3>2, <3>3 DEF t
  <2> QED  BY <2>6, <2>7
<1> QED  BY <1>5, <1>6

\* A signal of another station reaches the PHY.
LEMMA NewSignalOK ==
    ASSUME NEW s, Consistent(s), Settled(s), NEW signal \in {"FOREIGN", "REPLY"},
           NEW preambleIsDetected \in BOOLEAN, NEW loud \in BOOLEAN, NEW d \in DrawTypes
    PROVE  LET t == ProcessNewSignal(s, signal, preambleIsDetected, loud, d)
           IN  Consistent(t) /\ Settled(t)
<1> DEFINE t == ProcessNewSignal(s, signal, preambleIsDetected, loud, d)
           a == LocksOn(s, signal, loud)
           b == [s EXCEPT !.others = s.others + 1]
           more == IF s.loud THEN s.others + 1 ELSE s.others
           e == [a EXCEPT !.others = more]
<1>1. /\ s \in StationTypes /\ Basics(s) /\ MacOK(s) /\ PhyOK(s) /\ QuietOK(s)
      /\ CountingOK(s) /\ GapOK(s) /\ InOrder(s, Counts(s), ExchangeOf(s))
  BY DEF Consistent, Coherent, Basics
<1>2. /\ a \in StationTypes /\ SameMac(s, a) /\ a.phyState = "Receiving"
      /\ a.sensing = s.sensing
  BY <1>1 DEF LocksOn, StationTypes, PhyStates, SameMac
<1>3. /\ b \in StationTypes /\ SameMac(s, b) /\ b.phyState = s.phyState
      /\ b.sensing = s.sensing /\ b.others = s.others + 1 /\ b.others > 0
  BY <1>1 DEF StationTypes, SameMac
<1>4. s.phyState = "Receiving" =>
          /\ e \in StationTypes /\ SameMac(s, e) /\ e.phyState = s.phyState
          /\ e.sensing = s.sensing
  <2>1. more \in Nat  BY <1>1 DEF StationTypes
  <2> HIDE DEF a, more
  <2>2. e \in StationTypes  BY <1>2, <2>1 DEF StationTypes
  <2>3. SameMac(a, e) /\ e.phyState = a.phyState /\ e.sensing = a.sensing
    BY <1>2 DEF StationTypes, SameMac
  <2> HIDE DEF e
  <2> QED  BY <1>2, <2>2, <2>3 DEF SameMac
<1>5. \/ s.phyState = "Scanning" /\ t = SensesBusy(a, d)
      \/ s.phyState = "Scanning" /\ t = SensesBusy(b, d)
      \/ s.phyState = "Receiving" /\ t = e
      \/ s.phyState # "Scanning" /\ t = b
      \/ t = s
  BY NewSignalCases
<1> HIDE DEF t, a, b, e
<1>6. ASSUME NEW x \in StationTypes, SameMac(s, x), x.phyState = s.phyState,
             x.sensing = s.sensing, s.phyState # "Scanning"
      PROVE  Consistent(x) /\ Settled(x)
  <2>1. Basics(x) /\ PhyOK(x)
    BY <1>1, <1>6 DEF Basics, PhyOK, SameMac, IsTransmittingAFrame
  <2>2. QuietOK(x)  BY <1>1, <1>6 DEF QuietOK, SameMac
  <2>3. GapOK(x)  BY <1>1, <1>6 DEF GapOK, Extension, SameMac
  <2>4. MacOK(x)  BY <1>1, <1>6 DEF MacOK, HearsNothing, IsWaiting, SameMac
  <2>5. ExchangeOf(x) = ExchangeOf(s) /\ Counts(x) = Counts(s)
    BY <1>6 DEF ExchangeOf, Counts, SameMac, IsWaiting
  <2>6. CountingOK(x)
    <3>1. ~Counts(s)  BY <1>1, <1>6 DEF MacOK, HearsNothing, Counts
    <3> QED  BY <2>5, <3>1 DEF CountingOK
  <2>7. InOrder(x, Counts(x), ExchangeOf(x))  BY <1>1, <1>6, <2>5 DEF InOrder, SameMac
  <2>8. Settled(x)  BY <1>6 DEF Settled
  <2> QED  BY <2>1, <2>2, <2>3, <2>4, <2>6, <2>7, <2>8 DEF Consistent, Coherent
<1>7. CASE s.phyState = "Scanning" /\ t = SensesBusy(a, d)
  <2> DEFINE u == SensesBusy(a, d)
  <2>1. Consistent(u) /\ u.phyState = a.phyState
    BY <1>2, <1>7, SensesBusyOK
  <2>2. t = u  BY <1>7
  <2> HIDE DEF u
  <2> QED  BY <1>2, <2>1, <2>2 DEF t, Settled
<1>8. CASE s.phyState = "Scanning" /\ t = SensesBusy(b, d)
  <2> DEFINE u == SensesBusy(b, d)
  <2>1. Consistent(u) /\ u.others = b.others
    BY <1>3, <1>8, SensesBusyOK
  <2>2. t = u  BY <1>8
  <2> HIDE DEF u
  <2> QED  BY <1>3, <2>1, <2>2 DEF t, Settled
<1>9. CASE s.phyState = "Receiving" /\ t = e  BY <1>4, <1>6, <1>9 DEF t
<1>10. CASE s.phyState # "Scanning" /\ t = b  BY <1>3, <1>6, <1>10 DEF t
<1>11. CASE t = s  BY <1>11 DEF t
<1> QED  BY <1>5, <1>7, <1>8, <1>9, <1>10, <1>11

\* Another signal ends.
LEMMA EndOfOtherOK ==
    ASSUME NEW s, Consistent(s), Settled(s), s.others > 0, NEW d \in DrawTypes
    PROVE  LET t == ProcessEndOfOtherSignal(s, d)
           IN  Consistent(t) /\ Settled(t)
<1> DEFINE x == [s EXCEPT !.others = @ - 1]
           t == ProcessEndOfOtherSignal(s, d)
<1>1. /\ s \in StationTypes /\ Basics(s) /\ MacOK(s) /\ PhyOK(s) /\ QuietOK(s)
      /\ CountingOK(s) /\ GapOK(s) /\ InOrder(s, Counts(s), ExchangeOf(s))
  BY DEF Consistent, Coherent, Basics
<1>2. /\ x \in StationTypes /\ SameMac(s, x) /\ x.phyState = s.phyState
      /\ x.sensing = s.sensing
  <2>1. s.others - 1 \in Nat  BY <1>1 DEF StationTypes
  <2> QED  BY <1>1, <2>1 DEF StationTypes, SameMac
<1>3. t = IF s.sensing THEN SensesClearIfSilent(x, d) ELSE x  BY DEF ProcessEndOfOtherSignal
<1> HIDE DEF x, t
<1>4. Consistent(x)
  <2>1. s.phyState = "Scanning" => s.sensing  BY <1>1 DEF PhyOK
  <2>2. Basics(x) /\ PhyOK(x)
    BY <1>1, <1>2, <2>1 DEF Basics, PhyOK, SameMac, IsTransmittingAFrame
  <2>3. QuietOK(x)  BY <1>1, <1>2 DEF QuietOK, SameMac
  <2>4. GapOK(x)  BY <1>1, <1>2 DEF GapOK, Extension, SameMac
  <2>5. MacOK(x)  BY <1>1, <1>2 DEF MacOK, HearsNothing, IsWaiting, SameMac
  <2>6. ExchangeOf(x) = ExchangeOf(s) /\ Counts(x) = Counts(s)
    BY <1>2 DEF ExchangeOf, Counts, SameMac, IsWaiting
  <2>7. CountingOK(x)
    <3>1. ~Counts(s)  BY <1>1, <2>1 DEF MacOK, HearsNothing, Counts
    <3> QED  BY <2>6, <3>1 DEF CountingOK
  <2>8. InOrder(x, Counts(x), ExchangeOf(x))  BY <1>1, <1>2, <2>6 DEF InOrder, SameMac
  <2> QED  BY <2>2, <2>3, <2>4, <2>5, <2>7, <2>8 DEF Consistent, Coherent
<1>5. CASE s.sensing
  BY <1>2, <1>3, <1>4, <1>5, SensesClearOK DEF t
<1>6. CASE ~s.sensing
  <2>1. t = x  BY <1>3, <1>6
  <2> QED  BY <1>2, <1>4, <1>6, <2>1 DEF t, Settled
<1> QED  BY <1>5, <1>6

-----------------------------------------------------------------------------
(* A frame of its own goes out. *)

\* A data frame or an RTS is on its way to the medium.
Sending(s) ==
    /\ s.phyState = "TxStarting"
    /\ \/ /\ s.macState = "WaitingForCts" /\ s.outgoing = "RTS" /\ s.lastSent = "RTS"
          /\ s.ac[s.last].packet = "LONG" /\ s.sent = NONE
       \/ /\ s.macState = "WaitingForAck" /\ s.outgoing = "DATA" /\ s.lastSent # "RTS"
          /\ s.ac[s.last].packet = NONE
       \/ s.macState = "BusyMedium" /\ s.outgoing = "DATA" /\ s.sent = NONE

\* What sending does not touch.
SameSurroundings(s, t) ==
    /\ t.timer = s.timer /\ t.stale = s.stale /\ t.nav = s.nav
    /\ t.permission = s.permission /\ t.failed = s.failed /\ t.sensing = s.sensing
    /\ t.corrupt = s.corrupt /\ t.quiet = s.quiet /\ t.idleFor = s.idleFor

\* A PHY that only scans takes a frame.
LEMMA TransmitFrameOK ==
    ASSUME NEW s \in StationTypes, NEW frame \in {"DATA", "RTS", "CONTROL"},
           NEW packet \in UnicastFrames \cup {NONE}, NEW delay \in Nat, s.phyState = "Scanning"
    PROVE  LET t == TransmitFrame(s, frame, packet, delay)
           IN  /\ t \in StationTypes /\ SameSurroundings(s, t)
               /\ t.phyState = "TxStarting" /\ t.outgoing = frame /\ t.sent = packet
               /\ t.macState = s.macState /\ t.ac = s.ac /\ t.last = s.last
               /\ t.lastSent = s.lastSent
<1> DEFINE t == TransmitFrame(s, frame, packet, delay)
           heard == IF s.loud THEN s.others + 1 ELSE s.others
           u == [s EXCEPT !.phyState = "TxStarting", !.outgoing = frame, !.txLeft = delay,
                          !.sent = packet, !.receiving = NONE, !.loud = FALSE,
                          !.others = heard]
<1>1. t \in StationTypes  BY TransmitFrameTyped
<1>2. t = u
  <2>1. Expect(s, s.phyState \in {"Scanning", "Receiving"}) = s  BY DEF Expect
  <2> QED  BY <2>1 DEF TransmitFrame
<1> HIDE DEF t, heard
<1>3. u.phyState = "TxStarting" /\ u.outgoing = frame /\ u.sent = packet  BY DEF StationTypes
<1>4. /\ u.permission = s.permission /\ u.macState = s.macState /\ u.ac = s.ac
      /\ u.timer = s.timer /\ u.stale = s.stale /\ u.nav = s.nav /\ u.last = s.last
      /\ u.lastSent = s.lastSent /\ u.sensing = s.sensing /\ u.corrupt = s.corrupt
      /\ u.quiet = s.quiet /\ u.idleFor = s.idleFor /\ u.failed = s.failed
  BY DEF StationTypes
<1> HIDE DEF u
<1> QED  BY <1>1, <1>2, <1>3, <1>4 DEF SameSurroundings, t

\* A category that is about to send the packet it has in hand.
MaySend(i, c) ==
    /\ i.packet # NONE /\ i.hasPacketToSend /\ ~i.jumping /\ i.duration = INFINITE
    /\ i.slots <= MaxWindow[c] /\ i.window <= MaxWindow[c]

\* Without the end of a permission in view it is sent.
LEMMA SendsOK ==
    ASSUME NEW s \in StationTypes, NEW c \in Categories, MaySend(s.ac[c], c),
           s.phyState = "Scanning", s.permission = INFINITE,
           NEW noRequestToSend \in BOOLEAN, NEW delay \in Nat
    PROVE  LET t == TransmitCurrentPacket(s, c, noRequestToSend, delay)
           IN  /\ t \in StationTypes /\ Elsewhere(s, t, c) /\ SameSurroundings(s, t)
               /\ Sending(t) /\ t.last = c
               /\ CategoryOK(t.ac[c], c, FALSE, TRUE)
               /\ noRequestToSend /\ s.ac[c].packet = "LONG" => t.lastSent = "LONG"
<1> DEFINE t == TransmitCurrentPacket(s, c, noRequestToSend, delay)
           packet == s.ac[c].packet
           asks == AsksForRts(s, c)
           i == [s.ac[c] EXCEPT !.packet = NONE,
                                !.window = IF packet = "BROADCAST" THEN MinWindow[c] ELSE @]
           hands == HandsOver(s, c, packet)
           held == IF packet = "BROADCAST" THEN NONE ELSE packet
<1>1. s.ac[c] \in AccessCategoryInfos  BY InfoTyped
<1>2. packet \in DataFrames  BY <1>1 DEF MaySend, AccessCategoryInfos
<1>3. \/ PutsAside(s, c, t)
      \/ SendsRts(s, c, noRequestToSend, delay, t)
      \/ SendsData(s, c, noRequestToSend, delay, t)
  BY TransmitCurrentPacketCases DEF MaySend
<1>4. Elsewhere(s, t, c)  BY TransmitCurrentPacketElsewhere DEF MaySend
<1> HIDE DEF t
<1>5. CASE SendsRts(s, c, noRequestToSend, delay, t)
  <2>1. packet = "LONG" /\ ~noRequestToSend /\ t = TransmitFrame(asks, "RTS", NONE, delay)
    BY <1>5 DEF SendsRts
  <2>2. asks \in StationTypes  BY <1>2, SendingTyped
  <2>3. /\ asks.macState = "WaitingForCts" /\ asks.last = c /\ asks.lastSent = "RTS"
        /\ asks.ac = s.ac /\ asks.phyState = "Scanning" /\ SameSurroundings(s, asks)
    BY DEF AsksForRts, StationTypes, SameSurroundings
  <2> HIDE DEF asks
  <2>4. /\ t \in StationTypes
        /\ t.phyState = "TxStarting" /\ t.outgoing = "RTS" /\ t.sent = NONE
        /\ t.macState = asks.macState /\ t.ac = asks.ac /\ t.last = asks.last
        /\ t.lastSent = asks.lastSent
        /\ SameSurroundings(asks, t)
    <3> DEFINE x == TransmitFrame(asks, "RTS", NONE, delay)
    <3>1. /\ x \in StationTypes
          /\ x.phyState = "TxStarting" /\ x.outgoing = "RTS" /\ x.sent = NONE
          /\ x.macState = asks.macState /\ x.ac = asks.ac /\ x.last = asks.last
          /\ x.lastSent = asks.lastSent /\ SameSurroundings(asks, x)
      BY <2>2, <2>3, TransmitFrameOK
    <3>2. t = x  BY <2>1
    <3> HIDE DEF x
    <3> QED  BY <3>1, <3>2
  <2>6. SameSurroundings(s, t)  BY <2>3, <2>4 DEF SameSurroundings
  <2>7. CategoryOK(t.ac[c], c, FALSE, TRUE)  BY <2>3, <2>4 DEF CategoryOK, MaySend
  <2>8. Sending(t)  BY <2>1, <2>3, <2>4 DEF Sending
  <2> QED  BY <1>4, <2>1, <2>3, <2>4, <2>6, <2>7, <2>8 DEF t
<1>6. CASE SendsData(s, c, noRequestToSend, delay, t)
  <2>1. t = TransmitFrame(hands, "DATA", held, delay)  BY <1>6 DEF SendsData
  <2>2. hands \in StationTypes  BY <1>2, SendingTyped
  <2>3. i \in AccessCategoryInfos /\ i.packet = NONE /\ i.hasPacketToSend /\ ~i.jumping
        /\ i.duration = INFINITE /\ i.slots <= MaxWindow[c] /\ i.window <= MaxWindow[c]
    BY <1>1, Windows DEF MaySend, AccessCategoryInfos
  <2> HIDE DEF i
  <2>4. With(s, c, i) \in StationTypes /\ SameRest(s, With(s, c, i)) /\ With(s, c, i).ac[c] = i
    BY <2>3, WithRest
  <2>5. hands = [With(s, c, i) EXCEPT
                     !.last = c, !.lastSent = IF packet = "LONG" THEN "LONG" ELSE "SHORT",
                     !.macState = IF packet = "BROADCAST" THEN "BusyMedium" ELSE "WaitingForAck"]
    BY DEF HandsOver, i
  <2> DEFINE w == With(s, c, i)
  <2> HIDE DEF w, hands
  <2>6. /\ hands.macState = IF packet = "BROADCAST" THEN "BusyMedium" ELSE "WaitingForAck"
        /\ hands.lastSent = IF packet = "LONG" THEN "LONG" ELSE "SHORT"
        /\ hands.last = c /\ hands.ac = w.ac /\ hands.phyState = w.phyState
        /\ SameSurroundings(w, hands)
    BY <2>4, <2>5 DEF StationTypes, SameSurroundings, w
  <2>7. hands.ac[c] = i /\ hands.phyState = "Scanning" /\ SameSurroundings(s, hands)
    BY <2>4, <2>6 DEF SameRest, SameSurroundings, w
  <2>8. held \in UnicastFrames \cup {NONE} /\ (packet = "BROADCAST" => held = NONE)
    BY <1>2 DEF DataFrames
  <2> HIDE DEF held
  <2>9. /\ t \in StationTypes
        /\ t.phyState = "TxStarting" /\ t.outgoing = "DATA" /\ t.sent = held
        /\ t.macState = hands.macState /\ t.ac = hands.ac /\ t.last = hands.last
        /\ t.lastSent = hands.lastSent
        /\ SameSurroundings(hands, t)
    <3> DEFINE x == TransmitFrame(hands, "DATA", held, delay)
    <3>1. /\ x \in StationTypes
          /\ x.phyState = "TxStarting" /\ x.outgoing = "DATA" /\ x.sent = held
          /\ x.macState = hands.macState /\ x.ac = hands.ac /\ x.last = hands.last
          /\ x.lastSent = hands.lastSent /\ SameSurroundings(hands, x)
      BY <2>2, <2>7, <2>8, TransmitFrameOK
    <3>2. t = x  BY <2>1
    <3> HIDE DEF x
    <3> QED  BY <3>1, <3>2
  <2>11. SameSurroundings(s, t)  BY <2>7, <2>9 DEF SameSurroundings
  <2>12. CategoryOK(t.ac[c], c, FALSE, TRUE)  BY <2>3, <2>7, <2>9 DEF CategoryOK
  <2>13. t.last = c /\ t.ac[t.last].packet = NONE  BY <2>3, <2>6, <2>7, <2>9
  <2>14. Sending(t)
    <3>1. CASE packet = "BROADCAST"  BY <2>6, <2>8, <2>9, <3>1 DEF Sending
    <3>2. CASE packet # "BROADCAST"  BY <2>6, <2>9, <2>13, <3>2 DEF Sending
    <3> QED  BY <3>1, <3>2
  <2>15. packet = "LONG" => t.lastSent = "LONG"  BY <2>6, <2>9
  <2> QED  BY <1>4, <2>9, <2>11, <2>12, <2>13, <2>14, <2>15 DEF t
<1>7. ~PutsAside(s, c, t)  BY DEF PutsAside
<1> QED  BY <1>3, <1>5, <1>6, <1>7

\* Its station is in order.
LEMMA SendingOK ==
    ASSUME NEW s \in StationTypes, Sending(s), s.timer = INFINITE, s.stale = INFINITE,
           s.permission = INFINITE, ~s.failed, s.nav <= MaxReserved, InOrder(s, FALSE, {s.last}),
           s.lastSent # "LONG" => s.gap >= ShortestInterframeSpace + Extension(s)
    PROVE  Consistent(s)
<1>1. Basics(s) /\ PhyOK(s)
  BY Timings DEF Basics, PhyOK, Sending, IsTransmittingAFrame, NONE
<1>2. MacOK(s)  BY DEF MacOK, Sending, IsWaiting, NONE
<1>3. QuietOK(s) /\ CountingOK(s) /\ GapOK(s)
  BY DEF QuietOK, CountingOK, Counts, GapOK, Sending
<1>4. ExchangeOf(s) = {s.last} /\ Counts(s) = FALSE
  BY DEF ExchangeOf, Counts, Sending
<1> QED  BY <1>1, <1>2, <1>3, <1>4 DEF Consistent, Coherent

-----------------------------------------------------------------------------
(* The backoff of a category is over. *)

\* What the queue may hand out.
HandsOut(r, queued) ==
    /\ r \in RetrievalTypes /\ r.taken <= queued
    /\ r.packet = NONE => r.taken = queued

LEMMA QueueHandsOut ==
    ASSUME NEW s \in StationTypes, NEW r \in AllRetrievals(s), NEW c \in Categories
    PROVE  HandsOut(r[c], s.ac[c].queued)
<1>1. r[c] \in Retrievals(s, c)  BY DEF AllRetrievals
<1>2. r[c].packet = NONE => r[c].taken = s.ac[c].queued
  BY <1>1 DEF Retrievals, DataFrames, UnicastFrames, NONE
<1> QED  BY <1>2, RetrievalsTyped DEF HandsOut

\* A frame has been sent.
HasSent(s, t) ==
    Sending(t) /\ SameSurroundings(s, t) /\ t.gap = s.quiet + RxTxTurnaroundTime

\* The outcome of a category's attempt: it had nothing to send after all, or sends.
Tried(s, t, c) ==
    \/ SameRest(s, t) /\ CategoryOK(t.ac[c], c, FALSE, FALSE)
    \/ HasSent(s, t) /\ t.last = c /\ CategoryOK(t.ac[c], c, FALSE, TRUE)

LEMMA TryToSendOK ==
    ASSUME NEW s \in StationTypes, NEW c \in Categories,
           s.ac[c].slots <= MaxWindow[c], s.ac[c].window <= MaxWindow[c], PacketKnown(s.ac[c]),
           s.phyState = "Scanning", s.permission = INFINITE,
           NEW r, HandsOut(r, s.ac[c].queued)
    PROVE  LET t == TryToSend(s, c, r)
           IN  t \in StationTypes /\ Elsewhere(s, t, c) /\ Tried(s, t, c)
<1> DEFINE t == TryToSend(s, c, r)
           i == [Asked(s, c) EXCEPT !.duration = INFINITE]
           ready == NoBackoff(s, c)
           sent == TransmitAFrame(ready, c, FALSE, RxTxTurnaroundTime, r)
           taken == RetrievePacket(ready, c, r)
<1>1. s.ac[c] \in AccessCategoryInfos  BY InfoTyped
<1>2. r \in RetrievalTypes /\ r.taken <= s.ac[c].queued
      /\ (r.packet = NONE => r.taken = s.ac[c].queued)
  BY DEF HandsOut
<1>3. /\ t \in StationTypes /\ Elsewhere(s, t, c)
      /\ ready \in StationTypes /\ ready.ac[c].queued = s.ac[c].queued
      /\ t = IF ~HasPacket(s, c) THEN ready
             ELSE IF sent.phyState = "TxStarting"
                  THEN [sent EXCEPT !.gap = s.quiet + RxTxTurnaroundTime]
                  ELSE sent
  BY <1>2, TryToSendTyped
<1> HIDE DEF t
<1>4. i \in AccessCategoryInfos  BY NoBackoffTyped
<1>5. /\ i.slots = s.ac[c].slots /\ i.window = s.ac[c].window /\ ~i.jumping
      /\ i.duration = INFINITE /\ i.queued = s.ac[c].queued /\ i.packet = s.ac[c].packet
      /\ i.hasPacketToSend = HasPacket(s, c)
  BY <1>1, Timings DEF Asked, AccessCategoryInfos
<1>6. i.slots <= MaxWindow[c] /\ i.window <= MaxWindow[c]  BY <1>5
<1>7. ready = With(s, c, i)  BY DEF NoBackoff
<1> HIDE DEF i, ready
<1>8. ready \in StationTypes /\ SameRest(s, ready) /\ ready.ac[c] = i /\ Elsewhere(s, ready, c)
  BY <1>4, <1>7, WithRest
<1>9. CASE ~HasPacket(s, c)
  <2>1. t = ready  BY <1>3, <1>9
  <2>2. i.queued = 0 /\ i.packet = NONE
    BY <1>1, <1>5, <1>9 DEF HasPacket, PacketKnown, AccessCategoryInfos
  <2>3. CategoryOK(i, c, FALSE, FALSE)  BY <1>5, <1>6, <1>9, <2>2 DEF CategoryOK
  <2> QED  BY <1>3, <1>8, <2>1, <2>3 DEF Tried, t
<1>10. CASE HasPacket(s, c)
  <2>1. sent = IF ready.ac[c].packet # NONE
               THEN TransmitCurrentPacket(ready, c, FALSE, RxTxTurnaroundTime)
               ELSE IF r.packet = NONE THEN NothingToSend(taken, c)
               ELSE TransmitCurrentPacket(taken, c, FALSE, RxTxTurnaroundTime)
    <3>1. RxTxTurnaroundTime \in Nat /\ FALSE \in BOOLEAN  BY Timings
    <3>2. r \in RetrievalTypes /\ r.taken <= ready.ac[c].queued /\ ready \in StationTypes
      BY <1>2, <1>3
    <3> QED  BY <3>1, <3>2, TransmitAFrameTyped, Zenon
  <2> DEFINE j == Retrieved(ready, c, r)
  <2>2. taken = With(ready, c, j) /\ j \in AccessCategoryInfos
    BY <1>2, <1>3, RetrievePacketTyped
  <2>3. /\ j.slots = i.slots /\ j.window = i.window /\ ~j.jumping /\ j.duration = INFINITE
        /\ j.hasPacketToSend = i.hasPacketToSend /\ j.packet = r.packet
        /\ j.queued = i.queued - r.taken
    BY <1>2, <1>4, <1>5, <1>8 DEF Retrieved, AccessCategoryInfos, RetrievalTypes
  <2> HIDE DEF taken, j, sent
  <2>4. taken \in StationTypes /\ SameRest(ready, taken) /\ taken.ac[c] = j
    BY <1>3, <2>2, WithRest
  <2>5. SameRest(s, taken)  BY <1>8, <2>4, SameRestTransitive
  <2>6. i.hasPacketToSend  BY <1>5, <1>10
  <2>7. ASSUME NEW x \in StationTypes, SameRest(s, x), MaySend(x.ac[c], c),
               sent = TransmitCurrentPacket(x, c, FALSE, RxTxTurnaroundTime)
        PROVE  Tried(s, t, c)
    <3> DEFINE z == TransmitCurrentPacket(x, c, FALSE, RxTxTurnaroundTime)
    <3>1. x.phyState = "Scanning" /\ x.permission = INFINITE  BY <2>7 DEF SameRest
    <3>2. RxTxTurnaroundTime \in Nat  BY Timings
    <3>3. /\ z \in StationTypes /\ SameSurroundings(x, z)
          /\ Sending(z) /\ z.last = c /\ CategoryOK(z.ac[c], c, FALSE, TRUE)
      BY <2>7, <3>1, <3>2, SendsOK
    <3> HIDE DEF z
    <3>4. sent = z  BY <2>7 DEF z
    <3>5. SameSurroundings(s, sent)  BY <2>7, <3>3, <3>4 DEF SameSurroundings, SameRest
    <3>6. t = [sent EXCEPT !.gap = s.quiet + RxTxTurnaroundTime]
      BY <1>3, <1>10, <3>3, <3>4 DEF Sending
    <3>7. t.gap = s.quiet + RxTxTurnaroundTime /\ t.last = c /\ t.ac = sent.ac
      BY <3>3, <3>4, <3>6 DEF StationTypes
    <3>8. SameSurroundings(s, t)
      BY <3>3, <3>4, <3>5, <3>6 DEF SameSurroundings, StationTypes
    <3>9. Sending(t)  BY <3>3, <3>4, <3>6 DEF Sending, StationTypes
    <3>10. CategoryOK(t.ac[c], c, FALSE, TRUE)  BY <3>3, <3>4, <3>7
    <3> QED  BY <3>7, <3>8, <3>9, <3>10 DEF Tried, HasSent
  <2>8. CASE ready.ac[c].packet # NONE
    <3>1. MaySend(ready.ac[c], c)  BY <1>5, <1>6, <1>8, <2>6, <2>8 DEF MaySend
    <3>2. sent = TransmitCurrentPacket(ready, c, FALSE, RxTxTurnaroundTime)  BY <2>1, <2>8
    <3>3. Tried(s, t, c)  BY <1>8, <2>7, <3>1, <3>2
    <3> QED  BY <1>3, <3>3 DEF t
  <2>9. CASE ready.ac[c].packet = NONE /\ r.packet # NONE
    <3>1. MaySend(taken.ac[c], c)  BY <1>6, <2>3, <2>4, <2>6, <2>9 DEF MaySend
    <3>2. sent = TransmitCurrentPacket(taken, c, FALSE, RxTxTurnaroundTime)  BY <2>1, <2>9
    <3>3. Tried(s, t, c)  BY <2>4, <2>5, <2>7, <3>1, <3>2
    <3> QED  BY <1>3, <3>3 DEF t
  <2>10. CASE ready.ac[c].packet = NONE /\ r.packet = NONE
    <3> DEFINE k == [taken.ac[c] EXCEPT !.hasPacketToSend = FALSE]
    <3>1. /\ k \in AccessCategoryInfos /\ k.slots = j.slots /\ k.window = j.window /\ ~k.jumping
          /\ k.duration = INFINITE /\ ~k.hasPacketToSend /\ k.packet = NONE
          /\ k.queued = i.queued - r.taken
      BY <2>2, <2>3, <2>4, <2>10 DEF AccessCategoryInfos
    <3>2. sent = With(taken, c, k)  BY <2>1, <2>10 DEF NothingToSend
    <3> HIDE DEF k
    <3>3. sent.ac[c] = k /\ SameRest(taken, sent)
      BY <2>4, <3>1, <3>2, WithRest
    <3>4. SameRest(s, sent)  BY <2>5, <3>3, SameRestTransitive
    <3>5. k.queued = 0  BY <1>1, <1>2, <1>5, <2>10, <3>1 DEF AccessCategoryInfos
    <3>6. CategoryOK(k, c, FALSE, FALSE)  BY <1>6, <2>3, <3>1, <3>5 DEF CategoryOK
    <3>7. sent.phyState # "TxStarting"  BY <3>4 DEF SameRest
    <3>8. t = sent  BY <1>3, <1>10, <3>7
    <3> QED  BY <1>3, <3>3, <3>4, <3>6, <3>8 DEF Tried, t
  <2> QED  BY <2>8, <2>9, <2>10
<1> QED  BY <1>9, <1>10

\* A category that does not get the medium keeps a backoff, or draws another.
LEMMA GiveWayOK ==
    ASSUME NEW s \in StationTypes, NEW c \in Categories, NEW d \in DrawTypes,
           s.ac[c].slots <= MaxWindow[c], s.ac[c].window <= MaxWindow[c], PacketKnown(s.ac[c]),
           s.ac[c].jumping =>
               s.macState \notin {"Idle", "WaitingForIfsAndBackoff", "Transient"}
    PROVE  LET t == GiveWay(s, c, d)
           IN  /\ t \in StationTypes /\ SameRest(s, t) /\ Elsewhere(s, t, c)
               /\ CategoryOK(t.ac[c], c, FALSE, FALSE)
<1> DEFINE t == GiveWay(s, c, d)
           off == CalledOff(s, c)
           forced == StartPacketSendProcess(off, c, TRUE, d)
           doubled == DoubleTheContentionWindowAndPickANewBackoff(s, c, d)
<1>1. s.ac[c] \in AccessCategoryInfos  BY InfoTyped
<1>2. t = IF s.ac[c].jumping THEN forced
          ELSE IF s.ac[c].slots = 0 THEN doubled
          ELSE With(s, c, WaitingSlots(s.ac[c], c, s.ac[c].slots))
  BY GiveWayTyped
<1> HIDE DEF t
<1>3. CASE s.ac[c].jumping
  <2> DEFINE i == [s.ac[c] EXCEPT !.duration = INFINITE]
  <2>1. i \in AccessCategoryInfos /\ i.duration = INFINITE /\ i.window = s.ac[c].window
        /\ i.packet = s.ac[c].packet /\ i.hasPacketToSend = s.ac[c].hasPacketToSend
    BY <1>1, Timings DEF AccessCategoryInfos
  <2>2. off = With(s, c, i)  BY DEF CalledOff
  <2> HIDE DEF i, off
  <2>3. off \in StationTypes /\ SameRest(s, off) /\ off.ac[c] = i /\ Elsewhere(s, off, c)
    BY <2>1, <2>2, WithRest
  <2>4. off.macState \notin {"Idle", "WaitingForIfsAndBackoff", "Transient"}
    BY <1>3, <2>3 DEF SameRest
  <2>5. i.window <= MaxWindow[c] /\ PacketKnown(i)  BY <2>1 DEF PacketKnown
  <2>6. /\ forced \in StationTypes /\ SameRest(off, forced) /\ Elsewhere(off, forced, c)
        /\ CategoryOK(forced.ac[c], c, FALSE, FALSE)
    BY <2>1, <2>3, <2>4, <2>5, ForcedBackoff
  <2>7. t = forced  BY <1>2, <1>3
  <2> HIDE DEF forced
  <2> QED  BY <2>3, <2>6, <2>7, SameRestTransitive, ElsewhereTransitive DEF t
<1>4. ASSUME NEW i \in AccessCategoryInfos, NEW n \in Nat, n <= MaxWindow[c],
             i.window <= MaxWindow[c], ~i.jumping, i.packet # NONE => i.hasPacketToSend,
             t = With(s, c, WaitingSlots(i, c, n))
      PROVE  /\ t \in StationTypes /\ SameRest(s, t) /\ Elsewhere(s, t, c)
             /\ CategoryOK(t.ac[c], c, FALSE, FALSE)
  <2> DEFINE j == WaitingSlots(i, c, n)
  <2>1. CategoryOK(j, c, FALSE, FALSE) /\ j \in AccessCategoryInfos  BY <1>4, DrawnOK
  <2>2. t = With(s, c, j)  BY <1>4
  <2> HIDE DEF j
  <2>3. With(s, c, j) \in StationTypes /\ SameRest(s, With(s, c, j))
        /\ With(s, c, j).ac[c] = j /\ Elsewhere(s, With(s, c, j), c)
    BY <2>1, WithRest
  <2> QED  BY <2>1, <2>2, <2>3
<1>5. CASE ~s.ac[c].jumping /\ s.ac[c].slots = 0
  <2>1. PICK w \in Nat : \E n \in 0 .. w :
            /\ w <= MaxWindow[c]
            /\ doubled = With(s, c, WaitingSlots([s.ac[c] EXCEPT !.window = w], c, n))
    BY DoubleTyped
  <2>2. PICK n \in 0 .. w :
            /\ w <= MaxWindow[c]
            /\ doubled = With(s, c, WaitingSlots([s.ac[c] EXCEPT !.window = w], c, n))
    BY <2>1
  <2> DEFINE i == [s.ac[c] EXCEPT !.window = w]
  <2>3. i \in AccessCategoryInfos /\ ~i.jumping /\ i.window <= MaxWindow[c]
        /\ (i.packet # NONE => i.hasPacketToSend)
    BY <1>1, <1>5, <2>2 DEF AccessCategoryInfos, PacketKnown
  <2>4. n \in Nat /\ n <= MaxWindow[c]  BY <2>2, Windows
  <2>5. t = With(s, c, WaitingSlots(i, c, n))  BY <1>2, <1>5, <2>2
  <2> HIDE DEF i
  <2> QED  BY <1>4, <2>3, <2>4, <2>5 DEF t
<1>6. CASE ~s.ac[c].jumping /\ s.ac[c].slots # 0
  <2>1. s.ac[c].slots \in Nat  BY <1>1 DEF AccessCategoryInfos
  <2>2. t = With(s, c, WaitingSlots(s.ac[c], c, s.ac[c].slots))  BY <1>2, <1>6
  <2> QED  BY <1>1, <1>4, <1>6, <2>1, <2>2 DEF t, PacketKnown
<1> QED  BY <1>3, <1>5, <1>6

\* The station when its timer ends.
TryBase(s) ==
    /\ s \in StationTypes /\ s.permission = INFINITE /\ ~s.failed
    /\ s.nav = 0 /\ s.timer = INFINITE
    /\ HearsNothing(s) /\ s.others = 0 /\ s.outgoing = NONE /\ s.sent = NONE
    /\ \A c \in Categories :
           /\ CategoryOK(s.ac[c], c, TRUE, FALSE)
           /\ s.ac[c].duration # INFINITE =>
                  s.ac[c].elapsed <= s.ac[c].duration + Extension(s)

\* One category: it sends, unless one before it did.
LEMMA TryRoundOK ==
    ASSUME NEW s, TryBase(s), NEW x \in StationTypes, NEW c \in Categories, NEW d \in DrawTypes,
           NEW r, HandsOut(r[c], s.ac[c].queued), x.ac[c] = s.ac[c],
           SameRest(s, x) \/ (HasSent(s, x) /\ x.last # c)
    PROVE  LET t == TryRound(x, c, d, r)
           IN  /\ t \in StationTypes /\ Elsewhere(x, t, c)
               /\ \/ SameRest(s, x) /\ SameRest(s, t) /\ CategoryOK(t.ac[c], c, FALSE, FALSE)
                  \/ SameRest(s, x) /\ HasSent(s, t) /\ t.last = c
                     /\ CategoryOK(t.ac[c], c, FALSE, TRUE)
                  \/ HasSent(s, x) /\ HasSent(s, t) /\ t.last = x.last
                     /\ CategoryOK(t.ac[c], c, FALSE, FALSE)
<1> DEFINE t == TryRound(x, c, d, r)
           u == SubtractUsedSlots(x, c)
           sent == TryToSend(u, c, r[c])
           given == GiveWay(u, c, d)
<1>1. t = IF x.ac[c].duration = INFINITE THEN x
          ELSE IF u.ac[c].slots = 0 /\ x.phyState # "TxStarting" THEN sent ELSE given
  BY DEF TryRound
<1> HIDE DEF t
<1>2. CategoryOK(x.ac[c], c, TRUE, FALSE)  BY DEF TryBase
<1>3. Extension(x) = Extension(s)  BY DEF Extension, SameRest, HasSent, SameSurroundings
<1>4. x.ac[c] \in AccessCategoryInfos  BY InfoTyped
<1>5. ASSUME NEW y \in StationTypes, SameRest(x, y), Elsewhere(x, y, c)
      PROVE  /\ SameRest(s, x) => SameRest(s, y)
             /\ HasSent(s, x) /\ x.last # c => HasSent(s, y) /\ y.last = x.last
  <2>1. SameRest(s, x) => SameRest(s, y)  BY <1>5, SameRestTransitive
  <2>2. ASSUME HasSent(s, x), x.last # c
        PROVE  HasSent(s, y) /\ y.last = x.last
    <3>1. x.last \in Categories  BY DEF StationTypes
    <3>2. y.ac[y.last] = x.ac[x.last]  BY <1>5, <2>2, <3>1 DEF Elsewhere, SameRest
    <3>3. Sending(y)  BY <1>5, <2>2, <3>2 DEF Sending, HasSent, SameRest
    <3>4. SameSurroundings(s, y) /\ y.gap = x.gap
      BY <1>5, <2>2 DEF SameSurroundings, HasSent, SameRest
    <3> QED  BY <1>5, <2>2, <3>3, <3>4 DEF HasSent, SameRest
  <2> QED  BY <2>1, <2>2
<1>6. CASE x.ac[c].duration = INFINITE
  <2>1. t = x  BY <1>1, <1>6
  <2>2. CategoryOK(x.ac[c], c, FALSE, FALSE)
    <3>1. ~x.ac[c].jumping  BY <1>2, <1>6 DEF CategoryOK
    <3> QED  BY <1>2, <3>1, CountsOrNot
  <2> QED  BY <2>1, <2>2, ElsewhereSame DEF t
<1>7. CASE x.ac[c].duration # INFINITE
  <2>1. x.ac[c].elapsed <= x.ac[c].duration + Extension(x)  BY <1>3, <1>7 DEF TryBase
  <2>2. /\ u \in StationTypes /\ SameRest(x, u) /\ Elsewhere(x, u, c)
        /\ \E n \in 0 .. x.ac[c].slots : u.ac[c] = [x.ac[c] EXCEPT !.slots = n]
    BY <1>2, <1>7, <2>1, SlotsTakenOff
  <2> HIDE DEF u
  <2>3. PICK n \in 0 .. x.ac[c].slots : u.ac[c] = [x.ac[c] EXCEPT !.slots = n]  BY <2>2
  <2> DEFINE i == u.ac[c]
  <2>4. /\ i.slots = n /\ i.window = x.ac[c].window /\ i.packet = x.ac[c].packet
        /\ i.jumping = x.ac[c].jumping /\ i.hasPacketToSend = x.ac[c].hasPacketToSend
        /\ i.duration = x.ac[c].duration /\ i.queued = x.ac[c].queued
    BY <1>4, <2>3 DEF AccessCategoryInfos
  <2>5. n \in Nat /\ n <= MaxWindow[c] /\ i.window <= MaxWindow[c] /\ PacketKnown(i)
        /\ (i.jumping => n = 0)
    <3>1. x.ac[c].slots \in Nat /\ MaxWindow[c] \in Nat  BY <1>4, Windows DEF AccessCategoryInfos
    <3>2. x.ac[c].slots <= MaxWindow[c] /\ (x.ac[c].jumping => x.ac[c].slots = 0)
      BY <1>2 DEF CategoryOK
    <3>3. i.window <= MaxWindow[c] /\ PacketKnown(i)  BY <1>2, <2>4 DEF CategoryOK, PacketKnown
    <3> QED  BY <2>4, <3>1, <3>2, <3>3
  <2>6. CASE u.ac[c].slots = 0 /\ x.phyState # "TxStarting"
    <3>1. t = sent  BY <1>1, <1>7, <2>6
    <3>2. SameRest(s, x)  BY <2>6 DEF HasSent, Sending
    <3>3. SameRest(s, u)  BY <1>5, <2>2, <3>2
    <3>4. u.phyState = "Scanning" /\ u.permission = INFINITE
      BY <3>3 DEF SameRest, TryBase, HearsNothing
    <3>5. HandsOut(r[c], i.queued)  BY <2>4
    <3>6. sent \in StationTypes /\ Elsewhere(u, sent, c) /\ Tried(u, sent, c)
      BY <2>2, <2>4, <2>5, <3>4, <3>5, TryToSendOK
    <3> HIDE DEF sent
    <3>7. Elsewhere(x, sent, c)  BY <2>2, <3>6, ElsewhereTransitive
    <3>8. CASE SameRest(u, sent) /\ CategoryOK(sent.ac[c], c, FALSE, FALSE)
      BY <3>1, <3>2, <3>3, <3>6, <3>7, <3>8, SameRestTransitive DEF t
    <3>9. CASE HasSent(u, sent) /\ sent.last = c /\ CategoryOK(sent.ac[c], c, FALSE, TRUE)
      <4>1. HasSent(s, sent)  BY <3>3, <3>9 DEF HasSent, SameSurroundings, SameRest
      <4> QED  BY <3>1, <3>2, <3>6, <3>7, <3>9, <4>1 DEF t
    <3> QED  BY <3>6, <3>8, <3>9 DEF Tried
  <2>7. CASE ~(u.ac[c].slots = 0 /\ x.phyState # "TxStarting")
    <3>1. t = given  BY <1>1, <1>7, <2>7
    <3>2. u.ac[c].jumping => u.macState \notin {"Idle", "WaitingForIfsAndBackoff", "Transient"}
      BY <2>2, <2>4, <2>5, <2>7 DEF HasSent, Sending, SameRest, TryBase, HearsNothing
    <3>3. /\ given \in StationTypes /\ SameRest(u, given) /\ Elsewhere(u, given, c)
          /\ CategoryOK(given.ac[c], c, FALSE, FALSE)
      BY <2>2, <2>4, <2>5, <3>2, GiveWayOK
    <3> HIDE DEF given
    <3>4. SameRest(x, given) /\ Elsewhere(x, given, c)
      BY <2>2, <3>3, SameRestTransitive, ElsewhereTransitive
    <3> QED  BY <1>5, <3>1, <3>3, <3>4 DEF t
  <2> QED  BY <2>6, <2>7
<1> QED  BY <1>6, <1>7

\* The category that sends, once there is one.
Sender(s) == IF s.phyState = "TxStarting" THEN {s.last} ELSE {}

\* All categories: one sends, or none has anything to send.
LEMMA TryLoopOK ==
    ASSUME NEW s, TryBase(s), NEW d \in DrawTypes, NEW r,
           \A c \in Categories : HandsOut(r[c], s.ac[c].queued),
           NEW t, RunsTo("TRY", s, d, r, t)
    PROVE  /\ t \in StationTypes /\ (SameRest(s, t) \/ HasSent(s, t))
           /\ InOrder(t, FALSE, Sender(t))
<1> DEFINE last == NumberAccessCategories
           Done(n, x) ==
               /\ SameRest(s, x) \/ (HasSent(s, x) /\ x.last >= last - n)
               /\ \A k \in Categories :
                      /\ k >= last - n => CategoryOK(x.ac[k], k, FALSE, k \in Sender(x))
                      /\ k < last - n => x.ac[k] = s.ac[k]
           Good == {p \in Int \X StationTypes : Done(p[1], p[2])}
<1>1. last \in Nat  BY Timings
<1>2. s \in StationTypes  BY DEF TryBase
<1>3. <<0, s>> \in Good
  <2>1. \A k \in Categories : ~(k >= last - 0)  BY <1>1 DEF Categories
  <2>2. SameRest(s, s)  BY DEF SameRest
  <2>3. Done(0, s)  BY <2>1, <2>2
  <2> HIDE DEF Done
  <2> QED  BY <1>2, <2>3
<1>4. ASSUME NEW n \in 1 .. last, NEW x, <<n - 1, x>> \in Good
      PROVE  <<n, OneRound("TRY", x, last - n, d, r)>> \in Good
  <2> DEFINE k == last - n
             u == TryRound(x, k, d, r)
  <2>1. /\ x \in StationTypes
        /\ SameRest(s, x) \/ (HasSent(s, x) /\ x.last >= last - (n - 1))
        /\ \A j \in Categories :
               /\ j >= last - (n - 1) => CategoryOK(x.ac[j], j, FALSE, j \in Sender(x))
               /\ j < last - (n - 1) => x.ac[j] = s.ac[j]
    BY <1>4
  <2>2. /\ k \in Categories /\ k < last - (n - 1)
        /\ \A j \in Categories :
               /\ j >= last - n => j = k \/ j >= last - (n - 1)
               /\ j < last - n => j # k /\ j < last - (n - 1)
    BY <1>1 DEF Categories
  <2>3. OneRound("TRY", x, k, d, r) = u  BY DEF OneRound
  <2>4. x.last \in Categories  BY <2>1 DEF StationTypes
  <2>5. /\ x.last >= last - (n - 1) => x.last # k /\ x.last >= last - n
        /\ k >= last - n
    BY <1>1, <2>4 DEF Categories
  <2>6. x.ac[k] = s.ac[k]  BY <2>1, <2>2
  <2> HIDE DEF k
  <2>7. SameRest(s, x) \/ (HasSent(s, x) /\ x.last # k)  BY <2>1, <2>5
  <2>8. HandsOut(r[k], s.ac[k].queued)  BY <2>2
  <2>9. /\ u \in StationTypes /\ Elsewhere(x, u, k)
        /\ \/ SameRest(s, x) /\ SameRest(s, u) /\ CategoryOK(u.ac[k], k, FALSE, FALSE)
           \/ SameRest(s, x) /\ HasSent(s, u) /\ u.last = k
              /\ CategoryOK(u.ac[k], k, FALSE, TRUE)
           \/ HasSent(s, x) /\ HasSent(s, u) /\ u.last = x.last
              /\ CategoryOK(u.ac[k], k, FALSE, FALSE)
    BY <2>1, <2>2, <2>6, <2>7, <2>8, TryRoundOK
  <2> HIDE DEF u
  <2>10. ASSUME NEW y, SameRest(s, y)
         PROVE  Sender(y) = {} /\ ~HasSent(s, y)
    BY <2>10 DEF Sender, SameRest, TryBase, HearsNothing, HasSent, Sending
  <2>11. ASSUME NEW y, HasSent(s, y)
         PROVE  Sender(y) = {y.last}
    BY <2>11 DEF Sender, HasSent, Sending
  <2>12. SameRest(s, u) \/ (HasSent(s, u) /\ u.last >= last - n)
    <3>1. CASE SameRest(s, x)  BY <2>5, <2>9, <2>10, <3>1
    <3>2. CASE ~SameRest(s, x)
      <4>1. x.last >= last - (n - 1)  BY <2>1, <3>2
      <4> QED  BY <2>5, <2>9, <3>2, <4>1
    <3> QED  BY <3>1, <3>2
  <2>13. CategoryOK(u.ac[k], k, FALSE, k \in Sender(u))
    <3>1. CASE SameRest(s, x) /\ SameRest(s, u)
      <4>1. (k \in Sender(u)) = FALSE  BY <2>10, <3>1
      <4>2. CategoryOK(u.ac[k], k, FALSE, FALSE)  BY <2>9, <2>10, <3>1
      <4> QED  BY <4>1, <4>2
    <3>2. CASE SameRest(s, x) /\ ~SameRest(s, u)
      <4>1. HasSent(s, u) /\ u.last = k /\ CategoryOK(u.ac[k], k, FALSE, TRUE)
        BY <2>9, <2>10, <3>2
      <4>2. (k \in Sender(u)) = TRUE  BY <2>11, <4>1
      <4> QED  BY <4>1, <4>2
    <3>3. CASE ~SameRest(s, x)
      <4>1. HasSent(s, u) /\ u.last = x.last /\ CategoryOK(u.ac[k], k, FALSE, FALSE)
        BY <2>9, <3>3
      <4>2. x.last # k  BY <2>7, <3>3
      <4>3. (k \in Sender(u)) = FALSE  BY <2>11, <4>1, <4>2
      <4> QED  BY <4>1, <4>3
    <3> QED  BY <3>1, <3>2, <3>3
  <2>14. \A j \in Categories : j # k => (j \in Sender(u)) = (j \in Sender(x))
    <3>1. CASE SameRest(s, x) /\ SameRest(s, u)  BY <2>10, <3>1
    <3>2. CASE SameRest(s, x) /\ ~SameRest(s, u)
      <4>1. Sender(x) = {} /\ Sender(u) = {k}  BY <2>9, <2>10, <2>11, <3>2
      <4> QED  BY <4>1
    <3>3. CASE ~SameRest(s, x)
      <4>1. Sender(x) = Sender(u)  BY <2>9, <2>11, <3>3
      <4> QED  BY <4>1
    <3> QED  BY <3>1, <3>2, <3>3
  <2>15. \A j \in Categories :
             /\ j >= last - n => CategoryOK(u.ac[j], j, FALSE, j \in Sender(u))
             /\ j < last - n => u.ac[j] = s.ac[j]
    <3> TAKE j \in Categories
    <3>1. CASE j = k
      <4>1. ~(j < last - n)  BY <2>2, <3>1
      <4> QED  BY <2>13, <3>1, <4>1
    <3>2. CASE j # k
      <4>1. u.ac[j] = x.ac[j]  BY <2>9, <3>2 DEF Elsewhere
      <4>2. (j \in Sender(u)) = (j \in Sender(x))  BY <2>14, <3>2
      <4> QED  BY <2>1, <2>2, <3>2, <4>1, <4>2
    <3> QED  BY <3>1, <3>2
  <2>16. Done(n, u)  BY <2>12, <2>15
  <2>17. <<n, u>> \in Good
    <3> HIDE DEF Done
    <3> QED  BY <2>9, <2>16
  <2> QED  BY <2>3, <2>17 DEF k
<1> HIDE DEF Good
<1>5. <<NumberAccessCategories, t>> \in Good
  <2> HIDE DEF last
  <2> QED  BY <1>3, <1>4, LoopInvariant DEF last
<1>6. \A k \in Categories : k >= last - NumberAccessCategories
  BY <1>1 DEF Categories
<1>7. /\ t \in StationTypes /\ (SameRest(s, t) \/ HasSent(s, t))
      /\ \A k \in Categories : CategoryOK(t.ac[k], k, FALSE, k \in Sender(t))
  BY <1>5, <1>6 DEF Good
<1> QED  BY <1>7 DEF InOrder

\* The medium has been free for the interframe space when the timer ends.
LEMMA QuietAtTheEnd ==
    ASSUME NEW s, Coherent(s), Counts(s), s.timer = 0
    PROVE  s.quiet + RxTxTurnaroundTime >= ShortestInterframeSpace + Extension(s)
<1>1. s \in StationTypes /\ CurrentBackoffExpiration(s) = 0
      /\ \E c \in Categories : s.ac[c].duration # INFINITE
  BY DEF Coherent, Basics, CountingOK
<1>2. PICK c \in Categories :
          s.ac[c].duration # INFINITE
          /\ 0 = s.ac[c].duration - s.ac[c].elapsed + Extension(s)
  BY <1>1, ExpirationTyped
<1>3. QuietEnough(s, c)  BY <1>2 DEF Coherent, CountingOK
<1>4. s.ac[c].duration \in Nat /\ s.ac[c].elapsed \in Nat /\ s.quiet \in Nat
  BY <1>1, InfoTyped DEF AccessCategoryInfos, StationTypes
<1>5. Extension(s) \in 0 .. ExtendedDelay /\ ExtendedDelay \in Nat  BY Timings DEF Extension
<1>6. /\ NonExtendedBackoffDuration(c, 0) = InterframeSpace(c) - RxTxTurnaroundTime
      /\ InterframeSpace(c) \in Nat /\ RxTxTurnaroundTime \in Nat
  BY SmallDurations, Windows, InterframeSpaces, Timings
<1>7. /\ InterframeSpace(c) <= LongestInterframeSpace
      /\ InterframeSpace(c) >= ShortestInterframeSpace
      /\ LongestInterframeSpace \in Nat /\ ShortestInterframeSpace \in Nat
  BY ExtremeInterframeSpaces
<1>8. CASE s.quiet >= Cap  BY <1>4, <1>5, <1>6, <1>7, <1>8 DEF Cap
<1>9. CASE s.quiet + s.ac[c].duration >= s.ac[c].elapsed + NonExtendedBackoffDuration(c, 0)
  BY <1>2, <1>4, <1>5, <1>6, <1>7, <1>9
<1> QED  BY <1>3, <1>8, <1>9 DEF QuietEnough

\* The backoff is over.
LEMMA BackoffTimeoutOK ==
    ASSUME NEW s, Consistent(s), Counts(s), s.timer = 0, NEW d \in DrawTypes,
           NEW r \in AllRetrievals(s)
    PROVE  LET t == IfsAndBackoffTimeout(TimerOff(s), d, r)
           IN  Consistent(t) /\ Settled(t)
<1> DEFINE x == TimerOff(s)
           u == IfsAndBackoffTimeout(x, d, r)
<1>1. /\ s \in StationTypes /\ Coherent(s) /\ Basics(s) /\ MacOK(s) /\ PhyOK(s) /\ QuietOK(s)
      /\ InOrder(s, Counts(s), ExchangeOf(s))
  BY DEF Consistent, Coherent, Basics
<1>2. /\ HearsNothing(s) /\ s.nav = 0 /\ s.sent = NONE /\ s.outgoing = NONE
  BY <1>1 DEF Counts, MacOK, PhyOK, HearsNothing, IsTransmittingAFrame
<1>3. s.others = 0  BY <1>1, <1>2 DEF PhyOK, HearsNothing, StationTypes
<1>4. ExchangeOf(s) = {} /\ Counts(s) = TRUE
  BY <1>2 DEF ExchangeOf, IsWaiting, Counts, NONE
<1>5. x \in StationTypes  BY <1>1, TimerOffTyped
<1>6. /\ x.timer = INFINITE /\ x.stale = s.stale /\ x.ac = s.ac /\ x.nav = s.nav
      /\ x.permission = s.permission
      /\ x.failed = s.failed /\ x.phyState = s.phyState /\ x.sensing = s.sensing
      /\ x.others = s.others /\ x.outgoing = s.outgoing /\ x.sent = s.sent
      /\ x.corrupt = s.corrupt /\ x.quiet = s.quiet /\ x.idleFor = s.idleFor
  BY <1>1 DEF TimerOff, StationTypes
<1> HIDE DEF x
<1>7. TryBase(x)
  <2>1. \A c \in Categories :
            /\ CategoryOK(x.ac[c], c, TRUE, FALSE)
            /\ x.ac[c].duration # INFINITE =>
                   x.ac[c].elapsed <= x.ac[c].duration + Extension(x)
    <3> TAKE c \in Categories
    <3>1. CategoryOK(s.ac[c], c, TRUE, c \in {})  BY <1>1, <1>4 DEF InOrder
    <3>2. (c \in {}) = FALSE  OBVIOUS
    <3>3. s.ac[c].duration # INFINITE => s.ac[c].elapsed <= s.ac[c].duration + Extension(s)
      BY <1>1, NotOverdue
    <3> QED  BY <1>6, <3>1, <3>2, <3>3 DEF Extension
  <2> QED  BY <1>1, <1>2, <1>3, <1>5, <1>6, <2>1 DEF TryBase, HearsNothing, Basics
<1>8. \A c \in Categories : HandsOut(r[c], x.ac[c].queued)
  BY <1>1, <1>6, QueueHandsOut
<1>9. PICK t : /\ RunsTo("TRY", x, d, r, t)
               /\ u = IF t.phyState = "TxStarting" THEN [t EXCEPT !.ac = NoStartTimes(t)]
                      ELSE StartBackoffIfNecessary([t EXCEPT !.macState = "Transient"])
  BY TryLoop
<1> HIDE DEF u
<1>10. /\ t \in StationTypes /\ (SameRest(x, t) \/ HasSent(x, t))
       /\ InOrder(t, FALSE, Sender(t))
  BY <1>7, <1>8, <1>9, TryLoopOK
<1>11. CASE SameRest(x, t)
  <2> DEFINE y == [t EXCEPT !.macState = "Transient"]
             z == StartBackoffIfNecessary(y)
  <2>1. t.phyState = "Scanning"  BY <1>2, <1>6, <1>11 DEF SameRest, HearsNothing
  <2>2. u = z  BY <1>9, <2>1
  <2>3. y \in StationTypes /\ y.ac = t.ac /\ SameRest([t EXCEPT !.macState = "Transient"], y)
    BY <1>10 DEF StationTypes, MacStates, SameRest
  <2>4. /\ y.timer = t.timer /\ y.stale = t.stale /\ y.nav = t.nav
        /\ y.permission = t.permission
        /\ y.failed = t.failed /\ y.phyState = t.phyState /\ y.sensing = t.sensing
        /\ y.others = t.others /\ y.outgoing = t.outgoing /\ y.sent = t.sent
        /\ y.quiet = t.quiet /\ y.idleFor = t.idleFor
    BY <1>10 DEF StationTypes
  <2> HIDE DEF y
  <2>5. InOrder(y, FALSE, {})
    <3>1. Sender(t) = {}  BY <2>1 DEF Sender
    <3> QED  BY <1>10, <2>3, <3>1 DEF InOrder
  <2>6. AtRest(y)
    <3>1. y.nav = 0 /\ 0 <= MaxReserved
      BY <1>2, <1>6, <1>11, <2>4, EnvironmentAssumption DEF SameRest
    <3> QED  BY <1>1, <1>2, <1>3, <1>6, <1>11, <2>3, <2>4, <2>5, <3>1
             DEF AtRest, SameRest, HearsNothing, Basics
  <2>7. y.nav = 0  BY <1>2, <1>6, <1>11, <2>4 DEF SameRest
  <2>8. y.quiet >= Cap \/ y.idleFor <= y.quiet
    BY <1>1, <1>6, <1>11, <2>4 DEF SameRest, QuietOK, Counts
  <2>9. Consistent(z) /\ HearsNothing(z)  BY <2>6, <2>7, <2>8, StartBackoffOK
  <2> HIDE DEF z
  <2> QED  BY <2>2, <2>9 DEF u, x, Settled, HearsNothing
<1>12. CASE HasSent(x, t)
  <2> DEFINE y == [t EXCEPT !.ac = NoStartTimes(t)]
  <2>1. Sending(t) /\ t.phyState = "TxStarting" /\ SameSurroundings(x, t)
        /\ t.gap = x.quiet + RxTxTurnaroundTime
    BY <1>12 DEF HasSent, Sending
  <2>2. u = y  BY <1>9, <2>1
  <2>3. y \in StationTypes /\ y.ac = NoStartTimes(t) /\ SameRest(t, y)
    BY <1>10, NoStartTimesTyped DEF StationTypes, SameRest
  <2> HIDE DEF y
  <2>4. t.last \in Categories  BY <1>10 DEF StationTypes
  <2>5. y.ac[y.last].packet = t.ac[t.last].packet
    BY <1>10, <2>3, <2>4, NoStartTimesOK DEF SameRest
  <2>6. Sending(y)  BY <2>1, <2>3, <2>5 DEF Sending, SameRest
  <2>7. InOrder(y, FALSE, {y.last})
    <3>1. Sender(t) = {y.last}  BY <2>1, <2>3 DEF Sender, SameRest
    <3>2. InOrder(t, FALSE, {y.last})  BY <1>10, <3>1
    <3> QED  BY <1>10, <2>3, <3>2, NoStartTimesOK DEF InOrder
  <2>8. y.gap >= ShortestInterframeSpace + Extension(y)
    <3>1. x.quiet + RxTxTurnaroundTime >= ShortestInterframeSpace + Extension(s)
      BY <1>1, <1>6, QuietAtTheEnd
    <3>2. Extension(y) = Extension(s)
      BY <1>6, <2>1, <2>3 DEF Extension, SameSurroundings, SameRest
    <3> QED  BY <2>1, <2>3, <3>1, <3>2 DEF SameRest
  <2>9. /\ y.timer = INFINITE /\ y.stale = INFINITE /\ y.permission = INFINITE
        /\ ~y.failed /\ y.nav <= MaxReserved
    BY <1>1, <1>6, <2>1, <2>3 DEF SameSurroundings, SameRest, Basics
  <2>10. Consistent(y)  BY <2>3, <2>6, <2>7, <2>8, <2>9, SendingOK
  <2>11. Settled(y)  BY <2>6 DEF Sending, Settled
  <2> QED  BY <2>2, <2>10, <2>11 DEF u, x
<1> QED  BY <1>10, <1>11, <1>12

-----------------------------------------------------------------------------
(* A frame is received. *)

\* What a frame may tell: of a reservation, or that it was corrupt.
SameButNews(s, x) ==
    /\ x.macState = s.macState /\ x.timer = s.timer /\ x.stale = s.stale
    /\ x.permission = s.permission /\ x.last = s.last /\ x.lastSent = s.lastSent /\ x.ac = s.ac
    /\ x.phyState = s.phyState /\ x.sensing = s.sensing /\ x.others = s.others
    /\ x.outgoing = s.outgoing /\ x.sent = s.sent /\ x.failed = s.failed

\* It does not disturb the exchange.
LEMMA NewsOK ==
    ASSUME NEW s, Receives(s), NEW x \in StationTypes, SameButNews(s, x), x.nav <= MaxReserved
    PROVE  Receives(x)
<1>1. /\ s.macState = "BusyMedium" \/ IsWaiting(s)
      /\ s.outgoing = NONE /\ s \in StationTypes
  BY ReceivesWhen
<1>2. Basics(s) /\ PhyOK(s) /\ MacOK(s) /\ InOrder(s, Counts(s), ExchangeOf(s))
      /\ s.phyState = "Scanning" /\ s.sensing
  BY DEF Receives, Consistent, Coherent
<1>3. Basics(x) /\ PhyOK(x)
  BY <1>2 DEF Basics, PhyOK, SameButNews, IsTransmittingAFrame
<1>4. QuietOK(x) /\ CountingOK(x) /\ GapOK(x)
  BY <1>1, <1>2 DEF QuietOK, CountingOK, Counts, GapOK, SameButNews, IsWaiting
<1>5. MacOK(x)  BY <1>1, <1>2 DEF MacOK, SameButNews, IsWaiting
<1>6. ExchangeOf(x) = ExchangeOf(s) /\ Counts(x) = Counts(s)
  BY DEF ExchangeOf, Counts, SameButNews, IsWaiting
<1>7. InOrder(x, Counts(x), ExchangeOf(x))  BY <1>2, <1>6 DEF InOrder, SameButNews
<1> QED  BY <1>2, <1>3, <1>4, <1>5, <1>7 DEF Receives, Consistent, Coherent, SameButNews

\* A reply is put on its way.
LEMMA ReplyOK ==
    ASSUME NEW s, Busy(s), s.phyState = "Scanning"
    PROVE  Consistent(Reply(s)) /\ Reply(s).sensing
<1> DEFINE x == [s EXCEPT !.macState = "CtsOrAckTransmission"]
           t == TransmitFrame(x, "CONTROL", NONE, ShortInterframeSpace)
<1>1. /\ x \in StationTypes /\ x.macState = "CtsOrAckTransmission" /\ x.ac = s.ac
      /\ x.phyState = "Scanning" /\ SameSurroundings(s, x)
  BY DEF Busy, StationTypes, MacStates, SameSurroundings
<1>2. Reply(s) = t  BY DEF Reply
<1> HIDE DEF x
<1>3. NONE \in UnicastFrames \cup {NONE} /\ ShortInterframeSpace \in Nat  BY Timings
<1>4. /\ t \in StationTypes /\ SameSurroundings(x, t)
      /\ t.phyState = "TxStarting" /\ t.outgoing = "CONTROL" /\ t.sent = NONE
      /\ t.macState = x.macState /\ t.ac = x.ac
  BY <1>1, <1>3, TransmitFrameOK
<1> HIDE DEF t
<1>5. SameSurroundings(s, t)  BY <1>1, <1>4 DEF SameSurroundings
<1>6. Basics(t) /\ PhyOK(t)
  BY <1>4, <1>5, Timings DEF Busy, Basics, PhyOK, SameSurroundings, IsTransmittingAFrame, NONE
<1>7. MacOK(t)  BY <1>1, <1>4, <1>5 DEF Busy, MacOK, IsWaiting, SameSurroundings
<1>8. QuietOK(t) /\ CountingOK(t) /\ GapOK(t)
  BY <1>1, <1>4 DEF QuietOK, CountingOK, Counts, GapOK
<1>9. ExchangeOf(t) = {} /\ Counts(t) = FALSE
  BY <1>1, <1>4 DEF ExchangeOf, IsWaiting, Counts
<1>10. InOrder(t, FALSE, {})  BY <1>1, <1>4 DEF Busy, InOrder
<1> QED  BY <1>2, <1>5, <1>6, <1>7, <1>8, <1>9, <1>10
         DEF Consistent, Coherent, SameSurroundings, Busy

\* An RTS or a data frame is answered, unless the medium is reserved.
LEMMA RequestOK ==
    ASSUME NEW s, Receives(s), NEW d \in DrawTypes
    PROVE  LET t == ProcessRequestToSendFrame(s, d)
               u == ProcessDataFrame(s, d)
           IN  Consistent(t) /\ t.sensing /\ Consistent(u) /\ u.sensing
<1> DEFINE busy == GiveUpWaiting(s, d)
           t == ProcessRequestToSendFrame(s, d)
           u == ProcessDataFrame(s, d)
<1>1. s.permission = INFINITE  BY ReceivesWhen
<1>2. ~ReplyExceedsPermission(s)  BY <1>1 DEF ReplyExceedsPermission, ExceedsPermission
<1>3. t = IF s.nav > 0 THEN busy ELSE Reply(busy)  BY <1>2 DEF ProcessRequestToSendFrame
<1>4. u = Reply(busy)  BY <1>2 DEF ProcessDataFrame
<1>5. Busy(busy) /\ busy.phyState = "Scanning"  BY GiveUpWaitingOK
<1> HIDE DEF busy, t, u
<1>6. Consistent(busy) /\ busy.sensing  BY <1>5, BusyOK DEF Busy
<1>7. Consistent(Reply(busy)) /\ Reply(busy).sensing  BY <1>5, ReplyOK
<1>8. Consistent(t) /\ t.sensing
  <2>1. CASE s.nav > 0  BY <1>3, <1>6, <2>1
  <2>2. CASE ~(s.nav > 0)  BY <1>3, <1>7, <2>2
  <2> QED  BY <2>1, <2>2
<1> QED  BY <1>4, <1>7, <1>8 DEF t, u

\* A CTS lets the data frame go.
LEMMA ClearToSendOK ==
    ASSUME NEW s, Receives(s)
    PROVE  LET t == ProcessClearToSendFrame(s)
           IN  Consistent(t) /\ t.sensing
<1> DEFINE c == s.last
           i == [s.ac[c] EXCEPT !.shortRetries = 0]
           off == TimerOff(s)
           x == With(off, c, i)
           nothing == [taken |-> 0, packet |-> NONE]
           sent == TransmitAFrame(x, c, TRUE, ShortInterframeSpace, nothing)
           t == ProcessClearToSendFrame(s)
<1>1. /\ s \in StationTypes /\ s.permission = INFINITE /\ ~s.failed /\ s.nav <= MaxReserved
      /\ s.outgoing = NONE /\ s.stale = INFINITE
  BY ReceivesWhen
<1>2. c \in Categories /\ s.ac[c] \in AccessCategoryInfos  BY <1>1, InfoTyped DEF StationTypes
<1>3. Consistent(s) /\ MacOK(s) /\ s.phyState = "Scanning" /\ s.sensing
      /\ InOrder(s, Counts(s), ExchangeOf(s))
  BY DEF Receives, Consistent, Coherent
<1>4. [s EXCEPT !.timer = INFINITE, !.ac[c].shortRetries = 0] = x
  BY <1>1, <1>2 DEF With, TimerOff, StationTypes
<1>5. t = IF s.macState # "WaitingForCts" THEN s
          ELSE Expect(sent, sent.phyState = "TxStarting")
  BY <1>4 DEF ProcessClearToSendFrame
<1> HIDE DEF t
<1>6. CASE s.macState # "WaitingForCts"  BY <1>3, <1>5, <1>6 DEF t
<1>7. CASE s.macState = "WaitingForCts"
  <2>1. s.ac[c].packet = "LONG"  BY <1>3, <1>7 DEF MacOK
  <2>2. ExchangeOf(s) = {c} /\ Counts(s) = FALSE
    BY <1>7 DEF ExchangeOf, IsWaiting, Counts
  <2>3. \A k \in Categories : CategoryOK(s.ac[k], k, FALSE, k \in {c})
    BY <1>3, <2>2 DEF InOrder
  <2>4. CategoryOK(s.ac[c], c, FALSE, TRUE)
    <3>1. (c \in {c}) = TRUE  OBVIOUS
    <3> QED  BY <1>2, <2>3, <3>1
  <2>5. i \in AccessCategoryInfos /\ i.packet = "LONG" /\ i.slots = s.ac[c].slots
        /\ i.window = s.ac[c].window /\ i.hasPacketToSend = s.ac[c].hasPacketToSend
        /\ i.duration = s.ac[c].duration /\ i.jumping = s.ac[c].jumping
    BY <1>2, <2>1 DEF AccessCategoryInfos
  <2>6. MaySend(i, c)  BY <2>4, <2>5 DEF MaySend, CategoryOK, NONE
  <2>7. /\ off \in StationTypes /\ off.ac = s.ac /\ off.timer = INFINITE
    BY <1>1, TimerOffTyped DEF TimerOff, StationTypes
  <2>8. /\ off.nav = s.nav /\ off.permission = s.permission /\ off.failed = s.failed
        /\ off.stale = s.stale
        /\ off.phyState = s.phyState /\ off.sensing = s.sensing
    BY <1>1 DEF TimerOff, StationTypes
  <2> HIDE DEF off, i, c
  <2>9. x \in StationTypes /\ SameRest(off, x) /\ x.ac[c] = i /\ Elsewhere(off, x, c)
    BY <1>2, <2>5, <2>7, WithRest
  <2> HIDE DEF x
  <2>10. x.phyState = "Scanning" /\ x.permission = INFINITE
    BY <1>1, <1>3, <2>8, <2>9 DEF SameRest
  <2> DEFINE y == TransmitCurrentPacket(x, c, TRUE, ShortInterframeSpace)
  <2>11. sent = y
    <3>1. x.ac[c].packet # NONE  BY <2>6, <2>9 DEF MaySend
    <3> QED  BY <3>1 DEF TransmitAFrame
  <2>12. /\ y \in StationTypes /\ Elsewhere(x, y, c) /\ SameSurroundings(x, y)
         /\ Sending(y) /\ y.last = c /\ CategoryOK(y.ac[c], c, FALSE, TRUE)
         /\ y.lastSent = "LONG"
    <3>1. TRUE \in BOOLEAN /\ ShortInterframeSpace \in Nat /\ MaySend(x.ac[c], c)
          /\ x.ac[c].packet = "LONG"
      BY <2>5, <2>6, <2>9, Timings
    <3> QED  BY <1>2, <2>9, <2>10, <3>1, SendsOK
  <2> HIDE DEF sent, y
  <2>13. t = y  BY <1>5, <1>7, <2>11, <2>12 DEF Expect, Sending
  <2>14. InOrder(y, FALSE, {y.last})
    <3> SUFFICES ASSUME NEW k \in Categories PROVE CategoryOK(y.ac[k], k, FALSE, k \in {c})
      BY <2>12 DEF InOrder
    <3>1. CASE k = c
      <4>1. (k \in {c}) = TRUE  BY <3>1
      <4> QED  BY <2>12, <3>1, <4>1
    <3>2. CASE k # c
      <4>1. y.ac[k] = s.ac[k]  BY <2>7, <2>9, <2>12, <3>2 DEF Elsewhere
      <4> QED  BY <2>3, <4>1 DEF c
    <3> QED  BY <3>1, <3>2
  <2>15. /\ y.timer = INFINITE /\ y.stale = INFINITE /\ y.permission = INFINITE /\ ~y.failed
         /\ y.nav <= MaxReserved /\ y.sensing
    BY <1>1, <1>3, <2>7, <2>8, <2>9, <2>12 DEF SameSurroundings, SameRest
  <2>16. Consistent(y)  BY <2>12, <2>14, <2>15, SendingOK
  <2> QED  BY <2>13, <2>15, <2>16 DEF t
<1> QED  BY <1>6, <1>7

\* A frame has been sent, or acknowledged: its category draws a backoff for the next.
LEMMA PostProcessingOK ==
    ASSUME NEW s \in StationTypes, NEW d \in DrawTypes, s.macState = "BusyMedium",
           CategoryOK(s.ac[s.last], s.last, FALSE, TRUE),
           \A k \in Categories : k # s.last => CategoryOK(s.ac[k], k, FALSE, FALSE)
    PROVE  LET t == DoSuccessfulTransmissionPostProcessing(s, d)
           IN  t \in StationTypes /\ SameRest(s, t) /\ InOrder(t, FALSE, {})
<1> DEFINE c == s.last
           t == StartPacketSendProcess(s, c, TRUE, d)
<1>1. c \in Categories  BY DEF StationTypes
<1>2. /\ s.ac[c].duration = INFINITE /\ s.ac[c].window <= MaxWindow[c]
      /\ PacketKnown(s.ac[c])
  BY DEF CategoryOK, PacketKnown
<1>3. /\ t \in StationTypes /\ SameRest(s, t) /\ Elsewhere(s, t, c)
      /\ CategoryOK(t.ac[c], c, FALSE, FALSE)
  BY <1>1, <1>2, ForcedBackoff
<1>4. DoSuccessfulTransmissionPostProcessing(s, d) = t
  BY DEF DoSuccessfulTransmissionPostProcessing
<1> HIDE DEF t, c
<1>5. InOrder(t, FALSE, {})
  <2> SUFFICES ASSUME NEW k \in Categories PROVE CategoryOK(t.ac[k], k, FALSE, k \in {})
    BY DEF InOrder
  <2>1. (k \in {}) = FALSE  OBVIOUS
  <2>2. CASE k = c  BY <1>3, <2>1, <2>2
  <2>3. CASE k # c
    <3>1. t.ac[k] = s.ac[k]  BY <1>3, <2>3 DEF Elsewhere
    <3>2. CategoryOK(s.ac[k], k, FALSE, FALSE)  BY <2>3 DEF c
    <3> QED  BY <2>1, <3>1, <3>2
  <2> QED  BY <2>2, <2>3
<1> QED  BY <1>3, <1>4, <1>5

\* An acknowledgement ends the exchange.
LEMMA AcknowledgementOK ==
    ASSUME NEW s, Receives(s), NEW d \in DrawTypes
    PROVE  LET t == ProcessAcknowledgementFrame(s, d)
           IN  Consistent(t) /\ t.sensing
<1> DEFINE c == s.last
           i == [s.ac[c] EXCEPT !.window = MinWindow[c]]
           over == [s EXCEPT !.timer = INFINITE, !.macState = "BusyMedium", !.sent = NONE]
           x == With(over, c, i)
           u == DoSuccessfulTransmissionPostProcessing(x, d)
           t == ProcessAcknowledgementFrame(s, d)
<1>1. /\ s \in StationTypes /\ s.permission = INFINITE /\ ~s.failed /\ s.nav <= MaxReserved
      /\ s.outgoing = NONE /\ s.stale = INFINITE
  BY ReceivesWhen
<1>2. c \in Categories /\ s.ac[c] \in AccessCategoryInfos  BY <1>1, InfoTyped DEF StationTypes
<1>3. Consistent(s) /\ MacOK(s) /\ s.phyState = "Scanning" /\ s.sensing
      /\ InOrder(s, Counts(s), ExchangeOf(s))
  BY DEF Receives, Consistent, Coherent
<1>4. [s EXCEPT !.timer = INFINITE, !.macState = "BusyMedium", !.sent = NONE,
                !.ac[c].window = MinWindow[c]] = x
  BY <1>1, <1>2 DEF With, StationTypes
<1>5. t = IF s.macState # "WaitingForAck" THEN s
          ELSE DoSuccessfulTransmissionPostProcessing(Expect(x, s.ac[c].packet = NONE), d)
  BY <1>4 DEF ProcessAcknowledgementFrame
<1> HIDE DEF t
<1>6. CASE s.macState # "WaitingForAck"  BY <1>3, <1>5, <1>6 DEF t
<1>7. CASE s.macState = "WaitingForAck"
  <2>1. s.ac[c].packet = NONE  BY <1>3, <1>7 DEF MacOK
  <2>2. t = u  BY <1>5, <1>7, <2>1 DEF Expect
  <2>3. ExchangeOf(s) = {c} /\ Counts(s) = FALSE
    BY <1>7 DEF ExchangeOf, IsWaiting, Counts
  <2>4. \A k \in Categories : CategoryOK(s.ac[k], k, FALSE, k \in {c})
    BY <1>3, <2>3 DEF InOrder
  <2>5. CategoryOK(s.ac[c], c, FALSE, TRUE)
    <3>1. (c \in {c}) = TRUE  OBVIOUS
    <3> QED  BY <1>2, <2>4, <3>1
  <2>6. i \in AccessCategoryInfos /\ i.packet = s.ac[c].packet /\ i.slots = s.ac[c].slots
        /\ i.window = MinWindow[c] /\ i.hasPacketToSend = s.ac[c].hasPacketToSend
        /\ i.duration = s.ac[c].duration /\ i.jumping = s.ac[c].jumping
    BY <1>2, Windows DEF AccessCategoryInfos
  <2>7. CategoryOK(i, c, FALSE, TRUE)
    <3>1. MinWindow[c] <= MaxWindow[c]  BY <1>2, Windows
    <3> HIDE DEF i, c
    <3> QED  BY <2>5, <2>6, <3>1 DEF CategoryOK
  <2>8. /\ over \in StationTypes /\ over.ac = s.ac /\ over.timer = INFINITE
        /\ over.macState = "BusyMedium" /\ over.sent = NONE
    <3>1. INFINITE \in Int  BY Timings
    <3>2. "BusyMedium" \in MacStates  BY DEF MacStates
    <3>3. s \in StationTypes  BY <1>1
    <3>4. over \in StationTypes  BY <3>1, <3>2, <3>3 DEF StationTypes
    <3>5. /\ over.ac = s.ac /\ over.timer = INFINITE
          /\ over.macState = "BusyMedium" /\ over.sent = NONE
      BY <3>3 DEF StationTypes
    <3> QED  BY <3>4, <3>5
  <2>9. /\ over.nav = s.nav /\ over.permission = s.permission /\ over.failed = s.failed
        /\ over.phyState = s.phyState /\ over.sensing = s.sensing /\ over.last = s.last
        /\ over.outgoing = s.outgoing /\ over.stale = s.stale
    BY <1>1 DEF StationTypes
  <2> HIDE DEF over, i
  <2>10. x \in StationTypes /\ SameRest(over, x) /\ x.ac[c] = i /\ Elsewhere(over, x, c)
    BY <1>2, <2>6, <2>8, WithRest
  <2> HIDE DEF x
  <2>11. x.last = c /\ x.macState = "BusyMedium"  BY <2>8, <2>9, <2>10 DEF SameRest
  <2>12. \A k \in Categories : k # c => CategoryOK(x.ac[k], k, FALSE, FALSE)
    <3> TAKE k \in Categories
    <3>1. HAVE k # c
    <3>2. x.ac[k] = s.ac[k]  BY <2>8, <2>10, <3>1 DEF Elsewhere
    <3>3. (k \in {c}) = FALSE  BY <3>1
    <3> QED  BY <2>4, <3>2, <3>3
  <2>13. CategoryOK(x.ac[x.last], x.last, FALSE, TRUE)  BY <2>7, <2>10, <2>11
  <2>14. u \in StationTypes /\ SameRest(x, u) /\ InOrder(u, FALSE, {})
    <3> HIDE DEF c
    <3> QED  BY <2>10, <2>11, <2>12, <2>13, PostProcessingOK
  <2> HIDE DEF u
  <2>15. /\ x.permission = INFINITE /\ ~x.failed /\ x.nav <= MaxReserved
         /\ x.macState = "BusyMedium" /\ x.timer = INFINITE /\ x.stale = INFINITE
         /\ x.phyState = "Scanning" /\ x.sensing /\ x.outgoing = NONE /\ x.sent = NONE
    <3>1. /\ over.permission = INFINITE /\ ~over.failed /\ over.nav <= MaxReserved
          /\ over.stale = INFINITE
          /\ over.phyState = "Scanning" /\ over.sensing /\ over.outgoing = NONE
      BY <1>1, <1>3, <2>9
    <3>2. over.timer = INFINITE /\ over.macState = "BusyMedium" /\ over.sent = NONE  BY <2>8
    <3>3. SameRest(over, x)  BY <2>10
    <3> QED  BY ONLY <3>1, <3>2, <3>3 DEF SameRest
  <2>16. /\ u.permission = INFINITE /\ ~u.failed /\ u.nav <= MaxReserved
         /\ u.macState = "BusyMedium" /\ u.timer = INFINITE /\ u.stale = INFINITE
         /\ u.phyState = "Scanning" /\ u.sensing /\ u.outgoing = NONE /\ u.sent = NONE
    <3>1. SameRest(x, u)  BY <2>14
    <3> QED  BY ONLY <2>15, <3>1 DEF SameRest
  <2>17. u \in StationTypes /\ InOrder(u, FALSE, {})  BY <2>14
  <2>18. Busy(u)  BY ONLY <2>16, <2>17 DEF Busy
  <2> QED  BY <2>2, <2>18, BusyOK DEF t, Busy
<1> QED  BY <1>6, <1>7

\* Whatever is received.
LEMMA ReceiveFrameOK ==
    ASSUME NEW s, Receives(s), NEW d \in DrawTypes, NEW frame \in ReceivedFrames,
           NEW reserved \in 0 .. MaxReserved
    PROVE  LET t == ReceiveFrameFromPhy(s, frame, reserved, d)
           IN  Consistent(t) /\ t.sensing
<1> DEFINE good == [s EXCEPT !.corrupt = FALSE]
           bad == [s EXCEPT !.corrupt = TRUE]
           told == [good EXCEPT !.nav = MaxOf(@, reserved),
                                !.macState = IF IsWaiting(good) THEN @ ELSE "BusyMedium"]
           t == ReceiveFrameFromPhy(s, frame, reserved, d)
<1>1. /\ s.macState = "BusyMedium" \/ IsWaiting(s)
      /\ s \in StationTypes /\ s.nav <= MaxReserved /\ s.nav \in Nat
  BY ReceivesWhen DEF StationTypes
<1>2. Receives(good) /\ good.macState = s.macState /\ good.nav = s.nav
  <2>1. good \in StationTypes /\ SameButNews(s, good) /\ good.nav = s.nav
    BY <1>1 DEF StationTypes, SameButNews
  <2> HIDE DEF good
  <2> QED  BY <1>1, <2>1, NewsOK DEF SameButNews
<1>3. Receives(bad)
  <2>1. bad \in StationTypes /\ SameButNews(s, bad) /\ bad.nav = s.nav
    BY <1>1 DEF StationTypes, SameButNews
  <2> HIDE DEF bad
  <2> QED  BY <1>1, <2>1, NewsOK
<1>4. good \in StationTypes  BY <1>2, ReceivesWhen
<1> HIDE DEF good, bad
<1>5. Receives(told)
  <2> DEFINE reserves == [good EXCEPT !.nav = MaxOf(@, reserved)]
  <2>1. MaxOf(good.nav, reserved) \in Nat /\ MaxOf(good.nav, reserved) <= MaxReserved
    BY <1>1, <1>2, EnvironmentAssumption DEF MaxOf
  <2>2. reserves \in StationTypes /\ SameButNews(good, reserves)
        /\ reserves.nav = MaxOf(good.nav, reserved)
    BY <1>4, <2>1 DEF StationTypes, SameButNews
  <2>3. told = reserves
    <3>1. (IF IsWaiting(good) THEN good.macState ELSE "BusyMedium") = good.macState
      BY <1>1, <1>2 DEF IsWaiting
    <3>2. told = [good EXCEPT !.nav = MaxOf(@, reserved), !.macState = good.macState]
      BY <3>1
    <3> QED  BY <1>4, <3>2 DEF StationTypes
  <2> HIDE DEF reserves, told
  <2> QED  BY <1>2, <2>1, <2>2, <2>3, NewsOK
<1> HIDE DEF told
<1>6. ASSUME NEW x, Receives(x)
      PROVE  LET u == GiveUpWaiting(x, d)
             IN  Consistent(u) /\ u.sensing /\ u.macState = "BusyMedium"
  BY <1>6, GiveUpWaitingOK, BusyOK DEF Busy
<1>7. CASE frame = "CORRUPT"
  <2> DEFINE u == GiveUpWaiting(bad, d)
  <2>1. Consistent(u) /\ u.sensing /\ u.macState = "BusyMedium"  BY <1>3, <1>6
  <2>2. t = Expect(u, u.macState = "BusyMedium")
    BY <1>7 DEF ReceiveFrameFromPhy, NotifyThatPhyReceivedCorruptedFrame, bad
  <2> HIDE DEF u, t
  <2>3. t = u  BY <2>1, <2>2 DEF Expect
  <2> QED  BY <2>1, <2>3 DEF t
<1>8. CASE frame = "OTHER"
  <2>1. t = GiveUpWaiting(told, d)
    BY <1>8 DEF ReceiveFrameFromPhy, ProcessFrameForAnother, good, told
  <2> HIDE DEF t
  <2> QED  BY <1>5, <1>6, <2>1 DEF t
<1>9. CASE frame = "GROUP"
  <2>1. t = GiveUpWaiting(good, d)  BY <1>9 DEF ReceiveFrameFromPhy, good
  <2> HIDE DEF t
  <2> QED  BY <1>2, <1>6, <2>1 DEF t
<1>10. CASE frame \in {"DATA", "RTS"}
  <2>1. t = IF frame = "DATA" THEN ProcessDataFrame(good, d)
            ELSE ProcessRequestToSendFrame(good, d)
    <3>1. CASE frame = "DATA"  BY <3>1 DEF ReceiveFrameFromPhy, good
    <3>2. CASE frame = "RTS"  BY <3>2 DEF ReceiveFrameFromPhy, good
    <3> QED  BY <1>10, <3>1, <3>2
  <2> HIDE DEF t
  <2> QED  BY <1>2, <2>1, RequestOK DEF t
<1>11. CASE frame = "CTS"
  <2>1. t = ProcessClearToSendFrame(good)  BY <1>11 DEF ReceiveFrameFromPhy, good
  <2> HIDE DEF t
  <2> QED  BY <1>2, <2>1, ClearToSendOK DEF t
<1>12. CASE frame = "ACK"
  <2>1. t = ProcessAcknowledgementFrame(good, d)  BY <1>12 DEF ReceiveFrameFromPhy, good
  <2> HIDE DEF t
  <2> QED  BY <1>2, <2>1, AcknowledgementOK DEF t
<1> QED  BY <1>7, <1>8, <1>9, <1>10, <1>11, <1>12 DEF ReceivedFrames

\* The received signal ends.
LEMMA EndOfReceivedOK ==
    ASSUME NEW s, Consistent(s), s.phyState = "Receiving", NEW d \in DrawTypes,
           NEW frame \in ReceivedFrames, NEW reserved \in 0 .. MaxReserved
    PROVE  LET t == ProcessEndOfReceivedSignal(s, frame, reserved, d)
           IN  Consistent(t) /\ Settled(t)
<1> DEFINE x == [s EXCEPT !.phyState = "Scanning", !.receiving = NONE, !.loud = FALSE]
           told == ReceiveFrameFromPhy(x, frame, reserved, d)
           t == ProcessEndOfReceivedSignal(s, frame, reserved, d)
<1>1. /\ s \in StationTypes /\ MacOK(s) /\ PhyOK(s)  BY DEF Consistent, Coherent, Basics
<1>2. s.sensing /\ s.outgoing = NONE  BY <1>1 DEF PhyOK, IsTransmittingAFrame
<1>3. s.macState \in MacStates  BY <1>1 DEF StationTypes
<1>4. IsWaiting(s) \/ s.macState = "BusyMedium"
  BY <1>1, <1>2, <1>3 DEF MacOK, HearsNothing, MacStates, IsWaiting, NONE
<1>5. x \in StationTypes /\ SameMac(s, x) /\ x.phyState = "Scanning" /\ x.sensing
  <2>1. s \in StationTypes /\ s.sensing  BY <1>1, <1>2
  <2>2. "Scanning" \in PhyStates  BY DEF PhyStates
  <2>3. x \in StationTypes  BY <2>1, <2>2 DEF StationTypes
  <2>4. SameMac(s, x)  BY <2>1 DEF StationTypes, SameMac
  <2>5. x.phyState = "Scanning" /\ x.sensing  BY <2>1 DEF StationTypes
  <2> QED  BY <2>3, <2>4, <2>5
<1>6. t = SensesClearIfSilent(Expect(told, told.sensing), d)
  BY DEF ProcessEndOfReceivedSignal
<1> HIDE DEF x, t
<1>7. Receives(x)
  <2>1. Consistent(x)  BY <1>2, <1>4, <1>5, BusyAnyway
  <2> QED  BY <1>5, <2>1 DEF Receives
<1>8. Consistent(told) /\ told.sensing  BY <1>7, ReceiveFrameOK
<1> HIDE DEF told
<1>9. Expect(told, told.sensing) = told  BY <1>8 DEF Expect
<1> QED  BY <1>6, <1>8, <1>9, SensesClearOK DEF t

-----------------------------------------------------------------------------
(* A frame of the station's own. *)

\* Who transmits is busy, awaits the reply or replies.
LEMMA TransmitsWhen ==
    ASSUME NEW s, Consistent(s), IsTransmittingAFrame(s)
    PROVE  /\ s \in StationTypes /\ s.outgoing # NONE
           /\ \/ IsWaiting(s)
              \/ s.macState = "CtsOrAckTransmission" /\ s.outgoing = "CONTROL"
              \/ s.macState = "BusyMedium" /\ s.outgoing = "DATA"
<1>1. Basics(s) /\ PhyOK(s) /\ MacOK(s)  BY DEF Consistent, Coherent
<1>2. s.outgoing # NONE /\ s.macState \in MacStates
  BY <1>1 DEF PhyOK, Basics, StationTypes
<1> QED
  BY <1>1, <1>2 DEF MacOK, Basics, HearsNothing, IsTransmittingAFrame, MacStates, IsWaiting, NONE

\* The frame starts: the PHY senses its own signal.
LEMMA StartTransmissionOK ==
    ASSUME NEW s, Consistent(s), s.phyState = "TxStarting"
    PROVE  Consistent(StartTransmission(s)) /\ Settled(StartTransmission(s))
<1> DEFINE t == StartTransmission(s)
<1>1. IsTransmittingAFrame(s)  BY DEF IsTransmittingAFrame
<1>2. Basics(s) /\ PhyOK(s) /\ MacOK(s) /\ s \in StationTypes
      /\ InOrder(s, Counts(s), ExchangeOf(s))
  BY DEF Consistent, Coherent, Basics
<1>3. s.outgoing # NONE
      /\ s.macState \notin {"Idle", "WaitingForIfsAndBackoff", "WaitingForNavExpiration"}
  BY <1>1, TransmitsWhen DEF IsWaiting
<1>4. t \in StationTypes /\ t.phyState = "Transmitting" /\ t.sensing
  <2>1. FrameDuration(s.outgoing) \in Nat  BY Timings DEF FrameDuration
  <2> QED  BY <1>2, <2>1 DEF StartTransmission, StationTypes, PhyStates
<1>5. /\ t.macState = s.macState /\ t.timer = s.timer /\ t.stale = s.stale /\ t.nav = s.nav
      /\ t.permission = s.permission /\ t.last = s.last /\ t.lastSent = s.lastSent
      /\ t.ac = s.ac /\ t.outgoing = s.outgoing /\ t.sent = s.sent /\ t.failed = s.failed
  BY <1>2 DEF StartTransmission, StationTypes
<1> HIDE DEF t
<1>6. Basics(t) /\ PhyOK(t) /\ Settled(t)
  BY <1>2, <1>3, <1>4, <1>5 DEF Basics, PhyOK, IsTransmittingAFrame, Settled
<1>7. QuietOK(t) /\ CountingOK(t) /\ GapOK(t)
  BY <1>3, <1>4, <1>5 DEF QuietOK, CountingOK, Counts, GapOK
<1>8. MacOK(t)  BY <1>2, <1>3, <1>4, <1>5 DEF MacOK, IsWaiting
<1>9. ExchangeOf(t) = ExchangeOf(s) /\ Counts(t) = Counts(s)
  BY <1>5 DEF ExchangeOf, Counts, IsWaiting
<1>10. InOrder(t, Counts(t), ExchangeOf(t))  BY <1>2, <1>5, <1>9 DEF InOrder
<1> QED  BY <1>6, <1>7, <1>8, <1>10 DEF Consistent, Coherent, t

\* The frame ends: its reply is awaited, it was one, or it needs none.
LEMMA EndTransmissionOK ==
    ASSUME NEW s, Consistent(s), s.phyState = "Transmitting", NEW d \in DrawTypes
    PROVE  Consistent(EndCurrentTransmission(s, d)) /\ Settled(EndCurrentTransmission(s, d))
<1> DEFINE x == [s EXCEPT !.phyState = "Scanning", !.outgoing = NONE]
           t == TransmissionIsComplete(x, d)
<1>1. IsTransmittingAFrame(s)  BY DEF IsTransmittingAFrame
<1>2. Basics(s) /\ PhyOK(s) /\ MacOK(s) /\ s \in StationTypes /\ s.sensing
      /\ InOrder(s, Counts(s), ExchangeOf(s))
  BY DEF Consistent, Coherent, Basics, PhyOK
<1>3. /\ s.outgoing # NONE
      /\ \/ IsWaiting(s)
         \/ s.macState = "CtsOrAckTransmission" /\ s.outgoing = "CONTROL"
         \/ s.macState = "BusyMedium" /\ s.outgoing = "DATA"
  BY <1>1, TransmitsWhen
<1>4. x \in StationTypes /\ x.phyState = "Scanning" /\ x.outgoing = NONE
  BY <1>2 DEF StationTypes, PhyStates
<1>5. /\ x.macState = s.macState /\ x.timer = s.timer /\ x.stale = s.stale /\ x.nav = s.nav
      /\ x.permission = s.permission /\ x.last = s.last /\ x.lastSent = s.lastSent
      /\ x.ac = s.ac /\ x.sent = s.sent /\ x.failed = s.failed /\ x.sensing
  BY <1>2 DEF StationTypes
<1> HIDE DEF x
<1>6. Consistent(t) /\ t.sensing
  <2>1. CASE IsWaiting(s)
    <3> DEFINE y == [x EXCEPT !.timer = ReplyTimeout, !.stale = INFINITE]
    <3>1. t = y  BY <1>5, <2>1 DEF TransmissionIsComplete, IsWaiting
    <3> HIDE DEF t
    <3>2. y \in StationTypes /\ y.timer = ReplyTimeout /\ y.stale = INFINITE
      <4> DEFINE timed == [x EXCEPT !.timer = ReplyTimeout]
      <4>1. ReplyTimeout \in Int /\ INFINITE \in Int  BY Timings
      <4>2. timed \in StationTypes /\ timed.timer = ReplyTimeout
        BY <1>4, <4>1 DEF StationTypes
      <4>3. y = [timed EXCEPT !.stale = INFINITE]  OBVIOUS
      <4> HIDE DEF y, timed
      <4> QED  BY <4>1, <4>2, <4>3 DEF StationTypes
    <3>3. /\ y.macState = s.macState /\ y.nav = s.nav
          /\ y.permission = s.permission /\ y.last = s.last /\ y.lastSent = s.lastSent
          /\ y.ac = s.ac /\ y.sent = s.sent /\ y.failed = s.failed /\ y.sensing
          /\ y.phyState = "Scanning" /\ y.outgoing = NONE
      BY <1>4, <1>5 DEF StationTypes
    <3> HIDE DEF y
    <3>4. Basics(y) /\ PhyOK(y)
      BY <1>2, <3>2, <3>3, Timings DEF Basics, PhyOK, IsTransmittingAFrame
    <3>5. QuietOK(y) /\ CountingOK(y) /\ GapOK(y)
      BY <2>1, <3>3 DEF QuietOK, CountingOK, Counts, GapOK, IsWaiting
    <3>6. MacOK(y)
      BY <1>2, <2>1, <3>2, <3>3, Timings DEF MacOK, IsWaiting
    <3>7. ExchangeOf(y) = ExchangeOf(s) /\ Counts(y) = Counts(s)
      BY <2>1, <3>3 DEF ExchangeOf, Counts, IsWaiting
    <3>8. InOrder(y, Counts(y), ExchangeOf(y))  BY <1>2, <3>3, <3>7 DEF InOrder
    <3> QED  BY <3>1, <3>3, <3>4, <3>5, <3>6, <3>8 DEF Consistent, Coherent
  <2>2. CASE s.macState = "CtsOrAckTransmission" /\ s.outgoing = "CONTROL"
    <3> DEFINE y == [x EXCEPT !.macState = "BusyMedium"]
    <3>1. t = y  BY <1>5, <2>2 DEF TransmissionIsComplete, IsWaiting
    <3> HIDE DEF t
    <3>2. y \in StationTypes /\ y.macState = "BusyMedium"
      BY <1>4 DEF StationTypes, MacStates
    <3>3. /\ y.timer = s.timer /\ y.stale = s.stale /\ y.nav = s.nav
          /\ y.permission = s.permission /\ y.ac = s.ac /\ y.sent = s.sent /\ y.failed = s.failed /\ y.sensing
          /\ y.phyState = "Scanning" /\ y.outgoing = NONE
      BY <1>4, <1>5 DEF StationTypes
    <3> HIDE DEF y
    <3>4. s.timer = INFINITE /\ s.sent = NONE  BY <1>2, <2>2 DEF MacOK
    <3>5. ExchangeOf(s) = {} /\ Counts(s) = FALSE
      BY <2>2 DEF ExchangeOf, Counts, IsWaiting
    <3>6. InOrder(y, FALSE, {})
      <4>1. InOrder(s, FALSE, {})  BY <1>2, <3>5
      <4> QED  BY <3>3, <4>1 DEF InOrder
    <3>7. Busy(y)  BY <1>2, <3>2, <3>3, <3>4, <3>6 DEF Busy, Basics
    <3> QED  BY <3>1, <3>7, BusyOK DEF Busy
  <2>3. CASE s.macState = "BusyMedium" /\ s.outgoing = "DATA"
    <3> DEFINE y == DoSuccessfulTransmissionPostProcessing(x, d)
    <3>1. t = y  BY <1>5, <2>3 DEF TransmissionIsComplete, IsWaiting, Expect
    <3> HIDE DEF t
    <3>2. s.timer = INFINITE /\ s.sent = NONE  BY <1>2, <2>3 DEF MacOK
    <3>3. ExchangeOf(s) = {s.last} /\ Counts(s) = FALSE
      BY <2>3 DEF ExchangeOf, Counts, IsWaiting
    <3>4. \A k \in Categories : CategoryOK(s.ac[k], k, FALSE, k \in {s.last})
      BY <1>2, <3>3 DEF InOrder
    <3>5. CategoryOK(x.ac[x.last], x.last, FALSE, TRUE)
      <4>1. s.last \in Categories  BY <1>2 DEF StationTypes
      <4>2. (s.last \in {s.last}) = TRUE  OBVIOUS
      <4> QED  BY <1>5, <3>4, <4>1, <4>2
    <3>6. \A k \in Categories : k # x.last => CategoryOK(x.ac[k], k, FALSE, FALSE)
      <4> TAKE k \in Categories
      <4>1. HAVE k # x.last
      <4>2. (k \in {s.last}) = FALSE  BY <1>5, <4>1
      <4> QED  BY <1>5, <3>4, <4>2
    <3>7. x.macState = "BusyMedium"  BY <1>5, <2>3
    <3>8. y \in StationTypes /\ SameRest(x, y) /\ InOrder(y, FALSE, {})
      BY <1>4, <3>5, <3>6, <3>7, PostProcessingOK
    <3> HIDE DEF y
    <3>9. Busy(y)
      BY <1>2, <1>4, <1>5, <3>2, <3>7, <3>8 DEF Busy, Basics, SameRest
    <3> QED  BY <3>1, <3>9, BusyOK DEF Busy
  <2> QED  BY <1>3, <2>1, <2>2, <2>3
<1>7. EndCurrentTransmission(s, d) = SensesClearIfSilent(t, d)
  BY DEF EndCurrentTransmission, x
<1> HIDE DEF t
<1> QED  BY <1>6, <1>7, SensesClearOK

\* Either of them.
LEMMA TransmissionTimerOK ==
    ASSUME NEW s, Consistent(s), IsTransmittingAFrame(s), NEW d \in DrawTypes
    PROVE  LET t == StartOrEndTransmission(s, d)
           IN  Consistent(t) /\ Settled(t)
<1>1. CASE s.phyState = "TxStarting"
  BY <1>1, StartTransmissionOK DEF StartOrEndTransmission
<1>2. CASE s.phyState = "Transmitting"
  BY <1>2, EndTransmissionOK DEF StartOrEndTransmission
<1> QED  BY <1>1, <1>2 DEF IsTransmittingAFrame

-----------------------------------------------------------------------------
(* The timer ends. *)

\* The reply has not come in time: what is received goes on, another signal is waited
\* for, a clear channel is gone on with.
LEMMA ReplyTimeoutOK ==
    ASSUME NEW s, Consistent(s), Settled(s), IsWaiting(s), s.timer = 0, NEW d \in DrawTypes
    PROVE  LET t == ReplyTimeoutExpiration(TimerOff(s), d)
           IN  Consistent(t) /\ Settled(t)
<1> DEFINE x == TimerOff(s)
           t == ReplyTimeoutExpiration(x, d)
           y == GiveUpWaiting(x, d)
<1>1. Basics(s) /\ PhyOK(s) /\ MacOK(s) /\ s \in StationTypes
      /\ InOrder(s, Counts(s), ExchangeOf(s))
  BY DEF Consistent, Coherent, Basics
<1>2. s.outgoing = NONE
  <2>1. s.timer # INFINITE  BY Timings
  <2> QED  BY <1>1, <2>1 DEF MacOK
<1>3. s.phyState \in {"Scanning", "Receiving"}
  BY <1>1, <1>2 DEF PhyOK, IsTransmittingAFrame, StationTypes, PhyStates
<1>4. x \in StationTypes  BY <1>1, TimerOffTyped
<1>5. /\ x.timer = INFINITE /\ x.ac = s.ac /\ x.nav = s.nav /\ x.permission = s.permission
      /\ x.failed = s.failed /\ x.phyState = s.phyState /\ x.sensing = s.sensing
      /\ x.others = s.others /\ x.outgoing = s.outgoing /\ x.sent = s.sent
      /\ x.stale = s.stale /\ x.macState = s.macState /\ x.last = s.last /\ x.lastSent = s.lastSent
  BY <1>1 DEF TimerOff, StationTypes
<1>6. t = IF x.phyState = "Receiving" THEN x
          ELSE IF x.sensing THEN y ELSE GoOnWhenClear(y)
  BY DEF ReplyTimeoutExpiration
<1> HIDE DEF x, t
<1>7. ASSUME s.sensing PROVE Consistent(x)
  <2>1. Basics(x) /\ PhyOK(x)
    BY <1>1, <1>2, <1>3, <1>4, <1>5, <1>7, Timings DEF Basics, PhyOK, IsTransmittingAFrame
  <2>2. QuietOK(x) /\ CountingOK(x) /\ GapOK(x)
    BY <1>3, <1>5 DEF QuietOK, CountingOK, Counts, GapOK, IsWaiting
  <2>3. MacOK(x)  BY <1>1, <1>2, <1>5, <1>7 DEF MacOK, IsWaiting
  <2>4. ExchangeOf(x) = ExchangeOf(s) /\ Counts(x) = Counts(s)
    BY <1>5 DEF ExchangeOf, Counts, IsWaiting
  <2>5. InOrder(x, Counts(x), ExchangeOf(x))  BY <1>1, <1>5, <2>4 DEF InOrder
  <2> QED  BY <2>1, <2>2, <2>3, <2>5 DEF Consistent, Coherent
<1>8. CASE s.phyState = "Receiving"
  <2>1. s.sensing  BY <1>1, <1>8 DEF PhyOK
  <2>2. t = x  BY <1>5, <1>6, <1>8
  <2>3. Settled(x)  BY <1>5, <1>8 DEF Settled
  <2> QED  BY <1>7, <2>1, <2>2, <2>3 DEF t, x
<1>9. CASE s.phyState = "Scanning" /\ s.sensing
  <2>1. t = y  BY <1>5, <1>6, <1>9
  <2>2. Receives(x)  BY <1>5, <1>7, <1>9 DEF Receives
  <2>3. Busy(y) /\ y.others = x.others  BY <2>2, GiveUpWaitingOK
  <2> HIDE DEF y
  <2>4. Settled(y)  BY <1>5, <1>9, <2>3 DEF Settled
  <2>5. Consistent(y)  BY <2>3, BusyOK
  <2> QED  BY <2>1, <2>4, <2>5 DEF t, x
<1>10. CASE s.phyState = "Scanning" /\ ~s.sensing
  <2> DEFINE g == GivenUp(x, "BusyMedium")
  <2>1. t = GoOnWhenClear(y)  BY <1>5, <1>6, <1>10
  <2>2. IsWaiting(x)  BY <1>5 DEF IsWaiting
  <2>3. y = NeverReceivedClearToSendOrAcknowledgement([x EXCEPT !.macState = "BusyMedium"], d)
    BY <2>2 DEF GiveUpWaiting
  <2>4. AwaitsReply(x)
    <3>1. ExchangeOf(s) = {x.last} /\ Counts(s) = FALSE
      BY <1>5 DEF ExchangeOf, Counts, IsWaiting
    <3>2. InOrder(s, FALSE, {x.last})  BY <1>1, <3>1
    <3>3. InOrder(x, FALSE, {x.last})  BY <1>5, <3>2 DEF InOrder
    <3>4. x.lastSent = "RTS" => x.sent = NONE  BY <1>1, <1>5 DEF MacOK
    <3> QED  BY <1>2, <1>4, <1>5, <2>2, <3>3, <3>4 DEF AwaitsReply
  <2> HIDE DEF y
  <2>5. y \in StationTypes /\ SameRest(g, y) /\ InOrder(y, FALSE, {})
    BY <2>3, <2>4, GivesUp
  <2>6. /\ g.timer = INFINITE /\ g.sent = NONE /\ g.stale = x.stale
        /\ g.nav = x.nav /\ g.others = x.others /\ g.phyState = x.phyState
        /\ g.sensing = x.sensing /\ g.outgoing = x.outgoing
        /\ g.permission = x.permission /\ g.failed = x.failed
    BY <1>4 DEF GivenUp, StationTypes
  <2> HIDE DEF g
  <2>7. s.others = 0  BY <1>1, <1>10 DEF PhyOK, StationTypes
  <2>8. AtRest(y)
    BY <1>1, <1>2, <1>5, <1>10, <2>5, <2>6, <2>7 DEF AtRest, SameRest, HearsNothing, Basics
  <2>9. Consistent(GoOnWhenClear(y)) /\ HearsNothing(GoOnWhenClear(y))  BY <2>8, GoOnOK
  <2> QED  BY <2>1, <2>9 DEF t, x, Settled, HearsNothing
<1> QED  BY <1>3, <1>8, <1>9, <1>10

\* The reservation is over.
LEMMA NavTimeoutOK ==
    ASSUME NEW s, Consistent(s), s.macState = "WaitingForNavExpiration", s.timer = 0
    PROVE  LET t == NavExpiration(TimerOff(s))
           IN  Consistent(t) /\ Settled(t)
<1> DEFINE x == TimerOff(s)
<1>1. Basics(s) /\ PhyOK(s) /\ MacOK(s) /\ s \in StationTypes
      /\ InOrder(s, Counts(s), ExchangeOf(s))
  BY DEF Consistent, Coherent, Basics
<1>2. HearsNothing(s) /\ s.nav = 0 /\ s.outgoing = NONE /\ s.sent = NONE
  BY <1>1 DEF MacOK, PhyOK, HearsNothing, IsTransmittingAFrame
<1>3. s.others = 0  BY <1>1, <1>2 DEF PhyOK, HearsNothing, StationTypes
<1>4. x \in StationTypes  BY <1>1, TimerOffTyped
<1>5. /\ x.timer = INFINITE /\ x.ac = s.ac /\ x.nav = s.nav /\ x.permission = s.permission
      /\ x.failed = s.failed /\ x.phyState = s.phyState /\ x.sensing = s.sensing
      /\ x.others = s.others /\ x.outgoing = s.outgoing /\ x.sent = s.sent
      /\ x.stale = s.stale
  BY <1>1 DEF TimerOff, StationTypes
<1> HIDE DEF x
<1>6. ExchangeOf(s) = {} /\ Counts(s) = FALSE
  BY <1>2 DEF ExchangeOf, IsWaiting, Counts, NONE
<1>7. InOrder(x, FALSE, {})
  <2>1. InOrder(s, FALSE, {})  BY <1>1, <1>6
  <2> QED  BY <1>5, <2>1 DEF InOrder
<1>8. AtRest(x) /\ x.nav = 0
  BY <1>1, <1>2, <1>3, <1>4, <1>5, <1>7 DEF AtRest, HearsNothing, Basics
<1>9. Consistent(NavExpiration(x)) /\ HearsNothing(NavExpiration(x))
  BY <1>8, NavExpirationOK
<1> QED  BY <1>9 DEF x, Settled, HearsNothing

\* Whatever the timer was for.
LEMMA WakeupTimerOK ==
    ASSUME NEW s, Consistent(s), Settled(s), s.timer = 0, NEW d \in DrawTypes,
           NEW r \in AllRetrievals(s)
    PROVE  Consistent(WakeupTimerEvent(s, d, r)) /\ Settled(WakeupTimerEvent(s, d, r))
<1>1. MacOK(s) /\ s \in StationTypes  BY DEF Consistent, Coherent, Basics
<1>2. INFINITE # 0  BY Timings
<1>3. s.macState \in MacStates  BY <1>1 DEF StationTypes
<1>4. s.macState \in {"WaitingForNavExpiration", "WaitingForIfsAndBackoff"} \/ IsWaiting(s)
  BY <1>1, <1>2, <1>3 DEF MacOK, MacStates, IsWaiting
<1>5. CASE s.macState = "WaitingForNavExpiration"
  <2>1. WakeupTimerEvent(s, d, r) = NavExpiration(TimerOff(s))
    BY <1>5 DEF WakeupTimerEvent, TimerOff, IsWaiting
  <2> QED  BY <1>5, <2>1, NavTimeoutOK
<1>6. CASE s.macState = "WaitingForIfsAndBackoff"
  <2>1. WakeupTimerEvent(s, d, r) = IfsAndBackoffTimeout(TimerOff(s), d, r)
    BY <1>6 DEF WakeupTimerEvent, TimerOff, IsWaiting
  <2>2. Counts(s)  BY <1>6 DEF Counts
  <2> QED  BY <2>1, <2>2, BackoffTimeoutOK
<1>7. CASE IsWaiting(s)
  <2>1. WakeupTimerEvent(s, d, r) = ReplyTimeoutExpiration(TimerOff(s), d)
    BY <1>7 DEF WakeupTimerEvent, TimerOff, IsWaiting
  <2> QED  BY <1>7, <2>1, ReplyTimeoutOK
<1> QED  BY <1>4, <1>5, <1>6, <1>7

-----------------------------------------------------------------------------
(* Time passes. *)

\* The backoff of the category comes nearer as time passes.
CountsDown(s, c) == Counts(s) /\ s.ac[c].duration # INFINITE

\* What time does to a station, and what it leaves alone.
LEMMA TickRest ==
    ASSUME NEW s \in StationTypes
    PROVE  LET t == Tick(s)
           IN  /\ t.corrupt = s.corrupt /\ t.last = s.last /\ t.lastSent = s.lastSent
               /\ t.sensing = s.sensing /\ t.others = s.others /\ t.sent = s.sent
               /\ t.gap = s.gap /\ t.idleFor <= s.idleFor + 1
               /\ ~s.sensing /\ s.nav = 0 => t.quiet = MinOf(s.quiet + 1, Cap)
               /\ \A c \in Categories :
                      t.ac[c] = [s.ac[c] EXCEPT
                                    !.elapsed = IF CountsDown(s, c) THEN @ + 1 ELSE @]
<1> DEFINE idleFor == IF s.idleFor < LongestInterframeSpace + SlotTime THEN s.idleFor + 1
                      ELSE s.idleFor + 1 - SlotTime
           quiet == IF s.sensing \/ s.nav > 0 THEN 0 ELSE MinOf(s.quiet + 1, Cap)
           ac == [c \in Categories |->
                     [s.ac[c] EXCEPT !.elapsed = IF CountsDown(s, c) THEN @ + 1 ELSE @]]
           t == [s EXCEPT !.timer = Left(s.timer), !.nav = Left(s.nav),
                          !.permission = Left(s.permission), !.txLeft = Left(s.txLeft),
                          !.stale = LeftOnce(s.stale),
                          !.idleFor = idleFor, !.quiet = quiet, !.ac = ac]
<1>1. Tick(s) = t  BY DEF Tick, CountsDown, Counts, Cap
<1>2. idleFor <= s.idleFor + 1
  BY Timings DEF StationTypes
<1>3. ~s.sensing /\ s.nav = 0 => quiet = MinOf(s.quiet + 1, Cap)  OBVIOUS
<1>4. \A c \in Categories :
          ac[c] = [s.ac[c] EXCEPT !.elapsed = IF CountsDown(s, c) THEN @ + 1 ELSE @]
  OBVIOUS
<1> HIDE DEF idleFor, quiet, ac
<1>5. /\ t.corrupt = s.corrupt /\ t.last = s.last /\ t.lastSent = s.lastSent
      /\ t.sensing = s.sensing /\ t.others = s.others /\ t.sent = s.sent
      /\ t.gap = s.gap /\ t.idleFor = idleFor /\ t.quiet = quiet /\ t.ac = ac
  BY DEF StationTypes
<1> HIDE DEF t
<1> QED  BY <1>1, <1>2, <1>3, <1>4, <1>5

\* It leaves the categories in order.
LEMMA TickCategories ==
    ASSUME NEW s \in StationTypes, NEW counts, NEW exchanging, InOrder(s, counts, exchanging)
    PROVE  /\ InOrder(Tick(s), counts, exchanging)
           /\ \A c \in Categories :
                  /\ Tick(s).ac[c].duration = s.ac[c].duration
                  /\ Tick(s).ac[c].packet = s.ac[c].packet
                  /\ Tick(s).ac[c].elapsed
                         = IF CountsDown(s, c) THEN s.ac[c].elapsed + 1 ELSE s.ac[c].elapsed
<1> SUFFICES ASSUME NEW c \in Categories
             PROVE  /\ CategoryOK(Tick(s).ac[c], c, counts, c \in exchanging)
                    /\ Tick(s).ac[c].duration = s.ac[c].duration
                    /\ Tick(s).ac[c].packet = s.ac[c].packet
                    /\ Tick(s).ac[c].elapsed
                         = IF CountsDown(s, c) THEN s.ac[c].elapsed + 1 ELSE s.ac[c].elapsed
  BY DEF InOrder
<1> DEFINE i == s.ac[c]
           e == IF CountsDown(s, c) THEN i.elapsed + 1 ELSE i.elapsed
           j == [i EXCEPT !.elapsed = e]
<1>1. Tick(s).ac[c] = j  BY TickRest
<1>2. i \in AccessCategoryInfos  BY InfoTyped
<1>3. CategoryOK(i, c, counts, c \in exchanging)  BY DEF InOrder
<1> HIDE DEF i, e
<1>4. /\ j.slots = i.slots /\ j.duration = i.duration /\ j.elapsed = e
      /\ j.jumping = i.jumping /\ j.window = i.window /\ j.packet = i.packet
      /\ j.hasPacketToSend = i.hasPacketToSend /\ j.queued = i.queued
  BY <1>2 DEF AccessCategoryInfos
<1> HIDE DEF j
<1>5. CategoryOK(j, c, counts, c \in exchanging)  BY <1>3, <1>4 DEF CategoryOK
<1> QED  BY <1>1, <1>4, <1>5 DEF e, i

\* All backoffs come nearer by the same time.
LEMMA ExpirationComesNearer ==
    ASSUME NEW s, Consistent(s), Counts(s)
    PROVE  CurrentBackoffExpiration(Tick(s)) = CurrentBackoffExpiration(s) - 1
<1> DEFINE t == Tick(s)
<1>1. s \in StationTypes /\ (\E c \in Categories : s.ac[c].duration # INFINITE)
      /\ InOrder(s, Counts(s), ExchangeOf(s))
  BY DEF Consistent, Coherent, Basics, CountingOK
<1>2. t \in StationTypes /\ Extension(t) = Extension(s)
  BY <1>1, TickTyped, TickRest DEF Extension
<1>3. \A c \in Categories : t.ac[c].duration = s.ac[c].duration
                            /\ (s.ac[c].duration # INFINITE =>
                                    t.ac[c].elapsed = s.ac[c].elapsed + 1)
  BY <1>1, TickCategories DEF CountsDown
<1> HIDE DEF t
<1> DEFINE x == CurrentBackoffExpiration(s)
           y == CurrentBackoffExpiration(t)
<1>4. PICK a \in Categories :
          /\ s.ac[a].duration # INFINITE
          /\ x = s.ac[a].duration - s.ac[a].elapsed + Extension(s)
          /\ \A k \in Categories : s.ac[k].duration # INFINITE =>
                 x <= s.ac[k].duration - s.ac[k].elapsed + Extension(s)
  BY <1>1, ExpirationTyped
<1>5. PICK b \in Categories :
          /\ t.ac[b].duration # INFINITE
          /\ y = t.ac[b].duration - t.ac[b].elapsed + Extension(t)
          /\ \A k \in Categories : t.ac[k].duration # INFINITE =>
                 y <= t.ac[k].duration - t.ac[k].elapsed + Extension(t)
  BY <1>1, <1>2, <1>3, ExpirationTyped
<1> HIDE DEF x, y
<1>6. \A c \in Categories : s.ac[c].duration \in Nat /\ s.ac[c].elapsed \in Nat
  BY <1>1, InfoTyped DEF AccessCategoryInfos
<1>7. Extension(s) \in Nat  BY Timings DEF Extension
<1>8. y <= x - 1  BY <1>2, <1>3, <1>4, <1>5, <1>6, <1>7
<1>9. x <= y + 1  BY <1>2, <1>3, <1>4, <1>5, <1>6, <1>7
<1>10. x \in Int /\ y \in Int  BY <1>2, <1>3, <1>4, <1>5, <1>6, <1>7
<1>11. y = x - 1  BY <1>8, <1>9, <1>10
<1> QED  BY <1>11 DEF x, y, t

\* A tick leaves everything in order.
LEMMA TickOK ==
    ASSUME NEW s, Consistent(s), Settled(s), NothingIsDue(s)
    PROVE  Consistent(Tick(s)) /\ Settled(Tick(s))
<1> DEFINE t == Tick(s)
<1>1. Basics(s) /\ PhyOK(s) /\ MacOK(s) /\ QuietOK(s) /\ CountingOK(s) /\ GapOK(s)
      /\ s \in StationTypes /\ InOrder(s, Counts(s), ExchangeOf(s))
  BY DEF Consistent, Coherent, Basics
<1>2. /\ t \in StationTypes
      /\ t.permission = Left(s.permission) /\ t.timer = Left(s.timer) /\ t.nav = Left(s.nav)
      /\ t.stale = LeftOnce(s.stale) /\ t.macState = s.macState /\ t.phyState = s.phyState
      /\ t.outgoing = s.outgoing /\ t.failed = s.failed
  BY <1>1, TickTyped
<1>3. /\ t.corrupt = s.corrupt /\ t.last = s.last /\ t.lastSent = s.lastSent
      /\ t.sensing = s.sensing /\ t.others = s.others /\ t.sent = s.sent
      /\ t.gap = s.gap /\ t.idleFor <= s.idleFor + 1
      /\ (~s.sensing /\ s.nav = 0 => t.quiet = MinOf(s.quiet + 1, Cap))
  BY <1>1, TickRest
<1>4. /\ InOrder(t, Counts(s), ExchangeOf(s))
      /\ \A c \in Categories :
             /\ t.ac[c].duration = s.ac[c].duration /\ t.ac[c].packet = s.ac[c].packet
             /\ t.ac[c].elapsed
                    = IF CountsDown(s, c) THEN s.ac[c].elapsed + 1 ELSE s.ac[c].elapsed
  BY <1>1, TickCategories
<1>5. /\ s.timer \in Nat /\ s.nav \in Nat /\ s.quiet \in Nat /\ s.idleFor \in Nat
      /\ t.idleFor \in Nat /\ Cap \in Nat /\ s.timer > 0 /\ s.last \in Categories
  BY <1>1, <1>2, Timings, ExtremeInterframeSpaces DEF Basics, StationTypes, NothingIsDue, Cap
<1>6. Counts(s) => CurrentBackoffExpiration(t) = CurrentBackoffExpiration(s) - 1
  BY ExpirationComesNearer
<1>7. Counts(s) => s.timer < INFINITE  BY <1>1 DEF CountingOK
<1> HIDE DEF t
<1>8. Left(INFINITE) = INFINITE /\ Left(0) = 0 /\ LeftOnce(INFINITE) = INFINITE
  BY LeftTyped, Timings DEF Left
<1>9. t.nav \in Nat /\ t.nav <= s.nav /\ t.timer \in Nat
  <2>1. s.nav < INFINITE  BY <1>1, <1>5, TimesAreFinite, EnvironmentAssumption, Timings DEF Basics
  <2>2. s.nav > 0 => t.nav = s.nav - 1  BY <1>2, <1>5, <2>1, LeftTyped, Timings
  <2>3. s.nav = 0 => t.nav = 0  BY <1>2, <1>8
  <2> QED  BY <1>2, <1>5, <2>2, <2>3, LeftTyped
<1>10. s.timer # INFINITE => t.timer = s.timer - 1
  BY <1>2, <1>5, LeftTyped
<1>11. Basics(t)
  BY <1>1, <1>2, <1>5, <1>8, <1>9, EnvironmentAssumption DEF Basics
<1>12. PhyOK(t) /\ Settled(t) /\ GapOK(t)
  BY <1>1, <1>2, <1>3 DEF PhyOK, Settled, GapOK, IsTransmittingAFrame, Extension
<1>13. MacOK(t)
  <2>1. IsWaiting(s) =>
            \/ t.timer = INFINITE /\ (t.sensing \/ t.outgoing # NONE)
            \/ t.timer <= ReplyTimeout /\ t.outgoing = NONE
    <3>1. ReplyTimeout \in Nat /\ ReplyTimeout < INFINITE /\ INFINITE \in Nat
      BY Timings, TimesAreFinite
    <3>2. s.timer = INFINITE => t.timer = INFINITE  BY <1>2, <1>8
    <3>3. s.timer <= ReplyTimeout => t.timer <= ReplyTimeout  BY <1>5, <1>10, <3>1
    <3> QED  BY <1>1, <1>2, <1>3, <3>2, <3>3 DEF MacOK
  <2>2. s.timer = INFINITE => t.timer = INFINITE  BY <1>2, <1>8
  <2>3. s.nav = 0 => t.nav = 0  BY <1>2, <1>8
  <2>4. s.timer = s.nav => t.timer = t.nav  BY <1>2
  <2>5. IsWaiting(t) <=> IsWaiting(s)  BY <1>2 DEF IsWaiting
  <2>6. HearsNothing(t) <=> HearsNothing(s)  BY <1>2, <1>3 DEF HearsNothing
  <2>7. t.ac[t.last].packet = s.ac[s.last].packet  BY <1>3, <1>4, <1>5
  <2>8. \A c \in Categories : t.ac[c].duration = s.ac[c].duration  BY <1>4
  <2> QED
    BY <1>1, <1>2, <1>3, <2>1, <2>2, <2>3, <2>4, <2>5, <2>6, <2>7, <2>8 DEF MacOK
<1>14. ASSUME s.macState \in {"Idle", "WaitingForIfsAndBackoff"}
       PROVE  /\ t.quiet \in Nat
              /\ t.quiet = s.quiet + 1 \/ t.quiet = Cap
              /\ s.quiet >= Cap => t.quiet >= Cap
  <2>1. ~s.sensing /\ s.nav = 0  BY <1>1, <1>14 DEF MacOK, HearsNothing
  <2> QED  BY <1>3, <1>5, <2>1 DEF MinOf
<1>15. QuietOK(t)
  <2> SUFFICES ASSUME s.macState \in {"Idle", "WaitingForIfsAndBackoff"}
               PROVE  t.quiet >= Cap \/ t.idleFor <= t.quiet
    BY <1>2 DEF QuietOK
  <2>1. s.quiet >= Cap \/ s.idleFor <= s.quiet  BY <1>1 DEF QuietOK
  <2> QED  BY <1>3, <1>5, <1>14, <2>1
<1>16. CountingOK(t)
  <2> SUFFICES ASSUME Counts(s)
               PROVE  /\ t.timer = CurrentBackoffExpiration(t) /\ t.timer < INFINITE
                      /\ \E c \in Categories : t.ac[c].duration # INFINITE
                      /\ \A c \in Categories : t.ac[c].duration # INFINITE => QuietEnough(t, c)
    BY <1>2 DEF CountingOK, Counts
  <2>1. /\ s.timer = CurrentBackoffExpiration(s)
        /\ \E c \in Categories : s.ac[c].duration # INFINITE
        /\ \A c \in Categories : s.ac[c].duration # INFINITE => QuietEnough(s, c)
    BY <1>1 DEF CountingOK
  <2>2. t.timer = CurrentBackoffExpiration(t) /\ t.timer < INFINITE
    BY <1>5, <1>6, <1>7, <1>10, <2>1, Timings
  <2>3. ASSUME NEW c \in Categories, t.ac[c].duration # INFINITE
        PROVE  QuietEnough(t, c)
    <3>1. QuietEnough(s, c)  BY <1>4, <2>1, <2>3
    <3>2. t.ac[c].duration = s.ac[c].duration /\ t.ac[c].elapsed = s.ac[c].elapsed + 1
      BY <1>4, <2>3 DEF CountsDown
    <3>3. s.ac[c].duration \in Nat /\ s.ac[c].elapsed \in Nat
      BY <1>1, InfoTyped DEF AccessCategoryInfos
    <3>4. NonExtendedBackoffDuration(c, 0) \in Nat  BY BackoffDurations
    <3>5. /\ t.quiet \in Nat
          /\ t.quiet = s.quiet + 1 \/ t.quiet = Cap
          /\ s.quiet >= Cap => t.quiet >= Cap
      BY <1>14 DEF Counts
    <3> QED  BY <1>5, <3>1, <3>2, <3>3, <3>4, <3>5 DEF QuietEnough
  <2> QED  BY <1>4, <2>1, <2>2, <2>3
<1>17. ExchangeOf(t) = ExchangeOf(s) /\ Counts(t) = Counts(s)
  BY <1>2, <1>3 DEF ExchangeOf, Counts, IsWaiting
<1>18. InOrder(t, Counts(t), ExchangeOf(t))  BY <1>4, <1>17
<1> QED  BY <1>11, <1>12, <1>13, <1>15, <1>16, <1>18 DEF Consistent, Coherent, t

-----------------------------------------------------------------------------
(* The behaviours of the station. *)

\* A station that has done nothing yet is in order.
LEMMA InitKeeps ==
    ASSUME Init
    PROVE  EdcaInv
<1> DEFINE s == InitialStation
           info(c) == [window |-> MinWindow[c], slots |-> 0, duration |-> INFINITE,
                       elapsed |-> 0, jumping |-> FALSE, hasPacketToSend |-> FALSE,
                       shortRetries |-> 0, longRetries |-> 0, packet |-> NONE, queued |-> 0]
<1>1. s \in StationTypes /\ ~IsTransmittingAFrame(s)  BY InitialTyped
<1>2. /\ s.macState = "Idle" /\ s.timer = INFINITE /\ s.stale = INFINITE /\ s.nav = 0 /\ s.permission = INFINITE
      /\ s.idleFor = 0 /\ s.phyState = "Scanning" /\ ~s.sensing /\ s.others = 0
      /\ s.outgoing = NONE /\ s.sent = NONE /\ s.quiet = 0 /\ ~s.failed
      /\ s.ac = [c \in Categories |-> info(c)]
  BY DEF InitialStation
<1> HIDE DEF s
<1>3. \A c \in Categories : s.ac[c].duration = INFINITE /\ CategoryOK(s.ac[c], c, FALSE, FALSE)
  <2> TAKE c \in Categories
  <2>1. s.ac[c] = info(c)  BY <1>2
  <2>2. MinWindow[c] \in Nat /\ MaxWindow[c] \in Nat /\ MinWindow[c] <= MaxWindow[c]
    BY Windows
  <2> QED  BY <2>1, <2>2 DEF CategoryOK
<1>4. Basics(s) /\ PhyOK(s) /\ QuietOK(s) /\ CountingOK(s) /\ GapOK(s)
  BY <1>1, <1>2, Timings, EnvironmentAssumption
     DEF Basics, PhyOK, QuietOK, CountingOK, Counts, GapOK
<1>5. MacOK(s)  BY <1>2, <1>3 DEF MacOK, HearsNothing, IsWaiting
<1>6. InOrder(s, Counts(s), ExchangeOf(s))
  <2>1. Counts(s) = FALSE /\ ExchangeOf(s) = {}
    BY <1>2 DEF Counts, ExchangeOf, IsWaiting, NONE
  <2>2. InOrder(s, FALSE, {})
    <3> SUFFICES ASSUME NEW c \in Categories PROVE CategoryOK(s.ac[c], c, FALSE, c \in {})
      BY DEF InOrder
    <3>1. (c \in {}) = FALSE  OBVIOUS
    <3> QED  BY <1>3, <3>1
  <2> QED  BY <2>1, <2>2
<1>7. Consistent(s) /\ Settled(s)
  BY <1>2, <1>4, <1>5, <1>6 DEF Consistent, Coherent, Settled
<1> QED
  BY <1>7, EnvironmentAssumption DEF Init, EdcaInv, NoYoung, s

\* The MAC is told of a packet while the PHY goes on as before.
LEMMA ArriveOK ==
    ASSUME EdcaInv, NEW c \in Categories, Arrive(c)
    PROVE  EdcaInv'
<1>1. PICK d \in Draws :
          station' = NetworkLayerQueueChangeNotification([station EXCEPT !.ac[c].queued = @ + 1], d)
  BY DEF Arrive
<1>2. d \in DrawTypes  BY DrawsTyped
<1>3. Consistent(station') /\ SamePhy(station, station')
  BY <1>1, <1>2, ArriveKeeps DEF EdcaInv
<1>4. Settled(station')  BY <1>3 DEF EdcaInv, Settled, SamePhy
<1>5. toArrive' \in [Categories -> Nat]  BY DEF EdcaInv, Arrive
<1>6. signals' = signals /\ reply' = reply /\ young' = young  BY DEF Arrive
<1> QED  BY <1>3, <1>4, <1>5, <1>6 DEF EdcaInv

\* A signal, the reply or another, reaches the station.
LEMMA SignalOK ==
    ASSUME EdcaInv, NEW signal \in {"FOREIGN", "REPLY"}, SignalReaches(signal)
    PROVE  /\ Consistent(station') /\ Settled(station')
           /\ young' \in [receiving : BOOLEAN, others : Nat]
<1>1. PICK d \in Draws, preambleIsDetected \in BOOLEAN, loud \in BOOLEAN :
          /\ station' = ProcessNewSignal(station, signal, preambleIsDetected, loud, d)
          /\ young' = YoungAfterSignal(station, young, preambleIsDetected, loud)
  BY DEF SignalReaches
<1>2. d \in DrawTypes  BY DrawsTyped
<1>3. Consistent(station') /\ Settled(station')  BY <1>1, <1>2, NewSignalOK DEF EdcaInv
<1>4. young' \in [receiving : BOOLEAN, others : Nat]
  <2> DEFINE more == [young EXCEPT !.others = @ + 1]
  <2>1. young \in [receiving : BOOLEAN, others : Nat]  BY DEF EdcaInv
  <2>2. more \in [receiving : BOOLEAN, others : Nat]  BY <2>1
  <2>3. young' \in {young, more, [young EXCEPT !.receiving = TRUE],
                    [more EXCEPT !.receiving = TRUE]}
    BY <1>1 DEF YoungAfterSignal, more
  <2> HIDE DEF more
  <2> QED  BY <2>1, <2>2, <2>3
<1> QED  BY <1>3, <1>4

\* Signals end, frames start and end, and the timer ends.
LEMMA EventsOK ==
    ASSUME EdcaInv,
           ReceivedSignalEnds \/ OtherSignalEnds \/ TransmissionTimer \/ WakeupTimer
    PROVE  EdcaInv'
<1>1. Consistent(station) /\ Settled(station)  BY DEF EdcaInv
<1>2. CASE ReceivedSignalEnds
  <2>1. PICK d \in Draws, frame \in FramesOf(station), reserved \in 0 .. MaxReserved :
            station' = ProcessEndOfReceivedSignal(station, frame, reserved, d)
    BY <1>2 DEF ReceivedSignalEnds
  <2>2. d \in DrawTypes /\ frame \in ReceivedFrames
    BY DrawsTyped DEF FramesOf, ReceivedFrames
  <2>3. Consistent(station') /\ Settled(station')
    BY <1>1, <1>2, <2>1, <2>2, EndOfReceivedOK DEF ReceivedSignalEnds
  <2> QED  BY <1>2, <2>3 DEF ReceivedSignalEnds, EdcaInv
<1>3. CASE OtherSignalEnds
  <2>1. PICK d \in Draws : station' = ProcessEndOfOtherSignal(station, d)
    BY <1>3 DEF OtherSignalEnds
  <2>2. d \in DrawTypes  BY DrawsTyped
  <2>3. station.others > 0
    <3>1. station.others \in Nat  BY <1>1 DEF Consistent, Coherent, Basics, StationTypes
    <3> QED  BY <1>3, <3>1 DEF OtherSignalEnds, EdcaInv
  <2>4. Consistent(station') /\ Settled(station')  BY <1>1, <2>1, <2>2, <2>3, EndOfOtherOK
  <2> QED  BY <1>3, <2>4 DEF OtherSignalEnds, EdcaInv
<1>4. CASE TransmissionTimer
  <2>1. PICK d \in Draws : station' = StartOrEndTransmission(station, d)
    BY <1>4 DEF TransmissionTimer
  <2>2. d \in DrawTypes  BY DrawsTyped
  <2>3. Consistent(station') /\ Settled(station')
    BY <1>1, <1>4, <2>1, <2>2, TransmissionTimerOK DEF TransmissionTimer
  <2>4. reply' \in 0 .. ShortInterframeSpace \cup {INFINITE}
    BY <1>4, Timings DEF TransmissionTimer, RepliesAfterTransmission, EdcaInv
  <2> QED  BY <1>4, <2>3, <2>4 DEF TransmissionTimer, EdcaInv
<1>5. CASE WakeupTimer
  <2>1. PICK d \in Draws, r \in AllRetrievals(station) :
            station' = WakeupTimerEvent(station, d, r)
    BY <1>5 DEF WakeupTimer
  <2>2. d \in DrawTypes  BY DrawsTyped
  <2>3. Consistent(station') /\ Settled(station')
    BY <1>1, <1>5, <2>1, <2>2, WakeupTimerOK DEF WakeupTimer
  <2> QED  BY <1>5, <2>3 DEF WakeupTimer, EdcaInv
<1> QED  BY <1>2, <1>3, <1>4, <1>5

\* Time passes.
LEMMA TimePassesOK ==
    ASSUME EdcaInv, TimePasses
    PROVE  EdcaInv'
<1>1. Consistent(station') /\ Settled(station')  BY TickOK DEF EdcaInv, TimePasses
<1>2. reply' \in 0 .. ShortInterframeSpace \cup {INFINITE}
  <2>1. INFINITE \in Nat /\ ShortInterframeSpace \in Nat  BY Timings
  <2> QED  BY <2>1 DEF EdcaInv, TimePasses, Left, MaxOf
<1>3. young' \in [receiving : BOOLEAN, others : Nat]  BY DEF TimePasses, NoYoung
<1> QED  BY <1>1, <1>2, <1>3 DEF EdcaInv, TimePasses

\* No step disturbs the invariant.
LEMMA NextKeeps ==
    ASSUME EdcaInv, [Next]_vars
    PROVE  EdcaInv'
<1>1. CASE \E c \in Categories : Arrive(c)  BY <1>1, ArriveOK
<1>2. CASE ForeignSignalStarts
  <2>1. Consistent(station') /\ Settled(station')
        /\ young' \in [receiving : BOOLEAN, others : Nat]
    BY <1>2, SignalOK DEF ForeignSignalStarts
  <2>2. signals' \in 0 .. MaxSignals
    BY <1>2, EnvironmentAssumption DEF ForeignSignalStarts, EdcaInv
  <2> QED  BY <1>2, <2>1, <2>2 DEF ForeignSignalStarts, EdcaInv
<1>3. CASE ReplyStarts
  <2>1. Consistent(station') /\ Settled(station')
        /\ young' \in [receiving : BOOLEAN, others : Nat]
    BY <1>3, SignalOK DEF ReplyStarts
  <2> QED  BY <1>3, <2>1 DEF ReplyStarts, EdcaInv
<1>4. CASE ReceivedSignalEnds \/ OtherSignalEnds \/ TransmissionTimer \/ WakeupTimer
  BY <1>4, EventsOK
<1>5. CASE TimePasses  BY <1>5, TimePassesOK
<1>6. CASE UNCHANGED vars  BY <1>6 DEF vars, EdcaInv
<1> QED  BY <1>1, <1>2, <1>3, <1>4, <1>5, <1>6 DEF Next

\* What the MAC is at, its timer, its categories and what the PHY hears stay related
\* through every call between them, whatever other stations do.
THEOREM MacAndPhyAgree == Spec => []EdcaInv
<1>1. Init => EdcaInv  BY InitKeeps
<1>2. EdcaInv /\ [Next]_vars => EdcaInv'  BY NextKeeps
<1> QED  BY <1>1, <1>2, PTL DEF Spec

\* Every field of the station stays in its type; no timer is set into the past.
THEOREM StationTyped == Spec => []TypeOK
<1>1. ASSUME EdcaInv PROVE TypeOK
  <2>1. station \in StationTypes /\ station.timer \in Nat /\ station.stale \in Nat
    BY <1>1, Timings DEF EdcaInv, Consistent, Coherent, Basics
  <2>2. station \in Stations  BY <2>1 DEF StationTypes, Stations
  <2> QED  BY <1>1, <2>2 DEF EdcaInv, TypeOK
<1> QED  BY <1>1, MacAndPhyAgree, PTL

\* No assertion of the MAC or the PHY fails (dot11_mac.h:2457, 2684, 4881, 5122;
\* dot11_phy.h:1470).
THEOREM NoAssertionFails == Spec => []AssertionsHold
<1>1. ASSUME EdcaInv PROVE AssertionsHold
  BY <1>1 DEF EdcaInv, Consistent, Coherent, Basics, AssertionsHold
<1> QED  BY <1>1, MacAndPhyAgree, PTL

\* The MAC is told of every change of the channel: a busy one has a PHY that senses or
\* sends, an idle or a counting one a PHY that hears nothing.
THEOREM MacKnowsItsChannel == Spec => []BusyStateMatchesPhy
<1>1. ASSUME EdcaInv PROVE BusyStateMatchesPhy
  <2>1. MacOK(station) /\ PhyOK(station)  BY <1>1 DEF EdcaInv, Consistent, Coherent
  <2>2. station.macState \in {"BusyMedium", "CtsOrAckTransmission"} =>
            station.sensing \/ IsTransmittingAFrame(station)
    BY <2>1 DEF MacOK, PhyOK, NONE
  <2>3. station.macState \in {"Idle", "WaitingForIfsAndBackoff", "WaitingForNavExpiration"} =>
            ~station.sensing /\ station.phyState = "Scanning"
    BY <2>1 DEF MacOK, HearsNothing
  <2> QED  BY <2>2, <2>3 DEF BusyStateMatchesPhy
<1> QED  BY <1>1, MacAndPhyAgree, PTL

\* A category that has something to send has a backoff or its exchange under way: no
\* packet is left for a later arrival to set moving.
THEOREM EveryPacketMoves == Spec => []NothingIsForgotten
<1>1. ASSUME EdcaInv PROVE NothingIsForgotten
  <2> SUFFICES ASSUME NEW c \in Categories, HasSomethingToSend(c), ~IsExchanging(c)
               PROVE  station.ac[c].duration # INFINITE
    BY DEF NothingIsForgotten
  <2>1. CategoryOK(station.ac[c], c, Counts(station), c \in ExchangeOf(station))
        /\ station \in StationTypes
    BY <1>1 DEF EdcaInv, Consistent, InOrder, Coherent, Basics
  <2>2. (c \in ExchangeOf(station)) = FALSE  BY DEF ExchangeOf, IsExchanging
  <2>3. CategoryOK(station.ac[c], c, Counts(station), FALSE)  BY <2>1, <2>2
  <2>4. station.ac[c].queued # 0 \/ station.ac[c].packet # NONE
    BY DEF HasSomethingToSend
  <2> QED  BY <2>3, <2>4 DEF CategoryOK
<1> QED  BY <1>1, MacAndPhyAgree, PTL

\* The PHY holds a frame for its acknowledgement only while the MAC awaits it: every
\* way out of the wait takes the frame back or is done with it.
THEOREM FrameIsTakenBack == Spec => []UnacknowledgedFrameIsTakenBack
<1>1. ASSUME EdcaInv PROVE UnacknowledgedFrameIsTakenBack
  BY <1>1 DEF EdcaInv, Consistent, Coherent, MacOK, UnacknowledgedFrameIsTakenBack
<1> QED  BY <1>1, MacAndPhyAgree, PTL

\* A frame sent after a backoff has an interframe space of quiet before it, an extended
\* one while the last frame received was corrupt.
THEOREM FramesKeepTheirDistance == Spec => []WaitsForInterframeSpace
<1>1. ASSUME EdcaInv PROVE WaitsForInterframeSpace
  BY <1>1 DEF EdcaInv, Consistent, Coherent, GapOK, Extension, WaitsForInterframeSpace
<1> QED  BY <1>1, MacAndPhyAgree, PTL

\* The one timer ends with the earliest backoff of the categories that wait, also when
\* one joins the wait of others.
THEOREM TimerServesAll == Spec => []TimerIsEarliest
<1>1. ASSUME EdcaInv PROVE TimerIsEarliest
  BY <1>1 DEF EdcaInv, Consistent, Coherent, CountingOK, Counts, TimerIsEarliest
<1> QED  BY <1>1, MacAndPhyAgree, PTL

==============================================================================
