------------------------- MODULE Dot11EdcaMac_proofs -------------------------
(***************************************************************************)
(* What the handlers of an EDCA station keep, whatever the station is at:  *)
(* the types of its fields, and that it sends nothing, and counts down no  *)
(* backoff, without a permission.  For any number of access categories and *)
(* any timing.                                                             *)
(***************************************************************************)
EXTENDS Dot11EdcaMac, WellFoundedInduction, TLAPS

\* Stations, except that the timer may have ended: it is set by a difference of times,
\* and that it never ends in the past is for the proofs about Dot11Edca.
StationTypes == [
    macState : MacStates, timer : Int, stale : Int, nav : Nat, permission : Nat,
    idleFor : Nat, corrupt : BOOLEAN, last : Categories, lastSent : {"SHORT", "LONG", "RTS"},
    ac : [Categories -> AccessCategoryInfos],
    phyState : PhyStates, sensing : BOOLEAN, receiving : {NONE, "FOREIGN", "REPLY"},
    loud : BOOLEAN, others : Nat, outgoing : {NONE, "DATA", "RTS", "CONTROL"}, txLeft : Nat,
    sent : UnicastFrames \cup {NONE}, quiet : Nat, gap : Nat, failed : BOOLEAN]

DrawTypes == [Categories -> Nat]

RetrievalTypes == [taken : Nat, packet : DataFrames \cup {NONE}]

-----------------------------------------------------------------------------
(* The categories, one after the other. *)

\* A non-empty set of naturals has a least element.
LEMMA LeastElement ==
    ASSUME NEW S \in SUBSET Nat, NEW e \in S
    PROVE  \E x \in S : \A y \in S : x <= y
<1> DEFINE R == {ss \in Nat \X Nat : ss[1] < ss[2]}
<1>1. IsWellFoundedOn(R, Nat)
  <2> SUFFICES IsWellFoundedOn({ss \in Nat \X Nat : ss[1] < ss[2]}, Nat)  OBVIOUS
  <2> QED  BY ONLY NatLessThanWellFounded DEF OpToRel
<1>2. PICK x \in S : \A y \in S : <<y, x>> \notin R
  <2> HIDE DEF R
  <2> QED  BY <1>1, WFMin
<1>3. ASSUME NEW y \in S PROVE x <= y
  <2>1. CASE y < x
    <3>1. <<y, x>> \in Nat \X Nat  OBVIOUS
    <3>2. <<y, x>>[1] < <<y, x>>[2]  BY <2>1
    <3> QED  BY <1>2, <3>1, <3>2
  <2> QED  BY <2>1
<1> QED  BY <1>3

\* What holds before the first round of a loop over the categories and is kept by every
\* round holds after the last one.
LEMMA EveryRound ==
    ASSUME NEW Good, 0 \in Good,
           \A n \in 1 .. NumberAccessCategories : n - 1 \in Good => n \in Good
    PROVE  \A n \in 0 .. NumberAccessCategories : n \in Good
<1> DEFINE Bad == {n \in 0 .. NumberAccessCategories : n \notin Good}
<1>1. SUFFICES ASSUME Bad # {} PROVE FALSE  OBVIOUS
<1>2. NumberAccessCategories \in Nat  BY EdcaAssumption
<1>3. PICK n \in Bad : \A m \in Bad : n <= m
  <2>1. PICK e \in Bad : TRUE  BY <1>1
  <2>2. Bad \in SUBSET Nat  BY <1>2
  <2> HIDE DEF Bad
  <2> QED  BY <2>1, <2>2, LeastElement
<1>4. n # 0 /\ n \in 0 .. NumberAccessCategories  OBVIOUS
<1>5. n \in 1 .. NumberAccessCategories /\ n - 1 \in 0 .. NumberAccessCategories  BY <1>2, <1>4
<1>6. n - 1 \in Good  BY <1>2, <1>3, <1>5
<1> QED  BY <1>5, <1>6

\* Among some of the categories one has the least of the numbers f gives them.
LEMMA LeastOf ==
    ASSUME NEW K \in SUBSET Categories, K # {}, NEW f \in [Categories -> Int]
    PROVE  \E c \in K : \A k \in K : f[c] <= f[k]
<1> DEFINE First(n) == {k \in K : k < n}
           Good == {n \in Nat : First(n) # {} =>
                                    \E c \in First(n) : \A k \in First(n) : f[c] <= f[k]}
<1>1. NumberAccessCategories \in Nat  BY EdcaAssumption
<1>2. 0 \in Good
  <2>1. \A k \in K : k \in Categories /\ ~(k < 0)  BY <1>1 DEF Categories
  <2> QED  BY <2>1
<1>3. ASSUME NEW n \in 1 .. NumberAccessCategories, n - 1 \in Good PROVE n \in Good
  <2>1. CASE First(n - 1) = {}
    <3>1. \A k \in First(n) : k = n - 1  BY <1>1, <2>1 DEF Categories
    <3>2. \A k \in First(n) : f[k] <= f[k]  BY DEF Categories
    <3>3. ASSUME First(n) # {}
          PROVE  \E c \in First(n) : \A k \in First(n) : f[c] <= f[k]
      <4>1. PICK c \in First(n) : TRUE  BY <3>3
      <4> QED  BY <3>1, <3>2, <4>1
    <3> QED  BY <3>3
  <2>2. CASE First(n - 1) # {}
    <3>1. PICK c \in First(n - 1) : \A k \in First(n - 1) : f[c] <= f[k]  BY <1>3, <2>2
    <3>2. CASE n - 1 \in K /\ f[n - 1] < f[c]
      <4>1. \A k \in First(n) : k = n - 1 \/ k \in First(n - 1)  BY <1>1 DEF Categories
      <4>2. \A k \in First(n) : f[n - 1] <= f[k]
        BY <1>1, <3>1, <3>2, <4>1 DEF Categories
      <4>3. n - 1 \in First(n)  BY <1>1, <3>2
      <4> QED  BY <4>2, <4>3
    <3>3. CASE ~(n - 1 \in K /\ f[n - 1] < f[c])
      <4>1. \A k \in First(n) : k = n - 1 \/ k \in First(n - 1)  BY <1>1 DEF Categories
      <4>2. c \in First(n)  BY <1>1, <3>1 DEF Categories
      <4>3. \A k \in First(n) : f[c] <= f[k]
        BY <1>1, <3>1, <3>3, <4>1 DEF Categories
      <4> QED  BY <4>2, <4>3
    <3> QED  BY <3>2, <3>3
  <2> QED  BY <2>1, <2>2
<1> HIDE DEF Good
<1>4. NumberAccessCategories \in Good  BY <1>1, <1>2, <1>3, EveryRound
<1> USE DEF Good
<1>5. First(NumberAccessCategories) = K
  <2>1. \A k \in K : k \in Int /\ k < NumberAccessCategories  BY <1>1 DEF Categories
  <2> QED  BY <2>1
<1> QED  BY <1>4, <1>5

\* The same for the greatest.
LEMMA GreatestOf ==
    ASSUME NEW f \in [Categories -> Int]
    PROVE  \E c \in Categories : \A k \in Categories : f[k] <= f[c]
<1> DEFINE g == [c \in Categories |-> -f[c]]
<1>1. 0 \in Categories  BY EdcaAssumption DEF Categories
<1>2. g \in [Categories -> Int]  OBVIOUS
<1>3. PICK c \in Categories : \A k \in Categories : g[c] <= g[k]
  <2> HIDE DEF g
  <2> QED  BY <1>1, <1>2, LeastOf
<1>4. \A k \in Categories : f[k] <= f[c]
  <2> TAKE k \in Categories
  <2>1. g[c] <= g[k] /\ g[c] = -f[c] /\ g[k] = -f[k] /\ f[c] \in Int /\ f[k] \in Int  BY <1>3
  <2> QED  BY <2>1
<1> QED  BY <1>4

-----------------------------------------------------------------------------
(* The loops over the categories: OneRound is the body of each of them. *)

StartRound(t, c, d) ==
    IF AccessCategoryIsActive(t, c) THEN t ELSE StartPacketSendProcess(t, c, FALSE, d)

TryRound(t, c, d, r) ==
    IF t.ac[c].duration = INFINITE THEN t
    ELSE IF SubtractUsedSlots(t, c).ac[c].slots = 0 /\ t.phyState # "TxStarting"
         THEN TryToSend(SubtractUsedSlots(t, c), c, r[c])
         ELSE GiveWay(SubtractUsedSlots(t, c), c, d)

OneRound(loop, t, c, d, r) ==
    CASE loop = "START"    -> StartRound(t, c, d)
      [] loop = "PAUSE"    -> PauseBackoff(t, c, d)
      [] loop = "SUBTRACT" -> SubtractElapsedTime(t, c)
      [] OTHER             -> TryRound(t, c, d, r)

Rounds(loop, s, d, r, after, m) ==
    after = [n \in 0 .. m |->
                 IF n = 0 THEN s
                 ELSE OneRound(loop, after[n - 1], NumberAccessCategories - n, d, r)]

\* The recursive functions of the model exist: the rounds can be run one by one.
LEMMA RoundsExist ==
    ASSUME NEW loop, NEW s, NEW d, NEW r
    PROVE  \E after : Rounds(loop, s, d, r, after, NumberAccessCategories)
<1> DEFINE Good == {m \in Nat : \E after : Rounds(loop, s, d, r, after, m)}
<1>1. NumberAccessCategories \in Nat  BY EdcaAssumption
<1>2. 0 \in Good
  <2>1. Rounds(loop, s, d, r, [n \in 0 .. 0 |-> s], 0)  BY DEF Rounds
  <2> QED  BY <2>1
<1>3. ASSUME NEW m \in 1 .. NumberAccessCategories, m - 1 \in Good PROVE m \in Good
  <2>1. PICK f : Rounds(loop, s, d, r, f, m - 1)  BY <1>3
  <2> DEFINE last == OneRound(loop, f[m - 1], NumberAccessCategories - m, d, r)
             g == [n \in 0 .. m |-> IF n = m THEN last ELSE f[n]]
  <2>2. ASSUME NEW n \in 0 .. m
        PROVE  g[n] = IF n = 0 THEN s
                      ELSE OneRound(loop, g[n - 1], NumberAccessCategories - n, d, r)
    <3>1. CASE n = m
      <4>1. g[n] = last /\ g[n - 1] = f[m - 1] /\ n # 0  BY <1>1, <3>1
      <4> QED  BY <3>1, <4>1
    <3>2. CASE n # m /\ n # 0
      <4>1. n \in 0 .. m - 1 /\ g[n] = f[n] /\ g[n - 1] = f[n - 1]  BY <1>1, <3>2
      <4>2. f[n] = OneRound(loop, f[n - 1], NumberAccessCategories - n, d, r)
        BY <2>1, <3>2, <4>1 DEF Rounds
      <4> QED  BY <3>2, <4>1, <4>2
    <3>3. CASE n # m /\ n = 0
      <4>1. n \in 0 .. m - 1 /\ g[n] = f[n]  BY <1>1, <3>3
      <4>2. f[n] = s  BY <2>1, <3>3, <4>1 DEF Rounds
      <4> QED  BY <3>3, <4>1, <4>2
    <3> QED  BY <3>1, <3>2, <3>3
  <2>3. g = [n \in 0 .. m |-> g[n]]  OBVIOUS
  <2> HIDE DEF g
  <2>4. Rounds(loop, s, d, r, g, m)  BY <2>2, <2>3 DEF Rounds
  <2> QED  BY <1>1, <2>4
<1> HIDE DEF Good
<1>4. NumberAccessCategories \in Good  BY <1>1, <1>2, <1>3, EveryRound
<1> QED  BY <1>4 DEF Good

\* What a loop does, from its first round to its last.
RunsTo(loop, s, d, r, t) ==
    \E after : /\ Rounds(loop, s, d, r, after, NumberAccessCategories)
               /\ t = after[NumberAccessCategories]

\* NetworkLayerQueueChangeNotification asks the categories one after the other.
LEMMA StartLoop ==
    ASSUME NEW s, NEW d
    PROVE  RunsTo("START", s, d, d, NetworkLayerQueueChangeNotification(s, d))
<1> DEFINE after == CHOOSE after : Rounds("START", s, d, d, after, NumberAccessCategories)
<1>1. Rounds("START", s, d, d, after, NumberAccessCategories)  BY RoundsExist
<1>2. NetworkLayerQueueChangeNotification(s, d) = after[NumberAccessCategories]
  BY DEF NetworkLayerQueueChangeNotification, ForEachCategory, Rounds, OneRound, StartRound
<1> QED  BY <1>1, <1>2 DEF RunsTo

\* A MAC that waited, and so has a timer to cancel, takes the medium for busy.
TurnsBusy(s) == [Expect(s, s.timer # INFINITE) EXCEPT !.macState = "BusyMedium"]

\* BusyChannelNotification pauses the categories one after the other.
LEMMA PauseLoop ==
    ASSUME NEW s, NEW d
    PROVE  \E t : /\ RunsTo("PAUSE", TurnsBusy(s), d, d, t)
                 /\ BusyChannelNotification(s, d) =
                        CASE s.macState = "WaitingForNavExpiration" ->
                                 [TurnsBusy(s) EXCEPT !.timer = INFINITE]
                          [] s.macState = "WaitingForIfsAndBackoff" ->
                                 [t EXCEPT !.timer = INFINITE, !.ac = NoStartTimes(t)]
                          [] s.macState = "Idle" -> [s EXCEPT !.macState = "BusyMedium"]
                          [] OTHER -> Expect(s, s.macState # "Transient")
<1> DEFINE b == TurnsBusy(s)
           after == CHOOSE after : Rounds("PAUSE", b, d, d, after, NumberAccessCategories)
<1>1. Rounds("PAUSE", b, d, d, after, NumberAccessCategories)  BY RoundsExist
<1>2. BusyChannelNotification(s, d) =
          CASE s.macState = "WaitingForNavExpiration" -> [b EXCEPT !.timer = INFINITE]
            [] s.macState = "WaitingForIfsAndBackoff" ->
                   [after[NumberAccessCategories] EXCEPT
                       !.timer = INFINITE, !.ac = NoStartTimes(after[NumberAccessCategories])]
            [] s.macState = "Idle" -> [s EXCEPT !.macState = "BusyMedium"]
            [] OTHER -> Expect(s, s.macState # "Transient")
  BY DEF BusyChannelNotification, ForEachCategory, Rounds, OneRound, TurnsBusy
<1> HIDE DEF after
<1> QED  BY <1>1, <1>2 DEF RunsTo

\* SuspendTransmissionFunction, with what is left of the backoffs as t.
Suspended(s, asserted, t) ==
    LET stale == IF s.timer = INFINITE THEN s.stale ELSE s.timer
        suspended ==
            CASE s.macState \in {"WaitingForCts", "WaitingForAck"} ->
                     [asserted EXCEPT !.timer = INFINITE, !.stale = stale,
                         !.macState = IF s.phyState = "Receiving" THEN @ ELSE "BusyMedium"]
              [] s.macState = "WaitingForIfsAndBackoff" ->
                     [t EXCEPT !.timer = INFINITE, !.stale = stale, !.macState = "Idle",
                               !.ac = NoStartTimes(t)]
              [] OTHER -> asserted
    IN  [suspended EXCEPT !.permission = 0]

MaySuspend(s) ==
    /\ s.macState \notin {"CtsOrAckTransmission", "Transient"}
    /\ s.phyState \in {"Scanning", "Receiving"}

\* SuspendTransmissionFunction charges the categories one after the other.
LEMMA SubtractLoop ==
    ASSUME NEW s, NEW d
    PROVE  \E t : /\ RunsTo("SUBTRACT", Expect(s, MaySuspend(s)), d, d, t)
                 /\ SuspendTransmissionFunction(s) = Suspended(s, Expect(s, MaySuspend(s)), t)
<1> DEFINE a == Expect(s, MaySuspend(s))
           after == CHOOSE after : Rounds("SUBTRACT", a, d, d, after, NumberAccessCategories)
<1>1. Rounds("SUBTRACT", a, d, d, after, NumberAccessCategories)  BY RoundsExist
<1>2. SuspendTransmissionFunction(s) = Suspended(s, a, after[NumberAccessCategories])
  <2> DEFINE run[n \in 0 .. NumberAccessCategories] ==
                 IF n = 0 THEN a ELSE SubtractElapsedTime(run[n - 1], NumberAccessCategories - n)
  <2>1. run = after  BY DEF Rounds, OneRound
  <2>2. SuspendTransmissionFunction(s) = Suspended(s, a, run[NumberAccessCategories])
    BY DEF SuspendTransmissionFunction, Suspended, ForEachCategory, MaySuspend
  <2> HIDE DEF run, after
  <2> QED  BY <2>1, <2>2
<1> HIDE DEF after
<1> QED  BY <1>1, <1>2 DEF RunsTo

\* When the backoff is over the categories are tried one after the other.
LEMMA TryLoop ==
    ASSUME NEW s, NEW d, NEW r
    PROVE  \E t : /\ RunsTo("TRY", s, d, r, t)
                 /\ IfsAndBackoffTimeout(s, d, r) =
                        IF t.phyState = "TxStarting" THEN [t EXCEPT !.ac = NoStartTimes(t)]
                        ELSE StartBackoffIfNecessary([t EXCEPT !.macState = "Transient"])
<1> DEFINE after == CHOOSE after : Rounds("TRY", s, d, r, after, NumberAccessCategories)
           t == after[NumberAccessCategories]
<1>1. Rounds("TRY", s, d, r, after, NumberAccessCategories)  BY RoundsExist
<1>2. IfsAndBackoffTimeout(s, d, r) =
          IF t.phyState = "TxStarting" THEN [t EXCEPT !.ac = NoStartTimes(t)]
          ELSE StartBackoffIfNecessary([t EXCEPT !.macState = "Transient"])
  <2> DEFINE run[n \in 0 .. NumberAccessCategories] ==
                 IF n = 0 THEN s ELSE TryRound(run[n - 1], NumberAccessCategories - n, d, r)
             last == run[NumberAccessCategories]
  <2>1. run = after  BY DEF Rounds, OneRound
  <2>2. IfsAndBackoffTimeout(s, d, r) =
            IF last.phyState = "TxStarting" THEN [last EXCEPT !.ac = NoStartTimes(last)]
            ELSE StartBackoffIfNecessary([last EXCEPT !.macState = "Transient"])
    BY DEF IfsAndBackoffTimeout, ForEachCategory, TryRound
  <2> HIDE DEF run, after
  <2> QED  BY <2>1, <2>2
<1> HIDE DEF after
<1> QED  BY <1>1, <1>2 DEF RunsTo

\* What is so before the first round of a loop and is kept by every round, Good(n)
\* being the stations as they may be after round n, is so in the end.
LEMMA LoopInvariant ==
    ASSUME NEW loop, NEW s, NEW d, NEW r, NEW t, RunsTo(loop, s, d, r, t),
           NEW Good, <<0, s>> \in Good,
           \A n \in 1 .. NumberAccessCategories : \A x :
               <<n - 1, x>> \in Good =>
                   <<n, OneRound(loop, x, NumberAccessCategories - n, d, r)>> \in Good
    PROVE  <<NumberAccessCategories, t>> \in Good
<1>1. PICK after : /\ Rounds(loop, s, d, r, after, NumberAccessCategories)
                   /\ t = after[NumberAccessCategories]
  BY DEF RunsTo
<1> DEFINE Fine == {n \in 0 .. NumberAccessCategories : <<n, after[n]>> \in Good}
<1>2. NumberAccessCategories \in Nat  BY EdcaAssumption
<1>3. 0 \in Fine  BY <1>1, <1>2 DEF Rounds
<1>4. ASSUME NEW n \in 1 .. NumberAccessCategories, n - 1 \in Fine PROVE n \in Fine
  <2>1. after[n] = OneRound(loop, after[n - 1], NumberAccessCategories - n, d, r)
    BY <1>1, <1>2 DEF Rounds
  <2> QED  BY <1>2, <1>4, <2>1
<1> HIDE DEF Fine
<1>5. NumberAccessCategories \in Fine  BY <1>2, <1>3, <1>4, EveryRound
<1> QED  BY <1>1, <1>5 DEF Fine

\* The same for what does not depend on the number of the round.
LEMMA LoopKeeps ==
    ASSUME NEW loop, NEW s, NEW d, NEW r, NEW t, RunsTo(loop, s, d, r, t),
           NEW Good, s \in Good,
           \A x \in Good, c \in Categories : OneRound(loop, x, c, d, r) \in Good
    PROVE  t \in Good
<1> DEFINE Pairs == Int \X Good
<1>1. NumberAccessCategories \in Nat  BY EdcaAssumption
<1>2. <<0, s>> \in Pairs  OBVIOUS
<1>3. ASSUME NEW n \in 1 .. NumberAccessCategories, NEW x, <<n - 1, x>> \in Pairs
      PROVE  <<n, OneRound(loop, x, NumberAccessCategories - n, d, r)>> \in Pairs
  <2>1. x \in Good /\ NumberAccessCategories - n \in Categories
    BY <1>1, <1>3 DEF Categories
  <2> QED  BY <2>1
<1> HIDE DEF Pairs
<1>4. <<NumberAccessCategories, t>> \in Pairs  BY <1>2, <1>3, LoopInvariant
<1> QED  BY <1>4 DEF Pairs

-----------------------------------------------------------------------------
(* Times, and the fields of a station. *)

\* The constants of the standard that the handlers add and subtract.
LEMMA Timings ==
    /\ NumberAccessCategories \in Nat \ {0}
    /\ SlotTime \in Nat /\ SlotTime > 0 /\ ShortInterframeSpace \in Nat /\ ShortInterframeSpace > 0
    /\ RxTxTurnaroundTime \in Nat /\ RxTxTurnaroundTime > 0
    /\ ReplyTimeout \in Nat /\ ReplyTimeout > 0
    /\ DataTime \in Nat /\ DataTime > 0 /\ ControlTime \in Nat /\ ControlTime > 0
    /\ ControlTimeChecked \in Nat /\ ControlTimeChecked > 0
    /\ ExtendedDelay \in Nat
    /\ RxTxTurnaroundTime < SlotTime /\ RxTxTurnaroundTime <= ShortInterframeSpace
    /\ ControlTimeChecked <= ControlTime
    /\ INFINITE \in Nat /\ INFINITE > 0
  BY EdcaAssumption, TimingAssumption DEF INFINITE

\* The contention windows lie between their bounds.
LEMMA Windows ==
    ASSUME NEW c \in Categories
    PROVE  /\ MinWindow[c] \in Nat /\ MaxWindow[c] \in Nat /\ MinWindow[c] <= MaxWindow[c]
           /\ Aifsn[c] \in Nat /\ Aifsn[c] > 0
  BY EdcaAssumption

\* A category waits for its interframe space, at most the longest.
LEMMA InterframeSpaces ==
    ASSUME NEW c \in Categories
    PROVE  /\ InterframeSpace(c) \in Nat
           /\ InterframeSpace(c) >= ShortInterframeSpace + SlotTime
<1>1. SlotTime * Aifsn[c] \in Nat /\ SlotTime * Aifsn[c] >= SlotTime
  <2> DEFINE n == Aifsn[c]
  <2>1. n \in Nat /\ n > 0 /\ SlotTime \in Nat  BY Windows, Timings
  <2> HIDE DEF n
  <2>2. SlotTime * n \in Nat /\ SlotTime * n >= SlotTime  BY <2>1
  <2> QED  BY <2>2 DEF n
<1> QED  BY <1>1, Timings DEF InterframeSpace

\* A backoff takes a positive, finite time.
LEMMA BackoffDurations ==
    ASSUME NEW c \in Categories, NEW n \in Nat
    PROVE  /\ NonExtendedBackoffDuration(c, n) \in Nat
           /\ NonExtendedBackoffDuration(c, n)
                = InterframeSpace(c) + SlotTime * n - RxTxTurnaroundTime
           /\ SlotTime * n \in Nat
<1>1. SlotTime * n \in Nat  BY Timings
<1> QED  BY <1>1, Timings, InterframeSpaces DEF NonExtendedBackoffDuration

\* The longest and the shortest interframe space are those of a category.
LEMMA ExtremeInterframeSpaces ==
    /\ LongestInterframeSpace \in Nat /\ ShortestInterframeSpace \in Nat
    /\ \A c \in Categories : /\ InterframeSpace(c) <= LongestInterframeSpace
                             /\ InterframeSpace(c) >= ShortestInterframeSpace
    /\ ShortestInterframeSpace > RxTxTurnaroundTime
    /\ \E c \in Categories : LongestInterframeSpace = InterframeSpace(c)
<1> DEFINE f == [c \in Categories |-> InterframeSpace(c)]
<1>1. f \in [Categories -> Int]  BY InterframeSpaces
<1>2. 0 \in Categories  BY Timings DEF Categories
<1>3. PICK a \in Categories : \A k \in Categories : f[k] <= f[a]
  <2> HIDE DEF f
  <2> QED  BY <1>1, GreatestOf
<1>4. PICK b \in Categories : \A k \in Categories : f[b] <= f[k]
  <2> HIDE DEF f
  <2> QED  BY <1>1, <1>2, LeastOf
<1>5. \A k \in Categories : InterframeSpace(b) <= InterframeSpace(k)
                            /\ InterframeSpace(k) <= InterframeSpace(a)
  BY <1>3, <1>4
<1>6. PICK t \in {InterframeSpace(c) : c \in Categories} :
          t = LongestInterframeSpace /\ \A c \in Categories : InterframeSpace(c) <= t
  BY <1>5 DEF LongestInterframeSpace
<1>7. PICK u \in {InterframeSpace(c) : c \in Categories} :
          u = ShortestInterframeSpace /\ \A c \in Categories : InterframeSpace(c) >= u
  <2>1. \A c \in Categories : InterframeSpace(c) >= InterframeSpace(b)
    BY <1>5, InterframeSpaces
  <2> QED  BY <2>1 DEF ShortestInterframeSpace
<1> QED  BY <1>6, <1>7, Timings, InterframeSpaces

\* The draws and retrievals the environment chooses from.
LEMMA DrawsTyped ==
    /\ Draws \subseteq DrawTypes
    /\ \A d \in Draws, c \in Categories : d[c] \in Nat
<1>1. MaxWindow \in [Categories -> Int]  BY EdcaAssumption
<1>2. PICK a \in Categories : \A k \in Categories : MaxWindow[k] <= MaxWindow[a]
  BY <1>1, GreatestOf
<1>3. LargestWindow \in {MaxWindow[c] : c \in Categories}  BY <1>2 DEF LargestWindow
<1>4. LargestWindow \in Nat  BY <1>3, Windows
<1> QED  BY <1>4 DEF Draws, DrawTypes

\* What the queue hands out is one of its packets, or none.
LEMMA RetrievalsTyped ==
    ASSUME NEW s \in StationTypes, NEW r \in AllRetrievals(s), NEW c \in Categories
    PROVE  r[c] \in RetrievalTypes /\ r[c].taken <= s.ac[c].queued
<1>1. r[c] \in Retrievals(s, c)  BY DEF AllRetrievals
<1>2. s.ac[c].queued \in Nat  BY DEF StationTypes, AccessCategoryInfos
<1> QED  BY <1>1, <1>2 DEF Retrievals, RetrievalTypes

\* A minimum of two times is a time.
LEMMA Minima ==
    ASSUME NEW a \in Int, NEW b \in Int
    PROVE  /\ MinOf(a, b) \in {a, b} /\ MinOf(a, b) <= a /\ MinOf(a, b) <= b
           /\ MaxOf(a, b) \in {a, b} /\ MaxOf(a, b) >= a /\ MaxOf(a, b) >= b
  BY DEF MinOf, MaxOf

\* A backoff that is drawn fits the window it is drawn from.
LEMMA DrawnSlots ==
    ASSUME NEW c \in Categories, NEW d \in DrawTypes, NEW w \in Nat
    PROVE  d[c] % (w + 1) \in 0 .. w
<1>1. d[c] \in Nat  BY DEF DrawTypes
<1> QED  BY <1>1

-----------------------------------------------------------------------------
(* What every handler keeps. *)

\* By how much a control frame is longer than the permission check takes it for.
Overrun == ControlTime - ControlTimeChecked

\* A data frame under way ends before the permission does, a control frame by less
\* than its overrun after it.
EndsInPermission(s) ==
    IsTransmittingAFrame(s) /\ s.permission # INFINITE =>
        OutgoingTransmissionEnd(s)
            < s.permission + (IF s.outgoing = "DATA" THEN 0 ELSE Overrun)

\* A handler takes s to t: without a permission it neither sends nor starts to count
\* down, and with one it only sends what ends in it.
Obeys(s, t) ==
    /\ t.permission = s.permission
    /\ s.permission = 0 =>
           OutgoingTransmissionEnd(t) \in {0, OutgoingTransmissionEnd(s)}
    /\ s.permission = 0 /\ s.macState # "WaitingForIfsAndBackoff" =>
           t.macState # "WaitingForIfsAndBackoff"
    /\ s.permission = 0 /\ ~IsTransmittingAFrame(s) => ~IsTransmittingAFrame(t)
    /\ EndsInPermission(s) => EndsInPermission(t)

\* The PHY sends, or is about to send, what it did; the backoffs run if they did.
SameAccess(s, t) ==
    /\ t.permission = s.permission
    /\ t.phyState = s.phyState /\ t.outgoing = s.outgoing /\ t.txLeft = s.txLeft
    /\ t.macState = "WaitingForIfsAndBackoff" =>
           s.macState = "WaitingForIfsAndBackoff" \/ s.permission # 0

\* A handler that does not touch the PHY obeys the permission.
LEMMA SameAccessObeys ==
    ASSUME NEW s, NEW t, SameAccess(s, t)
    PROVE  Obeys(s, t)
  BY DEF SameAccess, Obeys, EndsInPermission, IsTransmittingAFrame, OutgoingTransmissionEnd

\* Handlers that call one another obey together.
LEMMA ObeysTransitive ==
    ASSUME NEW s, NEW t, NEW u, Obeys(s, t), Obeys(t, u)
    PROVE  Obeys(s, u)
  BY DEF Obeys

\* The station with i as the state of category c.
With(s, c, i) == [s EXCEPT !.ac = [s.ac EXCEPT ![c] = i]]

\* A change of one category leaves the others and the PHY alone.
LEMMA WithTyped ==
    ASSUME NEW s \in StationTypes, NEW c \in Categories, NEW i \in AccessCategoryInfos
    PROVE  /\ With(s, c, i) \in StationTypes /\ SameAccess(s, With(s, c, i))
           /\ With(s, c, i).ac[c] = i
           /\ \A k \in Categories : k # c => With(s, c, i).ac[k] = s.ac[k]
           /\ With(s, c, i).macState = s.macState /\ With(s, c, i).timer = s.timer
           /\ With(s, c, i).failed = s.failed
<1> DEFINE ac == [s.ac EXCEPT ![c] = i]
<1>1. s.ac \in [Categories -> AccessCategoryInfos]  BY DEF StationTypes
<1>2. ac \in [Categories -> AccessCategoryInfos]  BY <1>1
<1>3. ac[c] = i /\ \A k \in Categories : k # c => ac[k] = s.ac[k]  BY <1>1
<1>4. With(s, c, i) = [s EXCEPT !.ac = ac]  BY DEF With
<1> HIDE DEF ac
<1> QED  BY <1>2, <1>3, <1>4 DEF StationTypes, SameAccess

\* A failed assertion changes nothing but the flag.
LEMMA ExpectTyped ==
    ASSUME NEW s \in StationTypes, NEW condition
    PROVE  /\ Expect(s, condition) \in StationTypes /\ SameAccess(s, Expect(s, condition))
           /\ Expect(s, condition).ac = s.ac
           /\ Expect(s, condition).macState = s.macState
           /\ Expect(s, condition).timer = s.timer
           /\ condition => Expect(s, condition) = s
<1>1. CASE condition
  <2>1. Expect(s, condition) = s  BY <1>1 DEF Expect
  <2> QED  BY <2>1 DEF SameAccess
<1>2. CASE ~condition
  <2> DEFINE e == [s EXCEPT !.failed = TRUE]
  <2>1. Expect(s, condition) = e  BY <1>2 DEF Expect
  <2>2. e \in StationTypes  BY DEF StationTypes
  <2>3. SameAccess(s, e) /\ e.ac = s.ac /\ e.macState = s.macState /\ e.timer = s.timer
    BY DEF StationTypes, SameAccess
  <2> HIDE DEF e
  <2> QED  BY <1>2, <2>1, <2>2, <2>3
<1> QED  BY <1>1, <1>2

\* The fields of a category are set one by one.
LEMMA InfoTyped ==
    ASSUME NEW s \in StationTypes, NEW c \in Categories
    PROVE  s.ac[c] \in AccessCategoryInfos
  BY DEF StationTypes

\* The later of two changes of a category counts.
LEMMA WithTwice ==
    ASSUME NEW s \in StationTypes, NEW c \in Categories, NEW i, NEW j
    PROVE  With(With(s, c, i), c, j) = With(s, c, j)
<1>1. [[s.ac EXCEPT ![c] = i] EXCEPT ![c] = j] = [s.ac EXCEPT ![c] = j]
  BY DEF StationTypes
<1> QED  BY <1>1 DEF With, StationTypes

\* A category that waits for so many slots.
WaitingSlots(i, c, n) ==
    [i EXCEPT !.slots = n, !.duration = NonExtendedBackoffDuration(c, n)]

\* The slots still to wait are no fewer than none.
LEMMA WaitingSlotsTyped ==
    ASSUME NEW i \in AccessCategoryInfos, NEW c \in Categories, NEW n \in Nat
    PROVE  WaitingSlots(i, c, n) \in AccessCategoryInfos
  BY BackoffDurations DEF WaitingSlots, AccessCategoryInfos

\* RecalcRandomBackoff draws from the window.
LEMMA RecalcTyped ==
    ASSUME NEW s \in StationTypes, NEW c \in Categories, NEW d \in DrawTypes
    PROVE  /\ RecalcRandomBackoff(s, c, d) \in StationTypes
           /\ SameAccess(s, RecalcRandomBackoff(s, c, d))
           /\ \E n \in 0 .. s.ac[c].window :
                  RecalcRandomBackoff(s, c, d) = With(s, c, WaitingSlots(s.ac[c], c, n))
<1> DEFINE n == d[c] % (s.ac[c].window + 1)
<1>1. s.ac[c] \in AccessCategoryInfos /\ s.ac[c].window \in Nat
  BY DEF StationTypes, AccessCategoryInfos
<1>2. n \in 0 .. s.ac[c].window /\ n \in Nat  BY <1>1, DrawnSlots
<1>3. RecalcRandomBackoff(s, c, d) = With(s, c, WaitingSlots(s.ac[c], c, n))
  BY DEF RecalcRandomBackoff, With, StationTypes, WaitingSlots
<1> HIDE DEF n
<1> QED  BY <1>1, <1>2, <1>3, WaitingSlotsTyped, WithTyped

\* DoubleContentionWindowAndRecalcBackoff keeps the window in its bounds.
LEMMA DoubleTyped ==
    ASSUME NEW s \in StationTypes, NEW c \in Categories, NEW d \in DrawTypes
    PROVE  /\ DoubleTheContentionWindowAndPickANewBackoff(s, c, d) \in StationTypes
           /\ SameAccess(s, DoubleTheContentionWindowAndPickANewBackoff(s, c, d))
           /\ \E w \in Nat : \E n \in 0 .. w :
                  /\ w <= MaxWindow[c]
                  /\ DoubleTheContentionWindowAndPickANewBackoff(s, c, d) =
                         With(s, c, WaitingSlots([s.ac[c] EXCEPT !.window = w], c, n))
<1> DEFINE w == MinOf(2 * s.ac[c].window + 1, MaxWindow[c])
           i == [s.ac[c] EXCEPT !.window = w]
           t == With(s, c, i)
<1>1. s.ac[c] \in AccessCategoryInfos /\ s.ac[c].window \in Nat
  BY DEF StationTypes, AccessCategoryInfos
<1>2. w \in Nat /\ w <= MaxWindow[c]  BY <1>1, Windows DEF MinOf
<1>3. DoubleTheContentionWindowAndPickANewBackoff(s, c, d) = RecalcRandomBackoff(t, c, d)
  BY DEF DoubleTheContentionWindowAndPickANewBackoff, With
<1> HIDE DEF w
<1>4. i \in AccessCategoryInfos /\ i.window = w  BY <1>1, <1>2 DEF AccessCategoryInfos
<1>5. t \in StationTypes /\ SameAccess(s, t) /\ t.ac[c] = i  BY <1>4, WithTyped
<1>6. \A j : With(t, c, j) = With(s, c, j)  BY WithTwice
<1> HIDE DEF t
<1>7. PICK n \in 0 .. t.ac[c].window :
          RecalcRandomBackoff(t, c, d) = With(t, c, WaitingSlots(t.ac[c], c, n))
  BY <1>5, RecalcTyped
<1>8. SameAccess(s, RecalcRandomBackoff(t, c, d))  BY <1>5, RecalcTyped DEF SameAccess
<1> QED  BY <1>2, <1>3, <1>4, <1>5, <1>6, <1>7, <1>8, RecalcTyped

\* The first backoff that ends is that of a category that waits.
Extension(s) == IF s.corrupt THEN ExtendedDelay ELSE 0

\* The wakeup timer is set for the earliest backoff.
LEMMA ExpirationTyped ==
    ASSUME NEW s \in StationTypes
    PROVE  /\ CurrentBackoffExpiration(s) \in Int
           /\ (\A c \in Categories : s.ac[c].duration = INFINITE) =>
                  CurrentBackoffExpiration(s) = INFINITE
           /\ (\E c \in Categories : s.ac[c].duration # INFINITE) =>
                  \E c \in Categories :
                      /\ s.ac[c].duration # INFINITE
                      /\ CurrentBackoffExpiration(s)
                             = s.ac[c].duration - s.ac[c].elapsed + Extension(s)
                      /\ \A k \in Categories : s.ac[k].duration # INFINITE =>
                             CurrentBackoffExpiration(s)
                                 <= s.ac[k].duration - s.ac[k].elapsed + Extension(s)
<1> DEFINE K == {k \in Categories : s.ac[k].duration # INFINITE}
           f == [c \in Categories |-> s.ac[c].duration - s.ac[c].elapsed]
           left == {s.ac[c].duration - s.ac[c].elapsed : c \in K}
           least == CHOOSE t \in left : \A u \in left : t <= u
<1>1. \A c \in Categories : s.ac[c].duration \in Nat /\ s.ac[c].elapsed \in Nat
  BY DEF StationTypes, AccessCategoryInfos
<1>2. Extension(s) \in Nat  BY Timings DEF Extension
<1>3. CurrentBackoffExpiration(s) =
          IF left = {} THEN INFINITE ELSE least + Extension(s)
  BY DEF CurrentBackoffExpiration, Extension
<1>4. CASE K = {}
  <2>1. left = {}  BY <1>4
  <2>2. \A c \in Categories : s.ac[c].duration = INFINITE  BY <1>4
  <2> QED  BY <1>3, <2>1, <2>2, Timings
<1>5. CASE K # {}
  <2>1. f \in [Categories -> Int]  BY <1>1
  <2>2. PICK a \in K : \A k \in K : f[a] <= f[k]
    <3> HIDE DEF f, K
    <3>1. K \in SUBSET Categories  BY DEF K
    <3> QED  BY <1>5, <2>1, <3>1, LeastOf
  <2>3. f[a] \in left /\ \A u \in left : f[a] <= u  BY <2>2
  <2>4. least \in left /\ \A u \in left : least <= u
    <3> HIDE DEF left, f
    <3> QED  BY <2>3
  <2>5. PICK c \in K : least = s.ac[c].duration - s.ac[c].elapsed  BY <2>4
  <2>6. \A k \in K : least <= s.ac[k].duration - s.ac[k].elapsed  BY <2>4
  <2>7. left # {}  BY <2>3
  <2> HIDE DEF left, least
  <2>8. CurrentBackoffExpiration(s) = s.ac[c].duration - s.ac[c].elapsed + Extension(s)
    BY <1>3, <2>5, <2>7
  <2>9. ASSUME NEW k \in Categories, s.ac[k].duration # INFINITE
        PROVE  CurrentBackoffExpiration(s) <= s.ac[k].duration - s.ac[k].elapsed + Extension(s)
    <3>1. least <= s.ac[k].duration - s.ac[k].elapsed  BY <2>6, <2>9
    <3>2. least \in Int  BY <1>1, <2>5
    <3> QED  BY <1>1, <1>2, <1>3, <2>7, <3>1, <3>2
  <2>10. CurrentBackoffExpiration(s) \in Int  BY <1>1, <1>2, <2>8
  <2> QED  BY <1>5, <2>8, <2>9, <2>10
<1> QED  BY <1>4, <1>5

\* Taking the start times away leaves well-typed categories.
LEMMA NoStartTimesTyped ==
    ASSUME NEW s \in StationTypes
    PROVE  /\ NoStartTimes(s) \in [Categories -> AccessCategoryInfos]
           /\ \A c \in Categories : NoStartTimes(s)[c] = [s.ac[c] EXCEPT !.elapsed = 0]
  BY InfoTyped DEF NoStartTimes, AccessCategoryInfos

\* Doing nothing does not touch the PHY.
LEMMA SameAccessSelf ==
    ASSUME NEW s
    PROVE  SameAccess(s, s)
  BY DEF SameAccess

\* A MAC that turns idle does not count down.
LEMMA IdleTyped ==
    ASSUME NEW s \in StationTypes, NEW t \in StationTypes, SameAccess(t, s),
           NEW m \in MacStates \ {"WaitingForIfsAndBackoff"}
    PROVE  /\ [s EXCEPT !.macState = m] \in StationTypes
           /\ SameAccess(t, [s EXCEPT !.macState = m])
           /\ [s EXCEPT !.macState = m].macState = m
  BY DEF StationTypes, SameAccess

\* The station as it counts down, its timer set.
Counting(s, time) ==
    [s EXCEPT !.macState = "WaitingForIfsAndBackoff", !.timer = time, !.stale = INFINITE]

\* A MAC with a permission may count down.
LEMMA CountingTyped ==
    ASSUME NEW s \in StationTypes, NEW t \in StationTypes, SameAccess(t, s),
           NEW time \in Int, s.permission # 0
    PROVE  /\ Counting(s, time) \in StationTypes /\ SameAccess(t, Counting(s, time))
           /\ Counting(s, time).macState = "WaitingForIfsAndBackoff"
<1> DEFINE on == Counting(s, time)
<1>1. INFINITE \in Int  BY Timings
<1>2. "WaitingForIfsAndBackoff" \in MacStates  BY DEF MacStates
<1>3. on \in StationTypes  BY <1>1, <1>2 DEF StationTypes, Counting
<1>4. on.macState = "WaitingForIfsAndBackoff" /\ on.permission = s.permission
      /\ on.phyState = s.phyState /\ on.outgoing = s.outgoing /\ on.txLeft = s.txLeft
  BY DEF StationTypes, Counting
<1> HIDE DEF on
<1>5. SameAccess(t, on)  BY <1>4 DEF SameAccess
<1> QED  BY <1>3, <1>4, <1>5 DEF on

\* StartBackoffIfNecessary starts backoffs only with a permission.
LEMMA StartBackoffIfNecessaryTyped ==
    ASSUME NEW s \in StationTypes
    PROVE  /\ StartBackoffIfNecessary(s) \in StationTypes
           /\ SameAccess(s, StartBackoffIfNecessary(s))
           /\ StartBackoffIfNecessary(s).macState \in {"Idle", "WaitingForIfsAndBackoff"}
<1> DEFINE started == [s EXCEPT !.ac = NoStartTimes(s)]
<1>1. started \in StationTypes  BY NoStartTimesTyped DEF StationTypes
<1>2. CurrentBackoffExpiration(started) \in Int  BY <1>1, ExpirationTyped
<1>3. SameAccess(s, started) /\ started.macState = s.macState  BY DEF SameAccess, StationTypes
<1>4. StartBackoffIfNecessary(s) =
          IF s.permission = 0 \/ CurrentBackoffExpiration(started) = INFINITE
          THEN [started EXCEPT !.macState = "Idle"]
          ELSE Counting(started, CurrentBackoffExpiration(started))
  BY DEF StartBackoffIfNecessary, Counting
<1> HIDE DEF started
<1>5. CASE s.permission = 0 \/ CurrentBackoffExpiration(started) = INFINITE
  <2>1. StartBackoffIfNecessary(s) = [started EXCEPT !.macState = "Idle"]  BY <1>4, <1>5
  <2> QED  BY <1>1, <1>3, <2>1, IdleTyped DEF MacStates
<1>6. CASE ~(s.permission = 0 \/ CurrentBackoffExpiration(started) = INFINITE)
  <2>1. StartBackoffIfNecessary(s) =
            Counting(started, CurrentBackoffExpiration(started))
    BY <1>4, <1>6
  <2>2. started.permission # 0  BY <1>3, <1>6 DEF SameAccess
  <2> QED  BY <1>1, <1>2, <1>3, <1>6, <2>1, <2>2, CountingTyped
<1> QED  BY <1>5, <1>6

\* StartBackoffForCategory concerns one category.
LEMMA StartBackoffForCategoryTyped ==
    ASSUME NEW s \in StationTypes, NEW c \in Categories
    PROVE  /\ StartBackoffForCategory(s, c) \in StationTypes
           /\ SameAccess(s, StartBackoffForCategory(s, c))
           /\ StartBackoffForCategory(s, c).macState \in {"Idle", "WaitingForIfsAndBackoff"}
<1> DEFINE started == With(s, c, [s.ac[c] EXCEPT !.elapsed = 0])
           waits == [started EXCEPT !.macState = "WaitingForIfsAndBackoff"]
<1>1. [s.ac[c] EXCEPT !.elapsed = 0] \in AccessCategoryInfos
  BY InfoTyped DEF AccessCategoryInfos
<1>2. started \in StationTypes /\ SameAccess(s, started)  BY <1>1, WithTyped
<1>3. CurrentBackoffExpiration(started) \in Int  BY <1>2, ExpirationTyped
<1>4. StartBackoffForCategory(s, c) =
          IF s.permission = 0 THEN [s EXCEPT !.macState = "Idle"]
          ELSE IF CurrentBackoffExpiration(started) = s.stale THEN waits
          ELSE Counting(started, CurrentBackoffExpiration(started))
  BY DEF StartBackoffForCategory, With, Counting
<1> HIDE DEF started, waits
<1>5. CASE s.permission = 0
  <2>1. StartBackoffForCategory(s, c) = [s EXCEPT !.macState = "Idle"]  BY <1>4, <1>5
  <2> QED  BY <2>1, IdleTyped, SameAccessSelf DEF MacStates
<1>6. CASE s.permission # 0
  <2> DEFINE on == Counting(started, CurrentBackoffExpiration(started))
  <2>1. StartBackoffForCategory(s, c) \in {waits, on}  BY <1>4, <1>6
  <2>2. started.permission # 0  BY <1>2, <1>6 DEF SameAccess
  <2>3. on \in StationTypes /\ SameAccess(s, on) /\ on.macState = "WaitingForIfsAndBackoff"
    BY <1>2, <1>3, <2>2, CountingTyped
  <2>4. waits \in StationTypes /\ SameAccess(s, waits)
        /\ waits.macState = "WaitingForIfsAndBackoff"
    <3>1. waits \in StationTypes  BY <1>2 DEF waits, StationTypes, MacStates
    <3>2. waits.macState = "WaitingForIfsAndBackoff"
          /\ waits.permission = started.permission /\ waits.phyState = started.phyState
          /\ waits.outgoing = started.outgoing /\ waits.txLeft = started.txLeft
      BY <1>2 DEF waits, StationTypes
    <3> QED  BY <1>2, <1>6, <3>1, <3>2 DEF SameAccess
  <2> HIDE DEF on
  <2> QED  BY <2>1, <2>3, <2>4
<1> QED  BY <1>5, <1>6

\* Neither of two handlers after one another touches the PHY.
LEMMA SameAccessTransitive ==
    ASSUME NEW s, NEW t, NEW u, SameAccess(s, t), SameAccess(t, u)
    PROVE  SameAccess(s, u)
  BY DEF SameAccess

\* Category c once it has looked for a packet, and as it tries without a backoff.
Asked(s, c) == [s.ac[c] EXCEPT !.jumping = FALSE, !.hasPacketToSend = HasPacket(s, c)]

Jumping(s, c) ==
    [s.ac[c] EXCEPT !.jumping = TRUE, !.hasPacketToSend = HasPacket(s, c), !.slots = 0,
                    !.duration = DurationForJumpingOnMedium(s, c)]

\* Jumping on a free medium takes no longer than the interframe space.
LEMMA JumpDurations ==
    ASSUME NEW s \in StationTypes, NEW c \in Categories
    PROVE  /\ DurationForJumpingOnMedium(s, c) \in Nat
           /\ DurationForJumpingOnMedium(s, c) <= NonExtendedBackoffDuration(c, 0)
<1> DEFINE ifs == InterframeSpace(c) - RxTxTurnaroundTime
           r == (s.idleFor - ifs) % SlotTime
<1>1. s.idleFor \in Nat  BY DEF StationTypes
<1>2. ifs \in Nat /\ ifs >= SlotTime /\ ifs = NonExtendedBackoffDuration(c, 0)
  BY InterframeSpaces, Timings, BackoffDurations
<1>3. DurationForJumpingOnMedium(s, c)
          = IF ifs >= s.idleFor THEN ifs - s.idleFor ELSE SlotTime - r
  BY DEF DurationForJumpingOnMedium
<1> HIDE DEF ifs
<1>4. r \in Nat /\ r < SlotTime  BY <1>1, <1>2, Timings
<1> HIDE DEF r
<1> QED  BY <1>1, <1>2, <1>3, <1>4, Timings

\* A category that learns of a packet stays well typed.
LEMMA HasPacketTyped ==
    ASSUME NEW s \in StationTypes, NEW c \in Categories
    PROVE  HasPacket(s, c) \in BOOLEAN
<1>1. s.ac[c].hasPacketToSend \in BOOLEAN  BY DEF StationTypes, AccessCategoryInfos
<1>2. (s.ac[c].queued > 0) \in BOOLEAN  OBVIOUS
<1>3. CASE s.ac[c].packet = NONE  BY <1>2, <1>3 DEF HasPacket
<1>4. CASE s.ac[c].packet # NONE  BY <1>1, <1>4 DEF HasPacket
<1> QED  BY <1>3, <1>4

\* A category that asks for the medium stays well typed.
LEMMA AskedTyped ==
    ASSUME NEW s \in StationTypes, NEW c \in Categories
    PROVE  Asked(s, c) \in AccessCategoryInfos /\ Jumping(s, c) \in AccessCategoryInfos
<1> DEFINE has == HasPacket(s, c)
           duration == DurationForJumpingOnMedium(s, c)
<1>1. has \in BOOLEAN /\ duration \in Nat  BY HasPacketTyped, JumpDurations
<1> HIDE DEF has, duration
<1>2. [s.ac[c] EXCEPT !.jumping = FALSE, !.hasPacketToSend = has] \in AccessCategoryInfos
  BY <1>1, InfoTyped DEF AccessCategoryInfos
<1>3. [s.ac[c] EXCEPT !.jumping = TRUE, !.hasPacketToSend = has, !.slots = 0,
                      !.duration = duration] \in AccessCategoryInfos
  BY <1>1, InfoTyped DEF AccessCategoryInfos
<1> QED  BY <1>2, <1>3 DEF Asked, Jumping, has, duration

\* The three ways StartPacketSendProcess can go.
NoBackoff(s, c) == With(s, c, [Asked(s, c) EXCEPT !.duration = INFINITE])

StartCondition(s, c) == s.ac[c].duration = INFINITE /\ s.macState # "Transient"

\* The cases of StartPacketSendProcessForAnAccessCategory.
LEMMA StartPacketSendProcessCases ==
    ASSUME NEW s \in StationTypes, NEW c \in Categories, NEW force \in BOOLEAN, NEW d \in DrawTypes
    PROVE  \E n \in 0 .. s.ac[c].window :
               StartPacketSendProcess(s, c, force, d) =
                   IF ~force /\ ~HasPacket(s, c) THEN NoBackoff(s, c)
                   ELSE Expect(IF s.macState \notin {"Idle", "WaitingForIfsAndBackoff"}
                               THEN With(s, c, WaitingSlots(Asked(s, c), c, n))
                               ELSE StartBackoffForCategory(
                                        IF DisabledToJump
                                        THEN With(s, c, WaitingSlots(Asked(s, c), c, n))
                                        ELSE Expect(With(s, c, Jumping(s, c)), ~force), c),
                               StartCondition(s, c))
<1> DEFINE asked == [s EXCEPT !.ac[c].jumping = FALSE,
                              !.ac[c].hasPacketToSend = HasPacket(s, c)]
           jump == [asked EXCEPT !.ac[c].slots = 0, !.ac[c].jumping = TRUE,
                                 !.ac[c].duration = DurationForJumpingOnMedium(s, c)]
<1>1. asked = With(s, c, Asked(s, c))  BY DEF With, Asked, StationTypes
<1>2. jump = With(s, c, Jumping(s, c))
  <2> DEFINE a == With(s, c, Asked(s, c))
             duration == DurationForJumpingOnMedium(s, c)
             i == [Asked(s, c) EXCEPT !.slots = 0, !.jumping = TRUE, !.duration = duration]
  <2>1. a \in StationTypes /\ a.ac[c] = Asked(s, c)  BY AskedTyped, WithTyped
  <2>2. jump = [a EXCEPT !.ac[c].slots = 0, !.ac[c].jumping = TRUE, !.ac[c].duration = duration]
    BY <1>1
  <2> HIDE DEF a, jump, duration
  <2>3. jump = With(a, c, i)  BY <2>1, <2>2 DEF With, StationTypes
  <2>4. i = Jumping(s, c)
    BY InfoTyped DEF Asked, Jumping, AccessCategoryInfos, duration
  <2> QED  BY <2>3, <2>4, WithTwice DEF a
<1>3. [asked EXCEPT !.ac[c].duration = INFINITE] = NoBackoff(s, c)
  <2> DEFINE a == With(s, c, Asked(s, c))
             i == [Asked(s, c) EXCEPT !.duration = INFINITE]
             none == [asked EXCEPT !.ac[c].duration = INFINITE]
  <2>1. a \in StationTypes /\ a.ac[c] = Asked(s, c)  BY AskedTyped, WithTyped
  <2>2. none = [a EXCEPT !.ac[c].duration = INFINITE]  BY <1>1
  <2> HIDE DEF a, none, asked
  <2>3. none = With(a, c, i)  BY <2>1, <2>2 DEF With, StationTypes
  <2> HIDE DEF i
  <2>4. With(a, c, i) = With(s, c, i)  BY WithTwice DEF a
  <2> QED  BY <2>3, <2>4 DEF NoBackoff, i, none
<1>4. With(s, c, Asked(s, c)) \in StationTypes
      /\ With(s, c, Asked(s, c)).ac[c] = Asked(s, c)
  BY AskedTyped, WithTyped
<1>5. Asked(s, c).window = s.ac[c].window  BY InfoTyped DEF Asked, AccessCategoryInfos
<1>6. StartPacketSendProcess(s, c, force, d) =
          IF ~force /\ ~HasPacket(s, c) THEN NoBackoff(s, c)
          ELSE Expect(IF s.macState \notin {"Idle", "WaitingForIfsAndBackoff"}
                      THEN RecalcRandomBackoff(asked, c, d)
                      ELSE StartBackoffForCategory(
                               IF DisabledToJump THEN RecalcRandomBackoff(asked, c, d)
                               ELSE Expect(jump, ~force), c),
                      StartCondition(s, c))
  BY <1>3 DEF StartPacketSendProcess, StartCondition
<1> HIDE DEF asked, jump
<1>7. PICK n \in 0 .. s.ac[c].window :
          RecalcRandomBackoff(asked, c, d)
              = With(With(s, c, Asked(s, c)), c, WaitingSlots(Asked(s, c), c, n))
  BY <1>1, <1>4, <1>5, RecalcTyped
<1>8. RecalcRandomBackoff(asked, c, d) = With(s, c, WaitingSlots(Asked(s, c), c, n))
  BY <1>7, WithTwice
<1> QED  BY <1>2, <1>6, <1>8

\* A category without a backoff is well typed.
LEMMA NoBackoffTyped ==
    ASSUME NEW s \in StationTypes, NEW c \in Categories
    PROVE  [Asked(s, c) EXCEPT !.duration = INFINITE] \in AccessCategoryInfos
  BY AskedTyped, Timings DEF AccessCategoryInfos

\* StartPacketSendProcessForAnAccessCategory sends nothing.
LEMMA StartPacketSendProcessTyped ==
    ASSUME NEW s \in StationTypes, NEW c \in Categories, NEW force \in BOOLEAN, NEW d \in DrawTypes
    PROVE  /\ StartPacketSendProcess(s, c, force, d) \in StationTypes
           /\ SameAccess(s, StartPacketSendProcess(s, c, force, d))
           /\ s.macState \notin {"Idle", "WaitingForIfsAndBackoff"} =>
                  StartPacketSendProcess(s, c, force, d).macState = s.macState
<1>1. PICK n \in 0 .. s.ac[c].window :
          StartPacketSendProcess(s, c, force, d) =
              IF ~force /\ ~HasPacket(s, c) THEN NoBackoff(s, c)
              ELSE Expect(IF s.macState \notin {"Idle", "WaitingForIfsAndBackoff"}
                          THEN With(s, c, WaitingSlots(Asked(s, c), c, n))
                          ELSE StartBackoffForCategory(
                                   IF DisabledToJump
                                   THEN With(s, c, WaitingSlots(Asked(s, c), c, n))
                                   ELSE Expect(With(s, c, Jumping(s, c)), ~force), c),
                          StartCondition(s, c))
  BY StartPacketSendProcessCases
<1>2. s.ac[c].window \in Nat  BY DEF StationTypes, AccessCategoryInfos
<1> DEFINE waiting == With(s, c, WaitingSlots(Asked(s, c), c, n))
           jumping == Expect(With(s, c, Jumping(s, c)), ~force)
<1>3. waiting \in StationTypes /\ SameAccess(s, waiting) /\ waiting.macState = s.macState
  <2>1. n \in Nat  BY <1>2
  <2>2. WaitingSlots(Asked(s, c), c, n) \in AccessCategoryInfos
    BY <2>1, AskedTyped, WaitingSlotsTyped
  <2> QED  BY <2>2, WithTyped
<1>4. jumping \in StationTypes /\ SameAccess(s, jumping) /\ jumping.macState = s.macState
  <2> DEFINE x == With(s, c, Jumping(s, c))
  <2>1. x \in StationTypes /\ SameAccess(s, x) /\ x.macState = s.macState
    BY AskedTyped, WithTyped
  <2> HIDE DEF x
  <2>2. SameAccess(x, Expect(x, ~force)) /\ Expect(x, ~force) \in StationTypes
        /\ Expect(x, ~force).macState = x.macState
    BY <2>1, ExpectTyped
  <2> QED  BY <2>1, <2>2, SameAccessTransitive DEF x
<1> HIDE DEF waiting, jumping
<1>5. CASE ~force /\ ~HasPacket(s, c)
  BY <1>1, <1>5, NoBackoffTyped, WithTyped DEF NoBackoff
<1>6. CASE ~(~force /\ ~HasPacket(s, c))
  <2> DEFINE x == IF DisabledToJump THEN waiting ELSE jumping
             y == IF s.macState \notin {"Idle", "WaitingForIfsAndBackoff"} THEN waiting
                  ELSE StartBackoffForCategory(x, c)
  <2>1. x \in StationTypes /\ SameAccess(s, x) /\ x.macState = s.macState  BY <1>3, <1>4
  <2>2. StartPacketSendProcess(s, c, force, d) = Expect(y, StartCondition(s, c))
    BY <1>1, <1>6 DEF waiting, jumping
  <2> HIDE DEF x
  <2>3. y \in StationTypes /\ SameAccess(s, y)
        /\ (s.macState \notin {"Idle", "WaitingForIfsAndBackoff"} => y.macState = s.macState)
    BY <1>3, <2>1, StartBackoffForCategoryTyped, SameAccessTransitive
  <2> HIDE DEF y
  <2> QED  BY <2>2, <2>3, ExpectTyped, SameAccessTransitive
<1> QED  BY <1>5, <1>6

\* The slots counted down are charged to the category.
LEMMA UsedSlotsTyped ==
    ASSUME NEW s \in StationTypes, NEW c \in Categories
    PROVE  /\ NumberBackoffSlotsUsed(s, c) \in Nat
           /\ \E n \in 0 .. s.ac[c].slots :
                  /\ n = s.ac[c].slots - MinOf(s.ac[c].slots, NumberBackoffSlotsUsed(s, c))
                  /\ SubtractUsedSlots(s, c) =
                         With(Expect(s, NumberBackoffSlotsUsed(s, c) <= s.ac[c].slots), c,
                              [s.ac[c] EXCEPT !.slots = n])
                  /\ [s.ac[c] EXCEPT !.slots = n] \in AccessCategoryInfos
           /\ SubtractUsedSlots(s, c) \in StationTypes
           /\ SameAccess(s, SubtractUsedSlots(s, c))
           /\ SubtractUsedSlots(s, c).macState = s.macState
<1> DEFINE used == NumberBackoffSlotsUsed(s, c)
           ifs == InterframeSpace(c) + Extension(s)
           n == s.ac[c].slots - MinOf(s.ac[c].slots, used)
           e == Expect(s, used <= s.ac[c].slots)
           i == [s.ac[c] EXCEPT !.slots = n]
<1>1. s.ac[c] \in AccessCategoryInfos /\ s.ac[c].slots \in Nat /\ s.ac[c].elapsed \in Nat
  BY DEF StationTypes, AccessCategoryInfos
<1>2. used \in Nat
  <2>1. ifs \in Nat  BY InterframeSpaces, Timings DEF Extension
  <2>2. used = IF s.ac[c].elapsed <= ifs THEN 0
               ELSE (s.ac[c].elapsed + RxTxTurnaroundTime - ifs) \div SlotTime
    BY DEF NumberBackoffSlotsUsed, Extension
  <2> HIDE DEF used, ifs
  <2> QED  BY <1>1, <2>1, <2>2, Timings
<1>3. n \in 0 .. s.ac[c].slots /\ n \in Nat
  <2> HIDE DEF used
  <2> QED  BY <1>1, <1>2 DEF MinOf
<1>4. e \in StationTypes /\ SameAccess(s, e) /\ e.macState = s.macState /\ e.ac = s.ac
  BY ExpectTyped
<1>5. SubtractUsedSlots(s, c) = [e EXCEPT !.ac[c].slots = @ - MinOf(@, used)]
  BY DEF SubtractUsedSlots
<1> HIDE DEF e, used
<1>6. SubtractUsedSlots(s, c) = With(e, c, i)  BY <1>4, <1>5 DEF With, StationTypes
<1>7. i \in AccessCategoryInfos
  <2> HIDE DEF n
  <2> QED  BY <1>1, <1>3 DEF AccessCategoryInfos
<1> HIDE DEF n
<1>8. SubtractUsedSlots(s, c) \in StationTypes /\ SameAccess(s, SubtractUsedSlots(s, c))
      /\ SubtractUsedSlots(s, c).macState = s.macState
  BY <1>4, <1>6, <1>7, WithTyped, SameAccessTransitive
<1> QED  BY <1>2, <1>3, <1>6, <1>7, <1>8 DEF n, e, used

\* SubtractElapsedTimeFromBackoff concerns one category.
LEMMA SubtractElapsedTimeTyped ==
    ASSUME NEW s \in StationTypes, NEW c \in Categories
    PROVE  /\ SubtractElapsedTime(s, c) \in StationTypes
           /\ SameAccess(s, SubtractElapsedTime(s, c))
           /\ SubtractElapsedTime(s, c).macState = s.macState
           /\ LET used == SubtractUsedSlots(s, c)
              IN  SubtractElapsedTime(s, c) =
                      IF s.ac[c].jumping \/ s.ac[c].duration = INFINITE THEN s
                      ELSE With(used, c, WaitingSlots(used.ac[c], c, used.ac[c].slots))
<1> DEFINE used == SubtractUsedSlots(s, c)
           n == used.ac[c].slots
           w == WaitingSlots(used.ac[c], c, n)
<1>1. used \in StationTypes /\ SameAccess(s, used) /\ used.macState = s.macState
  BY UsedSlotsTyped
<1>2. SubtractElapsedTime(s, c) =
          IF s.ac[c].jumping \/ s.ac[c].duration = INFINITE THEN s
          ELSE [used EXCEPT !.ac[c].duration = NonExtendedBackoffDuration(c, n)]
  BY DEF SubtractElapsedTime
<1> HIDE DEF used
<1>3. used.ac[c] \in AccessCategoryInfos /\ n \in Nat
  BY <1>1 DEF StationTypes, AccessCategoryInfos
<1>4. w = [used.ac[c] EXCEPT !.duration = NonExtendedBackoffDuration(c, n)]
  BY <1>3 DEF WaitingSlots, AccessCategoryInfos
<1>5. [used EXCEPT !.ac[c].duration = NonExtendedBackoffDuration(c, n)] = With(used, c, w)
  BY <1>1, <1>4 DEF With, StationTypes
<1>6. w \in AccessCategoryInfos  BY <1>3, WaitingSlotsTyped
<1>7. With(used, c, w) \in StationTypes /\ SameAccess(s, With(used, c, w))
      /\ With(used, c, w).macState = s.macState
  BY <1>1, <1>6, WithTyped, SameAccessTransitive
<1> HIDE DEF w
<1>8. SubtractElapsedTime(s, c) = IF s.ac[c].jumping \/ s.ac[c].duration = INFINITE THEN s
                                  ELSE With(used, c, w)
  BY <1>2, <1>5
<1> QED  BY <1>7, <1>8, SameAccessSelf DEF used, w

\* A category that gives up its attempt without a backoff, to draw one.
CalledOff(s, c) == With(s, c, [s.ac[c] EXCEPT !.duration = INFINITE])

\* A backoff that is called off leaves a well-typed category.
LEMMA CalledOffTyped ==
    ASSUME NEW s \in StationTypes, NEW c \in Categories
    PROVE  /\ CalledOff(s, c) = [s EXCEPT !.ac[c].duration = INFINITE]
           /\ [s.ac[c] EXCEPT !.duration = INFINITE] \in AccessCategoryInfos
           /\ CalledOff(s, c) \in StationTypes /\ SameAccess(s, CalledOff(s, c))
           /\ CalledOff(s, c).macState = s.macState
<1>1. [s.ac[c] EXCEPT !.duration = INFINITE] \in AccessCategoryInfos
  BY InfoTyped, Timings DEF AccessCategoryInfos
<1>2. CalledOff(s, c) = [s EXCEPT !.ac[c].duration = INFINITE]
  BY DEF CalledOff, With, StationTypes
<1> QED  BY <1>1, <1>2, WithTyped DEF CalledOff

\* PauseBackoff sends nothing.
LEMMA PauseBackoffTyped ==
    ASSUME NEW s \in StationTypes, NEW c \in Categories, NEW d \in DrawTypes,
           s.macState \notin {"Idle", "WaitingForIfsAndBackoff"}
    PROVE  /\ PauseBackoff(s, c, d) \in StationTypes /\ SameAccess(s, PauseBackoff(s, c, d))
           /\ PauseBackoff(s, c, d).macState = s.macState
           /\ PauseBackoff(s, c, d) =
                  IF s.ac[c].jumping THEN StartPacketSendProcess(CalledOff(s, c), c, TRUE, d)
                  ELSE SubtractElapsedTime(s, c)
<1>1. PauseBackoff(s, c, d) =
          IF s.ac[c].jumping THEN StartPacketSendProcess(CalledOff(s, c), c, TRUE, d)
          ELSE SubtractElapsedTime(s, c)
  BY CalledOffTyped DEF PauseBackoff
<1> DEFINE off == CalledOff(s, c)
           t == StartPacketSendProcess(off, c, TRUE, d)
<1>2. off \in StationTypes /\ SameAccess(s, off) /\ off.macState = s.macState
  BY CalledOffTyped
<1> HIDE DEF off
<1>3. t \in StationTypes /\ SameAccess(off, t) /\ t.macState = off.macState
  BY <1>2, StartPacketSendProcessTyped
<1>4. SameAccess(s, t)  BY <1>2, <1>3, SameAccessTransitive
<1> USE DEF off
<1> QED  BY <1>1, <1>2, <1>3, <1>4, SubtractElapsedTimeTyped

\* NetworkLayerQueueChangeNotification sends nothing.
LEMMA QueueChangeTyped ==
    ASSUME NEW s \in StationTypes, NEW d \in DrawTypes
    PROVE  /\ NetworkLayerQueueChangeNotification(s, d) \in StationTypes
           /\ SameAccess(s, NetworkLayerQueueChangeNotification(s, d))
<1> DEFINE Good == {x \in StationTypes : SameAccess(s, x)}
<1>1. s \in Good  BY SameAccessSelf
<1>2. ASSUME NEW x \in Good, NEW c \in Categories
      PROVE  OneRound("START", x, c, d, d) \in Good
  <2>1. OneRound("START", x, c, d, d) = StartRound(x, c, d)  BY DEF OneRound
  <2> DEFINE t == StartPacketSendProcess(x, c, FALSE, d)
  <2>2. StartRound(x, c, d) = x \/ StartRound(x, c, d) = t  BY DEF StartRound
  <2>3. t \in StationTypes /\ SameAccess(x, t)  BY StartPacketSendProcessTyped
  <2> HIDE DEF t
  <2> QED  BY <2>1, <2>2, <2>3, SameAccessTransitive
<1> HIDE DEF Good
<1>3. NetworkLayerQueueChangeNotification(s, d) \in Good
  BY <1>1, <1>2, StartLoop, LoopKeeps
<1> QED  BY <1>3 DEF Good

\* The timer is cancelled; with it, the start times of the backoffs are forgotten.
TimerOff(s) == [s EXCEPT !.timer = INFINITE]

CountdownOff(s) == [s EXCEPT !.timer = INFINITE, !.ac = NoStartTimes(s)]

\* A timer that is called off leaves the PHY alone.
LEMMA TimerOffTyped ==
    ASSUME NEW s \in StationTypes
    PROVE  /\ TimerOff(s) \in StationTypes /\ SameAccess(s, TimerOff(s))
           /\ TimerOff(s).macState = s.macState
           /\ CountdownOff(s) \in StationTypes /\ SameAccess(s, CountdownOff(s))
           /\ CountdownOff(s).macState = s.macState
<1>1. TimerOff(s) \in StationTypes /\ SameAccess(s, TimerOff(s))
      /\ TimerOff(s).macState = s.macState
  BY Timings DEF StationTypes, SameAccess, TimerOff
<1> DEFINE x == TimerOff(s)
<1>2. CountdownOff(s) = [x EXCEPT !.ac = NoStartTimes(s)]  BY DEF TimerOff, CountdownOff
<1> HIDE DEF x
<1>3. [x EXCEPT !.ac = NoStartTimes(s)] \in StationTypes
  BY <1>1, NoStartTimesTyped DEF StationTypes, x
<1>4. SameAccess(x, [x EXCEPT !.ac = NoStartTimes(s)])
      /\ [x EXCEPT !.ac = NoStartTimes(s)].macState = x.macState
  BY <1>1 DEF StationTypes, SameAccess, x
<1> QED  BY <1>1, <1>2, <1>3, <1>4, SameAccessTransitive DEF x

\* BusyChannelNotification sends nothing.
LEMMA BusyChannelTyped ==
    ASSUME NEW s \in StationTypes, NEW d \in DrawTypes
    PROVE  /\ BusyChannelNotification(s, d) \in StationTypes
           /\ SameAccess(s, BusyChannelNotification(s, d))
<1> DEFINE b == TurnsBusy(s)
           idle == [s EXCEPT !.macState = "BusyMedium"]
           Good == {x \in StationTypes : SameAccess(s, x) /\ x.macState = "BusyMedium"}
<1>1. b \in Good /\ idle \in Good
  <2> DEFINE e == Expect(s, s.timer # INFINITE)
  <2>1. e \in StationTypes /\ SameAccess(s, e)  BY ExpectTyped
  <2>2. b = [e EXCEPT !.macState = "BusyMedium"]  BY DEF TurnsBusy
  <2> HIDE DEF e, b
  <2> QED  BY <2>1, <2>2, IdleTyped, SameAccessSelf DEF MacStates
<1>2. PICK t : /\ RunsTo("PAUSE", b, d, d, t)
               /\ BusyChannelNotification(s, d) =
                      CASE s.macState = "WaitingForNavExpiration" -> [b EXCEPT !.timer = INFINITE]
                        [] s.macState = "WaitingForIfsAndBackoff" ->
                               [t EXCEPT !.timer = INFINITE, !.ac = NoStartTimes(t)]
                        [] s.macState = "Idle" -> idle
                        [] OTHER -> Expect(s, s.macState # "Transient")
  BY PauseLoop
<1> HIDE DEF b, idle
<1>3. ASSUME NEW x \in Good, NEW c \in Categories
      PROVE  OneRound("PAUSE", x, c, d, d) \in Good
  <2>1. OneRound("PAUSE", x, c, d, d) = PauseBackoff(x, c, d)  BY DEF OneRound
  <2>2. LET u == PauseBackoff(x, c, d)
        IN  u \in StationTypes /\ SameAccess(x, u) /\ u.macState = x.macState
    BY PauseBackoffTyped
  <2> QED  BY <2>1, <2>2, SameAccessTransitive
<1> HIDE DEF Good
<1>4. t \in Good  BY <1>1, <1>2, <1>3, LoopKeeps
<1>5. CASE s.macState = "WaitingForNavExpiration"
  <2>1. BusyChannelNotification(s, d) = TimerOff(b)  BY <1>2, <1>5 DEF TimerOff
  <2> QED  BY <1>1, <2>1, TimerOffTyped, SameAccessTransitive DEF Good
<1>6. CASE s.macState = "WaitingForIfsAndBackoff"
  <2>1. BusyChannelNotification(s, d) = CountdownOff(t)  BY <1>2, <1>6 DEF CountdownOff
  <2> QED  BY <1>4, <2>1, TimerOffTyped, SameAccessTransitive DEF Good
<1>7. CASE s.macState = "Idle"
  <2>1. BusyChannelNotification(s, d) = idle  BY <1>2, <1>7
  <2> QED  BY <1>1, <2>1 DEF Good
<1>8. CASE s.macState \notin {"WaitingForNavExpiration", "WaitingForIfsAndBackoff", "Idle"}
  <2>1. BusyChannelNotification(s, d) = Expect(s, s.macState # "Transient")  BY <1>2, <1>8
  <2> QED  BY <2>1, ExpectTyped
<1> QED  BY <1>5, <1>6, <1>7, <1>8

\* A clear channel starts backoffs only with a permission.
LEMMA GoOnTyped ==
    ASSUME NEW s \in StationTypes
    PROVE  /\ GoOnWhenClear(s) \in StationTypes /\ SameAccess(s, GoOnWhenClear(s))
           /\ NavExpiration(s) \in StationTypes /\ SameAccess(s, NavExpiration(s))
<1> DEFINE e == Expect(s, s.timer = INFINITE)
           free == [s EXCEPT !.idleFor = 0]
           over == [s EXCEPT !.macState = "Transient", !.idleFor = 0]
           n == [e EXCEPT !.macState = "WaitingForNavExpiration", !.timer = s.nav,
                          !.stale = INFINITE]
<1>1. e \in StationTypes /\ SameAccess(s, e)  BY ExpectTyped
<1>2. free \in StationTypes /\ SameAccess(s, free)  BY DEF StationTypes, SameAccess
<1>3. over \in StationTypes /\ SameAccess(s, over)
  BY DEF StationTypes, SameAccess, MacStates
<1>4. GoOnWhenClear(s) =
          IF s.nav > 0 THEN n ELSE StartBackoffIfNecessary(free)
  BY DEF GoOnWhenClear
<1>5. NavExpiration(s) = StartBackoffIfNecessary(over)  BY DEF NavExpiration
<1> HIDE DEF e, free, over
<1>6. n \in StationTypes /\ SameAccess(e, n)
  <2>1. s.nav \in Int /\ INFINITE \in Int /\ "WaitingForNavExpiration" \in MacStates
    BY Timings DEF StationTypes, MacStates
  <2> DEFINE waits == [e EXCEPT !.macState = "WaitingForNavExpiration"]
             timed == [waits EXCEPT !.timer = s.nav]
  <2>2. waits \in StationTypes  BY <1>1, <2>1 DEF StationTypes
  <2>3. timed \in StationTypes
    <3> HIDE DEF waits
    <3> QED  BY <2>1, <2>2 DEF StationTypes
  <2>4. n = [timed EXCEPT !.stale = INFINITE]  OBVIOUS
  <2>5. n \in StationTypes
    <3> HIDE DEF n, timed
    <3> QED  BY <2>1, <2>3, <2>4 DEF StationTypes
  <2>6. SameAccess(e, n)  BY <1>1 DEF StationTypes, SameAccess
  <2> QED  BY <2>5, <2>6
<1> HIDE DEF n
<1> QED  BY <1>1, <1>2, <1>3, <1>4, <1>5, <1>6, StartBackoffIfNecessaryTyped,
            SameAccessTransitive DEF n

-----------------------------------------------------------------------------
(* Sending. *)

\* What does not exceed the permission ends in it.
LEMMA WithinPermission ==
    ASSUME NEW s \in StationTypes, NEW delay \in Nat, NEW duration \in Nat,
           ~ExceedsPermission(s, delay, duration)
    PROVE  /\ s.permission # 0
           /\ s.permission # INFINITE => delay + duration < s.permission
  BY Timings DEF ExceedsPermission, StationTypes

\* Ending in the permission concerns the PHY and the permission only.
LEMMA SendsInPermission ==
    ASSUME NEW s, NEW t, t.permission = s.permission, s.permission # 0, EndsInPermission(t)
    PROVE  Obeys(s, t)
  BY DEF Obeys

\* TransmitFrame hands the frame to the PHY.
LEMMA TransmitFrameTyped ==
    ASSUME NEW s \in StationTypes, NEW frame \in {"DATA", "RTS", "CONTROL"},
           NEW packet \in UnicastFrames \cup {NONE}, NEW delay \in Nat
    PROVE  /\ TransmitFrame(s, frame, packet, delay) \in StationTypes
           /\ ~ExceedsPermission(s, delay, IF frame = "DATA" THEN DataTime
                                           ELSE ControlTimeChecked)
                  => Obeys(s, TransmitFrame(s, frame, packet, delay))
<1> DEFINE e == Expect(s, s.phyState \in {"Scanning", "Receiving"})
           heard == IF s.loud THEN s.others + 1 ELSE s.others
           t == [e EXCEPT !.phyState = "TxStarting", !.outgoing = frame, !.txLeft = delay,
                          !.sent = packet, !.receiving = NONE, !.loud = FALSE,
                          !.others = heard]
<1>1. e \in StationTypes /\ e.ac = s.ac /\ e.macState = s.macState /\ e.timer = s.timer
  BY ExpectTyped
<1>2. /\ e.permission = s.permission /\ e.nav = s.nav /\ e.last = s.last
      /\ e.lastSent = s.lastSent /\ e.sensing = s.sensing /\ e.corrupt = s.corrupt
      /\ e.quiet = s.quiet /\ e.gap = s.gap /\ e.others = s.others /\ e.idleFor = s.idleFor
      /\ e.loud = s.loud /\ e.stale = s.stale
      /\ e.failed = (IF s.phyState \in {"Scanning", "Receiving"} THEN s.failed ELSE TRUE)
  BY DEF Expect, StationTypes
<1>3. TransmitFrame(s, frame, packet, delay) = t  BY <1>2 DEF TransmitFrame
<1>7. heard \in Nat  BY DEF StationTypes
<1> HIDE DEF e, heard
<1>4. t \in StationTypes
  <2> DEFINE out == [e EXCEPT !.phyState = "TxStarting", !.outgoing = frame]
             sent == [out EXCEPT !.txLeft = delay, !.sent = packet]
  <2>1. "TxStarting" \in PhyStates /\ frame \in {NONE, "DATA", "RTS", "CONTROL"}
    BY DEF PhyStates
  <2>2. out \in StationTypes  BY <1>1, <2>1 DEF StationTypes
  <2>3. sent \in StationTypes
    <3> HIDE DEF out
    <3> QED  BY <2>2 DEF StationTypes
  <2>4. t = [sent EXCEPT !.receiving = NONE, !.loud = FALSE, !.others = heard]  OBVIOUS
  <2> HIDE DEF sent, t
  <2> QED  BY <1>7, <2>3, <2>4 DEF StationTypes
<1>5. /\ t.phyState = "TxStarting" /\ t.outgoing = frame /\ t.txLeft = delay
      /\ t.sent = packet /\ t.receiving = NONE
      /\ t.permission = s.permission /\ t.macState = s.macState /\ t.ac = s.ac
      /\ t.timer = s.timer /\ t.stale = s.stale /\ t.nav = s.nav /\ t.last = s.last
      /\ t.lastSent = s.lastSent /\ t.sensing = s.sensing /\ t.corrupt = s.corrupt
      /\ t.quiet = s.quiet /\ t.gap = s.gap /\ t.idleFor = s.idleFor
      /\ t.others = heard /\ ~t.loud
      /\ t.failed = (IF s.phyState \in {"Scanning", "Receiving"} THEN s.failed ELSE TRUE)
  BY <1>1, <1>2 DEF StationTypes
<1> HIDE DEF t
<1>6. ASSUME ~ExceedsPermission(s, delay, IF frame = "DATA" THEN DataTime
                                          ELSE ControlTimeChecked)
      PROVE  Obeys(s, t)
  <2> DEFINE checked == IF frame = "DATA" THEN DataTime ELSE ControlTimeChecked
             over == IF frame = "DATA" THEN 0 ELSE Overrun
  <2>1. OutgoingTransmissionEnd(t) = delay + FrameDuration(frame)
    BY <1>5 DEF OutgoingTransmissionEnd
  <2>2. /\ checked \in Nat /\ FrameDuration(frame) = checked + over /\ over \in Nat
        /\ FrameDuration(frame) \in Nat
    BY Timings DEF FrameDuration, Overrun
  <2> HIDE DEF checked
  <2>3. s.permission # 0 /\ (s.permission # INFINITE => delay + checked < s.permission)
    BY <1>6, <2>2, WithinPermission DEF checked
  <2>4. s.permission \in Nat  BY DEF StationTypes
  <2> HIDE DEF over
  <2>5. s.permission # INFINITE => delay + FrameDuration(frame) < s.permission + over
    BY <2>2, <2>3, <2>4
  <2>6. EndsInPermission(t)  BY <1>5, <2>1, <2>5 DEF EndsInPermission, over
  <2> QED  BY <1>5, <2>3, <2>6, SendsInPermission
<1> QED  BY <1>3, <1>4, <1>6

\* The packet in hand of a category put aside, and the packet as it goes out.
NothingToSend(s, c) == With(s, c, [s.ac[c] EXCEPT !.hasPacketToSend = FALSE])

AsksForRts(s, c) == [s EXCEPT !.last = c, !.lastSent = "RTS", !.macState = "WaitingForCts"]

\* The state of the MAC, and the contention window, after a packet has gone out.
HandsOver(s, c, packet) ==
    [With(s, c, [s.ac[c] EXCEPT
                     !.packet = NONE,
                     !.window = IF packet = "BROADCAST" THEN MinWindow[c] ELSE @])
        EXCEPT !.last = c, !.lastSent = IF packet = "LONG" THEN "LONG" ELSE "SHORT",
               !.macState = IF packet = "BROADCAST" THEN "BusyMedium" ELSE "WaitingForAck"]

\* What the MAC notes of a packet it sends.
LEMMA SendingTyped ==
    ASSUME NEW s \in StationTypes, NEW c \in Categories, NEW packet \in DataFrames
    PROVE  /\ NothingToSend(s, c) \in StationTypes /\ SameAccess(s, NothingToSend(s, c))
           /\ AsksForRts(s, c) \in StationTypes /\ SameAccess(s, AsksForRts(s, c))
           /\ HandsOver(s, c, packet) \in StationTypes /\ SameAccess(s, HandsOver(s, c, packet))
<1> DEFINE i == [s.ac[c] EXCEPT
                     !.packet = NONE,
                     !.window = IF packet = "BROADCAST" THEN MinWindow[c] ELSE @]
           w == With(s, c, i)
<1>1. i \in AccessCategoryInfos
  <2> DEFINE window == IF packet = "BROADCAST" THEN MinWindow[c] ELSE s.ac[c].window
  <2>1. s.ac[c] \in AccessCategoryInfos  BY InfoTyped
  <2>2. MinWindow[c] \in Nat  BY Windows
  <2>3. window \in Nat  BY <2>1, <2>2 DEF AccessCategoryInfos
  <2>4. i = [s.ac[c] EXCEPT !.packet = NONE, !.window = window]
    BY <2>1 DEF AccessCategoryInfos
  <2> HIDE DEF window, i
  <2> QED  BY <2>1, <2>3, <2>4 DEF AccessCategoryInfos
<1>2. w \in StationTypes /\ SameAccess(s, w)  BY <1>1, WithTyped
<1>3. [s.ac[c] EXCEPT !.hasPacketToSend = FALSE] \in AccessCategoryInfos
  BY InfoTyped DEF AccessCategoryInfos
<1>4. NothingToSend(s, c) \in StationTypes /\ SameAccess(s, NothingToSend(s, c))
  BY <1>3, WithTyped DEF NothingToSend
<1>5. AsksForRts(s, c) \in StationTypes /\ SameAccess(s, AsksForRts(s, c))
  BY DEF AsksForRts, StationTypes, SameAccess, MacStates
<1> DEFINE m == IF packet = "BROADCAST" THEN "BusyMedium" ELSE "WaitingForAck"
           l == IF packet = "LONG" THEN "LONG" ELSE "SHORT"
<1>6. HandsOver(s, c, packet) = [w EXCEPT !.last = c, !.lastSent = l, !.macState = m]
  BY DEF HandsOver
<1>7. m \in MacStates \ {"WaitingForIfsAndBackoff"} /\ l \in {"SHORT", "LONG"}
  BY DEF MacStates
<1> HIDE DEF w, m, l
<1> DEFINE x == [w EXCEPT !.last = c, !.lastSent = l, !.macState = m]
<1>8. x \in StationTypes  BY <1>2, <1>7 DEF StationTypes
<1>9. SameAccess(w, x)  BY <1>2, <1>7 DEF StationTypes, SameAccess
<1> QED  BY <1>2, <1>4, <1>5, <1>6, <1>8, <1>9, SameAccessTransitive

\* A packet in hand is put aside, asked for with an RTS, or goes out.
PutsAside(s, c, t) == s.permission # INFINITE /\ t = NothingToSend(s, c)

SendsRts(s, c, noRequestToSend, delay, t) ==
    /\ s.ac[c].packet = "LONG" /\ ~noRequestToSend
    /\ ~ExceedsPermission(s, delay, ControlTimeChecked)
    /\ t = TransmitFrame(AsksForRts(s, c), "RTS", NONE, delay)

SendsData(s, c, noRequestToSend, delay, t) ==
    /\ s.ac[c].packet # "LONG" \/ noRequestToSend
    /\ ~ExceedsPermission(s, delay, DataTime)
    /\ t = TransmitFrame(HandsOver(s, c, s.ac[c].packet), "DATA",
                         IF s.ac[c].packet = "BROADCAST" THEN NONE ELSE s.ac[c].packet, delay)

\* The cases of TransmitCurrentPacket.
LEMMA TransmitCurrentPacketCases ==
    ASSUME NEW s \in StationTypes, NEW c \in Categories, s.ac[c].packet # NONE,
           NEW noRequestToSend \in BOOLEAN, NEW delay \in Nat
    PROVE  LET t == TransmitCurrentPacket(s, c, noRequestToSend, delay)
           IN  \/ PutsAside(s, c, t)
               \/ SendsRts(s, c, noRequestToSend, delay, t)
               \/ SendsData(s, c, noRequestToSend, delay, t)
<1> DEFINE packet == s.ac[c].packet
           withRts == packet = "LONG" /\ ~noRequestToSend
           moved == [s EXCEPT !.last = c, !.ac[c].packet = NONE,
                              !.lastSent = IF packet = "LONG" THEN "LONG" ELSE "SHORT"]
           t == TransmitCurrentPacket(s, c, noRequestToSend, delay)
<1> SUFFICES \/ PutsAside(s, c, t)
             \/ SendsRts(s, c, noRequestToSend, delay, t)
             \/ SendsData(s, c, noRequestToSend, delay, t)
  OBVIOUS
<1>1. packet \in DataFrames  BY DEF StationTypes, AccessCategoryInfos
<1>2. t = IF ExceedsPermission(s, delay, IF withRts THEN ControlTimeChecked ELSE DataTime)
          THEN [s EXCEPT !.ac[c].hasPacketToSend = FALSE]
          ELSE CASE withRts -> TransmitFrame([s EXCEPT !.last = c, !.lastSent = "RTS",
                                                       !.macState = "WaitingForCts"],
                                             "RTS", NONE, delay)
                 [] packet = "BROADCAST" ->
                        TransmitFrame([moved EXCEPT !.ac[c].window = MinWindow[c],
                                                    !.macState = "BusyMedium"],
                                      "DATA", NONE, delay)
                 [] OTHER -> TransmitFrame([moved EXCEPT !.macState = "WaitingForAck"],
                                           "DATA", packet, delay)
  BY DEF TransmitCurrentPacket
<1> HIDE DEF t
<1>3. [s EXCEPT !.ac[c].hasPacketToSend = FALSE] = NothingToSend(s, c)
  BY DEF NothingToSend, With, StationTypes
<1>4. [s EXCEPT !.last = c, !.lastSent = "RTS", !.macState = "WaitingForCts"] = AsksForRts(s, c)
  BY DEF AsksForRts
<1>5. CASE packet = "BROADCAST"
  <2> DEFINE i == [s.ac[c] EXCEPT !.packet = NONE]
             j == [s.ac[c] EXCEPT !.packet = NONE, !.window = MinWindow[c]]
             w == With(s, c, i)
  <2>1. i \in AccessCategoryInfos /\ j \in AccessCategoryInfos
    <3>1. s.ac[c] \in AccessCategoryInfos  BY InfoTyped
    <3>2. MinWindow[c] \in Nat  BY Windows
    <3>3. i \in AccessCategoryInfos  BY <3>1 DEF AccessCategoryInfos
    <3>4. j \in AccessCategoryInfos  BY <3>1, <3>2 DEF AccessCategoryInfos
    <3> QED  BY <3>3, <3>4
  <2>2. w \in StationTypes /\ w.ac[c] = i  BY <2>1, WithTyped
  <2>3. moved = [w EXCEPT !.last = c, !.lastSent = "SHORT"]
    BY <1>5 DEF With, StationTypes
  <2>4. With(w, c, j) = With(s, c, j)  BY WithTwice
  <2> HIDE DEF w, moved
  <2>5. [moved EXCEPT !.ac[c].window = MinWindow[c], !.macState = "BusyMedium"]
            = [With(w, c, j) EXCEPT !.last = c, !.lastSent = "SHORT", !.macState = "BusyMedium"]
    BY <2>1, <2>2, <2>3 DEF With, StationTypes, AccessCategoryInfos
  <2>6. HandsOver(s, c, packet)
            = [With(s, c, j) EXCEPT !.last = c, !.lastSent = "SHORT", !.macState = "BusyMedium"]
    BY <1>5 DEF HandsOver
  <2> DEFINE out == TransmitFrame(HandsOver(s, c, packet), "DATA", NONE, delay)
  <2>7. t = IF ExceedsPermission(s, delay, DataTime) THEN NothingToSend(s, c) ELSE out
    BY <1>2, <1>3, <1>5, <2>4, <2>5, <2>6
  <2>8. out = TransmitFrame(HandsOver(s, c, packet), "DATA",
                            IF packet = "BROADCAST" THEN NONE ELSE packet, delay)
    BY <1>5
  <2> HIDE DEF out
  <2> QED  BY <1>5, <2>7, <2>8 DEF ExceedsPermission, PutsAside, SendsData
<1>6. CASE packet # "BROADCAST"
  <2>1. [moved EXCEPT !.macState = "WaitingForAck"] = HandsOver(s, c, packet)
    <3> DEFINE i == [s.ac[c] EXCEPT !.packet = NONE]
               l == IF packet = "LONG" THEN "LONG" ELSE "SHORT"
    <3>1. [s.ac[c] EXCEPT !.packet = NONE, !.window = IF packet = "BROADCAST" THEN MinWindow[c]
                                                      ELSE @] = i
      BY <1>6, InfoTyped DEF AccessCategoryInfos
    <3>2. HandsOver(s, c, packet)
              = [With(s, c, i) EXCEPT !.last = c, !.lastSent = l, !.macState = "WaitingForAck"]
      BY <1>6, <3>1 DEF HandsOver
    <3> HIDE DEF l
    <3>3. [moved EXCEPT !.macState = "WaitingForAck"]
              = [With(s, c, i) EXCEPT !.last = c, !.lastSent = l, !.macState = "WaitingForAck"]
      BY DEF With, StationTypes, l
    <3> QED  BY <3>2, <3>3
  <2> DEFINE put == NothingToSend(s, c)
             ask == TransmitFrame(AsksForRts(s, c), "RTS", NONE, delay)
             out == TransmitFrame(HandsOver(s, c, packet), "DATA", packet, delay)
  <2>2. t = IF ExceedsPermission(s, delay, IF withRts THEN ControlTimeChecked ELSE DataTime)
            THEN put ELSE IF withRts THEN ask ELSE out
    <3> DEFINE exceeds == ExceedsPermission(s, delay, IF withRts THEN ControlTimeChecked
                                                      ELSE DataTime)
    <3>1. CASE exceeds
      <4>1. t = [s EXCEPT !.ac[c].hasPacketToSend = FALSE]  BY <1>2, <3>1
      <4> QED  BY <1>3, <3>1, <4>1
    <3>2. CASE ~exceeds /\ withRts
      <4>1. t = TransmitFrame([s EXCEPT !.last = c, !.lastSent = "RTS",
                                        !.macState = "WaitingForCts"], "RTS", NONE, delay)
        BY <1>2, <1>6, <3>2
      <4>2. t = ask  BY <1>4, <4>1
      <4> HIDE DEF ask, put, out
      <4> QED  BY <3>2, <4>2
    <3>3. CASE ~exceeds /\ ~withRts
      <4>1. t = TransmitFrame([moved EXCEPT !.macState = "WaitingForAck"], "DATA", packet, delay)
        BY <1>2, <1>6, <3>3
      <4>2. t = out  BY <2>1, <4>1
      <4> HIDE DEF ask, put, out
      <4> QED  BY <3>3, <4>2
    <3> QED  BY <3>1, <3>2, <3>3
  <2> HIDE DEF put, ask, out
  <2>3. CASE withRts
    <3>1. t = IF ExceedsPermission(s, delay, ControlTimeChecked) THEN put ELSE ask
      BY <2>2, <2>3
    <3> QED  BY <2>3, <3>1 DEF ExceedsPermission, PutsAside, SendsRts, put, ask
  <2>4. CASE ~withRts
    <3>1. t = IF ExceedsPermission(s, delay, DataTime) THEN put ELSE out
      BY <2>2, <2>4
    <3>2. out = TransmitFrame(HandsOver(s, c, packet), "DATA",
                              IF packet = "BROADCAST" THEN NONE ELSE packet, delay)
      BY <1>6 DEF out
    <3> QED  BY <2>4, <3>1, <3>2 DEF ExceedsPermission, PutsAside, SendsData, put
  <2> QED  BY <2>3, <2>4
<1> QED  BY <1>5, <1>6

\* TransmitCurrentPacket sends only what ends in the permission.
LEMMA TransmitCurrentPacketTyped ==
    ASSUME NEW s \in StationTypes, NEW c \in Categories, s.ac[c].packet # NONE,
           NEW noRequestToSend \in BOOLEAN, NEW delay \in Nat
    PROVE  LET t == TransmitCurrentPacket(s, c, noRequestToSend, delay)
           IN  t \in StationTypes /\ Obeys(s, t)
<1> DEFINE t == TransmitCurrentPacket(s, c, noRequestToSend, delay)
           packet == s.ac[c].packet
           held == IF packet = "BROADCAST" THEN NONE ELSE packet
           a == AsksForRts(s, c)
           h == HandsOver(s, c, packet)
<1>1. packet \in DataFrames /\ held \in UnicastFrames \cup {NONE}
  BY DEF StationTypes, AccessCategoryInfos, DataFrames
<1>2. a \in StationTypes /\ SameAccess(s, a) /\ h \in StationTypes /\ SameAccess(s, h)
  BY <1>1, SendingTyped
<1> SUFFICES t \in StationTypes /\ Obeys(s, t)  OBVIOUS
<1>6. PutsAside(s, c, t) \/ SendsRts(s, c, noRequestToSend, delay, t)
      \/ SendsData(s, c, noRequestToSend, delay, t)
  BY TransmitCurrentPacketCases
<1> HIDE DEF t
<1>3. CASE PutsAside(s, c, t)
  BY <1>1, <1>3, SendingTyped, SameAccessObeys DEF PutsAside
<1>4. CASE SendsRts(s, c, noRequestToSend, delay, t)
  <2>1. t = TransmitFrame(a, "RTS", NONE, delay)  BY <1>4 DEF SendsRts
  <2>2. ~ExceedsPermission(a, delay, IF "RTS" = "DATA" THEN DataTime ELSE ControlTimeChecked)
    BY <1>2, <1>4 DEF SendsRts, SameAccess, ExceedsPermission
  <2> HIDE DEF a
  <2>3. t \in StationTypes /\ Obeys(a, t)
    <3>1. TransmitFrame(a, "RTS", NONE, delay) \in StationTypes
          /\ Obeys(a, TransmitFrame(a, "RTS", NONE, delay))
      BY <1>2, <2>2, TransmitFrameTyped
    <3> QED  BY <2>1, <3>1
  <2> QED  BY <1>2, <2>3, SameAccessObeys, ObeysTransitive
<1>5. CASE SendsData(s, c, noRequestToSend, delay, t)
  <2>1. t = TransmitFrame(h, "DATA", held, delay)  BY <1>5 DEF SendsData
  <2>2. ~ExceedsPermission(h, delay, IF "DATA" = "DATA" THEN DataTime ELSE ControlTimeChecked)
    BY <1>2, <1>5 DEF SendsData, SameAccess, ExceedsPermission
  <2>3. "DATA" \in {"DATA", "RTS", "CONTROL"}  OBVIOUS
  <2> HIDE DEF h, held
  <2>4. t \in StationTypes /\ Obeys(h, t)
    <3>1. TransmitFrame(h, "DATA", held, delay) \in StationTypes
          /\ Obeys(h, TransmitFrame(h, "DATA", held, delay))
      BY <1>1, <1>2, <2>2, <2>3, TransmitFrameTyped
    <3> QED  BY <2>1, <3>1
  <2> QED  BY <1>2, <2>4, SameAccessObeys, ObeysTransitive
<1> QED  BY <1>3, <1>4, <1>5, <1>6

\* A category that has taken a packet from its queue.
Retrieved(s, c, r) ==
    [s.ac[c] EXCEPT !.queued = @ - r.taken, !.packet = r.packet, !.shortRetries = 0,
                    !.longRetries = 0]

\* RetrievePacket sends nothing.
LEMMA RetrievePacketTyped ==
    ASSUME NEW s \in StationTypes, NEW c \in Categories, NEW r \in RetrievalTypes,
           r.taken <= s.ac[c].queued
    PROVE  /\ RetrievePacket(s, c, r) = With(s, c, Retrieved(s, c, r))
           /\ Retrieved(s, c, r) \in AccessCategoryInfos
           /\ RetrievePacket(s, c, r) \in StationTypes /\ SameAccess(s, RetrievePacket(s, c, r))
<1>1. s.ac[c].queued - r.taken \in Nat /\ r.packet \in DataFrames \cup {NONE}
  BY DEF StationTypes, AccessCategoryInfos, RetrievalTypes
<1>2. Retrieved(s, c, r) \in AccessCategoryInfos
  BY <1>1, InfoTyped DEF AccessCategoryInfos, Retrieved
<1>3. RetrievePacket(s, c, r) = With(s, c, Retrieved(s, c, r))
  <2> DEFINE old == s.ac[c]
             new == [s.ac EXCEPT ![c].queued = @ - r.taken, ![c].packet = r.packet,
                                 ![c].shortRetries = 0, ![c].longRetries = 0]
  <2>1. s.ac \in [Categories -> AccessCategoryInfos]  BY DEF StationTypes
  <2>2. new = [s.ac EXCEPT ![c] = Retrieved(s, c, r)]
    BY <2>1 DEF Retrieved
  <2>3. RetrievePacket(s, c, r) = [s EXCEPT !.ac = new]
    BY DEF RetrievePacket, StationTypes
  <2> QED  BY <2>2, <2>3 DEF With
<1> QED  BY <1>2, <1>3, WithTyped

\* TransmitAFrame sends only what ends in the permission.
LEMMA TransmitAFrameTyped ==
    ASSUME NEW s \in StationTypes, NEW c \in Categories, NEW noRequestToSend \in BOOLEAN,
           NEW delay \in Nat, NEW r \in RetrievalTypes, r.taken <= s.ac[c].queued
    PROVE  LET t == TransmitAFrame(s, c, noRequestToSend, delay, r)
               taken == RetrievePacket(s, c, r)
           IN  /\ t \in StationTypes /\ Obeys(s, t)
               /\ t = IF s.ac[c].packet # NONE
                      THEN TransmitCurrentPacket(s, c, noRequestToSend, delay)
                      ELSE IF r.packet = NONE THEN NothingToSend(taken, c)
                      ELSE TransmitCurrentPacket(taken, c, noRequestToSend, delay)
<1> DEFINE t == TransmitAFrame(s, c, noRequestToSend, delay, r)
           taken == RetrievePacket(s, c, r)
<1>1. taken \in StationTypes /\ SameAccess(s, taken) /\ taken.ac[c] = Retrieved(s, c, r)
  BY RetrievePacketTyped, WithTyped
<1>2. taken.ac[c].packet = r.packet  BY <1>1, InfoTyped DEF Retrieved, AccessCategoryInfos
<1>3. [taken EXCEPT !.ac[c].hasPacketToSend = FALSE] = NothingToSend(taken, c)
  BY <1>1 DEF NothingToSend, With, StationTypes
<1>4. t = IF s.ac[c].packet # NONE THEN TransmitCurrentPacket(s, c, noRequestToSend, delay)
          ELSE IF r.packet = NONE THEN NothingToSend(taken, c)
          ELSE TransmitCurrentPacket(taken, c, noRequestToSend, delay)
  BY <1>3 DEF TransmitAFrame
<1> SUFFICES t \in StationTypes /\ Obeys(s, t)  BY <1>4
<1> HIDE DEF taken, t
<1>5. CASE s.ac[c].packet # NONE  BY <1>4, <1>5, TransmitCurrentPacketTyped
<1>6. CASE s.ac[c].packet = NONE /\ r.packet = NONE
  <2>1. "SHORT" \in DataFrames  BY DEF DataFrames, UnicastFrames
  <2> QED  BY <1>1, <1>4, <1>6, <2>1, SendingTyped, SameAccessObeys, SameAccessTransitive
<1>7. CASE s.ac[c].packet = NONE /\ r.packet # NONE
  <2>1. t \in StationTypes /\ Obeys(taken, t)
    BY <1>1, <1>2, <1>4, <1>7, TransmitCurrentPacketTyped
  <2> QED  BY <1>1, <2>1, SameAccessObeys, ObeysTransitive
<1> QED  BY <1>5, <1>6, <1>7

\* A handler that is about one category leaves the others as they are.
Elsewhere(s, t, c) == \A k \in Categories : k # c => t.ac[k] = s.ac[k]

\* Two handlers for one category leave the same others alone.
LEMMA ElsewhereTransitive ==
    ASSUME NEW s, NEW t, NEW u, NEW c, Elsewhere(s, t, c), Elsewhere(t, u, c)
    PROVE  Elsewhere(s, u, c)
  BY DEF Elsewhere

\* Doing nothing leaves every other category alone.
LEMMA ElsewhereSame ==
    ASSUME NEW s, NEW t, NEW c, t.ac = s.ac
    PROVE  Elsewhere(s, t, c)
  BY DEF Elsewhere

\* A change of one category leaves the others alone.
LEMMA WithElsewhere ==
    ASSUME NEW s \in StationTypes, NEW c \in Categories, NEW i
    PROVE  Elsewhere(s, With(s, c, i), c)
  BY DEF Elsewhere, With, StationTypes

\* StartBackoffForCategory leaves the other categories alone.
LEMMA StartBackoffElsewhere ==
    ASSUME NEW s \in StationTypes, NEW c \in Categories
    PROVE  Elsewhere(s, StartBackoffForCategory(s, c), c)
<1> DEFINE started == With(s, c, [s.ac[c] EXCEPT !.elapsed = 0])
           time == CurrentBackoffExpiration(started)
           waits == [started EXCEPT !.macState = "WaitingForIfsAndBackoff"]
<1>1. StartBackoffForCategory(s, c) =
          IF s.permission = 0 THEN [s EXCEPT !.macState = "Idle"]
          ELSE IF time = s.stale THEN waits ELSE Counting(started, time)
  BY DEF StartBackoffForCategory, With, Counting
<1>2. Elsewhere(s, started, c)  BY WithElsewhere
<1>3. started \in StationTypes
  <2>1. [s.ac[c] EXCEPT !.elapsed = 0] \in AccessCategoryInfos
    BY InfoTyped DEF AccessCategoryInfos
  <2> QED  BY <2>1, WithTyped
<1> HIDE DEF started, time
<1>4. Counting(started, time).ac = started.ac /\ waits.ac = started.ac
  BY <1>3 DEF Counting, StationTypes
<1> HIDE DEF waits
<1>5. [s EXCEPT !.macState = "Idle"].ac = s.ac  BY DEF StationTypes
<1> QED  BY <1>1, <1>2, <1>4, <1>5, ElsewhereTransitive, ElsewhereSame

\* So does StartPacketSendProcessForAnAccessCategory.
LEMMA StartPacketSendProcessElsewhere ==
    ASSUME NEW s \in StationTypes, NEW c \in Categories, NEW force \in BOOLEAN, NEW d \in DrawTypes
    PROVE  Elsewhere(s, StartPacketSendProcess(s, c, force, d), c)
<1>1. PICK n \in 0 .. s.ac[c].window :
          StartPacketSendProcess(s, c, force, d) =
              IF ~force /\ ~HasPacket(s, c) THEN NoBackoff(s, c)
              ELSE Expect(IF s.macState \notin {"Idle", "WaitingForIfsAndBackoff"}
                          THEN With(s, c, WaitingSlots(Asked(s, c), c, n))
                          ELSE StartBackoffForCategory(
                                   IF DisabledToJump
                                   THEN With(s, c, WaitingSlots(Asked(s, c), c, n))
                                   ELSE Expect(With(s, c, Jumping(s, c)), ~force), c),
                          StartCondition(s, c))
  BY StartPacketSendProcessCases
<1>2. s.ac[c].window \in Nat  BY DEF StationTypes, AccessCategoryInfos
<1> DEFINE waiting == With(s, c, WaitingSlots(Asked(s, c), c, n))
           jump == With(s, c, Jumping(s, c))
           jumping == Expect(jump, ~force)
           x == IF DisabledToJump THEN waiting ELSE jumping
           y == IF s.macState \notin {"Idle", "WaitingForIfsAndBackoff"} THEN waiting
                ELSE StartBackoffForCategory(x, c)
           e == Expect(y, StartCondition(s, c))
<1>3. waiting \in StationTypes /\ Elsewhere(s, waiting, c)
  <2>1. n \in Nat  BY <1>2
  <2>2. WaitingSlots(Asked(s, c), c, n) \in AccessCategoryInfos
    BY <2>1, AskedTyped, WaitingSlotsTyped
  <2> QED  BY <2>2, WithTyped, WithElsewhere
<1>4. jump \in StationTypes /\ Elsewhere(s, jump, c)  BY AskedTyped, WithTyped, WithElsewhere
<1>5. jumping \in StationTypes /\ Elsewhere(s, jumping, c)
  <2> HIDE DEF jump
  <2>1. jumping \in StationTypes /\ jumping.ac = jump.ac  BY <1>4, ExpectTyped
  <2> QED  BY <1>4, <2>1 DEF Elsewhere
<1>6. x \in StationTypes /\ Elsewhere(s, x, c)
  <2> HIDE DEF waiting, jumping
  <2> QED  BY <1>3, <1>5
<1>7. y \in StationTypes /\ Elsewhere(s, y, c)
  <2> HIDE DEF x, waiting
  <2>1. StartBackoffForCategory(x, c) \in StationTypes
        /\ Elsewhere(x, StartBackoffForCategory(x, c), c)
    BY <1>6, StartBackoffForCategoryTyped, StartBackoffElsewhere
  <2> QED  BY <1>3, <1>6, <2>1, ElsewhereTransitive
<1>8. StartPacketSendProcess(s, c, force, d) =
          IF ~force /\ ~HasPacket(s, c) THEN NoBackoff(s, c) ELSE e
  BY <1>1
<1>9. Elsewhere(s, e, c)
  <2> HIDE DEF y
  <2>1. e.ac = y.ac  BY <1>7, ExpectTyped
  <2> QED  BY <1>7, <2>1 DEF Elsewhere
<1>10. Elsewhere(s, NoBackoff(s, c), c)  BY WithElsewhere DEF NoBackoff
<1> HIDE DEF e
<1> QED  BY <1>8, <1>9, <1>10

\* TransmitFrame leaves all categories alone.
LEMMA TransmitFrameCategories ==
    ASSUME NEW s \in StationTypes, NEW frame, NEW packet, NEW delay
    PROVE  TransmitFrame(s, frame, packet, delay).ac = s.ac
<1> DEFINE e == Expect(s, s.phyState \in {"Scanning", "Receiving"})
<1>1. e \in StationTypes /\ e.ac = s.ac  BY ExpectTyped
<1> DEFINE heard == IF s.loud THEN e.others + 1 ELSE e.others
<1>2. TransmitFrame(s, frame, packet, delay)
          = [e EXCEPT !.phyState = "TxStarting", !.outgoing = frame, !.txLeft = delay,
                      !.sent = packet, !.receiving = NONE, !.loud = FALSE, !.others = heard]
  BY DEF TransmitFrame
<1> HIDE DEF e, heard
<1> QED  BY <1>1, <1>2 DEF StationTypes

\* TransmitCurrentPacket leaves the other categories alone.
LEMMA TransmitCurrentPacketElsewhere ==
    ASSUME NEW s \in StationTypes, NEW c \in Categories, s.ac[c].packet # NONE,
           NEW noRequestToSend \in BOOLEAN, NEW delay \in Nat
    PROVE  Elsewhere(s, TransmitCurrentPacket(s, c, noRequestToSend, delay), c)
<1> DEFINE t == TransmitCurrentPacket(s, c, noRequestToSend, delay)
           packet == s.ac[c].packet
           held == IF packet = "BROADCAST" THEN NONE ELSE packet
           a == AsksForRts(s, c)
           h == HandsOver(s, c, packet)
           i == [s.ac[c] EXCEPT !.packet = NONE,
                                !.window = IF packet = "BROADCAST" THEN MinWindow[c] ELSE @]
           w == With(s, c, i)
<1>1. packet \in DataFrames /\ held \in UnicastFrames \cup {NONE}
  BY DEF StationTypes, AccessCategoryInfos, DataFrames
<1>2. a \in StationTypes /\ h \in StationTypes  BY <1>1, SendingTyped
<1>3. a.ac = s.ac  BY DEF AsksForRts, StationTypes
<1>4. Elsewhere(s, h, c)
  <2>1. Elsewhere(s, w, c)  BY WithElsewhere
  <2>2. h.ac = w.ac
    <3>1. h = [w EXCEPT !.last = c, !.lastSent = IF packet = "LONG" THEN "LONG" ELSE "SHORT",
                        !.macState = IF packet = "BROADCAST" THEN "BusyMedium"
                                     ELSE "WaitingForAck"]
      BY DEF HandsOver
    <3> HIDE DEF w
    <3> QED  BY <3>1
  <2> QED  BY <2>1, <2>2 DEF Elsewhere
<1>5. PutsAside(s, c, t) \/ SendsRts(s, c, noRequestToSend, delay, t)
      \/ SendsData(s, c, noRequestToSend, delay, t)
  BY TransmitCurrentPacketCases
<1> SUFFICES Elsewhere(s, t, c)  OBVIOUS
<1> HIDE DEF t
<1>6. CASE PutsAside(s, c, t)  BY <1>6, WithElsewhere DEF PutsAside, NothingToSend
<1>7. CASE SendsRts(s, c, noRequestToSend, delay, t)
  <2>1. t = TransmitFrame(a, "RTS", NONE, delay)  BY <1>7 DEF SendsRts
  <2> HIDE DEF a
  <2>2. t.ac = a.ac  BY <1>2, <2>1, TransmitFrameCategories
  <2> QED  BY <1>3, <2>2, ElsewhereSame DEF a
<1>8. CASE SendsData(s, c, noRequestToSend, delay, t)
  <2>1. t = TransmitFrame(h, "DATA", held, delay)  BY <1>8 DEF SendsData
  <2> HIDE DEF h, held
  <2>2. t.ac = h.ac  BY <1>2, <2>1, TransmitFrameCategories
  <2> QED  BY <1>4, <2>2 DEF Elsewhere
<1> QED  BY <1>5, <1>6, <1>7, <1>8

\* So does TransmitAFrame.
LEMMA TransmitAFrameElsewhere ==
    ASSUME NEW s \in StationTypes, NEW c \in Categories, NEW noRequestToSend \in BOOLEAN,
           NEW delay \in Nat, NEW r \in RetrievalTypes, r.taken <= s.ac[c].queued
    PROVE  Elsewhere(s, TransmitAFrame(s, c, noRequestToSend, delay, r), c)
<1> DEFINE t == TransmitAFrame(s, c, noRequestToSend, delay, r)
           taken == RetrievePacket(s, c, r)
           u == TransmitCurrentPacket(taken, c, noRequestToSend, delay)
<1>1. taken \in StationTypes /\ taken.ac[c] = Retrieved(s, c, r) /\ Elsewhere(s, taken, c)
  BY RetrievePacketTyped, WithTyped, WithElsewhere
<1>2. taken.ac[c].packet = r.packet  BY <1>1, InfoTyped DEF Retrieved, AccessCategoryInfos
<1>3. t = IF s.ac[c].packet # NONE THEN TransmitCurrentPacket(s, c, noRequestToSend, delay)
          ELSE IF r.packet = NONE THEN NothingToSend(taken, c) ELSE u
  BY TransmitAFrameTyped
<1> HIDE DEF taken, t
<1>4. Elsewhere(taken, NothingToSend(taken, c), c)  BY <1>1, WithElsewhere DEF NothingToSend
<1>5. r.packet # NONE => Elsewhere(taken, u, c)
  BY <1>1, <1>2, TransmitCurrentPacketElsewhere
<1> HIDE DEF u
<1>6. Elsewhere(s, t, c)
  BY <1>1, <1>3, <1>4, <1>5, TransmitCurrentPacketElsewhere, ElsewhereTransitive
<1> QED  BY <1>6 DEF t

\* A station that has nothing to send in category c, or sends what it has.
LEMMA TryToSendTyped ==
    ASSUME NEW s \in StationTypes, NEW c \in Categories, NEW r \in RetrievalTypes,
           r.taken <= s.ac[c].queued
    PROVE  LET ready == NoBackoff(s, c)
               sent == TransmitAFrame(ready, c, FALSE, RxTxTurnaroundTime, r)
               t == TryToSend(s, c, r)
           IN  /\ t \in StationTypes /\ Obeys(s, t) /\ Elsewhere(s, t, c)
               /\ ready \in StationTypes /\ ready.ac[c].queued = s.ac[c].queued
               /\ t = IF ~HasPacket(s, c) THEN ready
                      ELSE IF sent.phyState = "TxStarting"
                           THEN [sent EXCEPT !.gap = s.quiet + RxTxTurnaroundTime]
                           ELSE sent
<1> DEFINE ready == NoBackoff(s, c)
           sent == TransmitAFrame(ready, c, FALSE, RxTxTurnaroundTime, r)
           t == TryToSend(s, c, r)
           raw == [s EXCEPT !.ac[c].duration = INFINITE, !.ac[c].jumping = FALSE,
                            !.ac[c].hasPacketToSend = HasPacket(s, c)]
           tried == TransmitAFrame(raw, c, FALSE, RxTxTurnaroundTime, r)
<1>1. raw = ready
  <2> DEFINE has == HasPacket(s, c)
             ac == [s.ac EXCEPT ![c].duration = INFINITE, ![c].jumping = FALSE,
                                ![c].hasPacketToSend = has]
             i == [Asked(s, c) EXCEPT !.duration = INFINITE]
  <2>1. i = [s.ac[c] EXCEPT !.duration = INFINITE, !.jumping = FALSE, !.hasPacketToSend = has]
    BY InfoTyped DEF Asked, AccessCategoryInfos
  <2>2. ac = [s.ac EXCEPT ![c] = i]
    <3> HIDE DEF i, has
    <3>1. s.ac \in [Categories -> AccessCategoryInfos]  BY DEF StationTypes
    <3> QED  BY <2>1, <3>1
  <2>3. [s EXCEPT !.ac[c].duration = INFINITE, !.ac[c].jumping = FALSE,
                  !.ac[c].hasPacketToSend = has] = [s EXCEPT !.ac = ac]
    <3> HIDE DEF has
    <3> QED  BY DEF StationTypes
  <2> QED  BY <2>2, <2>3 DEF NoBackoff, With
<1>2. ready \in StationTypes /\ SameAccess(s, ready) /\ Elsewhere(s, ready, c)
      /\ ready.ac[c] = [Asked(s, c) EXCEPT !.duration = INFINITE]
  BY NoBackoffTyped, WithTyped, WithElsewhere DEF NoBackoff
<1>3. ready.ac[c].queued = s.ac[c].queued
  BY <1>2, InfoTyped DEF Asked, AccessCategoryInfos
<1>4. t = IF ~HasPacket(s, c) THEN ready
          ELSE IF sent.phyState = "TxStarting"
               THEN [sent EXCEPT !.gap = s.quiet + RxTxTurnaroundTime]
               ELSE sent
  <2>1. t = IF ~HasPacket(s, c) THEN raw
            ELSE IF tried.phyState = "TxStarting"
                 THEN [tried EXCEPT !.gap = s.quiet + RxTxTurnaroundTime]
                 ELSE tried
    BY DEF TryToSend
  <2> HIDE DEF raw, t, ready
  <2>2. tried = sent  BY <1>1
  <2> HIDE DEF tried, sent
  <2> QED  BY <1>1, <2>1, <2>2
<1> HIDE DEF ready
<1>5. sent \in StationTypes /\ Obeys(ready, sent) /\ Elsewhere(ready, sent, c)
  BY <1>2, <1>3, Timings, TransmitAFrameTyped, TransmitAFrameElsewhere
<1> DEFINE u == [sent EXCEPT !.gap = s.quiet + RxTxTurnaroundTime]
<1> HIDE DEF sent
<1>6. u \in StationTypes /\ SameAccess(sent, u) /\ Elsewhere(sent, u, c)
  <2>1. s.quiet + RxTxTurnaroundTime \in Nat  BY Timings DEF StationTypes
  <2> QED  BY <1>5, <2>1 DEF StationTypes, SameAccess, Elsewhere
<1> HIDE DEF u
<1>7. Obeys(s, ready) /\ Obeys(s, sent) /\ Obeys(s, u)
  BY <1>2, <1>5, <1>6, SameAccessObeys, ObeysTransitive
<1>8. Elsewhere(s, sent, c) /\ Elsewhere(s, u, c)
  BY <1>2, <1>5, <1>6, ElsewhereTransitive
<1>9. t \in StationTypes /\ Obeys(s, t) /\ Elsewhere(s, t, c)
  BY <1>2, <1>4, <1>5, <1>6, <1>7, <1>8 DEF u
<1> HIDE DEF t
<1> QED  BY <1>2, <1>3, <1>4, <1>9 DEF t, sent, ready

\* Charging slots to a category leaves the others alone.
LEMMA UsedSlotsElsewhere ==
    ASSUME NEW s \in StationTypes, NEW c \in Categories
    PROVE  /\ Elsewhere(s, SubtractUsedSlots(s, c), c)
           /\ \E n \in 0 .. s.ac[c].slots :
                  SubtractUsedSlots(s, c).ac[c] = [s.ac[c] EXCEPT !.slots = n]
<1> DEFINE e == Expect(s, NumberBackoffSlotsUsed(s, c) <= s.ac[c].slots)
<1>1. PICK n \in 0 .. s.ac[c].slots :
          /\ SubtractUsedSlots(s, c) = With(e, c, [s.ac[c] EXCEPT !.slots = n])
          /\ [s.ac[c] EXCEPT !.slots = n] \in AccessCategoryInfos
  BY UsedSlotsTyped
<1>2. e \in StationTypes /\ e.ac = s.ac  BY ExpectTyped
<1> HIDE DEF e
<1>3. Elsewhere(e, SubtractUsedSlots(s, c), c)
      /\ SubtractUsedSlots(s, c).ac[c] = [s.ac[c] EXCEPT !.slots = n]
  BY <1>1, <1>2, WithTyped, WithElsewhere
<1> QED  BY <1>2, <1>3 DEF Elsewhere

\* A category that gives way to another draws a new backoff.
LEMMA GiveWayTyped ==
    ASSUME NEW s \in StationTypes, NEW c \in Categories, NEW d \in DrawTypes
    PROVE  /\ GiveWay(s, c, d) \in StationTypes /\ SameAccess(s, GiveWay(s, c, d))
           /\ Elsewhere(s, GiveWay(s, c, d), c)
           /\ GiveWay(s, c, d) =
                  IF s.ac[c].jumping THEN StartPacketSendProcess(CalledOff(s, c), c, TRUE, d)
                  ELSE IF s.ac[c].slots = 0
                       THEN DoubleTheContentionWindowAndPickANewBackoff(s, c, d)
                       ELSE With(s, c, WaitingSlots(s.ac[c], c, s.ac[c].slots))
<1> DEFINE off == CalledOff(s, c)
           a == StartPacketSendProcess(off, c, TRUE, d)
           b == DoubleTheContentionWindowAndPickANewBackoff(s, c, d)
           i == WaitingSlots(s.ac[c], c, s.ac[c].slots)
           w == With(s, c, i)
<1>1. s.ac[c] \in AccessCategoryInfos /\ s.ac[c].slots \in Nat
      /\ s.ac[c].jumping \in BOOLEAN
  BY DEF StationTypes, AccessCategoryInfos
<1>2. w = [s EXCEPT !.ac[c].duration = NonExtendedBackoffDuration(c, s.ac[c].slots)]
  <2>1. i = [s.ac[c] EXCEPT !.duration = NonExtendedBackoffDuration(c, s.ac[c].slots)]
    BY <1>1 DEF WaitingSlots, AccessCategoryInfos
  <2> HIDE DEF i
  <2> QED  BY <2>1 DEF With, StationTypes
<1>3. GiveWay(s, c, d) = IF s.ac[c].jumping THEN a ELSE IF s.ac[c].slots = 0 THEN b ELSE w
  BY <1>1, <1>2, CalledOffTyped DEF GiveWay
<1>4. off \in StationTypes /\ SameAccess(s, off) /\ Elsewhere(s, off, c)
  BY CalledOffTyped, WithElsewhere DEF CalledOff
<1>5. a \in StationTypes /\ SameAccess(s, a) /\ Elsewhere(s, a, c)
  <2> HIDE DEF off
  <2>1. a \in StationTypes /\ SameAccess(off, a)
    BY <1>4, StartPacketSendProcessTyped
  <2>2. Elsewhere(off, a, c)  BY <1>4, StartPacketSendProcessElsewhere
  <2> QED  BY <1>4, <2>1, <2>2, SameAccessTransitive, ElsewhereTransitive
<1>6. b \in StationTypes /\ SameAccess(s, b) /\ Elsewhere(s, b, c)
  BY DoubleTyped, WithElsewhere
<1>7. w \in StationTypes /\ SameAccess(s, w) /\ Elsewhere(s, w, c)
  BY <1>1, WaitingSlotsTyped, WithTyped, WithElsewhere
<1> HIDE DEF a, b, w
<1>8. GiveWay(s, c, d) \in {a, b, w}  BY <1>3
<1> QED  BY <1>3, <1>5, <1>6, <1>7, <1>8 DEF a, b, w, i

\* One category tries: it sends, gives way or stays.
LEMMA TryRoundTyped ==
    ASSUME NEW s \in StationTypes, NEW c \in Categories, NEW d \in DrawTypes, NEW r,
           r[c] \in RetrievalTypes, r[c].taken <= s.ac[c].queued
    PROVE  /\ TryRound(s, c, d, r) \in StationTypes
           /\ Obeys(s, TryRound(s, c, d, r)) /\ Elsewhere(s, TryRound(s, c, d, r), c)
<1> DEFINE used == SubtractUsedSlots(s, c)
           sent == TryToSend(used, c, r[c])
           away == GiveWay(used, c, d)
<1>1. used \in StationTypes /\ SameAccess(s, used) /\ Elsewhere(s, used, c)
  BY UsedSlotsTyped, UsedSlotsElsewhere
<1>2. used.ac[c].queued = s.ac[c].queued
  BY UsedSlotsElsewhere, InfoTyped DEF AccessCategoryInfos
<1>3. TryRound(s, c, d, r) \in {s, sent, away}  BY DEF TryRound
<1> HIDE DEF used
<1>4. sent \in StationTypes /\ Obeys(used, sent) /\ Elsewhere(used, sent, c)
  BY <1>1, <1>2, TryToSendTyped
<1>5. away \in StationTypes /\ SameAccess(used, away) /\ Elsewhere(used, away, c)
  BY <1>1, GiveWayTyped
<1> HIDE DEF sent, away
<1>6. sent \in StationTypes /\ Obeys(s, sent) /\ Elsewhere(s, sent, c)
  BY <1>1, <1>4, SameAccessObeys, ObeysTransitive, ElsewhereTransitive
<1>7. away \in StationTypes /\ Obeys(s, away) /\ Elsewhere(s, away, c)
  BY <1>1, <1>5, SameAccessTransitive, SameAccessObeys, ElsewhereTransitive
<1>8. Obeys(s, s) /\ Elsewhere(s, s, c)
  BY SameAccessSelf, SameAccessObeys, ElsewhereSame
<1> QED  BY <1>3, <1>6, <1>7, <1>8

\* The end of a backoff: what the categories send, they send in the permission.
LEMMA IfsAndBackoffTimeoutTyped ==
    ASSUME NEW s \in StationTypes, NEW d \in DrawTypes, NEW r,
           \A c \in Categories : r[c] \in RetrievalTypes /\ r[c].taken <= s.ac[c].queued
    PROVE  /\ IfsAndBackoffTimeout(s, d, r) \in StationTypes
           /\ Obeys(s, IfsAndBackoffTimeout(s, d, r))
<1> DEFINE last == NumberAccessCategories
           Good == {p \in Int \X StationTypes :
                        /\ Obeys(s, p[2])
                        /\ \A k \in Categories : k < last - p[1] =>
                               p[2].ac[k].queued = s.ac[k].queued}
<1>1. last \in Nat  BY Timings
<1>2. <<0, s>> \in Good
  BY SameAccessSelf, SameAccessObeys
<1>3. ASSUME NEW n \in 1 .. last, NEW x, <<n - 1, x>> \in Good
      PROVE  <<n, OneRound("TRY", x, last - n, d, r)>> \in Good
  <2> DEFINE c == last - n
             u == TryRound(x, c, d, r)
  <2>1. x \in StationTypes /\ Obeys(s, x)
        /\ \A k \in Categories : k < last - (n - 1) => x.ac[k].queued = s.ac[k].queued
    BY <1>3
  <2>2. c \in Categories /\ c < last - (n - 1)  BY <1>1 DEF Categories
  <2>3. r[c] \in RetrievalTypes /\ r[c].taken <= x.ac[c].queued  BY <2>1, <2>2
  <2>4. u \in StationTypes /\ Obeys(x, u) /\ Elsewhere(x, u, c)
    BY <2>1, <2>2, <2>3, TryRoundTyped
  <2>5. OneRound("TRY", x, c, d, r) = u  BY DEF OneRound
  <2> HIDE DEF u
  <2>6. Obeys(s, u)  BY <2>1, <2>4, ObeysTransitive
  <2>7. \A k \in Categories : k < last - n => u.ac[k].queued = s.ac[k].queued
    BY <1>1, <2>1, <2>4 DEF Elsewhere, Categories
  <2>8. <<n, u>> \in Good  BY <2>4, <2>6, <2>7
  <2> QED  BY <2>5, <2>8
<1> HIDE DEF Good
<1>4. PICK t : /\ RunsTo("TRY", s, d, r, t)
               /\ IfsAndBackoffTimeout(s, d, r) =
                      IF t.phyState = "TxStarting" THEN [t EXCEPT !.ac = NoStartTimes(t)]
                      ELSE StartBackoffIfNecessary([t EXCEPT !.macState = "Transient"])
  BY TryLoop
<1>5. <<NumberAccessCategories, t>> \in Good
  <2> HIDE DEF last
  <2> QED  BY <1>2, <1>3, <1>4, LoopInvariant DEF last
<1>6. t \in StationTypes /\ Obeys(s, t)  BY <1>5 DEF Good
<1> DEFINE off == [t EXCEPT !.ac = NoStartTimes(t)]
           over == [t EXCEPT !.macState = "Transient"]
           on == StartBackoffIfNecessary(over)
<1>7. off \in StationTypes /\ SameAccess(t, off)
  BY <1>6, NoStartTimesTyped DEF StationTypes, SameAccess
<1>8. over \in StationTypes /\ SameAccess(t, over)
  BY <1>6, IdleTyped, SameAccessSelf DEF MacStates
<1>9. IfsAndBackoffTimeout(s, d, r) \in {off, on}  BY <1>4
<1> HIDE DEF off, over
<1>10. on \in StationTypes /\ SameAccess(t, on)
  BY <1>8, StartBackoffIfNecessaryTyped, SameAccessTransitive
<1> HIDE DEF on
<1>11. Obeys(s, off) /\ Obeys(s, on)  BY <1>6, <1>7, <1>10, SameAccessObeys, ObeysTransitive
<1> QED  BY <1>7, <1>9, <1>10, <1>11

-----------------------------------------------------------------------------
(* The end of a frame exchange. *)

\* A category without the packet it had in hand.
Dropped(s, c) ==
    [s.ac[c] EXCEPT !.packet = NONE, !.hasPacketToSend = s.ac[c].queued > 0,
                    !.shortRetries = 0, !.longRetries = 0, !.window = MinWindow[c]]

\* A packet that is dropped leaves a well-typed category.
LEMMA DropTyped ==
    ASSUME NEW s \in StationTypes, NEW c \in Categories, NEW d \in DrawTypes
    PROVE  /\ DropCurrentPacketAndGoToNextPacket(s, c, d) \in StationTypes
           /\ SameAccess(s, DropCurrentPacketAndGoToNextPacket(s, c, d))
           /\ Dropped(s, c) \in AccessCategoryInfos
           /\ \E n \in 0 .. MinWindow[c] :
                  DropCurrentPacketAndGoToNextPacket(s, c, d)
                      = With(s, c, WaitingSlots(Dropped(s, c), c, n))
<1> DEFINE more == s.ac[c].queued > 0
           ac == [s.ac EXCEPT ![c].packet = NONE, ![c].hasPacketToSend = more,
                              ![c].shortRetries = 0, ![c].longRetries = 0,
                              ![c].window = MinWindow[c]]
           i == Dropped(s, c)
           w == With(s, c, i)
           raw == [s EXCEPT !.ac[c].packet = NONE, !.ac[c].hasPacketToSend = more,
                            !.ac[c].shortRetries = 0, !.ac[c].longRetries = 0,
                            !.ac[c].window = MinWindow[c]]
<1>1. s.ac \in [Categories -> AccessCategoryInfos]  BY DEF StationTypes
<1>2. i = [s.ac[c] EXCEPT !.packet = NONE, !.hasPacketToSend = more,
                          !.shortRetries = 0, !.longRetries = 0, !.window = MinWindow[c]]
  BY DEF Dropped
<1>3. more \in BOOLEAN  OBVIOUS
<1> HIDE DEF more, i
<1>4. i \in AccessCategoryInfos /\ i.window = MinWindow[c]
  BY <1>1, <1>2, <1>3, Windows DEF AccessCategoryInfos
<1>5. ac = [s.ac EXCEPT ![c] = i]  BY <1>1, <1>2
<1>6. raw = [s EXCEPT !.ac = ac]  BY DEF StationTypes
<1>7. raw = w  BY <1>5, <1>6 DEF With
<1>8. w \in StationTypes /\ SameAccess(s, w) /\ w.ac[c] = i  BY <1>4, WithTyped
<1>9. DropCurrentPacketAndGoToNextPacket(s, c, d) = RecalcRandomBackoff(raw, c, d)
  BY DEF DropCurrentPacketAndGoToNextPacket, more
<1> HIDE DEF raw
<1>10. \A j : With(w, c, j) = With(s, c, j)  BY WithTwice
<1> HIDE DEF w
<1>11. DropCurrentPacketAndGoToNextPacket(s, c, d) = RecalcRandomBackoff(w, c, d)
  BY <1>7, <1>9
<1>12. PICK n \in 0 .. w.ac[c].window :
           RecalcRandomBackoff(w, c, d) = With(w, c, WaitingSlots(w.ac[c], c, n))
  BY <1>8, RecalcTyped
<1>13. RecalcRandomBackoff(w, c, d) \in StationTypes
       /\ SameAccess(s, RecalcRandomBackoff(w, c, d))
  BY <1>8, RecalcTyped, SameAccessTransitive
<1>14. n \in 0 .. MinWindow[c]
       /\ RecalcRandomBackoff(w, c, d) = With(s, c, WaitingSlots(i, c, n))
  BY <1>4, <1>8, <1>10, <1>12
<1> QED  BY <1>4, <1>11, <1>13, <1>14 DEF i

\* The packet of a frame that got no reply is in hand again, and its retries are counted.
TakenBack(s, t) ==
    IF s.lastSent = "RTS" THEN t
    ELSE [With(t, s.last, [t.ac[s.last] EXCEPT !.packet = s.sent]) EXCEPT !.sent = NONE]

Counted(s, t) ==
    With(t, s.last, IF s.lastSent = "LONG"
                    THEN [t.ac[s.last] EXCEPT !.longRetries = @ + 1]
                    ELSE [t.ac[s.last] EXCEPT !.shortRetries = @ + 1])

Retries(s, t) ==
    IF s.lastSent = "LONG" THEN t.ac[s.last].longRetries ELSE t.ac[s.last].shortRetries

\* The PHY gives a frame back.
LEMMA TakenBackTyped ==
    ASSUME NEW s \in StationTypes, NEW t \in StationTypes
    PROVE  /\ TakenBack(s, t) \in StationTypes /\ SameAccess(t, TakenBack(s, t))
           /\ TakenBack(s, t).macState = t.macState
           /\ Counted(s, t) \in StationTypes /\ SameAccess(t, Counted(s, t))
           /\ Counted(s, t).macState = t.macState
<1> DEFINE c == s.last
           i == [t.ac[c] EXCEPT !.packet = s.sent]
           w == With(t, c, i)
           x == [w EXCEPT !.sent = NONE]
           j == [t.ac[c] EXCEPT !.longRetries = @ + 1]
           k == [t.ac[c] EXCEPT !.shortRetries = @ + 1]
<1>1. c \in Categories /\ s.sent \in DataFrames \cup {NONE}
  BY DEF StationTypes, DataFrames
<1>2. t.ac[c] \in AccessCategoryInfos  BY <1>1, InfoTyped
<1>3. i \in AccessCategoryInfos /\ j \in AccessCategoryInfos /\ k \in AccessCategoryInfos
  BY <1>1, <1>2 DEF AccessCategoryInfos
<1>4. w \in StationTypes /\ SameAccess(t, w) /\ w.macState = t.macState
  BY <1>1, <1>3, WithTyped
<1>5. TakenBack(s, t) = IF s.lastSent = "RTS" THEN t ELSE x  BY DEF TakenBack
<1> HIDE DEF w
<1>6. x \in StationTypes /\ SameAccess(w, x) /\ x.macState = w.macState
  BY <1>4 DEF StationTypes, SameAccess
<1> HIDE DEF x, j, k
<1>7. Counted(s, t) = With(t, c, IF s.lastSent = "LONG" THEN j ELSE k)
  BY DEF Counted, j, k
<1> QED  BY <1>1, <1>3, <1>4, <1>5, <1>6, <1>7, WithTyped, SameAccessTransitive, SameAccessSelf

\* A frame that was never acknowledged is retried or dropped.
LEMMA NeverReceivedTyped ==
    ASSUME NEW s \in StationTypes, NEW d \in DrawTypes
    PROVE  LET doubled == DoubleTheContentionWindowAndPickANewBackoff(TimerOff(s), s.last, d)
               counted == Counted(s, TakenBack(s, doubled))
               t == NeverReceivedClearToSendOrAcknowledgement(s, d)
           IN  /\ t \in StationTypes /\ SameAccess(s, t) /\ t.macState = s.macState
               /\ t = IF Retries(s, counted) >= RetryLimit
                      THEN DropCurrentPacketAndGoToNextPacket(counted, s.last, d)
                      ELSE counted
<1> DEFINE c == s.last
           doubled == DoubleTheContentionWindowAndPickANewBackoff(TimerOff(s), c, d)
           back == TakenBack(s, doubled)
           counted == Counted(s, back)
           t == NeverReceivedClearToSendOrAcknowledgement(s, d)
           dropped == DropCurrentPacketAndGoToNextPacket(counted, c, d)
<1>1. c \in Categories  BY DEF StationTypes
<1>2. TimerOff(s) \in StationTypes /\ SameAccess(s, TimerOff(s))
      /\ TimerOff(s).macState = s.macState
  BY TimerOffTyped
<1>3. doubled \in StationTypes /\ SameAccess(s, doubled) /\ doubled.macState = s.macState
  <2>1. doubled \in StationTypes /\ SameAccess(TimerOff(s), doubled)
    BY <1>1, <1>2, DoubleTyped
  <2>2. PICK w \in Nat : \E n \in 0 .. w :
            doubled = With(TimerOff(s), c, WaitingSlots([TimerOff(s).ac[c] EXCEPT !.window = w],
                                                        c, n))
    BY <1>1, <1>2, DoubleTyped
  <2>3. doubled.macState = TimerOff(s).macState
    BY <1>2, <2>2 DEF With, StationTypes
  <2> QED  BY <1>2, <2>1, <2>3, SameAccessTransitive
<1> HIDE DEF doubled
<1>4. /\ back \in StationTypes /\ SameAccess(s, back) /\ back.macState = s.macState
      /\ counted \in StationTypes /\ SameAccess(s, counted) /\ counted.macState = s.macState
  <2>1. back \in StationTypes /\ SameAccess(doubled, back) /\ back.macState = doubled.macState
    BY <1>3, TakenBackTyped
  <2> HIDE DEF back
  <2>2. counted \in StationTypes /\ SameAccess(back, counted)
        /\ counted.macState = back.macState
    BY <2>1, TakenBackTyped
  <2> QED  BY <1>3, <2>1, <2>2, SameAccessTransitive
<1>5. t = IF Retries(s, counted) >= RetryLimit THEN dropped ELSE counted
  <2> DEFINE back2 == IF s.lastSent = "RTS" THEN doubled
                      ELSE [doubled EXCEPT !.ac[c].packet = s.sent, !.sent = NONE]
             counted2 == IF s.lastSent = "LONG"
                         THEN [back2 EXCEPT !.ac[c].longRetries = @ + 1]
                         ELSE [back2 EXCEPT !.ac[c].shortRetries = @ + 1]
             retries == IF s.lastSent = "LONG" THEN counted2.ac[c].longRetries
                        ELSE counted2.ac[c].shortRetries
  <2>1. t = IF retries >= RetryLimit THEN DropCurrentPacketAndGoToNextPacket(counted2, c, d)
            ELSE counted2
    BY DEF NeverReceivedClearToSendOrAcknowledgement, TimerOff, doubled
  <2>2. back2 = back
    BY <1>1, <1>3 DEF TakenBack, With, StationTypes
  <2> HIDE DEF back2, back
  <2>3. counted2 = counted
    <3>1. [back EXCEPT !.ac[c].longRetries = @ + 1]
              = With(back, c, [back.ac[c] EXCEPT !.longRetries = @ + 1])
      BY <1>1, <1>4 DEF With, StationTypes
    <3>2. [back EXCEPT !.ac[c].shortRetries = @ + 1]
              = With(back, c, [back.ac[c] EXCEPT !.shortRetries = @ + 1])
      BY <1>1, <1>4 DEF With, StationTypes
    <3> QED  BY <2>2, <3>1, <3>2 DEF Counted
  <2>4. retries = Retries(s, counted)
    <3> HIDE DEF counted2
    <3> QED  BY <2>3 DEF Retries
  <2> HIDE DEF counted2, retries, counted
  <2> QED  BY <2>1, <2>3, <2>4
<1>6. dropped \in StationTypes /\ SameAccess(s, dropped) /\ dropped.macState = s.macState
  <2> HIDE DEF counted
  <2>1. dropped \in StationTypes /\ SameAccess(counted, dropped)
    BY <1>1, <1>4, DropTyped
  <2>2. PICK n \in 0 .. MinWindow[c] :
            dropped = With(counted, c, WaitingSlots(Dropped(counted, c), c, n))
    BY <1>1, <1>4, DropTyped
  <2>3. dropped.macState = counted.macState  BY <1>4, <2>2 DEF With, StationTypes
  <2> QED  BY <1>4, <2>1, <2>3, SameAccessTransitive
<1>7. t \in StationTypes /\ SameAccess(s, t) /\ t.macState = s.macState
  <2> HIDE DEF t, counted, dropped
  <2> QED  BY <1>4, <1>5, <1>6
<1> HIDE DEF t
<1> QED  BY <1>5, <1>7 DEF t, counted, back, doubled

\* The MAC no longer waits for a reply.
LEMMA GiveUpWaitingTyped ==
    ASSUME NEW s \in StationTypes, NEW d \in DrawTypes
    PROVE  /\ GiveUpWaiting(s, d) \in StationTypes /\ SameAccess(s, GiveUpWaiting(s, d))
           /\ GiveUpWaiting(s, d).macState
                  = IF IsWaiting(s) THEN "BusyMedium" ELSE s.macState
<1> DEFINE b == [s EXCEPT !.macState = "BusyMedium"]
           t == NeverReceivedClearToSendOrAcknowledgement(b, d)
<1>1. b \in StationTypes /\ SameAccess(s, b) /\ b.macState = "BusyMedium"
  BY IdleTyped, SameAccessSelf DEF MacStates
<1>2. GiveUpWaiting(s, d) = IF IsWaiting(s) THEN t ELSE s  BY DEF GiveUpWaiting
<1> HIDE DEF b
<1>3. t \in StationTypes /\ SameAccess(b, t) /\ t.macState = b.macState
  BY <1>1, NeverReceivedTyped
<1> HIDE DEF t
<1> QED  BY <1>1, <1>2, <1>3, SameAccessTransitive, SameAccessSelf

\* The timeout for a reply sends nothing.
LEMMA ReplyTimeoutExpirationTyped ==
    ASSUME NEW s \in StationTypes, NEW d \in DrawTypes
    PROVE  /\ ReplyTimeoutExpiration(s, d) \in StationTypes
           /\ SameAccess(s, ReplyTimeoutExpiration(s, d))
<1> DEFINE up == GiveUpWaiting(s, d)
           on == GoOnWhenClear(up)
<1>1. up \in StationTypes /\ SameAccess(s, up)  BY GiveUpWaitingTyped
<1>2. ReplyTimeoutExpiration(s, d) \in {s, up, on}  BY DEF ReplyTimeoutExpiration
<1> HIDE DEF up
<1>3. on \in StationTypes /\ SameAccess(s, on)  BY <1>1, GoOnTyped, SameAccessTransitive
<1> HIDE DEF on
<1> QED  BY <1>1, <1>2, <1>3, SameAccessSelf

\* The end of a transmission sends nothing.
LEMMA TransmissionIsCompleteTyped ==
    ASSUME NEW s \in StationTypes, NEW d \in DrawTypes
    PROVE  /\ TransmissionIsComplete(s, d) \in StationTypes
           /\ SameAccess(s, TransmissionIsComplete(s, d))
<1> DEFINE waits == [s EXCEPT !.timer = ReplyTimeout, !.stale = INFINITE]
           b == [s EXCEPT !.macState = "BusyMedium"]
           e == Expect(s, s.macState = "BusyMedium")
           on == StartPacketSendProcess(e, e.last, TRUE, d)
<1>1. waits \in StationTypes /\ SameAccess(s, waits)
  <2>1. ReplyTimeout \in Int /\ INFINITE \in Int  BY Timings
  <2>2. waits \in StationTypes  BY <2>1 DEF StationTypes
  <2>3. SameAccess(s, waits)  BY DEF StationTypes, SameAccess
  <2> QED  BY <2>2, <2>3
<1>2. b \in StationTypes /\ SameAccess(s, b)  BY IdleTyped, SameAccessSelf DEF MacStates
<1>3. e \in StationTypes /\ SameAccess(s, e)  BY ExpectTyped
<1>4. TransmissionIsComplete(s, d) \in {waits, b, on}
  BY DEF TransmissionIsComplete, DoSuccessfulTransmissionPostProcessing
<1> HIDE DEF waits, b, e
<1>5. on \in StationTypes /\ SameAccess(s, on)
  <2>1. e.last \in Categories  BY <1>3 DEF StationTypes
  <2>2. on \in StationTypes /\ SameAccess(e, on)
    BY <1>3, <2>1, StartPacketSendProcessTyped
  <2> QED  BY <1>3, <2>2, SameAccessTransitive
<1> HIDE DEF on
<1> QED  BY <1>1, <1>2, <1>4, <1>5

\* ClearChannelNotification sends nothing.
LEMMA ClearChannelTyped ==
    ASSUME NEW s \in StationTypes, NEW d \in DrawTypes
    PROVE  /\ ClearChannelNotification(s, d) \in StationTypes
           /\ SameAccess(s, ClearChannelNotification(s, d))
<1> DEFINE over == [s EXCEPT !.macState = "Transient"]
           back == NeverReceivedClearToSendOrAcknowledgement(over, d)
           e == Expect(s, s.macState \in {"BusyMedium", "Transient"})
           on1 == GoOnWhenClear(back)
           on2 == GoOnWhenClear(e)
<1>1. over \in StationTypes /\ SameAccess(s, over)
  BY IdleTyped, SameAccessSelf DEF MacStates
<1>2. e \in StationTypes /\ SameAccess(s, e)  BY ExpectTyped
<1>3. ClearChannelNotification(s, d) \in {s, on1, on2}
  <2>1. CASE IsWaiting(s) /\ s.timer # INFINITE  BY <2>1 DEF ClearChannelNotification
  <2>2. CASE IsWaiting(s) /\ s.timer = INFINITE
    <3>1. s.macState # "WaitingForNavExpiration"  BY <2>2 DEF IsWaiting
    <3> QED  BY <2>2, <3>1 DEF ClearChannelNotification
  <2>3. CASE ~IsWaiting(s) /\ s.macState = "WaitingForNavExpiration"
    BY <2>3 DEF ClearChannelNotification
  <2>4. CASE ~IsWaiting(s) /\ s.macState # "WaitingForNavExpiration"
    BY <2>4 DEF ClearChannelNotification
  <2> QED  BY <2>1, <2>2, <2>3, <2>4
<1> HIDE DEF over, e
<1>4. back \in StationTypes /\ SameAccess(s, back)
  BY <1>1, NeverReceivedTyped, SameAccessTransitive
<1> HIDE DEF back
<1>5. on1 \in StationTypes /\ SameAccess(s, on1)
  BY <1>4, GoOnTyped, SameAccessTransitive
<1>6. on2 \in StationTypes /\ SameAccess(s, on2)
  BY <1>2, GoOnTyped, SameAccessTransitive
<1> HIDE DEF on1, on2
<1> QED  BY <1>3, <1>5, <1>6, SameAccessSelf

\* The wakeup timer ends, whatever it was set for.
LEMMA WakeupTimerEventTyped ==
    ASSUME NEW s \in StationTypes, NEW d \in DrawTypes, NEW r \in AllRetrievals(s)
    PROVE  /\ WakeupTimerEvent(s, d, r) \in StationTypes
           /\ Obeys(s, WakeupTimerEvent(s, d, r))
<1> DEFINE fired == TimerOff(s)
           nav == NavExpiration(fired)
           ifs == IfsAndBackoffTimeout(fired, d, r)
           late == ReplyTimeoutExpiration(fired, d)
           e == Expect(fired, FALSE)
<1>1. fired \in StationTypes /\ SameAccess(s, fired)  BY TimerOffTyped
<1>2. fired.ac = s.ac  BY DEF TimerOff, StationTypes
<1>3. WakeupTimerEvent(s, d, r) \in {nav, ifs, late, e}
  <2>1. WakeupTimerEvent(s, d, r) =
            CASE s.macState = "WaitingForNavExpiration" -> nav
              [] s.macState = "WaitingForIfsAndBackoff" -> ifs
              [] IsWaiting(s) -> late
              [] OTHER -> e
    BY DEF WakeupTimerEvent, TimerOff
  <2> HIDE DEF nav, ifs, late, e
  <2> QED  BY <2>1
<1> HIDE DEF fired
<1>4. \A c \in Categories : r[c] \in RetrievalTypes /\ r[c].taken <= fired.ac[c].queued
  BY <1>2, RetrievalsTyped
<1>5. ifs \in StationTypes /\ Obeys(fired, ifs)  BY <1>1, <1>4, IfsAndBackoffTimeoutTyped
<1>6. nav \in StationTypes /\ SameAccess(fired, nav)  BY <1>1, GoOnTyped
<1>7. late \in StationTypes /\ SameAccess(fired, late)  BY <1>1, ReplyTimeoutExpirationTyped
<1>8. e \in StationTypes /\ SameAccess(fired, e)  BY <1>1, ExpectTyped
<1> HIDE DEF nav, ifs, late, e
<1>9. Obeys(fired, nav) /\ Obeys(fired, late) /\ Obeys(fired, e) /\ Obeys(s, fired)
  BY <1>1, <1>6, <1>7, <1>8, SameAccessObeys
<1>10. Obeys(s, nav) /\ Obeys(s, ifs) /\ Obeys(s, late) /\ Obeys(s, e)
  BY <1>5, <1>9, ObeysTransitive
<1> QED  BY <1>3, <1>5, <1>6, <1>7, <1>8, <1>10

-----------------------------------------------------------------------------
(* Reception. *)

\* A reply goes out if the permission leaves the time for it.
LEMMA ReplyTyped ==
    ASSUME NEW s \in StationTypes, ~ReplyExceedsPermission(s)
    PROVE  Reply(s) \in StationTypes /\ Obeys(s, Reply(s))
<1> DEFINE b == [s EXCEPT !.macState = "CtsOrAckTransmission"]
           t == TransmitFrame(b, "CONTROL", NONE, ShortInterframeSpace)
<1>1. b \in StationTypes /\ SameAccess(s, b)  BY IdleTyped, SameAccessSelf DEF MacStates
<1>2. ~ExceedsPermission(b, ShortInterframeSpace, IF "CONTROL" = "DATA" THEN DataTime
                                                  ELSE ControlTimeChecked)
  BY <1>1 DEF SameAccess, ReplyExceedsPermission, ExceedsPermission
<1>3. Reply(s) = t  BY DEF Reply
<1> HIDE DEF b
<1>4. /\ t \in StationTypes
      /\ ~ExceedsPermission(b, ShortInterframeSpace, IF "CONTROL" = "DATA" THEN DataTime
                                                     ELSE ControlTimeChecked)
             => Obeys(b, t)
  BY <1>1, Timings, TransmitFrameTyped
<1> HIDE DEF t
<1>5. Obeys(b, t)  BY <1>2, <1>4
<1>6. Obeys(s, t)  BY <1>1, <1>5, SameAccessObeys, ObeysTransitive
<1> QED  BY <1>3, <1>4, <1>6

\* An RTS or a data frame is answered only in the permission.
LEMMA ProcessRequestTyped ==
    ASSUME NEW s \in StationTypes, NEW d \in DrawTypes
    PROVE  /\ ProcessRequestToSendFrame(s, d) \in StationTypes
           /\ Obeys(s, ProcessRequestToSendFrame(s, d))
           /\ ProcessDataFrame(s, d) \in StationTypes /\ Obeys(s, ProcessDataFrame(s, d))
<1> DEFINE busy == GiveUpWaiting(s, d)
           b == [busy EXCEPT !.macState = "BusyMedium"]
<1>1. busy \in StationTypes /\ SameAccess(s, busy)  BY GiveUpWaitingTyped
<1>2. ProcessRequestToSendFrame(s, d) \in {busy, b, Reply(busy)}
      /\ ProcessDataFrame(s, d) \in {busy, Reply(busy)}
  BY DEF ProcessRequestToSendFrame, ProcessDataFrame
<1>3. ReplyExceedsPermission(s) =>
          ProcessRequestToSendFrame(s, d) \in {busy, b} /\ ProcessDataFrame(s, d) = busy
  BY DEF ProcessRequestToSendFrame, ProcessDataFrame
<1> HIDE DEF busy
<1>4. b \in StationTypes /\ SameAccess(s, b)  BY <1>1, IdleTyped DEF MacStates
<1> HIDE DEF b
<1>5. Obeys(s, busy) /\ Obeys(s, b)  BY <1>1, <1>4, SameAccessObeys
<1>6. ASSUME ~ReplyExceedsPermission(s)
      PROVE  Reply(busy) \in StationTypes /\ Obeys(s, Reply(busy))
  <2>1. ~ReplyExceedsPermission(busy)
    BY <1>1, <1>6 DEF SameAccess, ReplyExceedsPermission, ExceedsPermission
  <2> QED  BY <1>1, <1>5, <2>1, ReplyTyped, ObeysTransitive
<1> QED  BY <1>1, <1>2, <1>3, <1>4, <1>5, <1>6

\* A CTS lets the data frame go only in the permission.
LEMMA ProcessClearToSendTyped ==
    ASSUME NEW s \in StationTypes
    PROVE  /\ ProcessClearToSendFrame(s) \in StationTypes
           /\ Obeys(s, ProcessClearToSendFrame(s))
<1> DEFINE c == s.last
           i == [s.ac[c] EXCEPT !.shortRetries = 0]
           off == TimerOff(s)
           w == With(off, c, i)
           r == [taken |-> 0, packet |-> NONE]
           sent == TransmitAFrame(w, c, TRUE, ShortInterframeSpace, r)
           e == Expect(sent, sent.phyState = "TxStarting")
<1>1. c \in Categories  BY DEF StationTypes
<1>2. i \in AccessCategoryInfos  BY <1>1, InfoTyped DEF AccessCategoryInfos
<1>3. off \in StationTypes /\ SameAccess(s, off)  BY TimerOffTyped
<1>4. w \in StationTypes /\ SameAccess(s, w)
  <2> HIDE DEF off
  <2> QED  BY <1>1, <1>2, <1>3, WithTyped, SameAccessTransitive
<1>5. [s EXCEPT !.timer = INFINITE, !.ac[c].shortRetries = 0] = w
  BY DEF With, TimerOff, StationTypes
<1>6. ProcessClearToSendFrame(s) = IF s.macState # "WaitingForCts" THEN s ELSE e
  BY <1>5 DEF ProcessClearToSendFrame
<1> HIDE DEF w
<1>7. r \in RetrievalTypes /\ r.taken <= w.ac[c].queued
  <2>1. w.ac[c].queued \in Nat  BY <1>1, <1>4 DEF StationTypes, AccessCategoryInfos
  <2> QED  BY <2>1 DEF RetrievalTypes
<1> HIDE DEF r
<1>8. sent \in StationTypes /\ Obeys(w, sent)
  <2> DEFINE yes == TRUE
  <2>1. yes \in BOOLEAN /\ ShortInterframeSpace \in Nat  BY Timings
  <2> HIDE DEF yes
  <2>2. LET t == TransmitAFrame(w, c, yes, ShortInterframeSpace, r)
        IN  t \in StationTypes /\ Obeys(w, t)
    BY <1>1, <1>4, <1>7, <2>1, TransmitAFrameTyped
  <2> QED  BY <2>2 DEF yes
<1> HIDE DEF sent
<1>9. e \in StationTypes /\ SameAccess(sent, e)  BY <1>8, ExpectTyped
<1> HIDE DEF e
<1>10. Obeys(s, e) /\ Obeys(s, s)
  BY <1>4, <1>8, <1>9, SameAccessObeys, SameAccessSelf, ObeysTransitive
<1> QED  BY <1>6, <1>9, <1>10

\* An acknowledgement sends nothing.
LEMMA ProcessAcknowledgementTyped ==
    ASSUME NEW s \in StationTypes, NEW d \in DrawTypes
    PROVE  /\ ProcessAcknowledgementFrame(s, d) \in StationTypes
           /\ SameAccess(s, ProcessAcknowledgementFrame(s, d))
<1> DEFINE c == s.last
           i == [s.ac[c] EXCEPT !.window = MinWindow[c]]
           w == With(s, c, i)
           done == [w EXCEPT !.timer = INFINITE, !.macState = "BusyMedium", !.sent = NONE]
           e == Expect(done, s.ac[c].packet = NONE)
           on == StartPacketSendProcess(e, e.last, TRUE, d)
<1>1. c \in Categories  BY DEF StationTypes
<1>2. i \in AccessCategoryInfos  BY <1>1, InfoTyped, Windows DEF AccessCategoryInfos
<1>3. w \in StationTypes /\ SameAccess(s, w)  BY <1>1, <1>2, WithTyped
<1>4. [s EXCEPT !.timer = INFINITE, !.macState = "BusyMedium", !.sent = NONE,
                !.ac[c].window = MinWindow[c]] = done
  BY DEF With, StationTypes
<1>5. ProcessAcknowledgementFrame(s, d) = IF s.macState # "WaitingForAck" THEN s ELSE on
  BY <1>4 DEF ProcessAcknowledgementFrame, DoSuccessfulTransmissionPostProcessing
<1> HIDE DEF w
<1>6. done \in StationTypes /\ SameAccess(w, done)
  <2>1. INFINITE \in Int  BY Timings
  <2>2. done \in StationTypes  BY <1>3, <2>1 DEF StationTypes, MacStates
  <2>3. SameAccess(w, done)  BY <1>3 DEF StationTypes, SameAccess
  <2> QED  BY <2>2, <2>3
<1> HIDE DEF done
<1>7. e \in StationTypes /\ SameAccess(s, e)
  BY <1>3, <1>6, ExpectTyped, SameAccessTransitive
<1> HIDE DEF e
<1>8. on \in StationTypes /\ SameAccess(s, on)
  <2>1. e.last \in Categories  BY <1>7 DEF StationTypes
  <2>2. on \in StationTypes /\ SameAccess(e, on)
    BY <1>7, <2>1, StartPacketSendProcessTyped
  <2> QED  BY <1>7, <2>2, SameAccessTransitive
<1> HIDE DEF on
<1> QED  BY <1>5, <1>8, SameAccessSelf

\* A frame for another station sets the NAV at most.
LEMMA ProcessFrameForAnotherTyped ==
    ASSUME NEW s \in StationTypes, NEW reserved \in Nat, NEW d \in DrawTypes
    PROVE  /\ ProcessFrameForAnother(s, reserved, d) \in StationTypes
           /\ SameAccess(s, ProcessFrameForAnother(s, reserved, d))
<1> DEFINE nav == MaxOf(s.nav, reserved)
           m == IF IsWaiting(s) THEN s.macState ELSE "BusyMedium"
           b == [s EXCEPT !.nav = nav, !.macState = m]
<1>1. ProcessFrameForAnother(s, reserved, d) = GiveUpWaiting(b, d)
  BY DEF ProcessFrameForAnother
<1>2. nav \in Nat  BY Minima DEF StationTypes, MaxOf
<1>3. m \in MacStates \ {"WaitingForIfsAndBackoff"}
  BY DEF IsWaiting, MacStates
<1> HIDE DEF nav, m
<1>4. b \in StationTypes /\ SameAccess(s, b)
  BY <1>2, <1>3 DEF StationTypes, SameAccess
<1> HIDE DEF b
<1>5. GiveUpWaiting(b, d) \in StationTypes /\ SameAccess(b, GiveUpWaiting(b, d))
  BY <1>4, GiveUpWaitingTyped
<1> QED  BY <1>1, <1>4, <1>5, SameAccessTransitive

\* A corrupted frame sends nothing.
LEMMA CorruptedFrameTyped ==
    ASSUME NEW s \in StationTypes, NEW d \in DrawTypes
    PROVE  /\ NotifyThatPhyReceivedCorruptedFrame(s, d) \in StationTypes
           /\ SameAccess(s, NotifyThatPhyReceivedCorruptedFrame(s, d))
<1> DEFINE bad == [s EXCEPT !.corrupt = TRUE]
           busy == GiveUpWaiting(bad, d)
<1>1. bad \in StationTypes /\ SameAccess(s, bad)  BY DEF StationTypes, SameAccess
<1>2. NotifyThatPhyReceivedCorruptedFrame(s, d) = Expect(busy, busy.macState = "BusyMedium")
  BY DEF NotifyThatPhyReceivedCorruptedFrame
<1> HIDE DEF bad
<1>3. busy \in StationTypes /\ SameAccess(s, busy)
  BY <1>1, GiveUpWaitingTyped, SameAccessTransitive
<1> HIDE DEF busy
<1> QED  BY <1>2, <1>3, ExpectTyped, SameAccessTransitive

\* Whatever is received, what is sent ends in the permission.
LEMMA ReceiveFrameTyped ==
    ASSUME NEW s \in StationTypes, NEW frame \in ReceivedFrames, NEW reserved \in Nat,
           NEW d \in DrawTypes
    PROVE  /\ ReceiveFrameFromPhy(s, frame, reserved, d) \in StationTypes
           /\ Obeys(s, ReceiveFrameFromPhy(s, frame, reserved, d))
<1> DEFINE good == [s EXCEPT !.corrupt = FALSE]
           t == ReceiveFrameFromPhy(s, frame, reserved, d)
<1>1. good \in StationTypes /\ SameAccess(s, good)  BY DEF StationTypes, SameAccess
<1>2. \/ t = NotifyThatPhyReceivedCorruptedFrame(s, d)
      \/ t = ProcessFrameForAnother(good, reserved, d)
      \/ t = GiveUpWaiting(good, d)
      \/ t = ProcessDataFrame(good, d)
      \/ t = ProcessRequestToSendFrame(good, d)
      \/ t = ProcessClearToSendFrame(good)
      \/ t = ProcessAcknowledgementFrame(good, d)
  BY DEF ReceiveFrameFromPhy, ReceivedFrames
<1> SUFFICES t \in StationTypes /\ Obeys(s, t)  OBVIOUS
<1> HIDE DEF good, t
<1>3. CASE t = NotifyThatPhyReceivedCorruptedFrame(s, d)
  BY <1>3, CorruptedFrameTyped, SameAccessObeys
<1>4. ASSUME t \in StationTypes, SameAccess(good, t) \/ Obeys(good, t)
      PROVE  Obeys(s, t)
  BY <1>1, <1>4, SameAccessObeys, ObeysTransitive
<1>5. CASE t = ProcessFrameForAnother(good, reserved, d)
  <2>1. t \in StationTypes /\ SameAccess(good, t)  BY <1>1, <1>5, ProcessFrameForAnotherTyped
  <2> QED  BY <1>4, <2>1
<1>6. CASE t = GiveUpWaiting(good, d)
  <2>1. t \in StationTypes /\ SameAccess(good, t)  BY <1>1, <1>6, GiveUpWaitingTyped
  <2> QED  BY <1>4, <2>1
<1>7. CASE t = ProcessDataFrame(good, d) \/ t = ProcessRequestToSendFrame(good, d)
  <2>1. t \in StationTypes /\ Obeys(good, t)  BY <1>1, <1>7, ProcessRequestTyped
  <2> QED  BY <1>4, <2>1
<1>8. CASE t = ProcessClearToSendFrame(good)
  <2>1. t \in StationTypes /\ Obeys(good, t)  BY <1>1, <1>8, ProcessClearToSendTyped
  <2> QED  BY <1>4, <2>1
<1>9. CASE t = ProcessAcknowledgementFrame(good, d)
  <2>1. t \in StationTypes /\ SameAccess(good, t)  BY <1>1, <1>9, ProcessAcknowledgementTyped
  <2> QED  BY <1>4, <2>1
<1> QED  BY <1>2, <1>3, <1>5, <1>6, <1>7, <1>8, <1>9

-----------------------------------------------------------------------------
(* The PHY. *)

\* The carrier sense turns busy.
LEMMA SensesBusyTyped ==
    ASSUME NEW s \in StationTypes, NEW d \in DrawTypes
    PROVE  SensesBusy(s, d) \in StationTypes /\ SameAccess(s, SensesBusy(s, d))
<1> DEFINE b == [s EXCEPT !.sensing = TRUE]
           t == BusyChannelNotification(b, d)
<1>1. b \in StationTypes /\ SameAccess(s, b)  BY DEF StationTypes, SameAccess
<1>2. SensesBusy(s, d) \in {s, t}  BY DEF SensesBusy
<1> HIDE DEF b
<1>3. t \in StationTypes /\ SameAccess(s, t)  BY <1>1, BusyChannelTyped, SameAccessTransitive
<1> HIDE DEF t
<1> QED  BY <1>2, <1>3, SameAccessSelf

\* The carrier sense turns clear.
LEMMA SensesClearTyped ==
    ASSUME NEW s \in StationTypes, NEW d \in DrawTypes
    PROVE  /\ SensesClearIfSilent(s, d) \in StationTypes
           /\ SameAccess(s, SensesClearIfSilent(s, d))
<1> DEFINE b == [s EXCEPT !.sensing = FALSE]
           t == ClearChannelNotification(b, d)
<1>1. b \in StationTypes /\ SameAccess(s, b)  BY DEF StationTypes, SameAccess
<1>2. SensesClearIfSilent(s, d) \in {s, t}  BY DEF SensesClearIfSilent
<1> HIDE DEF b
<1>3. t \in StationTypes /\ SameAccess(s, t)  BY <1>1, ClearChannelTyped, SameAccessTransitive
<1> HIDE DEF t
<1> QED  BY <1>2, <1>3, SameAccessSelf

\* The PHY locks on a signal.
LocksOn(s, signal, loud) ==
    [s EXCEPT !.phyState = "Receiving", !.receiving = signal, !.loud = loud]

\* A signal is received, captures the receiver, adds its energy or is not noticed.
LEMMA NewSignalCases ==
    ASSUME NEW s, NEW signal, NEW preambleIsDetected \in BOOLEAN, NEW loud \in BOOLEAN, NEW d
    PROVE  LET t == ProcessNewSignal(s, signal, preambleIsDetected, loud, d)
               a == LocksOn(s, signal, loud)
               b == [s EXCEPT !.others = s.others + 1]
           IN  \/ s.phyState = "Scanning" /\ t = SensesBusy(a, d)
               \/ s.phyState = "Scanning" /\ t = SensesBusy(b, d)
               \/ /\ s.phyState = "Receiving"
                  /\ t = [a EXCEPT !.others = IF s.loud THEN s.others + 1 ELSE s.others]
               \/ s.phyState # "Scanning" /\ t = b
               \/ t = s
<1> DEFINE t == ProcessNewSignal(s, signal, preambleIsDetected, loud, d)
           a == LocksOn(s, signal, loud)
           b == [s EXCEPT !.others = s.others + 1]
           captured == [a EXCEPT !.others = IF s.loud THEN s.others + 1 ELSE s.others]
<1>1. [a EXCEPT !.others = IF s.loud THEN @ + 1 ELSE @] = captured  BY DEF LocksOn
<1>2. [s EXCEPT !.others = @ + 1] = b  OBVIOUS
<1>3. t = CASE s.phyState = "Scanning" /\ preambleIsDetected -> SensesBusy(a, d)
            [] s.phyState = "Receiving" /\ preambleIsDetected -> captured
            [] s.phyState = "Scanning" /\ ~preambleIsDetected /\ loud -> SensesBusy(b, d)
            [] OTHER -> IF loud THEN b ELSE s
  BY <1>1, <1>2 DEF ProcessNewSignal, LocksOn
<1> HIDE DEF t, a, b, captured
<1>4. \/ s.phyState = "Scanning" /\ t = SensesBusy(a, d)
      \/ s.phyState = "Scanning" /\ t = SensesBusy(b, d)
      \/ s.phyState = "Receiving" /\ t = captured
      \/ s.phyState # "Scanning" /\ t = b
      \/ t = s
  BY <1>3
<1> QED  BY <1>4 DEF t, a, b, captured

\* Signals reach a PHY that does not send without making it send.
LEMMA ProcessNewSignalTyped ==
    ASSUME NEW s \in StationTypes, NEW signal \in {"FOREIGN", "REPLY"},
           NEW preambleIsDetected \in BOOLEAN, NEW loud \in BOOLEAN, NEW d \in DrawTypes
    PROVE  /\ ProcessNewSignal(s, signal, preambleIsDetected, loud, d) \in StationTypes
           /\ Obeys(s, ProcessNewSignal(s, signal, preambleIsDetected, loud, d))
<1> DEFINE t == ProcessNewSignal(s, signal, preambleIsDetected, loud, d)
           a == LocksOn(s, signal, loud)
           b == [s EXCEPT !.others = s.others + 1]
           captured == [a EXCEPT !.others = IF s.loud THEN s.others + 1 ELSE s.others]
<1>1. \/ s.phyState = "Scanning" /\ t = SensesBusy(a, d)
      \/ t = SensesBusy(b, d)
      \/ s.phyState = "Receiving" /\ t = captured
      \/ t = b
      \/ t = s
  BY NewSignalCases
<1>2. s.others + 1 \in Nat /\ s.others \in Nat  BY DEF StationTypes
<1>3. a \in StationTypes  BY DEF StationTypes, PhyStates, LocksOn
<1>4. b \in StationTypes /\ SameAccess(s, b)  BY <1>2 DEF StationTypes, SameAccess
<1>9. captured \in StationTypes /\ (s.phyState = "Receiving" => SameAccess(s, captured))
  <2> DEFINE others == IF s.loud THEN s.others + 1 ELSE s.others
  <2>1. others \in Nat  BY <1>2
  <2>2. captured = [a EXCEPT !.others = others]  OBVIOUS
  <2>3. a.permission = s.permission /\ a.outgoing = s.outgoing /\ a.txLeft = s.txLeft
        /\ a.macState = s.macState /\ a.phyState = "Receiving"
    BY DEF StationTypes, LocksOn
  <2> HIDE DEF others, a
  <2> QED  BY <1>3, <2>1, <2>2, <2>3 DEF StationTypes, SameAccess
<1>5. s.phyState = "Scanning" => Obeys(s, a)
  BY DEF Obeys, StationTypes, EndsInPermission, IsTransmittingAFrame, OutgoingTransmissionEnd,
         LocksOn
<1>10. Obeys(s, s)  BY SameAccessSelf, SameAccessObeys
<1> SUFFICES t \in StationTypes /\ Obeys(s, t)  OBVIOUS
<1> HIDE DEF t, a, b, captured
<1>6. SensesBusy(a, d) \in StationTypes /\ Obeys(a, SensesBusy(a, d))
  BY <1>3, SensesBusyTyped, SameAccessObeys
<1>7. SensesBusy(b, d) \in StationTypes /\ Obeys(b, SensesBusy(b, d))
  BY <1>4, SensesBusyTyped, SameAccessObeys
<1>8. Obeys(s, b) /\ (s.phyState = "Receiving" => Obeys(s, captured))
  BY <1>4, <1>9, SameAccessObeys
<1> QED  BY <1>1, <1>4, <1>5, <1>6, <1>7, <1>8, <1>9, <1>10, ObeysTransitive

\* Interference ends.
LEMMA EndOfOtherSignalTyped ==
    ASSUME NEW s \in StationTypes, s.others > 0, NEW d \in DrawTypes
    PROVE  /\ ProcessEndOfOtherSignal(s, d) \in StationTypes
           /\ Obeys(s, ProcessEndOfOtherSignal(s, d))
<1> DEFINE less == [s EXCEPT !.others = s.others - 1]
           t == SensesClearIfSilent(less, d)
<1>1. ProcessEndOfOtherSignal(s, d) \in {less, t}
  <2>1. [s EXCEPT !.others = @ - 1] = less  OBVIOUS
  <2> QED  BY <2>1 DEF ProcessEndOfOtherSignal
<1>2. s.others - 1 \in Nat  BY DEF StationTypes
<1>3. less \in StationTypes /\ SameAccess(s, less)  BY <1>2 DEF StationTypes, SameAccess
<1> HIDE DEF less
<1>4. t \in StationTypes /\ SameAccess(s, t)  BY <1>3, SensesClearTyped, SameAccessTransitive
<1> HIDE DEF t
<1> QED  BY <1>1, <1>3, <1>4, SameAccessObeys

\* The end of a received signal: a reply may be sent, in the permission.
LEMMA EndOfReceivedSignalTyped ==
    ASSUME NEW s \in StationTypes, s.phyState = "Receiving", NEW frame \in ReceivedFrames,
           NEW reserved \in Nat, NEW d \in DrawTypes
    PROVE  /\ ProcessEndOfReceivedSignal(s, frame, reserved, d) \in StationTypes
           /\ Obeys(s, ProcessEndOfReceivedSignal(s, frame, reserved, d))
<1> DEFINE over == [s EXCEPT !.phyState = "Scanning", !.receiving = NONE, !.loud = FALSE]
           told == ReceiveFrameFromPhy(over, frame, reserved, d)
           e == Expect(told, told.sensing)
           t == SensesClearIfSilent(e, d)
<1>1. ProcessEndOfReceivedSignal(s, frame, reserved, d) = t
  BY DEF ProcessEndOfReceivedSignal
<1>2. over \in StationTypes  BY DEF StationTypes, PhyStates
<1>3. Obeys(s, over)
  BY DEF Obeys, StationTypes, EndsInPermission, IsTransmittingAFrame, OutgoingTransmissionEnd
<1> HIDE DEF over
<1>4. told \in StationTypes /\ Obeys(s, told)
  BY <1>2, <1>3, ReceiveFrameTyped, ObeysTransitive
<1> HIDE DEF told
<1>5. e \in StationTypes /\ Obeys(s, e)
  BY <1>4, ExpectTyped, SameAccessObeys, ObeysTransitive
<1> HIDE DEF e
<1>6. t \in StationTypes /\ Obeys(s, t)
  BY <1>5, SensesClearTyped, SameAccessObeys, ObeysTransitive
<1> QED  BY <1>1, <1>6

\* A frame starts when it was meant to, and ends: what is left of it still ends in
\* the permission.
LEMMA StartOrEndTransmissionTyped ==
    ASSUME NEW s \in StationTypes, IsTransmittingAFrame(s), s.txLeft = 0,
           NEW d \in DrawTypes
    PROVE  /\ StartOrEndTransmission(s, d) \in StationTypes
           /\ Obeys(s, StartOrEndTransmission(s, d))
<1> DEFINE start == [s EXCEPT !.phyState = "Transmitting", !.sensing = TRUE,
                              !.txLeft = FrameDuration(s.outgoing), !.gap = 0]
           over == [s EXCEPT !.phyState = "Scanning", !.outgoing = NONE]
           told == TransmissionIsComplete(over, d)
           t == SensesClearIfSilent(told, d)
<1>1. StartOrEndTransmission(s, d) = IF s.phyState = "TxStarting" THEN start ELSE t
  BY DEF StartOrEndTransmission, StartTransmission, EndCurrentTransmission
<1>2. FrameDuration(s.outgoing) \in Nat  BY Timings DEF FrameDuration
<1>3. start \in StationTypes  BY <1>2 DEF StationTypes, PhyStates
<1>4. s.phyState = "TxStarting" => Obeys(s, start)
  BY <1>2 DEF Obeys, StationTypes, EndsInPermission, IsTransmittingAFrame,
              OutgoingTransmissionEnd
<1>5. over \in StationTypes  BY DEF StationTypes, PhyStates
<1>6. Obeys(s, over)
  BY DEF Obeys, StationTypes, EndsInPermission, IsTransmittingAFrame, OutgoingTransmissionEnd
<1> HIDE DEF over, start
<1>7. told \in StationTypes /\ Obeys(s, told)
  BY <1>5, <1>6, TransmissionIsCompleteTyped, SameAccessObeys, ObeysTransitive
<1> HIDE DEF told
<1>8. t \in StationTypes /\ Obeys(s, t)
  BY <1>7, SensesClearTyped, SameAccessObeys, ObeysTransitive
<1> HIDE DEF t
<1> QED  BY <1>1, <1>3, <1>4, <1>8

-----------------------------------------------------------------------------
(* A change of channels, the permission to send, and time. *)

\* The PHY goes over to another channel; what the MAC is at stays.
LEMMA SwitchToChannelsTyped ==
    ASSUME NEW s \in StationTypes
    PROVE  LET t == SwitchToChannels(s)
           IN  /\ t \in StationTypes /\ ~IsTransmittingAFrame(t)
               /\ t.permission = s.permission /\ t.macState = s.macState
               /\ OutgoingTransmissionEnd(t) = 0
               /\ t.failed = (s.failed \/ IsTransmittingAFrame(s))
<1> DEFINE e == Expect(s, ~IsTransmittingAFrame(s))
           t == [e EXCEPT !.phyState = "Scanning", !.receiving = NONE, !.loud = FALSE,
                          !.others = 0, !.sensing = FALSE, !.quiet = 0]
<1>1. e \in StationTypes /\ SameAccess(s, e) /\ e.macState = s.macState  BY ExpectTyped
<1>2. e.failed = (s.failed \/ IsTransmittingAFrame(s))
  <2>1. s.failed \in BOOLEAN  BY DEF StationTypes
  <2>2. CASE IsTransmittingAFrame(s)
    <3>1. e = [s EXCEPT !.failed = TRUE]  BY <2>2 DEF Expect
    <3>2. e.failed = TRUE  BY <3>1 DEF StationTypes
    <3> HIDE DEF e
    <3> QED  BY <2>1, <2>2, <3>2
  <2>3. CASE ~IsTransmittingAFrame(s)
    <3>1. e = s  BY <2>3 DEF Expect
    <3> HIDE DEF e
    <3> QED  BY <2>1, <2>3, <3>1
  <2> QED  BY <2>2, <2>3
<1>3. SwitchToChannels(s) = t  BY DEF SwitchToChannels
<1> HIDE DEF e
<1>4. t \in StationTypes  BY <1>1 DEF StationTypes, PhyStates
<1>5. t.phyState = "Scanning" /\ t.permission = e.permission /\ t.macState = e.macState
      /\ t.failed = e.failed
  BY <1>1 DEF StationTypes
<1> HIDE DEF t
<1>6. ~IsTransmittingAFrame(t) /\ OutgoingTransmissionEnd(t) = 0
  BY <1>5 DEF IsTransmittingAFrame, OutgoingTransmissionEnd
<1>7. t.permission = s.permission  BY <1>1, <1>5 DEF SameAccess
<1> QED  BY <1>1, <1>2, <1>3, <1>4, <1>5, <1>6, <1>7

\* The permission is taken away: no backoff runs any longer, the PHY is left alone.
LEMMA SuspendTyped ==
    ASSUME NEW s \in StationTypes
    PROVE  LET t == SuspendTransmissionFunction(s)
           IN  /\ t \in StationTypes /\ t.permission = 0
               /\ t.macState # "WaitingForIfsAndBackoff"
               /\ t.phyState = s.phyState /\ t.outgoing = s.outgoing /\ t.txLeft = s.txLeft
<1> DEFINE a == Expect(s, MaySuspend(s))
           Good == {x \in StationTypes : SameAccess(s, x)}
           d == <<>>
<1>1. a \in Good  BY ExpectTyped
<1>2. PICK t : /\ RunsTo("SUBTRACT", a, d, d, t)
               /\ SuspendTransmissionFunction(s) = Suspended(s, a, t)
  BY SubtractLoop
<1>3. a.macState = s.macState  BY ExpectTyped
<1> HIDE DEF a, d
<1>4. ASSUME NEW x \in Good, NEW c \in Categories
      PROVE  OneRound("SUBTRACT", x, c, d, d) \in Good
  <2>1. OneRound("SUBTRACT", x, c, d, d) = SubtractElapsedTime(x, c)  BY DEF OneRound
  <2> QED  BY <2>1, SubtractElapsedTimeTyped, SameAccessTransitive
<1> HIDE DEF Good
<1>5. t \in Good  BY <1>1, <1>2, <1>4, LoopKeeps
<1> DEFINE m == IF s.phyState = "Receiving" THEN a.macState ELSE "BusyMedium"
           stale == IF s.timer = INFINITE THEN s.stale ELSE s.timer
           waits == [a EXCEPT !.timer = INFINITE, !.stale = stale, !.macState = m]
           off == CountdownOff(t)
           stops == [off EXCEPT !.stale = stale, !.macState = "Idle"]
           u == IF s.macState \in {"WaitingForCts", "WaitingForAck"} THEN waits
                ELSE IF s.macState = "WaitingForIfsAndBackoff" THEN stops ELSE a
<1>11. stale \in Int  BY DEF StationTypes
<1>6. Suspended(s, a, t) = [u EXCEPT !.permission = 0]
  <2>1. stops = [t EXCEPT !.timer = INFINITE, !.stale = stale, !.macState = "Idle",
                          !.ac = NoStartTimes(t)]
    BY <1>5 DEF CountdownOff, StationTypes, Good
  <2>2. u = CASE s.macState \in {"WaitingForCts", "WaitingForAck"} -> waits
              [] s.macState = "WaitingForIfsAndBackoff" -> stops
              [] OTHER -> a
    <3> HIDE DEF waits, stops
    <3> QED  OBVIOUS
  <2> HIDE DEF stops, u
  <2> QED  BY <2>1, <2>2 DEF Suspended
<1>7. waits \in StationTypes /\ SameAccess(s, waits)
      /\ (s.macState \in {"WaitingForCts", "WaitingForAck"} =>
              waits.macState # "WaitingForIfsAndBackoff")
  <2>1. a \in StationTypes /\ SameAccess(s, a)  BY <1>1 DEF Good
  <2>2. m \in MacStates  BY <2>1 DEF StationTypes, MacStates
  <2>3. m = a.macState \/ m = "BusyMedium"  OBVIOUS
  <2> HIDE DEF m
  <2>4. waits \in StationTypes
    <3>1. INFINITE \in Int /\ stale \in Int  BY <1>11, Timings
    <3> HIDE DEF stale
    <3> QED  BY <2>1, <2>2, <3>1 DEF StationTypes
  <2>5. SameAccess(s, waits)  BY <2>1, <2>3 DEF StationTypes, SameAccess
  <2>6. waits.macState = m  BY <2>1 DEF StationTypes
  <2> QED  BY <1>3, <2>3, <2>4, <2>5, <2>6
<1>8. stops \in StationTypes /\ SameAccess(s, stops) /\ stops.macState = "Idle"
  <2>1. off \in StationTypes /\ SameAccess(s, off)
    BY <1>5, TimerOffTyped, SameAccessTransitive DEF Good
  <2> HIDE DEF off, stale
  <2> DEFINE left == [off EXCEPT !.stale = stale]
  <2>2. left \in StationTypes /\ SameAccess(off, left)
    BY <1>11, <2>1 DEF StationTypes, SameAccess
  <2>3. stops = [left EXCEPT !.macState = "Idle"]  OBVIOUS
  <2>4. SameAccess(s, left)  BY <2>1, <2>2, SameAccessTransitive
  <2> HIDE DEF left, stops
  <2> QED  BY <2>2, <2>3, <2>4, IdleTyped DEF MacStates
<1>9. u \in StationTypes /\ SameAccess(s, u) /\ u.macState # "WaitingForIfsAndBackoff"
  <2> HIDE DEF waits, stops
  <2> QED  BY <1>1, <1>3, <1>7, <1>8 DEF Good
<1> HIDE DEF u
<1> DEFINE v == [u EXCEPT !.permission = 0]
<1>10. v \in StationTypes /\ v.permission = 0 /\ v.macState = u.macState
       /\ v.phyState = u.phyState /\ v.outgoing = u.outgoing /\ v.txLeft = u.txLeft
  BY <1>9 DEF StationTypes
<1> HIDE DEF v
<1> QED  BY <1>2, <1>6, <1>9, <1>10 DEF v, SameAccess

\* The permission is given: the PHY is left alone.
LEMMA ResumeTyped ==
    ASSUME NEW s \in StationTypes, NEW permission \in Nat
    PROVE  LET t == ResumeTransmissionFunction(s, permission)
           IN  /\ t \in StationTypes /\ t.permission = permission
               /\ t.phyState = s.phyState /\ t.outgoing = s.outgoing /\ t.txLeft = s.txLeft
<1> DEFINE e == Expect(s, permission > 0)
           p == [e EXCEPT !.permission = permission]
           b == StartBackoffIfNecessary(p)
<1>1. e \in StationTypes /\ SameAccess(s, e)  BY ExpectTyped
<1>2. ResumeTransmissionFunction(s, permission) \in {p, b}
  BY DEF ResumeTransmissionFunction
<1> HIDE DEF e
<1>3. p \in StationTypes /\ p.permission = permission
      /\ p.phyState = s.phyState /\ p.outgoing = s.outgoing /\ p.txLeft = s.txLeft
  BY <1>1 DEF StationTypes, SameAccess
<1> HIDE DEF p
<1>4. b \in StationTypes /\ SameAccess(p, b)  BY <1>3, StartBackoffIfNecessaryTyped
<1> HIDE DEF b
<1> QED  BY <1>2, <1>3, <1>4 DEF SameAccess

\* A time left gets a tick less.
LEMMA LeftTyped ==
    ASSUME NEW t \in Int
    PROVE  /\ Left(t) \in Int /\ (t \in Nat => Left(t) \in Nat)
           /\ t # INFINITE /\ t > 0 => Left(t) = t - 1
           /\ Left(0) = 0
           /\ LeftOnce(t) \in Int /\ LeftOnce(INFINITE) = INFINITE
  BY DEF Left, LeftOnce, MaxOf, INFINITE

\* Time passes: the permission and the frame under way end a tick earlier.
LEMMA TickTyped ==
    ASSUME NEW s \in StationTypes
    PROVE  LET t == Tick(s)
           IN  /\ t \in StationTypes
               /\ t.permission = Left(s.permission) /\ t.txLeft = Left(s.txLeft)
               /\ t.timer = Left(s.timer) /\ t.stale = LeftOnce(s.stale)
               /\ t.nav = Left(s.nav) /\ t.macState = s.macState /\ t.phyState = s.phyState
               /\ t.outgoing = s.outgoing /\ t.failed = s.failed
<1> DEFINE idleFor == IF s.idleFor < LongestInterframeSpace + SlotTime THEN s.idleFor + 1
                      ELSE s.idleFor + 1 - SlotTime
           quiet == IF s.sensing \/ s.nav > 0 THEN 0
                    ELSE MinOf(s.quiet + 1, LongestInterframeSpace + ExtendedDelay)
           ac == [c \in Categories |->
                     [s.ac[c] EXCEPT
                         !.elapsed = IF s.macState = "WaitingForIfsAndBackoff"
                                        /\ s.ac[c].duration # INFINITE THEN @ + 1 ELSE @]]
           t == [s EXCEPT !.timer = Left(s.timer), !.nav = Left(s.nav),
                          !.permission = Left(s.permission), !.txLeft = Left(s.txLeft),
                          !.stale = LeftOnce(s.stale), !.idleFor = idleFor, !.quiet = quiet, !.ac = ac]
<1>1. Tick(s) = t  BY DEF Tick
<1>2. /\ Left(s.timer) \in Int /\ LeftOnce(s.stale) \in Int /\ Left(s.nav) \in Nat /\ Left(s.permission) \in Nat
      /\ Left(s.txLeft) \in Nat
  BY LeftTyped DEF StationTypes
<1>3. idleFor \in Nat /\ quiet \in Nat
  BY Timings, ExtremeInterframeSpaces DEF StationTypes, MinOf
<1>4. ac \in [Categories -> AccessCategoryInfos]
  <2> SUFFICES ASSUME NEW c \in Categories PROVE ac[c] \in AccessCategoryInfos
    OBVIOUS
  <2> DEFINE n == IF s.macState = "WaitingForIfsAndBackoff" /\ s.ac[c].duration # INFINITE
                  THEN s.ac[c].elapsed + 1 ELSE s.ac[c].elapsed
  <2>1. ac[c] = [s.ac[c] EXCEPT !.elapsed = n]  OBVIOUS
  <2>2. n \in Nat  BY DEF StationTypes, AccessCategoryInfos
  <2> HIDE DEF n, ac
  <2> QED  BY <2>1, <2>2, InfoTyped DEF AccessCategoryInfos
<1> HIDE DEF idleFor, quiet, ac
<1>5. t \in StationTypes
  BY <1>2, <1>3, <1>4 DEF StationTypes
<1>6. /\ t.permission = Left(s.permission) /\ t.txLeft = Left(s.txLeft)
      /\ t.timer = Left(s.timer) /\ t.stale = LeftOnce(s.stale)
      /\ t.nav = Left(s.nav) /\ t.macState = s.macState /\ t.phyState = s.phyState
      /\ t.outgoing = s.outgoing /\ t.failed = s.failed
  BY DEF StationTypes
<1> HIDE DEF t
<1> QED  BY <1>1, <1>5, <1>6

\* A frame that is sent in the permission stays in it as time passes.
LEMMA TickKeepsEnds ==
    ASSUME NEW s \in StationTypes, NothingIsDue(s), EndsInPermission(s),
           s.permission < INFINITE, IsTransmittingAFrame(s) => s.txLeft < INFINITE
    PROVE  LET t == Tick(s)
           IN  /\ EndsInPermission(t)
               /\ OutgoingTransmissionEnd(t) =
                      IF IsTransmittingAFrame(s) THEN OutgoingTransmissionEnd(s) - 1 ELSE 0
               /\ OutgoingTransmissionEnd(s) \in Nat
<1> DEFINE t == Tick(s)
           over == IF s.outgoing = "DATA" THEN 0 ELSE Overrun
<1>1. /\ t.permission = Left(s.permission) /\ t.txLeft = Left(s.txLeft)
      /\ t.phyState = s.phyState /\ t.outgoing = s.outgoing
  BY TickTyped
<1> HIDE DEF t
<1>2. s.permission \in Nat /\ s.txLeft \in Nat /\ FrameDuration(s.outgoing) \in Nat
      /\ over \in Nat
  BY Timings DEF StationTypes, FrameDuration, Overrun
<1>3. CASE ~IsTransmittingAFrame(s)
  <2>1. ~IsTransmittingAFrame(t)  BY <1>1, <1>3 DEF IsTransmittingAFrame
  <2>2. OutgoingTransmissionEnd(s) = 0 /\ OutgoingTransmissionEnd(t) = 0
    BY <1>3, <2>1 DEF IsTransmittingAFrame, OutgoingTransmissionEnd
  <2>3. EndsInPermission(t)  BY <2>1 DEF EndsInPermission
  <2> QED  BY <1>3, <2>2, <2>3 DEF t
<1>4. CASE IsTransmittingAFrame(s)
  <2>1. s.txLeft > 0 /\ t.txLeft = s.txLeft - 1
    BY <1>1, <1>2, <1>4, LeftTyped DEF NothingIsDue
  <2>2. OutgoingTransmissionEnd(s) \in Nat
        /\ OutgoingTransmissionEnd(t) = OutgoingTransmissionEnd(s) - 1
    BY <1>1, <1>2, <1>4, <2>1 DEF OutgoingTransmissionEnd, IsTransmittingAFrame
  <2>3. OutgoingTransmissionEnd(s) < s.permission + over
    BY <1>2, <1>4 DEF EndsInPermission
  <2>4. t.permission \in Nat /\ t.permission >= s.permission - 1
    BY <1>1, <1>2, LeftTyped
  <2> HIDE DEF over
  <2>5. OutgoingTransmissionEnd(t) < t.permission + over
    BY <1>2, <2>2, <2>3, <2>4
  <2>6. EndsInPermission(t)  BY <1>1, <2>5 DEF EndsInPermission, over
  <2> QED  BY <1>4, <2>2, <2>6 DEF t
<1> QED  BY <1>3, <1>4

\* A station begins well typed and idle.
LEMMA InitialTyped ==
    /\ InitialStation \in StationTypes
    /\ ~IsTransmittingAFrame(InitialStation) /\ InitialStation.macState = "Idle"
<1>1. 0 \in Categories  BY Timings DEF Categories
<1> DEFINE ac == [c \in Categories |->
        [window |-> MinWindow[c], slots |-> 0, duration |-> INFINITE, elapsed |-> 0,
         jumping |-> FALSE, hasPacketToSend |-> FALSE, shortRetries |-> 0,
         longRetries |-> 0, packet |-> NONE, queued |-> 0]]
<1>2. ac \in [Categories -> AccessCategoryInfos]
  BY Windows, Timings DEF AccessCategoryInfos
<1>3. InitialStation = [
          macState |-> "Idle", timer |-> INFINITE, stale |-> INFINITE, nav |-> 0,
          permission |-> INFINITE, idleFor |-> 0, corrupt |-> FALSE,
          last |-> 0, lastSent |-> "SHORT", ac |-> ac,
          phyState |-> "Scanning", sensing |-> FALSE, receiving |-> NONE,
          loud |-> FALSE, others |-> 0,
          outgoing |-> NONE, txLeft |-> 0, sent |-> NONE,
          quiet |-> 0, gap |-> 0, failed |-> FALSE]
  BY DEF InitialStation
<1> HIDE DEF ac
<1>4. INFINITE \in Int /\ INFINITE \in Nat  BY Timings
<1> QED  BY <1>1, <1>2, <1>3, <1>4 DEF StationTypes, MacStates, PhyStates, IsTransmittingAFrame

==============================================================================
