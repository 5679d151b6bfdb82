------------------------- MODULE Dot11BlockAck_proofs -------------------------
(***************************************************************************)
(* The safety of the Block Ack protocol between one transmitter and one    *)
(* receiver, for any window, any retry limit and any run that the numbers  *)
(* suffice for.                                                            *)
(*                                                                         *)
(* The two sides never agree on more than numbers modulo SeqMod.  The      *)
(* invariant says how the window of the receiver lies to the frames in the *)
(* hands of the transmitter: whatever is not in its hands has been         *)
(* received, or lies before the packet d that was given up last, and then  *)
(* a block ack request that says so is due.                                *)
(***************************************************************************)
EXTENDS Dot11BlockAck, Dot11IncomingBuffer_proofs, SequenceTheorems

(* 1. What the operations of the transmitter do with its frames and their   *)
(* numbers.  Packets are numbered from 1 on as they are queued.  The        *)
(* invariant gives every packet the number it has for the receiver: f + p   *)
(* for packet p.  The transmitter itself only knows it modulo SeqMod.       *)

Elements(seq) == {seq[i] : i \in DOMAIN seq}

Increasing(frames) == \A i, j \in DOMAIN frames : i < j => frames[i].id < frames[j].id

\* The frame that is or was sent alone, and the frames of an aggregate.
Single(s) ==
    ({s.currentPacket} \ {NoFrame})
    \cup (IF s.lastSentFrameWasAn = "AggregateFrame" THEN {} ELSE Elements(s.lastTransmitted))

Aggregated(s) ==
    Elements(s.currentAggregateFrame)
    \cup (IF s.lastSentFrameWasAn = "AggregateFrame" THEN Elements(s.lastTransmitted) ELSE {})

HeldFrames(s) == Single(s) \cup Aggregated(s)

Held(s) == Ids(HeldFrames(s))

\* Where the frames are while the transmitter waits for a reply.
PlacesOK(s) ==
    /\ ~s.waitingForAck => s.lastTransmitted = <<>>
    /\ s.waitingForAck => ~s.backoff /\ s.hasPacketToSend
    /\ s.waitingForAck /\ s.lastSentFrameWasAn = "ShortFrame" =>
           s.currentPacket = NoFrame /\ Len(s.lastTransmitted) = 1
    /\ s.waitingForAck /\ s.lastSentFrameWasAn = "AggregateFrame" =>
           HoldsNothing(s) /\ s.lastTransmitted # <<>>
    /\ s.waitingForAck /\ s.lastSentFrameWasAn = "BlockAckRequestFrame" =>
           s.currentPacket # NoFrame /\ s.lastTransmitted = <<>>

\* When a block ack request is due, and when it is sent.
RequestOK(s) ==
    /\ s.blockAckRequestNeedsToBeSent => s.blockAckSessionIsEnabled
    /\ Aggregated(s) # {} => s.blockAckSessionIsEnabled
    /\ s.waitingForAck =>
           (s.blockAckRequestNeedsToBeSent <=> s.lastSentFrameWasAn = "BlockAckRequestFrame")
    /\ s.currentAggregateFrame # <<>> /\ ~s.protect =>
           Single(s) = {} /\ ~s.blockAckRequestNeedsToBeSent

\* The first packets, "taken" of them, have their number; the others are queued.
NumbersOK(s, f, taken, queued) ==
    /\ s.outgoingSequenceNumber = (f + taken) % SeqMod
    /\ taken \in Nat /\ queued \in Nat /\ Len(s.networkOutputQueue) = queued - taken
    /\ \A i \in 1 .. queued - taken : s.networkOutputQueue[i] = taken + i
    /\ \A g \in HeldFrames(s) :
           /\ 1 <= g.id /\ g.id <= taken /\ taken - g.id < W
           /\ g.seq = (f + g.id) % SeqMod
    /\ ~s.blockAckSessionIsEnabled => \A g \in HeldFrames(s) : g.id = taken

\* The frames are held in the order of their packets.
OrderOK(s) ==
    /\ Increasing(s.currentAggregateFrame)
    /\ Increasing(s.lastTransmitted)
    /\ \A g \in Single(s), h \in Aggregated(s) : g.id < h.id

\* d is the packet given up last, and first the one that waited for the session to open.
DropOK(s, f, taken, d, first) ==
    /\ d \in Int /\ -1 <= d /\ d <= taken
    /\ first \in Nat /\ first <= taken
    /\ ~s.blockAckSessionIsEnabled => first = 0
    /\ \A g \in Aggregated(s) : g.id > first
    /\ s.blockAckRequestNeedsToBeSent =>
           /\ s.lastDroppedFrameSequenceNumber = (f + d) % SeqMod
           /\ \A g \in HeldFrames(s) : g.id > d \/ (g.id = first /\ g.id = d)

SenderOK(s, f, taken, queued, d, first) ==
    /\ s \in Senders /\ f \in Int
    /\ PlacesOK(s) /\ RequestOK(s)
    /\ NumbersOK(s, f, taken, queued)
    /\ OrderOK(s)
    /\ DropOK(s, f, taken, d, first)

-----------------------------------------------------------------------------
(* Sequences and records. *)

\* The empty sequence has no elements.
LEMMA EmptyElements == Elements(<<>>) = {} /\ Increasing(<<>>)
BY DEF Elements, Increasing

\* What the elements of a sequence have to do with its length.
LEMMA ElementsOf ==
    ASSUME NEW S, NEW seq \in Seq(S)
    PROVE  /\ Elements(seq) \subseteq S
           /\ Len(seq) \in Nat /\ DOMAIN seq = 1 .. Len(seq)
           /\ seq = <<>> <=> Elements(seq) = {}
           /\ seq = <<>> <=> Len(seq) = 0
BY DEF Elements

\* The fields of a transmitter have their types,
LEMMA SenderTypes ==
    ASSUME NEW s \in Senders
    PROVE  /\ s.outgoingSequenceNumber \in SequenceNumbers
           /\ s.windowStartSequenceNumber \in SequenceNumbers
           /\ s.lastDroppedFrameSequenceNumber \in SequenceNumbers
           /\ s.blockAckSessionIsEnabled \in BOOLEAN
           /\ s.blockAckRequestNeedsToBeSent \in BOOLEAN
           /\ s.networkOutputQueue \in Seq(Nat)
           /\ s.currentPacket \in Frames \cup {NoFrame}
           /\ s.currentAggregateFrame \in Seq(Frames)
           /\ s.currentShortFrameRetryCount \in Nat
           /\ s.currentAggregateFrameRetryCount \in Nat
           /\ s.hasPacketToSend \in BOOLEAN
           /\ s.backoff \in BOOLEAN
           /\ s.protect \in BOOLEAN
           /\ s.waitingForAck \in BOOLEAN
           /\ s.lastSentFrameWasAn \in {"ShortFrame", "AggregateFrame", "BlockAckRequestFrame"}
           /\ s.lastTransmitted \in Seq(Frames)
           /\ s.inTxop \in BOOLEAN
           /\ s.ackedInTxop \in BOOLEAN
BY DEF Senders

\* and so do those of a frame.
LEMMA FrameTypes ==
    ASSUME NEW g \in Frames
    PROVE  g.id \in Nat /\ g.seq \in SequenceNumbers /\ g # NoFrame
BY NoFrameAssumption DEF Frames

\* Where the frames are when no reply is awaited,
LEMMA RestingFrames ==
    ASSUME NEW s \in Senders, PlacesOK(s), ~s.waitingForAck
    PROVE  /\ Single(s) = {s.currentPacket} \ {NoFrame}
           /\ Aggregated(s) = Elements(s.currentAggregateFrame)
           /\ s.lastTransmitted = <<>>
BY EmptyElements DEF PlacesOK, Single, Aggregated

\* and when one is.
LEMMA WaitingFrames ==
    ASSUME NEW s \in Senders, PlacesOK(s), s.waitingForAck
    PROVE  /\ s.lastSentFrameWasAn = "ShortFrame" =>
                  /\ s.lastTransmitted[1] \in Frames /\ DOMAIN s.lastTransmitted = {1}
                  /\ s.lastTransmitted # <<>> /\ Head(s.lastTransmitted) = s.lastTransmitted[1]
                  /\ Elements(s.lastTransmitted) = {s.lastTransmitted[1]}
                  /\ Single(s) = {s.lastTransmitted[1]}
                  /\ Aggregated(s) = Elements(s.currentAggregateFrame)
           /\ s.lastSentFrameWasAn = "AggregateFrame" =>
                  /\ Single(s) = {}
                  /\ Aggregated(s) = Elements(s.lastTransmitted)
           /\ s.lastSentFrameWasAn = "BlockAckRequestFrame" =>
                  /\ s.currentPacket \in Frames
                  /\ Single(s) = {s.currentPacket}
                  /\ Aggregated(s) = Elements(s.currentAggregateFrame)
<1>1. /\ s.lastTransmitted \in Seq(Frames)
      /\ s.currentAggregateFrame \in Seq(Frames)
      /\ s.currentPacket \in Frames \cup {NoFrame}
  BY SenderTypes
<1>2. CASE s.lastSentFrameWasAn = "ShortFrame"
  <2>1. s.currentPacket = NoFrame /\ Len(s.lastTransmitted) = 1  BY <1>2 DEF PlacesOK
  <2>2. s.lastTransmitted[1] \in Frames /\ DOMAIN s.lastTransmitted = {1}  BY <1>1, <2>1
  <2>3. Elements(s.lastTransmitted) = {s.lastTransmitted[1]}  BY <2>2 DEF Elements
  <2>4. s.lastTransmitted # <<>>
    <3>1. Len(<<>>) = 0  OBVIOUS
    <3> QED  BY <2>1, <3>1
  <2>5. Head(s.lastTransmitted) = s.lastTransmitted[1]  OBVIOUS
  <2> QED  BY <1>2, <2>1, <2>2, <2>3, <2>4, <2>5 DEF Single, Aggregated
<1>3. CASE s.lastSentFrameWasAn = "AggregateFrame"
  BY <1>3, EmptyElements DEF PlacesOK, HoldsNothing, Single, Aggregated
<1>4. CASE s.lastSentFrameWasAn = "BlockAckRequestFrame"
  BY <1>1, <1>4, EmptyElements DEF PlacesOK, Single, Aggregated
<1> QED  BY <1>2, <1>3, <1>4

-----------------------------------------------------------------------------
(* Access to the medium. *)

\* c is s but for what decides about the access to the medium.
SameFrames(s, c) ==
    /\ c.outgoingSequenceNumber = s.outgoingSequenceNumber
    /\ c.lastDroppedFrameSequenceNumber = s.lastDroppedFrameSequenceNumber
    /\ c.blockAckSessionIsEnabled = s.blockAckSessionIsEnabled
    /\ c.blockAckRequestNeedsToBeSent = s.blockAckRequestNeedsToBeSent
    /\ c.currentPacket = s.currentPacket
    /\ c.currentAggregateFrame = s.currentAggregateFrame
    /\ c.protect = s.protect
    /\ c.waitingForAck = s.waitingForAck
    /\ c.lastSentFrameWasAn = s.lastSentFrameWasAn
    /\ c.lastTransmitted = s.lastTransmitted

\* What is held depends only on where the frames are.
LEMMA SameFramesHeld ==
    ASSUME NEW s, NEW c, SameFrames(s, c)
    PROVE  /\ Single(c) = Single(s) /\ Aggregated(c) = Aggregated(s)
           /\ HeldFrames(c) = HeldFrames(s) /\ Held(c) = Held(s)
BY DEF SameFrames, Single, Aggregated, HeldFrames, Held

\* A step of the channel access alone leaves the frames consistent.
LEMMA AccessOK ==
    ASSUME NEW s, NEW f, NEW taken, NEW queued, NEW d, NEW first,
           SenderOK(s, f, taken, queued, d, first), ~s.waitingForAck,
           NEW c \in Senders, SameFrames(s, c), c.networkOutputQueue = s.networkOutputQueue
    PROVE  SenderOK(c, f, taken, queued, d, first)
<1>1. PlacesOK(c)  BY DEF SenderOK, SameFrames, PlacesOK
<1>2. RequestOK(c)  BY SameFramesHeld DEF SenderOK, SameFrames, RequestOK
<1>3. NumbersOK(c, f, taken, queued)  BY SameFramesHeld DEF SenderOK, SameFrames, NumbersOK
<1>4. OrderOK(c)  BY SameFramesHeld DEF SenderOK, SameFrames, OrderOK
<1>5. DropOK(c, f, taken, d, first)  BY SameFramesHeld DEF SenderOK, SameFrames, DropOK
<1> QED  BY <1>1, <1>2, <1>3, <1>4, <1>5 DEF SenderOK

\* Starting the access changes only the fields of the access.
LEMMA StartPacketSendProcessFields ==
    ASSUME NEW s \in Senders, NEW force \in BOOLEAN
    PROVE  LET c == StartPacketSendProcess(s, force)
           IN /\ c \in Senders /\ SameFrames(s, c)
              /\ c.networkOutputQueue = s.networkOutputQueue
              /\ c.ackedInTxop = s.ackedInTxop
<1> DEFINE has == IF HoldsNothing(s) THEN ThereAreQueuedPackets(s) ELSE s.hasPacketToSend
           h == [s EXCEPT !.hasPacketToSend = has]
           c == StartPacketSendProcess(s, force)
<1>1. has \in BOOLEAN  BY SenderTypes DEF ThereAreQueuedPackets
<1>2. c = IF force \/ h.hasPacketToSend THEN [h EXCEPT !.backoff = TRUE] ELSE h
  BY DEF StartPacketSendProcess
<1> HIDE DEF has, c
<1>3. h \in Senders /\ SameFrames(s, h)
      /\ h.networkOutputQueue = s.networkOutputQueue /\ h.ackedInTxop = s.ackedInTxop
  BY <1>1 DEF Senders, SameFrames
<1>4. [h EXCEPT !.backoff = TRUE] \in Senders /\ SameFrames(h, [h EXCEPT !.backoff = TRUE])
      /\ [h EXCEPT !.backoff = TRUE].networkOutputQueue = h.networkOutputQueue
      /\ [h EXCEPT !.backoff = TRUE].ackedInTxop = h.ackedInTxop
  <2> HIDE DEF h
  <2> QED  BY <1>3 DEF Senders, SameFrames
<1> HIDE DEF h
<1> QED  BY <1>2, <1>3, <1>4 DEF SameFrames, c

\* A packet that is queued waits behind the others.
LEMMA NotificationOK ==
    ASSUME NEW s, NEW f, NEW taken, NEW queued, NEW d, NEW first,
           SenderOK(s, f, taken, queued, d, first)
    PROVE  LET c == NetworkLayerQueueChangeNotification(s, queued + 1)
           IN SenderOK(c, f, taken, queued + 1, d, first) /\ SameFrames(s, c)
<1> DEFINE q == [s EXCEPT !.networkOutputQueue = Append(@, queued + 1)]
           c == NetworkLayerQueueChangeNotification(s, queued + 1)
<1>1. s \in Senders /\ taken \in Nat /\ queued \in Nat  BY DEF SenderOK, NumbersOK
<1>2. s.networkOutputQueue \in Seq(Nat)  BY <1>1, SenderTypes
<1>3. PICK longer \in Seq(Nat) :
         /\ longer = Append(s.networkOutputQueue, queued + 1)
         /\ Len(longer) = Len(s.networkOutputQueue) + 1
         /\ \A i \in 1 .. Len(s.networkOutputQueue) : longer[i] = s.networkOutputQueue[i]
         /\ longer[Len(s.networkOutputQueue) + 1] = queued + 1
  <2>1. PICK old \in Seq(Nat), new \in Nat : old = s.networkOutputQueue /\ new = queued + 1
    BY <1>1, <1>2
  <2>2. /\ Append(old, new) \in Seq(Nat) /\ Len(Append(old, new)) = Len(old) + 1
        /\ \A i \in 1 .. Len(old) : Append(old, new)[i] = old[i]
        /\ Append(old, new)[Len(old) + 1] = new
    BY AppendProperties
  <2> QED  BY <2>1, <2>2
<1>4. q = [s EXCEPT !.networkOutputQueue = longer]  BY <1>3
<1> HIDE DEF q
<1>5. q \in Senders /\ SameFrames(s, q) /\ q.networkOutputQueue = longer
      /\ q.backoff = s.backoff /\ q.hasPacketToSend = s.hasPacketToSend
  BY <1>1, <1>4 DEF Senders, SameFrames
<1>6. NumbersOK(q, f, taken, queued + 1)
  <2>1. NumbersOK(s, f, taken, queued)  BY DEF SenderOK
  <2>2. Len(longer) = queued + 1 - taken /\ Len(s.networkOutputQueue) = queued - taken
    BY <1>1, <1>3, <2>1 DEF NumbersOK
  <2>3. \A i \in 1 .. queued + 1 - taken : longer[i] = taken + i
    BY <1>1, <1>3, <2>1, <2>2 DEF NumbersOK
  <2> QED  BY <1>1, <1>5, <2>1, <2>2, <2>3, SameFramesHeld DEF SameFrames, NumbersOK
<1>7. SenderOK(q, f, taken, queued + 1, d, first)
  <2>1. PlacesOK(q)  BY <1>5 DEF SenderOK, SameFrames, PlacesOK, HoldsNothing
  <2>2. RequestOK(q)  BY <1>5, SameFramesHeld DEF SenderOK, SameFrames, RequestOK
  <2>3. OrderOK(q)  BY <1>5, SameFramesHeld DEF SenderOK, SameFrames, OrderOK
  <2>4. DropOK(q, f, taken, d, first)
    BY <1>5, SameFramesHeld DEF SenderOK, SameFrames, DropOK
  <2> QED  BY <1>5, <1>6, <2>1, <2>2, <2>3, <2>4 DEF SenderOK
<1>8. CASE s.backoff \/ s.hasPacketToSend
  <2>1. c = q  BY <1>8 DEF NetworkLayerQueueChangeNotification, q
  <2> QED  BY <1>5, <1>7, <2>1
<1>9. CASE ~(s.backoff \/ s.hasPacketToSend)
  <2>1. c = StartPacketSendProcess(q, FALSE)
    BY <1>9 DEF NetworkLayerQueueChangeNotification, q
  <2>2. ~q.waitingForAck  BY <1>5, <1>9 DEF SenderOK, PlacesOK, SameFrames
  <2>3. c \in Senders /\ SameFrames(q, c) /\ c.networkOutputQueue = q.networkOutputQueue
    BY <1>5, <2>1, StartPacketSendProcessFields
  <2> HIDE DEF c
  <2>4. SenderOK(c, f, taken, queued + 1, d, first)  BY <1>7, <2>2, <2>3, AccessOK
  <2>5. SameFrames(s, c)  BY <1>5, <2>3 DEF SameFrames
  <2> QED  BY <2>4, <2>5 DEF c
<1> QED  BY <1>8, <1>9

\* The end of the backoff leaves the frames where they are.
LEMMA AtBackoffTimeoutOK ==
    ASSUME NEW s, NEW f, NEW taken, NEW queued, NEW d, NEW first,
           SenderOK(s, f, taken, queued, d, first), ~s.waitingForAck
    PROVE  LET c == AtBackoffTimeout(s)
           IN /\ SenderOK(c, f, taken, queued, d, first) /\ SameFrames(s, c)
              /\ c.networkOutputQueue = s.networkOutputQueue
              /\ ~c.backoff
              /\ c.hasPacketToSend /\ HoldsNothing(c) => ThereAreQueuedPackets(c)
<1> DEFINE has == IF s.currentPacket = NoFrame THEN ThereAreQueuedPackets(s) ELSE s.hasPacketToSend
           c == AtBackoffTimeout(s)
<1>1. s \in Senders  BY DEF SenderOK
<1>2. has \in BOOLEAN  BY <1>1, SenderTypes DEF ThereAreQueuedPackets
<1>3. c = [s EXCEPT !.backoff = FALSE, !.hasPacketToSend = has]  BY DEF AtBackoffTimeout
<1>4. HoldsNothing(s) => has = ThereAreQueuedPackets(s)  BY DEF HoldsNothing
<1> HIDE DEF has, c
<1>5. /\ c \in Senders /\ SameFrames(s, c) /\ c.networkOutputQueue = s.networkOutputQueue
      /\ c.backoff = FALSE /\ c.hasPacketToSend = has
  BY <1>1, <1>2, <1>3 DEF Senders, SameFrames
<1>6. SenderOK(c, f, taken, queued, d, first)  BY <1>5, AccessOK
<1>7. c.hasPacketToSend /\ HoldsNothing(c) => ThereAreQueuedPackets(c)
  BY <1>4, <1>5 DEF SameFrames, HoldsNothing, ThereAreQueuedPackets
<1> QED  BY <1>5, <1>6, <1>7 DEF c

\* The start of a TXOP does too,
LEMMA StartTxopOK ==
    ASSUME NEW s, NEW f, NEW taken, NEW queued, NEW d, NEW first,
           SenderOK(s, f, taken, queued, d, first), ~s.waitingForAck, NEW granted \in BOOLEAN
    PROVE  LET c == StartTxop(s, granted)
           IN /\ SenderOK(c, f, taken, queued, d, first) /\ SameFrames(s, c)
              /\ c.networkOutputQueue = s.networkOutputQueue
              /\ c.backoff = s.backoff /\ c.hasPacketToSend = s.hasPacketToSend
              /\ ~c.ackedInTxop
<1> DEFINE c == StartTxop(s, granted)
<1>1. s \in Senders  BY DEF SenderOK
<1>2. /\ c \in Senders /\ SameFrames(s, c) /\ c.networkOutputQueue = s.networkOutputQueue
      /\ c.backoff = s.backoff /\ c.hasPacketToSend = s.hasPacketToSend
      /\ c.ackedInTxop = FALSE
  BY <1>1 DEF StartTxop, Senders, SameFrames
<1> HIDE DEF c
<1>3. SenderOK(c, f, taken, queued, d, first)  BY <1>2, AccessOK
<1> QED  BY <1>2, <1>3 DEF c

\* and so does its end.
LEMMA EndTxopOK ==
    ASSUME NEW s, NEW f, NEW taken, NEW queued, NEW d, NEW first,
           SenderOK(s, f, taken, queued, d, first), ~s.waitingForAck
    PROVE  LET c == EndTxop(s)
           IN /\ SenderOK(c, f, taken, queued, d, first) /\ SameFrames(s, c)
              /\ c.networkOutputQueue = s.networkOutputQueue
<1> DEFINE e == [s EXCEPT !.inTxop = FALSE]
           c == EndTxop(s)
<1>1. s \in Senders  BY DEF SenderOK
<1>2. e \in Senders /\ SameFrames(s, e) /\ e.networkOutputQueue = s.networkOutputQueue
  BY <1>1 DEF Senders, SameFrames
<1>3. c = StartPacketSendProcess(e, TRUE)  BY DEF EndTxop
<1> HIDE DEF e, c
<1>4. /\ c \in Senders /\ SameFrames(e, c) /\ c.networkOutputQueue = e.networkOutputQueue
  BY <1>2, <1>3, StartPacketSendProcessFields
<1>5. SameFrames(s, c)  BY <1>2, <1>4 DEF SameFrames
<1>6. SenderOK(c, f, taken, queued, d, first)  BY <1>2, <1>4, <1>5, AccessOK
<1> QED  BY <1>2, <1>4, <1>5, <1>6 DEF c

-----------------------------------------------------------------------------
(* From the queue to the air. *)

\* c is s but for the frames in hand.
SameAccess(s, c) ==
    /\ c.protect = s.protect
    /\ c.backoff = s.backoff
    /\ c.hasPacketToSend = s.hasPacketToSend
    /\ c.ackedInTxop = s.ackedInTxop
    /\ c.waitingForAck = s.waitingForAck
    /\ c.lastTransmitted = s.lastTransmitted

\* The packet taken from the queue gets the next number.
LEMMA TakePacketOK ==
    ASSUME NEW s, NEW f, NEW taken, NEW queued, NEW d, NEW first,
           SenderOK(s, f, taken, queued, d, first), ~s.waitingForAck,
           HoldsNothing(s), ThereAreQueuedPackets(s)
    PROVE  LET c == TakePacket(s)
           IN /\ SenderOK(c, f, taken + 1, queued, d, first) /\ SameAccess(s, c)
              /\ c.currentPacket \in Frames /\ c.currentPacket.id = taken + 1
              /\ c.currentAggregateFrame = <<>>
              /\ c.windowStartSequenceNumber = c.outgoingSequenceNumber
              /\ HeldFrames(s) = {} /\ HeldFrames(c) = {c.currentPacket}
              /\ c.blockAckSessionIsEnabled = s.blockAckSessionIsEnabled
              /\ c.blockAckRequestNeedsToBeSent = s.blockAckRequestNeedsToBeSent
<1> DEFINE seq == IncrementTwelveBitSequenceNumber(s.outgoingSequenceNumber)
           frame == [seq |-> seq, id |-> Head(s.networkOutputQueue)]
           rest == Tail(s.networkOutputQueue)
           c == TakePacket(s)
<1>1. s \in Senders /\ f \in Int /\ PlacesOK(s) /\ RequestOK(s)
      /\ NumbersOK(s, f, taken, queued) /\ OrderOK(s) /\ DropOK(s, f, taken, d, first)
  BY DEF SenderOK
<1>2. W \in Nat /\ W > 0 /\ SeqMod \in Nat /\ SeqMod > 0  BY SequenceNumbersAssumption
<1>3. s.networkOutputQueue \in Seq(Nat) /\ s.networkOutputQueue # <<>>
      /\ Len(s.networkOutputQueue) = queued - taken /\ taken \in Nat /\ queued \in Nat
  BY <1>1, SenderTypes DEF ThereAreQueuedPackets, NumbersOK
<1>4. rest \in Seq(Nat) /\ Len(rest) = queued - taken - 1
      /\ \A i \in 1 .. queued - taken - 1 : rest[i] = s.networkOutputQueue[i + 1]
  BY <1>3, HeadTailProperties
<1>5. Head(s.networkOutputQueue) = taken + 1 /\ queued - taken >= 1
  <2>1. queued - taken >= 1  BY <1>3, <1>4
  <2>2. Head(s.networkOutputQueue) = s.networkOutputQueue[1]  OBVIOUS
  <2> QED  BY <1>1, <1>3, <2>1, <2>2 DEF NumbersOK
<1>6. \A i \in 1 .. queued - (taken + 1) : rest[i] = taken + 1 + i
  BY <1>1, <1>3, <1>4 DEF NumbersOK
<1>7. seq \in SequenceNumbers /\ seq = (f + (taken + 1)) % SeqMod
  <2>1. PICK x \in Int, y \in Int : x = s.outgoingSequenceNumber /\ y = f + taken
    BY <1>1, <1>3, SenderTypes DEF SequenceNumbers
  <2>2. x = y % SeqMod  BY <1>1, <2>1 DEF NumbersOK
  <2>3. y % SeqMod = (y % SeqMod) % SeqMod  BY <1>2, <2>1
  <2>4. (y + 1) % SeqMod = (x + 1) % SeqMod  BY <2>1, <2>2, <2>3, SameRemainder
  <2>5. y + 1 = f + (taken + 1)  BY <1>1, <1>3, <2>1
  <2>6. (x + 1) % SeqMod \in SequenceNumbers  BY <1>2, <2>1 DEF SequenceNumbers
  <2> QED  BY <2>1, <2>4, <2>5, <2>6 DEF IncrementTwelveBitSequenceNumber
<1>8. frame \in Frames /\ frame.id = taken + 1 /\ frame.seq = seq
  BY <1>3, <1>5, <1>7 DEF Frames
<1>9. c = [s EXCEPT !.outgoingSequenceNumber = seq, !.windowStartSequenceNumber = seq,
                    !.networkOutputQueue = rest, !.currentPacket = frame,
                    !.currentShortFrameRetryCount = 0]
  BY DEF TakePacket
<1> HIDE DEF seq, frame, rest, c
<1>10. /\ c \in Senders /\ SameAccess(s, c)
       /\ c.outgoingSequenceNumber = seq /\ c.windowStartSequenceNumber = seq
       /\ c.networkOutputQueue = rest /\ c.currentPacket = frame
       /\ c.currentAggregateFrame = s.currentAggregateFrame
       /\ c.blockAckSessionIsEnabled = s.blockAckSessionIsEnabled
       /\ c.blockAckRequestNeedsToBeSent = s.blockAckRequestNeedsToBeSent
       /\ c.lastDroppedFrameSequenceNumber = s.lastDroppedFrameSequenceNumber
  BY <1>1, <1>4, <1>7, <1>8, <1>9 DEF Senders, SameAccess
<1>11. HeldFrames(s) = {}
  BY <1>1, RestingFrames, EmptyElements DEF HoldsNothing, HeldFrames
<1>12. PlacesOK(c)  BY <1>1, <1>10 DEF PlacesOK, SameAccess
<1>13. Single(c) = {frame} /\ Aggregated(c) = {} /\ HeldFrames(c) = {frame}
       /\ c.lastTransmitted = <<>> /\ c.currentAggregateFrame = <<>>
  BY <1>8, <1>10, <1>12, RestingFrames, EmptyElements, FrameTypes
  DEF SameAccess, HoldsNothing, HeldFrames
<1>14. RequestOK(c)  BY <1>1, <1>10, <1>13 DEF RequestOK, SameAccess
<1>15. NumbersOK(c, f, taken + 1, queued)
  <2>1. \A g \in HeldFrames(c) :
           /\ 1 <= g.id /\ g.id <= taken + 1 /\ taken + 1 - g.id < W
           /\ g.seq = (f + g.id) % SeqMod /\ g.id = taken + 1
    BY <1>2, <1>3, <1>7, <1>8, <1>13
  <2>2. c.outgoingSequenceNumber = (f + (taken + 1)) % SeqMod  BY <1>7, <1>10
  <2>3. taken + 1 \in Nat /\ Len(c.networkOutputQueue) = queued - (taken + 1)
    BY <1>3, <1>4, <1>10
  <2>4. \A i \in 1 .. queued - (taken + 1) : c.networkOutputQueue[i] = taken + 1 + i
    BY <1>6, <1>10
  <2> QED  BY <1>3, <2>1, <2>2, <2>3, <2>4 DEF NumbersOK
<1>16. OrderOK(c)  BY <1>13, EmptyElements DEF OrderOK
<1>17. DropOK(c, f, taken + 1, d, first)
  BY <1>1, <1>3, <1>8, <1>10, <1>13 DEF DropOK
<1> QED
  BY <1>1, <1>8, <1>10, <1>11, <1>12, <1>13, <1>14, <1>15, <1>16, <1>17 DEF SenderOK, c

\* A session is enabled for the packet in hand, which the request will speak for.
LEMMA EnableSessionOK ==
    ASSUME NEW s, NEW f, NEW taken, NEW queued, NEW d, NEW first,
           SenderOK(s, f, taken, queued, d, first), ~s.waitingForAck,
           ~s.blockAckSessionIsEnabled, s.currentPacket \in Frames,
           s.currentAggregateFrame = <<>>
    PROVE  LET c == EnableSession(s)
           IN /\ SenderOK(c, f, taken, queued, taken, taken) /\ SameAccess(s, c)
              /\ c.currentPacket = s.currentPacket /\ s.currentPacket.id = taken
              /\ c.currentAggregateFrame = <<>>
              /\ HeldFrames(s) = {s.currentPacket} /\ HeldFrames(c) = {s.currentPacket}
              /\ c.blockAckSessionIsEnabled /\ c.blockAckRequestNeedsToBeSent
<1> DEFINE c == EnableSession(s)
<1>1. s \in Senders /\ f \in Int /\ PlacesOK(s) /\ RequestOK(s)
      /\ NumbersOK(s, f, taken, queued) /\ OrderOK(s) /\ DropOK(s, f, taken, d, first)
  BY DEF SenderOK
<1>2. s.outgoingSequenceNumber \in SequenceNumbers  BY <1>1, SenderTypes
<1>3. c = [s EXCEPT !.blockAckRequestNeedsToBeSent = TRUE, !.blockAckSessionIsEnabled = TRUE,
                    !.lastDroppedFrameSequenceNumber = s.outgoingSequenceNumber]
  BY DEF EnableSession
<1> HIDE DEF c
<1>4. /\ c \in Senders /\ SameAccess(s, c)
      /\ c.outgoingSequenceNumber = s.outgoingSequenceNumber
      /\ c.networkOutputQueue = s.networkOutputQueue /\ c.currentPacket = s.currentPacket
      /\ c.currentAggregateFrame = s.currentAggregateFrame
      /\ c.blockAckSessionIsEnabled = TRUE
      /\ c.blockAckRequestNeedsToBeSent = TRUE
      /\ c.lastDroppedFrameSequenceNumber = s.outgoingSequenceNumber
  BY <1>1, <1>2, <1>3 DEF Senders, SameAccess
<1>5. PlacesOK(c)  BY <1>1, <1>4 DEF PlacesOK, SameAccess
<1>6. /\ Single(s) = {s.currentPacket} /\ Aggregated(s) = {}
      /\ Single(c) = {s.currentPacket} /\ Aggregated(c) = {}
      /\ s.lastTransmitted = <<>> /\ c.lastTransmitted = <<>>
  BY <1>1, <1>4, <1>5, RestingFrames, EmptyElements, FrameTypes DEF SameAccess
<1>7. HeldFrames(s) = {s.currentPacket} /\ HeldFrames(c) = {s.currentPacket}
  BY <1>6 DEF HeldFrames
<1>8. s.currentPacket.id = taken /\ taken \in Nat  BY <1>1, <1>7 DEF NumbersOK
<1>9. RequestOK(c)  BY <1>1, <1>4, <1>6 DEF RequestOK, SameAccess
<1>10. NumbersOK(c, f, taken, queued)  BY <1>1, <1>4, <1>7 DEF NumbersOK
<1>11. OrderOK(c)  BY <1>4, <1>6, EmptyElements DEF OrderOK
<1>12. DropOK(c, f, taken, taken, taken)
  BY <1>1, <1>4, <1>6, <1>7, <1>8 DEF DropOK, NumbersOK
<1> QED  BY <1>1, <1>4, <1>5, <1>7, <1>8, <1>9, <1>10, <1>11, <1>12 DEF SenderOK, c

\* The number k places after one known modulo SeqMod.
LEMMA LaterNumber ==
    ASSUME NEW n \in Int, NEW x \in SequenceNumbers, x = n % SeqMod, NEW k \in Int
    PROVE  (x + k) % SeqMod = (n + k) % SeqMod /\ (x + k) % SeqMod \in SequenceNumbers
<1>1. SeqMod \in Nat /\ SeqMod > 0  BY SequenceNumbersAssumption
<1>2. x \in Int  BY <1>1 DEF SequenceNumbers
<1>3. n % SeqMod = (n % SeqMod) % SeqMod  BY <1>1
<1>4. (x + k) % SeqMod = (n + k) % SeqMod  BY <1>2, <1>3, SameRemainder
<1>5. (x + k) % SeqMod \in SequenceNumbers  BY <1>1, <1>2 DEF SequenceNumbers
<1> QED  BY <1>4, <1>5

\* s has a packet in hand that may begin an aggregate.
BeginsAggregate(s, f, taken, queued, d, first) ==
    /\ SenderOK(s, f, taken, queued, d, first) /\ ~s.waitingForAck
    /\ s.currentPacket \in Frames /\ s.currentPacket.id = taken /\ first < taken
    /\ s.currentAggregateFrame = <<>>
    /\ s.blockAckSessionIsEnabled /\ ~s.blockAckRequestNeedsToBeSent
    /\ s.windowStartSequenceNumber = s.outgoingSequenceNumber

\* An aggregate has the frames of the current packet and of the next ones.
LEMMA BuildAggregateOK ==
    ASSUME NEW s, NEW f, NEW taken, NEW queued, NEW d, NEW first,
           BeginsAggregate(s, f, taken, queued, d, first),
           NEW more, more \in FramesThatFit(s), more # 0
    PROVE  LET c == BuildAggregateFrameFromCurrentFrame(s, more)
           IN /\ more \in Nat
              /\ SenderOK(c, f, taken + more, queued, d, first) /\ SameAccess(s, c)
              /\ c.currentPacket = NoFrame /\ c.currentAggregateFrame # <<>>
              /\ c.blockAckSessionIsEnabled /\ ~c.blockAckRequestNeedsToBeSent
              /\ Held(c) = taken .. taken + more
              /\ HeldFrames(s) = {s.currentPacket} /\ s.currentPacket \in HeldFrames(c)
<1> DEFINE out == (s.outgoingSequenceNumber + more) % SeqMod
           rest == SubSeq(s.networkOutputQueue, more + 1, Len(s.networkOutputQueue))
           others == [i \in 1 .. more |-> [seq |-> (s.outgoingSequenceNumber + i) % SeqMod,
                                           id |-> s.networkOutputQueue[i]]]
           frames == <<s.currentPacket>> \o others
           c == BuildAggregateFrameFromCurrentFrame(s, more)
<1>0. /\ SenderOK(s, f, taken, queued, d, first) /\ ~s.waitingForAck
      /\ s.currentPacket \in Frames /\ s.currentPacket.id = taken /\ first < taken
      /\ s.currentAggregateFrame = <<>>
      /\ s.blockAckSessionIsEnabled /\ ~s.blockAckRequestNeedsToBeSent
      /\ s.windowStartSequenceNumber = s.outgoingSequenceNumber
  BY DEF BeginsAggregate
<1>1. s \in Senders /\ f \in Int /\ PlacesOK(s) /\ RequestOK(s)
      /\ NumbersOK(s, f, taken, queued) /\ OrderOK(s) /\ DropOK(s, f, taken, d, first)
  BY <1>0 DEF SenderOK
<1> USE <1>0
<1>2. W \in Nat /\ W > 0 /\ SeqMod \in Nat /\ SeqMod > 2 * W  BY SequenceNumbersAssumption
<1>3. /\ s.networkOutputQueue \in Seq(Nat) /\ Len(s.networkOutputQueue) = queued - taken
      /\ taken \in Nat /\ queued \in Nat
      /\ \A i \in 1 .. queued - taken : s.networkOutputQueue[i] = taken + i
      /\ s.outgoingSequenceNumber \in SequenceNumbers
      /\ s.outgoingSequenceNumber = (f + taken) % SeqMod
  BY <1>1, SenderTypes DEF NumbersOK
<1>4. more \in Nat /\ more >= 1 /\ more < W /\ more <= queued - taken
  <2>1. CalcTwelveBitSequenceNumberDifference(s.outgoingSequenceNumber,
                                              s.outgoingSequenceNumber) = 0
    BY <1>2, <1>3
    DEF SequenceNumbers, CalcTwelveBitSequenceNumberDifference, TwelveBitSequenceNumberIsLessThan
  <2>2. CalcNumberFramesLeftInSequenceNumWindow(s) = W - 0 - 1
    BY <2>1 DEF CalcNumberFramesLeftInSequenceNumWindow
  <2>3. more \in 0 .. IF W - 0 - 1 < queued - taken THEN W - 0 - 1 ELSE queued - taken
    BY <1>3, <2>2 DEF FramesThatFit
  <2> QED  BY <1>2, <1>3, <2>3
<1>5. out \in SequenceNumbers /\ out = (f + (taken + more)) % SeqMod
  <2>1. f + taken \in Int /\ (f + taken) + more = f + (taken + more)  BY <1>1, <1>3, <1>4
  <2> QED  BY <1>3, <1>4, <2>1, LaterNumber
<1>6. /\ rest \in Seq(Nat) /\ Len(rest) = queued - (taken + more)
      /\ \A i \in 1 .. queued - (taken + more) : rest[i] = taken + more + i
  <2>1. PICK q \in Seq(Nat), m \in Nat : q = s.networkOutputQueue /\ m = more + 1
    BY <1>3, <1>4
  <2>2. Len(q) = queued - taken /\ m >= 1 /\ m <= Len(q) + 1  BY <1>3, <1>4, <2>1
  <2>3. /\ SubSeq(q, m, Len(q)) \in Seq(Nat) /\ Len(SubSeq(q, m, Len(q))) = Len(q) - m + 1
        /\ \A i \in 1 .. Len(q) - m + 1 : SubSeq(q, m, Len(q))[i] = q[m + i - 1]
    <3>1. Len(q) \in Nat /\ m \in Int /\ \A i \in m .. Len(q) : q[i] \in Nat  BY <2>1, <2>2
    <3>2. PICK l \in Nat : l = Len(q)  BY <3>1
    <3>3. \A i \in m .. l : q[i] \in Nat  BY <3>1, <3>2
    <3>4. /\ SubSeq(q, m, l) \in Seq(Nat) /\ Len(SubSeq(q, m, l)) = IF m <= l THEN l - m + 1 ELSE 0
          /\ \A i \in 1 .. l - m + 1 : SubSeq(q, m, l)[i] = q[m + i - 1]
      BY <3>2, <3>3, SubSeqProperties
    <3> QED  BY <2>2, <3>2, <3>4
  <2>4. /\ rest \in Seq(Nat) /\ Len(rest) = Len(q) - m + 1
        /\ \A i \in 1 .. Len(q) - m + 1 : rest[i] = q[m + i - 1]
    BY <2>1, <2>3
  <2> HIDE DEF rest
  <2>5. \A i \in 1 .. queued - (taken + more) : rest[i] = taken + more + i
    <3> SUFFICES ASSUME NEW i \in 1 .. queued - (taken + more) PROVE rest[i] = taken + more + i
      OBVIOUS
    <3>1. i \in 1 .. Len(q) - m + 1 /\ m + i - 1 = more + i  BY <1>3, <1>4, <2>1, <2>2
    <3>2. more + i \in 1 .. queued - taken  BY <1>3, <1>4
    <3>3. rest[i] = q[more + i]  BY <2>4, <3>1
    <3>4. q[more + i] = taken + (more + i)  BY <1>3, <2>1, <3>2
    <3> QED  BY <1>3, <1>4, <3>3, <3>4
  <2> QED  BY <1>3, <1>4, <2>1, <2>2, <2>4, <2>5
<1>7. \A i \in 1 .. more :
         /\ others[i] \in Frames /\ others[i].id = taken + i
         /\ others[i].seq = (f + (taken + i)) % SeqMod
  <2> SUFFICES ASSUME NEW i \in 1 .. more
               PROVE  /\ others[i] \in Frames /\ others[i].id = taken + i
                      /\ others[i].seq = (f + (taken + i)) % SeqMod
    OBVIOUS
  <2>1. f + taken \in Int /\ (f + taken) + i = f + (taken + i) /\ i \in Int
    BY <1>1, <1>3, <1>4
  <2>2. PICK y \in SequenceNumbers : /\ y = (s.outgoingSequenceNumber + i) % SeqMod
                                     /\ y = (f + (taken + i)) % SeqMod
    BY <1>3, <2>1, LaterNumber
  <2>3. s.networkOutputQueue[i] = taken + i /\ taken + i \in Nat
    <3>1. i \in 1 .. queued - taken  BY <1>3, <1>4
    <3> QED  BY <1>3, <3>1
  <2>4. others[i] = [seq |-> y, id |-> taken + i]  BY <2>2, <2>3
  <2> QED  BY <2>2, <2>3, <2>4 DEF Frames
<1>8. /\ frames \in Seq(Frames) /\ Len(frames) = more + 1 /\ frames[1] = s.currentPacket
      /\ \A i \in 1 .. more : frames[i + 1] = others[i]
  <2>1. others \in Seq(Frames) /\ Len(others) = more
    <3>1. DOMAIN others = 1 .. more  OBVIOUS
    <3>2. others = [i \in 1 .. more |-> others[i]]  OBVIOUS
    <3> HIDE DEF others
    <3> QED  BY <1>4, <1>7, <3>1, <3>2
  <2> HIDE DEF others
  <2>2. PICK one \in Seq(Frames) : one = <<s.currentPacket>>
    <3>1. <<s.currentPacket>> \in Seq(Frames)  OBVIOUS
    <3> QED  BY <3>1
  <2>3. Len(one) = 1 /\ one[1] = s.currentPacket  BY <2>2
  <2>4. /\ one \o others \in Seq(Frames) /\ Len(one \o others) = Len(one) + Len(others)
        /\ \A i \in 1 .. Len(one) : (one \o others)[i] = one[i]
        /\ \A i \in 1 .. Len(others) : (one \o others)[Len(one) + i] = others[i]
    <3>1. /\ one \o others \in Seq(Frames) /\ Len(one \o others) = Len(one) + Len(others)
          /\ \A i \in 1 .. Len(one) + Len(others) :
                (one \o others)[i] = IF i <= Len(one) THEN one[i] ELSE others[i - Len(one)]
      BY <2>1, ConcatProperties
    <3> QED  BY <1>4, <2>1, <2>3, <3>1
  <2>5. frames = one \o others  BY <2>2
  <2> HIDE DEF frames
  <2> QED  BY <1>4, <2>1, <2>3, <2>4, <2>5
<1>9. \A j \in 1 .. more + 1 :
         /\ frames[j] \in Frames /\ frames[j].id = taken + j - 1
         /\ frames[j].seq = (f + (taken + j - 1)) % SeqMod
  <2> HIDE DEF frames, others
  <2>1. /\ s.currentPacket \in Frames /\ s.currentPacket.id = taken
        /\ s.currentPacket.seq = (f + taken) % SeqMod
    BY <1>1, RestingFrames, FrameTypes DEF NumbersOK, HeldFrames
  <2> SUFFICES ASSUME NEW j \in 1 .. more + 1
               PROVE  /\ frames[j] \in Frames /\ frames[j].id = taken + j - 1
                      /\ frames[j].seq = (f + (taken + j - 1)) % SeqMod
    OBVIOUS
  <2>2. CASE j = 1  BY <1>1, <1>3, <1>8, <2>1, <2>2
  <2>3. CASE j # 1
    <3>1. PICK i \in 1 .. more : j = i + 1
      <4>1. j - 1 \in 1 .. more /\ j = (j - 1) + 1  BY <1>4, <2>3
      <4> QED  BY <4>1
    <3>2. taken + j - 1 = taken + i  BY <1>3, <3>1
    <3> QED  BY <1>7, <1>8, <3>1, <3>2
  <2> QED  BY <2>2, <2>3
<1>10. c = [s EXCEPT !.outgoingSequenceNumber = out, !.networkOutputQueue = rest,
                     !.currentPacket = NoFrame, !.currentAggregateFrame = frames,
                     !.currentAggregateFrameRetryCount = 0]
  BY DEF BuildAggregateFrameFromCurrentFrame
<1> HIDE DEF out, rest, others, frames, c
<1>11. /\ c \in Senders /\ SameAccess(s, c)
       /\ c.outgoingSequenceNumber = out /\ c.networkOutputQueue = rest
       /\ c.currentPacket = NoFrame /\ c.currentAggregateFrame = frames
       /\ c.blockAckSessionIsEnabled = s.blockAckSessionIsEnabled
       /\ c.blockAckRequestNeedsToBeSent = s.blockAckRequestNeedsToBeSent
       /\ c.lastDroppedFrameSequenceNumber = s.lastDroppedFrameSequenceNumber
  BY <1>1, <1>5, <1>6, <1>8, <1>10 DEF Senders, SameAccess
<1>12. PlacesOK(c)  BY <1>1, <1>11 DEF PlacesOK, SameAccess
<1>13. Single(c) = {} /\ Aggregated(c) = Elements(frames) /\ HeldFrames(c) = Elements(frames)
       /\ c.lastTransmitted = <<>>
  BY <1>11, <1>12, RestingFrames DEF SameAccess, HeldFrames
<1>14. frames # <<>> /\ DOMAIN frames = 1 .. more + 1
  <2>1. Len(<<>>) = 0  OBVIOUS
  <2> QED  BY <1>4, <1>8, <2>1
<1>15. Elements(frames) = {frames[j] : j \in 1 .. more + 1}  BY <1>14 DEF Elements
<1>16. RequestOK(c)  BY <1>1, <1>11, <1>13 DEF RequestOK, SameAccess
<1>17. \A g \in HeldFrames(c) :
          /\ taken <= g.id /\ g.id <= taken + more /\ g.id \in Nat
          /\ g.seq = (f + g.id) % SeqMod
  BY <1>3, <1>4, <1>9, <1>13, <1>15
<1>18. taken >= 1 /\ first \in Nat  BY <1>1, <1>3 DEF DropOK
<1>19. NumbersOK(c, f, taken + more, queued)
  <2>1. \A g \in HeldFrames(c) :
           /\ 1 <= g.id /\ g.id <= taken + more /\ (taken + more) - g.id < W
           /\ g.seq = (f + g.id) % SeqMod
    BY <1>2, <1>3, <1>4, <1>17, <1>18
  <2>2. taken + more \in Nat  BY <1>3, <1>4
  <2>3. c.blockAckSessionIsEnabled  BY <1>11
  <2>4. c.outgoingSequenceNumber = (f + (taken + more)) % SeqMod  BY <1>5, <1>11
  <2>5. /\ Len(c.networkOutputQueue) = queued - (taken + more)
        /\ \A i \in 1 .. queued - (taken + more) : c.networkOutputQueue[i] = taken + more + i
    BY <1>6, <1>11
  <2> QED  BY <1>3, <2>1, <2>2, <2>3, <2>4, <2>5, Zenon DEF NumbersOK
<1>20. OrderOK(c)
  <2>1. Increasing(frames)  BY <1>3, <1>4, <1>9, <1>14 DEF Increasing
  <2> QED  BY <1>11, <1>13, <2>1, EmptyElements DEF OrderOK
<1>21. DropOK(c, f, taken + more, d, first)
  BY <1>1, <1>3, <1>4, <1>11, <1>13, <1>17, <1>18 DEF DropOK
<1>22. Held(c) = taken .. taken + more
  <2>1. Ids(HeldFrames(c)) \subseteq taken .. taken + more  BY <1>3, <1>4, <1>17 DEF Ids
  <2>2. \A p \in taken .. taken + more : p \in Ids(HeldFrames(c))
    <3> SUFFICES ASSUME NEW p \in taken .. taken + more PROVE p \in Ids(HeldFrames(c))
      OBVIOUS
    <3>1. PICK j \in 1 .. more + 1 : p = taken + j - 1
      <4>1. p - taken + 1 \in 1 .. more + 1 /\ p = taken + (p - taken + 1) - 1  BY <1>3, <1>4
      <4> QED  BY <4>1
    <3>2. frames[j] \in HeldFrames(c) /\ frames[j].id = p  BY <1>9, <1>13, <1>15, <3>1
    <3> QED  BY <3>2 DEF Ids
  <2> QED  BY <2>1, <2>2 DEF Held
<1>23. HeldFrames(s) = {s.currentPacket} /\ s.currentPacket \in HeldFrames(c)
  <2>1. HeldFrames(s) = {s.currentPacket}
    BY <1>1, RestingFrames, EmptyElements, FrameTypes DEF HeldFrames
  <2>2. frames[1] \in Elements(frames)  BY <1>4, <1>15
  <2> QED  BY <1>8, <1>13, <2>1, <2>2
<1> QED
  BY <1>1, <1>4, <1>11, <1>12, <1>14, <1>16, <1>19, <1>20, <1>21, <1>22, <1>23 DEF SenderOK, c

-----------------------------------------------------------------------------
(* What is sent. *)

\* There is a single frame or, with no block ack request due, an aggregate.
HasFrame(s) == s.currentPacket = NoFrame =>
                  s.currentAggregateFrame # <<>> /\ ~s.blockAckRequestNeedsToBeSent

\* A sequence of one element.
LEMMA SequenceOfOne ==
    ASSUME NEW S, NEW x \in S
    PROVE  /\ <<x>> \in Seq(S) /\ Len(<<x>>) = 1 /\ <<x>>[1] = x /\ <<x>> # <<>>
           /\ Elements(<<x>>) = {x}
<1>1. Len(<<x>>) = 1 /\ <<x>>[1] = x /\ DOMAIN <<x>> = {1} /\ <<x>> \in Seq(S)  OBVIOUS
<1>2. <<x>> # <<>>
  <2>1. Len(<<>>) = 0  OBVIOUS
  <2> QED  BY <1>1, <2>1
<1> QED  BY <1>1, <1>2 DEF Elements

\* Taking the first frame of an aggregate out moves frames between places only.
LEMMA TakeOneOfAggregateOK ==
    ASSUME NEW s, NEW f, NEW taken, NEW queued, NEW d, NEW first,
           SenderOK(s, f, taken, queued, d, first), ~s.waitingForAck,
           s.currentPacket = NoFrame => s.currentAggregateFrame # <<>>,
           s.ackedInTxop => HasFrame(s)
    PROVE  LET c == TakeOneOfAggregate(s)
           IN /\ SenderOK(c, f, taken, queued, d, first) /\ ~c.waitingForAck
              /\ HasFrame(c) /\ HeldFrames(c) = HeldFrames(s)
              /\ c.blockAckSessionIsEnabled = s.blockAckSessionIsEnabled
              /\ c.blockAckRequestNeedsToBeSent = s.blockAckRequestNeedsToBeSent
              /\ c.backoff = s.backoff /\ c.hasPacketToSend = s.hasPacketToSend
<1> DEFINE frames == s.currentAggregateFrame
           c == TakeOneOfAggregate(s)
<1>1. s \in Senders /\ f \in Int /\ PlacesOK(s) /\ RequestOK(s)
      /\ NumbersOK(s, f, taken, queued) /\ OrderOK(s) /\ DropOK(s, f, taken, d, first)
  BY DEF SenderOK
<1>2. CASE s.protect /\ ~s.ackedInTxop /\ s.currentPacket = NoFrame
  <2>1. c = [s EXCEPT !.currentPacket = Head(frames), !.currentAggregateFrame = Tail(frames),
                      !.currentShortFrameRetryCount = s.currentAggregateFrameRetryCount]
    BY <1>2, Zenon DEF TakeOneOfAggregate
  <2>2. frames \in Seq(Frames) /\ frames # <<>> /\ s.currentAggregateFrameRetryCount \in Nat
    BY <1>1, <1>2, SenderTypes
  <2>3. PICK rest \in Seq(Frames), one \in Frames : rest = Tail(frames) /\ one = Head(frames)
    BY <2>2, HeadTailProperties
  <2>4. /\ Len(rest) = Len(frames) - 1
        /\ \A i \in 1 .. Len(rest) : rest[i] = frames[i + 1]
        /\ one = frames[1] /\ Len(frames) \in Nat /\ Len(frames) >= 1
    <3>1. Head(frames) = frames[1]  OBVIOUS
    <3>2. Len(frames) \in Nat /\ Len(frames) # 0  BY <2>2, ElementsOf
    <3> QED  BY <2>2, <2>3, <3>1, <3>2, HeadTailProperties
  <2>5. DOMAIN frames = 1 .. Len(frames) /\ DOMAIN rest = 1 .. Len(frames) - 1
    BY <2>2, <2>3, <2>4
  <2> HIDE DEF frames, c
  <2>6. /\ c \in Senders /\ c.waitingForAck = s.waitingForAck
        /\ c.currentPacket = one /\ c.currentAggregateFrame = rest
        /\ c.outgoingSequenceNumber = s.outgoingSequenceNumber
        /\ c.networkOutputQueue = s.networkOutputQueue
        /\ c.lastTransmitted = s.lastTransmitted /\ c.protect = s.protect
        /\ c.blockAckSessionIsEnabled = s.blockAckSessionIsEnabled
        /\ c.blockAckRequestNeedsToBeSent = s.blockAckRequestNeedsToBeSent
        /\ c.lastDroppedFrameSequenceNumber = s.lastDroppedFrameSequenceNumber
        /\ c.backoff = s.backoff /\ c.hasPacketToSend = s.hasPacketToSend
    <3>1. c = [s EXCEPT !.currentPacket = one, !.currentAggregateFrame = rest,
                        !.currentShortFrameRetryCount = s.currentAggregateFrameRetryCount]
      BY <2>1, <2>3
    <3> QED  BY <1>1, <2>2, <2>3, <3>1 DEF Senders
  <2>7. PlacesOK(c)  BY <1>1, <2>6 DEF PlacesOK
  <2>8. Elements(frames) = {one} \cup Elements(rest)
    <3>1. \A i \in 1 .. Len(frames) : frames[i] \in {one} \cup Elements(rest)
      <4> SUFFICES ASSUME NEW i \in 1 .. Len(frames) PROVE frames[i] \in {one} \cup Elements(rest)
        OBVIOUS
      <4>1. CASE i = 1  BY <2>4, <4>1
      <4>2. CASE i # 1
        <5>1. i - 1 \in 1 .. Len(rest) /\ (i - 1) + 1 = i  BY <2>4, <4>2
        <5>2. rest[i - 1] = frames[i]  BY <2>4, <5>1
        <5> QED  BY <2>4, <2>5, <5>1, <5>2 DEF Elements
      <4> QED  BY <4>1, <4>2
    <3>2. \A i \in 1 .. Len(rest) : rest[i] \in Elements(frames)
      BY <2>4, <2>5 DEF Elements
    <3>3. one \in Elements(frames)  BY <2>4, <2>5 DEF Elements
    <3> QED  BY <2>4, <2>5, <3>1, <3>2, <3>3 DEF Elements
  <2>9. Increasing(rest) /\ \A g \in Elements(rest) : one.id < g.id
    <3>1. Increasing(frames)  BY <1>1 DEF OrderOK, frames
    <3>2. Increasing(rest)
      <4> SUFFICES ASSUME NEW i \in DOMAIN rest, NEW j \in DOMAIN rest, i < j
                   PROVE  rest[i].id < rest[j].id
        BY DEF Increasing
      <4>1. /\ i \in 1 .. Len(rest) /\ j \in 1 .. Len(rest)
            /\ i + 1 \in DOMAIN frames /\ j + 1 \in DOMAIN frames /\ i + 1 < j + 1
        BY <2>4, <2>5
      <4>2. rest[i] = frames[i + 1] /\ rest[j] = frames[j + 1]  BY <2>4, <4>1
      <4> QED  BY <3>1, <4>1, <4>2 DEF Increasing
    <3>3. \A i \in 1 .. Len(rest) : one.id < rest[i].id
      BY <2>4, <2>5, <3>1 DEF Increasing
    <3> QED  BY <2>4, <2>5, <3>2, <3>3 DEF Elements
  <2>10. /\ Single(s) = {} /\ Aggregated(s) = Elements(frames) /\ s.lastTransmitted = <<>>
         /\ Single(c) = {one} /\ Aggregated(c) = Elements(rest) /\ HeldFrames(c) = HeldFrames(s)
    BY <1>1, <1>2, <2>3, <2>6, <2>7, <2>8, RestingFrames, FrameTypes DEF HeldFrames, frames
  <2>11. RequestOK(c)  BY <1>1, <1>2, <2>6, <2>8, <2>10 DEF RequestOK
  <2>12. NumbersOK(c, f, taken, queued)  BY <1>1, <2>6, <2>10 DEF NumbersOK
  <2>13. OrderOK(c)  BY <2>6, <2>9, <2>10, EmptyElements DEF OrderOK
  <2>14. DropOK(c, f, taken, d, first)  BY <1>1, <2>6, <2>8, <2>10 DEF DropOK
  <2>15. HasFrame(c)  BY <2>3, <2>6, FrameTypes DEF HasFrame
  <2> QED
    BY <1>1, <2>6, <2>7, <2>10, <2>11, <2>12, <2>13, <2>14, <2>15 DEF SenderOK, c
<1>3. CASE ~(s.protect /\ ~s.ackedInTxop /\ s.currentPacket = NoFrame)
  <2>1. c = s  BY <1>3 DEF TakeOneOfAggregate
  <2>2. HasFrame(s)  BY <1>1, <1>3, SenderTypes DEF RequestOK, HasFrame
  <2> QED  BY <2>1, <2>2
<1> QED  BY <1>2, <1>3

\* r holds what s holds and the packets of the queue up to number more.
Takes(s, r, taken, more) ==
    /\ more \in Nat /\ taken <= more
    /\ HeldFrames(s) \subseteq HeldFrames(r)
    /\ \A g \in HeldFrames(r) : g \in HeldFrames(s) \/ taken < g.id
    /\ \A p \in taken + 1 .. more : p \in Held(r)

\* The packet that r begins to hold waits for the session to open.
Opens(s, r, taken, more) ==
    /\ ~s.blockAckSessionIsEnabled /\ r.blockAckSessionIsEnabled
    /\ r.blockAckRequestNeedsToBeSent
    /\ more = taken + 1 /\ r.currentPacket \in Frames /\ r.currentPacket.id = more
    /\ HeldFrames(s) = {} /\ HeldFrames(r) = {r.currentPacket}

SameSession(s, r) ==
    /\ r.blockAckSessionIsEnabled = s.blockAckSessionIsEnabled
    /\ r.blockAckRequestNeedsToBeSent = s.blockAckRequestNeedsToBeSent

\* What is taken from the queue, before TakeOneOfAggregate.
LEMMA RetrievedOK ==
    ASSUME NEW s, NEW f, NEW taken, NEW queued, NEW d, NEW first,
           SenderOK(s, f, taken, queued, d, first), ~s.waitingForAck,
           HoldsNothing(s), ThereAreQueuedPackets(s), NEW r \in Retrieved(s)
    PROVE  \E more \in Nat, d2 \in Int, first2 \in Nat :
              /\ SenderOK(r, f, more, queued, d2, first2) /\ ~r.waitingForAck
              /\ HasFrame(r) /\ Takes(s, r, taken, more)
              /\ r.backoff = s.backoff /\ r.hasPacketToSend = s.hasPacketToSend
              /\ \/ Opens(s, r, taken, more) /\ d2 = more /\ first2 = more
                 \/ SameSession(s, r) /\ d2 = d /\ first2 = first
<1> DEFINE t == TakePacket(s)
<1>1. /\ SenderOK(t, f, taken + 1, queued, d, first) /\ SameAccess(s, t)
      /\ t.currentPacket \in Frames /\ t.currentPacket.id = taken + 1
      /\ t.currentAggregateFrame = <<>>
      /\ t.windowStartSequenceNumber = t.outgoingSequenceNumber
      /\ HeldFrames(s) = {} /\ HeldFrames(t) = {t.currentPacket}
      /\ SameSession(s, t)
  BY TakePacketOK DEF SameSession
<1>2. /\ taken \in Nat /\ d \in Int /\ first \in Nat /\ first <= taken /\ t \in Senders /\ f \in Int
      /\ taken + 1 \in Nat
  BY <1>1 DEF SenderOK, NumbersOK, DropOK
<1>3. r \in IF ~MayAggregate(t) THEN {t}
            ELSE IF ~t.blockAckSessionIsEnabled THEN {EnableSession(t)}
            ELSE {BuildAggregateFrameFromCurrentFrame(t, more) : more \in FramesThatFit(t)}
  BY DEF Retrieved
<1> HIDE DEF t
<1>4. ~t.waitingForAck /\ t.backoff = s.backoff /\ t.hasPacketToSend = s.hasPacketToSend
  BY <1>1 DEF SameAccess
<1>5. CASE r = t
  <2>1. HasFrame(r)  BY <1>1, <1>5, FrameTypes DEF HasFrame
  <2>2. \A p \in taken + 1 .. taken + 1 : p \in Held(r)
    <3>1. taken + 1 \in Held(r)  BY <1>1, <1>5 DEF Held, Ids
    <3> QED  BY <1>2, <3>1
  <2>3. Takes(s, r, taken, taken + 1)  BY <1>1, <1>2, <1>5, <2>2 DEF Takes
  <2> QED  BY <1>1, <1>2, <1>4, <1>5, <2>1, <2>3
<1>6. CASE ~t.blockAckSessionIsEnabled /\ r = EnableSession(t)
  <2>1. /\ SenderOK(r, f, taken + 1, queued, taken + 1, taken + 1) /\ SameAccess(t, r)
        /\ r.currentPacket = t.currentPacket
        /\ r.currentAggregateFrame = <<>>
        /\ HeldFrames(r) = {t.currentPacket}
        /\ r.blockAckSessionIsEnabled /\ r.blockAckRequestNeedsToBeSent
    BY <1>1, <1>4, <1>6, EnableSessionOK
  <2>2. HasFrame(r)  BY <1>1, <2>1, FrameTypes DEF HasFrame
  <2>3. \A p \in taken + 1 .. taken + 1 : p \in Held(r)
    <3>1. taken + 1 \in Held(r)  BY <1>1, <2>1 DEF Held, Ids
    <3> QED  BY <1>2, <3>1
  <2>4. Takes(s, r, taken, taken + 1)  BY <1>1, <1>2, <2>1, <2>3 DEF Takes
  <2>5. Opens(s, r, taken, taken + 1)  BY <1>1, <1>6, <2>1 DEF Opens, SameSession
  <2>6. ~r.waitingForAck /\ r.backoff = s.backoff /\ r.hasPacketToSend = s.hasPacketToSend
    BY <1>4, <2>1 DEF SameAccess
  <2> QED  BY <1>2, <2>1, <2>2, <2>4, <2>5, <2>6
<1>7. CASE MayAggregate(t) /\ t.blockAckSessionIsEnabled
           /\ \E more \in FramesThatFit(t) : r = BuildAggregateFrameFromCurrentFrame(t, more) /\ more # 0
  <2>1. PICK more \in FramesThatFit(t) : r = BuildAggregateFrameFromCurrentFrame(t, more) /\ more # 0
    BY <1>7
  <2>2. first < taken + 1 /\ ~t.blockAckRequestNeedsToBeSent
    BY <1>2, <1>7 DEF MayAggregate
  <2>3. /\ more \in Nat
        /\ SenderOK(r, f, taken + 1 + more, queued, d, first) /\ SameAccess(t, r)
        /\ r.currentPacket = NoFrame /\ r.currentAggregateFrame # <<>>
        /\ r.blockAckSessionIsEnabled /\ ~r.blockAckRequestNeedsToBeSent
        /\ Held(r) = taken + 1 .. taken + 1 + more
    <3>1. PICK n \in Nat : n = taken + 1  BY <1>2
    <3>2. BeginsAggregate(t, f, n, queued, d, first) /\ more \in FramesThatFit(t) /\ more # 0
      BY <1>1, <1>4, <1>7, <2>1, <2>2, <3>1 DEF BeginsAggregate
    <3>3. /\ more \in Nat
          /\ SenderOK(r, f, n + more, queued, d, first) /\ SameAccess(t, r)
          /\ r.currentPacket = NoFrame /\ r.currentAggregateFrame # <<>>
          /\ r.blockAckSessionIsEnabled /\ ~r.blockAckRequestNeedsToBeSent
          /\ Held(r) = n .. n + more
      BY <2>1, <3>2, BuildAggregateOK
    <3> QED  BY <3>1, <3>3
  <2>4. HasFrame(r)  BY <2>3 DEF HasFrame
  <2>5. Takes(s, r, taken, taken + 1 + more)
    <3>1. \A g \in HeldFrames(r) : g.id \in Held(r)  BY DEF Held, Ids
    <3> QED  BY <1>1, <1>2, <2>3, <3>1 DEF Takes
  <2>6. SameSession(s, r)
    <3>1. r \in Senders  BY <2>3 DEF SenderOK
    <3> QED  BY <1>1, <1>2, <1>7, <2>2, <2>3, <3>1, SenderTypes DEF SameSession
  <2>7. ~r.waitingForAck /\ r.backoff = s.backoff /\ r.hasPacketToSend = s.hasPacketToSend
    BY <1>4, <2>3 DEF SameAccess
  <2>8. taken + 1 + more \in Nat  BY <1>2, <2>3
  <2> QED  BY <1>2, <2>3, <2>4, <2>5, <2>6, <2>7, <2>8
<1>8. BuildAggregateFrameFromCurrentFrame(t, 0) = t  BY DEF BuildAggregateFrameFromCurrentFrame
<1> QED  BY <1>3, <1>5, <1>6, <1>7, <1>8

\* The transmitter s may make something ready to be sent.
MayMakeReady(s, f, taken, queued, d, first) ==
    /\ SenderOK(s, f, taken, queued, d, first) /\ ~s.waitingForAck
    /\ HoldsNothing(s) => ThereAreQueuedPackets(s)
    /\ ~HoldsNothing(s) /\ s.ackedInTxop => HasFrame(s)

\* Whichever frame is made ready, it comes from what was held or is next in the queue.
LEMMA ReadyToTransmitOK ==
    ASSUME NEW s, NEW f, NEW taken, NEW queued, NEW d, NEW first,
           MayMakeReady(s, f, taken, queued, d, first),
           NEW r \in ReadyToTransmit(s)
    PROVE  \E more \in Nat, d2 \in Int, first2 \in Nat :
              /\ SenderOK(r, f, more, queued, d2, first2) /\ ~r.waitingForAck
              /\ HasFrame(r) /\ Takes(s, r, taken, more)
              /\ r.backoff = s.backoff /\ r.hasPacketToSend = s.hasPacketToSend
              /\ \/ Opens(s, r, taken, more) /\ d2 = more /\ first2 = more
                 \/ SameSession(s, r) /\ d2 = d /\ first2 = first
<1>0. /\ SenderOK(s, f, taken, queued, d, first) /\ ~s.waitingForAck
      /\ HoldsNothing(s) => ThereAreQueuedPackets(s)
      /\ ~HoldsNothing(s) /\ s.ackedInTxop => HasFrame(s)
  BY DEF MayMakeReady
<1>1. PICK t \in IF HoldsNothing(s) THEN Retrieved(s) ELSE {s} : r = TakeOneOfAggregate(t)
  BY DEF ReadyToTransmit
<1>2. taken \in Nat /\ d \in Int /\ first \in Nat  BY <1>0 DEF SenderOK, NumbersOK, DropOK
<1>3. CASE HoldsNothing(s)
  <2>1. PICK more \in Nat, d2 \in Int, first2 \in Nat :
           /\ SenderOK(t, f, more, queued, d2, first2) /\ ~t.waitingForAck
           /\ HasFrame(t) /\ Takes(s, t, taken, more)
           /\ t.backoff = s.backoff /\ t.hasPacketToSend = s.hasPacketToSend
           /\ \/ Opens(s, t, taken, more) /\ d2 = more /\ first2 = more
              \/ SameSession(s, t) /\ d2 = d /\ first2 = first
    BY <1>0, <1>1, <1>3, RetrievedOK
  <2>2. t.currentPacket = NoFrame => t.currentAggregateFrame # <<>>  BY <2>1 DEF HasFrame
  <2>3. /\ SenderOK(r, f, more, queued, d2, first2) /\ ~r.waitingForAck
        /\ HasFrame(r) /\ HeldFrames(r) = HeldFrames(t)
        /\ r.blockAckSessionIsEnabled = t.blockAckSessionIsEnabled
        /\ r.blockAckRequestNeedsToBeSent = t.blockAckRequestNeedsToBeSent
        /\ r.backoff = t.backoff /\ r.hasPacketToSend = t.hasPacketToSend
    BY <1>1, <2>1, <2>2, TakeOneOfAggregateOK
  <2>4. Takes(s, r, taken, more)  BY <2>1, <2>3 DEF Takes, Held
  <2>5. CASE Opens(s, t, taken, more) /\ d2 = more /\ first2 = more
    <3>1. t.currentPacket # NoFrame  BY <2>5, FrameTypes DEF Opens
    <3>2. r = t  BY <1>1, <3>1 DEF TakeOneOfAggregate
    <3> QED  BY <2>1, <2>3, <2>4, <2>5, <3>2
  <2>6. CASE SameSession(s, t) /\ d2 = d /\ first2 = first
    <3>1. SameSession(s, r)  BY <2>3, <2>6 DEF SameSession
    <3> QED  BY <2>1, <2>3, <2>4, <2>6, <3>1
  <2> QED  BY <2>1, <2>5, <2>6
<1>4. CASE ~HoldsNothing(s)
  <2>1. t = s  BY <1>1, <1>4
  <2>2. s.currentPacket = NoFrame => s.currentAggregateFrame # <<>>  BY <1>4 DEF HoldsNothing
  <2>3. s.ackedInTxop => HasFrame(s)  BY <1>0, <1>4
  <2>4. /\ SenderOK(r, f, taken, queued, d, first) /\ ~r.waitingForAck
        /\ HasFrame(r) /\ HeldFrames(r) = HeldFrames(s)
        /\ r.blockAckSessionIsEnabled = s.blockAckSessionIsEnabled
        /\ r.blockAckRequestNeedsToBeSent = s.blockAckRequestNeedsToBeSent
        /\ r.backoff = s.backoff /\ r.hasPacketToSend = s.hasPacketToSend
    BY <1>0, <1>1, <2>1, <2>2, <2>3, TakeOneOfAggregateOK
  <2>5. Takes(s, r, taken, taken)  BY <1>2, <2>4 DEF Takes
  <2>6. SameSession(s, r)  BY <2>4 DEF SameSession
  <2> QED  BY <1>2, <2>4, <2>5, <2>6
<1> QED  BY <1>3, <1>4

\* r may be handed to AfterTransmission.
MaySend(r, f, taken, queued, d, first) ==
    /\ SenderOK(r, f, taken, queued, d, first)
    /\ ~r.waitingForAck /\ HasFrame(r)
    /\ r.hasPacketToSend /\ ~r.backoff

\* signal is about what c has sent.
SignalMatches(signal, c, f, d) ==
    \/ /\ c.lastSentFrameWasAn = "ShortFrame"
       /\ signal = [type |-> "DATA", frame |-> c.lastTransmitted[1]]
    \/ /\ c.lastSentFrameWasAn = "AggregateFrame"
       /\ signal = [type |-> "AGGREGATE", frames |-> c.lastTransmitted, good |-> FALSE]
    \/ /\ c.lastSentFrameWasAn = "BlockAckRequestFrame"
       /\ c.blockAckRequestNeedsToBeSent
       /\ signal = [type |-> "BAR", start |-> (f + d + 1) % SeqMod]

\* The frame sent stays in the transmitter's hands until the reply or the timeout.
LEMMA AfterTransmissionOK ==
    ASSUME NEW r, NEW f, NEW taken, NEW queued, NEW d, NEW first,
           MaySend(r, f, taken, queued, d, first)
    PROVE  LET c == AfterTransmission(r)
           IN /\ SenderOK(c, f, taken, queued, d, first)
              /\ SignalMatches(SignalOf(r), c, f, d)
              /\ c.waitingForAck
              /\ HeldFrames(c) = HeldFrames(r) /\ SameSession(r, c)
              /\ c.networkOutputQueue = r.networkOutputQueue
<1> DEFINE sent == WhatToSend(r)
           frames == CASE sent = "ShortFrame" -> <<r.currentPacket>>
                       [] sent = "AggregateFrame" -> r.currentAggregateFrame
                       [] OTHER -> <<>>
           packet == IF sent = "ShortFrame" THEN NoFrame ELSE r.currentPacket
           rest == IF sent = "AggregateFrame" THEN <<>> ELSE r.currentAggregateFrame
           c == AfterTransmission(r)
<1>1. /\ SenderOK(r, f, taken, queued, d, first)
      /\ ~r.waitingForAck /\ HasFrame(r)
      /\ r.hasPacketToSend /\ ~r.backoff
  BY DEF MaySend
<1>2. r \in Senders /\ f \in Int /\ PlacesOK(r) /\ RequestOK(r)
      /\ NumbersOK(r, f, taken, queued) /\ OrderOK(r) /\ DropOK(r, f, taken, d, first)
  BY <1>1 DEF SenderOK
<1>3. /\ r.currentPacket \in Frames \cup {NoFrame} /\ r.currentAggregateFrame \in Seq(Frames)
      /\ r.blockAckRequestNeedsToBeSent \in BOOLEAN /\ r.blockAckSessionIsEnabled \in BOOLEAN
      /\ r.lastDroppedFrameSequenceNumber \in SequenceNumbers
      /\ <<>> \in Seq(Frames)
  BY <1>2, SenderTypes
<1>4. /\ Single(r) = {r.currentPacket} \ {NoFrame}
      /\ Aggregated(r) = Elements(r.currentAggregateFrame)
      /\ r.lastTransmitted = <<>>
  BY <1>1, <1>2, RestingFrames
<1>5. c = [r EXCEPT !.waitingForAck = TRUE, !.lastSentFrameWasAn = sent,
                    !.lastTransmitted = frames, !.currentPacket = packet,
                    !.currentAggregateFrame = rest]
  BY DEF AfterTransmission
<1>6. sent \in {"ShortFrame", "AggregateFrame", "BlockAckRequestFrame"}  BY DEF WhatToSend
<1>7. frames \in Seq(Frames) /\ packet \in Frames \cup {NoFrame} /\ rest \in Seq(Frames)
  <2>1. CASE sent = "ShortFrame"
    <3>1. r.currentPacket \in Frames  BY <1>3, <2>1 DEF WhatToSend
    <3> QED  BY <1>3, <2>1, <3>1, SequenceOfOne
  <2>2. CASE sent = "AggregateFrame"  BY <1>3, <2>2
  <2>3. CASE sent = "BlockAckRequestFrame"  BY <1>3, <2>3
  <2> QED  BY <1>6, <2>1, <2>2, <2>3
<1> HIDE DEF c
<1>8. /\ c \in Senders /\ c.waitingForAck = TRUE /\ c.lastSentFrameWasAn = sent
      /\ c.lastTransmitted = frames /\ c.currentPacket = packet
      /\ c.currentAggregateFrame = rest
      /\ c.outgoingSequenceNumber = r.outgoingSequenceNumber
      /\ c.networkOutputQueue = r.networkOutputQueue
      /\ c.protect = r.protect
      /\ SameSession(r, c)
      /\ c.lastDroppedFrameSequenceNumber = r.lastDroppedFrameSequenceNumber
      /\ c.backoff = r.backoff /\ c.hasPacketToSend = r.hasPacketToSend
  <2> HIDE DEF sent, frames, packet, rest
  <2> QED  BY <1>2, <1>5, <1>6, <1>7 DEF Senders, SameSession
<1>9. /\ PlacesOK(c) /\ RequestOK(c) /\ Increasing(c.lastTransmitted)
      /\ Increasing(c.currentAggregateFrame)
      /\ Single(c) = Single(r) /\ Aggregated(c) = Aggregated(r)
      /\ SignalMatches(SignalOf(r), c, f, d)
  <2>1. CASE sent = "ShortFrame"
    <3>1. /\ r.currentPacket \in Frames /\ ~r.blockAckRequestNeedsToBeSent
          /\ r.currentPacket # NoFrame
      BY <1>3, <2>1 DEF WhatToSend
    <3>2. /\ c.lastTransmitted = <<r.currentPacket>> /\ c.currentPacket = NoFrame
          /\ c.currentAggregateFrame = r.currentAggregateFrame
          /\ c.lastSentFrameWasAn = "ShortFrame"
      BY <1>8, <2>1
    <3> HIDE DEF sent, frames, packet, rest
    <3>3. PICK one \in Seq(Frames) :
             /\ one = <<r.currentPacket>> /\ Len(one) = 1 /\ one[1] = r.currentPacket
             /\ one # <<>> /\ Elements(one) = {r.currentPacket} /\ DOMAIN one = {1}
      <4>1. <<r.currentPacket>> \in Seq(Frames) /\ DOMAIN <<r.currentPacket>> = {1}
        BY <3>1, SequenceOfOne
      <4> QED  BY <3>1, <4>1, SequenceOfOne
    <3>4. c.lastTransmitted = one  BY <3>2, <3>3
    <3>5. PlacesOK(c)  BY <1>1, <1>8, <3>2, <3>3, <3>4 DEF PlacesOK
    <3>6. Single(c) = Single(r) /\ Aggregated(c) = Aggregated(r)
      BY <1>4, <3>1, <3>2, <3>3, <3>4, EmptyElements DEF Single, Aggregated
    <3>7. RequestOK(c)
      BY <1>1, <1>2, <1>8, <3>1, <3>2, <3>6 DEF RequestOK, SameSession
    <3>8. Increasing(one)  BY <3>3 DEF Increasing
    <3>9. SignalOf(r) = [type |-> "DATA", frame |-> r.currentPacket]
      BY <2>1 DEF SignalOf, sent
    <3>10. SignalMatches(SignalOf(r), c, f, d)
      BY <3>2, <3>3, <3>4, <3>9 DEF SignalMatches
    <3>11. Increasing(c.currentAggregateFrame)  BY <1>2, <3>2 DEF OrderOK
    <3> QED  BY <3>4, <3>5, <3>6, <3>7, <3>8, <3>10, <3>11
  <2>2. CASE sent = "AggregateFrame"
    <3>1. /\ r.currentPacket = NoFrame /\ r.currentAggregateFrame # <<>>
          /\ ~r.blockAckRequestNeedsToBeSent
      BY <1>1, <2>2 DEF WhatToSend, HasFrame
    <3>2. /\ c.lastTransmitted = r.currentAggregateFrame /\ c.currentPacket = NoFrame
          /\ c.currentAggregateFrame = <<>>
          /\ c.lastSentFrameWasAn = "AggregateFrame"
      BY <1>8, <2>2, <3>1
    <3> HIDE DEF sent, frames, packet, rest
    <3>3. PlacesOK(c)  BY <1>1, <1>8, <3>1, <3>2 DEF PlacesOK, HoldsNothing
    <3>4. Single(c) = Single(r) /\ Aggregated(c) = Aggregated(r)
      BY <1>4, <3>1, <3>2, EmptyElements DEF Single, Aggregated
    <3>5. RequestOK(c)
      BY <1>1, <1>2, <1>8, <3>1, <3>2, <3>4 DEF RequestOK, SameSession
    <3>6. SignalOf(r) = [type |-> "AGGREGATE", frames |-> r.currentAggregateFrame, good |-> FALSE]
      BY <2>2 DEF SignalOf, sent
    <3>7. SignalMatches(SignalOf(r), c, f, d)  BY <3>2, <3>6 DEF SignalMatches
    <3>8. Increasing(c.lastTransmitted) /\ Increasing(c.currentAggregateFrame)
      BY <1>2, <3>2, EmptyElements DEF OrderOK
    <3> QED  BY <3>3, <3>4, <3>5, <3>7, <3>8
  <2>3. CASE sent = "BlockAckRequestFrame"
    <3>1. r.currentPacket # NoFrame /\ r.blockAckRequestNeedsToBeSent
      BY <2>3 DEF WhatToSend
    <3>2. /\ c.lastTransmitted = <<>> /\ c.currentPacket = r.currentPacket
          /\ c.currentAggregateFrame = r.currentAggregateFrame
          /\ c.lastSentFrameWasAn = "BlockAckRequestFrame"
      BY <1>8, <2>3
    <3>3. SignalOf(r) = [type |-> "BAR", start |-> IncrementTwelveBitSequenceNumber(
                                                      r.lastDroppedFrameSequenceNumber)]
      BY <2>3 DEF SignalOf, sent
    <3> HIDE DEF sent, frames, packet, rest
    <3>4. PlacesOK(c)  BY <1>1, <1>8, <3>1, <3>2 DEF PlacesOK
    <3>5. Single(c) = Single(r) /\ Aggregated(c) = Aggregated(r)
      BY <1>4, <3>1, <3>2, EmptyElements DEF Single, Aggregated
    <3>6. RequestOK(c)
      BY <1>1, <1>2, <1>8, <3>1, <3>2, <3>5 DEF RequestOK, SameSession
    <3>7. SignalMatches(SignalOf(r), c, f, d)
      <4>1. /\ r.lastDroppedFrameSequenceNumber = (f + d) % SeqMod
            /\ d \in Int /\ f + d \in Int /\ (f + d) + 1 = f + d + 1
        BY <1>2, <3>1 DEF DropOK
      <4>2. (r.lastDroppedFrameSequenceNumber + 1) % SeqMod = ((f + d) + 1) % SeqMod
        BY <1>3, <4>1, LaterNumber
      <4>3. SignalOf(r) = [type |-> "BAR", start |-> (f + d + 1) % SeqMod]
        BY <3>3, <4>1, <4>2 DEF IncrementTwelveBitSequenceNumber
      <4> QED  BY <1>8, <3>1, <3>2, <4>3 DEF SignalMatches, SameSession
    <3>8. Increasing(c.lastTransmitted) /\ Increasing(c.currentAggregateFrame)
      BY <1>2, <3>2, EmptyElements DEF OrderOK
    <3> QED  BY <3>4, <3>5, <3>6, <3>7, <3>8
  <2> QED  BY <1>6, <2>1, <2>2, <2>3
<1> HIDE DEF sent, frames, packet, rest
<1>10. HeldFrames(c) = HeldFrames(r)  BY <1>9 DEF HeldFrames
<1>11. NumbersOK(c, f, taken, queued)
  BY <1>2, <1>8, <1>10 DEF NumbersOK, SameSession
<1>12. OrderOK(c)  BY <1>2, <1>9 DEF OrderOK
<1>13. DropOK(c, f, taken, d, first)  BY <1>2, <1>8, <1>9, <1>10 DEF DropOK, SameSession
<1> QED  BY <1>2, <1>8, <1>9, <1>10, <1>11, <1>12, <1>13 DEF SenderOK, c

-----------------------------------------------------------------------------
(* The end of an exchange. *)

\* left has the frames of sent that a block acknowledgement leaves, in their order.
IsLeft(left, sent, ba) ==
    /\ left \in Seq(Frames)
    /\ \A k \in DOMAIN left : \E i \in DOMAIN sent :
          left[k] = sent[i] /\ ~IsAcked(ba, sent[i].seq)
    /\ \A i \in DOMAIN sent :
          IsAcked(ba, sent[i].seq) \/ \E k \in DOMAIN left : left[k] = sent[i]
    /\ \A k, l \in DOMAIN left : k < l =>
          \E i, j \in DOMAIN sent : i < j /\ left[k] = sent[i] /\ left[l] = sent[j]

\* Unacked keeps, in their order, the frames that the block ack does not acknowledge.
LEMMA UnackedLemma ==
    ASSUME NEW s \in Senders, NEW ba
    PROVE  IsLeft(Unacked(s, ba), s.lastTransmitted, ba)
<1> DEFINE sent == s.lastTransmitted
           missing == {i \in DOMAIN sent : ~IsAcked(ba, sent[i].seq)}
           N == Cardinality(missing)
           key == [i \in missing |-> i]
           Before(i) == Cardinality({j \in missing : j < i})
           at == [k \in 1 .. N |-> CHOOSE i \in missing : Before(i) = k - 1]
           left == Unacked(s, ba)
<1>1. sent \in Seq(Frames)  BY DEF Senders
<1>2. missing \subseteq Nat /\ IsFiniteSet(missing)
  <2>1. PICK n \in Nat : n = Len(sent)  BY <1>1
  <2>2. DOMAIN sent = 1 .. n  BY <1>1, <2>1
  <2>3. IsFiniteSet(1 .. n)  BY FS_Interval
  <2>4. missing \in SUBSET (1 .. n)  BY <2>2
  <2> HIDE DEF missing, sent
  <2>5. missing \subseteq Nat  BY <2>4
  <2>6. IsFiniteSet(missing)  BY <2>3, <2>4, FS_Subset, Zenon
  <2> QED  BY <2>5, <2>6
<1>3. /\ N \in Nat
      /\ \A x \in missing : Rank(missing, key, x) \in 0 .. N - 1
      /\ \A x, y \in missing : Rank(missing, key, x) < Rank(missing, key, y) <=> key[x] < key[y]
      /\ \A x, y \in missing : Rank(missing, key, x) = Rank(missing, key, y) => x = y
      /\ \A k \in 0 .. N - 1 : \E x \in missing : Rank(missing, key, x) = k
  <2>1. \A x \in missing : key[x] \in Nat  BY <1>2
  <2>2. \A x, y \in missing : key[x] = key[y] => x = y  OBVIOUS
  <2> HIDE DEF key, missing
  <2> QED  BY <1>2, <2>1, <2>2, Ranking
<1>4. \A i \in missing : i \in DOMAIN sent /\ ~IsAcked(ba, sent[i].seq)  OBVIOUS
<1>5. \A i \in DOMAIN sent : IsAcked(ba, sent[i].seq) \/ i \in missing  OBVIOUS
<1>6a. left = [k \in 1 .. N |->
                 sent[CHOOSE i \in missing : Cardinality({j \in missing : j < i}) = k - 1]]
  BY Zenon DEF Unacked
<1> HIDE DEF missing, sent
<1>6. left = [k \in 1 .. N |-> sent[at[k]]]  BY <1>6a
<1>7. ASSUME NEW i \in missing PROVE Before(i) = Rank(missing, key, i)
  <2>1. {j \in missing : j < i} = {j \in missing : key[j] < key[i]}  OBVIOUS
  <2> QED  BY <2>1, Zenon DEF Rank
<1>8. \A k \in 1 .. N : at[k] \in missing /\ Rank(missing, key, at[k]) = k - 1
  <2> SUFFICES ASSUME NEW k \in 1 .. N PROVE at[k] \in missing /\ Rank(missing, key, at[k]) = k - 1
    OBVIOUS
  <2>1. PICK x \in missing : Before(x) = k - 1
    <3>1. k - 1 \in 0 .. N - 1  BY <1>3
    <3> HIDE DEF Before, key, N
    <3> QED  BY <1>3, <1>7, <3>1
  <2>2. at[k] = CHOOSE f \in missing : Before(f) = k - 1  BY Zenon
  <2> HIDE DEF Before, at, key
  <2>3. at[k] \in missing /\ Before(at[k]) = k - 1  BY <2>1, <2>2
  <2> QED  BY <2>3, <1>7
<1>9. \A x \in missing : key[x] = x  OBVIOUS
<1> HIDE DEF at, left, N, Before, key
<1>10. left \in Seq(Frames) /\ DOMAIN left = 1 .. N /\ \A k \in 1 .. N : left[k] = sent[at[k]]
  <2>1. \A k \in 1 .. N : sent[at[k]] \in Frames  BY <1>1, <1>4, <1>8
  <2> QED  BY <1>3, <1>6, <2>1
<1>11. ASSUME NEW i \in missing PROVE \E k \in 1 .. N : left[k] = sent[i]
  <2>1. PICK k \in 1 .. N : k = Rank(missing, key, i) + 1  BY <1>3
  <2>2. at[k] \in missing /\ Rank(missing, key, at[k]) = Rank(missing, key, i)
    BY <1>3, <1>8, <2>1
  <2> QED  BY <1>3, <1>10, <2>2
<1>12. \A k, l \in 1 .. N : k < l => at[k] < at[l]
  <2> SUFFICES ASSUME NEW k \in 1 .. N, NEW l \in 1 .. N, k < l PROVE at[k] < at[l]
    OBVIOUS
  <2>1. /\ at[k] \in missing /\ at[l] \in missing
        /\ Rank(missing, key, at[k]) < Rank(missing, key, at[l])
    BY <1>3, <1>8
  <2> QED  BY <1>3, <1>9, <2>1
<1>13. \A k \in DOMAIN left : \E i \in DOMAIN sent : left[k] = sent[i] /\ ~IsAcked(ba, sent[i].seq)
  BY <1>4, <1>8, <1>10
<1>14. \A i \in DOMAIN sent :
          IsAcked(ba, sent[i].seq) \/ \E k \in DOMAIN left : left[k] = sent[i]
  BY <1>5, <1>10, <1>11
<1>15. \A k, l \in DOMAIN left : k < l =>
          \E i, j \in DOMAIN sent : i < j /\ left[k] = sent[i] /\ left[l] = sent[j]
  BY <1>4, <1>8, <1>10, <1>12
<1> QED  BY <1>10, <1>13, <1>14, <1>15, Zenon DEF IsLeft, left, sent

\* c holds nothing that s does not hold, in the same place.
HoldsNoMore(s, c) ==
    /\ c \in Senders
    /\ c.outgoingSequenceNumber = s.outgoingSequenceNumber
    /\ c.networkOutputQueue = s.networkOutputQueue
    /\ c.blockAckSessionIsEnabled = s.blockAckSessionIsEnabled
    /\ Single(c) \subseteq Single(s) /\ Aggregated(c) \subseteq Aggregated(s)

\* A transmitter that lets go of frames stays consistent.
LEMMA HoldsNoMoreOK ==
    ASSUME NEW s, NEW f, NEW taken, NEW queued, NEW d, NEW first,
           SenderOK(s, f, taken, queued, d, first),
           NEW c, HoldsNoMore(s, c), PlacesOK(c), RequestOK(c),
           Increasing(c.currentAggregateFrame), Increasing(c.lastTransmitted),
           NEW d2 \in Int, -1 <= d2, d2 <= taken,
           c.blockAckRequestNeedsToBeSent =>
               /\ c.lastDroppedFrameSequenceNumber = (f + d2) % SeqMod
               /\ \A g \in HeldFrames(c) : g.id > d2 \/ (g.id = first /\ g.id = d2)
    PROVE  SenderOK(c, f, taken, queued, d2, first)
<1>1. s \in Senders /\ f \in Int /\ PlacesOK(s) /\ RequestOK(s)
      /\ NumbersOK(s, f, taken, queued) /\ OrderOK(s) /\ DropOK(s, f, taken, d, first)
  BY DEF SenderOK
<1>2. HeldFrames(c) \subseteq HeldFrames(s)  BY DEF HoldsNoMore, HeldFrames
<1>3. NumbersOK(c, f, taken, queued)  BY <1>1, <1>2 DEF HoldsNoMore, NumbersOK
<1>4. OrderOK(c)  BY <1>1 DEF HoldsNoMore, OrderOK
<1>5. DropOK(c, f, taken, d2, first)  BY <1>1 DEF HoldsNoMore, DropOK
<1> QED  BY <1>1, <1>3, <1>4, <1>5 DEF HoldsNoMore, SenderOK

\* An acknowledgement settles the single frame.
LEMMA ProcessAcknowledgementFrameOK ==
    ASSUME NEW s, NEW f, NEW taken, NEW queued, NEW d, NEW first,
           SenderOK(s, f, taken, queued, d, first),
           s.waitingForAck, s.lastSentFrameWasAn = "ShortFrame"
    PROVE  LET c == ProcessAcknowledgementFrame(s)
           IN /\ SenderOK(c, f, taken, queued, d, first)
              /\ ~c.waitingForAck /\ SameSession(s, c)
              /\ ~HoldsNothing(c) => HasFrame(c)
              /\ HeldFrames(s) = HeldFrames(c) \cup {s.lastTransmitted[1]}
              /\ s.lastTransmitted[1] \notin HeldFrames(c)
              /\ s.lastTransmitted[1].id \notin Held(c)
<1> DEFINE c == ProcessAcknowledgementFrame(s)
           g == s.lastTransmitted[1]
<1>1. s \in Senders /\ f \in Int /\ PlacesOK(s) /\ RequestOK(s)
      /\ NumbersOK(s, f, taken, queued) /\ OrderOK(s) /\ DropOK(s, f, taken, d, first)
  BY DEF SenderOK
<1>2. /\ g \in Frames /\ Single(s) = {g} /\ Aggregated(s) = Elements(s.currentAggregateFrame)
      /\ s.currentPacket = NoFrame /\ ~s.blockAckRequestNeedsToBeSent
  <2>1. ~s.blockAckRequestNeedsToBeSent /\ s.currentPacket = NoFrame
    BY <1>1 DEF RequestOK, PlacesOK
  <2> QED  BY <1>1, <2>1, WaitingFrames
<1>3. c = [s EXCEPT !.waitingForAck = FALSE, !.lastTransmitted = <<>>, !.ackedInTxop = TRUE]
  BY DEF ProcessAcknowledgementFrame
<1>4. <<>> \in Seq(Frames)  OBVIOUS
<1> HIDE DEF c, g
<1>5. /\ c \in Senders /\ c.waitingForAck = FALSE /\ c.lastTransmitted = <<>>
      /\ c.outgoingSequenceNumber = s.outgoingSequenceNumber
      /\ c.networkOutputQueue = s.networkOutputQueue
      /\ SameSession(s, c) /\ c.protect = s.protect
      /\ c.currentPacket = s.currentPacket
      /\ c.currentAggregateFrame = s.currentAggregateFrame
      /\ c.lastDroppedFrameSequenceNumber = s.lastDroppedFrameSequenceNumber
  BY <1>1, <1>3, <1>4 DEF Senders, SameSession
<1>6. PlacesOK(c)  BY <1>5 DEF PlacesOK
<1>7. Single(c) = {} /\ Aggregated(c) = Aggregated(s) /\ HeldFrames(c) = Aggregated(s)
  BY <1>2, <1>5, <1>6, RestingFrames DEF HeldFrames
<1>8. RequestOK(c)  BY <1>1, <1>2, <1>5, <1>7 DEF RequestOK, SameSession
<1>9. HoldsNoMore(s, c)  BY <1>5, <1>7 DEF HoldsNoMore, SameSession
<1>10. /\ Increasing(c.currentAggregateFrame) /\ Increasing(c.lastTransmitted)
  BY <1>1, <1>5, EmptyElements DEF OrderOK
<1>11. d \in Int /\ -1 <= d /\ d <= taken /\ ~c.blockAckRequestNeedsToBeSent
  BY <1>1, <1>2, <1>5 DEF DropOK, SameSession
<1>12. SenderOK(c, f, taken, queued, d, first)
  BY <1>6, <1>8, <1>9, <1>10, <1>11, HoldsNoMoreOK
<1>13. ~HoldsNothing(c) => HasFrame(c)
  BY <1>2, <1>5, <1>11 DEF HoldsNothing, HasFrame
<1>14. HeldFrames(s) = HeldFrames(c) \cup {g}  BY <1>2, <1>7 DEF HeldFrames
<1>15. \A h \in HeldFrames(c) : g.id < h.id /\ h.id \in Nat
  <2>1. \A h \in Aggregated(s) : h \in Frames
    BY <1>1, <1>2, SenderTypes, ElementsOf
  <2> QED  BY <1>1, <1>2, <1>7, <2>1, FrameTypes DEF OrderOK
<1>16. g.id \in Nat  BY <1>2, FrameTypes
<1>17. g \notin HeldFrames(c) /\ g.id \notin Held(c)  BY <1>15, <1>16 DEF Held, Ids
<1> QED  BY <1>5, <1>12, <1>13, <1>14, <1>17 DEF c, g

-----------------------------------------------------------------------------
(* No reply. *)

\* What was sent comes back to where it was.
LEMMA TakeBackOK ==
    ASSUME NEW s, NEW f, NEW taken, NEW queued, NEW d, NEW first,
           SenderOK(s, f, taken, queued, d, first), s.waitingForAck
    PROVE  LET c == [TakeBack(s) EXCEPT !.backoff = TRUE]
           IN /\ SenderOK(c, f, taken, queued, d, first)
              /\ ~c.waitingForAck /\ c.lastSentFrameWasAn = s.lastSentFrameWasAn
              /\ Single(c) = Single(s) /\ Aggregated(c) = Aggregated(s) /\ SameSession(s, c)
              /\ s.lastSentFrameWasAn = "AggregateFrame" =>
                     /\ c.currentPacket = NoFrame
                     /\ c.currentAggregateFrame = s.lastTransmitted
                     /\ c.currentAggregateFrame # <<>>
              /\ s.lastSentFrameWasAn # "AggregateFrame" =>
                     /\ c.currentPacket \in Frames
                     /\ c.currentPacket = IF s.lastSentFrameWasAn = "ShortFrame"
                                          THEN s.lastTransmitted[1] ELSE s.currentPacket
<1> DEFINE sent == s.lastSentFrameWasAn
           packet == IF sent = "ShortFrame" THEN s.lastTransmitted[1] ELSE s.currentPacket
           frames == IF sent = "AggregateFrame" THEN s.lastTransmitted ELSE s.currentAggregateFrame
           c == [TakeBack(s) EXCEPT !.backoff = TRUE]
<1>1. s \in Senders /\ f \in Int /\ PlacesOK(s) /\ RequestOK(s)
      /\ NumbersOK(s, f, taken, queued) /\ OrderOK(s) /\ DropOK(s, f, taken, d, first)
  BY DEF SenderOK
<1>2. /\ s.lastTransmitted \in Seq(Frames) /\ s.currentAggregateFrame \in Seq(Frames)
      /\ s.currentPacket \in Frames \cup {NoFrame}
      /\ sent \in {"ShortFrame", "AggregateFrame", "BlockAckRequestFrame"}
  BY <1>1, SenderTypes
<1>3. sent = "ShortFrame" => Head(s.lastTransmitted) = s.lastTransmitted[1]
                             /\ s.lastTransmitted[1] \in Frames
  BY <1>1, WaitingFrames
<1>4. c = [s EXCEPT !.waitingForAck = FALSE, !.lastTransmitted = <<>>, !.backoff = TRUE,
                    !.currentPacket = packet, !.currentAggregateFrame = frames]
  <2> DEFINE e == [s EXCEPT !.waitingForAck = FALSE, !.lastTransmitted = <<>>, !.backoff = TRUE,
                            !.currentPacket = packet, !.currentAggregateFrame = frames]
  <2>1. CASE sent = "ShortFrame"
    BY <1>1, <1>3, <2>1 DEF TakeBack, Senders
  <2>2. CASE sent = "AggregateFrame"
    BY <1>1, <2>2 DEF TakeBack, Senders
  <2>3. CASE sent = "BlockAckRequestFrame"
    BY <1>1, <2>3 DEF TakeBack, Senders
  <2> QED  BY <1>2, <2>1, <2>2, <2>3
<1>5. packet \in Frames \cup {NoFrame} /\ frames \in Seq(Frames) /\ <<>> \in Seq(Frames)
  BY <1>2, <1>3
<1> HIDE DEF c, packet, frames
<1>6. /\ c \in Senders /\ c.waitingForAck = FALSE /\ c.lastTransmitted = <<>>
      /\ c.currentPacket = packet /\ c.currentAggregateFrame = frames
      /\ c.outgoingSequenceNumber = s.outgoingSequenceNumber
      /\ c.networkOutputQueue = s.networkOutputQueue
      /\ SameSession(s, c) /\ c.protect = s.protect
      /\ c.lastSentFrameWasAn = sent
      /\ c.lastDroppedFrameSequenceNumber = s.lastDroppedFrameSequenceNumber
  BY <1>1, <1>4, <1>5 DEF Senders, SameSession
<1>7. PlacesOK(c)  BY <1>6 DEF PlacesOK
<1>8. Single(c) = {packet} \ {NoFrame} /\ Aggregated(c) = Elements(frames)
  BY <1>6, <1>7, RestingFrames
<1>9. /\ Single(c) = Single(s) /\ Aggregated(c) = Aggregated(s)
      /\ sent = "AggregateFrame" =>
             packet = NoFrame /\ frames = s.lastTransmitted /\ frames # <<>>
      /\ sent # "AggregateFrame" => packet \in Frames
  <2>1. CASE sent = "ShortFrame"
    BY <1>1, <1>3, <1>8, <2>1, WaitingFrames, FrameTypes DEF packet, frames
  <2>2. CASE sent = "AggregateFrame"
    <3>1. s.currentPacket = NoFrame /\ s.lastTransmitted # <<>>
      BY <1>1, <2>2 DEF PlacesOK, HoldsNothing
    <3> QED  BY <1>1, <1>8, <2>2, <3>1, WaitingFrames DEF packet, frames
  <2>3. CASE sent = "BlockAckRequestFrame"
    BY <1>1, <1>8, <2>3, WaitingFrames, FrameTypes DEF packet, frames
  <2> QED  BY <1>2, <2>1, <2>2, <2>3
<1>10. RequestOK(c)
  <2>1. ASSUME frames # <<>>, ~s.protect
        PROVE  Single(s) = {} /\ ~s.blockAckRequestNeedsToBeSent
    <3>1. CASE sent = "AggregateFrame"
      <4>1. ~s.blockAckRequestNeedsToBeSent  BY <1>1, <3>1 DEF RequestOK
      <4> QED  BY <1>1, <3>1, <4>1, WaitingFrames
    <3>2. CASE sent # "AggregateFrame"  BY <1>1, <2>1, <3>2 DEF RequestOK, frames
    <3> QED  BY <3>1, <3>2
  <2> QED  BY <1>1, <1>6, <1>9, <2>1 DEF RequestOK, SameSession
<1>11. HoldsNoMore(s, c)  BY <1>6, <1>9 DEF HoldsNoMore, SameSession
<1>12. /\ Increasing(c.currentAggregateFrame) /\ Increasing(c.lastTransmitted)
  BY <1>1, <1>6, EmptyElements DEF OrderOK, frames
<1>13. /\ d \in Int /\ -1 <= d /\ d <= taken
       /\ c.blockAckRequestNeedsToBeSent =>
             /\ c.lastDroppedFrameSequenceNumber = (f + d) % SeqMod
             /\ \A g \in HeldFrames(c) : g.id > d \/ (g.id = first /\ g.id = d)
  BY <1>1, <1>6, <1>9 DEF DropOK, SameSession, HeldFrames
<1>14. SenderOK(c, f, taken, queued, d, first)
  BY <1>7, <1>10, <1>11, <1>12, <1>13, HoldsNoMoreOK
<1> QED  BY <1>2, <1>6, <1>9, <1>14 DEF c, packet

\* The single frame is given up.
LEMMA DropCurrentPacketOK ==
    ASSUME NEW s, NEW f, NEW taken, NEW queued, NEW d, NEW first,
           SenderOK(s, f, taken, queued, d, first), ~s.waitingForAck,
           s.currentPacket \in Frames
    PROVE  LET c == DropCurrentPacketAndGoToNextPacket(s)
           IN /\ SenderOK(c, f, taken, queued, s.currentPacket.id, first)
              /\ ~c.waitingForAck
              /\ HeldFrames(s) = HeldFrames(c) \cup {s.currentPacket}
              /\ c.blockAckSessionIsEnabled = s.blockAckSessionIsEnabled
              /\ c.blockAckRequestNeedsToBeSent <=> s.blockAckSessionIsEnabled
              /\ \A g \in HeldFrames(c) : s.currentPacket.id < g.id
<1> DEFINE c == DropCurrentPacketAndGoToNextPacket(s)
           has == ThereAreQueuedPackets(s)
           due == s.blockAckRequestNeedsToBeSent \/ s.blockAckSessionIsEnabled
           g == s.currentPacket
<1>1. s \in Senders /\ f \in Int /\ PlacesOK(s) /\ RequestOK(s)
      /\ NumbersOK(s, f, taken, queued) /\ OrderOK(s) /\ DropOK(s, f, taken, d, first)
  BY DEF SenderOK
<1>2. c = [s EXCEPT !.lastDroppedFrameSequenceNumber = g.seq,
                    !.blockAckRequestNeedsToBeSent = due, !.currentPacket = NoFrame,
                    !.hasPacketToSend = has, !.currentShortFrameRetryCount = 0]
  BY DEF DropCurrentPacketAndGoToNextPacket
<1>3. /\ has \in BOOLEAN /\ due \in BOOLEAN /\ g.seq \in SequenceNumbers /\ g # NoFrame
      /\ due <=> s.blockAckSessionIsEnabled
  BY <1>1, FrameTypes DEF ThereAreQueuedPackets, RequestOK
<1> HIDE DEF c, has, due, g
<1>4. /\ c \in Senders /\ c.waitingForAck = s.waitingForAck
      /\ c.lastTransmitted = s.lastTransmitted
      /\ c.currentPacket = NoFrame /\ c.currentAggregateFrame = s.currentAggregateFrame
      /\ c.outgoingSequenceNumber = s.outgoingSequenceNumber
      /\ c.networkOutputQueue = s.networkOutputQueue
      /\ c.blockAckSessionIsEnabled = s.blockAckSessionIsEnabled
      /\ c.blockAckRequestNeedsToBeSent = due /\ c.protect = s.protect
      /\ c.lastDroppedFrameSequenceNumber = g.seq
  BY <1>1, <1>2, <1>3 DEF Senders
<1>5. PlacesOK(c)  BY <1>1, <1>4 DEF PlacesOK
<1>6. /\ Single(s) = {g} /\ Aggregated(s) = Elements(s.currentAggregateFrame)
      /\ Single(c) = {} /\ Aggregated(c) = Aggregated(s)
      /\ HeldFrames(s) = HeldFrames(c) \cup {g} /\ HeldFrames(c) = Aggregated(s)
      /\ s.lastTransmitted = <<>>
  BY <1>1, <1>3, <1>4, <1>5, RestingFrames DEF HeldFrames, g
<1>7. RequestOK(c)
  <2>1. c.blockAckRequestNeedsToBeSent => c.blockAckSessionIsEnabled  BY <1>3, <1>4
  <2>2. Aggregated(c) # {} => c.blockAckSessionIsEnabled  BY <1>1, <1>4, <1>6 DEF RequestOK
  <2>3. ~c.waitingForAck  BY <1>4
  <2>4. ~(c.currentAggregateFrame # <<>> /\ ~c.protect)  BY <1>1, <1>4, <1>6 DEF RequestOK
  <2> QED  BY <2>1, <2>2, <2>3, <2>4 DEF RequestOK
<1>8. HoldsNoMore(s, c)  BY <1>4, <1>6 DEF HoldsNoMore
<1>9. \A h \in HeldFrames(c) : g.id < h.id  BY <1>1, <1>6 DEF OrderOK
<1>10. /\ g.id \in Int /\ -1 <= g.id /\ g.id <= taken /\ g.seq = (f + g.id) % SeqMod
  <2>1. g \in HeldFrames(s)  BY <1>6
  <2>2. g.id \in Nat  BY FrameTypes DEF g
  <2> QED  BY <1>1, <2>1, <2>2 DEF NumbersOK
<1>11. Increasing(c.currentAggregateFrame) /\ Increasing(c.lastTransmitted)
  BY <1>1, <1>4 DEF OrderOK
<1>12. /\ c.lastDroppedFrameSequenceNumber = (f + g.id) % SeqMod
       /\ \A h \in HeldFrames(c) : h.id > g.id
  <2>1. \A h \in HeldFrames(c) : h.id \in Nat
    <3>1. \A h \in Aggregated(s) : h \in Frames  BY <1>1, <1>6, SenderTypes, ElementsOf
    <3> QED  BY <1>6, <3>1, FrameTypes
  <2> QED  BY <1>4, <1>9, <1>10, <2>1
<1>13. SenderOK(c, f, taken, queued, g.id, first)
  BY <1>5, <1>7, <1>8, <1>10, <1>11, <1>12, HoldsNoMoreOK
<1> QED  BY <1>3, <1>4, <1>6, <1>9, <1>13 DEF c, g

\* The frames of an aggregate, in their order and with their numbers.
AggregateOK(frames, f, taken) ==
    /\ frames \in Seq(Frames) /\ frames # <<>> /\ Increasing(frames)
    /\ \A g \in Elements(frames) : 1 <= g.id /\ g.id <= taken /\ g.seq = (f + g.id) % SeqMod

\* Giving up a whole aggregate makes a request for what follows its last frame due.
LEMMA DropAggregateOK ==
    ASSUME NEW s, NEW f, NEW taken, NEW queued, NEW d, NEW first,
           SenderOK(s, f, taken, queued, d, first), ~s.waitingForAck,
           s.currentPacket = NoFrame, s.blockAckSessionIsEnabled,
           NEW frames, AggregateOK(frames, f, taken)
    PROVE  LET c == DropAggregate(s, frames)
           IN \E d2 \in Ids(Elements(frames)) :
                 /\ SenderOK(c, f, taken, queued, d2, first)
                 /\ ~c.waitingForAck /\ HoldsNothing(c) /\ HeldFrames(c) = {}
                 /\ c.blockAckSessionIsEnabled /\ c.blockAckRequestNeedsToBeSent
                 /\ \A g \in Elements(frames) : g.id <= d2
<1> DEFINE c == DropAggregate(s, frames)
<1>1. s \in Senders /\ f \in Int /\ PlacesOK(s) /\ RequestOK(s)
      /\ NumbersOK(s, f, taken, queued) /\ OrderOK(s) /\ DropOK(s, f, taken, d, first)
  BY DEF SenderOK
<1>2. /\ frames \in Seq(Frames) /\ frames # <<>> /\ Increasing(frames)
      /\ \A g \in Elements(frames) : 1 <= g.id /\ g.id <= taken /\ g.seq = (f + g.id) % SeqMod
  BY DEF AggregateOK
<1>3. PICK n \in Nat : n = Len(frames) /\ n >= 1 /\ DOMAIN frames = 1 .. n
  BY <1>2, ElementsOf
<1>4. PICK g \in Frames : g = frames[n]  BY <1>2, <1>3
<1>5. g \in Elements(frames) /\ g.seq \in SequenceNumbers /\ g.id \in Nat
  BY <1>3, <1>4, FrameTypes DEF Elements
<1>6. \A h \in Elements(frames) : h.id <= g.id
  <2> SUFFICES ASSUME NEW i \in 1 .. n PROVE frames[i].id <= g.id
    BY <1>3 DEF Elements
  <2>1. CASE i = n  BY <1>4, <1>5, <2>1
  <2>2. CASE i # n
    <3>1. i < n /\ n \in 1 .. n  BY <1>3, <2>2
    <3>2. frames[i].id < frames[n].id  BY <1>2, <1>3, <3>1 DEF Increasing
    <3>3. frames[i].id \in Nat  BY <1>2, <1>3, FrameTypes
    <3> QED  BY <1>4, <1>5, <3>2, <3>3
  <2> QED  BY <2>1, <2>2
<1>7. c = [s EXCEPT !.currentAggregateFrame = <<>>, !.currentAggregateFrameRetryCount = 0,
                    !.blockAckRequestNeedsToBeSent = TRUE,
                    !.lastDroppedFrameSequenceNumber = g.seq]
  BY <1>3, <1>4 DEF DropAggregate
<1>8. <<>> \in Seq(Frames)  OBVIOUS
<1> HIDE DEF c
<1>9. /\ c \in Senders /\ c.waitingForAck = s.waitingForAck
      /\ c.lastTransmitted = s.lastTransmitted
      /\ c.currentPacket = s.currentPacket /\ c.currentAggregateFrame = <<>>
      /\ c.outgoingSequenceNumber = s.outgoingSequenceNumber
      /\ c.networkOutputQueue = s.networkOutputQueue
      /\ c.blockAckSessionIsEnabled = s.blockAckSessionIsEnabled
      /\ c.blockAckRequestNeedsToBeSent = TRUE
      /\ c.lastDroppedFrameSequenceNumber = g.seq
  BY <1>1, <1>5, <1>7, <1>8 DEF Senders
<1>10. PlacesOK(c)  BY <1>1, <1>9 DEF PlacesOK
<1>11. Single(c) = {} /\ Aggregated(c) = {} /\ HeldFrames(c) = {} /\ c.lastTransmitted = <<>>
       /\ HoldsNothing(c)
  BY <1>1, <1>9, <1>10, RestingFrames, EmptyElements DEF HeldFrames, HoldsNothing
<1>12. RequestOK(c)  BY <1>9, <1>11 DEF RequestOK
<1>13. HoldsNoMore(s, c)  BY <1>9, <1>11 DEF HoldsNoMore
<1>14. Increasing(c.currentAggregateFrame) /\ Increasing(c.lastTransmitted)
  BY <1>9, <1>11, EmptyElements
<1>15. g.id \in Int /\ -1 <= g.id /\ g.id <= taken /\ g.seq = (f + g.id) % SeqMod
  BY <1>2, <1>5
<1>16. /\ c.lastDroppedFrameSequenceNumber = (f + g.id) % SeqMod
       /\ \A h \in HeldFrames(c) : h.id > g.id
  BY <1>9, <1>11, <1>15
<1>17. SenderOK(c, f, taken, queued, g.id, first)
  BY <1>10, <1>12, <1>13, <1>14, <1>15, <1>16, HoldsNoMoreOK
<1>18. g.id \in Ids(Elements(frames))  BY <1>5 DEF Ids
<1> QED  BY <1>6, <1>9, <1>11, <1>17, <1>18 DEF c

\* What ends without a reply: the frames are kept to be sent again, or given up up to d2.
Keeps(s, c, d, d2, dropped) ==
    /\ dropped = {} /\ d2 = d /\ SameSession(s, c) /\ HeldFrames(c) = HeldFrames(s)

GivesUp(s, c, d2, dropped) ==
    /\ dropped # {} /\ d2 \in dropped /\ dropped \subseteq Held(s)
    /\ \A g \in HeldFrames(s) : g \in HeldFrames(c) \/ g.id \in dropped
    /\ HeldFrames(c) \subseteq HeldFrames(s)
    /\ \A p \in dropped : p <= d2
    /\ \A g \in HeldFrames(c) : d2 < g.id
    /\ c.blockAckSessionIsEnabled = s.blockAckSessionIsEnabled
    /\ c.blockAckRequestNeedsToBeSent <=> s.blockAckSessionIsEnabled

\* A timeout keeps the frames for a retry, or gives up those that come first.
LEMMA NeverReceivedAcknowledgementOK ==
    ASSUME NEW s, NEW f, NEW taken, NEW queued, NEW d, NEW first,
           SenderOK(s, f, taken, queued, d, first), s.waitingForAck
    PROVE  LET c == NeverReceivedAcknowledgement(s)
           IN \E d2 \in Int :
                 /\ SenderOK(c, f, taken, queued, d2, first) /\ ~c.waitingForAck
                 /\ \/ Keeps(s, c, d, d2, DroppedAtTimeout(s))
                    \/ GivesUp(s, c, d2, DroppedAtTimeout(s))
<1> DEFINE back == [TakeBack(s) EXCEPT !.backoff = TRUE]
           aggregate == s.lastSentFrameWasAn = "AggregateFrame"
           c == NeverReceivedAcknowledgement(s)
<1>1. /\ s \in Senders /\ d \in Int /\ PlacesOK(s) /\ RequestOK(s) /\ taken \in Nat
      /\ NumbersOK(s, f, taken, queued) /\ OrderOK(s)
  BY DEF SenderOK, DropOK, NumbersOK
<1>2. /\ SenderOK(back, f, taken, queued, d, first)
      /\ ~back.waitingForAck /\ back.lastSentFrameWasAn = s.lastSentFrameWasAn
      /\ Single(back) = Single(s) /\ Aggregated(back) = Aggregated(s) /\ SameSession(s, back)
      /\ aggregate =>
             /\ back.currentPacket = NoFrame
             /\ back.currentAggregateFrame = s.lastTransmitted
             /\ back.currentAggregateFrame # <<>>
      /\ ~aggregate =>
             /\ back.currentPacket \in Frames
             /\ back.currentPacket = IF s.lastSentFrameWasAn = "ShortFrame"
                                     THEN s.lastTransmitted[1] ELSE s.currentPacket
  BY TakeBackOK
<1>3. c = IF GivesUpAfterTimeout(s)
          THEN IF aggregate THEN DropAggregate(back, back.currentAggregateFrame)
               ELSE DropCurrentPacketAndGoToNextPacket(back)
          ELSE IF aggregate THEN [back EXCEPT !.currentAggregateFrameRetryCount = @ + 1]
               ELSE [back EXCEPT !.currentShortFrameRetryCount = @ + 1]
  BY DEF NeverReceivedAcknowledgement
<1> HIDE DEF back, c
<1>4. HeldFrames(back) = HeldFrames(s) /\ back \in Senders
      /\ \A g \in HeldFrames(s) : g.id \in Held(s)
  BY <1>2 DEF HeldFrames, SenderOK, Held, Ids
<1>5. CASE ~GivesUpAfterTimeout(s)
  <2>1. c \in Senders /\ SameFrames(back, c)
        /\ c.networkOutputQueue = back.networkOutputQueue
    <3>1. back.currentAggregateFrameRetryCount \in Nat /\ back.currentShortFrameRetryCount \in Nat
      BY <1>4, SenderTypes
    <3>2. CASE aggregate
      <4>1. PICK n \in Nat : n = back.currentAggregateFrameRetryCount + 1  BY <3>1
      <4>2. c = [back EXCEPT !.currentAggregateFrameRetryCount = n]  BY <1>3, <1>5, <3>2, <4>1
      <4> QED  BY <1>4, <4>2 DEF Senders, SameFrames
    <3>3. CASE ~aggregate
      <4>1. PICK n \in Nat : n = back.currentShortFrameRetryCount + 1  BY <3>1
      <4>2. c = [back EXCEPT !.currentShortFrameRetryCount = n]  BY <1>3, <1>5, <3>3, <4>1
      <4> QED  BY <1>4, <4>2 DEF Senders, SameFrames
    <3> QED  BY <3>2, <3>3
  <2>2. SenderOK(c, f, taken, queued, d, first)  BY <1>2, <2>1, AccessOK
  <2>3. HeldFrames(c) = HeldFrames(s)  BY <1>4, <2>1, SameFramesHeld
  <2>4. SameSession(s, c) /\ ~c.waitingForAck  BY <1>2, <2>1 DEF SameSession, SameFrames
  <2>5. DroppedAtTimeout(s) = {}  BY <1>5 DEF DroppedAtTimeout
  <2>6. Keeps(s, c, d, d, DroppedAtTimeout(s))  BY <2>3, <2>4, <2>5 DEF Keeps
  <2> QED  BY <1>1, <2>2, <2>4, <2>6 DEF c
<1>6. CASE GivesUpAfterTimeout(s) /\ aggregate
  <2>1. c = DropAggregate(back, s.lastTransmitted)  BY <1>2, <1>3, <1>6
  <2>2. /\ HeldFrames(s) = Elements(s.lastTransmitted) /\ s.lastTransmitted # <<>>
        /\ Aggregated(s) = Elements(s.lastTransmitted)
    BY <1>1, <1>6, WaitingFrames DEF HeldFrames, PlacesOK
  <2>3. s.lastTransmitted \in Seq(Frames)  BY <1>1, SenderTypes
  <2>4. AggregateOK(s.lastTransmitted, f, taken)
    BY <1>1, <2>2, <2>3 DEF AggregateOK, NumbersOK, OrderOK
  <2>5. s.blockAckSessionIsEnabled /\ back.blockAckSessionIsEnabled
    BY <1>1, <1>2, <2>2, <2>3, ElementsOf DEF RequestOK, SameSession
  <2>6. PICK d2 \in Ids(Elements(s.lastTransmitted)) :
           /\ SenderOK(c, f, taken, queued, d2, first)
           /\ ~c.waitingForAck /\ HoldsNothing(c) /\ HeldFrames(c) = {}
           /\ c.blockAckSessionIsEnabled /\ c.blockAckRequestNeedsToBeSent
           /\ \A g \in Elements(s.lastTransmitted) : g.id <= d2
    BY <1>2, <1>6, <2>1, <2>4, <2>5, DropAggregateOK
  <2>7. DroppedAtTimeout(s) = Ids(HeldFrames(s))
    <3>1. s.lastSentFrameWasAn # "BlockAckRequestFrame"  BY <1>6
    <3>2. DroppedAtTimeout(s) = {s.lastTransmitted[i].id : i \in DOMAIN s.lastTransmitted}
      BY <1>6, <3>1 DEF DroppedAtTimeout
    <3> QED  BY <2>2, <3>2 DEF Ids, Elements
  <2>8. GivesUp(s, c, d2, DroppedAtTimeout(s))
    <3>1. c \in Senders  BY <2>6 DEF SenderOK
    <3>2. c.blockAckSessionIsEnabled = s.blockAckSessionIsEnabled
      BY <1>1, <2>5, <2>6, <3>1, SenderTypes
    <3> QED  BY <2>2, <2>5, <2>6, <2>7, <3>2 DEF GivesUp, Held, Ids
  <2>9. d2 \in Int  BY <2>6 DEF SenderOK, DropOK
  <2> QED  BY <2>6, <2>8, <2>9 DEF c
<1>7. CASE GivesUpAfterTimeout(s) /\ ~aggregate
  <2>1. c = DropCurrentPacketAndGoToNextPacket(back) /\ back.currentPacket \in Frames
    BY <1>2, <1>3, <1>7
  <2>2. PICK g \in Frames : g = back.currentPacket  BY <2>1
  <2>3. /\ SenderOK(c, f, taken, queued, g.id, first)
        /\ ~c.waitingForAck
        /\ HeldFrames(back) = HeldFrames(c) \cup {g}
        /\ c.blockAckSessionIsEnabled = back.blockAckSessionIsEnabled
        /\ c.blockAckRequestNeedsToBeSent <=> back.blockAckSessionIsEnabled
        /\ \A h \in HeldFrames(c) : g.id < h.id
    BY <1>2, <2>1, <2>2, DropCurrentPacketOK
  <2>4. DroppedAtTimeout(s) = {g.id}
    <3>1. CASE s.lastSentFrameWasAn = "ShortFrame"
      <4>1. DOMAIN s.lastTransmitted = {1} /\ g = s.lastTransmitted[1]
        BY <1>1, <1>2, <1>7, <2>2, <3>1, WaitingFrames
      <4>2. DroppedAtTimeout(s) = {s.lastTransmitted[i].id : i \in DOMAIN s.lastTransmitted}
        BY <1>7, <3>1 DEF DroppedAtTimeout
      <4> QED  BY <4>1, <4>2
    <3>2. CASE s.lastSentFrameWasAn = "BlockAckRequestFrame"
      BY <1>2, <1>7, <2>2, <3>2 DEF DroppedAtTimeout
    <3>3. s.lastSentFrameWasAn \in {"ShortFrame", "AggregateFrame", "BlockAckRequestFrame"}
      BY <1>1, SenderTypes
    <3> QED  BY <1>7, <3>1, <3>2, <3>3
  <2>5. g.id \in Nat  BY FrameTypes
  <2>6. GivesUp(s, c, g.id, DroppedAtTimeout(s))
    BY <1>2, <1>4, <2>3, <2>4, <2>5 DEF GivesUp, SameSession
  <2> QED  BY <2>3, <2>5, <2>6 DEF c
<1> QED  BY <1>5, <1>6, <1>7

-----------------------------------------------------------------------------
(* A block acknowledgement. *)

BlockAckTypeOK(ba) == ba.start \in SequenceNumbers /\ ba.bitmap \in SUBSET (0 .. W - 1)

\* The transmitter before it looks at what is acknowledged.
AfterBlockAck(s, ba) ==
    [s EXCEPT !.waitingForAck = FALSE, !.lastTransmitted = <<>>,
              !.blockAckRequestNeedsToBeSent = FALSE, !.ackedInTxop = TRUE,
              !.windowStartSequenceNumber = WindowStartAfter(ba)]

\* The fields after a block ack, before what it left is dealt with.
LEMMA AfterBlockAckFields ==
    ASSUME NEW s \in Senders, NEW ba, BlockAckTypeOK(ba)
    PROVE  LET c == AfterBlockAck(s, ba)
           IN /\ c \in Senders /\ c.waitingForAck = FALSE /\ c.lastTransmitted = <<>>
              /\ c.outgoingSequenceNumber = s.outgoingSequenceNumber
              /\ c.networkOutputQueue = s.networkOutputQueue
              /\ c.lastDroppedFrameSequenceNumber = s.lastDroppedFrameSequenceNumber
              /\ c.blockAckSessionIsEnabled = s.blockAckSessionIsEnabled
              /\ c.blockAckRequestNeedsToBeSent = FALSE
              /\ c.currentPacket = s.currentPacket
              /\ c.currentAggregateFrame = s.currentAggregateFrame
              /\ c.currentAggregateFrameRetryCount = s.currentAggregateFrameRetryCount
<1>1. WindowStartAfter(ba) \in SequenceNumbers
  <2>1. W \in Nat /\ W > 0 /\ SeqMod \in Nat /\ SeqMod > 2 * W  BY SequenceNumbersAssumption
  <2>2. ba.bitmap \in SUBSET Nat /\ W \notin ba.bitmap /\ ba.start \in Int
    BY <2>1 DEF BlockAckTypeOK, SequenceNumbers
  <2>3. EndOfRun(ba.bitmap, 0, W) \in 0 .. W
    <3>1. PICK bits \in SUBSET Nat, zero \in Nat : bits = ba.bitmap /\ zero = 0  BY <2>2
    <3>2. zero <= W /\ W \notin bits  BY <2>1, <2>2, <3>1
    <3>3. EndOfRun(bits, zero, W) \in zero .. W  BY <2>1, <3>2, EndOfRunLemma
    <3> QED  BY <3>1, <3>3
  <2>4. PICK n \in Int : n = ba.start + EndOfRun(ba.bitmap, 0, W)  BY <2>1, <2>2, <2>3
  <2>5. n % SeqMod \in SequenceNumbers  BY <2>1, <2>4 DEF SequenceNumbers
  <2> QED  BY <2>4, <2>5 DEF WindowStartAfter
<1>2. <<>> \in Seq(Frames)  OBVIOUS
<1> QED  BY <1>1, <1>2 DEF AfterBlockAck, Senders

\* c is s with the block acknowledgement processed, and what is left of the frames in hand.
LEMMA AfterBlockAckOK ==
    ASSUME NEW s, NEW f, NEW taken, NEW queued, NEW d, NEW first,
           SenderOK(s, f, taken, queued, d, first),
           NEW c \in Senders, ~c.waitingForAck, c.lastTransmitted = <<>>,
           c.outgoingSequenceNumber = s.outgoingSequenceNumber,
           c.networkOutputQueue = s.networkOutputQueue,
           c.blockAckSessionIsEnabled = s.blockAckSessionIsEnabled,
           ~c.blockAckRequestNeedsToBeSent,
           {c.currentPacket} \ {NoFrame} \subseteq Single(s),
           Elements(c.currentAggregateFrame) \subseteq Aggregated(s),
           Increasing(c.currentAggregateFrame),
           c.currentAggregateFrame # <<>> => c.currentPacket = NoFrame \/ s.protect,
           c.protect = s.protect
    PROVE  SenderOK(c, f, taken, queued, d, first)
<1>1. s \in Senders /\ f \in Int /\ PlacesOK(s) /\ RequestOK(s)
      /\ NumbersOK(s, f, taken, queued) /\ OrderOK(s) /\ DropOK(s, f, taken, d, first)
  BY DEF SenderOK
<1>2. PlacesOK(c)  BY DEF PlacesOK
<1>3. Single(c) = {c.currentPacket} \ {NoFrame}
      /\ Aggregated(c) = Elements(c.currentAggregateFrame)
  BY <1>2, RestingFrames
<1>4. RequestOK(c)  BY <1>1, <1>3 DEF RequestOK
<1>5. HoldsNoMore(s, c)  BY <1>3 DEF HoldsNoMore
<1>6. Increasing(c.lastTransmitted)  BY EmptyElements
<1>7. d \in Int /\ -1 <= d /\ d <= taken  BY <1>1 DEF DropOK
<1> QED  BY <1>2, <1>4, <1>5, <1>6, <1>7, HoldsNoMoreOK

\* The reply to a block ack request.
LEMMA BlockAckOfRequestOK ==
    ASSUME NEW s, NEW f, NEW taken, NEW queued, NEW d, NEW first,
           SenderOK(s, f, taken, queued, d, first), s.waitingForAck,
           s.lastSentFrameWasAn = "BlockAckRequestFrame", NEW ba, BlockAckTypeOK(ba)
    PROVE  LET c == ProcessBlockAckFrame(s, ba)
           IN /\ SenderOK(c, f, taken, queued, d, first)
              /\ ~c.waitingForAck /\ HasFrame(c) /\ ~HoldsNothing(c)
              /\ HeldFrames(c) = HeldFrames(s)
              /\ c.blockAckSessionIsEnabled = s.blockAckSessionIsEnabled
              /\ ~c.blockAckRequestNeedsToBeSent
<1> DEFINE done == AfterBlockAck(s, ba)
           c == ProcessBlockAckFrame(s, ba)
<1>1. s \in Senders /\ PlacesOK(s) /\ RequestOK(s) /\ OrderOK(s)  BY DEF SenderOK
<1>2. c = [done EXCEPT !.currentShortFrameRetryCount = 0]
  BY Zenon DEF ProcessBlockAckFrame, AfterBlockAck
<1>3. /\ done \in Senders /\ done.waitingForAck = FALSE /\ done.lastTransmitted = <<>>
      /\ done.outgoingSequenceNumber = s.outgoingSequenceNumber
      /\ done.networkOutputQueue = s.networkOutputQueue
      /\ done.blockAckSessionIsEnabled = s.blockAckSessionIsEnabled
      /\ done.blockAckRequestNeedsToBeSent = FALSE
      /\ done.currentPacket = s.currentPacket
      /\ done.currentAggregateFrame = s.currentAggregateFrame
      /\ done.protect = s.protect
  BY <1>1, AfterBlockAckFields DEF AfterBlockAck, Senders
<1> HIDE DEF done, c
<1>4. /\ c \in Senders /\ ~c.waitingForAck /\ c.lastTransmitted = <<>>
      /\ c.outgoingSequenceNumber = s.outgoingSequenceNumber
      /\ c.networkOutputQueue = s.networkOutputQueue
      /\ c.blockAckSessionIsEnabled = s.blockAckSessionIsEnabled
      /\ ~c.blockAckRequestNeedsToBeSent
      /\ c.currentPacket = s.currentPacket
      /\ c.currentAggregateFrame = s.currentAggregateFrame
      /\ c.protect = s.protect
  BY <1>2, <1>3 DEF Senders
<1>5. s.currentPacket \in Frames /\ s.currentPacket # NoFrame /\ Single(s) = {s.currentPacket}
      /\ Aggregated(s) = Elements(s.currentAggregateFrame)
  BY <1>1, WaitingFrames, FrameTypes
<1>6. s.currentAggregateFrame # <<>> => s.protect
  BY <1>1, <1>5, SenderTypes DEF RequestOK
<1>7. Increasing(c.currentAggregateFrame)  BY <1>1, <1>4 DEF OrderOK
<1>8. {c.currentPacket} \ {NoFrame} \subseteq Single(s)
      /\ Elements(c.currentAggregateFrame) \subseteq Aggregated(s)
  BY <1>4, <1>5
<1>9. SenderOK(c, f, taken, queued, d, first)
  BY <1>4, <1>6, <1>7, <1>8, AfterBlockAckOK
<1>10. PlacesOK(c)  BY <1>9 DEF SenderOK
<1>11. HeldFrames(c) = HeldFrames(s)  BY <1>4, <1>5, <1>10, RestingFrames DEF HeldFrames
<1> QED  BY <1>4, <1>5, <1>9, <1>11 DEF HasFrame, HoldsNothing, c

\* The frames sent that the block acknowledgement leaves.
Left(s, ba) == {g \in HeldFrames(s) : ~IsAcked(ba, g.seq)}

RetriesLeft(s, c, ba, d, d2) ==
    /\ d2 = d /\ DroppedAtBlockAck(s, ba) = {}
    /\ HeldFrames(c) = Left(s, ba) /\ ~c.blockAckRequestNeedsToBeSent

GivesUpLeft(s, c, ba, d2) ==
    /\ d2 \in Ids(Left(s, ba)) /\ DroppedAtBlockAck(s, ba) = Ids(Left(s, ba))
    /\ \A p \in Ids(Left(s, ba)) : p <= d2
    /\ HeldFrames(c) = {} /\ c.blockAckRequestNeedsToBeSent

\* The reply to an aggregate.
LEMMA BlockAckOfAggregateOK ==
    ASSUME NEW s, NEW f, NEW taken, NEW queued, NEW d, NEW first,
           SenderOK(s, f, taken, queued, d, first), s.waitingForAck,
           s.lastSentFrameWasAn = "AggregateFrame", NEW ba, BlockAckTypeOK(ba)
    PROVE  LET c == ProcessBlockAckFrame(s, ba)
           IN \E d2 \in Int :
                 /\ SenderOK(c, f, taken, queued, d2, first) /\ ~c.waitingForAck
                 /\ HoldsNothing(c) \/ HasFrame(c)
                 /\ c.blockAckSessionIsEnabled
                 /\ AckedBy(s, ba) = Ids(HeldFrames(s) \ Left(s, ba))
                 /\ \A g, h \in HeldFrames(s) : g.id = h.id => g = h
                 /\ RetriesLeft(s, c, ba, d, d2) \/ GivesUpLeft(s, c, ba, d2)
<1> DEFINE done == AfterBlockAck(s, ba)
           sent == s.lastTransmitted
           left == Unacked(s, ba)
           c == ProcessBlockAckFrame(s, ba)
<1>1. /\ s \in Senders /\ f \in Int /\ PlacesOK(s) /\ RequestOK(s)
      /\ NumbersOK(s, f, taken, queued) /\ OrderOK(s) /\ DropOK(s, f, taken, d, first)
      /\ d \in Int /\ taken \in Nat
  BY DEF SenderOK, DropOK, NumbersOK
<1>2. c = AfterAggregateAcked(done, left)
  BY Zenon DEF ProcessBlockAckFrame, AfterBlockAck
<1>3. /\ done \in Senders /\ done.waitingForAck = FALSE /\ done.lastTransmitted = <<>>
      /\ done.outgoingSequenceNumber = s.outgoingSequenceNumber
      /\ done.networkOutputQueue = s.networkOutputQueue
      /\ done.blockAckSessionIsEnabled = s.blockAckSessionIsEnabled
      /\ done.blockAckRequestNeedsToBeSent = FALSE
      /\ done.currentPacket = s.currentPacket
      /\ done.currentAggregateFrame = s.currentAggregateFrame
      /\ done.currentAggregateFrameRetryCount = s.currentAggregateFrameRetryCount
      /\ done.protect = s.protect
  BY <1>1, AfterBlockAckFields DEF AfterBlockAck, Senders
<1>4. /\ s.currentPacket = NoFrame /\ s.currentAggregateFrame = <<>> /\ sent # <<>>
      /\ Single(s) = {} /\ Aggregated(s) = Elements(sent) /\ HeldFrames(s) = Elements(sent)
      /\ sent \in Seq(Frames) /\ Increasing(sent)
  BY <1>1, WaitingFrames, SenderTypes DEF PlacesOK, HoldsNothing, HeldFrames, OrderOK
<1>5. s.blockAckSessionIsEnabled  BY <1>1, <1>4, ElementsOf DEF RequestOK
<1>6. /\ left \in Seq(Frames)
      /\ \A k \in DOMAIN left : \E i \in DOMAIN sent :
            left[k] = sent[i] /\ ~IsAcked(ba, sent[i].seq)
      /\ \A i \in DOMAIN sent :
            IsAcked(ba, sent[i].seq) \/ \E k \in DOMAIN left : left[k] = sent[i]
      /\ \A k, l \in DOMAIN left : k < l =>
            \E i, j \in DOMAIN sent : i < j /\ left[k] = sent[i] /\ left[l] = sent[j]
  <2>1. IsLeft(left, sent, ba)  BY <1>1, UnackedLemma
  <2> HIDE DEF left, sent
  <2> QED  BY <2>1, Zenon DEF IsLeft
<1>7. DroppedAtBlockAck(s, ba) = IF s.currentAggregateFrameRetryCount + 1 >= RetryLimit
                                 THEN {left[i].id : i \in DOMAIN left} ELSE {}
  BY DEF DroppedAtBlockAck
<1>8. AckedBy(s, ba) = {g.id : g \in {h \in Elements(sent) : IsAcked(ba, h.seq)}}
  BY Zenon DEF AckedBy, Elements
<1> HIDE DEF done, sent, left, c
<1>9. Elements(left) = Left(s, ba)
  BY <1>4, <1>6 DEF Elements, Left
<1>10. {left[i].id : i \in DOMAIN left} = Ids(Left(s, ba))
  BY <1>9 DEF Elements, Ids
<1>11. AckedBy(s, ba) = Ids(HeldFrames(s) \ Left(s, ba))
  <2>1. {h \in Elements(sent) : IsAcked(ba, h.seq)} = HeldFrames(s) \ Left(s, ba)
    BY <1>4 DEF Left
  <2> QED  BY <1>8, <2>1 DEF Ids
<1>12. Increasing(left)
  <2> SUFFICES ASSUME NEW k \in DOMAIN left, NEW l \in DOMAIN left, k < l
               PROVE  left[k].id < left[l].id
    BY DEF Increasing
  <2>1. PICK i \in DOMAIN sent, j \in DOMAIN sent :
           i < j /\ left[k] = sent[i] /\ left[l] = sent[j]
    BY <1>6
  <2> QED  BY <1>4, <2>1 DEF Increasing
<1>13. \A g, h \in HeldFrames(s) : g.id = h.id => g = h
  <2> SUFFICES ASSUME NEW i \in DOMAIN sent, NEW j \in DOMAIN sent, sent[i].id = sent[j].id
               PROVE  sent[i] = sent[j]
    BY <1>4 DEF Elements
  <2>1. PICK m \in Nat : DOMAIN sent = 1 .. m  BY <1>4, ElementsOf
  <2>2. sent[i].id \in Nat /\ sent[j].id \in Nat  BY <1>4, FrameTypes
  <2>3. ~(i < j) /\ ~(j < i)  BY <1>4, <2>2 DEF Increasing
  <2> QED  BY <2>1, <2>3
<1>14. <<>> \in Seq(Frames) /\ s.currentAggregateFrameRetryCount \in Nat
  BY <1>1, SenderTypes
<1>15. CASE left = <<>>
  <2>1. c = [done EXCEPT !.currentAggregateFrame = <<>>, !.currentAggregateFrameRetryCount = 0]
    BY <1>2, <1>15 DEF AfterAggregateAcked
  <2>2. /\ c \in Senders /\ c.waitingForAck = FALSE /\ c.lastTransmitted = <<>>
        /\ c.outgoingSequenceNumber = s.outgoingSequenceNumber
        /\ c.networkOutputQueue = s.networkOutputQueue
        /\ c.blockAckSessionIsEnabled = s.blockAckSessionIsEnabled
        /\ c.blockAckRequestNeedsToBeSent = FALSE
        /\ c.currentPacket = NoFrame /\ c.currentAggregateFrame = <<>>
        /\ c.protect = s.protect
    BY <1>3, <1>4, <1>14, <2>1 DEF Senders
  <2>3. SenderOK(c, f, taken, queued, d, first)
    BY <1>4, <2>2, EmptyElements, AfterBlockAckOK
  <2>4. PlacesOK(c)  BY <2>3 DEF SenderOK
  <2>5. HeldFrames(c) = {} /\ HoldsNothing(c)
    BY <2>2, <2>4, RestingFrames, EmptyElements DEF HeldFrames, HoldsNothing
  <2>6. Left(s, ba) = {}  BY <1>9, <1>15, EmptyElements
  <2>7. DroppedAtBlockAck(s, ba) = {}  BY <1>7, <1>10, <2>6 DEF Ids
  <2>8. RetriesLeft(s, c, ba, d, d)  BY <2>2, <2>5, <2>6, <2>7 DEF RetriesLeft
  <2> QED  BY <1>1, <1>5, <1>11, <1>13, <2>2, <2>3, <2>5, <2>8 DEF c
<1>16. CASE left # <<>> /\ s.currentAggregateFrameRetryCount + 1 >= RetryLimit
  <2>1. c = DropAggregate(done, left)  BY <1>2, <1>3, <1>16 DEF AfterAggregateAcked
  <2>2. SenderOK(done, f, taken, queued, d, first)
    <3>1. /\ ~done.waitingForAck /\ ~done.blockAckRequestNeedsToBeSent
          /\ {done.currentPacket} \ {NoFrame} \subseteq Single(s)
          /\ Elements(done.currentAggregateFrame) \subseteq Aggregated(s)
          /\ Increasing(done.currentAggregateFrame)
          /\ done.currentAggregateFrame = <<>>
      BY <1>3, <1>4, EmptyElements
    <3> QED  BY <1>3, <3>1, AfterBlockAckOK
  <2>3. AggregateOK(left, f, taken)
    <3>1. Elements(left) \subseteq HeldFrames(s)  BY <1>9 DEF Left
    <3> QED  BY <1>1, <1>6, <1>12, <1>16, <3>1 DEF AggregateOK, NumbersOK
  <2>4. PICK d2 \in Ids(Elements(left)) :
           /\ SenderOK(c, f, taken, queued, d2, first)
           /\ ~c.waitingForAck /\ HoldsNothing(c) /\ HeldFrames(c) = {}
           /\ c.blockAckSessionIsEnabled /\ c.blockAckRequestNeedsToBeSent
           /\ \A g \in Elements(left) : g.id <= d2
    BY <1>3, <1>4, <1>5, <2>1, <2>2, <2>3, DropAggregateOK
  <2>5. DroppedAtBlockAck(s, ba) = Ids(Left(s, ba))  BY <1>7, <1>10, <1>16
  <2>6. GivesUpLeft(s, c, ba, d2)
    BY <1>9, <2>4, <2>5 DEF GivesUpLeft, Ids
  <2>7. d2 \in Int  BY <2>4 DEF SenderOK, DropOK
  <2> QED  BY <1>11, <1>13, <2>4, <2>6, <2>7 DEF c
<1>17. CASE left # <<>> /\ ~(s.currentAggregateFrameRetryCount + 1 >= RetryLimit)
  <2>1. PICK n \in Nat : n = done.currentAggregateFrameRetryCount + 1  BY <1>3, <1>14
  <2>2. c = [done EXCEPT !.currentAggregateFrame = left, !.currentAggregateFrameRetryCount = n]
    BY <1>2, <1>3, <1>17, <2>1 DEF AfterAggregateAcked
  <2>3. /\ c \in Senders /\ c.waitingForAck = FALSE /\ c.lastTransmitted = <<>>
        /\ c.outgoingSequenceNumber = s.outgoingSequenceNumber
        /\ c.networkOutputQueue = s.networkOutputQueue
        /\ c.blockAckSessionIsEnabled = s.blockAckSessionIsEnabled
        /\ c.blockAckRequestNeedsToBeSent = FALSE
        /\ c.currentPacket = NoFrame /\ c.currentAggregateFrame = left
        /\ c.protect = s.protect
    BY <1>3, <1>4, <1>6, <2>2 DEF Senders
  <2>4. SenderOK(c, f, taken, queued, d, first)
    <3>1. Elements(left) \subseteq Aggregated(s)  BY <1>4, <1>9 DEF Left
    <3> QED  BY <1>12, <2>3, <3>1, AfterBlockAckOK
  <2>5. PlacesOK(c)  BY <2>4 DEF SenderOK
  <2>6. HeldFrames(c) = Left(s, ba) /\ HasFrame(c)
    BY <1>9, <1>17, <2>3, <2>5, RestingFrames DEF HeldFrames, HasFrame
  <2>7. DroppedAtBlockAck(s, ba) = {}  BY <1>7, <1>17
  <2>8. RetriesLeft(s, c, ba, d, d)  BY <2>3, <2>6, <2>7 DEF RetriesLeft
  <2> QED  BY <1>1, <1>5, <1>11, <1>13, <2>3, <2>4, <2>6, <2>8 DEF c
<1> QED  BY <1>15, <1>16, <1>17

\* A reply leaves the access to the medium alone.
LEMMA ReplyAccess ==
    ASSUME NEW s \in Senders, NEW ba
    PROVE  /\ ProcessAcknowledgementFrame(s).backoff = s.backoff
           /\ ProcessAcknowledgementFrame(s).hasPacketToSend = s.hasPacketToSend
           /\ ProcessBlockAckFrame(s, ba).backoff = s.backoff
           /\ ProcessBlockAckFrame(s, ba).hasPacketToSend = s.hasPacketToSend
<1> DEFINE start == WindowStartAfter(ba)
           unacked == Unacked(s, ba)
           done == [s EXCEPT !.waitingForAck = FALSE, !.lastTransmitted = <<>>,
                             !.blockAckRequestNeedsToBeSent = FALSE, !.ackedInTxop = TRUE,
                             !.windowStartSequenceNumber = start]
<1>1. /\ ProcessAcknowledgementFrame(s).backoff = s.backoff
      /\ ProcessAcknowledgementFrame(s).hasPacketToSend = s.hasPacketToSend
  BY DEF ProcessAcknowledgementFrame, Senders
<1>2. ProcessBlockAckFrame(s, ba) = IF s.lastSentFrameWasAn = "AggregateFrame"
                                    THEN AfterAggregateAcked(done, unacked)
                                    ELSE [done EXCEPT !.currentShortFrameRetryCount = 0]
  BY DEF ProcessBlockAckFrame
<1> HIDE DEF start, unacked
<1>3. done.backoff = s.backoff /\ done.hasPacketToSend = s.hasPacketToSend  BY DEF Senders
<1>4. /\ [done EXCEPT !.currentShortFrameRetryCount = 0].backoff = s.backoff
      /\ [done EXCEPT !.currentShortFrameRetryCount = 0].hasPacketToSend = s.hasPacketToSend
  BY DEF Senders
<1>5. /\ AfterAggregateAcked(done, unacked).backoff = s.backoff
      /\ AfterAggregateAcked(done, unacked).hasPacketToSend = s.hasPacketToSend
  BY DEF AfterAggregateAcked, DropAggregate, Senders
<1> QED  BY <1>1, <1>2, <1>4, <1>5

-----------------------------------------------------------------------------
(* 2. Both sides. *)

\* The numbers suffice for the packets of a run.  They do not for an outage that uses up
\* half of them, nor when a session is opened by a request for number 0 (section 9 of the
\* README).
NumbersSuffice ==
    /\ 4 * W < SeqMod /\ 2 * MaxPackets < SeqMod
    /\ \A start \in Starts :
           start.sessionIsOpen \/ \A p \in Packets : (start.firstNumber + p + 1) % SeqMod # 0

-----------------------------------------------------------------------------
(* The receiver. *)

\* b holds frames under their numbers and has delivered what it does not wait for.
ReceiverOK(b, f, taken, delivered) ==
    /\ BufferInv(b)
    /\ f < b.currentLowestUnreceived /\ b.currentLowestUnreceived <= f + taken + 1
    /\ \A n \in b.blockAckBitmap : f <= n /\ n <= f + taken
    /\ \A g \in b.frameBuffer : g.seq = f + g.id
    /\ \A p \in delivered : p \in Nat /\ 1 <= p /\ p <= taken /\ f + p < b.currentLowestUnreceived
    /\ b.blockAckSessionIsActive =>
           /\ 1 <= b.bitmapWindowStart /\ f <= b.bitmapWindowStart
           /\ \A n \in b.blockAckBitmap :
                  f < n /\ n < b.currentLowestUnreceived => n - f \in delivered
    /\ ~b.blockAckSessionIsActive => \A p \in Packets : (f + p + 1) % SeqMod # 0

\* What the receiver has of the packets: first is taken for received.
Received(b, delivered, first) == delivered \cup Ids(b.frameBuffer) \cup {first}

-----------------------------------------------------------------------------
(* Both. *)

\* How the window lies to the frames in the transmitter's hands.
WindowOK(b, s, f, taken, d, first, delivered) ==
    LET lowest == b.currentLowestUnreceived
        start == b.bitmapWindowStart
        due == s.blockAckRequestNeedsToBeSent
    IN  /\ b.blockAckSessionIsActive => s.blockAckSessionIsEnabled
        /\ \A g \in HeldFrames(s) : f + g.id < lowest => g.id \in delivered \/ g.id = first
        /\ b.blockAckSessionIsActive =>
               /\ \A g \in HeldFrames(s) :
                      start <= f + g.id \/ (g.id = first /\ start = f + g.id + 1)
               /\ due => start <= f + d + 1
        /\ s.blockAckSessionIsEnabled /\ ~b.blockAckSessionIsActive =>
               due /\ 1 <= d /\ lowest <= f + d + 1
        /\ s.blockAckSessionIsEnabled =>
               \A p \in 1 .. taken : p \notin Held(s) /\ (due => p > d) =>
                   b.blockAckSessionIsActive /\ HaveAlreadySeen(b, f + p)

\* What the signal on the air is about.
AirOK(a, b, s, f, d, received) ==
    LET sent == s.lastSentFrameWasAn
        frames == s.lastTransmitted
    IN  /\ a \in Signals
        /\ a # Nothing => s.waitingForAck
        /\ a.type = "DATA" => sent = "ShortFrame" /\ a.frame = frames[1]
        /\ a.type = "AGGREGATE" =>
               /\ sent = "AggregateFrame" /\ a.frames # <<>>
               /\ Elements(a.frames) \subseteq Elements(frames)
        /\ a.type = "BAR" =>
               sent = "BlockAckRequestFrame" /\ a.start = (f + d + 1) % SeqMod
        /\ a.type = "ACK" =>
               /\ sent = "ShortFrame"
               /\ frames[1].id \in received
               /\ b.blockAckSessionIsActive => HaveAlreadySeen(b, f + frames[1].id)
        /\ a.type = "BA" =>
               /\ sent \in {"AggregateFrame", "BlockAckRequestFrame"}
               /\ b.blockAckSessionIsActive
               /\ a.start = b.bitmapWindowStart % SeqMod
               /\ a.bitmap = {n - b.bitmapWindowStart : n \in b.blockAckBitmap}
               /\ sent = "BlockAckRequestFrame" => f + d + 1 <= b.currentLowestUnreceived

\* A packet that is held or queued is not settled, and one acknowledged was received.
OutcomesOK(o, s, taken, received) ==
    /\ o \in [Packets -> {"none", "acked", "dropped"}]
    /\ \A p \in Packets : p \in Held(s) \/ p > taken => o[p] = "none"
    /\ \A p \in Packets : o[p] = "acked" => p \in received

\* Both ends for the packets taken so far.
EndsOK(b, s, f, taken, queued, d, first, delivered) ==
    /\ SenderOK(s, f, taken, queued, d, first)
    /\ ReceiverOK(b, f, taken, delivered)
    /\ WindowOK(b, s, f, taken, d, first, delivered)

InvAt(f, taken, d) ==
    /\ offered \in 0 .. MaxPackets
    /\ up \in Seq(Packets) /\ DeliveredInOrder
    /\ EndsOK(rcv, snd, f, taken, offered, d, opener, Delivered)
    /\ AirOK(air, rcv, snd, f, d, Received(rcv, Delivered, opener))
    /\ OutcomesOK(outcome, snd, taken, Received(rcv, Delivered, opener))

\* The inductive invariant.
Inv == \E f \in Int, taken \in Nat, d \in Int : InvAt(f, taken, d)

-----------------------------------------------------------------------------
(* The numbers. *)

\* The bounds on the constants that the arithmetic needs.
LEMMA Bounds ==
    ASSUME NumbersSuffice
    PROVE  /\ W \in Nat /\ W >= 1 /\ SeqMod \in Nat /\ 4 * W < SeqMod
           /\ MaxPackets \in Nat /\ 2 * MaxPackets < SeqMod
BY SequenceNumbersAssumption, BlockAckAssumption DEF NumbersSuffice

\* The types of the fields of both ends, and the parts of their invariant.
LEMMA EndsFields ==
    ASSUME NEW b, NEW s, NEW f, NEW taken, NEW queued, NEW d, NEW first, NEW delivered,
           EndsOK(b, s, f, taken, queued, d, first, delivered)
    PROVE  /\ f \in Int /\ taken \in Nat /\ queued \in Nat /\ d \in Int /\ first \in Nat
           /\ taken <= queued /\ -1 <= d /\ d <= taken /\ first <= taken
           /\ s \in Senders /\ PlacesOK(s) /\ RequestOK(s) /\ OrderOK(s)
           /\ NumbersOK(s, f, taken, queued) /\ DropOK(s, f, taken, d, first)
           /\ BufferInv(b) /\ b \in Buffers
           /\ b.currentLowestUnreceived \in Nat /\ b.bitmapWindowStart \in Nat
           /\ b.blockAckBitmap \in SUBSET Nat
           /\ b.frameBuffer \in SUBSET [seq : Nat, id : Nat]
           /\ b.blockAckSessionIsActive \in BOOLEAN
           /\ \A g \in HeldFrames(s) : g \in Frames /\ g.id \in Nat /\ g.seq \in SequenceNumbers
<1>1. /\ f \in Int /\ s \in Senders /\ PlacesOK(s) /\ RequestOK(s) /\ OrderOK(s)
      /\ NumbersOK(s, f, taken, queued) /\ DropOK(s, f, taken, d, first)
      /\ BufferInv(b)
  BY DEF EndsOK, SenderOK, ReceiverOK
<1>2. /\ taken \in Nat /\ queued \in Nat /\ d \in Int /\ first \in Nat
      /\ -1 <= d /\ d <= taken /\ first <= taken
  BY <1>1 DEF NumbersOK, DropOK
<1>3. taken <= queued
  <2>1. s.networkOutputQueue \in Seq(Nat)  BY <1>1, SenderTypes
  <2>2. Len(s.networkOutputQueue) \in Nat /\ Len(s.networkOutputQueue) = queued - taken
    BY <1>1, <2>1 DEF NumbersOK
  <2> QED  BY <1>2, <2>2
<1>4. \A g \in HeldFrames(s) : g \in Frames
  <2>1. /\ s.currentPacket \in Frames \cup {NoFrame}
        /\ s.currentAggregateFrame \in Seq(Frames) /\ s.lastTransmitted \in Seq(Frames)
    BY <1>1, SenderTypes
  <2>2. /\ Elements(s.currentAggregateFrame) \subseteq Frames
        /\ Elements(s.lastTransmitted) \subseteq Frames
    BY <2>1, ElementsOf
  <2> QED  BY <2>1, <2>2 DEF HeldFrames, Single, Aggregated
<1>5. b \in Buffers  BY <1>1 DEF BufferInv
<1> QED  BY <1>1, <1>2, <1>3, <1>4, <1>5, FrameTypes DEF Buffers

\* In a session with no request due, the lowest missing frame is held, or is the next one.
LEMMA LowestMissing ==
    ASSUME NumbersSuffice,
           NEW b, NEW s, NEW f, NEW taken, NEW queued, NEW d, NEW first, NEW delivered,
           EndsOK(b, s, f, taken, queued, d, first, delivered),
           b.blockAckSessionIsActive, ~s.blockAckRequestNeedsToBeSent
    PROVE  LET lowest == b.currentLowestUnreceived
           IN /\ lowest - f \in Held(s) \/ lowest = f + taken + 1
              /\ f + taken < lowest + W
<1> DEFINE lowest == b.currentLowestUnreceived
<1>1. /\ W \in Nat /\ W >= 1 /\ f \in Int /\ taken \in Nat
      /\ NumbersOK(s, f, taken, queued)
      /\ lowest \in Nat /\ BufferInv(b) /\ s \in Senders
  BY Bounds, EndsFields
<1>2. f < lowest /\ lowest <= f + taken + 1
      /\ WindowOK(b, s, f, taken, d, first, delivered)
  BY DEF EndsOK, ReceiverOK
<1>3. lowest \notin b.blockAckBitmap  BY <1>1, BufferFields DEF WindowInv
<1> HIDE DEF lowest
<1>4. ~HaveAlreadySeen(b, lowest)  BY <1>1, <1>3 DEF HaveAlreadySeen, lowest
<1>5. CASE lowest = f + taken + 1  BY <1>1, <1>5 DEF lowest
<1>6. CASE lowest # f + taken + 1
  <2>1. PICK p \in 1 .. taken : p = lowest - f /\ f + p = lowest
    <3>1. lowest - f \in 1 .. taken /\ f + (lowest - f) = lowest  BY <1>1, <1>2, <1>6
    <3> QED  BY <3>1
  <2>2. p \in Held(s)
    <3>1. s.blockAckSessionIsEnabled  BY <1>2 DEF WindowOK
    <3>2. p \notin Held(s) => HaveAlreadySeen(b, f + p)
      BY <1>2, <2>1, <3>1 DEF WindowOK
    <3> QED  BY <1>4, <2>1, <3>2
  <2>3. taken - p < W  BY <1>1, <2>2 DEF Held, Ids, NumbersOK
  <2> QED  BY <1>1, <2>1, <2>2, <2>3 DEF lowest
<1> QED  BY <1>5, <1>6

\* So the receiver takes the number of a frame for what it is, and the window can move to it.
LEMMA FrameInReach ==
    ASSUME NumbersSuffice,
           NEW b, NEW s, NEW f, NEW taken, NEW queued, NEW d, NEW first, NEW delivered,
           EndsOK(b, s, f, taken, queued, d, first, delivered),
           b.blockAckSessionIsActive, ~s.blockAckRequestNeedsToBeSent,
           NEW g \in HeldFrames(s)
    PROVE  /\ NonWrapping(b, g.seq) = f + g.id
           /\ f + g.id \in Nat
           /\ ShiftAssertion(b, f + g.id)
           /\ b.bitmapWindowStart <= f + g.id \/ g.id = first
           /\ b.bitmapWindowStart <= f + g.id =>
                  CalcTwelveBitSequenceNumberDifference(g.seq, b.bitmapWindowStart % SeqMod)
                      = (f + g.id) - b.bitmapWindowStart
<1> DEFINE lowest == b.currentLowestUnreceived
           start == b.bitmapWindowStart
           n == f + g.id
<1>1. /\ W \in Nat /\ W >= 1 /\ SeqMod \in Nat /\ 4 * W < SeqMod
      /\ f \in Int /\ taken \in Nat /\ g.id \in Nat
      /\ NumbersOK(s, f, taken, queued) /\ BufferInv(b)
      /\ lowest \in Nat /\ start \in Nat
  BY Bounds, EndsFields
<1>2. g.id <= taken /\ g.seq = n % SeqMod  BY <1>1 DEF NumbersOK
<1>3. f + taken < lowest + W  BY LowestMissing
<1>4. lowest <= start + W  BY <1>1, BufferFields DEF WindowInv
<1>5. /\ start <= n \/ (g.id = first /\ start = n + 1)
      /\ 1 <= start
  BY DEF EndsOK, ReceiverOK, WindowOK
<1> HIDE DEF lowest, start, n
<1>6. n \in Int /\ n <= f + taken  BY <1>1, <1>2 DEF n
<1>7. n \in Nat /\ start - 1 <= n /\ n < start + 2 * W
  BY <1>1, <1>3, <1>4, <1>5, <1>6
<1>8. NonWrapping(b, g.seq) = n
  <2>1. PICK r \in Int : r = start + W  BY <1>1
  <2>2. 2 * (n - r) < SeqMod /\ 2 * (r - n) < SeqMod  BY <1>1, <1>7, <2>1
  <2>3. CalcTwelveBitSequenceNumberDifference(n % SeqMod, r % SeqMod) = n - r
    BY <1>7, <2>2, DifferenceOfNumbers
  <2>4. NonWrapping(b, g.seq) = r + (n - r)  BY <1>2, <2>1, <2>3 DEF NonWrapping, start
  <2> QED  BY <1>7, <2>1, <2>4
<1>9. start <= n => CalcTwelveBitSequenceNumberDifference(g.seq, start % SeqMod) = n - start
  <2> SUFFICES ASSUME start <= n
               PROVE  CalcTwelveBitSequenceNumberDifference(g.seq, start % SeqMod) = n - start
    OBVIOUS
  <2>1. 2 * (n - start) < SeqMod /\ 2 * (start - n) < SeqMod  BY <1>1, <1>7
  <2>2. n \in Int /\ start \in Int  BY <1>1, <1>7
  <2> QED  BY <1>2, <2>1, <2>2, DifferenceOfNumbers
<1>10. ShiftAssertion(b, n)
  <2>1. n - W + 1 <= lowest
    BY <1>1, <1>3, <1>6
  <2> QED  BY <2>1 DEF ShiftAssertion, lowest
<1> QED  BY <1>5, <1>7, <1>8, <1>9, <1>10 DEF n, start

\* A block ack request moves the window forward.
LEMMA RequestInReach ==
    ASSUME NumbersSuffice,
           NEW b, NEW s, NEW f, NEW taken, NEW queued, NEW d, NEW first, NEW delivered,
           EndsOK(b, s, f, taken, queued, d, first, delivered), queued <= MaxPackets,
           b.blockAckSessionIsActive, s.blockAckRequestNeedsToBeSent
    PROVE  /\ NonWrapping(b, (f + d + 1) % SeqMod) = f + d + 1
           /\ f + d + 1 \in Nat
           /\ b.bitmapWindowStart <= f + d + 1
<1> DEFINE start == b.bitmapWindowStart
           n == f + d + 1
<1>1. /\ W \in Nat /\ W >= 1 /\ SeqMod \in Nat /\ 4 * W < SeqMod
      /\ MaxPackets \in Nat /\ 2 * MaxPackets < SeqMod
      /\ f \in Int /\ taken \in Nat /\ queued \in Nat /\ taken <= queued /\ d \in Int /\ d <= taken
      /\ start \in Nat
  BY Bounds, EndsFields
<1>2. start <= n /\ f <= start  BY DEF EndsOK, ReceiverOK, WindowOK
<1> HIDE DEF start, n
<1>3. n \in Int /\ n <= f + taken + 1  BY <1>1 DEF n
<1>4. PICK r \in Int : r = start + W  BY <1>1
<1>5. 2 * (n - r) < SeqMod /\ 2 * (r - n) < SeqMod  BY <1>1, <1>2, <1>3, <1>4
<1>6. CalcTwelveBitSequenceNumberDifference(n % SeqMod, r % SeqMod) = n - r
  BY <1>3, <1>5, DifferenceOfNumbers
<1>7. NonWrapping(b, n % SeqMod) = r + (n - r)  BY <1>4, <1>6 DEF NonWrapping, start
<1>8. NonWrapping(b, n % SeqMod) = n /\ n \in Nat  BY <1>1, <1>2, <1>3, <1>4, <1>7
<1> QED  BY <1>2, <1>8 DEF n, start

-----------------------------------------------------------------------------
(* What the invariant says of a state. *)

\* What the transmitter holds while it awaits the reply to each kind of frame.
LEMMA SignalFrames ==
    ASSUME NEW s \in Senders, PlacesOK(s), RequestOK(s), s.waitingForAck
    PROVE  /\ s.lastSentFrameWasAn = "ShortFrame" =>
                  /\ s.lastTransmitted[1] \in HeldFrames(s)
                  /\ s.lastTransmitted[1] \in Frames /\ DOMAIN s.lastTransmitted = {1}
                  /\ s.currentPacket = NoFrame /\ ~s.blockAckRequestNeedsToBeSent
           /\ s.lastSentFrameWasAn = "AggregateFrame" =>
                  /\ HeldFrames(s) = Elements(s.lastTransmitted)
                  /\ Aggregated(s) = Elements(s.lastTransmitted) /\ HoldsNothing(s)
                  /\ s.blockAckSessionIsEnabled /\ ~s.blockAckRequestNeedsToBeSent
           /\ s.lastSentFrameWasAn = "BlockAckRequestFrame" =>
                  s.blockAckRequestNeedsToBeSent /\ s.blockAckSessionIsEnabled
<1>1. CASE s.lastSentFrameWasAn = "ShortFrame"
  BY <1>1, WaitingFrames DEF PlacesOK, RequestOK, HeldFrames
<1>2. CASE s.lastSentFrameWasAn = "AggregateFrame"
  <2>1. s.lastTransmitted # <<>> /\ HoldsNothing(s) /\ ~s.blockAckRequestNeedsToBeSent
    BY <1>2 DEF PlacesOK, RequestOK
  <2>2. HeldFrames(s) = Elements(s.lastTransmitted) /\ Aggregated(s) = Elements(s.lastTransmitted)
    BY <1>2, WaitingFrames DEF HeldFrames
  <2>3. s.blockAckSessionIsEnabled  BY <2>1, <2>2, SenderTypes, ElementsOf DEF RequestOK
  <2> QED  BY <1>2, <2>1, <2>2, <2>3
<1>3. CASE s.lastSentFrameWasAn = "BlockAckRequestFrame"  BY <1>3 DEF RequestOK
<1> QED  BY <1>1, <1>2, <1>3, SenderTypes

\* The first element of a sequence is one of its elements.
LEMMA HeadIsElement ==
    ASSUME NEW S, NEW seq \in Seq(S), seq # <<>>
    PROVE  Head(seq) \in Elements(seq) /\ Head(seq) \in S
<1>1. Len(seq) \in Nat /\ Len(seq) # 0 /\ DOMAIN seq = 1 .. Len(seq)  BY ElementsOf
<1>2. Head(seq) = seq[1] /\ 1 \in DOMAIN seq  BY <1>1
<1> QED  BY <1>2 DEF Elements

\* The fields of each kind of signal have their types.
LEMMA SignalTypes ==
    ASSUME NEW a \in Signals
    PROVE  /\ a.type = "DATA" => a.frame \in Frames
           /\ a.type = "AGGREGATE" => a.frames \in Seq(Frames) /\ a.good \in BOOLEAN
           /\ a.type = "BAR" => a.start \in SequenceNumbers
           /\ a.type = "BA" => BlockAckTypeOK(a)
BY DEF Signals, Nothing, BlockAckTypeOK

\* The invariant implies the safety properties of the protocol in a state.
LEMMA InvState ==
    ASSUME NumbersSuffice, NEW f, NEW taken, NEW d, InvAt(f, taken, d)
    PROVE  /\ ReceiverAssertionsHold /\ SenderAssertionsHold
           /\ AckedIsReceived /\ BufferedFramesGetReleased
<1>1. /\ f \in Int /\ taken \in Nat /\ d \in Int /\ opener \in Nat
      /\ snd \in Senders /\ PlacesOK(snd) /\ RequestOK(snd)
      /\ NumbersOK(snd, f, taken, offered) /\ DropOK(snd, f, taken, d, opener)
      /\ BufferInv(rcv) /\ rcv.currentLowestUnreceived \in Nat
      /\ rcv.blockAckBitmap \in SUBSET Nat
      /\ \A g \in HeldFrames(snd) : g \in Frames /\ g.id \in Nat /\ g.seq \in SequenceNumbers
  BY EndsFields DEF InvAt
<1>2. /\ EndsOK(rcv, snd, f, taken, offered, d, opener, Delivered)
      /\ AirOK(air, rcv, snd, f, d, Received(rcv, Delivered, opener))
      /\ ReceiverOK(rcv, f, taken, Delivered)
      /\ WindowOK(rcv, snd, f, taken, d, opener, Delivered)
      /\ OutcomesOK(outcome, snd, taken, Received(rcv, Delivered, opener))
      /\ offered <= MaxPackets
  BY Bounds DEF InvAt, EndsOK
<1>3. air \in Signals /\ (air # Nothing => snd.waitingForAck)  BY <1>2 DEF AirOK
<1>4. air.type # "None" => snd.waitingForAck  BY <1>3 DEF Nothing
<1>5. \A g \in HeldFrames(snd) :
         ~snd.blockAckRequestNeedsToBeSent => FrameAssertions(rcv, g.seq)
  BY <1>2, FrameInReach DEF FrameAssertions, ConversionAssertion
<1>6. ReceiverAssertionsHold
  <2>1. ASSUME air.type = "DATA" PROVE FrameAssertions(rcv, air.frame.seq)
    <3>1. air.frame \in HeldFrames(snd) /\ ~snd.blockAckRequestNeedsToBeSent
      BY <1>1, <1>2, <1>4, <2>1, SignalFrames DEF AirOK
    <3> QED  BY <1>5, <3>1
  <2>2. ASSUME air.type = "BAR" PROVE BlockAckRequestAssertions(rcv, air.start)
    <3>1. air.start = (f + d + 1) % SeqMod /\ snd.blockAckRequestNeedsToBeSent
      BY <1>1, <1>2, <1>4, <2>2, SignalFrames DEF AirOK
    <3> QED
      BY <1>2, <3>1, RequestInReach DEF BlockAckRequestAssertions, ConversionAssertion
  <2>3. ASSUME air.type = "AGGREGATE"
        PROVE  rcv.blockAckSessionIsActive /\ FrameAssertions(rcv, Head(air.frames).seq)
    <3>1. air.frames \in Seq(Frames) /\ air.frames # <<>>
      BY <1>2, <1>3, <2>3, SignalTypes DEF AirOK
    <3>2. Head(air.frames) \in Elements(air.frames)  BY <3>1, HeadIsElement
    <3>3. /\ Head(air.frames) \in HeldFrames(snd) /\ ~snd.blockAckRequestNeedsToBeSent
          /\ snd.blockAckSessionIsEnabled
      BY <1>1, <1>2, <1>4, <2>3, <3>2, SignalFrames DEF AirOK
    <3>4. rcv.blockAckSessionIsActive  BY <1>2, <3>3 DEF WindowOK
    <3> QED  BY <1>5, <3>3, <3>4
  <2> QED  BY <2>1, <2>2, <2>3 DEF ReceiverAssertionsHold
<1>7. SenderAssertionsHold
  <2>1. ASSUME air.type = "ACK" PROVE snd.currentPacket = NoFrame
    BY <1>1, <1>2, <1>4, <2>1, SignalFrames DEF AirOK
  <2>2. ASSUME air.type = "BA", snd.lastSentFrameWasAn = "AggregateFrame"
        PROVE  /\ HoldsNothing(snd)
               /\ \A i \in DOMAIN snd.lastTransmitted :
                     CalcTwelveBitSequenceNumberDifference(snd.lastTransmitted[i].seq, air.start) >= 0
    <3>1. /\ HoldsNothing(snd) /\ HeldFrames(snd) = Elements(snd.lastTransmitted)
          /\ Aggregated(snd) = Elements(snd.lastTransmitted)
          /\ ~snd.blockAckRequestNeedsToBeSent
      BY <1>1, <1>4, <2>2, SignalFrames
    <3>2. rcv.blockAckSessionIsActive /\ air.start = rcv.bitmapWindowStart % SeqMod
      BY <1>2, <2>2 DEF AirOK
    <3> SUFFICES ASSUME NEW g \in HeldFrames(snd)
                 PROVE  CalcTwelveBitSequenceNumberDifference(g.seq, air.start) >= 0
      BY <3>1 DEF Elements
    <3>3. g.id # opener  BY <1>1, <3>1 DEF DropOK
    <3>4. PICK n \in Nat, start \in Nat : n = f + g.id /\ start = rcv.bitmapWindowStart
      BY <1>1, <1>2, <3>1, <3>2, FrameInReach, EndsFields
    <3>5. start <= n /\ CalcTwelveBitSequenceNumberDifference(g.seq, start % SeqMod) = n - start
      BY <1>2, <3>1, <3>2, <3>3, <3>4, FrameInReach
    <3> QED  BY <3>2, <3>4, <3>5
  <2>3. snd.waitingForAck => ~snd.backoff /\ snd.hasPacketToSend  BY <1>1 DEF PlacesOK
  <2> QED  BY <2>1, <2>2, <2>3 DEF SenderAssertionsHold
<1>8. AckedIsReceived
  BY <1>2 DEF OutcomesOK, Received, AckedIsReceived, Buffered, Ids
<1>9. BufferedFramesGetReleased
  <2> SUFFICES ASSUME rcv.frameBuffer # {}, ~snd.blockAckRequestNeedsToBeSent
               PROVE  rcv.currentLowestUnreceived % SeqMod \in Holding
    BY DEF BufferedFramesGetReleased
  <2>1. rcv.blockAckSessionIsActive  BY <1>1 DEF BufferInv
  <2>2. PICK h \in rcv.frameBuffer : TRUE  OBVIOUS
  <2>3. /\ h.seq \in rcv.blockAckBitmap /\ rcv.currentLowestUnreceived < h.seq
        /\ h.seq \in Nat
    BY <1>1 DEF BufferInv, FramesInv
  <2>4. h.seq <= f + taken  BY <1>2, <2>3 DEF ReceiverOK
  <2>5. rcv.currentLowestUnreceived - f \in Held(snd)
    BY <1>1, <1>2, <2>1, <2>3, <2>4, LowestMissing
  <2>6. PICK g \in HeldFrames(snd) : g.id = rcv.currentLowestUnreceived - f
    BY <2>5 DEF Held, Ids
  <2>7. g.seq = (f + g.id) % SeqMod /\ f + g.id = rcv.currentLowestUnreceived
    BY <1>1, <2>6 DEF NumbersOK
  <2>8. g.seq \in Holding
    BY <1>1 DEF HeldFrames, Single, Aggregated, Elements, Holding
  <2> QED  BY <2>7, <2>8
<1> QED  BY <1>6, <1>7, <1>8, <1>9

\* It implies the type invariant,
LEMMA InvTypes ==
    ASSUME NumbersSuffice, NEW f, NEW taken, NEW d, InvAt(f, taken, d)
    PROVE  TypeOK
<1>1. /\ taken \in Nat /\ opener \in Nat /\ opener <= taken /\ taken <= offered
      /\ snd \in Senders /\ rcv \in Buffers
  BY EndsFields DEF InvAt
<1>2. offered \in 0 .. MaxPackets /\ up \in Seq(Packets) /\ MaxPackets \in Nat
  BY Bounds DEF InvAt
<1>3. air \in Signals /\ outcome \in [Packets -> {"none", "acked", "dropped"}]
  BY DEF InvAt, AirOK, OutcomesOK
<1> QED  BY <1>1, <1>2, <1>3 DEF TypeOK, BufferTypeOK, Buffers

-----------------------------------------------------------------------------
(* Steps of the transmitter. *)

\* Nothing changes for the receiver when the transmitter holds the same frames.
LEMMA SameHeldOK ==
    ASSUME NEW b, NEW s, NEW f, NEW taken, NEW queued, NEW d, NEW first, NEW delivered,
           EndsOK(b, s, f, taken, queued, d, first, delivered),
           NEW c, NEW queued2, SenderOK(c, f, taken, queued2, d, first),
           HeldFrames(c) = HeldFrames(s), SameSession(s, c)
    PROVE  EndsOK(b, c, f, taken, queued2, d, first, delivered)
<1>1. WindowOK(b, c, f, taken, d, first, delivered)
  BY Zenon DEF EndsOK, WindowOK, SameSession, Held
<1> QED  BY <1>1 DEF EndsOK

\* The outcomes depend only on the frames that are held.
LEMMA SameHeldOutcomes ==
    ASSUME NEW o, NEW s, NEW taken, NEW received, OutcomesOK(o, s, taken, received),
           NEW c, HeldFrames(c) = HeldFrames(s)
    PROVE  OutcomesOK(o, c, taken, received)
BY DEF OutcomesOK, Held

\* The transmitter s may send while no signal is on the air.
CanSend(b, s, f, taken, queued, d, first, delivered, o) ==
    /\ EndsOK(b, s, f, taken, queued, d, first, delivered)
    /\ OutcomesOK(o, s, taken, Received(b, delivered, first))
    /\ ~s.waitingForAck /\ s.hasPacketToSend /\ ~s.backoff
    /\ HoldsNothing(s) => ThereAreQueuedPackets(s)
    /\ ~HoldsNothing(s) /\ s.ackedInTxop => HasFrame(s)

\* The packet that waits for the session to open after r was made ready from s.
OpenerOf(s, r, first) ==
    IF r.blockAckSessionIsEnabled /\ ~s.blockAckSessionIsEnabled THEN r.currentPacket.id ELSE first

\* Making a frame ready keeps both ends consistent, for the packets taken by then.
LEMMA MadeReadyOK ==
    ASSUME NEW b, NEW s, NEW f, NEW taken, NEW queued, NEW d, NEW first, NEW delivered, NEW o,
           CanSend(b, s, f, taken, queued, d, first, delivered, o),
           NEW r \in ReadyToTransmit(s)
    PROVE  \E more \in Nat, d2 \in Int :
              /\ MaySend(r, f, more, queued, d2, OpenerOf(s, r, first))
              /\ EndsOK(b, r, f, more, queued, d2, OpenerOf(s, r, first), delivered)
              /\ OutcomesOK(o, r, more, Received(b, delivered, OpenerOf(s, r, first)))
<1>1. /\ SenderOK(s, f, taken, queued, d, first)
      /\ ReceiverOK(b, f, taken, delivered)
      /\ WindowOK(b, s, f, taken, d, first, delivered)
      /\ OutcomesOK(o, s, taken, Received(b, delivered, first))
      /\ ~s.waitingForAck /\ s.hasPacketToSend /\ ~s.backoff
      /\ HoldsNothing(s) => ThereAreQueuedPackets(s)
      /\ ~HoldsNothing(s) /\ s.ackedInTxop => HasFrame(s)
  BY DEF CanSend, EndsOK
<1>2. /\ f \in Int /\ taken \in Nat /\ d \in Int /\ first \in Nat
      /\ b.currentLowestUnreceived \in Nat /\ b.bitmapWindowStart \in Nat
      /\ b.blockAckBitmap \in SUBSET Nat /\ BufferInv(b)
      /\ DropOK(s, f, taken, d, first)
      /\ s \in Senders
  BY EndsFields DEF CanSend
<1>3. PICK more \in Nat, d2 \in Int, first2 \in Nat :
         /\ SenderOK(r, f, more, queued, d2, first2) /\ ~r.waitingForAck
         /\ HasFrame(r) /\ Takes(s, r, taken, more)
         /\ r.backoff = s.backoff /\ r.hasPacketToSend = s.hasPacketToSend
         /\ \/ Opens(s, r, taken, more) /\ d2 = more /\ first2 = more
            \/ SameSession(s, r) /\ d2 = d /\ first2 = first
  <2>1. MayMakeReady(s, f, taken, queued, d, first)  BY <1>1 DEF MayMakeReady
  <2> QED  BY <2>1, ReadyToTransmitOK
<1>4. OpenerOf(s, r, first) = first2
  BY <1>3 DEF OpenerOf, Opens, SameSession
<1>5. MaySend(r, f, more, queued, d2, first2)  BY <1>1, <1>3 DEF MaySend
<1>6. taken <= more /\ HeldFrames(s) \subseteq HeldFrames(r)
      /\ (\A g \in HeldFrames(r) : g \in HeldFrames(s) \/ taken < g.id)
      /\ (\A p \in taken + 1 .. more : p \in Held(r))
  BY <1>3 DEF Takes
<1>7. \A g \in HeldFrames(r) : g.id \in Nat
  <2>1. r \in Senders /\ NumbersOK(r, f, more, queued)  BY <1>3 DEF SenderOK
  <2>2. /\ r.currentPacket \in Frames \cup {NoFrame}
        /\ Elements(r.currentAggregateFrame) \subseteq Frames
        /\ Elements(r.lastTransmitted) \subseteq Frames
    BY <2>1, SenderTypes, ElementsOf
  <2>3. \A g \in HeldFrames(r) : g \in Frames
    BY <2>2 DEF HeldFrames, Single, Aggregated
  <2> QED  BY <2>3, FrameTypes
<1>8. ReceiverOK(b, f, more, delivered)
  <2>1. /\ BufferInv(b) /\ f < b.currentLowestUnreceived
        /\ b.currentLowestUnreceived <= f + more + 1
    BY <1>1, <1>2, <1>6 DEF ReceiverOK
  <2>2. \A n \in b.blockAckBitmap : f <= n /\ n <= f + more
    BY <1>1, <1>2, <1>6 DEF ReceiverOK
  <2>3. \A p \in delivered :
           p \in Nat /\ 1 <= p /\ p <= more /\ f + p < b.currentLowestUnreceived
    <3> SUFFICES ASSUME NEW p \in delivered
                 PROVE  p \in Nat /\ 1 <= p /\ p <= more /\ f + p < b.currentLowestUnreceived
      OBVIOUS
    <3>1. 1 <= p /\ p <= taken /\ f + p < b.currentLowestUnreceived  BY <1>1 DEF ReceiverOK
    <3>2. p \in Nat  BY <1>1 DEF ReceiverOK
    <3> QED  BY <1>2, <1>6, <3>1, <3>2
  <2> QED  BY <1>1, <2>1, <2>2, <2>3 DEF ReceiverOK
<1>9. \A p \in 1 .. more : p \notin Held(r) => p \in 1 .. taken /\ p \notin Held(s)
  BY <1>2, <1>6 DEF Held, Ids
<1>10. b.currentLowestUnreceived <= f + taken + 1
       /\ (b.blockAckSessionIsActive => b.bitmapWindowStart <= b.currentLowestUnreceived)
  BY <1>1, <1>2, BufferFields DEF ReceiverOK, WindowInv
<1>11. WindowOK(b, r, f, more, d2, first2, delivered)
  <2>1. CASE SameSession(s, r) /\ d2 = d /\ first2 = first
    <3>1. /\ b.blockAckSessionIsActive => r.blockAckSessionIsEnabled
          /\ r.blockAckSessionIsEnabled /\ ~b.blockAckSessionIsActive =>
                 /\ r.blockAckRequestNeedsToBeSent /\ 1 <= d2
                 /\ b.currentLowestUnreceived <= f + d2 + 1
      BY <1>1, <2>1 DEF WindowOK, SameSession
    <3>2. \A g \in HeldFrames(r) : f + g.id < b.currentLowestUnreceived =>
             g.id \in delivered \/ g.id = first2
      <4> SUFFICES ASSUME NEW g \in HeldFrames(r), f + g.id < b.currentLowestUnreceived
                   PROVE  g.id \in delivered \/ g.id = first2
        OBVIOUS
      <4>1. ~(taken < g.id)  BY <1>2, <1>7, <1>10
      <4>2. g \in HeldFrames(s)  BY <1>6, <4>1
      <4> QED  BY <1>1, <2>1, <4>2 DEF WindowOK
    <3>3. ASSUME b.blockAckSessionIsActive
          PROVE  /\ \A g \in HeldFrames(r) :
                       \/ b.bitmapWindowStart <= f + g.id
                       \/ g.id = first2 /\ b.bitmapWindowStart = f + g.id + 1
                 /\ r.blockAckRequestNeedsToBeSent => b.bitmapWindowStart <= f + d2 + 1
      <4>1. ASSUME NEW g \in HeldFrames(r)
            PROVE  \/ b.bitmapWindowStart <= f + g.id
                   \/ g.id = first2 /\ b.bitmapWindowStart = f + g.id + 1
        <5>1. CASE g \in HeldFrames(s)  BY <1>1, <2>1, <3>3, <5>1 DEF WindowOK
        <5>2. CASE taken < g.id  BY <1>2, <1>7, <1>10, <3>3, <5>2
        <5> QED  BY <1>6, <5>1, <5>2
      <4>2. r.blockAckRequestNeedsToBeSent => b.bitmapWindowStart <= f + d2 + 1
        BY <1>1, <2>1, <3>3 DEF WindowOK, SameSession
      <4> QED  BY <4>1, <4>2
    <3>4. ASSUME r.blockAckSessionIsEnabled, NEW p \in 1 .. more, p \notin Held(r),
                 r.blockAckRequestNeedsToBeSent => p > d2
          PROVE  b.blockAckSessionIsActive /\ HaveAlreadySeen(b, f + p)
      BY <1>1, <1>9, <2>1, <3>4 DEF WindowOK, SameSession
    <3> QED  BY <3>1, <3>2, <3>3, <3>4 DEF WindowOK
  <2>2. CASE Opens(s, r, taken, more) /\ d2 = more /\ first2 = more
    <3>1. /\ ~b.blockAckSessionIsActive /\ r.blockAckSessionIsEnabled
          /\ r.blockAckRequestNeedsToBeSent /\ more = taken + 1
          /\ \A g \in HeldFrames(r) : g.id = more
      BY <1>1, <2>2 DEF WindowOK, Opens
    <3>2. 1 <= d2 /\ b.currentLowestUnreceived <= f + d2 + 1
      BY <1>2, <1>10, <2>2, <3>1
    <3>3. \A p \in 1 .. more : ~(p > d2)  BY <2>2
    <3> QED  BY <2>2, <3>1, <3>2, <3>3 DEF WindowOK
  <2> QED  BY <1>3, <2>1, <2>2
<1>12. EndsOK(b, r, f, more, queued, d2, first2, delivered)
  BY <1>3, <1>8, <1>11 DEF EndsOK
<1>13. OutcomesOK(o, r, more, Received(b, delivered, first2))
  <2>1. o \in [Packets -> {"none", "acked", "dropped"}]  BY <1>1 DEF OutcomesOK
  <2>2. \A p \in Packets : p \in Nat /\ p >= 1  BY DEF Packets
  <2>3. ASSUME NEW p \in Packets, p \in Held(r) \/ p > more PROVE o[p] = "none"
    <3>1. p \in Held(s) \/ p > taken
      BY <1>2, <1>6, <2>2, <2>3 DEF Held, Ids
    <3> QED  BY <1>1, <3>1 DEF OutcomesOK
  <2>4. ASSUME NEW p \in Packets, o[p] = "acked" PROVE p \in Received(b, delivered, first2)
    <3>1. p \in Received(b, delivered, first)  BY <1>1, <2>4 DEF OutcomesOK
    <3>2. CASE first2 = first  BY <3>1, <3>2
    <3>3. CASE first2 # first
      <4>1. first = 0  BY <1>2, <1>3, <3>3 DEF Opens, DropOK
      <4> QED  BY <2>2, <3>1, <4>1 DEF Received
    <3> QED  BY <3>2, <3>3
  <2> QED  BY <2>1, <2>3, <2>4 DEF OutcomesOK
<1> QED  BY <1>3, <1>4, <1>5, <1>12, <1>13

\* The signal that matches the transmitter's last frame may be on the air.
LEMMA SignalOK ==
    ASSUME NEW b, NEW c, NEW f, NEW taken, NEW queued, NEW d, NEW first, NEW received, NEW a,
           SenderOK(c, f, taken, queued, d, first), c.waitingForAck, SignalMatches(a, c, f, d)
    PROVE  AirOK(a, b, c, f, d, received)
<1>1. c \in Senders /\ f \in Int /\ d \in Int /\ PlacesOK(c) /\ RequestOK(c)
  BY DEF SenderOK, DropOK
<1>2. CASE /\ c.lastSentFrameWasAn = "ShortFrame"
           /\ a = [type |-> "DATA", frame |-> c.lastTransmitted[1]]
  <2>1. c.lastTransmitted[1] \in Frames  BY <1>1, <1>2, SignalFrames
  <2>2. a \in Signals  BY <1>2, <2>1 DEF Signals
  <2>3. a.type = "DATA" /\ a.frame = c.lastTransmitted[1]  BY <1>2
  <2> QED  BY <1>2, <2>2, <2>3 DEF AirOK
<1>3. CASE /\ c.lastSentFrameWasAn = "AggregateFrame"
           /\ a = [type |-> "AGGREGATE", frames |-> c.lastTransmitted, good |-> FALSE]
  <2>1. c.lastTransmitted \in Seq(Frames)  BY <1>1, SenderTypes
  <2>2. a \in Signals  BY <1>3, <2>1 DEF Signals
  <2>3. c.lastTransmitted # <<>>  BY <1>1, <1>3 DEF PlacesOK
  <2>4. a.type = "AGGREGATE" /\ a.frames = c.lastTransmitted  BY <1>3
  <2> QED  BY <1>3, <2>2, <2>3, <2>4 DEF AirOK
<1>4. CASE /\ c.lastSentFrameWasAn = "BlockAckRequestFrame"
           /\ a = [type |-> "BAR", start |-> (f + d + 1) % SeqMod]
  <2>1. f + d + 1 \in Int  BY <1>1
  <2>2. (f + d + 1) % SeqMod \in SequenceNumbers  BY <2>1, Remainder DEF SequenceNumbers
  <2>3. a \in Signals  BY <1>4, <2>2 DEF Signals
  <2>4. a.type = "BAR" /\ a.start = (f + d + 1) % SeqMod  BY <1>4
  <2> QED  BY <1>4, <2>3, <2>4 DEF AirOK
<1> QED  BY <1>2, <1>3, <1>4 DEF SignalMatches

\* The same holds once the frame made ready has been sent.
LEMMA SentOK ==
    ASSUME NEW b, NEW s, NEW f, NEW taken, NEW queued, NEW d, NEW first, NEW delivered, NEW o,
           CanSend(b, s, f, taken, queued, d, first, delivered, o),
           NEW r \in ReadyToTransmit(s), NEW c, c = AfterTransmission(r)
    PROVE  \E more \in Nat, d2 \in Int :
              /\ EndsOK(b, c, f, more, queued, d2, OpenerOf(s, r, first), delivered)
              /\ AirOK(SignalOf(r), b, c, f, d2, Received(b, delivered, OpenerOf(s, r, first)))
              /\ OutcomesOK(o, c, more, Received(b, delivered, OpenerOf(s, r, first)))
<1> DEFINE first2 == OpenerOf(s, r, first)
<1>1. PICK more \in Nat, d2 \in Int :
         /\ MaySend(r, f, more, queued, d2, first2)
         /\ EndsOK(b, r, f, more, queued, d2, first2, delivered)
         /\ OutcomesOK(o, r, more, Received(b, delivered, first2))
  BY MadeReadyOK
<1> HIDE DEF first2
<1>2. /\ SenderOK(c, f, more, queued, d2, first2)
      /\ SignalMatches(SignalOf(r), c, f, d2)
      /\ c.waitingForAck
      /\ HeldFrames(c) = HeldFrames(r) /\ SameSession(r, c)
  BY <1>1, AfterTransmissionOK
<1>3. EndsOK(b, c, f, more, queued, d2, first2, delivered)  BY <1>1, <1>2, SameHeldOK
<1>4. OutcomesOK(o, c, more, Received(b, delivered, first2))  BY <1>1, <1>2, SameHeldOutcomes
<1>5. AirOK(SignalOf(r), b, c, f, d2, Received(b, delivered, first2))  BY <1>2, SignalOK
<1> QED  BY <1>1, <1>3, <1>4, <1>5 DEF first2

\* The transmitter s sends, in the state whose outcomes become o.
LEMMA TransmitInv ==
    ASSUME NEW s, NEW f \in Int, NEW taken, NEW d, NEW o,
           CanSend(rcv, s, f, taken, offered, d, opener, Delivered, o), TransmitAFrame(s),
           offered \in 0 .. MaxPackets, up \in Seq(Packets), DeliveredInOrder,
           UNCHANGED <<rcv, up, offered>>, outcome' = o
    PROVE  Inv'
<1>1. PICK r \in ReadyToTransmit(s) :
         /\ snd' = AfterTransmission(r) /\ air' = SignalOf(r)
         /\ opener' = OpenerOf(s, r, opener)
  BY DEF TransmitAFrame, OpenerOf
<1>2. PICK more \in Nat, d2 \in Int :
         /\ EndsOK(rcv, snd', f, more, offered, d2, opener', Delivered)
         /\ AirOK(air', rcv, snd', f, d2, Received(rcv, Delivered, opener'))
         /\ OutcomesOK(o, snd', more, Received(rcv, Delivered, opener'))
  BY <1>1, SentOK
<1>3. Delivered' = Delivered /\ (DeliveredInOrder <=> DeliveredInOrder')
  BY DEF Delivered, DeliveredInOrder
<1>4. InvAt(f, more, d2)'  BY <1>2, <1>3 DEF InvAt
<1> QED  BY <1>2, <1>4 DEF Inv

\* The invariant, part by part.
LEMMA InvParts ==
    ASSUME NEW f, NEW taken, NEW d, InvAt(f, taken, d)
    PROVE  /\ f \in Int /\ taken \in Nat /\ d \in Int /\ opener \in Nat
           /\ taken <= offered /\ offered \in 0 .. MaxPackets
           /\ up \in Seq(Packets) /\ DeliveredInOrder
           /\ EndsOK(rcv, snd, f, taken, offered, d, opener, Delivered)
           /\ SenderOK(snd, f, taken, offered, d, opener)
           /\ ReceiverOK(rcv, f, taken, Delivered)
           /\ WindowOK(rcv, snd, f, taken, d, opener, Delivered)
           /\ AirOK(air, rcv, snd, f, d, Received(rcv, Delivered, opener))
           /\ OutcomesOK(outcome, snd, taken, Received(rcv, Delivered, opener))
BY EndsFields DEF InvAt, EndsOK

\* Nothing on the air is always right.
LEMMA QuietAir ==
    ASSUME NEW b, NEW s, NEW f, NEW d, NEW received
    PROVE  AirOK(Nothing, b, s, f, d, received)
<1>1. Nothing.type = "None" /\ Nothing \in Signals  BY DEF Nothing, Signals
<1> QED  BY <1>1 DEF AirOK

\* The transmitter changes nothing but its access to the medium.
LEMMA AccessKept ==
    ASSUME NEW b, NEW s, NEW f, NEW taken, NEW queued, NEW d, NEW first, NEW delivered, NEW o,
           NEW a, NEW received,
           EndsOK(b, s, f, taken, queued, d, first, delivered),
           AirOK(a, b, s, f, d, received), OutcomesOK(o, s, taken, received),
           NEW c, NEW queued2, SenderOK(c, f, taken, queued2, d, first), SameFrames(s, c)
    PROVE  /\ EndsOK(b, c, f, taken, queued2, d, first, delivered)
           /\ AirOK(a, b, c, f, d, received) /\ OutcomesOK(o, c, taken, received)
<1>1. HeldFrames(c) = HeldFrames(s)  BY SameFramesHeld
<1>2. SameSession(s, c)  BY DEF SameFrames, SameSession
<1>3. EndsOK(b, c, f, taken, queued2, d, first, delivered)  BY <1>1, <1>2, SameHeldOK
<1>4. OutcomesOK(o, c, taken, received)  BY <1>1, SameHeldOutcomes
<1>5. AirOK(a, b, c, f, d, received)  BY Zenon DEF AirOK, SameFrames
<1> QED  BY <1>3, <1>4, <1>5

\* A packet queued behind the others keeps the invariant.
LEMMA PacketArrivesInv == Inv /\ PacketArrives => Inv'
<1> SUFFICES ASSUME Inv, PacketArrives PROVE Inv'  OBVIOUS
<1>1. PICK f \in Int, taken \in Nat, d \in Int : InvAt(f, taken, d)  BY DEF Inv
<1>2. SenderOK(snd', f, taken, offered', d, opener) /\ SameFrames(snd, snd')
  BY <1>1, InvParts, NotificationOK DEF PacketArrives
<1>3. /\ EndsOK(rcv, snd', f, taken, offered', d, opener, Delivered)
      /\ AirOK(air, rcv, snd', f, d, Received(rcv, Delivered, opener))
      /\ OutcomesOK(outcome, snd', taken, Received(rcv, Delivered, opener))
  BY <1>1, <1>2, InvParts, AccessKept
<1>4. offered' \in 0 .. MaxPackets
  BY <1>1, InvParts, BlockAckAssumption DEF PacketArrives
<1>5. /\ Delivered' = Delivered /\ (DeliveredInOrder <=> DeliveredInOrder')
      /\ UNCHANGED <<rcv, air, up, outcome, opener>>
  BY DEF PacketArrives, Delivered, DeliveredInOrder
<1>6. InvAt(f, taken, d)'  BY <1>1, <1>3, <1>4, <1>5, InvParts DEF InvAt
<1> QED  BY <1>6 DEF Inv

\* The end of the backoff, with a frame sent or not, keeps the invariant.
LEMMA BackoffTimeoutInv == Inv /\ BackoffTimeout => Inv'
<1> SUFFICES ASSUME Inv, BackoffTimeout PROVE Inv'  OBVIOUS
<1>1. PICK f \in Int, taken \in Nat, d \in Int : InvAt(f, taken, d)  BY DEF Inv
<1> DEFINE s == AtBackoffTimeout(snd)
<1>2. ~snd.waitingForAck  BY DEF BackoffTimeout
<1>3. /\ SenderOK(s, f, taken, offered, d, opener) /\ SameFrames(snd, s)
      /\ s.networkOutputQueue = snd.networkOutputQueue
      /\ ~s.backoff
      /\ s.hasPacketToSend /\ HoldsNothing(s) => ThereAreQueuedPackets(s)
  BY <1>1, <1>2, InvParts, AtBackoffTimeoutOK
<1>4. /\ IF s.hasPacketToSend
         THEN \E granted \in BOOLEAN : TransmitAFrame(StartTxop(s, granted))
         ELSE snd' = s /\ UNCHANGED <<air, opener>>
      /\ UNCHANGED <<rcv, up, offered, outcome>>
  BY DEF BackoffTimeout
<1> HIDE DEF s
<1>5. /\ EndsOK(rcv, s, f, taken, offered, d, opener, Delivered)
      /\ AirOK(air, rcv, s, f, d, Received(rcv, Delivered, opener))
      /\ OutcomesOK(outcome, s, taken, Received(rcv, Delivered, opener))
  BY <1>1, <1>3, InvParts, AccessKept
<1>6. CASE s.hasPacketToSend
  <2>1. PICK granted \in BOOLEAN : TransmitAFrame(StartTxop(s, granted))  BY <1>4, <1>6
  <2> DEFINE t == StartTxop(s, granted)
  <2>2. ~s.waitingForAck  BY <1>2, <1>3 DEF SameFrames
  <2>3. /\ SenderOK(t, f, taken, offered, d, opener) /\ SameFrames(s, t)
        /\ t.networkOutputQueue = s.networkOutputQueue
        /\ t.backoff = s.backoff /\ t.hasPacketToSend = s.hasPacketToSend
        /\ ~t.ackedInTxop
    BY <1>3, <2>2, StartTxopOK
  <2>4. TransmitAFrame(t)  BY <2>1
  <2> HIDE DEF t
  <2>5. /\ EndsOK(rcv, t, f, taken, offered, d, opener, Delivered)
        /\ OutcomesOK(outcome, t, taken, Received(rcv, Delivered, opener))
    BY <1>5, <2>3, AccessKept
  <2>6. HoldsNothing(t) => ThereAreQueuedPackets(t)
    BY <1>3, <1>6, <2>3 DEF SameFrames, HoldsNothing, ThereAreQueuedPackets
  <2>7. CanSend(rcv, t, f, taken, offered, d, opener, Delivered, outcome)
    BY <1>3, <1>6, <2>2, <2>3, <2>5, <2>6 DEF CanSend, SameFrames
  <2> QED  BY <1>1, <1>4, <2>4, <2>7, InvParts, TransmitInv
<1>7. CASE ~s.hasPacketToSend
  <2>1. snd' = s /\ UNCHANGED <<rcv, air, up, offered, outcome, opener>>  BY <1>4, <1>7
  <2>2. Delivered' = Delivered /\ (DeliveredInOrder <=> DeliveredInOrder')
    BY <2>1 DEF Delivered, DeliveredInOrder
  <2>3. InvAt(f, taken, d)'  BY <1>1, <1>5, <2>1, <2>2, InvParts DEF InvAt
  <2> QED  BY <2>3 DEF Inv
<1> QED  BY <1>6, <1>7

\* The window after frames are given up.
LEMMA GivesUpWindow ==
    ASSUME NEW b, NEW s, NEW f, NEW taken, NEW queued, NEW d, NEW first, NEW delivered,
           EndsOK(b, s, f, taken, queued, d, first, delivered),
           NEW c, NEW d2 \in Int, NEW dropped, SenderOK(c, f, taken, queued, d2, first),
           GivesUp(s, c, d2, dropped)
    PROVE  EndsOK(b, c, f, taken, queued, d2, first, delivered)
<1>1. /\ SenderOK(s, f, taken, queued, d, first)
      /\ ReceiverOK(b, f, taken, delivered)
      /\ WindowOK(b, s, f, taken, d, first, delivered)
  BY DEF EndsOK
<1>2. /\ f \in Int /\ taken \in Nat /\ d \in Int /\ first \in Nat
      /\ b.currentLowestUnreceived \in Nat /\ b.bitmapWindowStart \in Nat
      /\ DropOK(s, f, taken, d, first)
      /\ \A g \in HeldFrames(s) : g.id \in Nat
  BY EndsFields
<1>3. /\ d2 \in dropped /\ dropped \subseteq Held(s)
      /\ \A g \in HeldFrames(s) : g \in HeldFrames(c) \/ g.id \in dropped
      /\ HeldFrames(c) \subseteq HeldFrames(s)
      /\ \A p \in dropped : p <= d2
      /\ c.blockAckSessionIsEnabled = s.blockAckSessionIsEnabled
      /\ c.blockAckRequestNeedsToBeSent <=> s.blockAckSessionIsEnabled
  BY DEF GivesUp
<1>4. PICK h \in HeldFrames(s) : h.id = d2  BY <1>3 DEF Held, Ids
<1>5. s.blockAckRequestNeedsToBeSent => d <= d2  BY <1>2, <1>4 DEF DropOK
<1>6. b.blockAckSessionIsActive => c.blockAckSessionIsEnabled  BY <1>1, <1>3 DEF WindowOK
<1>7. \A g \in HeldFrames(c) :
         f + g.id < b.currentLowestUnreceived => g.id \in delivered \/ g.id = first
  BY <1>1, <1>3 DEF WindowOK
<1>8. b.blockAckSessionIsActive =>
         /\ \A g \in HeldFrames(c) : \/ b.bitmapWindowStart <= f + g.id
                                     \/ g.id = first /\ b.bitmapWindowStart = f + g.id + 1
         /\ c.blockAckRequestNeedsToBeSent => b.bitmapWindowStart <= f + d2 + 1
  <2> SUFFICES ASSUME b.blockAckSessionIsActive
               PROVE  /\ \A g \in HeldFrames(c) :
                            \/ b.bitmapWindowStart <= f + g.id
                            \/ g.id = first /\ b.bitmapWindowStart = f + g.id + 1
                      /\ b.bitmapWindowStart <= f + d2 + 1
    OBVIOUS
  <2>1. \A g \in HeldFrames(s) : \/ b.bitmapWindowStart <= f + g.id
                                 \/ g.id = first /\ b.bitmapWindowStart = f + g.id + 1
    BY <1>1 DEF WindowOK
  <2>2. b.bitmapWindowStart <= f + d2 + 1  BY <1>2, <1>4, <2>1
  <2> QED  BY <1>3, <2>1, <2>2
<1>9. c.blockAckSessionIsEnabled /\ ~b.blockAckSessionIsActive =>
         /\ c.blockAckRequestNeedsToBeSent /\ 1 <= d2
         /\ b.currentLowestUnreceived <= f + d2 + 1
  <2> SUFFICES ASSUME s.blockAckSessionIsEnabled, ~b.blockAckSessionIsActive
               PROVE  1 <= d2 /\ b.currentLowestUnreceived <= f + d2 + 1
    BY <1>3
  <2>1. /\ s.blockAckRequestNeedsToBeSent /\ 1 <= d
        /\ b.currentLowestUnreceived <= f + d + 1
    BY <1>1 DEF WindowOK
  <2> QED  BY <1>2, <1>5, <2>1
<1>10. ASSUME c.blockAckSessionIsEnabled, NEW p \in 1 .. taken, p \notin Held(c),
              c.blockAckRequestNeedsToBeSent => p > d2
       PROVE  b.blockAckSessionIsActive /\ HaveAlreadySeen(b, f + p)
  <2>1. p > d2  BY <1>3, <1>10
  <2>2. p \notin Held(s)
    <3> SUFFICES ASSUME NEW g \in HeldFrames(s), g.id = p PROVE FALSE  BY DEF Held, Ids
    <3>1. g \notin HeldFrames(c)  BY <1>10 DEF Held, Ids
    <3>2. p <= d2  BY <1>3, <3>1
    <3> QED  BY <1>2, <2>1, <3>2
  <2>3. s.blockAckRequestNeedsToBeSent => p > d  BY <1>2, <1>5, <2>1
  <2>4. s.blockAckSessionIsEnabled  BY <1>3, <1>10
  <2> QED  BY <1>1, <1>10, <2>2, <2>3, <2>4 DEF WindowOK
<1>11. WindowOK(b, c, f, taken, d2, first, delivered)
  BY <1>6, <1>7, <1>8, <1>9, <1>10 DEF WindowOK
<1> QED  BY <1>1, <1>11 DEF EndsOK

\* The timeout that retries a frame or gives it up keeps the invariant.
LEMMA AckTimeoutInv == Inv /\ AckTimeout => Inv'
<1> SUFFICES ASSUME Inv, AckTimeout PROVE Inv'  OBVIOUS
<1>1. PICK f \in Int, taken \in Nat, d \in Int : InvAt(f, taken, d)  BY DEF Inv
<1> DEFINE dropped == DroppedAtTimeout(snd)
<1>2. /\ snd.waitingForAck /\ air = Nothing
      /\ snd' = NeverReceivedAcknowledgement(snd) /\ Settle({}, dropped)
      /\ UNCHANGED <<rcv, air, up, offered, opener>>
  BY DEF AckTimeout
<1>3. PICK d2 \in Int : /\ SenderOK(snd', f, taken, offered, d2, opener)
                        /\ Keeps(snd, snd', d, d2, dropped) \/ GivesUp(snd, snd', d2, dropped)
  BY <1>1, <1>2, InvParts, NeverReceivedAcknowledgementOK
<1> HIDE DEF dropped
<1>4. EndsOK(rcv, snd', f, taken, offered, d2, opener, Delivered)
  <2>1. CASE Keeps(snd, snd', d, d2, dropped)
    BY <1>1, <1>3, <2>1, InvParts, SameHeldOK DEF Keeps
  <2>2. CASE GivesUp(snd, snd', d2, dropped)
    BY <1>1, <1>3, <2>2, InvParts, GivesUpWindow
  <2> QED  BY <1>3, <2>1, <2>2
<1>5. AirOK(air, rcv, snd', f, d2, Received(rcv, Delivered, opener))  BY <1>2, QuietAir
<1>6. /\ outcome \in [Packets -> {"none", "acked", "dropped"}]
      /\ \A p \in Packets : p \in Held(snd) \/ p > taken => outcome[p] = "none"
      /\ \A p \in Packets : outcome[p] = "acked" => p \in Received(rcv, Delivered, opener)
  BY <1>1, InvParts DEF OutcomesOK
<1>7. outcome' = [p \in Packets |-> IF p \in dropped THEN "dropped" ELSE outcome[p]]
  BY <1>2 DEF Settle
<1>8. \A p \in dropped : p \notin Held(snd') /\ ~(p > taken)
  <2> SUFFICES ASSUME NEW p \in dropped PROVE p \notin Held(snd') /\ ~(p > taken)
    OBVIOUS
  <2>1. GivesUp(snd, snd', d2, dropped)  BY <1>3 DEF Keeps
  <2>2. PICK h \in HeldFrames(snd) : h.id = p  BY <2>1 DEF GivesUp, Held, Ids
  <2>3. /\ taken \in Nat /\ h.id \in Nat /\ NumbersOK(snd, f, taken, offered)
        /\ \A g \in HeldFrames(snd) : g.id \in Nat
    BY <1>1, InvParts, EndsFields
  <2>4. ~(p > taken)  BY <2>2, <2>3 DEF NumbersOK
  <2>5. \A g \in HeldFrames(snd') : g.id # p
    <3> SUFFICES ASSUME NEW g \in HeldFrames(snd'), g.id = p PROVE FALSE  OBVIOUS
    <3>1. d2 < p /\ p <= d2  BY <2>1 DEF GivesUp
    <3> QED  BY <2>2, <2>3, <3>1
  <2> QED  BY <2>4, <2>5 DEF Held, Ids
<1>9. Held(snd') \subseteq Held(snd)
  BY <1>3 DEF Keeps, GivesUp, Held, Ids
<1>10. OutcomesOK(outcome', snd', taken, Received(rcv, Delivered, opener))
  <2>1. outcome' \in [Packets -> {"none", "acked", "dropped"}]  BY <1>6, <1>7
  <2>2. \A p \in Packets : p \in Held(snd') \/ p > taken => outcome'[p] = "none"
    BY <1>6, <1>7, <1>8, <1>9
  <2>3. \A p \in Packets : outcome'[p] = "acked" => p \in Received(rcv, Delivered, opener)
    BY <1>6, <1>7
  <2> QED  BY <2>1, <2>2, <2>3 DEF OutcomesOK
<1>11. Delivered' = Delivered /\ (DeliveredInOrder <=> DeliveredInOrder')
  BY <1>2 DEF Delivered, DeliveredInOrder
<1>12. InvAt(f, taken, d2)'
  BY <1>1, <1>2, <1>4, <1>5, <1>10, <1>11, InvParts DEF InvAt
<1> QED  BY <1>12 DEF Inv

\* The transmitter goes on after a reply, and the outcomes become o.
LEMMA AfterSuccessInv ==
    ASSUME NEW s, NEW f \in Int, NEW taken, NEW d, NEW o,
           EndsOK(rcv, s, f, taken, offered, d, opener, Delivered),
           OutcomesOK(o, s, taken, Received(rcv, Delivered, opener)),
           ~s.waitingForAck, s.hasPacketToSend, ~s.backoff, HoldsNothing(s) \/ HasFrame(s),
           AfterSuccess(s),
           offered \in 0 .. MaxPackets, up \in Seq(Packets), DeliveredInOrder,
           UNCHANGED <<rcv, up, offered>>, outcome' = o
    PROVE  Inv'
<1>1. CASE snd' = EndTxop(s) /\ air' = Nothing /\ opener' = opener
  <2>1. SenderOK(s, f, taken, offered, d, opener)  BY DEF EndsOK
  <2>2. SenderOK(snd', f, taken, offered, d, opener) /\ SameFrames(s, snd')
    BY <1>1, <2>1, EndTxopOK
  <2>3. AirOK(Nothing, rcv, s, f, d, Received(rcv, Delivered, opener))  BY QuietAir
  <2>4. /\ EndsOK(rcv, snd', f, taken, offered, d, opener, Delivered)
        /\ AirOK(air', rcv, snd', f, d, Received(rcv, Delivered, opener))
        /\ OutcomesOK(o, snd', taken, Received(rcv, Delivered, opener))
    BY <1>1, <2>2, <2>3, AccessKept
  <2>5. Delivered' = Delivered /\ (DeliveredInOrder <=> DeliveredInOrder')
    BY DEF Delivered, DeliveredInOrder
  <2>6. InvAt(f, taken, d)'  BY <1>1, <2>4, <2>5 DEF InvAt
  <2>7. taken \in Nat /\ d \in Int  BY EndsFields
  <2> QED  BY <2>6, <2>7 DEF Inv
<1>2. CASE MayContinueTxop(s) /\ TransmitAFrame(s)
  <2>1. HoldsNothing(s) => ThereAreQueuedPackets(s)
    BY <1>2 DEF MayContinueTxop, HoldsNothing
  <2>2. CanSend(rcv, s, f, taken, offered, d, opener, Delivered, o)  BY <2>1 DEF CanSend
  <2> QED  BY <1>2, <2>2, TransmitInv
<1> QED  BY <1>1, <1>2 DEF AfterSuccess

\* An acknowledgement keeps the invariant.
LEMMA AckReceivedInv == NumbersSuffice /\ Inv /\ AckReceived => Inv'
<1> SUFFICES ASSUME Inv, AckReceived PROVE Inv'  OBVIOUS
<1>1. PICK f \in Int, taken \in Nat, d \in Int : InvAt(f, taken, d)  BY DEF Inv
<1> DEFINE c == ProcessAcknowledgementFrame(snd)
           x == snd.lastTransmitted[1]
           received == Received(rcv, Delivered, opener)
<1>2. /\ SenderOK(snd, f, taken, offered, d, opener)
      /\ ReceiverOK(rcv, f, taken, Delivered)
      /\ WindowOK(rcv, snd, f, taken, d, opener, Delivered)
      /\ AirOK(air, rcv, snd, f, d, received)
      /\ OutcomesOK(outcome, snd, taken, received)
      /\ taken \in Nat
      /\ snd \in Senders /\ PlacesOK(snd) /\ RequestOK(snd)
      /\ NumbersOK(snd, f, taken, offered)
      /\ \A g \in HeldFrames(snd) : g.id \in Nat
  BY <1>1, InvParts, EndsFields
<1>3. air.type = "ACK"  BY DEF AckReceived
<1>4. /\ snd.waitingForAck /\ snd.lastSentFrameWasAn = "ShortFrame"
      /\ x.id \in received
      /\ rcv.blockAckSessionIsActive => HaveAlreadySeen(rcv, f + x.id)
  BY <1>2, <1>3 DEF AirOK, Nothing
<1>5. /\ x \in HeldFrames(snd) /\ DOMAIN snd.lastTransmitted = {1}
      /\ ~snd.blockAckRequestNeedsToBeSent
  BY <1>2, <1>4, SignalFrames
<1>6. /\ SenderOK(c, f, taken, offered, d, opener)
      /\ ~c.waitingForAck /\ SameSession(snd, c)
      /\ ~HoldsNothing(c) => HasFrame(c)
      /\ HeldFrames(snd) = HeldFrames(c) \cup {x}
      /\ x.id \notin Held(c)
  BY <1>2, <1>4, ProcessAcknowledgementFrameOK
<1>7. ~c.backoff /\ c.hasPacketToSend  BY <1>2, <1>4, ReplyAccess DEF PlacesOK
<1>8. /\ AfterSuccess(c) /\ UNCHANGED <<rcv, up, offered>>
      /\ outcome' = [p \in Packets |-> IF p = x.id THEN "acked" ELSE outcome[p]]
  <2>1. {g.id : g \in {snd.lastTransmitted[i] : i \in DOMAIN snd.lastTransmitted}} = {x.id}
    BY <1>5
  <2>2. Settle({x.id}, {})  BY <2>1 DEF AckReceived
  <2> QED  BY <2>2 DEF AckReceived, Settle
<1> HIDE DEF c, x, received
<1>9. snd.blockAckSessionIsEnabled => rcv.blockAckSessionIsActive
  BY <1>2, <1>5 DEF WindowOK
<1>10. EndsOK(rcv, c, f, taken, offered, d, opener, Delivered)
  <2>1. HeldFrames(c) \subseteq HeldFrames(snd)  BY <1>6
  <2>2. ~c.blockAckRequestNeedsToBeSent
        /\ c.blockAckSessionIsEnabled = snd.blockAckSessionIsEnabled
    BY <1>5, <1>6 DEF SameSession
  <2>3. ASSUME c.blockAckSessionIsEnabled, NEW p \in 1 .. taken, p \notin Held(c)
        PROVE  rcv.blockAckSessionIsActive /\ HaveAlreadySeen(rcv, f + p)
    <3>1. CASE p \notin Held(snd)  BY <1>2, <1>5, <2>2, <2>3, <3>1 DEF WindowOK
    <3>2. CASE p \in Held(snd)
      <4>1. p = x.id  BY <1>6, <2>3, <3>2 DEF Held, Ids
      <4> QED  BY <1>4, <1>9, <2>2, <2>3, <4>1
    <3> QED  BY <3>1, <3>2
  <2>4. WindowOK(rcv, c, f, taken, d, opener, Delivered)
    BY <1>2, <1>9, <2>1, <2>2, <2>3 DEF WindowOK
  <2> QED  BY <1>2, <1>6, <2>4 DEF EndsOK
<1>11. OutcomesOK(outcome', c, taken, received)
  <2>1. /\ outcome \in [Packets -> {"none", "acked", "dropped"}]
        /\ \A p \in Packets : p \in Held(snd) \/ p > taken => outcome[p] = "none"
        /\ \A p \in Packets : outcome[p] = "acked" => p \in received
    BY <1>2 DEF OutcomesOK
  <2>2. x.id <= taken /\ x.id \in Nat  BY <1>2, <1>5 DEF NumbersOK
  <2>3. \A p \in Held(c) : p \in Held(snd) /\ p # x.id  BY <1>6 DEF Held, Ids
  <2>4. \A p \in Packets : p \in Held(c) \/ p > taken => p # x.id /\ outcome[p] = "none"
    <3>1. \A p \in Packets : p > taken => p # x.id  BY <1>2, <2>2
    <3> QED  BY <2>1, <2>3, <3>1
  <2>5. outcome' \in [Packets -> {"none", "acked", "dropped"}]  BY <1>8, <2>1
  <2>6. \A p \in Packets : p \in Held(c) \/ p > taken => outcome'[p] = "none"
    BY <1>8, <2>4
  <2>7. \A p \in Packets : outcome'[p] = "acked" => p \in received  BY <1>4, <1>8, <2>1
  <2> QED  BY <2>5, <2>6, <2>7 DEF OutcomesOK
<1> QED
  <2>1. /\ offered \in 0 .. MaxPackets /\ up \in Seq(Packets) /\ DeliveredInOrder
    BY <1>1, InvParts
  <2> QED  BY <1>6, <1>7, <1>8, <1>10, <1>11, <2>1, AfterSuccessInv DEF received

\* A frame in hand that the receiver counts as seen was received.
LEMMA SeenIsReceived ==
    ASSUME NEW b, NEW s, NEW f, NEW taken, NEW queued, NEW d, NEW first, NEW delivered,
           EndsOK(b, s, f, taken, queued, d, first, delivered), b.blockAckSessionIsActive,
           NEW g \in HeldFrames(s), HaveAlreadySeen(b, f + g.id)
    PROVE  g.id \in Received(b, delivered, first)
<1> DEFINE n == f + g.id
<1>1. /\ ReceiverOK(b, f, taken, delivered) /\ BufferInv(b)
      /\ WindowOK(b, s, f, taken, d, first, delivered)
      /\ f \in Int /\ g.id \in Nat /\ b.currentLowestUnreceived \in Nat
      /\ b.blockAckBitmap \in SUBSET Nat /\ b.frameBuffer \in SUBSET [seq : Nat, id : Nat]
  BY EndsFields DEF EndsOK
<1>2. n \in Int  BY <1>1
<1>3. CASE n < b.currentLowestUnreceived  BY <1>1, <1>3 DEF WindowOK, Received
<1>4. CASE n > b.currentLowestUnreceived
  <2>1. n \in b.blockAckBitmap  BY <1>1, <1>2, <1>4 DEF HaveAlreadySeen
  <2>2. PICK h \in b.frameBuffer : h.seq = n  BY <1>1, <1>4, <2>1 DEF BufferInv, FramesInv
  <2>3. h.seq = f + h.id /\ h.id \in Nat  BY <1>1 DEF ReceiverOK
  <2>4. h.id = g.id  BY <1>1, <2>2, <2>3
  <2> QED  BY <2>4 DEF Received, Ids
<1>5. n # b.currentLowestUnreceived
  BY <1>1, BufferFields DEF WindowInv, HaveAlreadySeen
<1> QED  BY <1>1, <1>2, <1>3, <1>4, <1>5

\* The frames of an aggregate that a block acknowledgement acknowledges were received.
LEMMA AckedOfAggregate ==
    ASSUME NumbersSuffice,
           NEW b, NEW s, NEW f, NEW taken, NEW queued, NEW d, NEW first, NEW delivered,
           EndsOK(b, s, f, taken, queued, d, first, delivered),
           b.blockAckSessionIsActive, ~s.blockAckRequestNeedsToBeSent,
           NEW ba, ba.start = b.bitmapWindowStart % SeqMod,
           ba.bitmap = {n - b.bitmapWindowStart : n \in b.blockAckBitmap},
           NEW g \in HeldFrames(s), g.id # first, IsAcked(ba, g.seq)
    PROVE  g.id \in Received(b, delivered, first) /\ HaveAlreadySeen(b, f + g.id)
<1> DEFINE n == f + g.id
           start == b.bitmapWindowStart
<1>1. /\ n \in Nat /\ start <= n
      /\ CalcTwelveBitSequenceNumberDifference(g.seq, start % SeqMod) = n - start
  BY FrameInReach
<1>2. start \in Nat /\ b.blockAckBitmap \in SUBSET Nat  BY EndsFields
<1>3. n \in b.blockAckBitmap
  <2>1. n - start \in {m - start : m \in b.blockAckBitmap}
    BY <1>1 DEF IsAcked
  <2>2. PICK m \in b.blockAckBitmap : n - start = m - start  BY <2>1
  <2>3. m \in Nat  BY <1>2
  <2> HIDE DEF n, start
  <2>4. m = n  BY <1>1, <1>2, <2>2, <2>3
  <2> QED  BY <2>4
<1>4. HaveAlreadySeen(b, n)  BY <1>3 DEF HaveAlreadySeen
<1>5. g.id \in Received(b, delivered, first)  BY <1>4, SeenIsReceived
<1> QED  BY <1>4, <1>5

\* The window after the reply to an aggregate: what is left is retried, or given up.
LEMMA LeftWindow ==
    ASSUME NumbersSuffice,
           NEW b, NEW s, NEW f, NEW taken, NEW queued, NEW d, NEW first, NEW delivered,
           EndsOK(b, s, f, taken, queued, d, first, delivered),
           b.blockAckSessionIsActive, ~s.blockAckRequestNeedsToBeSent,
           NEW ba, ba.start = b.bitmapWindowStart % SeqMod,
           ba.bitmap = {n - b.bitmapWindowStart : n \in b.blockAckBitmap},
           \A g \in HeldFrames(s) : g.id # first,
           NEW c, NEW d2 \in Int, SenderOK(c, f, taken, queued, d2, first),
           c.blockAckSessionIsEnabled,
           RetriesLeft(s, c, ba, d, d2) \/ GivesUpLeft(s, c, ba, d2)
    PROVE  EndsOK(b, c, f, taken, queued, d2, first, delivered)
<1>1. /\ ReceiverOK(b, f, taken, delivered)
      /\ WindowOK(b, s, f, taken, d, first, delivered)
      /\ f \in Int /\ taken \in Nat /\ d \in Int /\ b.bitmapWindowStart \in Nat
      /\ \A g \in HeldFrames(s) : g.id \in Nat
  BY EndsFields DEF EndsOK
<1>2. s.blockAckSessionIsEnabled  BY <1>1 DEF WindowOK
<1>3. HeldFrames(c) \subseteq HeldFrames(s)  BY DEF RetriesLeft, GivesUpLeft, Left
<1>4. \A g \in HeldFrames(s) : g \in Left(s, ba) \/ HaveAlreadySeen(b, f + g.id)
  BY AckedOfAggregate DEF Left
<1>5. \A g \in HeldFrames(s) : b.bitmapWindowStart <= f + g.id
  BY <1>1 DEF WindowOK
<1>6. c.blockAckRequestNeedsToBeSent => b.bitmapWindowStart <= f + d2 + 1
  <2> SUFFICES ASSUME c.blockAckRequestNeedsToBeSent
               PROVE  b.bitmapWindowStart <= f + d2 + 1
    OBVIOUS
  <2>1. GivesUpLeft(s, c, ba, d2)  BY DEF RetriesLeft
  <2>2. PICK h \in HeldFrames(s) : h.id = d2  BY <2>1 DEF GivesUpLeft, Left, Ids
  <2> QED  BY <1>1, <1>5, <2>2
<1>7. ASSUME NEW p \in 1 .. taken, p \notin Held(c), c.blockAckRequestNeedsToBeSent => p > d2
      PROVE  HaveAlreadySeen(b, f + p)
  <2>1. CASE p \notin Held(s)  BY <1>1, <1>2, <1>7, <2>1 DEF WindowOK
  <2>2. CASE p \in Held(s)
    <3>1. PICK g \in HeldFrames(s) : g.id = p  BY <2>2 DEF Held, Ids
    <3>2. g \notin Left(s, ba)
      <4>1. CASE RetriesLeft(s, c, ba, d, d2)
        BY <1>7, <3>1, <4>1 DEF RetriesLeft, Held, Ids
      <4>2. CASE GivesUpLeft(s, c, ba, d2)
        <5> SUFFICES ASSUME g \in Left(s, ba) PROVE FALSE  OBVIOUS
        <5>1. p <= d2 /\ p > d2  BY <1>7, <3>1, <4>2 DEF GivesUpLeft, Ids
        <5> QED  BY <5>1
      <4> QED  BY <4>1, <4>2
    <3> QED  BY <1>4, <3>1, <3>2
  <2> QED  BY <2>1, <2>2
<1>8. WindowOK(b, c, f, taken, d2, first, delivered)
  BY <1>1, <1>3, <1>5, <1>6, <1>7 DEF WindowOK
<1> QED  BY <1>1, <1>8 DEF EndsOK

\* How the packets of the aggregate end.
LEMMA LeftOutcomes ==
    ASSUME NEW s, NEW c, NEW f, NEW taken \in Nat, NEW queued, NEW d, NEW d2, NEW ba, NEW o,
           NEW received, OutcomesOK(o, s, taken, received),
           NumbersOK(s, f, taken, queued), \A g \in HeldFrames(s) : g.id \in Nat,
           \A g, h \in HeldFrames(s) : g.id = h.id => g = h,
           \A g \in HeldFrames(s) : g \in Left(s, ba) \/ g.id \in received,
           RetriesLeft(s, c, ba, d, d2) \/ GivesUpLeft(s, c, ba, d2),
           NEW acked, NEW dropped, acked = Ids(HeldFrames(s) \ Left(s, ba)),
           dropped = DroppedAtBlockAck(s, ba)
    PROVE  OutcomesOK([p \in Packets |-> IF p \in acked THEN "acked"
                                         ELSE IF p \in dropped THEN "dropped" ELSE o[p]],
                      c, taken, received)
<1> DEFINE o2 == [p \in Packets |-> IF p \in acked THEN "acked"
                                    ELSE IF p \in dropped THEN "dropped" ELSE o[p]]
<1>1. /\ o \in [Packets -> {"none", "acked", "dropped"}]
      /\ \A p \in Packets : p \in Held(s) \/ p > taken => o[p] = "none"
      /\ \A p \in Packets : o[p] = "acked" => p \in received
  BY DEF OutcomesOK
<1>2. o2 \in [Packets -> {"none", "acked", "dropped"}]  BY <1>1
<1>3. acked \subseteq Held(s) /\ acked \subseteq received  BY DEF Ids, Held
<1>4. dropped \subseteq Held(s)  BY DEF RetriesLeft, GivesUpLeft, Left, Ids, Held
<1>5. \A p \in Held(c) : p \in Held(s) /\ p \notin acked /\ p \notin dropped
  <2>1. CASE RetriesLeft(s, c, ba, d, d2)
    <3>1. HeldFrames(c) = Left(s, ba) /\ dropped = {}  BY <2>1 DEF RetriesLeft
    <3>2. Left(s, ba) \subseteq HeldFrames(s)  BY DEF Left
    <3> QED  BY <3>1, <3>2 DEF Held, Ids
  <2>2. CASE GivesUpLeft(s, c, ba, d2)  BY <2>2 DEF GivesUpLeft, Held, Ids
  <2> QED  BY <2>1, <2>2
<1>6. \A p \in Held(s) : ~(p > taken)  BY DEF Held, Ids, NumbersOK
<1>7. \A p \in Packets : p \in Held(c) \/ p > taken => o2[p] = "none"
  BY <1>1, <1>3, <1>4, <1>5, <1>6
<1>8. \A p \in Packets : o2[p] = "acked" => p \in received  BY <1>1, <1>3
<1> QED  BY <1>2, <1>7, <1>8 DEF OutcomesOK

\* A block acknowledgement, of an aggregate or of a request, keeps the invariant.
LEMMA BlockAckReceivedInv == NumbersSuffice /\ Inv /\ BlockAckReceived => Inv'
<1> SUFFICES ASSUME NumbersSuffice, Inv, BlockAckReceived PROVE Inv'  OBVIOUS
<1>1. PICK f \in Int, taken \in Nat, d \in Int : InvAt(f, taken, d)  BY DEF Inv
<1> DEFINE c == ProcessBlockAckFrame(snd, air)
           received == Received(rcv, Delivered, opener)
<1>2. /\ EndsOK(rcv, snd, f, taken, offered, d, opener, Delivered)
      /\ SenderOK(snd, f, taken, offered, d, opener)
      /\ ReceiverOK(rcv, f, taken, Delivered)
      /\ WindowOK(rcv, snd, f, taken, d, opener, Delivered)
      /\ AirOK(air, rcv, snd, f, d, received)
      /\ OutcomesOK(outcome, snd, taken, received)
      /\ offered \in 0 .. MaxPackets /\ up \in Seq(Packets) /\ DeliveredInOrder
  BY <1>1, InvParts
<1>3. /\ snd \in Senders /\ PlacesOK(snd) /\ RequestOK(snd)
      /\ NumbersOK(snd, f, taken, offered) /\ DropOK(snd, f, taken, d, opener)
      /\ rcv.currentLowestUnreceived \in Nat
      /\ \A g \in HeldFrames(snd) : g.id \in Nat
  BY <1>2, EndsFields
<1>4. air.type = "BA" /\ AfterSuccess(c) /\ UNCHANGED <<rcv, up, offered>>
  BY DEF BlockAckReceived
<1>5. /\ snd.waitingForAck /\ BlockAckTypeOK(air)
      /\ snd.lastSentFrameWasAn \in {"AggregateFrame", "BlockAckRequestFrame"}
      /\ rcv.blockAckSessionIsActive
      /\ air.start = rcv.bitmapWindowStart % SeqMod
      /\ air.bitmap = {n - rcv.bitmapWindowStart : n \in rcv.blockAckBitmap}
      /\ snd.lastSentFrameWasAn = "BlockAckRequestFrame" =>
             f + d + 1 <= rcv.currentLowestUnreceived
  BY <1>2, <1>4, SignalTypes DEF AirOK, Nothing
<1>6. ~c.backoff /\ c.hasPacketToSend  BY <1>3, <1>5, ReplyAccess DEF PlacesOK
<1>7. CASE snd.lastSentFrameWasAn = "BlockAckRequestFrame"
  <2>1. /\ SenderOK(c, f, taken, offered, d, opener)
        /\ ~c.waitingForAck /\ HasFrame(c)
        /\ HeldFrames(c) = HeldFrames(snd)
        /\ c.blockAckSessionIsEnabled = snd.blockAckSessionIsEnabled
        /\ ~c.blockAckRequestNeedsToBeSent
    BY <1>2, <1>5, <1>7, BlockAckOfRequestOK
  <2>2. outcome' = outcome  BY <1>7 DEF BlockAckReceived
  <2> HIDE DEF c, received
  <2>3. ASSUME c.blockAckSessionIsEnabled, NEW p \in 1 .. taken, p \notin Held(c)
        PROVE  HaveAlreadySeen(rcv, f + p)
    <3>1. CASE p > d  BY <1>2, <2>1, <2>3, <3>1 DEF WindowOK, Held
    <3>2. CASE ~(p > d)
      <4>1. f + p < rcv.currentLowestUnreceived  BY <1>1, <1>3, <1>5, <1>7, <3>2
      <4> QED  BY <4>1 DEF HaveAlreadySeen
    <3> QED  BY <3>1, <3>2
  <2>4. WindowOK(rcv, c, f, taken, d, opener, Delivered)
    BY <1>2, <1>5, <2>1, <2>3 DEF WindowOK
  <2>5. EndsOK(rcv, c, f, taken, offered, d, opener, Delivered)
    BY <1>2, <2>1, <2>4 DEF EndsOK
  <2>6. OutcomesOK(outcome, c, taken, received)  BY <1>2, <2>1, SameHeldOutcomes
  <2> QED  BY <1>2, <1>4, <1>6, <2>1, <2>2, <2>5, <2>6, AfterSuccessInv DEF received
<1>8. CASE snd.lastSentFrameWasAn = "AggregateFrame"
  <2>1. PICK d2 \in Int :
           /\ SenderOK(c, f, taken, offered, d2, opener) /\ ~c.waitingForAck
           /\ HoldsNothing(c) \/ HasFrame(c)
           /\ c.blockAckSessionIsEnabled
           /\ AckedBy(snd, air) = Ids(HeldFrames(snd) \ Left(snd, air))
           /\ \A g, h \in HeldFrames(snd) : g.id = h.id => g = h
           /\ RetriesLeft(snd, c, air, d, d2) \/ GivesUpLeft(snd, c, air, d2)
    BY <1>2, <1>5, <1>8, BlockAckOfAggregateOK
  <2>2. outcome' = [p \in Packets |-> IF p \in AckedBy(snd, air) THEN "acked"
                                      ELSE IF p \in DroppedAtBlockAck(snd, air) THEN "dropped"
                                      ELSE outcome[p]]
    BY <1>8 DEF BlockAckReceived, Settle
  <2> HIDE DEF c
  <2>3. HeldFrames(snd) = Aggregated(snd) /\ ~snd.blockAckRequestNeedsToBeSent
    BY <1>3, <1>5, <1>8, SignalFrames
  <2>4. \A g \in HeldFrames(snd) : g.id # opener
    <3>1. opener \in Nat  BY <1>1, InvParts
    <3> QED  BY <1>3, <2>3, <3>1 DEF DropOK
  <2>5. EndsOK(rcv, c, f, taken, offered, d2, opener, Delivered)
    BY <1>2, <1>5, <2>1, <2>3, <2>4, LeftWindow
  <2>6. \A g \in HeldFrames(snd) : g \in Left(snd, air) \/ g.id \in received
    BY <1>2, <1>5, <2>3, <2>4, AckedOfAggregate DEF Left
  <2> HIDE DEF received
  <2>7. OutcomesOK(outcome', c, taken, received)
    BY <1>1, <1>2, <1>3, <2>1, <2>2, <2>6, LeftOutcomes
  <2> QED  BY <1>2, <1>4, <1>6, <2>1, <2>5, <2>7, AfterSuccessInv DEF received
<1> QED  BY <1>5, <1>7, <1>8

-----------------------------------------------------------------------------
(* Steps of the receiver. *)

InOrder(u) == \A i, j \in DOMAIN u : i < j => u[i] < u[j]

\* Two ascending sequences, the second above the first, make one that ascends.
LEMMA ConcatInOrder ==
    ASSUME NEW u \in Seq(Packets), NEW v \in Seq(Packets), InOrder(u), InOrder(v),
           \A p \in Elements(u), q \in Elements(v) : p < q
    PROVE  /\ u \o v \in Seq(Packets) /\ InOrder(u \o v)
           /\ Elements(u \o v) = Elements(u) \cup Elements(v)
<1> DEFINE w == u \o v
<1>1. /\ w \in Seq(Packets) /\ Len(w) = Len(u) + Len(v)
      /\ Len(u) \in Nat /\ Len(v) \in Nat
      /\ DOMAIN u = 1 .. Len(u) /\ DOMAIN v = 1 .. Len(v) /\ DOMAIN w = 1 .. Len(w)
  OBVIOUS
<1>2. \A i \in 1 .. Len(w) : w[i] = IF i <= Len(u) THEN u[i] ELSE v[i - Len(u)]
  BY <1>1, ConcatProperties
<1> HIDE DEF w
<1>3. \A i \in DOMAIN w : i <= Len(u) => i \in DOMAIN u /\ w[i] = u[i]
  BY <1>1, <1>2
<1>4. \A i \in DOMAIN w : ~(i <= Len(u)) => i - Len(u) \in DOMAIN v /\ w[i] = v[i - Len(u)]
  BY <1>1, <1>2
<1>5. InOrder(w)
  <2> SUFFICES ASSUME NEW i \in DOMAIN w, NEW j \in DOMAIN w, i < j PROVE w[i] < w[j]
    BY DEF InOrder
  <2>1. CASE j <= Len(u)
    <3>1. i <= Len(u)  BY <1>1, <2>1
    <3> QED  BY <1>3, <2>1, <3>1 DEF InOrder
  <2>2. CASE ~(i <= Len(u))
    <3>1. ~(j <= Len(u)) /\ i - Len(u) < j - Len(u)  BY <1>1, <2>2
    <3> QED  BY <1>4, <2>2, <3>1 DEF InOrder
  <2>3. CASE i <= Len(u) /\ ~(j <= Len(u))  BY <1>3, <1>4, <2>3 DEF Elements
  <2> QED  BY <2>1, <2>2, <2>3
<1>6. Elements(w) = Elements(u) \cup Elements(v)
  <2>1. \A i \in DOMAIN w : w[i] \in Elements(u) \cup Elements(v)
    BY <1>3, <1>4 DEF Elements
  <2>2. \A i \in DOMAIN u : u[i] \in Elements(w)
    <3> SUFFICES ASSUME NEW i \in DOMAIN u PROVE u[i] \in Elements(w)  OBVIOUS
    <3>1. i \in DOMAIN w /\ i <= Len(u)  BY <1>1
    <3> QED  BY <1>3, <3>1 DEF Elements
  <2>3. \A i \in DOMAIN v : v[i] \in Elements(w)
    <3> SUFFICES ASSUME NEW i \in DOMAIN v PROVE v[i] \in Elements(w)  OBVIOUS
    <3>1. PICK j \in Nat : j = i + Len(u)  BY <1>1
    <3>2. j \in DOMAIN w /\ ~(j <= Len(u)) /\ j - Len(u) = i  BY <1>1, <3>1
    <3> QED  BY <1>4, <3>2 DEF Elements
  <2> QED  BY <2>1, <2>2, <2>3 DEF Elements
<1> QED  BY <1>1, <1>5, <1>6 DEF w

\* The frames that leave the buffer are in order and follow what went up before.
LEMMA LeavingFrames ==
    ASSUME NEW frames \in SUBSET [seq : Nat, id : Nat], IsFiniteSet(frames),
           \A g, h \in frames : g.seq = h.seq => g = h,
           NEW f \in Int, \A g \in frames : g.seq = f + g.id /\ g.id \in Packets
    PROVE  LET ids == InSequence(frames)
           IN ids \in Seq(Packets) /\ InOrder(ids) /\ Elements(ids) = Ids(frames)
<1> DEFINE ids == InSequence(frames)
<1>1. /\ ids \in Seq(Nat) /\ {ids[i] : i \in DOMAIN ids} = Ids(frames)
      /\ \A i, j \in DOMAIN ids : i < j =>
             \E g, h \in frames : g.seq < h.seq /\ ids[i] = g.id /\ ids[j] = h.id
  BY InSequenceLemma
<1> HIDE DEF ids
<1>2. Elements(ids) = Ids(frames)  BY <1>1 DEF Elements
<1>3. InOrder(ids)
  <2> SUFFICES ASSUME NEW i \in DOMAIN ids, NEW j \in DOMAIN ids, i < j PROVE ids[i] < ids[j]
    BY DEF InOrder
  <2>1. PICK g \in frames, h \in frames : g.seq < h.seq /\ ids[i] = g.id /\ ids[j] = h.id
    BY <1>1
  <2>2. g.id \in Nat /\ h.id \in Nat  OBVIOUS
  <2> QED  BY <2>1, <2>2
<1>4. ids \in Seq(Packets)
  <2>1. \A i \in DOMAIN ids : ids[i] \in Packets
    <3> SUFFICES ASSUME NEW i \in DOMAIN ids PROVE ids[i] \in Packets  OBVIOUS
    <3>1. ids[i] \in Ids(frames)  BY <1>2 DEF Elements
    <3> QED  BY <3>1 DEF Ids
  <2>2. DOMAIN ids = 1 .. Len(ids) /\ Len(ids) \in Nat /\ ids = [i \in 1 .. Len(ids) |-> ids[i]]
    BY <1>1
  <2> QED  BY <2>1, <2>2
<1> QED  BY <1>2, <1>3, <1>4 DEF ids

\* What goes up: the frame that is in order, if it is, and the frames that leave the buffer.
LEMMA SendUpOK ==
    ASSUME NEW b, NEW c, NEW f \in Int, NEW taken \in Nat, NEW lowest \in Nat,
           ReceiverOK(b, f, taken, Delivered), rcv = b, rcv' = c,
           up \in Seq(Packets), DeliveredInOrder, NEW first \in Seq(Packets),
           taken <= MaxPackets, MaxPackets \in Nat,
           b.currentLowestUnreceived = lowest,
           first = <<>> \/ \E p \in Packets : first = <<p>> /\ lowest <= f + p,
           \A g \in b.frameBuffer \ c.frameBuffer : \A p \in Elements(first) : p < g.id,
           SendUp(first)
    PROVE  /\ up' \in Seq(Packets) /\ DeliveredInOrder'
           /\ Delivered' = Delivered \cup Elements(first) \cup Ids(b.frameBuffer \ c.frameBuffer)
<1> DEFINE leaving == b.frameBuffer \ c.frameBuffer
           ids == InSequence(leaving)
<1>1. /\ BufferInv(b) /\ b.frameBuffer \in SUBSET [seq : Nat, id : Nat]
      /\ \A g, h \in b.frameBuffer : g.seq = h.seq => g = h
      /\ \A g \in b.frameBuffer : g.seq > lowest /\ g.seq \in b.blockAckBitmap
      /\ f < lowest
      /\ \A n \in b.blockAckBitmap : n <= f + taken
      /\ \A g \in b.frameBuffer : g.seq = f + g.id
      /\ \A p \in Delivered : p \in Nat /\ f + p < lowest
  BY DEF ReceiverOK, BufferInv, FramesInv, Buffers
<1>2. \A g \in b.frameBuffer : g.id \in Packets /\ lowest < f + g.id
  <2> SUFFICES ASSUME NEW g \in b.frameBuffer PROVE g.id \in Packets /\ lowest < f + g.id
    OBVIOUS
  <2>1. g.id \in Nat /\ g.seq = f + g.id /\ g.seq > lowest /\ g.seq <= f + taken  BY <1>1
  <2> QED  BY <1>1, <2>1 DEF Packets
<1>3. IsFiniteSet(b.frameBuffer)
  <2>1. f + taken + 1 \in Nat \/ b.frameBuffer = {}
    <3> SUFFICES ASSUME NEW g \in b.frameBuffer PROVE f + taken + 1 \in Nat  OBVIOUS
    <3>1. g.seq \in Nat /\ g.seq <= f + taken  BY <1>1
    <3> QED  BY <3>1
  <2>2. CASE f + taken + 1 \in Nat
    <3>1. PICK top \in Nat : top = f + taken + 1  BY <2>2
    <3>2. \A g \in b.frameBuffer : g.seq <= top
      <4> SUFFICES ASSUME NEW g \in b.frameBuffer PROVE g.seq <= top  OBVIOUS
      <4>1. g.seq \in Nat /\ g.seq <= f + taken  BY <1>1
      <4> QED  BY <3>1, <4>1
    <3> QED  BY <1>1, <3>2, BufferIsFinite
  <2>3. CASE b.frameBuffer = {}  BY <2>3, FS_EmptySet
  <2> QED  BY <2>1, <2>2, <2>3
<1>4. IsFiniteSet(leaving)  BY <1>3, FS_Difference
<1>5. ids \in Seq(Packets) /\ InOrder(ids) /\ Elements(ids) = Ids(leaving)
  <2>1. leaving \in SUBSET [seq : Nat, id : Nat]  BY <1>1
  <2>2. \A g, h \in leaving : g.seq = h.seq => g = h  BY <1>1
  <2>3. \A g \in leaving : g.seq = f + g.id /\ g.id \in Packets  BY <1>1, <1>2
  <2> HIDE DEF leaving
  <2> QED  BY <1>4, <2>1, <2>2, <2>3, LeavingFrames
<1>6. up' = (up \o first) \o ids
  BY DEF SendUp
<1> HIDE DEF ids
<1>7. Elements(up) = Delivered /\ InOrder(up)
  BY DEF Elements, Delivered, InOrder, DeliveredInOrder
<1>8. InOrder(first) /\ (\A p \in Elements(first) : p \in Nat /\ lowest <= f + p)
  <2>1. CASE first = <<>>  BY <2>1 DEF InOrder, Elements
  <2>2. CASE first # <<>>
    <3>1. PICK p \in Packets : first = <<p>> /\ lowest <= f + p  BY <2>2
    <3>2. Elements(first) = {p} /\ DOMAIN first = {1}  BY <3>1, SequenceOfOne
    <3> QED  BY <3>1, <3>2 DEF InOrder, Packets
  <2> QED  BY <2>1, <2>2
<1>9. \A p \in Elements(up), q \in Elements(first) : p < q
  BY <1>1, <1>7, <1>8
<1>10. /\ up \o first \in Seq(Packets) /\ InOrder(up \o first)
       /\ Elements(up \o first) = Delivered \cup Elements(first)
  BY <1>7, <1>8, <1>9, ConcatInOrder
<1>11. \A p \in Elements(up \o first), q \in Elements(ids) : p < q
  <2> SUFFICES ASSUME NEW p \in Delivered \cup Elements(first), NEW g \in leaving
               PROVE  p < g.id
    BY <1>5, <1>10 DEF Ids
  <2>1. CASE p \in Elements(first)  BY <2>1
  <2>2. CASE p \in Delivered
    <3>1. p \in Nat /\ f + p < lowest /\ g.id \in Nat /\ lowest < f + g.id
      BY <1>1, <1>2, <2>2 DEF Packets
    <3> QED  BY <3>1
  <2> QED  BY <2>1, <2>2
<1>12. /\ up' \in Seq(Packets) /\ InOrder(up')
       /\ Elements(up') = Delivered \cup Elements(first) \cup Ids(leaving)
  <2>1. PICK w \in Seq(Packets) : w = up \o first  BY <1>10
  <2>2. w \o ids \in Seq(Packets) /\ InOrder(w \o ids)
        /\ Elements(w \o ids) = Elements(w) \cup Elements(ids)
    BY <1>5, <1>10, <1>11, <2>1, ConcatInOrder
  <2> QED  BY <1>5, <1>6, <1>10, <2>1, <2>2
<1> QED  BY <1>12 DEF Elements, Delivered, InOrder, DeliveredInOrder

\* A frame that was not seen before: c is the receiver b with it.
LEMMA ReceivedEnds ==
    ASSUME NEW b, NEW s, NEW f, NEW taken, NEW queued, NEW d, NEW first, NEW delivered,
           EndsOK(b, s, f, taken, queued, d, first, delivered),
           b.blockAckSessionIsActive, ~s.blockAckRequestNeedsToBeSent,
           NEW g \in HeldFrames(s), NEW n \in Nat, n = f + g.id, ~HaveAlreadySeen(b, n),
           NEW c, Advances(b, c), TakesFrame(b, c, n, g.id),
           NEW delivered2,
           delivered2 = delivered \cup (IF FrameIsInOrder(b, n) THEN {g.id} ELSE {})
                                  \cup Ids(b.frameBuffer \ c.frameBuffer)
    PROVE  EndsOK(c, s, f, taken, queued, d, first, delivered2)
<1> DEFINE lowest == b.currentLowestUnreceived
           lowest2 == c.currentLowestUnreceived
           leaving == b.frameBuffer \ c.frameBuffer
<1>1. /\ SenderOK(s, f, taken, queued, d, first) /\ ReceiverOK(b, f, taken, delivered)
      /\ WindowOK(b, s, f, taken, d, first, delivered)
      /\ f \in Int /\ taken \in Nat /\ g.id \in Nat /\ lowest \in Nat
      /\ b.bitmapWindowStart \in Nat
      /\ b.blockAckBitmap \in SUBSET Nat /\ b.frameBuffer \in SUBSET [seq : Nat, id : Nat]
      /\ NumbersOK(s, f, taken, queued)
      /\ \A h \in HeldFrames(s) : h.id \in Nat
  BY EndsFields DEF EndsOK
<1>2. /\ BufferInv(c) /\ c.blockAckSessionIsActive
      /\ b.bitmapWindowStart <= c.bitmapWindowStart /\ lowest <= lowest2
      /\ \A h \in leaving : lowest < h.seq /\ h.seq < lowest2
      /\ \A m \in Int : HaveAlreadySeen(b, m) => HaveAlreadySeen(c, m)
  BY DEF Advances
<1>3. /\ HaveAlreadySeen(c, n)
      /\ c.bitmapWindowStart = b.bitmapWindowStart \/ c.bitmapWindowStart <= n - W + 1
      /\ c.blockAckBitmap \subseteq b.blockAckBitmap \cup {n}
      /\ c.frameBuffer \subseteq b.frameBuffer \cup {[seq |-> n, id |-> g.id]}
      /\ \A m \in lowest .. lowest2 - 1 :
             (m = n /\ FrameIsInOrder(b, n)) \/ \E h \in leaving : h.seq = m
  BY DEF TakesFrame
<1>4. /\ lowest2 \in Nat /\ c.bitmapWindowStart \in Nat /\ c.blockAckBitmap \in SUBSET Nat
      /\ W \in Nat /\ W > 0 /\ WindowInv(c)
  BY <1>2, BufferFields
<1>5. /\ f < lowest /\ lowest <= f + taken + 1
      /\ \A m \in b.blockAckBitmap : f <= m /\ m <= f + taken
      /\ \A h \in b.frameBuffer : h.seq = f + h.id
      /\ \A p \in delivered : p \in Nat /\ 1 <= p /\ p <= taken /\ f + p < lowest
      /\ 1 <= b.bitmapWindowStart /\ f <= b.bitmapWindowStart
      /\ \A m \in b.blockAckBitmap : f < m /\ m < lowest => m - f \in delivered
  BY <1>1 DEF ReceiverOK
<1>6. 1 <= g.id /\ g.id <= taken  BY <1>1 DEF NumbersOK
<1>7. delivered2 = delivered \cup (IF FrameIsInOrder(b, n) THEN {g.id} ELSE {}) \cup Ids(leaving)
  OBVIOUS
<1>8. lowest <= n  BY <1>1 DEF HaveAlreadySeen
<1>9. \A h \in b.frameBuffer : h.id \in Nat /\ h.seq \in Nat /\ h.seq \in b.blockAckBitmap
  BY <1>1 DEF ReceiverOK, BufferInv, FramesInv
<1>10. \A m \in lowest .. lowest2 - 1 : m - f \in delivered2
  <2> SUFFICES ASSUME NEW m \in lowest .. lowest2 - 1 PROVE m - f \in delivered2  OBVIOUS
  <2>1. CASE m = n /\ FrameIsInOrder(b, n)
    <3>1. m - f = g.id  BY <1>1, <2>1
    <3> QED  BY <1>7, <2>1, <3>1
  <2>2. CASE \E h \in leaving : h.seq = m
    <3>1. PICK h \in leaving : h.seq = m  BY <2>2
    <3>2. m - f = h.id  BY <1>1, <1>5, <1>9, <3>1
    <3> QED  BY <1>7, <3>1, <3>2 DEF Ids
  <2> QED  BY <1>3, <2>1, <2>2
<1> HIDE DEF lowest, lowest2, leaving
<1>11. ReceiverOK(c, f, taken, delivered2)
  <2>1. f < lowest2  BY <1>1, <1>2, <1>4, <1>5
  <2>2. \A m \in c.blockAckBitmap : f <= m /\ m <= f + taken
    <3> SUFFICES ASSUME NEW m \in c.blockAckBitmap PROVE f <= m /\ m <= f + taken  OBVIOUS
    <3>1. m \in b.blockAckBitmap \/ m = n  BY <1>3
    <3> QED  BY <1>1, <1>5, <1>6, <3>1
  <2>3. lowest2 <= f + taken + 1
    <3>1. CASE lowest2 = c.bitmapWindowStart
      BY <1>1, <1>2, <1>3, <1>4, <1>5, <1>6, <3>1, BufferFields DEF ReceiverOK, WindowInv, lowest
    <3>2. CASE lowest2 # c.bitmapWindowStart
      <4>1. lowest2 - 1 \in c.bitmapWindowStart .. lowest2 - 1
        BY <1>4, <3>2 DEF WindowInv, lowest2
      <4>2. lowest2 - 1 \in c.blockAckBitmap  BY <1>4, <4>1 DEF WindowInv, lowest2
      <4> QED  BY <1>1, <1>4, <2>2, <4>2
    <3> QED  BY <3>1, <3>2
  <2>4. \A h \in c.frameBuffer : h.seq = f + h.id
    <3> SUFFICES ASSUME NEW h \in c.frameBuffer PROVE h.seq = f + h.id  OBVIOUS
    <3>1. h \in b.frameBuffer \/ h = [seq |-> n, id |-> g.id]  BY <1>3
    <3> QED  BY <1>5, <3>1
  <2>5. \A p \in delivered2 : p \in Nat /\ 1 <= p /\ p <= taken /\ f + p < lowest2
    <3> SUFFICES ASSUME NEW p \in delivered2
                 PROVE  p \in Nat /\ 1 <= p /\ p <= taken /\ f + p < lowest2
      OBVIOUS
    <3>1. CASE p \in delivered  BY <1>1, <1>2, <1>4, <1>5, <3>1
    <3>2. CASE p = g.id /\ FrameIsInOrder(b, n)
      <4>1. n = lowest  BY <3>2 DEF FrameIsInOrder, lowest
      <4>2. n < lowest2  BY <1>1, <1>2, <1>3, <1>4, <4>1 DEF HaveAlreadySeen, WindowInv, lowest2
      <4> QED  BY <1>6, <1>1, <3>2, <4>2
    <3>3. CASE p \in Ids(leaving)
      <4>1. PICK h \in leaving : h.id = p  BY <3>3 DEF Ids
      <4>2. /\ h.seq = f + h.id /\ lowest < h.seq /\ h.seq < lowest2 /\ h.seq <= f + taken
            /\ h.id \in Nat
        BY <1>2, <1>5, <1>9, <4>1 DEF leaving
      <4> QED  BY <1>1, <1>5, <4>1, <4>2
    <3> QED  BY <1>7, <3>1, <3>2, <3>3
  <2>6. 1 <= c.bitmapWindowStart /\ f <= c.bitmapWindowStart
    BY <1>1, <1>2, <1>4, <1>5
  <2>7. ASSUME NEW m \in c.blockAckBitmap, f < m, m < lowest2 PROVE m - f \in delivered2
    <3>1. CASE m < lowest
      <4>1. m # n  BY <1>1, <1>8, <3>1
      <4> QED  BY <1>3, <1>5, <1>7, <2>7, <3>1, <4>1
    <3>2. CASE ~(m < lowest)
      <4>1. m \in lowest .. lowest2 - 1  BY <1>1, <1>4, <2>7, <3>2
      <4> QED  BY <1>10, <4>1
    <3> QED  BY <3>1, <3>2
  <2> QED
    BY <1>2, <2>1, <2>2, <2>3, <2>4, <2>5, <2>6, <2>7 DEF ReceiverOK, lowest2
<1>12. WindowOK(c, s, f, taken, d, first, delivered2)
  <2>1. ASSUME NEW h \in HeldFrames(s), f + h.id < lowest2
        PROVE  h.id \in delivered2 \/ h.id = first
    <3>1. CASE f + h.id < lowest  BY <1>1, <1>7, <3>1 DEF WindowOK, lowest
    <3>2. CASE ~(f + h.id < lowest)
      <4>1. f + h.id \in lowest .. lowest2 - 1 /\ (f + h.id) - f = h.id
        BY <1>1, <1>4, <2>1, <3>2
      <4>2. (f + h.id) - f \in delivered2  BY <1>10, <4>1
      <4> QED  BY <4>1, <4>2
    <3> QED  BY <3>1, <3>2
  <2>2. ASSUME NEW h \in HeldFrames(s)
        PROVE  \/ c.bitmapWindowStart <= f + h.id
               \/ h.id = first /\ c.bitmapWindowStart = f + h.id + 1
    <3>1. CASE c.bitmapWindowStart = b.bitmapWindowStart  BY <1>1, <3>1 DEF WindowOK
    <3>2. CASE c.bitmapWindowStart <= n - W + 1
      <4>1. taken - h.id < W /\ h.id \in Nat  BY <1>1 DEF NumbersOK
      <4> QED  BY <1>1, <1>4, <1>6, <3>2, <4>1
    <3> QED  BY <1>3, <3>1, <3>2
  <2>3. s.blockAckSessionIsEnabled  BY <1>1 DEF WindowOK
  <2>4. ASSUME NEW p \in 1 .. taken, p \notin Held(s) PROVE HaveAlreadySeen(c, f + p)
    <3>1. HaveAlreadySeen(b, f + p)  BY <1>1, <2>3, <2>4 DEF WindowOK
    <3>2. f + p \in Int  BY <1>1
    <3> QED  BY <1>2, <3>1, <3>2
  <2> QED  BY <1>2, <2>1, <2>2, <2>3, <2>4 DEF WindowOK, lowest2
<1> QED  BY <1>1, <1>11, <1>12 DEF EndsOK

\* A frame or subframe that is in hand arrives in the session.
LEMMA ReceiveInSessionOK ==
    ASSUME NumbersSuffice, NEW f, NEW taken, NEW d, InvAt(f, taken, d),
           rcv.blockAckSessionIsActive, ~snd.blockAckRequestNeedsToBeSent,
           NEW g \in HeldFrames(snd), ReceiveInSession(g)
    PROVE  /\ up' \in Seq(Packets) /\ DeliveredInOrder'
           /\ EndsOK(rcv', snd, f, taken, offered, d, opener, Delivered')
           /\ Received(rcv, Delivered, opener) \subseteq Received(rcv', Delivered', opener)
           /\ g.id \in Received(rcv', Delivered', opener)
           /\ HaveAlreadySeen(rcv', f + g.id) /\ rcv'.blockAckSessionIsActive
<1>1. /\ f \in Int /\ taken \in Nat /\ taken <= offered /\ offered \in 0 .. MaxPackets
      /\ up \in Seq(Packets) /\ DeliveredInOrder /\ MaxPackets \in Nat
      /\ EndsOK(rcv, snd, f, taken, offered, d, opener, Delivered)
      /\ ReceiverOK(rcv, f, taken, Delivered)
  BY InvParts, Bounds
<1>2. /\ BufferInv(rcv) /\ rcv.currentLowestUnreceived \in Nat
      /\ NumbersOK(snd, f, taken, offered) /\ g.id \in Nat
      /\ rcv.frameBuffer \in SUBSET [seq : Nat, id : Nat]
  BY <1>1, EndsFields
<1>3. PICK n \in Nat : n = f + g.id /\ NonWrapping(rcv, g.seq) = n /\ ShiftAssertion(rcv, n)
  BY <1>1, FrameInReach
<1>4. /\ rcv' = BufferSubframe(rcv, n, g.id)
      /\ SendUp(IF FrameIsInOrder(rcv, n) THEN <<g.id>> ELSE <<>>)
  BY <1>3 DEF ReceiveInSession
<1>5. 1 <= g.id /\ g.id <= taken /\ g.id \in Packets
  <2>1. 1 <= g.id /\ g.id <= taken  BY <1>2 DEF NumbersOK
  <2> QED  BY <1>1, <1>2, <2>1 DEF Packets
<1>6. CASE HaveAlreadySeen(rcv, n)
  <2>1. rcv' = rcv  BY <1>4, <1>6 DEF BufferSubframe, UpdateReceivedFrameBitmap
  <2>2. SendUp(<<>>)  BY <1>4, <1>6 DEF FrameIsInOrder
  <2>3. up' = (up \o <<>>) \o InSequence({})  BY <2>1, <2>2 DEF SendUp
  <2>4. InSequence({}) = <<>>
    <3>1. {} \in SUBSET [seq : Nat, id : Nat] /\ IsFiniteSet({})  BY FS_EmptySet
    <3> QED  BY <3>1, InSequenceLemma
  <2>5. up' = up  BY <1>1, <2>3, <2>4
  <2>6. Delivered' = Delivered /\ (DeliveredInOrder <=> DeliveredInOrder')
    BY <2>5 DEF Delivered, DeliveredInOrder
  <2>7. g.id \in Received(rcv, Delivered, opener)
    BY <1>1, <1>3, <1>6, SeenIsReceived
  <2> QED  BY <1>1, <1>3, <1>6, <2>1, <2>5, <2>6, <2>7
<1>7. CASE ~HaveAlreadySeen(rcv, n)
  <2>1. Advances(rcv, rcv') /\ TakesFrame(rcv, rcv', n, g.id)
    BY <1>2, <1>3, <1>4, <1>7, FrameEffect
  <2> DEFINE first == IF FrameIsInOrder(rcv, n) THEN <<g.id>> ELSE <<>>
             lowest == rcv.currentLowestUnreceived
             leaving == rcv.frameBuffer \ rcv'.frameBuffer
  <2>2. /\ first \in Seq(Packets)
        /\ first = <<>> \/ \E p \in Packets : first = <<p>> /\ lowest <= f + p
        /\ Elements(first) = IF FrameIsInOrder(rcv, n) THEN {g.id} ELSE {}
    <3>1. CASE FrameIsInOrder(rcv, n)
      <4>1. lowest = f + g.id  BY <1>3, <3>1 DEF FrameIsInOrder
      <4>2. lowest <= f + g.id  BY <1>2, <4>1
      <4> QED  BY <1>5, <3>1, <4>2, SequenceOfOne
    <3>2. CASE ~FrameIsInOrder(rcv, n)  BY <3>2 DEF Elements
    <3> QED  BY <3>1, <3>2
  <2>3. \A h \in leaving : \A p \in Elements(first) : p < h.id
    <3> SUFFICES ASSUME NEW h \in leaving, FrameIsInOrder(rcv, n) PROVE g.id < h.id
      BY <2>2
    <3>1. lowest < h.seq  BY <2>1 DEF Advances
    <3>2. lowest = n  BY DEF FrameIsInOrder
    <3>3. h.seq = f + h.id /\ h.id \in Nat  BY <1>1, <1>2 DEF ReceiverOK
    <3> QED  BY <1>1, <1>2, <1>3, <3>1, <3>2, <3>3
  <2>4. SendUp(first) /\ taken <= MaxPackets  BY <1>1, <1>4
  <2> HIDE DEF first, lowest
  <2>5. /\ up' \in Seq(Packets) /\ DeliveredInOrder'
        /\ Delivered' = Delivered \cup Elements(first) \cup Ids(leaving)
    BY <1>1, <1>2, <2>2, <2>3, <2>4, SendUpOK DEF lowest
  <2>6. EndsOK(rcv', snd, f, taken, offered, d, opener, Delivered')
    BY <1>1, <1>3, <1>7, <2>1, <2>2, <2>5, ReceivedEnds
  <2>7. /\ Ids(rcv.frameBuffer) \subseteq Ids(rcv'.frameBuffer) \cup Ids(leaving)
        /\ Received(rcv, Delivered, opener) \subseteq Received(rcv', Delivered', opener)
    <3>1. Ids(rcv.frameBuffer) \subseteq Ids(rcv'.frameBuffer) \cup Ids(leaving)  BY DEF Ids
    <3> QED  BY <2>5, <3>1 DEF Received
  <2>8. g.id \in Received(rcv', Delivered', opener)
    <3>1. CASE FrameIsInOrder(rcv, n)  BY <2>2, <2>5, <3>1 DEF Received
    <3>2. CASE ~FrameIsInOrder(rcv, n)
      <4>1. [seq |-> n, id |-> g.id] \in rcv'.frameBuffer  BY <2>1, <3>2 DEF TakesFrame
      <4>2. g.id \in Ids(rcv'.frameBuffer)  BY <4>1 DEF Ids
      <4> QED  BY <4>2 DEF Received
    <3> QED  BY <3>1, <3>2
  <2> QED  BY <1>3, <2>1, <2>5, <2>6, <2>7, <2>8 DEF Advances, TakesFrame
<1> QED  BY <1>6, <1>7

\* The receiver has moved on, and has no less; the transmitter waits for the same reply.
LEMMA ReceiverMoved ==
    ASSUME NEW f \in Int, NEW taken \in Nat, NEW d \in Int, NEW old,
           offered \in 0 .. MaxPackets, UNCHANGED <<snd, offered, outcome, opener>>,
           up' \in Seq(Packets), DeliveredInOrder',
           EndsOK(rcv', snd, f, taken, offered, d, opener, Delivered'),
           OutcomesOK(outcome, snd, taken, old), old \subseteq Received(rcv', Delivered', opener),
           AirOK(air', rcv', snd, f, d, Received(rcv', Delivered', opener))
    PROVE  Inv'
<1>1. OutcomesOK(outcome, snd, taken, Received(rcv', Delivered', opener))
  BY DEF OutcomesOK
<1>2. InvAt(f, taken, d)'  BY <1>1 DEF InvAt
<1> QED  BY <1>2 DEF Inv

\* An ACK may answer a frame that the receiver has.
LEMMA AcknowledgementOK ==
    ASSUME NEW b, NEW s, NEW f, NEW d, NEW received,
           s.waitingForAck, s.lastSentFrameWasAn = "ShortFrame",
           s.lastTransmitted[1].id \in received,
           b.blockAckSessionIsActive => HaveAlreadySeen(b, f + s.lastTransmitted[1].id)
    PROVE  AirOK([type |-> "ACK"], b, s, f, d, received)
<1>1. [type |-> "ACK"] \in Signals /\ [type |-> "ACK"].type = "ACK"  BY DEF Signals
<1> QED  BY <1>1 DEF AirOK

\* A block ack may answer an aggregate, and a request that the receiver has followed.
LEMMA BlockAcknowledgementOK ==
    ASSUME NEW b, NEW s, NEW f, NEW d, NEW received, BufferInv(b), b.blockAckSessionIsActive,
           s.waitingForAck, s.lastSentFrameWasAn \in {"AggregateFrame", "BlockAckRequestFrame"},
           s.lastSentFrameWasAn = "BlockAckRequestFrame" => f + d + 1 <= b.currentLowestUnreceived
    PROVE  AirOK(BlockAcknowledgement(b), b, s, f, d, received)
<1> DEFINE a == BlockAcknowledgement(b)
           bits == {n - b.bitmapWindowStart : n \in b.blockAckBitmap}
<1>1. /\ b.bitmapWindowStart \in Nat /\ b.blockAckBitmap \in SUBSET Nat /\ W \in Nat
      /\ \A n \in b.blockAckBitmap : n \in b.bitmapWindowStart .. b.bitmapWindowStart + W - 1
  BY BufferFields DEF WindowInv, Window
<1>2. \A n \in b.blockAckBitmap : n - b.bitmapWindowStart \in 0 .. W - 1  BY <1>1
<1>3. b.bitmapWindowStart % SeqMod \in SequenceNumbers  BY <1>1, RealNumber
<1>4. a = [type |-> "BA", start |-> b.bitmapWindowStart % SeqMod, bitmap |-> bits]
  BY DEF BlockAcknowledgement
<1>5. bits \in SUBSET (0 .. W - 1)  BY <1>2
<1> HIDE DEF a, bits
<1>6. /\ a.type = "BA" /\ a.start = b.bitmapWindowStart % SeqMod /\ a.bitmap = bits
      /\ a # Nothing
  BY <1>4 DEF Nothing
<1>7. a \in Signals  BY <1>3, <1>4, <1>5 DEF Signals
<1> QED  BY <1>6, <1>7 DEF AirOK, a, bits

\* A frame that comes before the session: b is the receiver, and c after it.
LEMMA AcceptedEnds ==
    ASSUME NEW b, NEW s, NEW f, NEW taken, NEW queued, NEW d, NEW first, NEW delivered,
           EndsOK(b, s, f, taken, queued, d, first, delivered),
           ~b.blockAckSessionIsActive, ~s.blockAckSessionIsEnabled,
           NEW c, c = [b EXCEPT !.currentLowestUnreceived = f + taken + 1], BufferInv(c),
           1 <= taken
    PROVE  EndsOK(c, s, f, taken, queued, d, first, delivered \cup {taken})
<1>1. /\ SenderOK(s, f, taken, queued, d, first) /\ ReceiverOK(b, f, taken, delivered)
      /\ f \in Int /\ taken \in Nat
      /\ b \in Buffers /\ NumbersOK(s, f, taken, queued) /\ b.currentLowestUnreceived \in Nat
  BY EndsFields DEF EndsOK
<1>2. /\ c.currentLowestUnreceived = f + taken + 1
      /\ c.blockAckSessionIsActive = b.blockAckSessionIsActive
      /\ c.bitmapWindowStart = b.bitmapWindowStart
      /\ c.blockAckBitmap = b.blockAckBitmap /\ c.frameBuffer = b.frameBuffer
  BY <1>1 DEF Buffers
<1>3. b.blockAckBitmap = {} /\ b.frameBuffer = {}  BY <1>1 DEF ReceiverOK, BufferInv
<1>4. \A p \in delivered \cup {taken} :
         p \in Nat /\ 1 <= p /\ p <= taken /\ f + p < f + taken + 1
  <2> SUFFICES ASSUME NEW p \in delivered
               PROVE  p \in Nat /\ 1 <= p /\ p <= taken /\ f + p < f + taken + 1
    BY <1>1
  <2>1. p \in Nat /\ 1 <= p /\ p <= taken  BY <1>1 DEF ReceiverOK
  <2> QED  BY <1>1, <2>1
<1>5. ReceiverOK(c, f, taken, delivered \cup {taken})
  <2>1. f < c.currentLowestUnreceived /\ c.currentLowestUnreceived <= f + taken + 1
    BY <1>1, <1>2
  <2>2. ~c.blockAckSessionIsActive /\ \A p \in Packets : (f + p + 1) % SeqMod # 0
    BY <1>1, <1>2 DEF ReceiverOK
  <2> QED  BY <1>2, <1>3, <1>4, <2>1, <2>2 DEF ReceiverOK
<1>6. WindowOK(c, s, f, taken, d, first, delivered \cup {taken})
  <2>1. \A g \in HeldFrames(s) : g.id = taken  BY <1>1 DEF NumbersOK
  <2> QED  BY <1>2, <2>1 DEF WindowOK
<1> QED  BY <1>1, <1>5, <1>6 DEF EndsOK

\* The frame in hand arrives before the session.
LEMMA ReceiveWithoutSessionOK ==
    ASSUME NumbersSuffice, NEW f, NEW taken, NEW d, InvAt(f, taken, d),
           ~rcv.blockAckSessionIsActive, ~snd.blockAckRequestNeedsToBeSent,
           NEW g \in HeldFrames(snd), ReceiveWithoutSession(g)
    PROVE  /\ up' \in Seq(Packets) /\ DeliveredInOrder'
           /\ EndsOK(rcv', snd, f, taken, offered, d, opener, Delivered')
           /\ Received(rcv, Delivered, opener) \subseteq Received(rcv', Delivered', opener)
           /\ g.id \in Received(rcv', Delivered', opener) /\ ~rcv'.blockAckSessionIsActive
<1> DEFINE lowest == rcv.currentLowestUnreceived
           diff == SequenceNumberDifference(rcv, g.seq)
<1>1. /\ f \in Int /\ taken \in Nat /\ taken <= offered /\ offered \in 0 .. MaxPackets
      /\ up \in Seq(Packets) /\ DeliveredInOrder
      /\ MaxPackets \in Nat /\ 2 * MaxPackets < SeqMod /\ SeqMod \in Nat /\ SeqMod > 2
      /\ EndsOK(rcv, snd, f, taken, offered, d, opener, Delivered)
      /\ ReceiverOK(rcv, f, taken, Delivered)
      /\ WindowOK(rcv, snd, f, taken, d, opener, Delivered)
  <2>1. SeqMod > 2  BY Bounds
  <2> QED  BY <2>1, InvParts, Bounds
<1>2. /\ BufferInv(rcv) /\ rcv \in Buffers /\ lowest \in Nat
      /\ NumbersOK(snd, f, taken, offered) /\ g.id \in Nat /\ g.seq \in SequenceNumbers
  BY <1>1, EndsFields
<1>3. rcv.blockAckBitmap = {} /\ rcv.frameBuffer = {}  BY <1>2 DEF BufferInv
<1>4. ~snd.blockAckSessionIsEnabled  BY <1>1 DEF WindowOK
<1>5. g.id = taken /\ 1 <= taken /\ g.seq = (f + taken) % SeqMod
  BY <1>2, <1>4 DEF NumbersOK
<1>6. f < lowest /\ lowest <= f + taken + 1  BY <1>1 DEF ReceiverOK
<1> HIDE DEF lowest
<1>7. diff = (f + taken) - lowest
  <2>1. PICK n \in Int : n = f + taken  BY <1>1
  <2>2. 2 * (n - lowest) < SeqMod /\ 2 * (lowest - n) < SeqMod
    BY <1>1, <1>2, <1>6, <2>1
  <2>3. CalcTwelveBitSequenceNumberDifference(n % SeqMod, lowest % SeqMod) = n - lowest
    BY <1>2, <2>1, <2>2, DifferenceOfNumbers
  <2> QED  BY <1>5, <2>1, <2>3 DEF SequenceNumberDifference, lowest
<1>8. rcv' = AcceptWithoutSession(rcv, g.seq) /\ SendUp(IF diff < 0 THEN <<>> ELSE <<g.id>>)
  BY DEF ReceiveWithoutSession
<1>9. BufferInv(rcv')  BY <1>2, <1>8, AcceptWithoutSessionInv
<1>10. rcv' = IF diff < 0 THEN rcv
              ELSE [rcv EXCEPT !.currentLowestUnreceived = lowest + 1 + diff]
  BY <1>8 DEF AcceptWithoutSession, lowest
<1> HIDE DEF diff
<1>11. taken \in Packets  BY <1>1, <1>5 DEF Packets
<1>12. rcv'.frameBuffer = rcv.frameBuffer
       /\ rcv'.blockAckSessionIsActive = rcv.blockAckSessionIsActive
  BY <1>2, <1>10 DEF Buffers
<1>13. up \o <<>> \o <<>> = up /\ InSequence({}) = <<>>
  <2>1. {} \in SUBSET [seq : Nat, id : Nat] /\ IsFiniteSet({})  BY FS_EmptySet
  <2> QED  BY <1>1, <2>1, InSequenceLemma
<1>14. CASE diff < 0
  <2>1. rcv' = rcv /\ SendUp(<<>>)  BY <1>8, <1>10, <1>14
  <2>2. up' = (up \o <<>>) \o InSequence({})  BY <2>1 DEF SendUp
  <2>3. up' = up  BY <1>1, <1>13, <2>2
  <2>4. Delivered' = Delivered /\ (DeliveredInOrder <=> DeliveredInOrder')
    BY <2>3 DEF Delivered, DeliveredInOrder
  <2>5. g.id \in Received(rcv, Delivered, opener)
    <3>1. f + g.id < lowest  BY <1>1, <1>2, <1>5, <1>7, <1>14
    <3> QED  BY <1>1, <3>1 DEF WindowOK, Received, lowest
  <2> QED  BY <1>1, <2>1, <2>3, <2>4, <2>5
<1>15. CASE ~(diff < 0)
  <2> DEFINE first == <<taken>>
  <2>1. first \in Seq(Packets) /\ Elements(first) = {taken}  BY <1>11, SequenceOfOne
  <2>2. SendUp(first)  BY <1>5, <1>8, <1>15
  <2>3. rcv' = [rcv EXCEPT !.currentLowestUnreceived = f + taken + 1]
    <3>1. lowest + 1 + diff = f + taken + 1  BY <1>1, <1>2, <1>7
    <3> QED  BY <1>10, <1>15, <3>1
  <2>4. lowest <= f + taken /\ taken <= MaxPackets  BY <1>1, <1>2, <1>7, <1>15
  <2>5. first = <<>> \/ \E p \in Packets : first = <<p>> /\ lowest <= f + p
    BY <1>11, <2>4
  <2> HIDE DEF first
  <2>6. rcv.frameBuffer \ rcv'.frameBuffer = {} /\ Ids({}) = {}  BY <1>3 DEF Ids
  <2>7. /\ up' \in Seq(Packets) /\ DeliveredInOrder'
        /\ Delivered' = Delivered \cup Elements(first) \cup Ids(rcv.frameBuffer \ rcv'.frameBuffer)
    BY <1>1, <1>2, <2>1, <2>2, <2>4, <2>5, <2>6, SendUpOK DEF lowest
  <2>8. Delivered' = Delivered \cup {taken}  BY <2>1, <2>6, <2>7
  <2>9. EndsOK(rcv', snd, f, taken, offered, d, opener, Delivered')
    BY <1>1, <1>4, <1>5, <1>9, <2>3, <2>8, AcceptedEnds
  <2> QED  BY <1>5, <1>12, <2>7, <2>8, <2>9 DEF Received
<1> QED  BY <1>14, <1>15

\* A single frame that arrives keeps the invariant, in a session or without one.
LEMMA ReceiveFrameInv == NumbersSuffice /\ Inv /\ ReceiveFrame => Inv'
<1> SUFFICES ASSUME NumbersSuffice, Inv, ReceiveFrame PROVE Inv'  OBVIOUS
<1>1. PICK f \in Int, taken \in Nat, d \in Int : InvAt(f, taken, d)  BY DEF Inv
<1> DEFINE g == air.frame
           old == Received(rcv, Delivered, opener)
<1>2. /\ EndsOK(rcv, snd, f, taken, offered, d, opener, Delivered)
      /\ AirOK(air, rcv, snd, f, d, old)
      /\ OutcomesOK(outcome, snd, taken, old)
      /\ offered \in 0 .. MaxPackets
  BY <1>1, InvParts
<1>3. snd \in Senders /\ PlacesOK(snd) /\ RequestOK(snd)  BY <1>2, EndsFields
<1>4. air.type = "DATA"  BY DEF ReceiveFrame
<1>5. /\ snd.waitingForAck /\ snd.lastSentFrameWasAn = "ShortFrame"
      /\ g = snd.lastTransmitted[1]
  BY <1>2, <1>4 DEF AirOK, Nothing
<1>6. g \in HeldFrames(snd) /\ ~snd.blockAckRequestNeedsToBeSent
  BY <1>3, <1>5, SignalFrames
<1>7. /\ air' = [type |-> "ACK"] /\ UNCHANGED <<snd, offered, outcome, opener>>
      /\ rcv.blockAckSessionIsActive => ReceiveInSession(g)
      /\ ~rcv.blockAckSessionIsActive => ReceiveWithoutSession(g)
  BY DEF ReceiveFrame
<1> HIDE DEF g, old
<1>8. /\ up' \in Seq(Packets) /\ DeliveredInOrder'
      /\ EndsOK(rcv', snd, f, taken, offered, d, opener, Delivered')
      /\ old \subseteq Received(rcv', Delivered', opener)
      /\ g.id \in Received(rcv', Delivered', opener)
      /\ rcv'.blockAckSessionIsActive => HaveAlreadySeen(rcv', f + g.id)
  <2>1. CASE rcv.blockAckSessionIsActive
    BY <1>1, <1>6, <1>7, <2>1, ReceiveInSessionOK DEF old
  <2>2. CASE ~rcv.blockAckSessionIsActive
    BY <1>1, <1>6, <1>7, <2>2, ReceiveWithoutSessionOK DEF old
  <2> QED  BY <2>1, <2>2
<1>9. AirOK(air', rcv', snd, f, d, Received(rcv', Delivered', opener))
  BY <1>5, <1>7, <1>8, AcknowledgementOK
<1> QED  BY <1>1, <1>2, <1>7, <1>8, <1>9, ReceiverMoved

\* After a subframe comes the next one, or the block acknowledgement.
LEMMA NextSubframeOK ==
    ASSUME NEW f, NEW d, NEW received, NEW received2, AirOK(air, rcv, snd, f, d, received),
           air.type = "AGGREGATE", NEW good \in BOOLEAN, NextSubframe(good),
           good => BufferInv(rcv') /\ rcv'.blockAckSessionIsActive
    PROVE  AirOK(air', rcv', snd, f, d, received2)
<1>1. /\ air \in Signals /\ snd.waitingForAck /\ snd.lastSentFrameWasAn = "AggregateFrame"
      /\ air.frames # <<>> /\ Elements(air.frames) \subseteq Elements(snd.lastTransmitted)
  BY DEF AirOK, Nothing
<1>2. air \in [type : {"AGGREGATE"}, frames : Seq(Frames), good : BOOLEAN]
  BY <1>1 DEF Signals, Nothing
<1>3. CASE Len(air.frames) > 1
  <2> DEFINE rest == Tail(air.frames)
  <2>1. air.frames \in Seq(Frames)  BY <1>2
  <2>2. /\ rest \in Seq(Frames) /\ Len(rest) = Len(air.frames) - 1 /\ Len(air.frames) \in Nat
        /\ \A i \in 1 .. Len(rest) : rest[i] = air.frames[i + 1]
    BY <1>1, <2>1, HeadTailProperties
  <2>3. air' = [air EXCEPT !.frames = rest, !.good = good]  BY <1>3 DEF NextSubframe
  <2> HIDE DEF rest
  <2>4. rest # <<>>
    <3>1. Len(rest) # 0  BY <1>3, <2>2
    <3> QED  BY <3>1
  <2>5. Elements(rest) \subseteq Elements(air.frames)
    <3> SUFFICES ASSUME NEW i \in DOMAIN rest PROVE rest[i] \in Elements(air.frames)
      BY DEF Elements
    <3>1. i \in 1 .. Len(rest) /\ i + 1 \in DOMAIN air.frames  BY <2>1, <2>2
    <3> QED  BY <2>2, <3>1 DEF Elements
  <2>6. /\ air' \in [type : {"AGGREGATE"}, frames : Seq(Frames), good : BOOLEAN]
        /\ air'.type = "AGGREGATE" /\ air'.frames = rest
    BY <1>2, <2>2, <2>3
  <2>7. air' \in Signals  BY <2>6 DEF Signals
  <2> QED  BY <1>1, <2>4, <2>5, <2>6, <2>7 DEF AirOK
<1>4. CASE ~(Len(air.frames) > 1) /\ good
  <2>1. air' = BlockAcknowledgement(rcv')  BY <1>4 DEF NextSubframe
  <2> QED  BY <1>1, <1>4, <2>1, BlockAcknowledgementOK
<1>5. CASE ~(Len(air.frames) > 1) /\ ~good
  <2>1. air' = Nothing  BY <1>5 DEF NextSubframe
  <2> QED  BY <2>1, QuietAir
<1> QED  BY <1>3, <1>4, <1>5

\* An aggregate on the air finds both ends in a session, its frames still held.
LEMMA AggregateOnAir ==
    ASSUME NumbersSuffice, NEW f, NEW taken, NEW d, InvAt(f, taken, d), air.type = "AGGREGATE"
    PROVE  /\ Head(air.frames) \in HeldFrames(snd) /\ ~snd.blockAckRequestNeedsToBeSent
           /\ rcv.blockAckSessionIsActive /\ air.good \in BOOLEAN
<1>1. /\ AirOK(air, rcv, snd, f, d, Received(rcv, Delivered, opener))
      /\ WindowOK(rcv, snd, f, taken, d, opener, Delivered)
      /\ EndsOK(rcv, snd, f, taken, offered, d, opener, Delivered)
  BY InvParts
<1>2. snd \in Senders /\ PlacesOK(snd) /\ RequestOK(snd)  BY <1>1, EndsFields
<1>3. /\ air \in Signals /\ snd.waitingForAck /\ snd.lastSentFrameWasAn = "AggregateFrame"
      /\ air.frames # <<>> /\ Elements(air.frames) \subseteq Elements(snd.lastTransmitted)
  BY <1>1 DEF AirOK, Nothing
<1>4. air.frames \in Seq(Frames) /\ air.good \in BOOLEAN  BY <1>3, SignalTypes
<1>5. Head(air.frames) \in Elements(air.frames)  BY <1>3, <1>4, HeadIsElement
<1>6. /\ HeldFrames(snd) = Elements(snd.lastTransmitted)
      /\ snd.blockAckSessionIsEnabled /\ ~snd.blockAckRequestNeedsToBeSent
  BY <1>2, <1>3, SignalFrames
<1>7. rcv.blockAckSessionIsActive  BY <1>1, <1>6 DEF WindowOK
<1> QED  BY <1>3, <1>4, <1>5, <1>6, <1>7

\* A good subframe keeps the invariant.
LEMMA ReceiveSubframeInv == NumbersSuffice /\ Inv /\ ReceiveSubframe => Inv'
<1> SUFFICES ASSUME NumbersSuffice, Inv, ReceiveSubframe PROVE Inv'  OBVIOUS
<1>1. PICK f \in Int, taken \in Nat, d \in Int : InvAt(f, taken, d)  BY DEF Inv
<1> DEFINE g == Head(air.frames)
           old == Received(rcv, Delivered, opener)
<1>2. /\ AirOK(air, rcv, snd, f, d, old) /\ OutcomesOK(outcome, snd, taken, old)
      /\ offered \in 0 .. MaxPackets
  BY <1>1, InvParts
<1>3. /\ air.type = "AGGREGATE" /\ ReceiveInSession(g) /\ NextSubframe(TRUE)
      /\ UNCHANGED <<snd, offered, outcome, opener>>
  BY DEF ReceiveSubframe
<1>4. /\ g \in HeldFrames(snd) /\ ~snd.blockAckRequestNeedsToBeSent
      /\ rcv.blockAckSessionIsActive
  BY <1>1, <1>3, AggregateOnAir
<1> HIDE DEF g, old
<1>5. /\ up' \in Seq(Packets) /\ DeliveredInOrder'
      /\ EndsOK(rcv', snd, f, taken, offered, d, opener, Delivered')
      /\ old \subseteq Received(rcv', Delivered', opener)
      /\ rcv'.blockAckSessionIsActive
  BY <1>1, <1>3, <1>4, ReceiveInSessionOK DEF old
<1>6. BufferInv(rcv')  BY <1>5 DEF EndsOK, ReceiverOK
<1>7. AirOK(air', rcv', snd, f, d, Received(rcv', Delivered', opener))
  BY <1>2, <1>3, <1>5, <1>6, NextSubframeOK
<1> QED  BY <1>1, <1>2, <1>3, <1>5, <1>7, ReceiverMoved

\* A corrupted subframe keeps the invariant.
LEMMA CorruptedSubframeInv == NumbersSuffice /\ Inv /\ CorruptedSubframe => Inv'
<1> SUFFICES ASSUME NumbersSuffice, Inv, CorruptedSubframe PROVE Inv'  OBVIOUS
<1>1. PICK f \in Int, taken \in Nat, d \in Int : InvAt(f, taken, d)  BY DEF Inv
<1> DEFINE old == Received(rcv, Delivered, opener)
<1>2. /\ AirOK(air, rcv, snd, f, d, old) /\ OutcomesOK(outcome, snd, taken, old)
      /\ offered \in 0 .. MaxPackets /\ up \in Seq(Packets) /\ DeliveredInOrder
      /\ EndsOK(rcv, snd, f, taken, offered, d, opener, Delivered)
  BY <1>1, InvParts
<1>3. /\ air.type = "AGGREGATE" /\ NextSubframe(air.good)
      /\ UNCHANGED <<rcv, snd, up, offered, outcome, opener>>
  BY DEF CorruptedSubframe
<1>4. rcv.blockAckSessionIsActive /\ air.good \in BOOLEAN  BY <1>1, <1>3, AggregateOnAir
<1>5. BufferInv(rcv)  BY <1>2 DEF EndsOK, ReceiverOK
<1>6. AirOK(air', rcv', snd, f, d, old)  BY <1>2, <1>3, <1>4, <1>5, NextSubframeOK
<1>7. Delivered' = Delivered /\ (DeliveredInOrder <=> DeliveredInOrder')
  BY <1>3 DEF Delivered, DeliveredInOrder
<1>8. Received(rcv', Delivered', opener) = old  BY <1>3, <1>7
<1> HIDE DEF old
<1> QED  BY <1>1, <1>2, <1>3, <1>6, <1>7, <1>8, ReceiverMoved

\* The loss of a signal keeps the invariant.
LEMMA LoseSignalInv == Inv /\ LoseSignal => Inv'
<1> SUFFICES ASSUME Inv, LoseSignal PROVE Inv'  OBVIOUS
<1>1. PICK f \in Int, taken \in Nat, d \in Int : InvAt(f, taken, d)  BY DEF Inv
<1>2. air' = Nothing /\ UNCHANGED <<rcv, snd, up, offered, outcome, opener>>
  BY DEF LoseSignal
<1>3. Delivered' = Delivered /\ (DeliveredInOrder <=> DeliveredInOrder')
  BY <1>2 DEF Delivered, DeliveredInOrder
<1>4. InvAt(f, taken, d)'  BY <1>1, <1>2, <1>3, InvParts, QuietAir DEF InvAt
<1> QED  BY <1>4 DEF Inv

\* A block ack request arrives in the session: c is the receiver b after it.
Requested(b, s, f, taken, queued, d, first, delivered, c, delivered2) ==
    /\ EndsOK(b, s, f, taken, queued, d, first, delivered) /\ queued <= MaxPackets
    /\ b.blockAckSessionIsActive /\ s.blockAckRequestNeedsToBeSent
    /\ c = ProcessBlockAckRequestFrame(b, (f + d + 1) % SeqMod)
    /\ delivered2 = delivered \cup Ids(b.frameBuffer \ c.frameBuffer)

\* A request that moves the window leaves the two ends consistent.
LEMMA RequestedEnds ==
    ASSUME NumbersSuffice,
           NEW b, NEW s, NEW f, NEW taken, NEW queued, NEW d, NEW first, NEW delivered,
           NEW c, NEW delivered2,
           Requested(b, s, f, taken, queued, d, first, delivered, c, delivered2)
    PROVE  /\ EndsOK(c, s, f, taken, queued, d, first, delivered2)
           /\ c.frameBuffer \subseteq b.frameBuffer
           /\ c.blockAckSessionIsActive /\ f + d + 1 <= c.currentLowestUnreceived
<1> DEFINE lowest == b.currentLowestUnreceived
           lowest2 == c.currentLowestUnreceived
           leaving == b.frameBuffer \ c.frameBuffer
<1>0. /\ EndsOK(b, s, f, taken, queued, d, first, delivered) /\ queued <= MaxPackets
      /\ b.blockAckSessionIsActive /\ s.blockAckRequestNeedsToBeSent
      /\ c = ProcessBlockAckRequestFrame(b, (f + d + 1) % SeqMod)
      /\ delivered2 = delivered \cup Ids(leaving)
  BY DEF Requested
<1>1. /\ SenderOK(s, f, taken, queued, d, first) /\ ReceiverOK(b, f, taken, delivered)
      /\ WindowOK(b, s, f, taken, d, first, delivered)
      /\ f \in Int /\ taken \in Nat /\ d \in Int /\ d <= taken /\ lowest \in Nat
      /\ first \in Nat /\ b.bitmapWindowStart \in Nat
      /\ b.blockAckBitmap \in SUBSET Nat /\ b.frameBuffer \in SUBSET [seq : Nat, id : Nat]
      /\ BufferInv(b) /\ DropOK(s, f, taken, d, first)
      /\ \A h \in HeldFrames(s) : h.id \in Nat
  BY <1>0, EndsFields DEF EndsOK
<1>2. PICK n \in Nat : /\ n = f + d + 1 /\ NonWrapping(b, (f + d + 1) % SeqMod) = n
                       /\ b.bitmapWindowStart <= n
  BY <1>0, RequestInReach
<1>3. n % SeqMod \in SequenceNumbers  BY RealNumber
<1>4. /\ Advances(b, c)
      /\ c.bitmapWindowStart = n
      /\ c.blockAckBitmap \subseteq b.blockAckBitmap
      /\ c.frameBuffer \subseteq b.frameBuffer
      /\ \A m \in lowest .. lowest2 - 1 : m < n \/ \E g \in leaving : g.seq = m
      /\ lowest2 \in {lowest, n} \/ lowest2 - 1 \in b.blockAckBitmap
  BY <1>0, <1>1, <1>2, <1>3, RequestEffect
<1>5. /\ BufferInv(c) /\ c.blockAckSessionIsActive /\ lowest <= lowest2
      /\ b.bitmapWindowStart <= c.bitmapWindowStart
      /\ \A h \in leaving : lowest < h.seq /\ h.seq < lowest2
      /\ \A m \in Int : HaveAlreadySeen(b, m) => HaveAlreadySeen(c, m)
  BY <1>4 DEF Advances
<1>6. /\ lowest2 \in Nat /\ c.blockAckBitmap \in SUBSET Nat
      /\ W \in Nat /\ W > 0 /\ WindowInv(c)
  BY <1>5, BufferFields
<1>7. n <= lowest2 /\ \A m \in c.blockAckBitmap : n <= m
  BY <1>2, <1>4, <1>6 DEF WindowInv, Window, lowest2
<1>8. /\ f < lowest /\ lowest <= f + taken + 1
      /\ \A m \in b.blockAckBitmap : f <= m /\ m <= f + taken
      /\ \A h \in b.frameBuffer : h.seq = f + h.id
      /\ \A p \in delivered : p \in Nat /\ 1 <= p /\ p <= taken /\ f + p < lowest
      /\ 1 <= b.bitmapWindowStart /\ f <= b.bitmapWindowStart
      /\ \A m \in b.blockAckBitmap : f < m /\ m < lowest => m - f \in delivered
  BY <1>0, <1>1 DEF ReceiverOK
<1>9. \A h \in b.frameBuffer : h.id \in Nat /\ h.seq \in Nat /\ h.seq \in b.blockAckBitmap
  BY <1>1 DEF BufferInv, FramesInv
<1>10. delivered2 = delivered \cup Ids(leaving)  BY <1>0
<1>11. \A g \in leaving : g.seq - f = g.id /\ g.id \in delivered2
  <2>1. \A g \in leaving : g.id \in delivered2  BY <1>10 DEF Ids
  <2>2. ASSUME NEW g \in leaving PROVE g.seq - f = g.id
    <3>1. g.seq = f + g.id /\ g.id \in Nat  BY <1>8, <1>9
    <3> QED  BY <1>1, <3>1
  <2> QED  BY <2>1, <2>2
<1>12. s.blockAckSessionIsEnabled  BY <1>0, <1>1 DEF WindowOK
<1> HIDE DEF lowest, lowest2, leaving
<1>13. ReceiverOK(c, f, taken, delivered2)
  <2>1. f < lowest2  BY <1>1, <1>5, <1>6, <1>8
  <2>2. lowest2 <= f + taken + 1
    <3>1. CASE lowest2 = lowest  BY <1>8, <3>1
    <3>2. CASE lowest2 = n  BY <1>1, <1>2, <3>2
    <3>3. CASE lowest2 - 1 \in b.blockAckBitmap  BY <1>1, <1>6, <1>8, <3>3
    <3> QED  BY <1>4, <3>1, <3>2, <3>3
  <2>3. \A p \in delivered2 : p \in Nat /\ 1 <= p /\ p <= taken /\ f + p < lowest2
    <3> SUFFICES ASSUME NEW p \in delivered2
                 PROVE  p \in Nat /\ 1 <= p /\ p <= taken /\ f + p < lowest2
      OBVIOUS
    <3>1. CASE p \in delivered  BY <1>1, <1>5, <1>6, <1>8, <3>1
    <3>2. CASE p \in Ids(leaving)
      <4>1. PICK h \in leaving : h.id = p  BY <3>2 DEF Ids
      <4>2. /\ h.seq = f + h.id /\ lowest < h.seq /\ h.seq < lowest2 /\ h.seq <= f + taken
            /\ h.id \in Nat
        BY <1>5, <1>8, <1>9, <4>1 DEF leaving
      <4> QED  BY <1>1, <1>8, <4>1, <4>2
    <3> QED  BY <1>10, <3>1, <3>2
  <2>4. 1 <= c.bitmapWindowStart /\ f <= c.bitmapWindowStart
    BY <1>1, <1>2, <1>4, <1>8
  <2>5. ASSUME NEW m \in c.blockAckBitmap, f < m, m < lowest2 PROVE m - f \in delivered2
    <3>1. m \in b.blockAckBitmap /\ m \in Nat /\ n <= m  BY <1>4, <1>6, <1>7
    <3>2. CASE m < lowest  BY <1>8, <1>10, <2>5, <3>1, <3>2
    <3>3. CASE ~(m < lowest)
      <4>1. m \in lowest .. lowest2 - 1  BY <1>1, <1>6, <2>5, <3>1, <3>3
      <4>2. PICK g \in leaving : g.seq = m  BY <1>2, <1>4, <3>1, <4>1
      <4> QED  BY <1>11, <4>2
    <3> QED  BY <3>2, <3>3
  <2> QED
    BY <1>4, <1>5, <1>8, <2>1, <2>2, <2>3, <2>4, <2>5 DEF ReceiverOK, lowest2
<1>14. \A h \in HeldFrames(s) : h.id > d \/ (h.id = first /\ h.id = d)
  BY <1>0, <1>1 DEF DropOK
<1>15. WindowOK(c, s, f, taken, d, first, delivered2)
  <2>1. ASSUME NEW h \in HeldFrames(s), f + h.id < lowest2
        PROVE  h.id \in delivered2 \/ h.id = first
    <3>1. CASE f + h.id < lowest  BY <1>1, <1>10, <3>1 DEF WindowOK, lowest
    <3>2. CASE ~(f + h.id < lowest)
      <4>1. f + h.id \in lowest .. lowest2 - 1 /\ (f + h.id) - f = h.id
        BY <1>1, <1>6, <2>1, <3>2
      <4>2. CASE f + h.id < n
        <5>1. ~(h.id > d)  BY <1>1, <1>2, <4>2
        <5> QED  BY <1>14, <5>1
      <4>3. CASE \E g \in leaving : g.seq = f + h.id  BY <1>11, <4>1, <4>3
      <4> QED  BY <1>4, <4>1, <4>2, <4>3
    <3> QED  BY <3>1, <3>2
  <2>2. ASSUME NEW h \in HeldFrames(s)
        PROVE  n <= f + h.id \/ (h.id = first /\ n = f + h.id + 1)
    <3>1. CASE h.id > d  BY <1>1, <1>2, <3>1
    <3>2. CASE h.id = first /\ h.id = d  BY <1>2, <3>2
    <3> QED  BY <1>14, <3>1, <3>2
  <2>3. ASSUME NEW p \in 1 .. taken, p \notin Held(s), p > d PROVE HaveAlreadySeen(c, f + p)
    <3>1. HaveAlreadySeen(b, f + p)  BY <1>0, <1>1, <1>12, <2>3 DEF WindowOK
    <3>2. f + p \in Int  BY <1>1
    <3> QED  BY <1>5, <3>1, <3>2
  <2>4. n <= f + d + 1  BY <1>2
  <2> QED  BY <1>0, <1>4, <1>5, <1>12, <2>1, <2>2, <2>3, <2>4 DEF WindowOK, lowest2
<1> QED  BY <1>1, <1>2, <1>4, <1>5, <1>7, <1>13, <1>15 DEF EndsOK, lowest2

\* The numbers of the transmitter for another number of frames before the first packet.
LEMMA RebasedSender ==
    ASSUME NEW s, NEW f, NEW taken, NEW queued, NEW d, NEW first,
           SenderOK(s, f, taken, queued, d, first),
           NEW f2 \in Int, \A k \in Int : (f + k) % SeqMod = (f2 + k) % SeqMod
    PROVE  SenderOK(s, f2, taken, queued, d, first)
<1>1. /\ NumbersOK(s, f, taken, queued) /\ DropOK(s, f, taken, d, first)
      /\ taken \in Nat /\ d \in Int /\ s \in Senders
  BY DEF SenderOK, NumbersOK, DropOK
<1>2. \A g \in HeldFrames(s) : g.id \in Nat
  <2>1. /\ s.currentPacket \in Frames \cup {NoFrame}
        /\ s.currentAggregateFrame \in Seq(Frames) /\ s.lastTransmitted \in Seq(Frames)
    BY <1>1, SenderTypes
  <2>2. /\ Elements(s.currentAggregateFrame) \subseteq Frames
        /\ Elements(s.lastTransmitted) \subseteq Frames
    BY <2>1, ElementsOf
  <2> QED  BY <2>1, <2>2, FrameTypes DEF HeldFrames, Single, Aggregated
<1>3. NumbersOK(s, f2, taken, queued)
  <2>1. (f + taken) % SeqMod = (f2 + taken) % SeqMod  BY <1>1
  <2>2. \A g \in HeldFrames(s) : (f + g.id) % SeqMod = (f2 + g.id) % SeqMod  BY <1>2
  <2> QED  BY <1>1, <2>1, <2>2 DEF NumbersOK
<1>4. DropOK(s, f2, taken, d, first)  BY <1>1 DEF DropOK
<1> QED  BY <1>3, <1>4 DEF SenderOK

\* The block ack request that opens the session.  The receiver counts from its number, so
\* the frames before the first packet are others than before.
LEMMA OpenedEnds ==
    ASSUME NumbersSuffice,
           NEW b, NEW s, NEW f, NEW taken, NEW queued, NEW d, NEW first, NEW delivered,
           EndsOK(b, s, f, taken, queued, d, first, delivered), queued <= MaxPackets,
           ~b.blockAckSessionIsActive, s.blockAckRequestNeedsToBeSent,
           NEW seq, seq = (f + d + 1) % SeqMod,
           NEW c, c = ProcessBlockAckRequestFrame(b, seq)
    PROVE  \E f2 \in Int :
              /\ EndsOK(c, s, f2, taken, queued, d, first, delivered)
              /\ c.frameBuffer = {} /\ b.frameBuffer = {}
              /\ c.blockAckSessionIsActive /\ f2 + d + 1 <= c.currentLowestUnreceived
<1>1. /\ SenderOK(s, f, taken, queued, d, first) /\ ReceiverOK(b, f, taken, delivered)
      /\ WindowOK(b, s, f, taken, d, first, delivered)
      /\ f \in Int /\ taken \in Nat /\ queued \in Nat /\ taken <= queued
      /\ d \in Int /\ d <= taken /\ first \in Nat
      /\ b.currentLowestUnreceived \in Nat /\ b \in Buffers
      /\ BufferInv(b) /\ DropOK(s, f, taken, d, first) /\ RequestOK(s)
      /\ \A h \in HeldFrames(s) : h.id \in Nat
  BY EndsFields DEF EndsOK
<1>2. /\ SeqMod \in Nat /\ SeqMod > 2 /\ MaxPackets \in Nat  BY Bounds
<1>3. s.blockAckSessionIsEnabled  BY <1>1 DEF RequestOK
<1>4. 1 <= d /\ b.currentLowestUnreceived <= f + d + 1  BY <1>1, <1>3 DEF WindowOK
<1>5. seq # 0
  <2>1. d \in Packets  BY <1>1, <1>2, <1>4 DEF Packets
  <2> QED  BY <1>1, <2>1 DEF ReceiverOK
<1>6. seq \in SequenceNumbers
  <2>1. f + d + 1 \in Int  BY <1>1
  <2> QED  BY <2>1, Remainder DEF SequenceNumbers
<1>7. seq \in Nat /\ seq >= 1  BY <1>2, <1>5, <1>6 DEF SequenceNumbers
<1>8. PICK f2 \in Int : f2 = seq - (d + 1)  BY <1>1, <1>7
<1>9. f2 + d + 1 = seq  BY <1>1, <1>7, <1>8
<1>10. ASSUME NEW k \in Int PROVE (f + k) % SeqMod = (f2 + k) % SeqMod
  <2>1. PICK n \in Int : n = f + d + 1  BY <1>1
  <2>2. PICK j \in Int : j = k - (d + 1)  BY <1>1
  <2>3. PICK r \in Int : r = seq  BY <1>7
  <2>4. n % SeqMod = r % SeqMod
    <3>1. r % SeqMod = r  BY <1>2, <1>6, <2>3 DEF SequenceNumbers
    <3> QED  BY <2>1, <2>3, <3>1
  <2>5. n + j = f + k /\ r + j = f2 + k  BY <1>1, <1>8, <2>1, <2>2, <2>3
  <2>6. (n + j) % SeqMod = (r + j) % SeqMod  BY <2>4, SameRemainder
  <2> QED  BY <2>5, <2>6
<1>11. SenderOK(s, f2, taken, queued, d, first)  BY <1>1, <1>10, RebasedSender
<1>12. b.blockAckBitmap = {} /\ b.frameBuffer = {}  BY <1>1 DEF BufferInv
<1>13. c = OpenSession(b, seq)  BY DEF ProcessBlockAckRequestFrame
<1>14. /\ c.blockAckSessionIsActive /\ c.bitmapWindowStart = seq
       /\ c.currentLowestUnreceived = seq
       /\ c.blockAckBitmap = {} /\ c.frameBuffer = {}
  BY <1>1, <1>12, <1>13 DEF OpenSession, Buffers
<1>15. BufferInv(c)  BY <1>1, <1>6, <1>13, OpenSessionInv
<1>16. ReceiverOK(c, f2, taken, delivered)
  <2>1. f2 < seq /\ seq <= f2 + taken + 1 /\ 1 <= seq /\ f2 <= seq
    BY <1>1, <1>4, <1>7, <1>8
  <2>2. \A p \in delivered : p \in Nat /\ 1 <= p /\ p <= taken /\ f2 + p < seq
    <3> SUFFICES ASSUME NEW p \in delivered
                 PROVE  p \in Nat /\ 1 <= p /\ p <= taken /\ f2 + p < seq
      OBVIOUS
    <3>1. p \in Nat /\ 1 <= p /\ p <= taken /\ f + p < b.currentLowestUnreceived
      BY <1>1 DEF ReceiverOK
    <3> QED  BY <1>1, <1>4, <1>7, <1>8, <3>1
  <2> QED  BY <1>14, <1>15, <2>1, <2>2 DEF ReceiverOK
<1>17. \A h \in HeldFrames(s) : h.id > d \/ (h.id = first /\ h.id = d)
  BY <1>1 DEF DropOK
<1>18. WindowOK(c, s, f2, taken, d, first, delivered)
  <2>1. ASSUME NEW h \in HeldFrames(s), f2 + h.id < seq PROVE h.id = first
    <3>1. ~(h.id > d)  BY <1>1, <1>7, <1>8, <2>1
    <3> QED  BY <1>17, <3>1
  <2>2. ASSUME NEW h \in HeldFrames(s)
        PROVE  seq <= f2 + h.id \/ (h.id = first /\ seq = f2 + h.id + 1)
    <3>1. CASE h.id > d  BY <1>1, <1>7, <1>8, <3>1
    <3>2. CASE h.id = first /\ h.id = d  BY <1>9, <3>2
    <3> QED  BY <1>17, <3>1, <3>2
  <2>3. \A p \in 1 .. taken : ~(p \notin Held(s) /\ p > d)
    BY <1>1, <1>3 DEF WindowOK
  <2>4. seq <= f2 + d + 1  BY <1>7, <1>9
  <2> QED  BY <1>3, <1>14, <2>1, <2>2, <2>3, <2>4 DEF WindowOK
<1>19. EndsOK(c, s, f2, taken, queued, d, first, delivered)  BY <1>11, <1>16, <1>18 DEF EndsOK
<1> QED  BY <1>7, <1>9, <1>12, <1>14, <1>19

\* A block ack request keeps the invariant, and may open the session.
LEMMA ReceiveBlockAckRequestInv == NumbersSuffice /\ Inv /\ ReceiveBlockAckRequest => Inv'
<1> SUFFICES ASSUME NumbersSuffice, Inv, ReceiveBlockAckRequest PROVE Inv'  OBVIOUS
<1>1. PICK f \in Int, taken \in Nat, d \in Int : InvAt(f, taken, d)  BY DEF Inv
<1> DEFINE old == Received(rcv, Delivered, opener)
           leaving == rcv.frameBuffer \ rcv'.frameBuffer
<1>2. /\ EndsOK(rcv, snd, f, taken, offered, d, opener, Delivered)
      /\ ReceiverOK(rcv, f, taken, Delivered)
      /\ AirOK(air, rcv, snd, f, d, old) /\ OutcomesOK(outcome, snd, taken, old)
      /\ taken <= offered /\ offered \in 0 .. MaxPackets /\ offered <= MaxPackets
      /\ MaxPackets \in Nat /\ taken <= MaxPackets
      /\ up \in Seq(Packets) /\ DeliveredInOrder
  BY <1>1, InvParts, Bounds
<1>3. /\ snd \in Senders /\ PlacesOK(snd) /\ RequestOK(snd)
      /\ rcv.currentLowestUnreceived \in Nat
  BY <1>2, EndsFields
<1>4. /\ air.type = "BAR" /\ rcv' = ProcessBlockAckRequestFrame(rcv, air.start)
      /\ SendUp(<<>>) /\ air' = BlockAcknowledgement(rcv')
      /\ UNCHANGED <<snd, offered, outcome, opener>>
  BY DEF ReceiveBlockAckRequest
<1>5. /\ snd.waitingForAck /\ snd.lastSentFrameWasAn = "BlockAckRequestFrame"
      /\ air.start = (f + d + 1) % SeqMod
  BY <1>2, <1>4 DEF AirOK, Nothing
<1>6. snd.blockAckRequestNeedsToBeSent  BY <1>3, <1>5 DEF RequestOK
<1> HIDE DEF old, leaving
<1>7. /\ up' \in Seq(Packets) /\ DeliveredInOrder'
      /\ Delivered' = Delivered \cup Ids(leaving)
  <2>1. <<>> \in Seq(Packets) /\ Elements(<<>>) = {}  BY DEF Elements
  <2>2. PICK none \in Seq(Packets) : none = <<>> /\ Elements(none) = {}  BY <2>1
  <2>3. /\ up' \in Seq(Packets) /\ DeliveredInOrder'
        /\ Delivered' = Delivered \cup Elements(none)
                                  \cup Ids(rcv.frameBuffer \ rcv'.frameBuffer)
    BY <1>1, <1>2, <1>3, <1>4, <2>2, SendUpOK
  <2> QED  BY <2>2, <2>3 DEF leaving
<1>8. PICK f2 \in Int :
         /\ EndsOK(rcv', snd, f2, taken, offered, d, opener, Delivered')
         /\ rcv'.frameBuffer \subseteq rcv.frameBuffer
         /\ rcv'.blockAckSessionIsActive /\ f2 + d + 1 <= rcv'.currentLowestUnreceived
  <2>1. CASE rcv.blockAckSessionIsActive
    <3>1. rcv' = ProcessBlockAckRequestFrame(rcv, (f + d + 1) % SeqMod)  BY <1>4, <1>5
    <3>2. Delivered' = Delivered \cup Ids(rcv.frameBuffer \ rcv'.frameBuffer)
      BY <1>7 DEF leaving
    <3>3. /\ EndsOK(rcv', snd, f, taken, offered, d, opener, Delivered')
          /\ rcv'.frameBuffer \subseteq rcv.frameBuffer
          /\ rcv'.blockAckSessionIsActive /\ f + d + 1 <= rcv'.currentLowestUnreceived
      <4>1. Requested(rcv, snd, f, taken, offered, d, opener, Delivered, rcv', Delivered')
        BY <1>2, <1>6, <2>1, <3>1, <3>2 DEF Requested
      <4> QED  BY <4>1, RequestedEnds
    <3> QED  BY <1>1, <3>3
  <2>2. CASE ~rcv.blockAckSessionIsActive
    <3>1. PICK f2 \in Int :
             /\ EndsOK(rcv', snd, f2, taken, offered, d, opener, Delivered)
             /\ rcv'.frameBuffer = {} /\ rcv.frameBuffer = {}
             /\ rcv'.blockAckSessionIsActive /\ f2 + d + 1 <= rcv'.currentLowestUnreceived
      BY <1>2, <1>4, <1>5, <1>6, <2>2, OpenedEnds
    <3>2. Delivered' = Delivered  BY <1>7, <3>1 DEF Ids, leaving
    <3> QED  BY <3>1, <3>2
  <2> QED  BY <2>1, <2>2
<1>9. BufferInv(rcv')  BY <1>8 DEF EndsOK, ReceiverOK
<1>10. AirOK(air', rcv', snd, f2, d, Received(rcv', Delivered', opener))
  BY <1>4, <1>5, <1>8, <1>9, BlockAcknowledgementOK
<1>11. old \subseteq Received(rcv', Delivered', opener)
  <2>1. Ids(rcv.frameBuffer) \subseteq Ids(rcv'.frameBuffer) \cup Ids(leaving)
    BY DEF Ids, leaving
  <2> QED  BY <1>7, <2>1 DEF old, Received
<1> QED  BY <1>1, <1>2, <1>4, <1>7, <1>8, <1>10, <1>11, ReceiverMoved

-----------------------------------------------------------------------------
(* The invariant. *)

\* The transmitter starts consistent,
LEMMA InitialSenderOK ==
    ASSUME NumbersSuffice, NEW f \in Nat, NEW open \in BOOLEAN, NEW protect \in BOOLEAN,
           NEW dropped \in SequenceNumbers, NEW s,
           s = [InitialSender(f % SeqMod, open, protect)
                   EXCEPT !.lastDroppedFrameSequenceNumber = dropped]
    PROVE  /\ SenderOK(s, f, 0, 0, -1, 0)
           /\ HeldFrames(s) = {} /\ s.blockAckSessionIsEnabled = open
           /\ ~s.blockAckRequestNeedsToBeSent /\ ~s.waitingForAck
<1>1. f % SeqMod \in SequenceNumbers  BY RealNumber
<1>2. s = [outgoingSequenceNumber |-> f % SeqMod,
           windowStartSequenceNumber |-> f % SeqMod,
           lastDroppedFrameSequenceNumber |-> dropped,
           blockAckSessionIsEnabled |-> open,
           blockAckRequestNeedsToBeSent |-> FALSE,
           networkOutputQueue |-> <<>>,
           currentPacket |-> NoFrame,
           currentAggregateFrame |-> <<>>,
           currentShortFrameRetryCount |-> 0,
           currentAggregateFrameRetryCount |-> 0,
           hasPacketToSend |-> FALSE,
           backoff |-> FALSE,
           protect |-> protect,
           waitingForAck |-> FALSE,
           lastSentFrameWasAn |-> "ShortFrame",
           lastTransmitted |-> <<>>,
           inTxop |-> FALSE,
           ackedInTxop |-> FALSE]
  BY DEF InitialSender
<1>3. <<>> \in Seq(Frames) /\ <<>> \in Seq(Nat) /\ Len(<<>>) = 0 /\ DOMAIN <<>> = {}  OBVIOUS
<1>4. s \in Senders
  <2>1. PICK n \in SequenceNumbers : n = f % SeqMod  BY <1>1
  <2>2. PICK none \in Seq(Frames), empty \in Seq(Nat) : none = <<>> /\ empty = <<>>  BY <1>3
  <2>3. [outgoingSequenceNumber |-> n, windowStartSequenceNumber |-> n,
         lastDroppedFrameSequenceNumber |-> dropped,
         blockAckSessionIsEnabled |-> open, blockAckRequestNeedsToBeSent |-> FALSE,
         networkOutputQueue |-> empty, currentPacket |-> NoFrame,
         currentAggregateFrame |-> none, currentShortFrameRetryCount |-> 0,
         currentAggregateFrameRetryCount |-> 0, hasPacketToSend |-> FALSE,
         backoff |-> FALSE, protect |-> protect, waitingForAck |-> FALSE,
         lastSentFrameWasAn |-> "ShortFrame", lastTransmitted |-> none,
         inTxop |-> FALSE, ackedInTxop |-> FALSE] \in Senders
    BY Zenon DEF Senders
  <2> QED  BY <1>2, <2>1, <2>2, <2>3, Zenon
<1>5. /\ s.outgoingSequenceNumber = f % SeqMod /\ s.networkOutputQueue = <<>>
      /\ s.blockAckSessionIsEnabled = open /\ s.blockAckRequestNeedsToBeSent = FALSE
      /\ s.currentPacket = NoFrame /\ s.currentAggregateFrame = <<>>
      /\ s.waitingForAck = FALSE /\ s.lastTransmitted = <<>>
      /\ s.lastSentFrameWasAn = "ShortFrame"
  BY <1>2
<1>6. Elements(<<>>) = {}  BY <1>3 DEF Elements
<1>7. Single(s) = {} /\ Aggregated(s) = {} /\ HeldFrames(s) = {}
  BY <1>5, <1>6 DEF Single, Aggregated, HeldFrames
<1>8. PlacesOK(s) /\ RequestOK(s)  BY <1>5, <1>7 DEF PlacesOK, RequestOK
<1>9. NumbersOK(s, f, 0, 0)  BY <1>3, <1>5, <1>7 DEF NumbersOK
<1>10. OrderOK(s)  BY <1>3, <1>5, <1>7 DEF OrderOK, Increasing
<1>11. DropOK(s, f, 0, -1, 0)  BY <1>5, <1>7 DEF DropOK
<1> QED  BY <1>4, <1>5, <1>7, <1>8, <1>9, <1>10, <1>11 DEF SenderOK

\* and so does the receiver.
LEMMA InitialReceiverOK ==
    ASSUME NumbersSuffice, NEW start \in Starts, NEW b, b = InitialReceiver(start)
    PROVE  /\ ReceiverOK(b, start.firstNumber, 0, {})
           /\ b.blockAckSessionIsActive = start.sessionIsOpen
<1>1. /\ start.firstNumber \in Nat /\ start.sessionIsOpen \in BOOLEAN
      /\ start.sessionIsOpen => start.firstNumber > 1
      /\ W \in Nat /\ W >= 1
  BY BlockAckAssumption, Bounds
<1>2. PICK f \in Nat : f = start.firstNumber  BY <1>1
<1>3. CASE start.sessionIsOpen
  <2>1. b = [blockAckSessionIsActive |-> TRUE, currentLowestUnreceived |-> f + 1,
             bitmapWindowStart |-> f, blockAckBitmap |-> {f}, frameBuffer |-> {}]
    BY <1>2, <1>3 DEF InitialReceiver
  <2>2. b \in Buffers  BY <2>1 DEF Buffers
  <2>3. /\ b.blockAckSessionIsActive /\ b.currentLowestUnreceived = f + 1
        /\ b.bitmapWindowStart = f /\ b.blockAckBitmap = {f} /\ b.frameBuffer = {}
    BY <2>1
  <2>4. WindowInv(b)  BY <1>1, <2>3 DEF WindowInv, Window
  <2>5. FramesInv(b)  BY <2>3 DEF FramesInv
  <2>6. BufferInv(b)  BY <2>2, <2>3, <2>4, <2>5 DEF BufferInv
  <2> QED  BY <1>1, <1>2, <1>3, <2>3, <2>6 DEF ReceiverOK
<1>4. CASE ~start.sessionIsOpen
  <2>1. b = [blockAckSessionIsActive |-> FALSE, currentLowestUnreceived |-> f + 1,
             bitmapWindowStart |-> 1, blockAckBitmap |-> {}, frameBuffer |-> {}]
    BY <1>2, <1>4 DEF InitialReceiver, InitialBuffer
  <2>2. b \in Buffers  BY <2>1 DEF Buffers
  <2>3. /\ b.blockAckSessionIsActive = FALSE /\ b.currentLowestUnreceived = f + 1
        /\ b.blockAckBitmap = {} /\ b.frameBuffer = {}
    BY <2>1
  <2>4. BufferInv(b)  BY <2>2, <2>3 DEF BufferInv, FramesInv
  <2>5. \A p \in Packets : (f + p + 1) % SeqMod # 0  BY <1>2, <1>4 DEF NumbersSuffice
  <2>6. f < f + 1 /\ f + 1 <= f + 0 + 1  OBVIOUS
  <2>7. ReceiverOK(b, f, 0, {})  BY <2>3, <2>4, <2>5, <2>6 DEF ReceiverOK
  <2> QED  BY <1>1, <1>2, <1>4, <2>3, <2>7
<1> QED  BY <1>1, <1>3, <1>4

\* The initial states satisfy the invariant.
LEMMA InitInv == NumbersSuffice /\ Init => Inv
<1> SUFFICES ASSUME NumbersSuffice, Init PROVE Inv  OBVIOUS
<1>1. PICK start \in Starts :
         /\ rcv = InitialReceiver(start)
         /\ snd = [InitialSender(start.firstNumber % SeqMod, start.sessionIsOpen,
                                 start.protect) EXCEPT
                      !.lastDroppedFrameSequenceNumber =
                          IF start.sessionIsOpen THEN (start.firstNumber - 1) % SeqMod ELSE 0]
  BY DEF Init
<1>2. /\ start.firstNumber \in Nat /\ start.sessionIsOpen \in BOOLEAN /\ start.protect \in BOOLEAN
      /\ SeqMod \in Nat /\ SeqMod > 0 /\ MaxPackets \in Nat
  BY BlockAckAssumption, Bounds
<1>3. PICK f \in Nat, open \in BOOLEAN, protect \in BOOLEAN :
         f = start.firstNumber /\ open = start.sessionIsOpen /\ protect = start.protect
  BY <1>2
<1>4. PICK dropped \in SequenceNumbers :
         dropped = IF open THEN (f - 1) % SeqMod ELSE 0
  <2>1. f - 1 \in Int  BY <1>3
  <2>2. (f - 1) % SeqMod \in SequenceNumbers /\ 0 \in SequenceNumbers
    BY <1>2, <2>1, Remainder DEF SequenceNumbers
  <2> QED  BY <2>2
<1>5. snd = [InitialSender(f % SeqMod, open, protect)
                EXCEPT !.lastDroppedFrameSequenceNumber = dropped]
  BY <1>1, <1>3, <1>4
<1>6. /\ SenderOK(snd, f, 0, 0, -1, 0)
      /\ HeldFrames(snd) = {} /\ snd.blockAckSessionIsEnabled = open
      /\ ~snd.blockAckRequestNeedsToBeSent /\ ~snd.waitingForAck
  <2>1. f \in Nat /\ open \in BOOLEAN /\ protect \in BOOLEAN /\ dropped \in SequenceNumbers
    BY <1>3, <1>4
  <2> QED  BY <1>5, <2>1, InitialSenderOK, ZenonT(60)
<1>7. ReceiverOK(rcv, f, 0, {}) /\ rcv.blockAckSessionIsActive = open
  BY <1>1, <1>3, InitialReceiverOK
<1>8. /\ air = Nothing /\ up = <<>> /\ offered = 0 /\ opener = 0
      /\ outcome = [p \in Packets |-> "none"]
  BY DEF Init
<1>9. Delivered = {} /\ DeliveredInOrder /\ up \in Seq(Packets)
  <2>1. DOMAIN up = {} /\ <<>> \in Seq(Packets)  BY <1>8
  <2> QED  BY <1>8, <2>1 DEF Delivered, DeliveredInOrder
<1>10. WindowOK(rcv, snd, f, 0, -1, 0, {})
  <2>1. 1 .. 0 = {}  OBVIOUS
  <2> QED  BY <1>6, <1>7, <2>1 DEF WindowOK
<1>11. EndsOK(rcv, snd, f, 0, offered, -1, opener, Delivered)
  BY <1>6, <1>7, <1>8, <1>9, <1>10 DEF EndsOK
<1>12. Held(snd) = {}  BY <1>6 DEF Held, Ids
<1>13. OutcomesOK(outcome, snd, 0, Received(rcv, Delivered, opener))
  BY <1>8, <1>12 DEF OutcomesOK
<1>14. AirOK(air, rcv, snd, f, -1, Received(rcv, Delivered, opener))  BY <1>8, QuietAir
<1>15. offered \in 0 .. MaxPackets  BY <1>2, <1>8
<1>16. InvAt(f, 0, -1)  BY <1>9, <1>11, <1>13, <1>14, <1>15 DEF InvAt
<1> QED  BY <1>16 DEF Inv

\* A stuttering step keeps it.
LEMMA StutterInv == Inv /\ UNCHANGED vars => Inv'
<1> SUFFICES ASSUME Inv, UNCHANGED vars PROVE Inv'  OBVIOUS
<1>1. PICK f \in Int, taken \in Nat, d \in Int : InvAt(f, taken, d)  BY DEF Inv
<1>2. Delivered' = Delivered /\ (DeliveredInOrder <=> DeliveredInOrder')
  BY DEF vars, Delivered, DeliveredInOrder
<1>3. InvAt(f, taken, d)'  BY <1>1, <1>2 DEF InvAt, vars
<1> QED  BY <1>3 DEF Inv

\* Every step of either end, and every loss, keeps the invariant.
LEMMA NextInv == NumbersSuffice /\ Inv /\ [Next]_vars => Inv'
<1> SUFFICES ASSUME NumbersSuffice, Inv, [Next]_vars PROVE Inv'  OBVIOUS
<1>1. CASE PacketArrives  BY <1>1, PacketArrivesInv
<1>2. CASE BackoffTimeout  BY <1>2, BackoffTimeoutInv
<1>3. CASE AckTimeout  BY <1>3, AckTimeoutInv
<1>4. CASE AckReceived  BY <1>4, AckReceivedInv
<1>5. CASE BlockAckReceived  BY <1>5, BlockAckReceivedInv
<1>6. CASE ReceiveFrame  BY <1>6, ReceiveFrameInv
<1>7. CASE ReceiveSubframe  BY <1>7, ReceiveSubframeInv
<1>8. CASE CorruptedSubframe  BY <1>8, CorruptedSubframeInv
<1>9. CASE ReceiveBlockAckRequest  BY <1>9, ReceiveBlockAckRequestInv
<1>10. CASE LoseSignal  BY <1>10, LoseSignalInv
<1>11. CASE UNCHANGED vars  BY <1>11, StutterInv
<1> QED
  BY <1>1, <1>2, <1>3, <1>4, <1>5, <1>6, <1>7, <1>8, <1>9, <1>10, <1>11 DEF Next

\* So the invariant holds in every state of every behaviour.
LEMMA InvAlways ==
    ASSUME NumbersSuffice
    PROVE  Spec => []Inv
<1>1. Init => Inv  BY InitInv
<1>2. Inv /\ [Next]_vars => Inv'  BY NextInv
<1> QED  BY <1>1, <1>2, PTL DEF Spec

\* A packet that has ended is not in the transmitter's hands, and only one that is ends.
LEMMA OutcomeStep ==
    ASSUME NumbersSuffice, Inv, [Next]_vars
    PROVE  \A p \in Packets : outcome[p] # "none" => outcome'[p] = outcome[p]
<1>1. PICK f \in Int, taken \in Nat, d \in Int : InvAt(f, taken, d)  BY DEF Inv
<1> DEFINE old == Received(rcv, Delivered, opener)
<1>2. /\ SenderOK(snd, f, taken, offered, d, opener)
      /\ EndsOK(rcv, snd, f, taken, offered, d, opener, Delivered)
      /\ AirOK(air, rcv, snd, f, d, old) /\ OutcomesOK(outcome, snd, taken, old)
  BY <1>1, InvParts
<1>3. snd \in Senders /\ PlacesOK(snd) /\ RequestOK(snd)  BY <1>2, EndsFields
<1>4. \A p \in Packets : outcome[p] # "none" => p \notin Held(snd)  BY <1>2 DEF OutcomesOK
<1>5. ASSUME NEW acked, NEW dropped, Settle(acked, dropped),
             acked \subseteq Held(snd), dropped \subseteq Held(snd)
      PROVE  \A p \in Packets : outcome[p] # "none" => outcome'[p] = outcome[p]
  BY <1>4, <1>5 DEF Settle
<1>6. CASE AckTimeout
  <2> DEFINE dropped == DroppedAtTimeout(snd)
  <2>1. snd.waitingForAck /\ Settle({}, dropped)  BY <1>6 DEF AckTimeout
  <2>2. dropped \subseteq Held(snd)
    BY <1>2, <2>1, NeverReceivedAcknowledgementOK DEF Keeps, GivesUp
  <2> QED  BY <1>5, <2>1, <2>2
<1>7. CASE AckReceived
  <2>1. snd.waitingForAck /\ snd.lastSentFrameWasAn = "ShortFrame"
    BY <1>2, <1>7 DEF AckReceived, AirOK, Nothing
  <2>2. snd.lastTransmitted[1] \in HeldFrames(snd) /\ DOMAIN snd.lastTransmitted = {1}
    BY <1>3, <2>1, SignalFrames
  <2>3. Settle({g.id : g \in {snd.lastTransmitted[i] : i \in DOMAIN snd.lastTransmitted}}, {})
    BY <1>7 DEF AckReceived
  <2>4. {g.id : g \in {snd.lastTransmitted[i] : i \in DOMAIN snd.lastTransmitted}}
            \subseteq Held(snd)
    BY <2>2 DEF Held, Ids
  <2> QED  BY <1>5, <2>3, <2>4
<1>8. CASE BlockAckReceived /\ snd.lastSentFrameWasAn = "AggregateFrame"
  <2>1. snd.waitingForAck /\ BlockAckTypeOK(air)
    BY <1>2, <1>8, SignalTypes DEF BlockAckReceived, AirOK, Nothing
  <2>2. Settle(AckedBy(snd, air), DroppedAtBlockAck(snd, air))  BY <1>8 DEF BlockAckReceived
  <2> DEFINE c == ProcessBlockAckFrame(snd, air)
  <2>3. PICK d2 \in Int :
           /\ AckedBy(snd, air) = Ids(HeldFrames(snd) \ Left(snd, air))
           /\ RetriesLeft(snd, c, air, d, d2) \/ GivesUpLeft(snd, c, air, d2)
    BY <1>2, <1>8, <2>1, BlockAckOfAggregateOK
  <2> HIDE DEF c
  <2>4. AckedBy(snd, air) \subseteq Held(snd)  BY <2>3 DEF Held, Ids
  <2>5. DroppedAtBlockAck(snd, air) \subseteq Held(snd)
    BY <2>3 DEF RetriesLeft, GivesUpLeft, Left, Held, Ids
  <2> QED  BY <1>5, <2>2, <2>4, <2>5
<1>9. CASE outcome' = outcome  BY <1>9
<1> QED
  BY <1>6, <1>7, <1>8, <1>9
     DEF Next, vars, PacketArrives, BackoffTimeout, BlockAckReceived, ReceiveFrame,
         ReceiveSubframe, CorruptedSubframe, ReceiveBlockAckRequest, LoseSignal

-----------------------------------------------------------------------------
(* The theorems, for any run that the numbers suffice for. *)

\* Every part of the state has its type: the numbers of frames and requests stay below
\* SeqMod, the buffer's numbers natural, and a block acknowledgement has W bits.
THEOREM BlockAckTypeCorrect ==
    ASSUME NumbersSuffice
    PROVE  Spec => []TypeOK
<1>1. Inv => TypeOK  BY InvTypes DEF Inv
<1> QED  BY <1>1, InvAlways, PTL

\* No assertion of the reordering buffer fails for any frame, subframe or block ack request
\* that comes, whatever was lost, retried or given up before.
THEOREM ReceiverAssertionsAlwaysHold ==
    ASSUME NumbersSuffice
    PROVE  Spec => []ReceiverAssertionsHold
<1>1. Inv => ReceiverAssertionsHold  BY InvState DEF Inv
<1> QED  BY <1>1, InvAlways, PTL

\* No assertion of the transmitter fails when a reply comes.
THEOREM SenderAssertionsAlwaysHold ==
    ASSUME NumbersSuffice
    PROVE  Spec => []SenderAssertionsHold
<1>1. Inv => SenderAssertionsHold  BY InvState DEF Inv
<1> QED  BY <1>1, InvAlways, PTL

\* The receiver's network layer gets the packets in the order they were queued in and each
\* at most once.
THEOREM InOrderDelivery ==
    ASSUME NumbersSuffice
    PROVE  Spec => []DeliveredInOrder
<1>1. Inv => DeliveredInOrder  BY DEF Inv, InvAt
<1> QED  BY <1>1, InvAlways, PTL

\* What the transmitter counts as acknowledged was received, but for the packet that
\* waited for the session to open.
THEOREM AcknowledgedIsReceived ==
    ASSUME NumbersSuffice
    PROVE  Spec => []AckedIsReceived
<1>1. Inv => AckedIsReceived  BY InvState DEF Inv
<1> QED  BY <1>1, InvAlways, PTL

\* A frame waits in the buffer only for one that the transmitter still has, or for the
\* block ack request that is due.
THEOREM BufferGetsReleased ==
    ASSUME NumbersSuffice
    PROVE  Spec => []BufferedFramesGetReleased
<1>1. Inv => BufferedFramesGetReleased  BY InvState DEF Inv
<1> QED  BY <1>1, InvAlways, PTL

\* No step gives another end to a packet that was acknowledged or given up.
THEOREM PacketsEndOnce ==
    ASSUME NumbersSuffice
    PROVE  Spec => OutcomeIsFinal
<1>1. Inv /\ [Next]_vars =>
         [\A p \in Packets : outcome[p] # "none" => outcome'[p] = outcome[p]]_vars
  BY OutcomeStep
<1> QED  BY <1>1, InvAlways, PTL DEF Spec, OutcomeIsFinal

===============================================================================
