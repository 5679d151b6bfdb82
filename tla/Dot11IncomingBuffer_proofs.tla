--------------------- MODULE Dot11IncomingBuffer_proofs ----------------------
(***************************************************************************)
(* What the operations of Dot11IncomingBuffer preserve, for every window   *)
(* size and every modulus, whatever number a frame or a block ack request  *)
(* carries as long as the assertions of the code hold for it.              *)
(***************************************************************************)
EXTENDS Dot11IncomingBuffer, FiniteSetTheorems, WellFoundedInduction, TLAPS

Buffers == [blockAckSessionIsActive : BOOLEAN,
            currentLowestUnreceived : Nat,
            bitmapWindowStart : Nat,
            blockAckBitmap : SUBSET Nat,
            frameBuffer : SUBSET [seq : Nat, id : Nat]]

\* WindowConsistent of a buffer whose session is active.
WindowInv(b) ==
    /\ b.bitmapWindowStart <= b.currentLowestUnreceived
    /\ b.currentLowestUnreceived <= b.bitmapWindowStart + W
    /\ b.blockAckBitmap \subseteq Window(b)
    /\ b.bitmapWindowStart .. b.currentLowestUnreceived - 1 \subseteq b.blockAckBitmap
    /\ b.currentLowestUnreceived \notin b.blockAckBitmap

\* BufferMatchesBitmap of any buffer.
FramesInv(b) ==
    /\ \A f \in b.frameBuffer : f.seq \in b.blockAckBitmap /\ f.seq > b.currentLowestUnreceived
    /\ \A s \in b.blockAckBitmap :
          s > b.currentLowestUnreceived => \E f \in b.frameBuffer : f.seq = s
    /\ \A f, g \in b.frameBuffer : f.seq = g.seq => f = g

\* The inductive invariant: with its two parts goes that nothing is buffered
\* and no bit is set before the session, so the first request opens a window
\* that is consistent.
BufferInv(b) ==
    /\ b \in Buffers
    /\ b.blockAckSessionIsActive => WindowInv(b)
    /\ ~b.blockAckSessionIsActive => b.blockAckBitmap = {} /\ b.frameBuffer = {}
    /\ FramesInv(b)

-----------------------------------------------------------------------------
\* A non-empty set of naturals has a least element.
LEMMA LeastElement ==
    ASSUME NEW S \in SUBSET Nat, NEW e \in S
    PROVE  \E x \in S : \A y \in S : x <= y
<1> DEFINE R == {ss \in Nat \X Nat : ss[1] < ss[2]}
<1>1. IsWellFoundedOn(R, Nat)
  <2> SUFFICES IsWellFoundedOn({ss \in Nat \X Nat : ss[1] < ss[2]}, Nat)  OBVIOUS
  <2> QED  BY ONLY NatLessThanWellFounded DEF OpToRel
<1>2. PICK x \in S : \A y \in S : <<y, x>> \notin R
  <2> HIDE DEF R
  <2> QED  BY <1>1, WFMin
<1>3. ASSUME NEW y \in S PROVE x <= y
  <2>1. CASE y < x
    <3>1. <<y, x>> \in Nat \X Nat  OBVIOUS
    <3>2. <<y, x>>[1] < <<y, x>>[2]  BY <2>1
    <3> QED  BY <1>2, <3>1, <3>2
  <2> QED  BY <2>1
<1> QED  BY <1>3

\* The run of set bits ends at a number whose bit is not set.
LEMMA EndOfRunLemma ==
    ASSUME NEW bits \in SUBSET Nat, NEW from \in Nat, NEW end \in Nat,
           from <= end, end \notin bits
    PROVE  /\ EndOfRun(bits, from, end) \in from .. end
           /\ EndOfRun(bits, from, end) \notin bits
           /\ from .. EndOfRun(bits, from, end) - 1 \subseteq bits
<1> DEFINE S == {n \in from .. end : n \notin bits}
<1>1. S \in SUBSET Nat  OBVIOUS
<1>2. end \in S  OBVIOUS
<1>3. PICK x \in S : \A y \in S : x <= y
  <2> HIDE DEF S
  <2> QED  BY <1>1, <1>2, LeastElement
<1>4. x \in from .. end /\ x \notin bits  OBVIOUS
<1>5. ASSUME NEW k \in from .. x - 1 PROVE k \in bits
  <2>1. k \in from .. end /\ ~(x <= k)  BY <1>4
  <2> QED  BY <1>3, <2>1
<1> QED  BY <1>4, <1>5 DEF EndOfRun

-----------------------------------------------------------------------------
(* Frames and subframes of a session. *)

\* A frame of the window, by the way it changes the bitmap.
LEMMA InOrderInWindow ==
    ASSUME NEW b \in Buffers, WindowInv(b), FramesInv(b), NEW n \in Nat,
           n = b.currentLowestUnreceived, n < b.bitmapWindowStart + W
    PROVE  LET c == MarkInWindow(b, n)
           IN c \in Buffers /\ WindowInv(c) /\ FramesInv(c)
              /\ c.blockAckSessionIsActive = b.blockAckSessionIsActive
<1> DEFINE bits == b.blockAckBitmap \cup {n}
           end == b.bitmapWindowStart + W
           lowest == EndOfRun(bits, n, end)
           frames == {f \in b.frameBuffer : f.seq >= lowest}
<1>1. W \in Nat /\ b.bitmapWindowStart \in Nat /\ b.blockAckBitmap \in SUBSET Nat
      /\ b.frameBuffer \in SUBSET [seq : Nat, id : Nat]
  BY SequenceNumbersAssumption DEF Buffers
<1>2. bits \in SUBSET Nat /\ end \in Nat /\ n <= end  BY <1>1
<1>3. end \notin bits  BY <1>1 DEF WindowInv, Window
<1>4. lowest \in n .. end /\ lowest \notin bits /\ n .. lowest - 1 \subseteq bits
  <2> HIDE DEF bits, end
  <2> QED  BY <1>2, <1>3, EndOfRunLemma
<1>5. MarkInWindow(b, n) = [b EXCEPT !.blockAckBitmap = bits,
                                     !.currentLowestUnreceived = lowest,
                                     !.frameBuffer = frames]
  BY DEF MarkInWindow
<1>6. n < lowest /\ lowest \in Nat /\ lowest <= end  BY <1>4, <1>2
<1>7. b.bitmapWindowStart <= n  BY DEF WindowInv
<1>8. bits \subseteq Window(b)  BY <1>1, <1>7 DEF WindowInv, Window
<1>9. b.bitmapWindowStart .. lowest - 1 \subseteq bits
  <2> SUFFICES ASSUME NEW k \in b.bitmapWindowStart .. lowest - 1 PROVE k \in bits  OBVIOUS
  <2>1. CASE k < n  BY <2>1, <1>1 DEF WindowInv
  <2>2. CASE k >= n
    <3>1. k \in n .. lowest - 1  BY <2>2, <1>1, <1>6
    <3> QED  BY <3>1, <1>4
  <2> QED  BY <2>1, <2>2, <1>1
<1> HIDE DEF bits, lowest, end
<1> DEFINE c == MarkInWindow(b, n)
<1>10. /\ c.blockAckBitmap = bits /\ c.currentLowestUnreceived = lowest
       /\ c.frameBuffer = frames /\ c.bitmapWindowStart = b.bitmapWindowStart
       /\ c.blockAckSessionIsActive = b.blockAckSessionIsActive
       /\ c \in Buffers
  BY <1>5, <1>1, <1>2, <1>6 DEF Buffers
<1>11. WindowInv(c)
  <2> HIDE DEF c
  <2> QED  BY <1>10, <1>1, <1>4, <1>6, <1>7, <1>8, <1>9 DEF WindowInv, Window, end
<1>12. FramesInv(c)
  <2>1. ASSUME NEW f \in frames PROVE f.seq \in bits /\ f.seq > lowest
    <3>1. f.seq \in bits /\ f.seq \in Nat  BY <1>1 DEF FramesInv, bits
    <3>2. f.seq # lowest  BY <3>1, <1>4
    <3> QED  BY <3>1, <3>2, <1>6
  <2>2. ASSUME NEW s \in bits, s > lowest PROVE \E f \in frames : f.seq = s
    <3>1. s \in b.blockAckBitmap /\ s > b.currentLowestUnreceived
      BY <2>2, <1>2, <1>6 DEF bits
    <3>2. PICK f \in b.frameBuffer : f.seq = s  BY <3>1 DEF FramesInv
    <3> QED  BY <3>2, <2>2, <1>2, <1>6
  <2>3. \A f, g \in frames : f.seq = g.seq => f = g  BY DEF FramesInv
  <2> QED  BY <2>1, <2>2, <2>3, <1>10 DEF FramesInv
<1> QED  BY <1>10, <1>11, <1>12

\* A frame ahead of the lowest missing one, inside the window, waits in the buffer.
LEMMA OutOfOrderInWindow ==
    ASSUME NEW b \in Buffers, WindowInv(b), FramesInv(b), NEW n \in Nat, NEW id \in Nat,
           n > b.currentLowestUnreceived, n < b.bitmapWindowStart + W,
           n \notin b.blockAckBitmap
    PROVE  LET c == [MarkInWindow(b, n) EXCEPT !.frameBuffer = @ \cup {[seq |-> n, id |-> id]}]
           IN c \in Buffers /\ WindowInv(c) /\ FramesInv(c)
              /\ c.blockAckSessionIsActive = b.blockAckSessionIsActive
<1> DEFINE bits == b.blockAckBitmap \cup {n}
           frame == [seq |-> n, id |-> id]
           frames == b.frameBuffer \cup {frame}
           c == [MarkInWindow(b, n) EXCEPT !.frameBuffer = @ \cup {frame}]
<1>1. /\ W \in Nat /\ b.bitmapWindowStart \in Nat /\ b.blockAckBitmap \in SUBSET Nat
      /\ b.frameBuffer \in SUBSET [seq : Nat, id : Nat] /\ b.currentLowestUnreceived \in Nat
  BY SequenceNumbersAssumption DEF Buffers
<1>2. frame \in [seq : Nat, id : Nat] /\ frame.seq = n  OBVIOUS
<1>3. {f \in b.frameBuffer : f.seq >= b.currentLowestUnreceived} = b.frameBuffer
  BY <1>1 DEF FramesInv
<1>4. MarkInWindow(b, n) = [b EXCEPT !.blockAckBitmap = bits,
                                     !.currentLowestUnreceived = b.currentLowestUnreceived,
                                     !.frameBuffer = b.frameBuffer]
  <2>1. n # b.currentLowestUnreceived  BY <1>1
  <2>2. MarkInWindow(b, n) =
          [b EXCEPT !.blockAckBitmap = bits,
                    !.currentLowestUnreceived = b.currentLowestUnreceived,
                    !.frameBuffer = {f \in b.frameBuffer : f.seq >= b.currentLowestUnreceived}]
    BY <2>1, Zenon DEF MarkInWindow
  <2> QED  BY <2>2, <1>3
<1>5. /\ c.blockAckBitmap = bits /\ c.currentLowestUnreceived = b.currentLowestUnreceived
      /\ c.frameBuffer = frames /\ c.bitmapWindowStart = b.bitmapWindowStart
      /\ c.blockAckSessionIsActive = b.blockAckSessionIsActive
      /\ c \in Buffers
  <2> DEFINE m == MarkInWindow(b, n)
  <2>1. /\ m.blockAckBitmap = bits /\ m.currentLowestUnreceived = b.currentLowestUnreceived
        /\ m.frameBuffer = b.frameBuffer /\ m.bitmapWindowStart = b.bitmapWindowStart
        /\ m.blockAckSessionIsActive = b.blockAckSessionIsActive
        /\ m \in Buffers
    <3> HIDE DEF frame
    <3> QED  BY <1>4, <1>1 DEF Buffers
  <2> HIDE DEF m, frame, bits
  <2>2. c = [m EXCEPT !.frameBuffer = frames]  BY <2>1 DEF m
  <2> QED  BY <2>1, <2>2, <1>1, <1>2 DEF Buffers
<1>6. WindowInv(c)
  <2> HIDE DEF c
  <2> QED  BY <1>5, <1>1 DEF WindowInv, Window
<1>7. FramesInv(c)
  <2> HIDE DEF c, frame
  <2>1. \A f \in frames : f.seq \in bits /\ f.seq > b.currentLowestUnreceived
    BY <1>1, <1>2 DEF FramesInv
  <2>2. \A s \in bits : s > b.currentLowestUnreceived => \E f \in frames : f.seq = s
    BY <1>2 DEF FramesInv
  <2>3. \A f \in b.frameBuffer : f.seq # n  BY DEF FramesInv
  <2>4. \A f, g \in frames : f.seq = g.seq => f = g  BY <2>3, <1>2 DEF FramesInv
  <2> QED  BY <2>1, <2>2, <2>4, <1>5 DEF FramesInv
<1> QED  BY <1>5, <1>6, <1>7

\* A frame beyond the window that shifts it no further than the lowest missing.
LEMMA BeyondWindow ==
    ASSUME NEW b \in Buffers, WindowInv(b), FramesInv(b), NEW n \in Nat, NEW id \in Nat,
           n >= b.bitmapWindowStart + W, n - W + 1 <= b.currentLowestUnreceived,
           n # b.currentLowestUnreceived
    PROVE  LET c == [ShiftWindowTo(b, n) EXCEPT !.frameBuffer = @ \cup {[seq |-> n, id |-> id]}]
           IN c \in Buffers /\ WindowInv(c) /\ FramesInv(c)
              /\ c.blockAckSessionIsActive = b.blockAckSessionIsActive
<1> DEFINE start == n - W + 1
           bits == {s \in b.blockAckBitmap : s >= start} \cup {n}
           frame == [seq |-> n, id |-> id]
           frames == b.frameBuffer \cup {frame}
           m == ShiftWindowTo(b, n)
           c == [m EXCEPT !.frameBuffer = @ \cup {frame}]
<1>1. /\ W \in Nat /\ W > 0 /\ b.bitmapWindowStart \in Nat /\ b.blockAckBitmap \in SUBSET Nat
      /\ b.frameBuffer \in SUBSET [seq : Nat, id : Nat] /\ b.currentLowestUnreceived \in Nat
  BY SequenceNumbersAssumption DEF Buffers
<1>2. frame \in [seq : Nat, id : Nat] /\ frame.seq = n  OBVIOUS
<1>3. /\ m.blockAckBitmap = bits /\ m.currentLowestUnreceived = b.currentLowestUnreceived
      /\ m.frameBuffer = b.frameBuffer /\ m.bitmapWindowStart = start
      /\ m.blockAckSessionIsActive = b.blockAckSessionIsActive
      /\ m \in Buffers
  <2>1. start \in Nat /\ bits \in SUBSET Nat  BY <1>1
  <2> QED  BY <2>1, <1>1 DEF ShiftWindowTo, Buffers
<1>4. /\ c.blockAckBitmap = bits /\ c.currentLowestUnreceived = b.currentLowestUnreceived
      /\ c.frameBuffer = frames /\ c.bitmapWindowStart = start
      /\ c.blockAckSessionIsActive = b.blockAckSessionIsActive
      /\ c \in Buffers
  <2> HIDE DEF m, frame, bits, start
  <2>1. c = [m EXCEPT !.frameBuffer = frames]  BY <1>3
  <2> QED  BY <2>1, <1>1, <1>2, <1>3 DEF Buffers
<1>5. n > b.currentLowestUnreceived  BY <1>1 DEF WindowInv
<1> HIDE DEF m, c
<1>6. WindowInv(c)
  <2>1. start <= b.currentLowestUnreceived /\ b.currentLowestUnreceived <= start + W
    BY <1>1, <1>5
  <2>2. bits \subseteq start .. start + W - 1  BY <1>1 DEF WindowInv, Window
  <2>3. start .. b.currentLowestUnreceived - 1 \subseteq bits  BY <1>1 DEF WindowInv
  <2>4. b.currentLowestUnreceived \notin bits  BY <1>5, <1>1 DEF WindowInv
  <2> HIDE DEF start, bits
  <2> QED  BY <2>1, <2>2, <2>3, <2>4, <1>4 DEF WindowInv, Window
<1>7. FramesInv(c)
  <2> HIDE DEF frame
  <2>1. \A f \in frames : f.seq \in bits /\ f.seq > b.currentLowestUnreceived
    BY <1>1, <1>2, <1>5 DEF FramesInv
  <2>2. \A s \in bits : s > b.currentLowestUnreceived => \E f \in frames : f.seq = s
    BY <1>2 DEF FramesInv
  <2>3. \A f \in b.frameBuffer : f.seq # n  BY <1>1 DEF FramesInv, WindowInv, Window
  <2>4. \A f, g \in frames : f.seq = g.seq => f = g  BY <2>3, <1>2 DEF FramesInv
  <2> HIDE DEF frames, bits
  <2> QED  BY <2>1, <2>2, <2>4, <1>4 DEF FramesInv
<1> QED  BY <1>4, <1>6, <1>7 DEF m, c

\* The frame after a window without gaps.
LEMMA NextOfFullWindow ==
    ASSUME NEW b \in Buffers, WindowInv(b), FramesInv(b), NEW n \in Nat,
           n = b.currentLowestUnreceived, n = b.bitmapWindowStart + W
    PROVE  LET c == MarkNextOfFullWindow(b, n)
           IN c \in Buffers /\ WindowInv(c) /\ FramesInv(c)
              /\ c.blockAckSessionIsActive = b.blockAckSessionIsActive
<1> DEFINE start == b.bitmapWindowStart + 1
           bits == start .. b.bitmapWindowStart + W
           c == MarkNextOfFullWindow(b, n)
<1>1. /\ W \in Nat /\ W > 0 /\ b.bitmapWindowStart \in Nat /\ b.blockAckBitmap \in SUBSET Nat
      /\ b.frameBuffer \in SUBSET [seq : Nat, id : Nat] /\ b.currentLowestUnreceived \in Nat
  BY SequenceNumbersAssumption DEF Buffers
<1>2. /\ c.blockAckBitmap = bits /\ c.currentLowestUnreceived = n + 1
      /\ c.frameBuffer = b.frameBuffer /\ c.bitmapWindowStart = start
      /\ c.blockAckSessionIsActive = b.blockAckSessionIsActive
      /\ c \in Buffers
  <2>1. start \in Nat /\ bits \in SUBSET Nat /\ n + 1 \in Nat  BY <1>1
  <2> QED  BY <2>1, <1>1 DEF MarkNextOfFullWindow, Buffers
<1>3. b.frameBuffer = {}
  BY <1>1 DEF FramesInv, WindowInv, Window
<1> HIDE DEF c
<1>4. WindowInv(c)  BY <1>1, <1>2 DEF WindowInv, Window
<1>5. FramesInv(c)
  <2>1. \A s \in bits : ~(s > n + 1)  BY <1>1
  <2> HIDE DEF bits
  <2> QED  BY <1>2, <1>3, <2>1 DEF FramesInv
<1> QED  BY <1>2, <1>4, <1>5 DEF c

\* Every frame of a session for which the assertion on the shift holds.
LEMMA BufferSubframeInv ==
    ASSUME NEW b, BufferInv(b), b.blockAckSessionIsActive,
           NEW n \in Nat, NEW id \in Nat, ShiftAssertion(b, n)
    PROVE  BufferInv(BufferSubframe(b, n, id))
<1> DEFINE frame == [seq |-> n, id |-> id]
           u == UpdateReceivedFrameBitmap(b, n)
<1>1. b \in Buffers /\ WindowInv(b) /\ FramesInv(b)  BY DEF BufferInv
<1>2. W \in Nat /\ W > 0 /\ b.bitmapWindowStart \in Nat /\ b.currentLowestUnreceived \in Nat
  BY <1>1, SequenceNumbersAssumption DEF Buffers
<1>3. CASE HaveAlreadySeen(b, n)
  <2>1. BufferSubframe(b, n, id) = b
    BY <1>3 DEF BufferSubframe, UpdateReceivedFrameBitmap
  <2> QED  BY <2>1
<1>4. CASE ~HaveAlreadySeen(b, n) /\ n < b.bitmapWindowStart + W
  <2>1. n >= b.currentLowestUnreceived /\ n \notin b.blockAckBitmap
    BY <1>4, <1>2 DEF HaveAlreadySeen
  <2>2. u = MarkInWindow(b, n)  BY <1>4 DEF UpdateReceivedFrameBitmap
  <2>3. CASE n = b.currentLowestUnreceived
    <3>1. FrameIsInOrder(b, n)  BY <1>4, <2>3, <1>2 DEF FrameIsInOrder
    <3>2. BufferSubframe(b, n, id) = MarkInWindow(b, n)
      BY <3>1, <2>2 DEF BufferSubframe
    <3> QED  BY <3>2, <1>1, <1>4, <2>3, InOrderInWindow DEF BufferInv
  <2>4. CASE n > b.currentLowestUnreceived
    <3>1. ~FrameIsInOrder(b, n)  BY <2>4, <1>2 DEF FrameIsInOrder
    <3>2. BufferSubframe(b, n, id) = [MarkInWindow(b, n) EXCEPT !.frameBuffer = @ \cup {frame}]
      BY <3>1, <2>2, <1>4 DEF BufferSubframe
    <3> QED  BY <3>2, <1>1, <1>4, <2>1, <2>4, OutOfOrderInWindow DEF BufferInv
  <2> QED  BY <2>1, <2>3, <2>4, <1>2
<1>5. CASE ~HaveAlreadySeen(b, n) /\ n >= b.bitmapWindowStart + W
           /\ n # b.currentLowestUnreceived
  <2>1. IsBeyondWindow(b, n) /\ n - W + 1 <= b.currentLowestUnreceived
    BY <1>5 DEF IsBeyondWindow, ShiftAssertion
  <2>2. u = ShiftWindowTo(b, n)  BY <1>5, <1>2, <2>1 DEF UpdateReceivedFrameBitmap
  <2>3. ~FrameIsInOrder(b, n)  BY <1>5 DEF FrameIsInOrder
  <2>4. BufferSubframe(b, n, id) = [ShiftWindowTo(b, n) EXCEPT !.frameBuffer = @ \cup {frame}]
    BY <2>2, <2>3, <1>5 DEF BufferSubframe
  <2> QED  BY <2>4, <2>1, <1>1, <1>5, BeyondWindow DEF BufferInv
<1>6. CASE ~HaveAlreadySeen(b, n) /\ n >= b.bitmapWindowStart + W
           /\ n = b.currentLowestUnreceived
  <2>1. n = b.bitmapWindowStart + W  BY <1>1, <1>2, <1>6 DEF WindowInv
  <2>2. u = MarkNextOfFullWindow(b, n)
    BY <1>6, <1>2, <2>1 DEF UpdateReceivedFrameBitmap, IsBeyondWindow
  <2>3. FrameIsInOrder(b, n)  BY <1>6, <2>1, <1>2 DEF FrameIsInOrder
  <2>4. BufferSubframe(b, n, id) = MarkNextOfFullWindow(b, n)
    BY <2>2, <2>3 DEF BufferSubframe
  <2> QED  BY <2>1, <2>4, <1>1, <1>6, NextOfFullWindow DEF BufferInv
<1> QED  BY <1>2, <1>3, <1>4, <1>5, <1>6

-----------------------------------------------------------------------------
(* Numbers. *)

\* The difference of two sequence numbers is an integer.
LEMMA DifferenceIsInteger ==
    ASSUME NEW a \in SequenceNumbers, NEW c \in SequenceNumbers
    PROVE  CalcTwelveBitSequenceNumberDifference(a, c) \in Int
BY SequenceNumbersAssumption
DEF SequenceNumbers, CalcTwelveBitSequenceNumberDifference, TwelveBitSequenceNumberIsLessThan

\* The number on the air of a natural number is a sequence number.
LEMMA RealNumber ==
    ASSUME NEW n \in Nat
    PROVE  n % SeqMod \in SequenceNumbers
BY SequenceNumbersAssumption DEF SequenceNumbers

\* The assertion on the conversion makes it a natural number.
LEMMA NonWrappingIsNatural ==
    ASSUME NEW b \in Buffers, NEW seq \in SequenceNumbers, ConversionAssertion(b, seq)
    PROVE  NonWrapping(b, seq) \in Nat
<1>1. b.bitmapWindowStart + W \in Nat  BY SequenceNumbersAssumption DEF Buffers
<1>2. CalcTwelveBitSequenceNumberDifference(seq, (b.bitmapWindowStart + W) % SeqMod) \in Int
  BY <1>1, RealNumber, DifferenceIsInteger
<1> QED  BY <1>1, <1>2 DEF NonWrapping, ConversionAssertion

-----------------------------------------------------------------------------
(* Before the session, and block ack requests. *)

\* A frame accepted outside a session keeps the buffer's invariant,
LEMMA AcceptWithoutSessionInv ==
    ASSUME NEW b, BufferInv(b), ~b.blockAckSessionIsActive, NEW seq \in SequenceNumbers
    PROVE  BufferInv(AcceptWithoutSession(b, seq))
<1> DEFINE d == SequenceNumberDifference(b, seq)
           c == AcceptWithoutSession(b, seq)
<1>1. b \in Buffers /\ b.blockAckBitmap = {} /\ b.frameBuffer = {}
      /\ b.currentLowestUnreceived \in Nat
  BY DEF BufferInv, Buffers
<1>2. d \in Int
  BY <1>1, RealNumber, DifferenceIsInteger DEF SequenceNumberDifference
<1>3. CASE d < 0  BY <1>3 DEF AcceptWithoutSession
<1>4. CASE d >= 0
  <2>1. c = [b EXCEPT !.currentLowestUnreceived = b.currentLowestUnreceived + 1 + d]
    BY <1>4, <1>2 DEF AcceptWithoutSession
  <2>2. b.currentLowestUnreceived + 1 + d \in Nat  BY <1>1, <1>2, <1>4
  <2> HIDE DEF c, d
  <2>3. c \in Buffers /\ c.blockAckBitmap = {} /\ c.frameBuffer = {}
        /\ c.blockAckSessionIsActive = b.blockAckSessionIsActive
    BY <2>1, <2>2, <1>1 DEF Buffers
  <2>4. BufferInv(c)  BY <2>3 DEF BufferInv, FramesInv
  <2> QED  BY <2>4 DEF c
<1> QED  BY <1>2, <1>3, <1>4

\* opening a session keeps it,
LEMMA OpenSessionInv ==
    ASSUME NEW b, BufferInv(b), ~b.blockAckSessionIsActive, NEW seq \in SequenceNumbers
    PROVE  BufferInv(OpenSession(b, seq))
<1> DEFINE c == OpenSession(b, seq)
<1>1. b \in Buffers /\ b.blockAckBitmap = {} /\ b.frameBuffer = {} /\ seq \in Nat
  BY DEF BufferInv, SequenceNumbers
<1>2. /\ c \in Buffers /\ c.blockAckBitmap = {} /\ c.frameBuffer = {}
      /\ c.blockAckSessionIsActive = TRUE
      /\ c.bitmapWindowStart = seq /\ c.currentLowestUnreceived = seq
  BY <1>1 DEF OpenSession, Buffers
<1> HIDE DEF c
<1>3. WindowInv(c)  BY <1>1, <1>2, SequenceNumbersAssumption DEF WindowInv, Window
<1>4. BufferInv(c)  BY <1>2, <1>3 DEF BufferInv, FramesInv
<1> QED  BY <1>4 DEF c

\* and so does moving the window's start.
LEMMA MoveWindowStartInv ==
    ASSUME NEW b, BufferInv(b), b.blockAckSessionIsActive,
           NEW n \in Nat, b.bitmapWindowStart < n
    PROVE  BufferInv(MoveWindowStart(b, n))
<1> DEFINE bits == {s \in b.blockAckBitmap : s >= n}
           behind == b.currentLowestUnreceived < n
           run == EndOfRun(bits, n, n + W)
           lowest == IF behind THEN run ELSE b.currentLowestUnreceived
           frames == IF behind THEN {f \in b.frameBuffer : f.seq >= run} ELSE b.frameBuffer
           c == MoveWindowStart(b, n)
<1>1. b \in Buffers /\ WindowInv(b) /\ FramesInv(b)  BY DEF BufferInv
<1>2. /\ W \in Nat /\ W > 0 /\ b.bitmapWindowStart \in Nat /\ b.blockAckBitmap \in SUBSET Nat
      /\ b.frameBuffer \in SUBSET [seq : Nat, id : Nat] /\ b.currentLowestUnreceived \in Nat
  BY <1>1, SequenceNumbersAssumption DEF Buffers
<1>3. n + W \in Nat /\ n <= n + W /\ n + W \notin bits /\ bits \in SUBSET Nat
  BY <1>1, <1>2 DEF WindowInv, Window
<1>4. run \in n .. n + W /\ run \notin bits /\ n .. run - 1 \subseteq bits
  <2> HIDE DEF bits
  <2> QED  BY <1>3, EndOfRunLemma
<1>5. c = [b EXCEPT !.bitmapWindowStart = n,
                    !.blockAckBitmap = bits,
                    !.currentLowestUnreceived = lowest,
                    !.frameBuffer = frames]
  <2>1. CASE behind  BY <2>1, Zenon DEF MoveWindowStart
  <2>2. CASE ~behind  BY <2>2, Zenon DEF MoveWindowStart
  <2> QED  BY <2>1, <2>2
<1> HIDE DEF c, run
<1>6. lowest \in Nat /\ n <= lowest /\ lowest <= n + W
      /\ lowest \notin bits /\ n .. lowest - 1 \subseteq bits
  <2>1. CASE behind
    <3> HIDE DEF bits
    <3> QED  BY <2>1, <1>2, <1>4
  <2>2. CASE ~behind  BY <2>2, <1>1, <1>2 DEF WindowInv
  <2> QED  BY <2>1, <2>2
<1>7. frames \in SUBSET [seq : Nat, id : Nat]  BY <1>2
<1>8. bits \subseteq n .. n + W - 1  BY <1>1, <1>2 DEF WindowInv, Window
<1>9. /\ \A f \in frames : f.seq \in bits /\ f.seq > lowest
      /\ \A s \in bits : s > lowest => \E f \in frames : f.seq = s
  <2>1. CASE behind
    <3>1. ASSUME NEW f \in frames PROVE f.seq \in bits /\ f.seq > run
      <4>1. f.seq \in b.blockAckBitmap /\ f.seq \in Nat /\ f.seq >= run
        BY <2>1, <1>1, <1>2 DEF FramesInv
      <4>2. f.seq \in bits  BY <4>1, <1>2, <1>4
      <4>3. f.seq # run  BY <4>2, <1>4
      <4> QED  BY <4>1, <4>2, <4>3, <1>2, <1>4
    <3>2. ASSUME NEW s \in bits, s > run PROVE \E f \in frames : f.seq = s
      <4>1. s \in b.blockAckBitmap /\ s > b.currentLowestUnreceived
        BY <3>2, <2>1, <1>2, <1>4
      <4>2. PICK f \in b.frameBuffer : f.seq = s  BY <4>1, <1>1 DEF FramesInv
      <4> QED  BY <4>2, <3>2, <2>1, <1>2, <1>4
    <3> QED  BY <3>1, <3>2, <2>1
  <2>2. CASE ~behind
    <3>1. \A s \in b.blockAckBitmap : s > b.currentLowestUnreceived => s >= n
      BY <2>2, <1>2
    <3> QED  BY <3>1, <2>2, <1>1 DEF FramesInv
  <2> QED  BY <2>1, <2>2
<1>10. \A f, g \in frames : f.seq = g.seq => f = g  BY <1>1 DEF FramesInv
<1> HIDE DEF bits, lowest, frames
<1>11. /\ c.blockAckBitmap = bits /\ c.currentLowestUnreceived = lowest
       /\ c.frameBuffer = frames /\ c.bitmapWindowStart = n
       /\ c.blockAckSessionIsActive = b.blockAckSessionIsActive
       /\ c \in Buffers
  BY <1>1, <1>3, <1>5, <1>6, <1>7 DEF Buffers
<1>12. WindowInv(c)  BY <1>6, <1>8, <1>11 DEF WindowInv, Window
<1>13. FramesInv(c)  BY <1>9, <1>10, <1>11 DEF FramesInv
<1>14. BufferInv(c)  BY <1>11, <1>12, <1>13 DEF BufferInv
<1> QED  BY <1>14 DEF c

\* Every block ack request for which the assertions hold.
LEMMA BlockAckRequestInv ==
    ASSUME NEW b, BufferInv(b), NEW seq \in SequenceNumbers,
           BlockAckRequestAssertions(b, seq)
    PROVE  BufferInv(ProcessBlockAckRequestFrame(b, seq))
<1> DEFINE n == NonWrapping(b, seq)
<1>1. CASE ~b.blockAckSessionIsActive
  BY <1>1, OpenSessionInv DEF ProcessBlockAckRequestFrame
<1>2. CASE b.blockAckSessionIsActive /\ n = b.bitmapWindowStart
  BY <1>2 DEF ProcessBlockAckRequestFrame
<1>3. CASE b.blockAckSessionIsActive /\ n # b.bitmapWindowStart
  <2>1. b \in Buffers /\ b.bitmapWindowStart \in Nat  BY DEF BufferInv, Buffers
  <2>2. n \in Nat  BY <1>3, <2>1, NonWrappingIsNatural DEF BlockAckRequestAssertions
  <2>3. b.bitmapWindowStart < n  BY <1>3, <2>1, <2>2 DEF BlockAckRequestAssertions
  <2>4. ProcessBlockAckRequestFrame(b, seq) = MoveWindowStart(b, n)
    BY <1>3 DEF ProcessBlockAckRequestFrame
  <2> HIDE DEF n
  <2> QED  BY <1>3, <2>2, <2>3, <2>4, MoveWindowStartInv
<1> QED  BY <1>1, <1>2, <1>3

-----------------------------------------------------------------------------
(* Numbers and their remainders. *)

\* Division with remainder by SeqMod.
LEMMA Remainder ==
    ASSUME NEW n \in Int
    PROVE  \E x \in 0 .. SeqMod - 1, q \in Int : x = n % SeqMod /\ n = q * SeqMod + x
<1>1. SeqMod \in Nat /\ SeqMod > 0  BY SequenceNumbersAssumption
<1>2. n = (n \div SeqMod) * SeqMod + (n % SeqMod)  BY <1>1
<1>3. n \div SeqMod \in Int /\ n % SeqMod \in 0 .. SeqMod - 1  BY <1>1
<1> QED  BY <1>2, <1>3

\* Numbers less than SeqMod apart have remainders that differ by their difference, up to SeqMod.
LEMMA RemaindersDiffer ==
    ASSUME NEW a \in Int, NEW c \in Int, -SeqMod < a - c, a - c < SeqMod
    PROVE  (a % SeqMod) - (c % SeqMod) \in {a - c, a - c + SeqMod, a - c - SeqMod}
<1>1. SeqMod \in Nat /\ SeqMod > 0  BY SequenceNumbersAssumption
<1>2. PICK x \in 0 .. SeqMod - 1, q \in Int : x = a % SeqMod /\ a = q * SeqMod + x
  BY Remainder
<1>3. PICK y \in 0 .. SeqMod - 1, r \in Int : y = c % SeqMod /\ c = r * SeqMod + y
  BY Remainder
<1>4. PICK k \in Int : k = q - r  OBVIOUS
<1>5. q * SeqMod - r * SeqMod = k * SeqMod  BY <1>1, <1>4
<1>6. k * SeqMod = (a - c) - (x - y)  BY <1>1, <1>2, <1>3, <1>5
<1>7. k \in {-1, 0, 1}
  <2>1. -2 * SeqMod < k * SeqMod /\ k * SeqMod < 2 * SeqMod  BY <1>1, <1>6
  <2>2. CASE k >= 2
    <3>1. k * SeqMod >= 2 * SeqMod  BY <1>1, <2>2
    <3> QED  BY <2>1, <3>1, <1>1
  <2>3. CASE k <= -2
    <3>1. k * SeqMod <= -2 * SeqMod  BY <1>1, <2>3
    <3> QED  BY <2>1, <3>1, <1>1
  <2> QED  BY <2>2, <2>3
<1>8. CASE k = -1
  <2>1. k * SeqMod = -SeqMod  BY <1>8, <1>1
  <2> QED  BY <2>1, <1>6, <1>2, <1>3, <1>1
<1>9. CASE k = 0
  <2>1. k * SeqMod = 0  BY <1>9, <1>1
  <2> QED  BY <2>1, <1>6, <1>2, <1>3, <1>1
<1>10. CASE k = 1
  <2>1. k * SeqMod = SeqMod  BY <1>10, <1>1
  <2> QED  BY <2>1, <1>6, <1>2, <1>3, <1>1
<1> QED  BY <1>7, <1>8, <1>9, <1>10

\* The difference of two numbers is found from their remainders when they are near.
LEMMA DifferenceOfNumbers ==
    ASSUME NEW a \in Int, NEW c \in Int,
           2 * (a - c) < SeqMod, 2 * (c - a) < SeqMod
    PROVE  CalcTwelveBitSequenceNumberDifference(a % SeqMod, c % SeqMod) = a - c
<1>1. SeqMod \in Nat /\ SeqMod > 0  BY SequenceNumbersAssumption
<1>2. PICK x \in 0 .. SeqMod - 1 : x = a % SeqMod  BY Remainder
<1>3. PICK y \in 0 .. SeqMod - 1 : y = c % SeqMod  BY Remainder
<1>4. x - y \in {a - c, a - c + SeqMod, a - c - SeqMod}
  BY <1>1, <1>2, <1>3, RemaindersDiffer
<1>5. PICK h \in Int : h = (SeqMod - 1) \div 2 /\ 2 * h <= SeqMod - 1 /\ SeqMod - 1 <= 2 * h + 1
  BY <1>1
<1>6. CalcTwelveBitSequenceNumberDifference(x, y) = a - c
  <2>1. TwelveBitSequenceNumberIsLessThan(x, y) <=>
            (x < y /\ y - x <= h) \/ (x > y /\ x - y > h)
    BY <1>5 DEF TwelveBitSequenceNumberIsLessThan
  <2>2. CASE a < c
    <3>1. TwelveBitSequenceNumberIsLessThan(x, y)  BY <2>1, <2>2, <1>4, <1>5, <1>1
    <3> QED  BY <3>1, <2>2, <1>4, <1>1 DEF CalcTwelveBitSequenceNumberDifference
  <2>3. CASE a >= c
    <3>1. ~TwelveBitSequenceNumberIsLessThan(x, y)  BY <2>1, <2>3, <1>4, <1>5, <1>1
    <3> QED  BY <3>1, <2>3, <1>4, <1>1 DEF CalcTwelveBitSequenceNumberDifference
  <2> QED  BY <2>2, <2>3
<1> QED  BY <1>2, <1>3, <1>6

\* Numbers with the same remainder keep it when the same is added.
LEMMA SameRemainder ==
    ASSUME NEW a \in Int, NEW c \in Int, NEW k \in Int, a % SeqMod = c % SeqMod
    PROVE  (a + k) % SeqMod = (c + k) % SeqMod
<1>1. SeqMod \in Nat /\ SeqMod > 0  BY SequenceNumbersAssumption
<1>2. PICK x \in 0 .. SeqMod - 1, q \in Int : x = a % SeqMod /\ a = q * SeqMod + x
  BY Remainder
<1>3. PICK x1 \in 0 .. SeqMod - 1, r \in Int : x1 = c % SeqMod /\ c = r * SeqMod + x1
  BY Remainder
<1>4. PICK y \in 0 .. SeqMod - 1, t \in Int : y = (a + k) % SeqMod /\ a + k = t * SeqMod + y
  <2>1. a + k \in Int  OBVIOUS
  <2> QED  BY <2>1, Remainder
<1>5. PICK u \in Int : u = t - q + r  OBVIOUS
<1>6. c + k = u * SeqMod + y
  <2>1. u * SeqMod = t * SeqMod - q * SeqMod + r * SeqMod  BY <1>5, <1>1
  <2> QED  BY <2>1, <1>2, <1>3, <1>4, <1>1
<1>7. PICK z \in 0 .. SeqMod - 1, v \in Int : z = (c + k) % SeqMod /\ c + k = v * SeqMod + z
  <2>1. c + k \in Int  OBVIOUS
  <2> QED  BY <2>1, Remainder
<1>8. PICK w \in Int : w = u - v  OBVIOUS
<1>9. w * SeqMod = z - y
  <2>1. w * SeqMod = u * SeqMod - v * SeqMod  BY <1>8, <1>1
  <2> QED  BY <2>1, <1>6, <1>7, <1>1
<1>10. w = 0
  <2>1. CASE w >= 1
    <3>1. w * SeqMod >= SeqMod  BY <1>1, <2>1
    <3> QED  BY <3>1, <1>9, <1>1
  <2>2. CASE w <= -1
    <3>1. w * SeqMod <= -SeqMod  BY <1>1, <2>2
    <3> QED  BY <3>1, <1>9, <1>1
  <2> QED  BY <2>1, <2>2
<1>11. w * SeqMod = 0  BY <1>10, <1>1
<1> QED  BY <1>4, <1>7, <1>9, <1>11

-----------------------------------------------------------------------------
(* What a frame or a block ack request of a session changes. *)

\* What every step of a session does: c is b later.  Nothing seen is forgotten, and the
\* frames that left the buffer are those the receiver does not wait for any more.
Advances(b, c) ==
    /\ BufferInv(c)
    /\ c.blockAckSessionIsActive
    /\ b.bitmapWindowStart <= c.bitmapWindowStart
    /\ b.currentLowestUnreceived <= c.currentLowestUnreceived
    /\ \A g \in b.frameBuffer \ c.frameBuffer :
           b.currentLowestUnreceived < g.seq /\ g.seq < c.currentLowestUnreceived
    /\ \A m \in Int : HaveAlreadySeen(b, m) => HaveAlreadySeen(c, m)

\* The effect of frame n that was not seen before.
TakesFrame(b, c, n, id) ==
    /\ HaveAlreadySeen(c, n)
    /\ c.bitmapWindowStart = b.bitmapWindowStart \/ c.bitmapWindowStart <= n - W + 1
    /\ c.blockAckBitmap \subseteq b.blockAckBitmap \cup {n}
    /\ c.frameBuffer \subseteq b.frameBuffer \cup {[seq |-> n, id |-> id]}
    /\ FrameIsInOrder(b, n) => c.frameBuffer \subseteq b.frameBuffer
    /\ ~FrameIsInOrder(b, n) => [seq |-> n, id |-> id] \in c.frameBuffer
    /\ \A m \in b.currentLowestUnreceived .. c.currentLowestUnreceived - 1 :
           \/ m = n /\ FrameIsInOrder(b, n)
           \/ \E g \in b.frameBuffer \ c.frameBuffer : g.seq = m

\* The types of the buffer's fields in a session.
LEMMA BufferFields ==
    ASSUME NEW b, BufferInv(b), b.blockAckSessionIsActive
    PROVE  /\ b \in Buffers /\ WindowInv(b) /\ FramesInv(b)
           /\ W \in Nat /\ W > 0 /\ b.bitmapWindowStart \in Nat
           /\ b.blockAckBitmap \in SUBSET Nat
           /\ b.frameBuffer \in SUBSET [seq : Nat, id : Nat] /\ b.currentLowestUnreceived \in Nat
BY SequenceNumbersAssumption DEF BufferInv, Buffers

\* What a frame not seen yet does to the buffer: it only advances, and has the frame.
LEMMA FrameEffect ==
    ASSUME NEW b, BufferInv(b), b.blockAckSessionIsActive,
           NEW n \in Nat, NEW id \in Nat, ShiftAssertion(b, n), ~HaveAlreadySeen(b, n)
    PROVE  LET c == BufferSubframe(b, n, id)
           IN Advances(b, c) /\ TakesFrame(b, c, n, id)
<1> DEFINE frame == [seq |-> n, id |-> id]
           c == BufferSubframe(b, n, id)
           lowest == b.currentLowestUnreceived
           start == b.bitmapWindowStart
<1>1. /\ b \in Buffers /\ WindowInv(b) /\ FramesInv(b)
      /\ W \in Nat /\ W > 0 /\ start \in Nat
      /\ b.blockAckBitmap \in SUBSET Nat
      /\ b.frameBuffer \in SUBSET [seq : Nat, id : Nat] /\ lowest \in Nat
  BY BufferFields
<1>2. BufferInv(c)  BY BufferSubframeInv
<1>3. /\ start <= lowest /\ lowest <= start + W
      /\ \A m \in b.blockAckBitmap : start <= m /\ m < start + W /\ m # lowest
      /\ \A m \in start .. lowest - 1 : m \in b.blockAckBitmap
  BY <1>1 DEF WindowInv, Window
<1>4. /\ \A f \in b.frameBuffer : f.seq \in b.blockAckBitmap /\ f.seq > lowest
      /\ \A s \in b.blockAckBitmap : s > lowest => \E f \in b.frameBuffer : f.seq = s
  BY <1>1 DEF FramesInv
<1>5. n >= lowest /\ n \notin b.blockAckBitmap  BY <1>1 DEF HaveAlreadySeen
<1>6. FrameIsInOrder(b, n) <=> n = lowest  BY <1>1, <1>3 DEF FrameIsInOrder
<1>7. CASE n < start + W /\ n = lowest
  <2> DEFINE bits == b.blockAckBitmap \cup {n}
             end == start + W
             run == EndOfRun(bits, n, end)
             frames == {f \in b.frameBuffer : f.seq >= run}
  <2>1. bits \in SUBSET Nat /\ end \in Nat /\ n <= end /\ end \notin bits
    BY <1>1, <1>3, <1>7
  <2>2. run \in n .. end /\ run \notin bits /\ n .. run - 1 \subseteq bits
    <3> HIDE DEF bits, end
    <3> QED  BY <2>1, EndOfRunLemma
  <2>3. c = [b EXCEPT !.blockAckBitmap = bits, !.currentLowestUnreceived = run,
                      !.frameBuffer = frames]
    BY <1>7, <1>6, ~HaveAlreadySeen(b, n), Zenon
    DEF BufferSubframe, UpdateReceivedFrameBitmap, MarkInWindow
  <2> HIDE DEF c, run
  <2>4. /\ c.blockAckBitmap = bits /\ c.currentLowestUnreceived = run
        /\ c.frameBuffer = frames /\ c.bitmapWindowStart = start
        /\ c.blockAckSessionIsActive = b.blockAckSessionIsActive
    BY <2>3, <1>1 DEF Buffers
  <2>5. n < run /\ run \in Nat  BY <2>1, <2>2
  <2>6. \A m \in Int : HaveAlreadySeen(b, m) => HaveAlreadySeen(c, m)
    BY <2>4, <2>5, <1>1, <1>7 DEF HaveAlreadySeen
  <2>7. HaveAlreadySeen(c, n)  BY <2>4 DEF HaveAlreadySeen
  <2>8. \A g \in b.frameBuffer \ c.frameBuffer : lowest < g.seq /\ g.seq < run
    BY <2>4, <2>5, <1>1, <1>4
  <2>9. ASSUME NEW m \in lowest .. run - 1, m # n
        PROVE  \E g \in b.frameBuffer \ c.frameBuffer : g.seq = m
    <3>1. m \in b.blockAckBitmap /\ m > lowest  BY <2>9, <2>2, <2>5, <1>1, <1>7
    <3>2. PICK g \in b.frameBuffer : g.seq = m  BY <3>1, <1>4
    <3> QED  BY <3>2, <2>4, <2>5, <1>1
  <2>10. Advances(b, c)  BY <1>1, <1>2, <1>7, <2>4, <2>5, <2>6, <2>8 DEF Advances
  <2>11. TakesFrame(b, c, n, id)  BY <1>6, <1>7, <2>4, <2>7, <2>9 DEF TakesFrame
  <2> QED  BY <2>10, <2>11 DEF c
<1>8. CASE n < start + W /\ n # lowest
  <2> DEFINE bits == b.blockAckBitmap \cup {n}
             kept == {f \in b.frameBuffer : f.seq >= lowest}
  <2>1. kept = b.frameBuffer  BY <1>1, <1>4
  <2>2. MarkInWindow(b, n) = [b EXCEPT !.blockAckBitmap = bits, !.currentLowestUnreceived = lowest,
                                       !.frameBuffer = kept]
    BY <1>8, Zenon DEF MarkInWindow
  <2>3. c = [MarkInWindow(b, n) EXCEPT !.frameBuffer = @ \cup {frame}]
    BY <1>8, <1>6, ~HaveAlreadySeen(b, n), Zenon DEF BufferSubframe, UpdateReceivedFrameBitmap
  <2> HIDE DEF c
  <2>4. /\ c.blockAckBitmap = bits /\ c.currentLowestUnreceived = lowest
        /\ c.frameBuffer = b.frameBuffer \cup {frame} /\ c.bitmapWindowStart = start
        /\ c.blockAckSessionIsActive = b.blockAckSessionIsActive
    <3> HIDE DEF kept, frame, bits
    <3> QED  BY <2>1, <2>2, <2>3, <1>1 DEF Buffers
  <2>6. \A m \in Int : HaveAlreadySeen(b, m) => HaveAlreadySeen(c, m)
    BY <2>4, <1>1 DEF HaveAlreadySeen
  <2>7. HaveAlreadySeen(c, n)  BY <2>4 DEF HaveAlreadySeen
  <2>10. Advances(b, c)  BY <1>1, <1>2, <2>4, <2>6 DEF Advances
  <2>11. TakesFrame(b, c, n, id)  BY <1>1, <1>6, <1>8, <2>4, <2>7 DEF TakesFrame
  <2> QED  BY <2>10, <2>11 DEF c
<1>9. CASE n >= start + W /\ n # lowest
  <2> DEFINE bits == {s \in b.blockAckBitmap : s >= n - W + 1} \cup {n}
  <2>1. n - W + 1 <= lowest /\ IsBeyondWindow(b, n)
    BY <1>9, ~HaveAlreadySeen(b, n), ShiftAssertion(b, n) DEF IsBeyondWindow, ShiftAssertion
  <2>2. ShiftWindowTo(b, n) = [b EXCEPT !.bitmapWindowStart = n - W + 1, !.blockAckBitmap = bits]
    BY Zenon DEF ShiftWindowTo
  <2>3. c = [ShiftWindowTo(b, n) EXCEPT !.frameBuffer = @ \cup {frame}]
    <3>1. ~(n < start + W)  BY <1>9, <1>1
    <3> QED
      BY <3>1, <2>1, <1>9, <1>6, ~HaveAlreadySeen(b, n), Zenon
      DEF BufferSubframe, UpdateReceivedFrameBitmap
  <2> HIDE DEF c
  <2>4. /\ c.blockAckBitmap = bits /\ c.currentLowestUnreceived = lowest
        /\ c.frameBuffer = b.frameBuffer \cup {frame} /\ c.bitmapWindowStart = n - W + 1
        /\ c.blockAckSessionIsActive = b.blockAckSessionIsActive
    <3> HIDE DEF frame, bits
    <3> QED  BY <2>2, <2>3, <1>1 DEF Buffers
  <2>6. \A m \in Int : HaveAlreadySeen(b, m) => HaveAlreadySeen(c, m)
    BY <2>1, <2>4, <1>1 DEF HaveAlreadySeen
  <2>7. HaveAlreadySeen(c, n)  BY <2>4 DEF HaveAlreadySeen
  <2>10. Advances(b, c)  BY <1>1, <1>2, <1>9, <2>4, <2>6 DEF Advances
  <2>11. TakesFrame(b, c, n, id)  BY <1>1, <1>6, <1>9, <2>4, <2>7 DEF TakesFrame
  <2> QED  BY <2>10, <2>11 DEF c
<1>10. CASE n >= start + W /\ n = lowest
  <2>1. n = start + W /\ ~(n < start + W)  BY <1>10, <1>1, <1>3
  <2>2. c = MarkNextOfFullWindow(b, n)
    BY <2>1, <1>10, <1>6, ~HaveAlreadySeen(b, n), Zenon
    DEF BufferSubframe, UpdateReceivedFrameBitmap, IsBeyondWindow
  <2> DEFINE bits == start + 1 .. start + W
  <2> HIDE DEF c
  <2>4. /\ c.blockAckBitmap = bits /\ c.currentLowestUnreceived = n + 1
        /\ c.frameBuffer = b.frameBuffer /\ c.bitmapWindowStart = start + 1
        /\ c.blockAckSessionIsActive = b.blockAckSessionIsActive
    BY <2>2, <1>1 DEF MarkNextOfFullWindow, Buffers
  <2>5. \A m \in bits : m = n \/ m \in b.blockAckBitmap  BY <2>1, <1>1, <1>3, <1>10
  <2>6. \A m \in Int : HaveAlreadySeen(b, m) => HaveAlreadySeen(c, m)
    BY <2>4, <2>1, <1>1, <1>3, <1>10 DEF HaveAlreadySeen
  <2>7. HaveAlreadySeen(c, n)  BY <2>4, <1>10 DEF HaveAlreadySeen
  <2>10. Advances(b, c)  BY <1>1, <1>2, <1>10, <2>4, <2>6 DEF Advances
  <2>11. TakesFrame(b, c, n, id)  BY <1>1, <1>6, <1>10, <2>1, <2>4, <2>5, <2>7 DEF TakesFrame
  <2> QED  BY <2>10, <2>11 DEF c
<1> QED  BY <1>1, <1>7, <1>8, <1>9, <1>10

\* The effect of a block ack request for number n of an open session.
LEMMA RequestEffect ==
    ASSUME NEW b, BufferInv(b), b.blockAckSessionIsActive, NEW seq \in SequenceNumbers,
           NEW n \in Nat, n = NonWrapping(b, seq), b.bitmapWindowStart <= n
    PROVE  LET c == ProcessBlockAckRequestFrame(b, seq)
           IN /\ Advances(b, c)
              /\ c.bitmapWindowStart = n
              /\ c.blockAckBitmap \subseteq b.blockAckBitmap
              /\ c.frameBuffer \subseteq b.frameBuffer
              /\ \A m \in b.currentLowestUnreceived .. c.currentLowestUnreceived - 1 :
                     m < n \/ \E g \in b.frameBuffer \ c.frameBuffer : g.seq = m
              /\ c.currentLowestUnreceived \in {b.currentLowestUnreceived, n}
                 \/ c.currentLowestUnreceived - 1 \in b.blockAckBitmap
<1> DEFINE c == ProcessBlockAckRequestFrame(b, seq)
           lowest == b.currentLowestUnreceived
           start == b.bitmapWindowStart
<1>1. /\ b \in Buffers /\ WindowInv(b) /\ FramesInv(b)
      /\ W \in Nat /\ W > 0 /\ start \in Nat
      /\ b.blockAckBitmap \in SUBSET Nat
      /\ b.frameBuffer \in SUBSET [seq : Nat, id : Nat] /\ lowest \in Nat
  BY BufferFields
<1>2. BufferInv(c)
  BY BlockAckRequestInv DEF BlockAckRequestAssertions, ConversionAssertion
<1>3. /\ start <= lowest /\ lowest <= start + W
      /\ \A m \in b.blockAckBitmap : start <= m /\ m < start + W /\ m # lowest
      /\ \A m \in start .. lowest - 1 : m \in b.blockAckBitmap
  BY <1>1 DEF WindowInv, Window
<1>4. /\ \A f \in b.frameBuffer : f.seq \in b.blockAckBitmap /\ f.seq > lowest
      /\ \A s \in b.blockAckBitmap : s > lowest => \E f \in b.frameBuffer : f.seq = s
  BY <1>1 DEF FramesInv
<1>5. CASE n = start
  <2>1. c = b  BY <1>5 DEF ProcessBlockAckRequestFrame
  <2>2. Advances(b, b)  BY <1>1 DEF Advances
  <2> QED  BY <2>1, <2>2, <1>1, <1>5
<1>6. CASE n # start
  <2> DEFINE bits == {s \in b.blockAckBitmap : s >= n}
             run == EndOfRun(bits, n, n + W)
  <2>1. c = MoveWindowStart(b, n)  BY <1>6 DEF ProcessBlockAckRequestFrame
  <2>2. n + W \in Nat /\ n <= n + W /\ n + W \notin bits /\ bits \in SUBSET Nat
    BY <1>1, <1>3
  <2>3. run \in n .. n + W /\ run \notin bits /\ n .. run - 1 \subseteq bits
    <3> HIDE DEF bits
    <3> QED  BY <2>2, EndOfRunLemma
  <2>4. CASE lowest < n
    <3> DEFINE frames == {f \in b.frameBuffer : f.seq >= run}
    <3>1. c = [b EXCEPT !.bitmapWindowStart = n, !.blockAckBitmap = bits,
                        !.currentLowestUnreceived = run, !.frameBuffer = frames]
      BY <2>1, <2>4, Zenon DEF MoveWindowStart
    <3> HIDE DEF c, run
    <3>2. /\ c.blockAckBitmap = bits /\ c.currentLowestUnreceived = run
          /\ c.frameBuffer = frames /\ c.bitmapWindowStart = n
          /\ c.blockAckSessionIsActive = b.blockAckSessionIsActive
      BY <3>1, <1>1 DEF Buffers
    <3>3. run \in Nat /\ n <= run  BY <2>2, <2>3
    <3>4. \A m \in Int : HaveAlreadySeen(b, m) => HaveAlreadySeen(c, m)
      BY <3>2, <3>3, <2>4, <1>1 DEF HaveAlreadySeen
    <3>5. \A g \in b.frameBuffer \ c.frameBuffer : lowest < g.seq /\ g.seq < run
      BY <3>2, <3>3, <1>1, <1>4
    <3>6. ASSUME NEW m \in lowest .. run - 1, ~(m < n)
          PROVE  \E g \in b.frameBuffer \ c.frameBuffer : g.seq = m
      <4>1. m \in b.blockAckBitmap /\ m > lowest  BY <3>6, <2>3, <3>3, <1>1, <2>4
      <4>2. PICK g \in b.frameBuffer : g.seq = m  BY <4>1, <1>4
      <4> QED  BY <4>2, <3>2, <3>3, <1>1
    <3>7. run = n \/ run - 1 \in b.blockAckBitmap
      <4>1. CASE run # n
        <5>1. run - 1 \in n .. run - 1  BY <4>1, <3>3
        <5> QED  BY <5>1, <2>3
      <4> QED  BY <4>1
    <3>8. Advances(b, c)  BY <1>1, <1>2, <2>4, <3>2, <3>3, <3>4, <3>5 DEF Advances
    <3> QED  BY <3>2, <3>6, <3>7, <3>8 DEF c
  <2>5. CASE ~(lowest < n)
    <3>1. c = [b EXCEPT !.bitmapWindowStart = n, !.blockAckBitmap = bits,
                        !.currentLowestUnreceived = lowest, !.frameBuffer = b.frameBuffer]
      BY <2>1, <2>5, Zenon DEF MoveWindowStart
    <3> HIDE DEF c
    <3>2. /\ c.blockAckBitmap = bits /\ c.currentLowestUnreceived = lowest
          /\ c.frameBuffer = b.frameBuffer /\ c.bitmapWindowStart = n
          /\ c.blockAckSessionIsActive = b.blockAckSessionIsActive
      BY <3>1, <1>1 DEF Buffers
    <3>4. \A m \in Int : HaveAlreadySeen(b, m) => HaveAlreadySeen(c, m)
      BY <3>2, <2>5, <1>1 DEF HaveAlreadySeen
    <3>8. Advances(b, c)  BY <1>1, <1>2, <2>5, <3>2, <3>4 DEF Advances
    <3> QED  BY <3>2, <3>8, <1>1 DEF c
  <2> QED  BY <2>4, <2>5
<1> QED  BY <1>5, <1>6

-----------------------------------------------------------------------------
(* The frames that leave the buffer. *)

\* How many members of S come before x.
Rank(S, key, x) == Cardinality({y \in S : key[y] < key[x]})

\* The members of a finite set with different keys have the ranks from 0 on.
LEMMA Ranking ==
    ASSUME NEW S, IsFiniteSet(S), NEW key, \A x \in S : key[x] \in Nat,
           \A x, y \in S : key[x] = key[y] => x = y
    PROVE  /\ Cardinality(S) \in Nat /\ (S = {} <=> Cardinality(S) = 0)
           /\ \A x \in S : Rank(S, key, x) \in 0 .. Cardinality(S) - 1
           /\ \A x, y \in S : Rank(S, key, x) < Rank(S, key, y) <=> key[x] < key[y]
           /\ \A x, y \in S : Rank(S, key, x) = Rank(S, key, y) => x = y
           /\ \A k \in 0 .. Cardinality(S) - 1 : \E x \in S : Rank(S, key, x) = k
<1> DEFINE N == Cardinality(S)
           Below(x) == {y \in S : key[y] < key[x]}
           rank == [x \in S |-> Rank(S, key, x)]
<1>1. N \in Nat /\ (S = {} <=> N = 0)  BY FS_CardinalityType, FS_EmptySet
<1>2. ASSUME NEW f \in S
      PROVE  IsFiniteSet(Below(f)) /\ Rank(S, key, f) \in 0 .. N - 1
  <2>1. IsFiniteSet(Below(f)) /\ Rank(S, key, f) <= N /\ (N = Rank(S, key, f) => S = Below(f))
    BY FS_Subset DEF Rank
  <2>2. Rank(S, key, f) \in Nat  BY <2>1, FS_CardinalityType DEF Rank
  <2>3. f \notin Below(f)  OBVIOUS
  <2> HIDE DEF Below
  <2>4. Rank(S, key, f) # N  BY <2>1, <2>3
  <2> QED  BY <1>1, <2>1, <2>2, <2>4
<1>3. ASSUME NEW f \in S, NEW h \in S, key[f] < key[h]
      PROVE  Rank(S, key, f) < Rank(S, key, h)
  <2>1. Below(f) \in SUBSET Below(h)  BY <1>3
  <2>2. f \in Below(h) /\ f \notin Below(f)  BY <1>3
  <2>3. Rank(S, key, f) = Cardinality(Below(f)) /\ Rank(S, key, h) = Cardinality(Below(h))
    BY DEF Rank
  <2> HIDE DEF Below
  <2>4. Rank(S, key, f) <= Rank(S, key, h)
        /\ (Rank(S, key, h) = Rank(S, key, f) => Below(h) = Below(f))
    BY <1>2, <2>1, <2>3, FS_Subset
  <2> QED  BY <1>2, <2>2, <2>4
<1>a. \A f \in S : Rank(S, key, f) \in Int /\ Rank(S, key, f) \in 0 .. N - 1
  <2> SUFFICES ASSUME NEW f \in S
               PROVE  Rank(S, key, f) \in Int /\ Rank(S, key, f) \in 0 .. N - 1
    OBVIOUS
  <2>1. Rank(S, key, f) \in 0 .. N - 1  BY <1>2
  <2> QED  BY <2>1
<1>b. \A f, h \in S : key[f] < key[h] => Rank(S, key, f) < Rank(S, key, h)  BY <1>3
<1>4. \A f, h \in S : Rank(S, key, f) = Rank(S, key, h) => f = h
  <2> SUFFICES ASSUME NEW f \in S, NEW h \in S, Rank(S, key, f) = Rank(S, key, h) PROVE f = h
    OBVIOUS
  <2>1. key[f] \in Nat /\ key[h] \in Nat  OBVIOUS
  <2>2. ~(key[f] < key[h]) /\ ~(key[h] < key[f])  BY <1>a, <1>b
  <2> QED  BY <2>1, <2>2
<1>5. \A f, h \in S : Rank(S, key, f) < Rank(S, key, h) => key[f] < key[h]
  <2> SUFFICES ASSUME NEW f \in S, NEW h \in S, Rank(S, key, f) < Rank(S, key, h),
                      ~(key[f] < key[h])
               PROVE  FALSE
    OBVIOUS
  <2>1. key[f] \in Nat /\ key[h] \in Nat  OBVIOUS
  <2>2. CASE key[f] = key[h]  BY <2>2, <1>a
  <2>3. CASE key[h] < key[f]  BY <2>3, <1>a, <1>b
  <2> QED  BY <2>1, <2>2, <2>3
<1>6. rank \in Injection(S, 0 .. N - 1)
  <2>1. rank \in [S -> 0 .. N - 1]  BY <1>2
  <2>2. \A f, h \in S : rank[f] = rank[h] => f = h  BY <1>4
  <2> HIDE DEF rank
  <2> QED  BY <2>1, <2>2, Zenon DEF Injection, IsInjective
<1>7. IsFiniteSet(0 .. N - 1) /\ Cardinality(0 .. N - 1) = N
  <2>1. 0 \in Int /\ N - 1 \in Int  BY <1>1
  <2> QED  BY <1>1, <2>1, FS_Interval
<1>8. rank \in Surjection(S, 0 .. N - 1)
  <2> HIDE DEF rank, N
  <2>1. Cardinality(S) = Cardinality(0 .. N - 1)  BY <1>7 DEF N
  <2> QED  BY <1>6, <1>7, <2>1, FS_Injection
<1>9. ASSUME NEW k \in 0 .. N - 1 PROVE \E x \in S : Rank(S, key, x) = k
  <2>1. PICK f \in S : rank[f] = k
    <3> HIDE DEF rank
    <3> QED  BY <1>8 DEF Surjection
  <2> QED  BY <2>1
<1> QED  BY <1>1, <1>a, <1>b, <1>4, <1>5, <1>9

Ids(frames) == {g.id : g \in frames}

\* Frames with different numbers leave the buffer in the order of their numbers.
LEMMA InSequenceLemma ==
    ASSUME NEW frames \in SUBSET [seq : Nat, id : Nat], IsFiniteSet(frames),
           \A g, h \in frames : g.seq = h.seq => g = h
    PROVE  LET ids == InSequence(frames)
           IN /\ ids \in Seq(Nat) /\ (frames = {} => ids = <<>>)
              /\ {ids[i] : i \in DOMAIN ids} = Ids(frames)
              /\ \A i, j \in DOMAIN ids : i < j =>
                     \E g, h \in frames : g.seq < h.seq /\ ids[i] = g.id /\ ids[j] = h.id
<1> DEFINE N == Cardinality(frames)
           key == [g \in frames |-> g.seq]
           Before(f) == Cardinality({g \in frames : g.seq < f.seq})
           at == [k \in 1 .. N |-> CHOOSE f \in frames : Before(f) = k - 1]
           ids == InSequence(frames)
<1>1. /\ N \in Nat /\ (frames = {} <=> N = 0)
      /\ \A x \in frames : Rank(frames, key, x) \in 0 .. N - 1
      /\ \A x, y \in frames : Rank(frames, key, x) < Rank(frames, key, y) <=> key[x] < key[y]
      /\ \A x, y \in frames : Rank(frames, key, x) = Rank(frames, key, y) => x = y
      /\ \A k \in 0 .. N - 1 : \E x \in frames : Rank(frames, key, x) = k
  <2>1. \A x \in frames : key[x] \in Nat  OBVIOUS
  <2>2. \A x, y \in frames : key[x] = key[y] => x = y  OBVIOUS
  <2> HIDE DEF key
  <2> QED  BY <2>1, <2>2, Ranking
<1>2. ASSUME NEW f \in frames PROVE Before(f) = Rank(frames, key, f)
  <2>1. {g \in frames : g.seq < f.seq} = {g \in frames : key[g] < key[f]}  OBVIOUS
  <2> QED  BY <2>1, Zenon DEF Rank
<1>3. \A k \in 1 .. N : at[k] \in frames /\ Rank(frames, key, at[k]) = k - 1
  <2> SUFFICES ASSUME NEW k \in 1 .. N PROVE at[k] \in frames /\ Rank(frames, key, at[k]) = k - 1
    OBVIOUS
  <2>1. PICK x \in frames : Before(x) = k - 1
    <3>1. k - 1 \in 0 .. N - 1  BY <1>1
    <3> HIDE DEF Before, key, N
    <3> QED  BY <1>1, <1>2, <3>1
  <2>2. at[k] = CHOOSE f \in frames : Before(f) = k - 1  BY Zenon
  <2> HIDE DEF Before, at, key
  <2>3. at[k] \in frames /\ Before(at[k]) = k - 1  BY <2>1, <2>2
  <2> QED  BY <2>3, <1>2
<1>4. ids = [k \in 1 .. N |-> at[k].id]  BY DEF InSequence
<1>5. \A x \in frames : key[x] = x.seq  OBVIOUS
<1> HIDE DEF at, ids, N, Before, key
<1>6. ids \in Seq(Nat) /\ DOMAIN ids = 1 .. N /\ \A k \in 1 .. N : ids[k] = at[k].id
  <2>1. \A k \in 1 .. N : at[k].id \in Nat  BY <1>3
  <2> QED  BY <1>1, <1>4, <2>1
<1>7. {ids[i] : i \in DOMAIN ids} = Ids(frames)
  <2>1. ASSUME NEW k \in 1 .. N PROVE ids[k] \in Ids(frames)  BY <1>3, <1>6 DEF Ids
  <2>2. ASSUME NEW f \in frames PROVE \E k \in 1 .. N : ids[k] = f.id
    <3>1. PICK k \in 1 .. N : k = Rank(frames, key, f) + 1  BY <1>1
    <3>2. at[k] \in frames /\ Rank(frames, key, at[k]) = Rank(frames, key, f)
      BY <1>1, <1>3, <3>1
    <3> QED  BY <1>1, <1>6, <3>2
  <2> QED  BY <2>1, <2>2, <1>6 DEF Ids
<1>8. \A i, j \in 1 .. N : i < j =>
         at[i] \in frames /\ at[j] \in frames /\ at[i].seq < at[j].seq
  <2> SUFFICES ASSUME NEW i \in 1 .. N, NEW j \in 1 .. N, i < j
               PROVE  at[i] \in frames /\ at[j] \in frames /\ at[i].seq < at[j].seq
    OBVIOUS
  <2>1. /\ at[i] \in frames /\ at[j] \in frames
        /\ Rank(frames, key, at[i]) < Rank(frames, key, at[j])
    BY <1>1, <1>3
  <2> QED  BY <1>1, <1>5, <2>1
<1>9. \A i, j \in DOMAIN ids : i < j =>
         \E g, h \in frames : g.seq < h.seq /\ ids[i] = g.id /\ ids[j] = h.id
  BY <1>6, <1>8
<1>10. frames = {} => ids = <<>>  BY <1>1, <1>6
<1> QED  BY <1>6, <1>7, <1>9, <1>10 DEF ids

\* The buffer is finite when its numbers are bounded.
LEMMA BufferIsFinite ==
    ASSUME NEW frames \in SUBSET [seq : Nat, id : Nat], NEW top \in Nat,
           \A g, h \in frames : g.seq = h.seq => g = h,
           \A g \in frames : g.seq <= top
    PROVE  IsFiniteSet(frames)
<1> DEFINE number == [g \in frames |-> g.seq]
<1>1. number \in Injection(frames, 0 .. top)  BY DEF Injection, IsInjective
<1>2. IsFiniteSet(0 .. top)  BY FS_Interval
<1> HIDE DEF number
<1> QED  BY <1>1, <1>2, FS_Injection
=============================================================================
