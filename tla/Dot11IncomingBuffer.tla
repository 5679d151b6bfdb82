------------------------- MODULE Dot11IncomingBuffer -------------------------
(***************************************************************************)
(* The reordering buffer an 802.11 MAC keeps for one transmitter and one   *)
(* traffic id (dot11/dot11_incoming_buffer.h): before a Block Ack session  *)
(* it only drops repeated frames, in a session it holds back frames that   *)
(* arrive out of order and keeps the bitmap that block acknowledgements    *)
(* carry.                                                                  *)
(*                                                                         *)
(* Frames carry sequence numbers modulo SeqMod.  The buffer works with     *)
(* numbers that do not wrap; the bitmap is the set of those whose bit is   *)
(* set.  Frames of the buffer are told apart by the id of their packet.    *)
(***************************************************************************)
EXTENDS Integers, Sequences, FiniteSets

CONSTANTS W,       \* BlockAckBitMapNumBits
          SeqMod   \* TwelveBitSequenceNumberMaxPlus1

ASSUME SequenceNumbersAssumption == W \in Nat \ {0} /\ SeqMod \in Nat /\ SeqMod > 2 * W

SequenceNumbers == 0 .. SeqMod - 1

TwelveBitSequenceNumberIsLessThan(a, b) ==
    \/ a < b /\ b - a <= (SeqMod - 1) \div 2
    \/ a > b /\ a - b > (SeqMod - 1) \div 2

CalcTwelveBitSequenceNumberDifference(a, b) ==
    IF TwelveBitSequenceNumberIsLessThan(a, b)
    THEN IF a <= b THEN a - b ELSE a - SeqMod - b
    ELSE IF a >= b THEN a - b ELSE a + (SeqMod - b)

IncrementTwelveBitSequenceNumber(a) == (a + 1) % SeqMod

-----------------------------------------------------------------------------
VARIABLE rcv   \* BufferLinkInfo: the state of the buffer

BufferTypeOK ==
    rcv \in [blockAckSessionIsActive : BOOLEAN,
             currentLowestUnreceived : Nat,
             bitmapWindowStart : Nat,
             blockAckBitmap : SUBSET Nat,
             frameBuffer : SUBSET [seq : Nat, id : Nat]]

InitialBuffer == [blockAckSessionIsActive |-> FALSE,
                  currentLowestUnreceived |-> 1,
                  bitmapWindowStart |-> 1,
                  blockAckBitmap |-> {},
                  frameBuffer |-> {}]

\* The number that does not wrap of a frame or block ack request of a session.
NonWrapping(b, seq) ==
    LET reference == b.bitmapWindowStart + W
    IN reference + CalcTwelveBitSequenceNumberDifference(seq, reference % SeqMod)

HaveAlreadySeen(b, n) == n < b.currentLowestUnreceived \/ n \in b.blockAckBitmap

\* A mutant: every new frame goes up at once.
FrameIsNew(b, n) == ~HaveAlreadySeen(b, n)

FrameIsInOrder(b, n) ==
    /\ ~HaveAlreadySeen(b, n)
    /\ n = b.currentLowestUnreceived
    /\ n <= b.bitmapWindowStart + W

\* The first number from "from" on whose bit is not set, at most "end".
EndOfRun(bits, from, end) ==
    CHOOSE n \in from .. end : n \notin bits /\ from .. n - 1 \subseteq bits

\* A mutant: the run of received frames ends with the window before it was full.
MarkInWindowUpToLast(b, n) ==
    LET bits == b.blockAckBitmap \cup {n}
        lowest == IF n = b.currentLowestUnreceived
                  THEN EndOfRun(bits \ {b.bitmapWindowStart + W - 1}, n, b.bitmapWindowStart + W)
                  ELSE b.currentLowestUnreceived
    IN [b EXCEPT !.blockAckBitmap = bits,
                 !.currentLowestUnreceived = lowest,
                 !.frameBuffer = {f \in @ : f.seq >= lowest}]

\* n is in the window.  If it is the lowest one missing, it and the buffered
\* frames that follow it without a gap leave the buffer.
MarkInWindow(b, n) ==
    LET bits == b.blockAckBitmap \cup {n}
        lowest == IF n = b.currentLowestUnreceived
                  THEN EndOfRun(bits, n, b.bitmapWindowStart + W)
                  ELSE b.currentLowestUnreceived
    IN [b EXCEPT !.blockAckBitmap = bits,
                 !.currentLowestUnreceived = lowest,
                 !.frameBuffer = {f \in @ : f.seq >= lowest}]

\* Nothing is missing and n follows the full window.
MarkNextOfFullWindow(b, n) ==
    [b EXCEPT !.currentLowestUnreceived = n + 1,
              !.bitmapWindowStart = @ + 1,
              !.blockAckBitmap = b.bitmapWindowStart + 1 .. b.bitmapWindowStart + W]

\* n is beyond the window, which moves on to end with it.
ShiftWindowTo(b, n) ==
    [b EXCEPT !.bitmapWindowStart = n - W + 1,
              !.blockAckBitmap = {s \in @ : s >= n - W + 1} \cup {n}]

IsBeyondWindow(b, n) ==
    /\ ~HaveAlreadySeen(b, n)
    /\ n >= b.bitmapWindowStart + W
    /\ ~(n = b.currentLowestUnreceived /\ n = b.bitmapWindowStart + W)

UpdateReceivedFrameBitmap(b, n) ==
    IF HaveAlreadySeen(b, n) THEN b
    ELSE IF n < b.bitmapWindowStart + W THEN MarkInWindow(b, n)
    ELSE IF IsBeyondWindow(b, n) THEN ShiftWindowTo(b, n)
    ELSE MarkNextOfFullWindow(b, n)

\* A frame or subframe of a session: out of order, it is put in the buffer.
BufferSubframe(b, n, id) ==
    LET updated == UpdateReceivedFrameBitmap(b, n)
    IN IF HaveAlreadySeen(b, n) \/ FrameIsInOrder(b, n) THEN updated
       ELSE [updated EXCEPT !.frameBuffer = @ \cup {[seq |-> n, id |-> id]}]

SequenceNumberDifference(b, seq) ==
    CalcTwelveBitSequenceNumberDifference(seq, b.currentLowestUnreceived % SeqMod)

\* A frame before the session: whatever is not behind is taken.
AcceptWithoutSession(b, seq) ==
    IF SequenceNumberDifference(b, seq) < 0 THEN b
    ELSE [b EXCEPT !.currentLowestUnreceived = @ + 1 + SequenceNumberDifference(b, seq)]

\* A block ack request opens the session with the window at its number.
OpenSession(b, seq) ==
    [b EXCEPT !.blockAckSessionIsActive = TRUE,
              !.bitmapWindowStart = seq,
              !.currentLowestUnreceived = seq]

\* A mutant: the frames that follow the new start without a gap stay in the buffer.
MoveWindowStartOnly(b, n) ==
    [b EXCEPT !.bitmapWindowStart = n,
              !.blockAckBitmap = {s \in @ : s >= n},
              !.currentLowestUnreceived = IF @ < n THEN n ELSE @,
              !.frameBuffer = {f \in @ : f.seq >= n}]

\* A block ack request moves the window: frames before it are not waited for.
MoveWindowStart(b, n) ==
    LET bits == {s \in b.blockAckBitmap : s >= n}
        lowest == IF b.currentLowestUnreceived < n THEN EndOfRun(bits, n, n + W)
                  ELSE b.currentLowestUnreceived
    IN [b EXCEPT !.bitmapWindowStart = n,
                 !.blockAckBitmap = bits,
                 !.currentLowestUnreceived = lowest,
                 !.frameBuffer = IF b.currentLowestUnreceived < n
                                 THEN {f \in @ : f.seq >= lowest} ELSE @]

ProcessBlockAckRequestFrame(b, seq) ==
    IF ~b.blockAckSessionIsActive THEN OpenSession(b, seq)
    ELSE IF NonWrapping(b, seq) = b.bitmapWindowStart THEN b
    ELSE MoveWindowStart(b, NonWrapping(b, seq))

\* The packets that left the buffer, in the order of their numbers.
InSequence(frames) ==
    [i \in 1 .. Cardinality(frames) |->
        (CHOOSE f \in frames : Cardinality({g \in frames : g.seq < f.seq}) = i - 1).id]

-----------------------------------------------------------------------------
(* The assertions that depend on the numbers the transmitter uses.  One that *)
(* fails ends the program, so the actions have them as guards.               *)

ConversionAssertion(b, seq) == NonWrapping(b, seq) >= 0

ShiftAssertion(b, n) == IsBeyondWindow(b, n) => n - W + 1 <= b.currentLowestUnreceived

FrameAssertions(b, seq) ==
    b.blockAckSessionIsActive => /\ ConversionAssertion(b, seq)
                                 /\ ShiftAssertion(b, NonWrapping(b, seq))

BlockAckRequestAssertions(b, seq) ==
    b.blockAckSessionIsActive => /\ ConversionAssertion(b, seq)
                                 /\ b.bitmapWindowStart <= NonWrapping(b, seq)

-----------------------------------------------------------------------------
Window(b) == b.bitmapWindowStart .. b.bitmapWindowStart + W - 1

\* The window never leaves a missing frame behind, the bitmap has a bit for
\* every frame of the window before the lowest one missing and none for that:
\* what a block acknowledgement says of the window is what was received.
WindowConsistent ==
    LET lowest == rcv.currentLowestUnreceived
        start == rcv.bitmapWindowStart
    IN rcv.blockAckSessionIsActive =>
         /\ start <= lowest /\ lowest <= start + W
         /\ rcv.blockAckBitmap \subseteq Window(rcv)
         /\ start .. lowest - 1 \subseteq rcv.blockAckBitmap
         /\ lowest \notin rcv.blockAckBitmap

\* The buffer holds one frame for every bit beyond the lowest missing frame and
\* no other.  So each loop that empties the run of received frames finds the
\* frame it asserts to be on top, and the buffer is empty where that is asserted.
BufferMatchesBitmap ==
    /\ {f.seq : f \in rcv.frameBuffer} =
          {s \in rcv.blockAckBitmap : s > rcv.currentLowestUnreceived}
    /\ \A f, g \in rcv.frameBuffer : f.seq = g.seq => f = g
=============================================================================
