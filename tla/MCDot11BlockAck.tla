--------------------------- MODULE MCDot11BlockAck ---------------------------
(* Starts of a run: from the first frame on, or with an open session. *)
EXTENDS Dot11BlockAck

Start(number, isOpen, protect) ==
    [firstNumber |-> number, sessionIsOpen |-> isOpen, protect |-> protect]

FromFirstFrame == {Start(0, FALSE, FALSE)}
WithOpenSession == {Start(6, TRUE, FALSE)}

\* The numbers of the second one wrap.
FromFirstFrameOrProtected == FromFirstFrame \cup {Start(13, TRUE, TRUE)}
=============================================================================
