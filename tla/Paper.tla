--------------------------------- MODULE Paper ---------------------------------
(***************************************************************************)
(* What a terminal promises: a roll of paper and a pen.  All writing is on *)
(* the last line; a full line or a newline starts another; no line above   *)
(* the last ever changes.  There is no screen and nothing scrolls.         *)
(***************************************************************************)
EXTENDS Integers, SequencesExt

CONSTANTS Width, Tab, Ink, Blank

VARIABLES
    paper,      \* the lines, the last one with the pen on it
    pen         \* the pen's column, from 0

EmptyLine == [x \in 1..Width |-> Blank]

Init == paper = <<EmptyLine>> /\ pen = 0

(* The last line becomes l, and the pen goes to column x of it, or to the  *)
(* start of a new line when x is beyond the edge.                          *)
WriteLine(l, x) ==
    LET page == [paper EXCEPT ![Len(paper)] = l]
    IN  IF x < Width THEN paper' = page /\ pen' = x
        ELSE paper' = Append(page, EmptyLine) /\ pen' = 0

Strike(c) == WriteLine([Last(paper) EXCEPT ![pen + 1] = c], pen + 1)

NewLine == WriteLine(Last(paper), Width)

Return == WriteLine(Last(paper), 0)

Tabulate == WriteLine(Last(paper), ((pen \div Tab) + 1) * Tab)

RubOut == pen > 0 /\ WriteLine([Last(paper) EXCEPT ![pen] = Blank], pen - 1)

TearOff == paper' = <<EmptyLine>> /\ pen' = 0

Next ==
    \/ \E c \in Ink : Strike(c)
    \/ NewLine \/ Return \/ Tabulate \/ RubOut \/ TearOff

Spec == Init /\ [][Next]_<<paper, pen>>

===============================================================================
