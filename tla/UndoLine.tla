------------------------------ MODULE UndoLine ------------------------------
(***************************************************************************)
(* What undo and redo promise: the contents of the project form a line, one *)
(* of them present.  An edit cuts off what was undone and adds to the line, *)
(* whose far end may be forgotten; undo and redo walk the line and lose     *)
(* nothing.  CommandHistory implements it.                                  *)
(***************************************************************************)
EXTENDS Naturals, Sequences

CONSTANT Limit

VARIABLES
    past, present, future,
    opened,     \* how often the project was opened
    off         \* the line is torn: nothing is promised

vars == <<past, present, future, opened, off>>

\* The end of the line is forgotten beyond the limit.
Newest(s) == IF Len(s) > Limit THEN Tail(s) ELSE s

Init == past = <<>> /\ future = <<>> /\ opened = 0 /\ off = FALSE

Edit ==
    /\ past' = Newest(Append(past, present))
    /\ future' = <<>>

Undo ==
    /\ past # <<>>
    /\ present' = past[Len(past)]
    /\ past' = SubSeq(past, 1, Len(past) - 1)
    /\ future' = <<present>> \o future

Redo ==
    /\ future # <<>>
    /\ present' = Head(future)
    /\ future' = Tail(future)
    /\ past' = Append(past, present)

\* The user clears the history; the project is not touched.
Clear == past' = <<>> /\ future' = <<>> /\ UNCHANGED present

Next ==
    \/ (Edit \/ Undo \/ Redo \/ Clear) /\ UNCHANGED <<opened, off>>
    \/ opened' = opened + 1 /\ Len(past') <= Limit /\ UNCHANGED off
    \/ off'

Spec == Init /\ [][Next]_vars
=============================================================================
