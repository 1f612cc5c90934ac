--------------------------- MODULE LineDiscipline ---------------------------
(***************************************************************************)
(* What the console promises about input: keys are edited in a line, which *)
(* readers cannot see and erasing cannot leave, until a newline, an end of *)
(* file or a full buffer gives it to the readers, who take it in order.    *)
(***************************************************************************)
EXTENDS Naturals, Sequences

CONSTANTS Chars, Size

VARIABLES
  lines,      \* for the readers
  edit        \* the line being typed

Init == lines = <<>> /\ edit = <<>>

Complete(c) == c \in {"nl", "^D"} \/ Len(lines) + Len(edit) + 1 = Size

Type(c) ==
  /\ Len(lines) + Len(edit) < Size
  /\ IF Complete(c)
     THEN lines' = lines \o Append(edit, c) /\ edit' = <<>>
     ELSE edit' = Append(edit, c) /\ UNCHANGED lines

Erase ==
  /\ edit # <<>>
  /\ edit' = SubSeq(edit, 1, Len(edit) - 1)
  /\ UNCHANGED lines

Read ==
  /\ lines # <<>>
  /\ lines' = Tail(lines)
  /\ UNCHANGED edit

Next == (\E c \in Chars : Type(c)) \/ Erase \/ Read

Spec == Init /\ [][Next]_<<lines, edit>>
=============================================================================
