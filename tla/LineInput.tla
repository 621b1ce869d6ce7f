------------------------------ MODULE LineInput ------------------------------
(***************************************************************************)
(* What the console promises to its readers: a line that is still typed    *)
(* can be edited and is not visible; a finished line is read in order,     *)
(* each character once, and no read goes beyond the end of a line.         *)
(***************************************************************************)
EXTENDS Naturals, Sequences

CONSTANTS Size, Ends, Letters     \* capacity, characters that end a line, others
VARIABLES lines, edit             \* what may be read, and the line being typed

Init == lines = <<>> /\ edit = <<>>

\* A character ends the line, or fills the buffer, or can still be erased.
Type(c) ==
  /\ Len(lines) + Len(edit) < Size
  /\ IF c \in Ends \/ Len(lines) + Len(edit) + 1 = Size
     THEN lines' = lines \o Append(edit, c) /\ edit' = <<>>
     ELSE edit' = Append(edit, c) /\ UNCHANGED lines

Erase == edit # <<>> /\ edit' = SubSeq(edit, 1, Len(edit) - 1) /\ UNCHANGED lines

KillLine == edit' = <<>> /\ UNCHANGED lines

Read ==
  \E k \in 1..Len(lines) :
    /\ \A j \in 1..(k - 1) : lines[j] \notin Ends
    /\ lines' = SubSeq(lines, k + 1, Len(lines))
    /\ UNCHANGED edit

Next == (\E c \in Ends \cup Letters : Type(c)) \/ Erase \/ KillLine \/ Read

Spec == Init /\ [][Next]_<<lines, edit>>
=============================================================================
