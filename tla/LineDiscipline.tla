--------------------------- MODULE LineDiscipline ---------------------------
(* What console input promises: a line can be edited until it is complete  *)
(* and is then read in order; an end-of-file mark is a read of no bytes.   *)
EXTENDS Naturals, Sequences

CONSTANTS Char, NL, EOF, Capacity

VARIABLES input,    \* complete lines nobody has read yet
          line      \* the line being typed

Init == input = <<>> /\ line = <<>>

\* A character completes the line if it ends it or if there is no more room.
Type(c) ==
  /\ Len(input) + Len(line) < Capacity
  /\ IF c \in {NL, EOF} \/ Len(input) + Len(line) + 1 = Capacity
     THEN input' = input \o Append(line, c) /\ line' = <<>>
     ELSE line' = Append(line, c) /\ UNCHANGED input

Erase == line # <<>> /\ line' = SubSeq(line, 1, Len(line) - 1) /\ UNCHANGED input

KillLine == line' = <<>> /\ UNCHANGED input

Read == input # <<>> /\ input' = Tail(input) /\ UNCHANGED line

Next == Erase \/ KillLine \/ Read \/ \E c \in Char : Type(c)

Spec == Init /\ [][Next]_<<input, line>>
=============================================================================
