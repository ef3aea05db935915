------------------------------- MODULE Screen -------------------------------
(***************************************************************************)
(* What printing promises, without saying how: a program asks for messages *)
(* one after the other, and the characters of each appear from left to     *)
(* right, from the cell that was asked for, before the program goes on.    *)
(* The three routines of Printing implement it.                            *)
(***************************************************************************)
EXTENDS BootMessages

CONSTANT Paths     \* the sequences of calls a program may make

VARIABLES
  calls,           \* the one it makes
  made,            \* how many of them have returned
  shown,           \* how many characters of the current message have appeared
  cells            \* cell |-> character, for the cells written so far

vars == <<calls, made, shown, cells>>

Current == calls[made + 1]

Cell(c) == c.y * Columns + c.x

-----------------------------------------------------------------------------
Init ==
  /\ calls \in Paths
  /\ made = 0 /\ shown = 0
  /\ cells = << >>

Put ==
  /\ made < Len(calls) /\ shown < Length[Current.message]
  /\ cells' = Written(cells, Cell(Current) + shown, Text[Current.message] + shown)
  /\ shown' = shown + 1
  /\ UNCHANGED <<calls, made>>

Return ==
  /\ made < Len(calls) /\ shown = Length[Current.message]
  /\ made' = made + 1
  /\ shown' = 0
  /\ UNCHANGED <<calls, cells>>

Next == Put \/ Return

Safety == Init /\ [][Next]_vars

Spec == Safety /\ WF_vars(Next)

-----------------------------------------------------------------------------
\* A message that has been printed stays readable: none of the boot's later
\* messages runs into it, except into the brackets it leaves for an outcome,
\* and none runs over its row's end (BootLoader.asm 49-62, 141-144, 157-160,
\* EntryPoint.s 67-70, Main.c 19-38).
Readable ==
  \A k \in 1..made :
    LET c == calls[k]
    IN  \A i \in 0..(Length[c.message] - 1) \ Hole(c.message) :
          /\ c.x + i < Columns
          /\ cells[Cell(c) + i] = Text[c.message] + i

\* At the end no bracket is left empty: every check that was announced has its
\* outcome, unless the boot ended in it (Main.c 22-38).
OutcomesFilledIn ==
  made = Len(calls) =>
    \A k \in 1..made :
      LET c == calls[k]
      IN  \A i \in Hole(c.message) : cells[Cell(c) + i] # Text[c.message] + i
=============================================================================
