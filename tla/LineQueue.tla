----------------------------- MODULE LineQueue -----------------------------
(***************************************************************************)
(* What an echoing program promises: the lines that were typed are shown   *)
(* in the order in which they were typed, each at most once and as it was  *)
(* typed, cut after Size characters.  A line may be dropped, but whole.    *)
(* Characters are their positions in typed.                                *)
(***************************************************************************)
EXTENDS Integers, Sequences, FiniteSets, FiniteSetsExt

CONSTANTS Letters, LineEnds, Size, Capacity

VARIABLES
  typed,    \* all that was typed
  first,    \* 1: a line end that begins a line belongs to it; 0: it ends it
  waiting,  \* lines to be shown
  shown

\* After the first e characters, where the line that is being typed begins.
Begun ==
  LET begun[e \in 0..Len(typed)] ==
        IF e = 0 THEN 1
        ELSE IF typed[e] \in LineEnds /\ e >= begun[e - 1] + first THEN e + 1
        ELSE begun[e - 1]
  IN  begun
Starts(n) == {Begun[e] : e \in 0..n} \ {Begun[n]}   \* of the lines that ended by then
Line(s) ==
  LET e == Max({n \in s..Len(typed) : Begun[n - 1] = s})
  IN  [i \in 1..Min({e + 1 - first - s, Size}) |-> (s + i) - 1]
Lines == {Line(s) : s \in Starts(Len(typed))}

Later(line) ==
  LET old == shown \o waiting
  IN  \A k \in 1..Len(old) : old[k][1] < line[1]

Init == typed = <<>> /\ first \in {0, 1} /\ waiting = <<>> /\ shown = <<>>

Type ==
  /\ \E c \in Letters \cup LineEnds : typed' = Append(typed, c)
  /\ UNCHANGED <<first, waiting, shown>>

Finish ==
  /\ \E line \in Lines :
       /\ Later(line)
       /\ \/ Len(waiting) < Capacity /\ waiting' = Append(waiting, line) /\ UNCHANGED shown
          \/ waiting = <<>> /\ shown' = Append(shown, line) /\ UNCHANGED waiting
  /\ UNCHANGED <<typed, first>>

Show ==
  /\ waiting # <<>>
  /\ shown' = Append(shown, Head(waiting)) /\ waiting' = Tail(waiting)
  /\ UNCHANGED <<typed, first>>

Next == Type \/ Finish \/ Show
Spec == Init /\ [][Next]_<<typed, first, waiting, shown>>
=============================================================================
