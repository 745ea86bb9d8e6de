------------------------------ MODULE LineInput ------------------------------
(***************************************************************************)
(* What console input promises: the line that is being typed may be         *)
(* edited, a line that is done may not, and done lines are read in order.   *)
(* Together they hold MAX characters.                                       *)
(***************************************************************************)
EXTENDS Naturals, Sequences

CONSTANTS Char, Ends, MAX     \* Ends: the characters that finish a line
VARIABLES ready, line

Type(c) ==
    LET new == Append(line, c)
        done == c \in Ends \/ Len(ready) + Len(new) = MAX
    IN  /\ Len(ready) + Len(line) < MAX
        /\ ready' = IF done THEN ready \o new ELSE ready
        /\ line' = IF done THEN <<>> ELSE new

Erase == line # <<>> /\ line' = SubSeq(line, 1, Len(line) - 1) /\ UNCHANGED ready

KillLine == line' = <<>> /\ UNCHANGED ready

Read == ready # <<>> /\ ready' = Tail(ready) /\ UNCHANGED line

Init == ready = <<>> /\ line = <<>>
Next == (\E c \in Char : Type(c)) \/ Erase \/ KillLine \/ Read
Spec == Init /\ [][Next]_<<ready, line>>
=============================================================================
