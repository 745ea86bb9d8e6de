------------------------------- MODULE UserDb --------------------------------
(***************************************************************************)
(* What /etc/passwd promises: a list of users, to which users with new      *)
(* names and new ids are added and whose passwords change, one at a time.   *)
(***************************************************************************)
EXTENDS Integers, Sequences

CONSTANTS Root      \* the record that the image starts with
VARIABLE db

Init == db = <<Root>>

Add(old, new) ==
    LET u == new[Len(new)]
    IN  /\ Len(new) = Len(old) + 1 /\ SubSeq(new, 1, Len(old)) = old
        /\ \A i \in DOMAIN old : old[i].user # u.user /\ old[i].uid # u.uid

SetPassword(old, new) == /\ DOMAIN new = DOMAIN old
                         /\ \E i \in DOMAIN old : new = [old EXCEPT ![i].pass = new[i].pass]

Next == \E old \in {db}, new \in {db'} : Add(old, new) \/ SetPassword(old, new)

Spec == Init /\ [][Next]_db
=============================================================================
