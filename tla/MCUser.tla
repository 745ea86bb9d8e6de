------------------------------- MODULE MCUser --------------------------------
(***************************************************************************)
(* Small instances of the models of user programs, checked in one run: each *)
(* behaviour is a behaviour of one of them, while the others rest.          *)
(***************************************************************************)
EXTENDS Users, Shell, Malloc, Chmod, Grep

VARIABLE part

\* Two more users and a group, passwords of two lengths.
MCGroup == {<<"g">>}
MCUserNames == {<<"a">>, <<"b", "c">>}
MCPassword == {<<"x", "x">>, <<"x", "y", "z">>}

\* Command lines: every one of up to three tokens, the longer ones of operators that interact,
\* and five with several pipes, blocks and redirections.
Tok == {"a", "|", "(", ")", ";", "&", "<", ">"}
MCLines == UNION {[1 .. n -> Tok] : n \in 0 .. 3} \cup
    {<<"a">> \o s : s \in [1 .. 3 -> {"a", "|", "&", ";"}]} \cup [1 .. 4 -> {"a", "(", ")", ">"}] \cup
    {<<"a", "|", "a", "|", "a">>, <<"(", "a", ";", "a", ")", "|", "a">>, <<"a", "|", "(", "a", "&", ")">>,
     <<"a", "<", "a", "|", "a", ">", "a">>, <<"a", "|", "a", "&", ";", "a">>}

\* Every pattern of up to four characters, and every text of up to five.
MCJobs == {<<re, <<>>>> : re \in UNION {[1 .. n -> {"a", ".", "*", "^", "$"}] : n \in 0 .. 4}} \cup
          {<<<<"a">>, t>> : t \in UNION {[1 .. n -> {"a", "b", "nl"}] : n \in 1 .. 5}}

NoShell == sline = <<>> /\ sp = [p \in SProc |-> NoProc] /\ fails = 0
NoChmod == /\ mode = 0 /\ mode0 = 0 /\ rights = {} /\ arg = [digits |-> <<0, 0, 0>>]
           /\ chpc = "done" /\ st = 0
NoGrep == /\ pattern = <<>> /\ text = <<>> /\ rest = <<>> /\ pipe = FALSE /\ kept = <<>>
          /\ printed = <<>> /\ cut = FALSE /\ grepc = "none"

Init == /\ part \in {"users", "shell", "malloc", "chmod", "grep"}
        /\ UsersInit /\ MallocInit
        /\ IF part = "shell" THEN ShInit ELSE NoShell
        /\ IF part = "chmod" THEN ChmodInit ELSE NoChmod
        /\ IF part = "grep" THEN GrepInit ELSE NoGrep

Users_ == part = "users" /\ UsersNext /\ UNCHANGED <<part, shVars, heapVars, chmodVars, grepVars>>
Shell_ == part = "shell" /\ ShNext /\ UNCHANGED <<part, usersVars, heapVars, chmodVars, grepVars>>
Malloc_ == part = "malloc" /\ MallocNext /\ UNCHANGED <<part, usersVars, shVars, chmodVars, grepVars>>
Chmod_ == part = "chmod" /\ ChmodNext /\ UNCHANGED <<part, usersVars, shVars, heapVars, grepVars>>
Grep_ == part = "grep" /\ GrepNext /\ UNCHANGED <<part, usersVars, shVars, heapVars, chmodVars>>

Next == Users_ \/ Shell_ \/ Malloc_ \/ Chmod_ \/ Grep_

Spec == Init /\ [][Next]_<<part, usersVars, shVars, heapVars, chmodVars, grepVars>> /\ ShFair
=============================================================================
