----------------------------- MODULE AtomicDisk -----------------------------
(***************************************************************************)
(* What the logging layer (kernel/log.c) promises its callers.  File-system *)
(* calls update blocks between a begin and an end.  The updates become      *)
(* durable all together, at an instant when no call is in progress, and a   *)
(* crash forgets exactly the updates made since the last such instant.      *)
(***************************************************************************)
CONSTANTS Proc, Block, Val

VARIABLES durable,   \* block contents that survive a crash
          current,   \* block contents that file-system calls see
          active     \* processes between begin_op() and end_op()

adVars == <<durable, current, active>>

Init == /\ durable \in [Block -> Val]
        /\ current = durable
        /\ active = {}

Begin(p) == /\ p \notin active
            /\ active' = active \cup {p}
            /\ UNCHANGED <<durable, current>>

Write(p, b, v) == /\ p \in active
                  /\ current' = [current EXCEPT ![b] = v]
                  /\ UNCHANGED <<durable, active>>

End(p) == /\ p \in active
          /\ active' = active \ {p}
          /\ UNCHANGED <<durable, current>>

Commit == /\ active = {}
          /\ durable' = current
          /\ UNCHANGED <<current, active>>

Crash == /\ current' = durable
         /\ active' = {}
         /\ UNCHANGED durable

Next == \/ \E p \in Proc : Begin(p) \/ End(p)
        \/ \E p \in Proc, b \in Block, v \in Val : Write(p, b, v)
        \/ Commit
        \/ Crash

Spec == Init /\ [][Next]_adVars
=============================================================================
