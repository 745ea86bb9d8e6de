----------------------------- MODULE MCProcSched -----------------------------
(***************************************************************************)
(* Two small instances of Proc for TLC, checked in one run: two CPUs with   *)
(* one slot fewer than the table has, and whole families of processes, with *)
(* every slot in use, on one CPU at a time.                                 *)
(***************************************************************************)
EXTENDS Proc, TLC

VARIABLE family
CpuSymmetry == Permutations(Cpu)

MCSpec == family \in BOOLEAN /\ Init /\ [][Next /\ UNCHANGED family]_<<vars, family>>

\* The states from which TLC goes on.  A family has no killed or timed member; on two CPUs
\* there is one fork() less.
Bound == IF family
         THEN /\ Cardinality({c \in Cpu : on[c] # NoProc}) < 2
              /\ \A p \in Slot : killed[p] = 0 /\ pc[p] \notin {"sleep", "sleep_go", "asleep"}
         ELSE state[NPROC] = "UNUSED" /\ killed[NPROC] = 0 /\ nextpid =< MAXPID
=============================================================================
