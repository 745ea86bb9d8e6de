------------------------------- MODULE MCProc -------------------------------
(* Small instances of Proc for TLC. *)
EXTENDS Proc

\* A machine with one CPU and all slots, and one with all CPUs and one child, of which two
\* CPUs are needed to kill it between its test of killed and its sleep().
MCLiveInit == Boot({CHOOSE c \in Cpu : TRUE}, 2) \/ Boot(Cpu, MAXPID)
MCLiveSpec == MCLiveInit /\ [][Next]_vars /\ Fairness

\* The steps that TLC takes: of the children, the first one is killed.
FirstChildKilled == \A p \in Slot \ {initproc + 1} : killed'[p] = killed[p]
=============================================================================
