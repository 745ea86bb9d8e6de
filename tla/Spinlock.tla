------------------------------- MODULE Spinlock -------------------------------
(***************************************************************************)
(* Spin locks and the nesting of disabled interrupts (kernel/spinlock.c).   *)
(* Each CPU runs kernel code of a process, which takes and gives locks in a  *)
(* fixed order, and is interrupted by a handler that takes locks as well.   *)
(***************************************************************************)
EXTENDS Integers

CONSTANTS Cpu,          \* processors: positive numbers
          Locks,        \* locks are 1 .. Locks, taken in this order
          HandlerLocks  \* the locks that interrupt handlers take

ASSUME SpinConstants == Cpu \subseteq Nat \ {0} /\ Locks \in Nat /\ HandlerLocks \subseteq 1 .. Locks

VARIABLES FL_IF,        \* per CPU: 1 if interrupts are enabled
          ncli, intena, \* the fields of struct cpu
          locked,       \* per lock: 1 if xchg has set it
          owner,        \* per lock: lk->cpu
          depth,        \* per CPU: 1, or 2 in an interrupt handler
          frame         \* per CPU and depth: what runs, the interrupted code below the handler

spinVars == <<FL_IF, ncli, intena, locked, owner, depth, frame>>

NoCpu == 0
\* at: the step; lk: the lock of the call; eflags: what readeflags() gave; has: locks taken
Code == [at |-> "run", lk |-> 0, eflags |-> 0, has |-> {}]

SpinInit ==
    /\ FL_IF = [c \in Cpu |-> 1] /\ ncli = [c \in Cpu |-> 0] /\ intena = [c \in Cpu |-> 0]
    /\ locked = [l \in 1 .. Locks |-> 0] /\ owner = [l \in 1 .. Locks |-> NoCpu]
    /\ depth = [c \in Cpu |-> 1] /\ frame = [c \in Cpu |-> [i \in 1 .. 2 |-> Code]]

Top(c) == frame[c][depth[c]]
Goes(c, f) == frame' = [frame EXCEPT ![c][depth[c]] = f] /\ UNCHANGED depth
InHandler(c) == depth[c] = 2
holding(c, l) == locked[l] = 1 /\ owner[l] = c

\* acquire() calls pushcli(), which reads the flags before it disables interrupts.
readeflags(c) ==
    /\ Top(c).at = "run"
    /\ \E l \in IF InHandler(c) THEN HandlerLocks ELSE 1 .. Locks :
          /\ \A h \in Top(c).has : h < l
          /\ Goes(c, [Top(c) EXCEPT !.at = "cli", !.lk = l, !.eflags = FL_IF[c]])
    /\ UNCHANGED <<FL_IF, ncli, intena, locked, owner>>

\* Mutant: interrupts stay enabled.
pushcli_Count(c) ==
    /\ Top(c).at = "cli"
    /\ intena' = [intena EXCEPT ![c] = IF ncli[c] = 0 THEN Top(c).eflags ELSE @]
    /\ ncli' = [ncli EXCEPT ![c] = @ + 1]
    /\ Goes(c, [Top(c) EXCEPT !.at = "xchg", !.eflags = 0])
    /\ UNCHANGED <<FL_IF, locked, owner>>

pushcli(c) ==
    /\ Top(c).at = "cli"
    /\ FL_IF' = [FL_IF EXCEPT ![c] = 0]
    /\ intena' = [intena EXCEPT ![c] = IF ncli[c] = 0 THEN Top(c).eflags ELSE @]
    /\ ncli' = [ncli EXCEPT ![c] = @ + 1]
    /\ Goes(c, [Top(c) EXCEPT !.at = "xchg", !.eflags = 0])
    /\ UNCHANGED <<locked, owner>>

\* The spinning; panics if this CPU holds the lock, which LocksSafe rules out.
xchg(c) ==
    /\ Top(c).at = "xchg" /\ ~holding(c, Top(c).lk) /\ locked[Top(c).lk] = 0
    /\ locked' = [locked EXCEPT ![Top(c).lk] = 1]
    /\ Goes(c, [Top(c) EXCEPT !.at = "own"])
    /\ UNCHANGED <<FL_IF, ncli, intena, owner>>

\* lk->cpu = mycpu(), after the exchange.
own(c) ==
    /\ Top(c).at = "own"
    /\ owner' = [owner EXCEPT ![Top(c).lk] = c]
    /\ Goes(c, [Top(c) EXCEPT !.at = "run", !.lk = 0, !.has = @ \cup {Top(c).lk}])
    /\ UNCHANGED <<FL_IF, ncli, intena, locked>>

\* release() clears the owner; then the lock; then popcli().
release(c) ==
    /\ Top(c).at = "run"
    /\ \E l \in Top(c).has :
          /\ owner' = [owner EXCEPT ![l] = NoCpu]
          /\ Goes(c, [Top(c) EXCEPT !.at = "clear", !.lk = l, !.has = @ \ {l}])
    /\ UNCHANGED <<FL_IF, ncli, intena, locked>>

clear(c) ==
    /\ Top(c).at = "clear"
    /\ locked' = [locked EXCEPT ![Top(c).lk] = 0]
    /\ Goes(c, [Top(c) EXCEPT !.at = "popcli", !.lk = 0])
    /\ UNCHANGED <<FL_IF, ncli, intena, owner>>

popcli(c) ==
    /\ Top(c).at = "popcli"
    /\ ncli' = [ncli EXCEPT ![c] = @ - 1]
    /\ FL_IF' = [FL_IF EXCEPT ![c] = IF ncli[c] = 1 /\ intena[c] = 1 THEN 1 ELSE @]
    /\ Goes(c, [Top(c) EXCEPT !.at = "run"])
    /\ UNCHANGED <<intena, locked, owner>>

\* The hardware (external): an interrupt gate clears the flag, iret restores it.
interrupt(c) ==
    /\ FL_IF[c] = 1 /\ ~InHandler(c)
    /\ FL_IF' = [FL_IF EXCEPT ![c] = 0]
    /\ depth' = [depth EXCEPT ![c] = 2]
    /\ UNCHANGED <<frame, ncli, intena, locked, owner>>

iret(c) ==
    /\ InHandler(c) /\ Top(c) = Code
    /\ FL_IF' = [FL_IF EXCEPT ![c] = 1]
    /\ depth' = [depth EXCEPT ![c] = 1]
    /\ UNCHANGED <<frame, ncli, intena, locked, owner>>

SpinStep(c) == readeflags(c) \/ pushcli(c) \/ xchg(c) \/ own(c) \/ release(c) \/ clear(c) \/ popcli(c)
SpinNext == \E c \in Cpu : SpinStep(c) \/ interrupt(c) \/ iret(c)

SpinSpec == SpinInit /\ [][SpinNext]_spinVars

Has(c, i, l) == \/ l \in frame[c][i].has
                \/ frame[c][i].at \in {"own", "clear"} /\ frame[c][i].lk = l

\* One CPU at most has a lock, from the exchange to the store that clears it.
Exclusive ==
    \A l \in 1 .. Locks : \A c, d \in Cpu : \A i \in 1 .. depth[c], j \in 1 .. depth[d] :
        Has(c, i, l) /\ Has(d, j, l) => c = d /\ i = j

\* Spin locks exclude, and interrupts do not break them.  One CPU at most has a lock.  No CPU
\* reaches a panic of spinlock.c: it does not acquire a lock that it holds, though an interrupt
\* may come between any two steps, it releases what it owns, and popcli() finds interrupts
\* disabled and a positive count.  Without locks a process runs with interrupts enabled.
LocksSafe ==
    /\ Exclusive
    /\ \A c \in Cpu :
          /\ Top(c).at = "xchg" => \A i \in 1 .. depth[c] : Top(c).lk \notin frame[c][i].has
          /\ \A i \in 1 .. depth[c] : \A l \in frame[c][i].has : holding(c, l)
          /\ Top(c).at = "popcli" => FL_IF[c] = 0 /\ ncli[c] > 0
          /\ ~InHandler(c) /\ Top(c).at = "run" /\ Top(c).has = {} => FL_IF[c] = 1 /\ ncli[c] = 0
=============================================================================
