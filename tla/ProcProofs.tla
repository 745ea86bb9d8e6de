------------------------------ MODULE ProcProofs ------------------------------
(***************************************************************************)
(* Kernel stacks, slots and families of processes are safe for every number *)
(* of slots and CPUs, and whatever the processes call (kernel/proc.c).      *)
(***************************************************************************)
EXTENDS Proc, WellFoundedInduction, NaturalsInduction, TLAPS

States == {"UNUSED", "EMBRYO", "SLEEPING", "RUNNABLE", "RUNNING", "ZOMBIE"}
AliveState == {"SLEEPING", "RUNNABLE", "RUNNING"}

\* Where fork() has a slot in np that no one else knows of.
ForkPc == {"fork_kalloc", "fork_copy", "fork_run"}
PlainPc == {"user", "fork", "exit", "wait", "sleep", "sleep_go", "asleep"}

ProcTypeOK ==
    /\ state \in [Slot -> States] /\ pid \in [Slot -> Nat] /\ parent \in [Slot -> 0 .. NPROC]
    /\ killed \in [Slot -> {0, 1}] /\ kstack \in [Slot -> {0, 1}] /\ nextpid \in Nat
    /\ chan \in [Slot -> Nat] /\ lock \in Cpu \cup {NoCpu} /\ on \in [Cpu -> 0 .. NPROC]
    /\ pc \in [Slot -> PlainPc \cup ForkPc \cup {"wait_asleep", "wait_scan"}]
    /\ np \in [Slot -> 0 .. NPROC]

\* A CPU is on the stack of the process it runs, or of one that it holds ptable.lock to leave.
StackInv ==
    /\ \A c \in Cpu : on[c] # NoProc =>
          \/ state[on[c]] = "RUNNING"
          \/ lock = c /\ state[on[c]] \in {"SLEEPING", "RUNNABLE", "ZOMBIE"}
    /\ \A c, d \in Cpu : on[c] = on[d] /\ on[c] # NoProc => c = d
    /\ \A p \in Slot : pc[p] = "wait_scan" =>
          state[p] = "RUNNING" /\ \E c \in Cpu : lock = c /\ on[c] = p

\* Stacks and pids of the slots in use.
SlotInv ==
    /\ \A p \in Slot : state[p] = "UNUSED" => kstack[p] = 0 /\ parent[p] = NoProc
    /\ \A p \in Slot : state[p] \in AliveState \cup {"ZOMBIE"} => kstack[p] = 1
    /\ \A p \in Slot : state[p] # "UNUSED" => pid[p] \in 1 .. nextpid - 1
    /\ \A p, q \in Slot : state[p] # "UNUSED" /\ state[q] # "UNUSED" /\ pid[p] = pid[q] => p = q

\* A slot that fork() fills in belongs to one process, which is running or preempted.
ForkInv ==
    /\ \A p \in Slot : pc[p] \in ForkPc =>
          /\ state[p] \in {"RUNNING", "RUNNABLE"}
          /\ np[p] \in Slot /\ state[np[p]] = "EMBRYO"
          /\ pc[p] # "fork_kalloc" => kstack[np[p]] = 1
          /\ parent[np[p]] = IF pc[p] = "fork_run" THEN p ELSE NoProc
    /\ \A p, q \in Slot : pc[p] \in ForkPc /\ pc[q] \in ForkPc /\ np[p] = np[q] => p = q

\* Who has a parent finds it alive, and who sleeps in wait() sleeps on its own channel.
FamilyInv ==
    /\ initproc \in Slot /\ state[initproc] \in AliveState /\ parent[initproc] = NoProc
    /\ \A p \in Slot : parent[p] # p
    /\ \A p \in Slot \ {initproc} : state[p] \in AliveState \cup {"ZOMBIE"} =>
          parent[p] \in Slot /\ state[parent[p]] \in AliveState
    /\ \A p \in Slot : state[p] = "SLEEPING" /\ pc[p] = "wait_asleep" =>
          /\ chan[p] = p /\ killed[p] = 0
          /\ \E q \in Slot : parent[q] = p
          /\ \A q \in Slot : parent[q] = p => state[q] # "ZOMBIE"

ProcInv == ProcTypeOK /\ StackInv /\ SlotInv /\ ForkInv /\ FamilyInv

-----------------------------------------------------------------------------
(* Lemmas.                                                                  *)

\* The loops over the process table find the first slot of a non-empty set.
LEMMA FirstIn ==
    ASSUME NEW S \in SUBSET Slot, S # {}
    PROVE  First(S) \in S
<1> DEFINE R == OpToRel(<, Nat)
<1>1. IsWellFoundedOn(R, Nat) BY NatLessThanWellFounded, Zenon
<1>2. S \subseteq Nat BY DEF Slot
<1>3. \A x, y \in Nat : y < x => <<y, x>> \in R BY Zenon DEF OpToRel
<1> HIDE DEF R
<1>4. PICK x \in S : \A y \in S : ~(<<y, x>> \in R) BY <1>1, <1>2, WFMin, Zenon
<1>5. \A y \in S : ~(y < x) BY <1>2, <1>3, <1>4, Zenon
<1>6. \A y \in S : x =< y BY <1>2, <1>5
<1>7. QED BY <1>6, Zenon DEF First

LEMMA SlotFacts ==
    /\ initproc \in Slot /\ NoProc \notin Slot /\ Slot \subseteq 0 .. NPROC /\ NoProc \in 0 .. NPROC
    /\ \A n \in 0 .. NPROC : n \in Slot \/ n = NoProc
BY ProcConstants DEF Slot, initproc, NoProc

LEMMA InitInv == Init => ProcInv
<1> SUFFICES ASSUME Init PROVE ProcInv
  BY Zenon
<1> USE ProcConstants, SlotFacts DEF Init, Boot, NoProc
<1>1. ProcTypeOK BY Zenon DEF ProcTypeOK, States, PlainPc
<1>2. StackInv BY Zenon DEF StackInv
<1>3. SlotInv BY DEF SlotInv, AliveState
<1>4. ForkInv BY Zenon DEF ForkInv, ForkPc
<1>5. FamilyInv BY Zenon DEF FamilyInv, AliveState
<1>6. QED BY <1>1, <1>2, <1>3, <1>4, <1>5, Zenon DEF ProcInv

\* A CPU that does not hold ptable.lock runs a process that is RUNNING.
LEMMA RunningState ==
    ASSUME ProcInv, NEW c \in Cpu, NEW p \in Slot, Running(c, p)
    PROVE  state[p] = "RUNNING"
BY SlotFacts, Zenon DEF ProcInv, StackInv, Running

\* A step that only takes a process from one plain place to another.
LEMMA PcOnly ==
    ASSUME ProcInv, NEW p \in Slot, NEW l \in PlainPc, pc[p] \in PlainPc,
           pc' = [pc EXCEPT ![p] = l],
           UNCHANGED <<state, pid, parent, kstack, nextpid, chan, killed, lock, on, np>>
    PROVE  ProcInv'
<1> USE DEF ProcInv
<1>1. ProcTypeOK' BY Zenon DEF ProcTypeOK
<1>2. /\ pc'[p] \in PlainPc /\ \A q \in Slot : q # p => pc'[q] = pc[q]
  BY Zenon DEF ProcTypeOK
<1>3. StackInv' BY <1>2 DEF StackInv, PlainPc
<1>4. SlotInv' BY Zenon DEF SlotInv
<1>5. ForkInv' BY <1>2 DEF ForkInv, PlainPc, ForkPc
<1>6. FamilyInv' BY <1>2 DEF FamilyInv, PlainPc
<1>7. QED BY <1>1, <1>3, <1>4, <1>5, <1>6, Zenon

\* A step that only wakes processes up and marks some as killed, none of which sleeps on.
LEMMA WakeOnly ==
    ASSUME ProcInv, state' \in [Slot -> States], killed' \in [Slot -> {0, 1}],
           \A p \in Slot : state'[p] = state[p]
                           \/ (state[p] = "SLEEPING" /\ state'[p] = "RUNNABLE"),
           \A p \in Slot : killed'[p] = killed[p] \/ state'[p] # "SLEEPING",
           UNCHANGED <<pid, parent, kstack, nextpid, chan, lock, on, pc, np>>
    PROVE  ProcInv'
<1> USE DEF ProcInv
<1>1. ProcTypeOK' BY Zenon DEF ProcTypeOK
<1>2. StackInv' BY SlotFacts DEF StackInv, ProcTypeOK, Slot, NoProc
<1>3. SlotInv' BY DEF SlotInv, AliveState
<1>4. ForkInv' BY DEF ForkInv
<1>5. FamilyInv' BY DEF FamilyInv, AliveState
<1>6. QED BY <1>1, <1>2, <1>3, <1>4, <1>5, Zenon

\* A step that neither switches nor touches a process that may be on a stack.
LEMMA StackKept ==
    ASSUME ProcTypeOK, StackInv, on' = on, lock' = lock,
           \A q \in Slot : state[q] \in AliveState \cup {"ZOMBIE"} => state'[q] = state[q],
           \A q \in Slot : pc'[q] = "wait_scan" => pc[q] = "wait_scan"
    PROVE  StackInv'
<1>1. \A c \in Cpu : on[c] # NoProc => on[c] \in Slot BY SlotFacts, Zenon DEF ProcTypeOK
<1>2. QED BY <1>1 DEF StackInv, AliveState

\* A step after which nobody is alive or a zombie that was not, and nobody alive has changed.
LEMMA FamilyKept ==
    ASSUME FamilyInv, UNCHANGED <<parent, chan, killed>>,
           \A q \in Slot : state[q] \in AliveState => state'[q] = state[q],
           \A q \in Slot : state'[q] \in AliveState \/ state'[q] = "ZOMBIE" => state'[q] = state[q],
           \A q \in Slot : pc'[q] = "wait_asleep" => pc[q] = "wait_asleep"
    PROVE  FamilyInv'
<1> USE DEF FamilyInv
<1>1. initproc \in Slot /\ state'[initproc] \in AliveState BY Zenon
<1>2. \A p \in Slot \ {initproc} : state'[p] \in AliveState \cup {"ZOMBIE"} =>
         parent'[p] \in Slot /\ state'[parent'[p]] \in AliveState
  BY Zenon
<1>3. ASSUME NEW p \in Slot, state'[p] = "SLEEPING", pc'[p] = "wait_asleep"
      PROVE  /\ chan'[p] = p /\ killed'[p] = 0
             /\ \E q \in Slot : parent'[q] = p
             /\ \A q \in Slot : parent'[q] = p => state'[q] # "ZOMBIE"
  BY <1>3 DEF AliveState
<1>4. QED BY <1>1, <1>2, <1>3, Zenon

-----------------------------------------------------------------------------
(* Steps that need no more.                                                 *)

LEMMA UserInv ==
    ASSUME ProcInv, NEW c \in Cpu, NEW p \in Slot,
           syscall(c, p) \/ trap_killed(c, p) \/ sys_setuid(c, p) \/ sys_sleep(c, p)
           \/ sleep_test(c, p) \/ exit_init(c, p)
    PROVE  ProcInv'
<1>1. CASE sys_setuid(c, p) \/ exit_init(c, p)
  <2>1. UNCHANGED <<state, pid, parent, kstack, nextpid, chan, killed, lock, on, pc, np>>
    BY <1>1, Zenon DEF sys_setuid, exit_init, slotVars
  <2>2. QED
    BY <2>1 DEF ProcInv, ProcTypeOK, StackInv, SlotInv, ForkInv, FamilyInv
<1>2. CASE ~(sys_setuid(c, p) \/ exit_init(c, p))
  <2>1. UNCHANGED <<state, pid, parent, kstack, nextpid, chan, killed, lock, on, np>>
    BY <1>2, Zenon DEF syscall, trap_killed, sys_sleep, sleep_test, slotVars
  <2>2. pc[p] \in PlainPc /\ \E l \in PlainPc : pc' = [pc EXCEPT ![p] = l]
    BY <1>2, Zenon DEF syscall, trap_killed, sys_sleep, sleep_test, Goto, PlainPc
  <2>3. QED BY <2>1, <2>2, PcOnly, Zenon
<1>3. QED BY <1>1, <1>2, Zenon

LEMMA KillInv ==
    ASSUME ProcInv, NEW c \in Cpu, NEW p \in Slot, NEW n \in KILLPIDS, kill(c, p, n)
    PROVE  ProcInv'
<1> DEFINE S == {q \in Slot : pid[q] = n}
<1>1. S # {} BY Zenon DEF kill
<1>2. PICK f \in Slot : f = First(S) BY <1>1, FirstIn, Zenon
<1>3. /\ killed' = [killed EXCEPT ![f] = 1]
      /\ state' = [state EXCEPT ![f] = IF @ = "SLEEPING" THEN "RUNNABLE" ELSE @]
      /\ UNCHANGED <<pid, parent, kstack, nextpid, chan, lock, on, pc, np>>
  BY <1>2, Zenon DEF kill, slotVars
<1>4. QED BY <1>3, WakeOnly, Zenon DEF ProcInv, ProcTypeOK, States

LEMMA TimerInv ==
    ASSUME ProcInv, timer
    PROVE  ProcInv'
<1>1. UNCHANGED <<pid, parent, kstack, nextpid, chan, killed, lock, on, pc, np>>
  BY Zenon DEF timer, slotVars
<1>2. state' = wakeup1(state, tickchan) BY Zenon DEF timer
<1>3. QED BY <1>1, <1>2, WakeOnly, Zenon DEF ProcInv, ProcTypeOK, States, wakeup1

-----------------------------------------------------------------------------
(* Giving up and getting a CPU.                                             *)

LEMMA YieldInv ==
    ASSUME ProcInv, NEW c \in Cpu, NEW p \in Slot, yield(c, p)
    PROVE  ProcInv'
<1> USE ProcConstants, SlotFacts DEF ProcInv
<1>1. /\ on[c] = p /\ lock = NoCpu /\ lock' = c
      /\ state' = [state EXCEPT ![p] = "RUNNABLE"]
      /\ UNCHANGED <<pid, parent, kstack, nextpid, chan, killed, on, pc, np>>
  BY Zenon DEF yield, MayLock, Running, slotVars
<1>2. state[p] = "RUNNING" BY RunningState, Zenon DEF yield, MayLock
<1>3. ProcTypeOK' BY <1>1, Zenon DEF ProcTypeOK, States
<1>4. state'[p] = "RUNNABLE" /\ \A q \in Slot : q # p => state'[q] = state[q]
  BY <1>1, Zenon DEF ProcTypeOK
<1>5. StackInv' BY <1>1, <1>2, <1>4, SMTT(30) DEF StackInv, ProcTypeOK, Slot, NoProc
<1>6. SlotInv' BY <1>1, <1>2, <1>4 DEF SlotInv, AliveState
<1>7. ForkInv' BY <1>1, <1>2, <1>4 DEF ForkInv
<1>8. FamilyInv' BY <1>1, <1>2, <1>4 DEF FamilyInv, AliveState
<1>9. QED BY <1>3, <1>5, <1>6, <1>7, <1>8, Zenon

\* sleep(): of its two callers, wait() has found a child and no zombie, and was not killed.
LEMMA SleepInv ==
    ASSUME ProcInv, NEW c \in Cpu, NEW p \in Slot, NEW ch \in Nat, NEW l \in {"asleep", "wait_asleep"},
           lock \in {NoCpu, c}, on[c] = p, state[p] = "RUNNING",
           pc[p] \in {"sleep_go", "wait", "wait_scan"}, sleep(c, p, ch, l),
           l = "wait_asleep" => /\ ch = p /\ killed[p] = 0 /\ \E q \in Slot : parent[q] = p
                                /\ \A q \in Slot : parent[q] = p => state[q] # "ZOMBIE"
    PROVE  ProcInv'
<1> USE ProcConstants, SlotFacts DEF ProcInv
<1>1. /\ lock' = c /\ state' = [state EXCEPT ![p] = "SLEEPING"]
      /\ chan' = [chan EXCEPT ![p] = ch] /\ pc' = [pc EXCEPT ![p] = l]
      /\ UNCHANGED <<pid, parent, kstack, nextpid, killed, on, np>>
  BY Zenon DEF sleep, slotVars, Goto
<1>2. ProcTypeOK' BY <1>1, Zenon DEF ProcTypeOK, States, PlainPc
<1>3. /\ state'[p] = "SLEEPING" /\ pc'[p] = l /\ chan'[p] = ch
      /\ \A q \in Slot : q # p => state'[q] = state[q] /\ pc'[q] = pc[q] /\ chan'[q] = chan[q]
  BY <1>1, Zenon DEF ProcTypeOK
<1>4. StackInv' BY <1>1, <1>3, SMTT(30) DEF StackInv, ProcTypeOK, Slot, NoProc
<1>5. SlotInv' BY <1>1, <1>3 DEF SlotInv, AliveState
<1>6. ForkInv' BY <1>1, <1>3 DEF ForkInv, ForkPc
<1>7. FamilyInv' BY <1>1, <1>3 DEF FamilyInv, AliveState
<1>8. QED BY <1>2, <1>4, <1>5, <1>6, <1>7, Zenon

LEMMA SleepTicksInv ==
    ASSUME ProcInv, NEW c \in Cpu, NEW p \in Slot, sleep_ticks(c, p)
    PROVE  ProcInv'
<1>1. /\ lock = NoCpu /\ on[c] = p /\ Running(c, p) /\ pc[p] = "sleep_go"
      /\ sleep(c, p, tickchan, "asleep")
  BY Zenon DEF sleep_ticks, MayLock, Running
<1>2. tickchan \in Nat BY ProcConstants DEF tickchan
<1>3. QED BY <1>1, <1>2, RunningState, SleepInv, Zenon

LEMMA SchedInv ==
    ASSUME ProcInv, NEW c \in Cpu, NEW p \in Slot, sched(c, p)
    PROVE  ProcInv'
<1> USE ProcConstants, SlotFacts DEF ProcInv
<1>1. /\ on[c] = p /\ lock = c /\ state[p] # "RUNNING" /\ on' = [on EXCEPT ![c] = NoProc]
      /\ UNCHANGED <<state, pid, parent, kstack, nextpid, chan, killed, lock, pc, np>>
  BY Zenon DEF sched, Holding, slotVars
<1>2. ProcTypeOK' BY <1>1, Zenon DEF ProcTypeOK, NoProc
<1>3. on'[c] = NoProc /\ \A d \in Cpu : d # c => on'[d] = on[d] BY <1>1, Zenon DEF ProcTypeOK
<1>4. StackInv' BY <1>1, <1>3 DEF StackInv
<1>5. SlotInv' BY <1>1, Zenon DEF SlotInv
<1>6. ForkInv' BY <1>1, Zenon DEF ForkInv
<1>7. FamilyInv' BY <1>1 DEF FamilyInv
<1>8. QED BY <1>2, <1>4, <1>5, <1>6, <1>7, Zenon

LEMMA SchedulerStepInv ==
    ASSUME ProcInv, NEW c \in Cpu, SchedulerStep(c)
    PROVE  ProcInv'
<1> USE ProcConstants, SlotFacts DEF ProcInv
<1>1. /\ on[c] = NoProc /\ lock \in {NoCpu, c} /\ lock' \in {NoCpu, c}
      /\ UNCHANGED <<state, pid, parent, kstack, nextpid, chan, killed, on, pc, np>>
  BY Zenon DEF SchedulerStep, scheduler_acquire, scheduler_release, slotVars
<1>2. ProcTypeOK' BY <1>1, Zenon DEF ProcTypeOK
<1>3. StackInv' BY <1>1 DEF StackInv
<1>4. SlotInv' BY <1>1, Zenon DEF SlotInv
<1>5. ForkInv' BY <1>1, Zenon DEF ForkInv
<1>6. FamilyInv' BY <1>1 DEF FamilyInv
<1>7. QED BY <1>2, <1>3, <1>4, <1>5, <1>6, Zenon

\* A runnable process is on no stack: the CPU that still was would hold ptable.lock.
LEMMA SchedulerInv ==
    ASSUME ProcInv, NEW c \in Cpu, NEW p \in Slot, scheduler(c, p)
    PROVE  ProcInv'
<1> USE ProcConstants, SlotFacts DEF ProcInv
<1>1. /\ on[c] = NoProc /\ lock = c /\ state[p] = "RUNNABLE"
      /\ state' = [state EXCEPT ![p] = "RUNNING"] /\ on' = [on EXCEPT ![c] = p]
      /\ UNCHANGED <<pid, parent, kstack, nextpid, chan, killed, lock, pc, np>>
  BY Zenon DEF scheduler, slotVars
<1>2. ProcTypeOK' BY <1>1, Zenon DEF ProcTypeOK, States
<1>3. /\ state'[p] = "RUNNING" /\ \A q \in Slot : q # p => state'[q] = state[q]
      /\ on'[c] = p /\ \A d \in Cpu : d # c => on'[d] = on[d] 
  BY <1>1, Zenon DEF ProcTypeOK
<1>4. \A d \in Cpu : on[d] # p BY <1>1 DEF StackInv
<1>5. pc[p] # "wait_scan" BY <1>1, Zenon DEF StackInv
<1>6. StackInv'
  <2>1. \A d \in Cpu : on[d] # NoProc => on[d] \in Slot BY Zenon DEF ProcTypeOK
  <2>2. \A d, e \in Cpu : on'[d] = on'[e] /\ on'[d] # NoProc => d = e
    BY <1>3, <1>4 DEF StackInv
  <2>3. \A d \in Cpu : on'[d] # NoProc =>
           \/ state'[on'[d]] = "RUNNING"
           \/ lock' = d /\ state'[on'[d]] \in {"SLEEPING", "RUNNABLE", "ZOMBIE"}
    BY <1>1, <1>3, <2>1 DEF StackInv
  <2>4. \A q \in Slot : pc'[q] # "wait_scan"
    BY <1>1, <1>3, <1>5 DEF StackInv
  <2>5. QED BY <2>2, <2>3, <2>4, Zenon DEF StackInv
<1>7. SlotInv' BY <1>1, <1>3 DEF SlotInv, AliveState
<1>8. ForkInv' BY <1>1, <1>3 DEF ForkInv
<1>9. FamilyInv' BY <1>1, <1>3 DEF FamilyInv, AliveState
<1>10. QED BY <1>2, <1>6, <1>7, <1>8, <1>9, Zenon

LEMMA ResumeInv ==
    ASSUME ProcInv, NEW c \in Cpu, NEW p \in Slot, resume(c, p)
    PROVE  ProcInv'
<1> USE ProcConstants, SlotFacts DEF ProcInv
<1> DEFINE l == CASE pc[p] = "wait_asleep" -> "wait_scan"
                  [] pc[p] = "asleep" -> "sleep"
                  [] OTHER -> pc[p]
<1>1. /\ on[c] = p /\ lock = c /\ state[p] = "RUNNING" /\ pc[p] # "wait_scan"
      /\ lock' = IF pc[p] = "wait_asleep" THEN c ELSE NoCpu
      /\ chan' = [chan EXCEPT ![p] = 0] /\ pc' = [pc EXCEPT ![p] = l]
      /\ UNCHANGED <<state, pid, parent, kstack, nextpid, killed, on, np>>
  BY Zenon DEF resume, Holding, Goto, slotVars
<1>2. /\ l = "wait_scan" <=> pc[p] = "wait_asleep"
      /\ l # "wait_asleep" /\ (l \in ForkPc => l = pc[p])
      /\ l \in PlainPc \cup ForkPc \cup {"wait_scan"}
  BY <1>1, Zenon DEF ProcTypeOK, PlainPc, ForkPc
<1> HIDE DEF l
<1>3. ProcTypeOK' BY <1>1, <1>2, Zenon DEF ProcTypeOK
<1>4. /\ pc'[p] = l /\ \A q \in Slot : q # p => pc'[q] = pc[q] /\ chan'[q] = chan[q]
  BY <1>1, Zenon DEF ProcTypeOK
<1>5. StackInv' BY <1>1, <1>2, <1>4, SMTT(30) DEF StackInv, ProcTypeOK, Slot, NoProc
<1>6. SlotInv' BY <1>1, Zenon DEF SlotInv
<1>7. ForkInv'
  <2>1. \A q \in Slot : pc'[q] \in ForkPc => pc'[q] = pc[q] BY <1>2, <1>4, Zenon
  <2>2. QED BY <2>1, <1>1 DEF ForkInv
<1>8. FamilyInv' BY <1>1, <1>2, <1>4 DEF FamilyInv
<1>9. QED BY <1>3, <1>5, <1>6, <1>7, <1>8, Zenon

-----------------------------------------------------------------------------
(* fork().                                                                  *)

LEMMA AllocprocInv ==
    ASSUME ProcInv, NEW c \in Cpu, NEW p \in Slot, allocproc(c, p)
    PROVE  ProcInv'
<1> DEFINE U == {q \in Slot : state[q] = "UNUSED"}
<1>1. /\ pc[p] = "fork" /\ Running(c, p)
      /\ UNCHANGED <<parent, kstack, chan, killed, lock, on>>
  BY Zenon DEF allocproc, MayLock
<1>2. state[p] = "RUNNING" BY <1>1, RunningState, Zenon
<1>3. CASE U = {}
  <2>1. pc' = [pc EXCEPT ![p] = "user"] /\ UNCHANGED <<state, pid, nextpid, np>>
    BY <1>3, Zenon DEF allocproc, Goto
  <2>2. QED BY <2>1, <1>1, PcOnly, Zenon DEF PlainPc
<1>4. CASE U # {}
  <2> USE ProcConstants, SlotFacts DEF ProcInv
  <2>1. PICK f \in Slot : f = First(U) /\ state[f] = "UNUSED" BY <1>4, FirstIn, ZenonT(30)
  <2>2. /\ state' = [state EXCEPT ![f] = "EMBRYO"] /\ pid' = [pid EXCEPT ![f] = nextpid]
        /\ nextpid' = nextpid + 1 /\ np' = [np EXCEPT ![p] = f]
        /\ pc' = [pc EXCEPT ![p] = "fork_kalloc"]
    BY <1>4, <2>1, Zenon DEF allocproc, Goto
  <2>3. ProcTypeOK' BY <1>1, <2>2 DEF ProcTypeOK, States, ForkPc
  <2>4. /\ state'[f] = "EMBRYO" /\ pid'[f] = nextpid /\ np'[p] = f /\ pc'[p] = "fork_kalloc"
        /\ \A q \in Slot : q # f => state'[q] = state[q] /\ pid'[q] = pid[q]
        /\ \A q \in Slot : q # p => np'[q] = np[q] /\ pc'[q] = pc[q]
    BY <2>2, Zenon DEF ProcTypeOK
  <2>5. f # p BY <1>2, <2>1, Zenon
  <2>6. StackInv' BY <1>1, <2>1, <2>4, StackKept, Zenon DEF AliveState
  <2>7. nextpid >= 2 BY <1>2 DEF SlotInv, ProcTypeOK
  <2>8. SlotInv'
    <3>1. \A q \in Slot : state'[q] = "UNUSED" => kstack'[q] = 0 /\ parent'[q] = NoProc
      BY <1>1, <2>4 DEF SlotInv
    <3>2. \A q \in Slot : state'[q] \in AliveState \cup {"ZOMBIE"} => kstack'[q] = 1
      BY <1>1, <2>4, Zenon DEF SlotInv, AliveState
    <3>3. \A q \in Slot : state'[q] # "UNUSED" => pid'[q] \in 1 .. nextpid' - 1
      BY <2>2, <2>4, <2>7 DEF SlotInv, ProcTypeOK
    <3>4. \A q \in Slot : q # f /\ state'[q] # "UNUSED" => pid'[q] # nextpid
      BY <2>4 DEF SlotInv, ProcTypeOK
    <3>5. \A q, r \in Slot : state'[q] # "UNUSED" /\ state'[r] # "UNUSED" /\ pid'[q] = pid'[r]
                             => q = r
      BY <2>4, <3>4 DEF SlotInv
    <3>6. QED BY <3>1, <3>2, <3>3, <3>5, Zenon DEF SlotInv
  <2>9. parent[f] = NoProc /\ \A q \in Slot : pc[q] \in ForkPc => np[q] # f
    BY <2>1, Zenon DEF SlotInv, ForkInv
  <2>10. ForkInv'
    <3>1. ASSUME NEW q \in Slot, q # p, pc'[q] \in ForkPc
          PROVE  /\ state'[q] \in {"RUNNING", "RUNNABLE"}
                 /\ np'[q] \in Slot /\ state'[np'[q]] = "EMBRYO" /\ np'[q] # f
                 /\ pc'[q] # "fork_kalloc" => kstack'[np'[q]] = 1
                 /\ parent'[np'[q]] = IF pc'[q] = "fork_run" THEN q ELSE NoProc
      BY <3>1, <1>1, <2>1, <2>4, <2>9 DEF ForkInv
    <3>2. QED BY <3>1, <1>1, <1>2, <2>4, <2>5, <2>9, SMTT(30) DEF ForkInv
  <2>11. FamilyInv' BY <1>1, <2>1, <2>4, FamilyKept, Zenon DEF AliveState
  <2>12. QED BY <2>3, <2>6, <2>8, <2>10, <2>11, Zenon
<1>5. QED BY <1>3, <1>4, SMTT(30)

LEMMA ForkKallocInv ==
    ASSUME ProcInv, NEW c \in Cpu, NEW p \in Slot, fork_kalloc(c, p)
    PROVE  ProcInv'
<1> USE ProcConstants, SlotFacts DEF ProcInv
<1>1. /\ pc[p] = "fork_kalloc" /\ kstack' = [kstack EXCEPT ![np[p]] = 1]
      /\ pc' = [pc EXCEPT ![p] = "fork_copy"]
      /\ UNCHANGED <<state, pid, parent, nextpid, chan, killed, lock, on, np>>
  BY Zenon DEF fork_kalloc, Goto
<1>2. PICK f \in Slot : f = np[p] /\ state[f] = "EMBRYO" /\ parent[f] = NoProc
  BY <1>1, Zenon DEF ForkInv, ForkPc
<1>3. ProcTypeOK' BY <1>1, Zenon DEF ProcTypeOK, ForkPc
<1>4. /\ kstack'[f] = 1 /\ pc'[p] = "fork_copy"
      /\ \A q \in Slot : q # f => kstack'[q] = kstack[q]
      /\ \A q \in Slot : q # p => pc'[q] = pc[q]
  BY <1>1, <1>2, Zenon DEF ProcTypeOK
<1>5. StackInv' BY <1>1, <1>4 DEF StackInv
<1>6. SlotInv' BY <1>1, <1>2, <1>4 DEF SlotInv
<1>7. ForkInv' BY <1>1, <1>2, <1>4 DEF ForkInv, ForkPc
<1>8. FamilyInv' BY <1>1, <1>4 DEF FamilyInv
<1>9. QED BY <1>3, <1>5, <1>6, <1>7, <1>8, Zenon

LEMMA ForkFailInv ==
    ASSUME ProcInv, NEW c \in Cpu, NEW p \in Slot, fork_fail(c, p)
    PROVE  ProcInv'
<1> USE ProcConstants, SlotFacts DEF ProcInv
<1>1. /\ pc[p] \in {"fork_kalloc", "fork_copy"} /\ kstack' = [kstack EXCEPT ![np[p]] = 0]
      /\ state' = [state EXCEPT ![np[p]] = "UNUSED"] /\ np' = [np EXCEPT ![p] = NoProc]
      /\ pc' = [pc EXCEPT ![p] = "user"]
      /\ UNCHANGED <<pid, parent, nextpid, chan, killed, lock, on>>
  BY Zenon DEF fork_fail, Goto
<1>2. PICK f \in Slot : f = np[p] /\ state[f] = "EMBRYO" /\ parent[f] = NoProc
  BY <1>1, Zenon DEF ForkInv, ForkPc
<1>3. ProcTypeOK' BY <1>1, Zenon DEF ProcTypeOK, States, PlainPc
<1>4. /\ kstack'[f] = 0 /\ state'[f] = "UNUSED" /\ pc'[p] = "user"
      /\ \A q \in Slot : q # f => kstack'[q] = kstack[q] /\ state'[q] = state[q]
      /\ \A q \in Slot : q # p => pc'[q] = pc[q] /\ np'[q] = np[q]
  BY <1>1, <1>2, Zenon DEF ProcTypeOK
<1>5. StackInv' BY <1>1, <1>2, <1>4, StackKept, Zenon DEF AliveState
<1>6. SlotInv' BY <1>1, <1>2, <1>4 DEF SlotInv, AliveState
<1>7. ForkInv' BY <1>1, <1>2, <1>4 DEF ForkInv, ForkPc
<1>8. FamilyInv' BY <1>1, <1>2, <1>4 DEF FamilyInv, AliveState
<1>9. QED BY <1>3, <1>5, <1>6, <1>7, <1>8, Zenon

LEMMA ForkCopyInv ==
    ASSUME ProcInv, NEW c \in Cpu, NEW p \in Slot, fork_copy(c, p)
    PROVE  ProcInv'
<1> USE ProcConstants, SlotFacts DEF ProcInv
<1>1. /\ pc[p] = "fork_copy" /\ parent' = [parent EXCEPT ![np[p]] = p]
      /\ pc' = [pc EXCEPT ![p] = "fork_run"]
      /\ UNCHANGED <<state, pid, kstack, nextpid, chan, killed, lock, on, np>>
  BY Zenon DEF fork_copy, Goto
<1>2. PICK f \in Slot : f = np[p] /\ state[f] = "EMBRYO" /\ parent[f] = NoProc
  BY <1>1, Zenon DEF ForkInv, ForkPc
<1>3. ProcTypeOK' BY <1>1, Zenon DEF ProcTypeOK, ForkPc
<1>4. /\ parent'[f] = p /\ pc'[p] = "fork_run"
      /\ \A q \in Slot : q # f => parent'[q] = parent[q]
      /\ \A q \in Slot : q # p => pc'[q] = pc[q]
  BY <1>1, <1>2, Zenon DEF ProcTypeOK
<1>5. StackInv' BY <1>1, <1>4 DEF StackInv
<1>6. SlotInv' BY <1>1, <1>2, <1>4 DEF SlotInv
<1>7. ForkInv' BY <1>1, <1>2, <1>4 DEF ForkInv, ForkPc
<1>8. FamilyInv'
  <2>1. f # initproc /\ f # p BY <1>1, <1>2, Zenon DEF FamilyInv, ForkInv, AliveState, ForkPc
  <2>2. \A q \in Slot : pc'[q] = "wait_asleep" => pc[q] = "wait_asleep" BY <1>4, Zenon
  <2>3. \A q \in Slot \ {initproc} : state[q] \in AliveState \cup {"ZOMBIE"} =>
           parent'[q] \in Slot /\ state[parent'[q]] \in AliveState
    BY <1>2, <1>4, Zenon DEF FamilyInv, AliveState
  <2>4. \A q, t \in Slot : parent[t] = q => parent'[t] = q BY <1>2, <1>4, Zenon
  <2>5. \A q, t \in Slot : parent'[t] = q => parent[t] = q \/ state[t] = "EMBRYO" BY <1>2, <1>4, Zenon
  <2>6. ASSUME NEW q \in Slot, state[q] = "SLEEPING", pc'[q] = "wait_asleep"
        PROVE  /\ chan[q] = q /\ killed[q] = 0
               /\ \E t \in Slot : parent'[t] = q
               /\ \A t \in Slot : parent'[t] = q => state[t] # "ZOMBIE"
    BY <2>2, <2>4, <2>5, <2>6 DEF FamilyInv
  <2>7. parent'[initproc] = NoProc /\ \A q \in Slot : parent'[q] # q
    BY <2>1, <1>4, Zenon DEF FamilyInv
  <2>8. QED BY <2>3, <2>6, <2>7, <1>1 DEF FamilyInv
<1>9. QED BY <1>3, <1>5, <1>6, <1>7, <1>8, Zenon

LEMMA ForkRunInv ==
    ASSUME ProcInv, NEW c \in Cpu, NEW p \in Slot, fork_run(c, p)
    PROVE  ProcInv'
<1> USE ProcConstants, SlotFacts DEF ProcInv
<1>1. /\ pc[p] = "fork_run" /\ state' = [state EXCEPT ![np[p]] = "RUNNABLE"]
      /\ pc' = [pc EXCEPT ![p] = "user", ![np[p]] = "user"] /\ np' = [np EXCEPT ![p] = NoProc]
      /\ UNCHANGED <<pid, parent, kstack, nextpid, chan, killed, lock, on>>
  BY Zenon DEF fork_run, slotVars
<1>2. PICK f \in Slot : f = np[p] /\ state[f] = "EMBRYO" /\ parent[f] = p /\ kstack[f] = 1
  BY <1>1, Zenon DEF ForkInv, ForkPc
<1>3. ProcTypeOK' BY <1>1, Zenon DEF ProcTypeOK, States, PlainPc
<1>4. /\ state'[f] = "RUNNABLE" /\ pc'[p] = "user" /\ pc'[f] = "user"
      /\ \A q \in Slot : q # f => state'[q] = state[q]
      /\ \A q \in Slot : q # p => np'[q] = np[q] /\ (q # f => pc'[q] = pc[q])
  BY <1>1, <1>2, Zenon DEF ProcTypeOK
<1>5. state[p] \in {"RUNNING", "RUNNABLE"} BY <1>1, Zenon DEF ForkInv, ForkPc
<1>6. StackInv' BY <1>1, <1>2, <1>4, StackKept, Zenon DEF AliveState
<1>7. SlotInv' BY <1>1, <1>2, <1>4 DEF SlotInv, AliveState
<1>8. ForkInv'
  <2>1. \A q \in Slot : pc'[q] \in ForkPc => /\ q # p /\ q # f /\ pc'[q] = pc[q]
                                            /\ np'[q] = np[q] /\ np[q] # f
    BY <1>1, <1>2, <1>4, ZenonT(30) DEF ForkInv, ForkPc
  <2>2. ASSUME NEW q \in Slot, pc'[q] \in ForkPc
        PROVE  /\ state'[q] \in {"RUNNING", "RUNNABLE"}
               /\ np'[q] \in Slot /\ state'[np'[q]] = "EMBRYO"
               /\ pc'[q] # "fork_kalloc" => kstack'[np'[q]] = 1
               /\ parent'[np'[q]] = IF pc'[q] = "fork_run" THEN q ELSE NoProc
    <3>1. q # f /\ pc'[q] = pc[q] /\ np'[q] = np[q] /\ np[q] # f BY <2>1, <2>2, Zenon
    <3>2. /\ state[q] \in {"RUNNING", "RUNNABLE"}
          /\ np[q] \in Slot /\ state[np[q]] = "EMBRYO"
          /\ pc[q] # "fork_kalloc" => kstack[np[q]] = 1
          /\ parent[np[q]] = IF pc[q] = "fork_run" THEN q ELSE NoProc
      BY <2>2, <3>1, Zenon DEF ForkInv
    <3>3. QED BY <3>1, <3>2, <1>1, <1>4, ZenonT(30)
  <2>3. \A q, t \in Slot : pc'[q] \in ForkPc /\ pc'[t] \in ForkPc /\ np'[q] = np'[t] => q = t
    BY <2>1 DEF ForkInv
  <2>4. QED BY <2>2, <2>3, Zenon DEF ForkInv
<1>9. FamilyInv'
  <2>1. \A q \in Slot : state[q] \in AliveState => state'[q] = state[q]
    BY <1>2, <1>4, Zenon DEF AliveState
  <2>2. \A q \in Slot : pc'[q] = "wait_asleep" => q # f /\ pc[q] = "wait_asleep" BY <1>4, Zenon
  <2>3. \A q \in Slot : q # f => state'[q] = state[q] BY <1>4, Zenon
  <2>4. state[p] \in AliveState BY <1>5, Zenon DEF AliveState
  <2>5. \A q \in Slot \ {initproc} : state'[q] \in AliveState \cup {"ZOMBIE"} =>
           parent'[q] \in Slot /\ state'[parent'[q]] \in AliveState
    BY <2>1, <2>3, <2>4, <1>1, <1>2 DEF FamilyInv
  <2>6. ASSUME NEW q \in Slot, state'[q] = "SLEEPING", pc'[q] = "wait_asleep"
        PROVE  /\ chan'[q] = q /\ killed'[q] = 0
               /\ \E t \in Slot : parent'[t] = q
               /\ \A t \in Slot : parent'[t] = q => state'[t] # "ZOMBIE"
    BY <2>2, <2>3, <2>6, <1>1, <1>4 DEF FamilyInv
  <2>7. QED BY <2>1, <2>5, <2>6, <1>1, ZenonT(30) DEF FamilyInv
<1>10. QED BY <1>3, <1>6, <1>7, <1>8, <1>9, Zenon

-----------------------------------------------------------------------------
(* exit() and wait().                                                       *)

\* exit() wakes the parent, and init if it hands a zombie to init, before it becomes a zombie
\* itself: no sleeper in wait() is left with a zombie child.
LEMMA ExitInv ==
    ASSUME ProcInv, NEW c \in Cpu, NEW p \in Slot, exit(c, p)
    PROVE  ProcInv'
<1> USE ProcConstants, SlotFacts DEF ProcInv
<1> DEFINE orphans == {q \in Slot : parent[q] = p}
           woken   == wakeup1(state, parent[p])
           reaper  == IF \E q \in orphans : state[q] = "ZOMBIE"
                      THEN wakeup1(woken, initproc) ELSE woken
<1>1. /\ on[c] = p /\ lock = NoCpu /\ lock' = c /\ pc[p] = "exit" /\ p # initproc
      /\ parent' = [q \in Slot |-> IF q \in orphans THEN initproc ELSE parent[q]]
      /\ state' = [reaper EXCEPT ![p] = "ZOMBIE"]
      /\ UNCHANGED <<pid, kstack, nextpid, chan, killed, on, pc, np>>
  BY Zenon DEF exit, MayLock, Running
<1>2. state[p] = "RUNNING" BY RunningState, SMTT(30) DEF exit, MayLock
<1>3. \A q \in Slot :
         /\ reaper[q] = state[q] \/ (state[q] = "SLEEPING" /\ reaper[q] = "RUNNABLE")
         /\ state[q] = "SLEEPING" /\ chan[q] = parent[p] => reaper[q] = "RUNNABLE"
         /\ state[q] = "SLEEPING" /\ chan[q] = initproc /\ (\E r \in orphans : state[r] = "ZOMBIE")
            => reaper[q] = "RUNNABLE"
  BY Zenon DEF wakeup1
<1>4. /\ reaper \in [Slot -> States] /\ state'[p] = "ZOMBIE"
      /\ \A q \in Slot : q # p => state'[q] = reaper[q]
  <2>1. woken \in [Slot -> States] BY Zenon DEF wakeup1, ProcTypeOK, States
  <2>2. reaper \in [Slot -> States] BY <2>1, Zenon DEF wakeup1, States
  <2>3. QED BY <2>2, <1>1, Zenon
<1>5. \A q \in Slot : parent'[q] = IF parent[q] = p THEN initproc ELSE parent[q] BY <1>1, Zenon
<1> HIDE DEF reaper, woken
<1>6. ProcTypeOK'
  <2>1. state' \in [Slot -> States] BY <1>1, <1>4, Zenon DEF States
  <2>2. parent' \in [Slot -> 0 .. NPROC] BY <1>1, Zenon DEF ProcTypeOK
  <2>3. QED BY <2>1, <2>2, <1>1, Zenon DEF ProcTypeOK
<1>7. \A q \in Slot : q # p => state'[q] = state[q] \/ (state[q] = "SLEEPING" /\ state'[q] = "RUNNABLE")
  BY <1>3, <1>4, Zenon
<1>8. StackInv'
  <2>1. \A d \in Cpu : on[d] # NoProc => on[d] \in Slot BY Zenon DEF ProcTypeOK
  <2>2. \A d \in Cpu : on[d] # NoProc /\ d # c => on[d] # p /\ state'[on[d]] = "RUNNING"
    <3>1. \A d \in Cpu : on[d] # NoProc /\ d # c => on[d] # p /\ state[on[d]] = "RUNNING"
      BY <1>1, Zenon DEF StackInv
    <3>2. ASSUME NEW d \in Cpu, on[d] # NoProc, d # c PROVE state'[on[d]] = "RUNNING"
      <4>1. PICK q \in Slot : q = on[d] /\ q # p /\ state[q] = "RUNNING" BY <3>1, <3>2, <2>1, Zenon
      <4>2. QED BY <4>1, <1>7, Zenon
    <3>3. QED BY <3>1, <3>2, Zenon
  <2>3. \A q \in Slot : pc'[q] # "wait_scan" BY <1>1 DEF StackInv
  <2>4. QED BY <2>2, <2>3, <1>1, <1>4 DEF StackInv
<1>9. SlotInv' BY <1>1, <1>2, <1>4, <1>5, <1>7, SMTT(30) DEF SlotInv, AliveState
<1>10. ForkInv'
  <2>1. ASSUME NEW q \in Slot, pc[q] \in ForkPc
        PROVE  /\ state'[q] \in {"RUNNING", "RUNNABLE"}
               /\ np[q] \in Slot /\ state'[np[q]] = "EMBRYO"
               /\ pc[q] # "fork_kalloc" => kstack[np[q]] = 1
               /\ parent'[np[q]] = IF pc[q] = "fork_run" THEN q ELSE NoProc
    <3>1. q # p BY <2>1, <1>1, Zenon DEF ForkPc
    <3>2. /\ state[q] \in {"RUNNING", "RUNNABLE"}
          /\ np[q] \in Slot /\ state[np[q]] = "EMBRYO"
          /\ pc[q] # "fork_kalloc" => kstack[np[q]] = 1
          /\ parent[np[q]] = IF pc[q] = "fork_run" THEN q ELSE NoProc
      BY <2>1, Zenon DEF ForkInv
    <3>3. np[q] # p BY <3>2, <1>2, Zenon
    <3>4. parent[np[q]] # p BY <3>1, <3>2, Zenon
    <3>5. QED BY <3>1, <3>2, <3>3, <3>4, <1>5, <1>7, Zenon
  <2>2. QED BY <2>1, <1>1 DEF ForkInv
<1>11. FamilyInv'
  <2>1. state'[initproc] \in AliveState BY <1>1, <1>7, Zenon DEF FamilyInv, AliveState
  <2>2. \A q \in Slot \ {initproc} : state'[q] \in AliveState \cup {"ZOMBIE"} =>
           parent'[q] \in Slot /\ state'[parent'[q]] \in AliveState
    <3>1. ASSUME NEW q \in Slot \ {initproc}, state'[q] \in AliveState \cup {"ZOMBIE"}
          PROVE  parent'[q] \in Slot /\ state'[parent'[q]] \in AliveState
      <4>1. state[q] \in AliveState \cup {"ZOMBIE"} BY <3>1, <1>2, <1>7, Zenon DEF AliveState
      <4>2. parent[q] \in Slot /\ state[parent[q]] \in AliveState BY <4>1, Zenon DEF FamilyInv
      <4>3. CASE parent[q] = p BY <4>3, <2>1, <1>5, Zenon
      <4>4. CASE parent[q] # p BY <4>2, <4>4, <1>5, <1>7, Zenon DEF AliveState
      <4>5. QED BY <4>3, <4>4, Zenon
    <3>2. QED BY <3>1, Zenon
  <2>3. ASSUME NEW q \in Slot, state'[q] = "SLEEPING", pc'[q] = "wait_asleep"
        PROVE  /\ chan'[q] = q /\ killed'[q] = 0
               /\ \E t \in Slot : parent'[t] = q
               /\ \A t \in Slot : parent'[t] = q => state'[t] # "ZOMBIE"
    <3>1. q # p /\ state[q] = "SLEEPING" /\ reaper[q] = "SLEEPING" /\ pc[q] = "wait_asleep"
      BY <2>3, <1>1, <1>4, <1>7, Zenon
    <3>2. /\ chan[q] = q /\ killed[q] = 0 /\ \E t \in Slot : parent[t] = q
          /\ \A t \in Slot : parent[t] = q => state[t] # "ZOMBIE"
      BY <3>1, Zenon DEF FamilyInv
    <3>3. q # parent[p] /\ (q = initproc => \A t \in orphans : state[t] # "ZOMBIE")
      BY <3>1, <3>2, <1>3, Zenon
    <3>4. ASSUME NEW t \in Slot, parent'[t] = q PROVE state'[t] # "ZOMBIE"
      <4>1. t # p BY <3>3, <3>4, <1>5, Zenon DEF FamilyInv
      <4>2. CASE parent[t] = p BY <4>1, <4>2, <3>3, <3>4, <1>5, <1>7, Zenon
      <4>3. CASE parent[t] # p BY <4>1, <4>3, <3>2, <3>4, <1>5, <1>7, Zenon
      <4>4. QED BY <4>2, <4>3, Zenon
    <3>5. QED BY <3>1, <3>2, <3>4, <1>1, <1>5, Zenon
  <2>4. parent'[initproc] = NoProc /\ \A q \in Slot : parent'[q] # q
    BY <1>1, <1>5, Zenon DEF FamilyInv
  <2>5. QED BY <2>1, <2>2, <2>3, <2>4, Zenon DEF FamilyInv
<1>12. QED BY <1>6, <1>8, <1>9, <1>10, <1>11, Zenon

\* wait() reaps a zombie that no CPU is on any more: that CPU would hold ptable.lock.
LEMMA ReapInv ==
    ASSUME ProcInv, NEW c \in Cpu, NEW p \in Slot, NEW z \in Slot, NEW l \in PlainPc,
           lock \in {NoCpu, c}, on[c] = p, state[p] = "RUNNING", pc[p] \in {"wait", "wait_scan"},
           parent[z] = p, state[z] = "ZOMBIE", lock' = NoCpu, pc' = [pc EXCEPT ![p] = l],
           state' = [state EXCEPT ![z] = "UNUSED"], pid' = [pid EXCEPT ![z] = 0],
           parent' = [parent EXCEPT ![z] = NoProc], killed' = [killed EXCEPT ![z] = 0],
           kstack' = [kstack EXCEPT ![z] = 0], UNCHANGED <<chan, nextpid, on, np>>
    PROVE  ProcInv'
<1> USE ProcConstants, SlotFacts DEF ProcInv
<1>1. ProcTypeOK' BY Zenon DEF ProcTypeOK, States, PlainPc
<1>2. /\ state'[z] = "UNUSED" /\ pid'[z] = 0 /\ parent'[z] = NoProc /\ kstack'[z] = 0
      /\ \A q \in Slot : q # z => /\ state'[q] = state[q] /\ pid'[q] = pid[q]
                                  /\ parent'[q] = parent[q] /\ killed'[q] = killed[q]
                                  /\ kstack'[q] = kstack[q]
      /\ pc'[p] = l /\ \A q \in Slot : q # p => pc'[q] = pc[q]
  BY Zenon DEF ProcTypeOK
<1>3. StackInv'
  <2>1. \A d \in Cpu : on[d] # NoProc => on[d] \in Slot BY Zenon DEF ProcTypeOK
  <2>2. \A d \in Cpu : on[d] # NoProc => state[on[d]] = "RUNNING" BY DEF StackInv
  <2>3. \A d \in Cpu : on[d] # NoProc => state'[on[d]] = "RUNNING" BY <2>1, <2>2, <1>2
  <2>4. \A q \in Slot : pc'[q] # "wait_scan" BY <1>2 DEF StackInv, PlainPc
  <2>5. QED BY <2>3, <2>4 DEF StackInv
<1>4. SlotInv' BY <1>2 DEF SlotInv, AliveState
<1>5. ForkInv'
  <2>1. \A q \in Slot : pc'[q] \in ForkPc => q # p /\ pc'[q] = pc[q] /\ q # z /\ np[q] # z
    BY <1>2, Zenon DEF ForkInv, PlainPc, ForkPc
  <2>2. ASSUME NEW q \in Slot, pc'[q] \in ForkPc
        PROVE  /\ state'[q] \in {"RUNNING", "RUNNABLE"}
               /\ np[q] \in Slot /\ state'[np[q]] = "EMBRYO"
               /\ pc'[q] # "fork_kalloc" => kstack'[np[q]] = 1
               /\ parent'[np[q]] = IF pc'[q] = "fork_run" THEN q ELSE NoProc
    BY <2>1, <2>2, <1>2, SMTT(30) DEF ForkInv
  <2>3. QED BY <2>1, <2>2 DEF ForkInv
<1>6. FamilyInv'
  <2>1. z # initproc BY Zenon DEF FamilyInv
  <2>2. \A q \in Slot : state[q] \in AliveState => q # z BY SMTT(30) DEF AliveState
  <2>3. \A q \in Slot \ {initproc} : state'[q] \in AliveState \cup {"ZOMBIE"} =>
           parent'[q] \in Slot /\ state'[parent'[q]] \in AliveState
    BY <2>2, <1>2, SMTT(30) DEF FamilyInv, AliveState
  <2>4. ASSUME NEW q \in Slot, state'[q] = "SLEEPING", pc'[q] = "wait_asleep"
        PROVE  /\ chan[q] = q /\ killed'[q] = 0
               /\ \E t \in Slot : parent'[t] = q
               /\ \A t \in Slot : parent'[t] = q => state'[t] # "ZOMBIE"
    <3>1. q # z /\ q # p /\ state[q] = "SLEEPING" /\ pc[q] = "wait_asleep"
      BY <2>4, <1>2, Zenon DEF PlainPc
    <3>2. /\ chan[q] = q /\ killed[q] = 0 /\ \E t \in Slot : parent[t] = q
          /\ \A t \in Slot : parent[t] = q => state[t] # "ZOMBIE"
      BY <3>1, Zenon DEF FamilyInv
    <3>3. \A t \in Slot : parent[t] = q => t # z BY <3>1, Zenon
    <3>4. QED BY <3>1, <3>2, <3>3, <1>2, SMTT(30)
  <2>5. QED BY <2>1, <2>2, <2>3, <2>4, <1>2 DEF FamilyInv
<1>7. QED BY <1>1, <1>3, <1>4, <1>5, <1>6, Zenon

LEMMA WaitInv ==
    ASSUME ProcInv, NEW c \in Cpu, NEW p \in Slot, wait(c, p)
    PROVE  ProcInv'
<1> USE ProcConstants, SlotFacts
<1> DEFINE kids == {q \in Slot : parent[q] = p}
           zombies == {q \in kids : state[q] = "ZOMBIE"}
<1>1. lock \in {NoCpu, c} /\ on[c] = p /\ pc[p] \in {"wait", "wait_scan"}
  BY Zenon DEF wait, MayLock, Running, Holding
<1>2. state[p] = "RUNNING"
  <2>1. CASE pc[p] = "wait_scan" BY <2>1, Zenon DEF ProcInv, StackInv
  <2>2. CASE pc[p] # "wait_scan" BY <2>2, RunningState, SMTT(30) DEF wait, MayLock
  <2>3. QED BY <2>1, <2>2, Zenon
<1>3. CASE zombies # {}
  <2>1. PICK z \in Slot : z = First(zombies) /\ parent[z] = p /\ state[z] = "ZOMBIE"
    <3>1. zombies \in SUBSET Slot BY Zenon
    <3>2. First(zombies) \in zombies BY <1>3, <3>1, FirstIn, SMTT(30)
    <3>3. QED BY <3>2, Zenon
  <2>2. /\ state' = [state EXCEPT ![z] = "UNUSED"] /\ pid' = [pid EXCEPT ![z] = 0]
        /\ parent' = [parent EXCEPT ![z] = NoProc] /\ killed' = [killed EXCEPT ![z] = 0]
        /\ kstack' = [kstack EXCEPT ![z] = 0] /\ lock' = NoCpu
        /\ pc' = [pc EXCEPT ![p] = "user"] /\ UNCHANGED <<chan, nextpid, on, np>>
    BY <1>3, <2>1, Zenon DEF wait, Goto
  <2>3. "user" \in PlainPc BY Zenon DEF PlainPc
  <2>4. QED BY <1>1, <1>2, <2>1, <2>2, <2>3, ReapInv, Zenon
<1>4. CASE zombies = {} /\ (kids = {} \/ killed[p] = 1)
  <2> USE DEF ProcInv
  <2>1. /\ lock' = NoCpu /\ pc' = [pc EXCEPT ![p] = "user"]
        /\ UNCHANGED <<state, pid, parent, kstack, nextpid, chan, killed, on, np>>
    BY <1>4 DEF wait, Goto, slotVars, ProcTypeOK
  <2>2. ProcTypeOK' BY <2>1, Zenon DEF ProcTypeOK, PlainPc
  <2>3. pc'[p] = "user" /\ \A q \in Slot : q # p => pc'[q] = pc[q] BY <2>1, Zenon DEF ProcTypeOK
  <2>4. StackInv' BY <1>1, <1>2, <2>1, <2>3 DEF StackInv
  <2>5. SlotInv' BY <2>1, Zenon DEF SlotInv
  <2>6. ForkInv' BY <1>1, <2>1, <2>3 DEF ForkInv, ForkPc
  <2>7. FamilyInv' BY <2>1, <2>3, FamilyKept, Zenon
  <2>8. QED BY <2>2, <2>4, <2>5, <2>6, <2>7, SMTT(30)
<1>5. CASE zombies = {} /\ kids # {} /\ killed[p] # 1
  <2>1. sleep(c, p, p, "wait_asleep") /\ killed[p] = 0
    BY <1>5, Zenon DEF wait, ProcInv, ProcTypeOK
  <2>2. p \in Nat BY DEF Slot
  <2>3. QED BY <1>1, <1>2, <1>5, <2>1, <2>2, SleepInv, Zenon
<1>6. QED BY <1>3, <1>4, <1>5, Zenon

-----------------------------------------------------------------------------
(* The theorems.                                                            *)

LEMMA NextInv == ProcInv /\ [Next]_vars => ProcInv'
<1> SUFFICES ASSUME ProcInv, [Next]_vars PROVE ProcInv'
  BY Zenon
<1>1. CASE UNCHANGED vars
  <2>1. /\ lock' = lock /\ state' = state /\ chan' = chan /\ pc' = pc /\ pid' = pid /\ parent' = parent
        /\ kstack' = kstack /\ nextpid' = nextpid /\ killed' = killed /\ on' = on /\ np' = np
    BY <1>1, Zenon DEF vars
  <2>2. ProcTypeOK' BY <2>1, Zenon DEF ProcInv, ProcTypeOK
  <2>3. StackInv' BY <2>1, Zenon DEF ProcInv, StackInv
  <2>4. SlotInv' BY <2>1, Zenon DEF ProcInv, SlotInv
  <2>5. ForkInv' BY <2>1, Zenon DEF ProcInv, ForkInv
  <2>6. FamilyInv' BY <2>1, Zenon DEF ProcInv, FamilyInv
  <2>7. QED BY <2>2, <2>3, <2>4, <2>5, <2>6, Zenon DEF ProcInv
<1>2. ASSUME NEW c \in Cpu, NEW p \in Slot, UserStep(c, p) \/ trap_killed(c, p) PROVE ProcInv'
  BY <1>2, UserInv, KillInv, SMTT(30) DEF UserStep
<1>3. ASSUME NEW c \in Cpu, NEW p \in Slot, KernelStep(c, p) PROVE ProcInv'
  BY <1>3, UserInv, SleepTicksInv, AllocprocInv, ForkKallocInv, ForkFailInv, ForkCopyInv,
     ForkRunInv, ExitInv, WaitInv, Zenon DEF KernelStep
<1>4. ASSUME NEW c \in Cpu, NEW p \in Slot, SwitchStep(c, p) PROVE ProcInv'
  BY <1>4, YieldInv, SchedInv, SchedulerInv, ResumeInv, Zenon DEF SwitchStep
<1>5. QED BY <1>1, <1>2, <1>3, <1>4, SchedulerStepInv, TimerInv, Zenon DEF Next

LEMMA Invariance == Spec => []ProcInv
BY InitInv, NextInv, PTL DEF Spec

\* No kernel stack is used by two CPUs or after it was freed, for every number of CPUs and
\* processes: ptable.lock is held across swtch() (sched(), scheduler(), wait()).
THEOREM StackSafety == Spec => []StackExclusive
<1>1. ProcInv => StackExclusive
  <2> SUFFICES ASSUME ProcInv, NEW c \in Cpu, on[c] # NoProc
               PROVE  /\ kstack[on[c]] = 1
                      /\ \A d \in Cpu : on[d] = on[c] => d = c
                      /\ state[on[c]] = "RUNNING" \/ lock = c
    BY Zenon DEF StackExclusive
  <2>1. on[c] \in Slot BY SlotFacts, Zenon DEF ProcInv, ProcTypeOK
  <2>2. QED BY <2>1, Zenon DEF ProcInv, StackInv, SlotInv, AliveState
<1>2. QED BY <1>1, Invariance, PTL

\* A slot in use owns a kernel stack and a pid that no other slot in use has, and a free slot
\* owns no stack, whether fork() succeeds or gives its slot back (allocproc(), fork(), wait()).
THEOREM SlotSafety == Spec => []SlotsAccounted
<1>1. ProcInv => SlotsAccounted
  BY Zenon DEF SlotsAccounted, Alive, ProcInv, SlotInv, AliveState
<1>2. QED BY <1>1, Invariance, PTL

\* Every process but init has a living parent, and nobody sleeps in wait() beside a zombie
\* child or after a kill, however many processes fork, exit, wait and kill at once.
THEOREM FamilySafety == Spec => []FamiliesIntact
<1>1. ProcInv => FamiliesIntact
  BY Zenon DEF FamiliesIntact, Alive, ProcInv, FamilyInv, AliveState
<1>2. QED BY <1>1, Invariance, PTL
=============================================================================
