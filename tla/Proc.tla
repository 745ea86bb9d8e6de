-------------------------------- MODULE Proc --------------------------------
(***************************************************************************)
(* Process slots, the scheduler and ptable.lock: kernel/proc.c, with the    *)
(* callers in kernel/sysproc.c and kernel/trap.c.                           *)
(*                                                                         *)
(* ptable.lock is held across swtch(): the process that gives up its CPU    *)
(* acquires it and the one that gets the CPU releases it.  The lock is      *)
(* therefore a variable, the state change and the swtch() of sched() are    *)
(* two steps, and in between other CPUs run whatever needs no lock.  A      *)
(* critical section without a swtch() is one action.                        *)
(*                                                                         *)
(* User programs are arbitrary: a process in user space may make any call.  *)
(***************************************************************************)
EXTENDS Integers, FiniteSets

CONSTANTS NPROC,     \* param.h:1, slots of the process table
          Cpu,       \* the CPUs
          NoCpu,     \* "ptable.lock is free"
          Uid,       \* user ids, 0 among them
          MAXPID,    \* bound: fork() is not called once nextpid exceeds it
          KILLPIDS,  \* bound: the pids kill() is asked for
          MAXTICKS,  \* bound: the longest sleep() asked for
          Sleepers   \* bound: slots whose programs call sleep()

ASSUME ProcConstants ==
    /\ NPROC \in Nat \ {0}
    /\ NoCpu \notin Cpu
    /\ Uid \subseteq Nat /\ 0 \in Uid
    /\ MAXPID \in Nat \ {0} /\ KILLPIDS \subseteq Nat /\ MAXTICKS \in Nat
    /\ Sleepers \subseteq Nat

Slot     == 1 .. NPROC
NoProc   == 0
initproc == 1
tickchan == NPROC + 1     \* &ticks, a channel that is no process
Offline == NPROC + 2      \* what is on a CPU that does not run

VARIABLES
    state, pid, parent, chan, killed, uid,   \* fields of struct proc
    kstack,    \* 1 if the slot owns a kernel stack
    nextpid,   \* proc.c:17
    lock,      \* the CPU that holds ptable.lock, or NoCpu
    on,        \* c->proc: the process whose kernel stack a CPU is on, or NoProc
    pc,        \* where each process is
    np,        \* fork()'s local variable np
    left,      \* n - (ticks - ticks0) in sys_sleep(), 0 once it is negative
    panic      \* the message that stopped the machine, or "none"

slotVars == <<pid, parent, uid, kstack, nextpid>>
vars == <<state, pid, parent, chan, killed, uid, kstack, nextpid, lock, on, pc,
          np, left, panic>>

\* The machine after userinit(), before any CPU has entered scheduler().  The CPUs that are
\* not in `online' never run; the first child gets the pid `next'.
Boot(online, next) ==
    /\ state = [p \in Slot |-> IF p = initproc THEN "RUNNABLE" ELSE "UNUSED"]
    /\ pid = [p \in Slot |-> IF p = initproc THEN 1 ELSE 0]
    /\ parent = [p \in Slot |-> NoProc]
    /\ chan = [p \in Slot |-> 0]
    /\ killed = [p \in Slot |-> 0]
    /\ uid = [p \in Slot |-> 0]
    /\ kstack = [p \in Slot |-> IF p = initproc THEN 1 ELSE 0]
    /\ nextpid = next
    /\ lock = NoCpu
    /\ on = [c \in Cpu |-> IF c \in online THEN NoProc ELSE Offline]
    /\ pc = [p \in Slot |-> "user"]
    /\ np = [p \in Slot |-> NoProc]
    /\ left = [p \in Slot |-> 0]
    /\ panic = "none"

Init == Boot(Cpu, 2)

\* CPU c executes process p outside ptable.lock.
Running(c, p) == panic = "none" /\ on[c] = p /\ lock # c

\* CPU c executes process p and may acquire ptable.lock.
MayLock(c, p) == Running(c, p) /\ lock = NoCpu

\* CPU c is on the stack of p and holds ptable.lock.
Holding(c, p) == panic = "none" /\ on[c] = p /\ lock = c

Goto(p, label) == pc' = [pc EXCEPT ![p] = label]

\* The first slot of the table that is in S.
First(S) == CHOOSE p \in S : \A q \in S : p =< q

\* tickslock is held from the test in sys_sleep() until sleep() releases it.
ticksLocked == \E p \in Slot : pc[p] = "sleep_go"

\* wakeup1(ch), applied to the states st.
wakeup1(st, ch) ==
    [p \in Slot |-> IF st[p] = "SLEEPING" /\ chan[p] = ch THEN "RUNNABLE"
                    ELSE st[p]]

-----------------------------------------------------------------------------
(* System calls and traps.                                                  *)

\* trap(): a system call starts, unless the process has been killed.
syscall(c, p) ==
    /\ Running(c, p) /\ pc[p] = "user" /\ killed[p] = 0
    /\ \E call \in {"fork", "exit", "wait"} : Goto(p, call)
    /\ pc'[p] = "fork" => nextpid =< MAXPID
    /\ UNCHANGED <<state, slotVars, chan, killed, lock, on, np, left, panic>>

\* trap(): a killed process exits at its next entry from user space.
trap_killed(c, p) ==
    /\ Running(c, p) /\ pc[p] = "user" /\ killed[p] = 1
    /\ Goto(p, "exit")
    /\ UNCHANGED <<state, slotVars, chan, killed, lock, on, np, left, panic>>

sys_setuid(c, p) ==
    /\ Running(c, p) /\ pc[p] = "user" /\ killed[p] = 0
    /\ uid[p] = 0
    /\ \E u \in Uid : uid' = [uid EXCEPT ![p] = u]
    /\ UNCHANGED <<state, pid, parent, chan, killed, kstack, nextpid, lock, on,
                   pc, np, left, panic>>

\* Mutant: a process killed in its sleep is not woken.
kill_NoWakeup(c, p, n) ==
    /\ MayLock(c, p) /\ pc[p] = "user" /\ killed[p] = 0
    /\ LET S == {q \in Slot : pid[q] = n} IN
       /\ S # {}
       /\ killed' = [killed EXCEPT ![First(S)] = 1]
    /\ UNCHANGED <<state, slotVars, chan, lock, on, pc, np, left, panic>>

\* kill(n) acts on the first slot with that pid.
kill(c, p, n) ==
    /\ MayLock(c, p) /\ pc[p] = "user" /\ killed[p] = 0
    /\ LET S == {q \in Slot : pid[q] = n} IN
       /\ S # {}
       /\ killed' = [killed EXCEPT ![First(S)] = 1]
       /\ state' = [state EXCEPT ![First(S)] =
                       IF @ = "SLEEPING" THEN "RUNNABLE" ELSE @]
    /\ UNCHANGED <<slotVars, chan, lock, on, pc, np, left, panic>>

\* sys_sleep(n): tickslock is acquired and ticks0 read.
sys_sleep(c, p) ==
    /\ Running(c, p) /\ pc[p] = "user" /\ killed[p] = 0 /\ ~ticksLocked
    /\ p \in Sleepers
    /\ \E n \in 0 .. MAXTICKS : left' = [left EXCEPT ![p] = n]
    /\ Goto(p, "sleep")
    /\ UNCHANGED <<state, slotVars, chan, killed, lock, on, np, panic>>

\* The loop test and the test of killed, under tickslock.
sleep_test(c, p) ==
    /\ Running(c, p) /\ pc[p] = "sleep" /\ ~ticksLocked
    /\ Goto(p, IF left[p] > 0 /\ killed[p] = 0 THEN "sleep_go" ELSE "user")
    /\ UNCHANGED <<state, slotVars, chan, killed, lock, on, np, left, panic>>

\* The timer interrupt: ticks++ and wakeup(&ticks), under tickslock.
timer ==
    /\ panic = "none" /\ lock = NoCpu /\ ~ticksLocked
    /\ left' = [p \in Slot |-> IF left[p] > 0 THEN left[p] - 1 ELSE 0]
    /\ state' = wakeup1(state, tickchan)
    /\ UNCHANGED <<slotVars, chan, killed, lock, on, pc, np, panic>>

-----------------------------------------------------------------------------
(* Giving up and getting a CPU.                                             *)

\* Mutant: ptable.lock is released before swtch().
yield_Unlocked(c, p) ==
    /\ MayLock(c, p)
    /\ pc[p] # "sleep_go" /\ ~(pc[p] = "user" /\ killed[p] = 1)
    /\ state' = [state EXCEPT ![p] = "RUNNABLE"]
    /\ UNCHANGED <<slotVars, chan, killed, lock, on, pc, np, left, panic>>

\* yield() on a timer interrupt, wherever interrupts are enabled.
yield(c, p) ==
    /\ MayLock(c, p)
    /\ pc[p] # "sleep_go" /\ ~(pc[p] = "user" /\ killed[p] = 1)
    /\ state' = [state EXCEPT ![p] = "RUNNABLE"]
    /\ lock' = c
    /\ UNCHANGED <<slotVars, chan, killed, on, pc, np, left, panic>>

\* sleep(): the state change, after ptable.lock has replaced lk.
sleep(c, p, ch, label) ==
    /\ chan' = [chan EXCEPT ![p] = ch]
    /\ state' = [state EXCEPT ![p] = "SLEEPING"]
    /\ lock' = c
    /\ Goto(p, label)
    /\ UNCHANGED <<slotVars, killed, on, np, left, panic>>

sleep_ticks(c, p) ==
    /\ MayLock(c, p) /\ pc[p] = "sleep_go"
    /\ sleep(c, p, tickchan, "asleep")

\* sched(): swtch() to the scheduler's stack, which clears c->proc.
sched(c, p) ==
    /\ Holding(c, p) /\ state[p] # "RUNNING"
    /\ on' = [on EXCEPT ![c] = NoProc]
    /\ UNCHANGED <<state, slotVars, chan, killed, lock, pc, np, left, panic>>

scheduler_acquire(c) ==
    /\ panic = "none" /\ on[c] = NoProc /\ lock = NoCpu
    /\ lock' = c
    /\ UNCHANGED <<state, slotVars, chan, killed, on, pc, np, left, panic>>

\* scheduler(): swtch() to a runnable process.
scheduler(c, p) ==
    /\ panic = "none" /\ on[c] = NoProc /\ lock = c
    /\ state[p] = "RUNNABLE"
    /\ state' = [state EXCEPT ![p] = "RUNNING"]
    /\ on' = [on EXCEPT ![c] = p]
    /\ UNCHANGED <<slotVars, chan, killed, lock, pc, np, left, panic>>

\* The end of a pass over the table.
scheduler_release(c) ==
    /\ panic = "none" /\ on[c] = NoProc /\ lock = c
    /\ lock' = NoCpu
    /\ UNCHANGED <<state, slotVars, chan, killed, on, pc, np, left, panic>>

\* swtch() returns in yield(), forkret() or sleep(): chan is cleared and
\* ptable.lock released, except in wait(), which goes on scanning under it.
resume(c, p) ==
    /\ Holding(c, p) /\ state[p] = "RUNNING" /\ pc[p] # "wait_scan"
    /\ chan' = [chan EXCEPT ![p] = 0]
    /\ lock' = IF pc[p] = "wait_asleep" THEN c ELSE NoCpu
    /\ Goto(p, CASE pc[p] = "wait_asleep" -> "wait_scan"
                 [] pc[p] = "asleep" -> "sleep"
                 [] OTHER -> pc[p])
    /\ UNCHANGED <<state, slotVars, killed, on, np, left, panic>>

-----------------------------------------------------------------------------
(* fork().                                                                  *)

\* allocproc() up to the release of ptable.lock.
allocproc(c, p) ==
    /\ MayLock(c, p) /\ pc[p] = "fork"
    /\ LET U == {q \in Slot : state[q] = "UNUSED"} IN
       IF U = {}
       THEN Goto(p, "user") /\ UNCHANGED <<state, pid, nextpid, np>>
       ELSE /\ state' = [state EXCEPT ![First(U)] = "EMBRYO"]
            /\ pid' = [pid EXCEPT ![First(U)] = nextpid]
            /\ nextpid' = nextpid + 1
            /\ np' = [np EXCEPT ![p] = First(U)]
            /\ Goto(p, "fork_kalloc")
    /\ UNCHANGED <<parent, chan, killed, uid, kstack, lock, on, left, panic>>

\* kalloc() of the kernel stack.
fork_kalloc(c, p) ==
    /\ Running(c, p) /\ pc[p] = "fork_kalloc"
    /\ kstack' = [kstack EXCEPT ![np[p]] = 1]
    /\ Goto(p, "fork_copy")
    /\ UNCHANGED <<state, pid, parent, chan, killed, uid, nextpid, lock, on,
                   np, left, panic>>

\* Mutant: the kernel stack is not given back.
fork_fail_LeaksStack(c, p) ==
    /\ Running(c, p) /\ pc[p] \in {"fork_kalloc", "fork_copy"}
    /\ state' = [state EXCEPT ![np[p]] = "UNUSED"]
    /\ np' = [np EXCEPT ![p] = NoProc]
    /\ Goto(p, "user")
    /\ UNCHANGED <<slotVars, chan, killed, lock, on, left, panic>>

\* kalloc() or copyuvm() fails: the slot is given back without the lock.
fork_fail(c, p) ==
    /\ Running(c, p) /\ pc[p] \in {"fork_kalloc", "fork_copy"}
    /\ kstack' = [kstack EXCEPT ![np[p]] = 0]
    /\ state' = [state EXCEPT ![np[p]] = "UNUSED"]
    /\ np' = [np EXCEPT ![p] = NoProc]
    /\ Goto(p, "user")
    /\ UNCHANGED <<pid, parent, chan, killed, uid, nextpid, lock, on, left,
                   panic>>

\* The child's fields are filled in: uid, euid and gids are not among them.
fork_copy(c, p) ==
    /\ Running(c, p) /\ pc[p] = "fork_copy"
    /\ parent' = [parent EXCEPT ![np[p]] = p]
    /\ Goto(p, "fork_run")
    /\ UNCHANGED <<state, pid, chan, killed, uid, kstack, nextpid, lock, on,
                   np, left, panic>>

\* The child becomes runnable; it will start in forkret().
fork_run(c, p) ==
    /\ MayLock(c, p) /\ pc[p] = "fork_run"
    /\ state' = [state EXCEPT ![np[p]] = "RUNNABLE"]
    /\ pc' = [pc EXCEPT ![p] = "user", ![np[p]] = "user"]
    /\ np' = [np EXCEPT ![p] = NoProc]
    /\ UNCHANGED <<slotVars, chan, killed, lock, on, left, panic>>

-----------------------------------------------------------------------------
(* exit() and wait().                                                       *)

exit_init(c, p) ==
    /\ Running(c, p) /\ pc[p] = "exit" /\ p = initproc
    /\ panic' = "init_exiting"
    /\ UNCHANGED <<state, slotVars, chan, killed, lock, on, pc, np, left>>

\* Mutant: init is not told of the zombies it inherits.
exit_NoWakeupInit(c, p) ==
    /\ MayLock(c, p) /\ pc[p] = "exit" /\ p # initproc
    /\ parent' = [q \in Slot |-> IF parent[q] = p THEN initproc ELSE parent[q]]
    /\ state' = [wakeup1(state, parent[p]) EXCEPT ![p] = "ZOMBIE"]
    /\ lock' = c
    /\ UNCHANGED <<pid, chan, killed, uid, kstack, nextpid, on, pc, np, left,
                   panic>>

\* Mutant: a parent asleep in wait() is not woken.
exit_NoWakeup(c, p) ==
    /\ MayLock(c, p) /\ pc[p] = "exit" /\ p # initproc
    /\ parent' = [q \in Slot |-> IF parent[q] = p THEN initproc ELSE parent[q]]
    /\ state' = [state EXCEPT ![p] = "ZOMBIE"]
    /\ lock' = c
    /\ UNCHANGED <<pid, chan, killed, uid, kstack, nextpid, on, pc, np, left,
                   panic>>

\* wakeup1(parent), hand the children to init, become a zombie.
exit(c, p) ==
    /\ MayLock(c, p) /\ pc[p] = "exit" /\ p # initproc
    /\ LET orphans == {q \in Slot : parent[q] = p}
           woken   == wakeup1(state, parent[p])
           reaper  == IF \E q \in orphans : state[q] = "ZOMBIE"
                      THEN wakeup1(woken, initproc) ELSE woken
       IN /\ parent' = [q \in Slot |-> IF q \in orphans THEN initproc
                                       ELSE parent[q]]
          /\ state' = [reaper EXCEPT ![p] = "ZOMBIE"]
    /\ lock' = c
    /\ UNCHANGED <<pid, chan, killed, uid, kstack, nextpid, on, pc, np, left,
                   panic>>

\* One pass of wait()'s loop: reap the first zombie child, give up if there
\* are no children or the process was killed, sleep otherwise.
wait(c, p) ==
    /\ \/ MayLock(c, p) /\ pc[p] = "wait"
       \/ Holding(c, p) /\ pc[p] = "wait_scan"
    /\ LET kids    == {q \in Slot : parent[q] = p}
           zombies == {q \in kids : state[q] = "ZOMBIE"}
           z       == First(zombies)
       IN \/ /\ zombies # {}
             /\ state' = [state EXCEPT ![z] = "UNUSED"]
             /\ pid' = [pid EXCEPT ![z] = 0]
             /\ parent' = [parent EXCEPT ![z] = NoProc]
             /\ killed' = [killed EXCEPT ![z] = 0]
             /\ kstack' = [kstack EXCEPT ![z] = 0]
             /\ lock' = NoCpu
             /\ Goto(p, "user")
             /\ UNCHANGED <<chan, uid, nextpid, on, np, left, panic>>
          \/ /\ zombies = {}
             /\ kids = {} \/ killed[p] = 1
             /\ lock' = NoCpu
             /\ Goto(p, "user")
             /\ UNCHANGED <<state, slotVars, chan, killed, on, np, left, panic>>
          \/ /\ zombies = {}
             /\ kids # {} /\ killed[p] = 0
             /\ sleep(c, p, p, "wait_asleep")

-----------------------------------------------------------------------------
\* Steps of process p on CPU c once it is in the kernel.
KernelStep(c, p) ==
    \/ allocproc(c, p) \/ fork_kalloc(c, p) \/ fork_fail(c, p)
    \/ fork_copy(c, p) \/ fork_run(c, p)
    \/ exit_init(c, p) \/ exit(c, p) \/ wait(c, p)
    \/ sleep_test(c, p) \/ sleep_ticks(c, p)

UserStep(c, p) ==
    \/ syscall(c, p) \/ sys_setuid(c, p) \/ sys_sleep(c, p)
    \/ \E n \in KILLPIDS : kill(c, p, n)

SwitchStep(c, p) ==
    yield(c, p) \/ sched(c, p) \/ scheduler(c, p) \/ resume(c, p)

SchedulerStep(c) == scheduler_acquire(c) \/ scheduler_release(c)

Next == \/ \E c \in Cpu, p \in Slot :
              \/ UserStep(c, p) \/ KernelStep(c, p) \/ SwitchStep(c, p)
              \/ trap_killed(c, p)
        \/ \E c \in Cpu : SchedulerStep(c)
        \/ timer

Spec == Init /\ [][Next]_vars

(***************************************************************************)
(* Fairness.  A CPU goes on with what it executes, its timer interrupts it  *)
(* again and again, and every pass of scheduler() goes over the whole       *)
(* table, so a process that is runnable again and again is run.  Preemption *)
(* does not keep a process from its next step for ever: that and the choice *)
(* of scheduler() need strong fairness.  So does the timer: its interrupt   *)
(* stays pending while ptable.lock is held, and an idle scheduler opens     *)
(* interrupts (sti) and halts until one comes (proc.c:332-337).  With two   *)
(* CPUs, strong fairness also says that a CPU that spins on ptable.lock     *)
(* gets it at last.  init's program calls wait() over and over              *)
(* (user/init.c:43).                                                        *)
(***************************************************************************)
Fairness ==
    /\ SF_vars(timer)
    /\ WF_vars(\E c \in Cpu, p \in Slot : yield(c, p) \/ sched(c, p) \/ resume(c, p))
    /\ WF_vars(\E c \in Cpu : SchedulerStep(c))
    /\ \A p \in Slot :
          /\ SF_vars(\E c \in Cpu : scheduler(c, p))
          /\ SF_vars(\E c \in Cpu : KernelStep(c, p) \/ trap_killed(c, p))
    /\ SF_vars(\E c \in Cpu : syscall(c, initproc) /\ pc'[initproc] = "wait")

-----------------------------------------------------------------------------
(* Properties.                                                              *)

Alive == {p \in Slot : state[p] \in {"SLEEPING", "RUNNABLE", "RUNNING"}}

\* No kernel stack is ever used by two CPUs, nor used once wait() has freed
\* it: holding ptable.lock across swtch() keeps a process that has left
\* RUNNING from being run or reaped while its CPU is still on its stack.
StackExclusive ==
    \A c \in Cpu : on[c] # NoProc =>
        /\ kstack[on[c]] = 1
        /\ \A d \in Cpu : on[d] = on[c] => d = c
        /\ state[on[c]] = "RUNNING" \/ lock = c

\* Slots own resources exactly while they are in use: a kernel stack and a
\* pid of their own, that no other slot in use has.
SlotsAccounted ==
    \A p \in Slot :
        /\ state[p] = "UNUSED" => kstack[p] = 0
        /\ p \in Alive \/ state[p] = "ZOMBIE" =>
              /\ kstack[p] = 1
              /\ pid[p] \in 1 .. nextpid - 1
              /\ \A q \in Slot : q # p /\ pid[q] = pid[p] => state[q] = "UNUSED"

\* Parents and children find one another, however exit(), wait() and kill() interleave:
\* every process but init has a parent that can still wait for it, also when parent and
\* child exit together; a process asleep in wait() has a child, has no child that is a
\* zombie (no wakeup is lost) and has not been killed.
FamiliesIntact ==
    /\ \A p \in Slot \ {initproc} :
          p \in Alive \/ state[p] = "ZOMBIE" => parent[p] \in Alive
    /\ \A p \in Slot : state[p] = "SLEEPING" /\ pc[p] = "wait_asleep" =>
          /\ \E q \in Slot : parent[q] = p
          /\ \A q \in Slot : parent[q] = p => state[q] # "ZOMBIE"
          /\ killed[p] = 0

\* "Create a new process copying p as the parent" (proc.c:177): the child
\* starts with the credentials of its parent.
ForkCopiesUid ==
    [][\A c \in Cpu, p \in Slot : fork_run(c, p) => uid'[np[p]] = uid[p]]_vars

\* A killed process exits, whatever call it is in when it is killed.
KilledExits ==
    \A p \in Slot :
        (killed[p] = 1 /\ p \in Alive) ~> (p \notin Alive \/ panic # "none")

\* init reaps every orphan.
OrphansReaped ==
    \A p \in Slot :
        (state[p] = "ZOMBIE" /\ parent[p] = initproc) ~>
            (state[p] = "UNUSED" \/ panic # "none")
=============================================================================
