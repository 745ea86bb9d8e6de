-------------------------------- MODULE Log --------------------------------
(***************************************************************************)
(* The write-ahead log of kernel/log.c, over a disk whose sector writes are *)
(* atomic (a log header and a block are one 512-byte sector each) and a     *)
(* buffer cache that may drop any buffer that is neither held nor dirty.    *)
(*                                                                         *)
(* A critical section of log.lock is one action.  commit() and recovery run *)
(* without the lock, so each of their disk writes is an action of its own   *)
(* and the machine may lose power between any two of them.                  *)
(***************************************************************************)
EXTENDS Integers, Sequences, FiniteSets

CONSTANTS Proc,         \* processes making file-system calls
          Block,        \* home blocks of the file system
          Val,          \* contents of a block
          NoBlock,      \* "no buffer held"
          NoBuf,        \* "not in the buffer cache"
          MAXOPBLOCKS,  \* param.h:10, what begin_op() reserves for a call
          LOGSIZE,      \* param.h:11, entries of struct logheader
          NLOG,         \* sb.nlog: log blocks on disk, the header included
          OPBLOCKS      \* distinct blocks the largest call really writes

ASSUME LogConstants ==
    /\ MAXOPBLOCKS \in Nat \ {0} /\ LOGSIZE \in Nat /\ NLOG \in Nat \ {0}
    /\ OPBLOCKS \in Nat
    /\ MAXOPBLOCKS =< LOGSIZE
    /\ NoBlock \notin Block
    /\ NoBuf \notin Val
    /\ Val # {}
    /\ IsFiniteSet(Proc) /\ IsFiniteSet(Block)

VARIABLES
    disk,         \* home blocks on disk
    logblk,       \* log data blocks on disk, log.start+1 ...
    head,         \* on-disk log header: the block numbers, in order
    cache,        \* buffer cache: contents, or NoBuf
    dirty,        \* buffers with B_DIRTY set
    lh,           \* log.lh: the header in memory
    outstanding,  \* log.outstanding
    committing,   \* log.committing
    tail,         \* loop variable of write_log() and install_trans()
    boot,         \* recovery's progress, "up" once initlog() has returned
    panic,        \* the message of the panic() that stopped the machine, or "none"
    pc,           \* where each process is
    hold,         \* the buffer each process holds locked
    written       \* blocks logged by each process's call in progress

diskVars == <<disk, logblk, head>>
memVars  == <<lh, outstanding, committing, tail, boot>>
procVars == <<pc, hold, written>>
vars == <<disk, logblk, head, cache, dirty, lh, outstanding, committing, tail,
          boot, panic, pc, hold, written>>

LogSlot == 1 .. NLOG - 1

CallPC   == {"op", "held", "log"}
CommitPC == {"write_log", "install", "finish"}

\* Processes between begin_op() and end_op().
Active == {p \in Proc : pc[p] \in CallPC}

Logged(hdr, b) == \E i \in 1 .. Len(hdr) : hdr[i] = b

\* Process p is at label, and no panic() has stopped the machine.
At(p, label) == panic = "none" /\ pc[p] = label

Goto(p, label) == pc' = [pc EXCEPT ![p] = label]

(***************************************************************************)
(* The disk after mkfs, before the first process has run initlog().         *)
(***************************************************************************)
Init ==
    /\ disk \in [Block -> Val]
    /\ \E v \in Val : logblk = [i \in LogSlot |-> v]
    /\ head = <<>>
    /\ cache = [b \in Block |-> NoBuf]
    /\ dirty = {}
    /\ lh = <<>>
    /\ outstanding = 0
    /\ committing = 0
    /\ tail = 0
    /\ boot = "read_head"
    /\ panic = "none"
    /\ pc = [p \in Proc |-> "idle"]
    /\ hold = [p \in Proc |-> NoBlock]
    /\ written = [p \in Proc |-> {}]

-----------------------------------------------------------------------------
(* Recovery: initlog() -> recover_from_log(), run by the first process      *)
(* before any other exists.                                                 *)

read_head ==
    /\ boot = "read_head"
    /\ lh' = head
    /\ tail' = 0
    /\ boot' = "install"
    /\ UNCHANGED <<diskVars, cache, dirty, outstanding, committing, panic,
                   procVars>>

\* One iteration of install_trans(): the log block goes to its home block.
InstallOne ==
    /\ tail < Len(lh)
    /\ disk' = [disk EXCEPT ![lh[tail + 1]] = logblk[tail + 1]]
    /\ cache' = [cache EXCEPT ![lh[tail + 1]] = logblk[tail + 1]]
    /\ dirty' = dirty \ {lh[tail + 1]}
    /\ tail' = tail + 1
    /\ UNCHANGED <<logblk, head, lh>>

\* log.lh.n = 0; write_head().
ClearHead ==
    /\ tail = Len(lh)
    /\ lh' = <<>>
    /\ head' = <<>>
    /\ tail' = 0
    /\ UNCHANGED <<disk, logblk, cache, dirty>>

recover_install ==
    /\ boot = "install"
    /\ InstallOne
    /\ UNCHANGED <<outstanding, committing, boot, panic, procVars>>

recover_clear ==
    /\ boot = "install"
    /\ ClearHead
    /\ boot' = "up"
    /\ UNCHANGED <<outstanding, committing, panic, procVars>>

-----------------------------------------------------------------------------
(* A file-system call.                                                      *)

Call(p) ==
    /\ boot = "up"
    /\ At(p, "idle")
    /\ Goto(p, "begin")
    /\ UNCHANGED <<diskVars, cache, dirty, memVars, panic, hold, written>>

\* Mutant: the space that logged blocks take up is forgotten.
NoRoomForOp_IgnoresLog == (outstanding + 1) * MAXOPBLOCKS > LOGSIZE

NoRoomForOp == Len(lh) + (outstanding + 1) * MAXOPBLOCKS > LOGSIZE

\* Mutant: a call begins while the log is being committed.
begin_op_InCommit(p) ==
    /\ At(p, "begin")
    /\ IF NoRoomForOp
       THEN Goto(p, "asleep") /\ UNCHANGED outstanding
       ELSE Goto(p, "op") /\ outstanding' = outstanding + 1
    /\ UNCHANGED <<diskVars, cache, dirty, lh, committing, tail, boot, panic,
                   hold, written>>

begin_op(p) ==
    /\ At(p, "begin")
    /\ IF committing = 1 \/ NoRoomForOp
       THEN Goto(p, "asleep") /\ UNCHANGED outstanding
       ELSE Goto(p, "op") /\ outstanding' = outstanding + 1
    /\ UNCHANGED <<diskVars, cache, dirty, lh, committing, tail, boot, panic,
                   hold, written>>

\* bread(): lock the buffer, reading the block if it is not cached.
bread(p, b) ==
    /\ At(p, "op")
    /\ \A q \in Proc : hold[q] # b
    /\ cache' = [cache EXCEPT ![b] = IF @ = NoBuf THEN disk[b] ELSE @]
    /\ hold' = [hold EXCEPT ![p] = b]
    /\ Goto(p, "held")
    /\ UNCHANGED <<diskVars, dirty, memVars, panic, written>>

\* brelse() of a buffer that was only read.
brelse(p) ==
    /\ At(p, "held")
    /\ hold' = [hold EXCEPT ![p] = NoBlock]
    /\ Goto(p, "op")
    /\ UNCHANGED <<diskVars, cache, dirty, memVars, panic, written>>

TooBig == Len(lh) >= LOGSIZE \/ Len(lh) >= NLOG - 1

\* The caller changes the data and calls log_write(), whose checks read
\* log.lh.n and log.outstanding before log.lock is acquired.  A call writes
\* at most OPBLOCKS distinct blocks.
log_write_check(p, v) ==
    /\ At(p, "held")
    /\ Cardinality(written[p] \cup {hold[p]}) =< OPBLOCKS
    /\ cache' = [cache EXCEPT ![hold[p]] = v]
    /\ panic' = IF TooBig THEN "too_big"
                ELSE IF outstanding < 1 THEN "outside_of_trans"
                ELSE "none"
    /\ Goto(p, "log")
    /\ UNCHANGED <<diskVars, dirty, memVars, hold, written>>

\* The rest of log_write(), under log.lock, and the caller's brelse().
log_write(p) ==
    /\ At(p, "log")
    /\ lh' = IF Logged(lh, hold[p]) THEN lh ELSE Append(lh, hold[p])
    /\ dirty' = dirty \cup {hold[p]}
    /\ written' = [written EXCEPT ![p] = @ \cup {hold[p]}]
    /\ hold' = [hold EXCEPT ![p] = NoBlock]
    /\ Goto(p, "op")
    /\ UNCHANGED <<diskVars, cache, outstanding, committing, tail, boot, panic>>

\* pc after wakeup(&log) and p moving on to label.
WakeupGoto(p, label) ==
    pc' = [q \in Proc |-> IF q = p THEN label
                          ELSE IF pc[q] = "asleep" THEN "begin" ELSE pc[q]]

end_op(p) ==
    /\ At(p, "op")
    /\ outstanding' = outstanding - 1
    /\ panic' = IF committing = 1 THEN "log_committing" ELSE "none"
    /\ IF outstanding = 1
       THEN committing' = 1 /\ tail' = 0 /\ Goto(p, "write_log")
       ELSE WakeupGoto(p, "idle") /\ UNCHANGED <<committing, tail>>
    /\ written' = [written EXCEPT ![p] = {}]
    /\ UNCHANGED <<diskVars, cache, dirty, lh, boot, hold>>

-----------------------------------------------------------------------------
(* commit(), run without log.lock by the process whose end_op() was last.   *)

\* One iteration of write_log(): a cached block goes to its log block.
write_log(p) ==
    /\ At(p, "write_log")
    /\ tail < Len(lh)
    /\ logblk' = [logblk EXCEPT ![tail + 1] = cache[lh[tail + 1]]]
    /\ tail' = tail + 1
    /\ UNCHANGED <<disk, head, cache, dirty, lh, outstanding, committing, boot,
                   panic, procVars>>

\* Mutant: off by one in the test for an empty log.
commit_nothing_OffByOne(p) ==
    /\ At(p, "write_log")
    /\ Len(lh) =< 1
    /\ Goto(p, "finish")
    /\ UNCHANGED <<diskVars, cache, dirty, memVars, panic, hold, written>>

\* commit() returns at once if log.lh.n is 0.
commit_nothing(p) ==
    /\ At(p, "write_log")
    /\ lh = <<>>
    /\ Goto(p, "finish")
    /\ UNCHANGED <<diskVars, cache, dirty, memVars, panic, hold, written>>

\* Mutant: the header is written before the log blocks are.
write_head_Early(p) ==
    /\ At(p, "write_log")
    /\ lh # <<>>
    /\ head' = lh
    /\ tail' = 0
    /\ Goto(p, "install")
    /\ UNCHANGED <<disk, logblk, cache, dirty, lh, outstanding, committing,
                   boot, panic, hold, written>>

\* The commit point.
write_head(p) ==
    /\ At(p, "write_log")
    /\ lh # <<>>
    /\ tail = Len(lh)
    /\ head' = lh
    /\ tail' = 0
    /\ Goto(p, "install")
    /\ UNCHANGED <<disk, logblk, cache, dirty, lh, outstanding, committing,
                   boot, panic, hold, written>>

install_trans(p) ==
    /\ At(p, "install")
    /\ InstallOne
    /\ UNCHANGED <<outstanding, committing, boot, panic, procVars>>

commit_clear(p) ==
    /\ At(p, "install")
    /\ ClearHead
    /\ Goto(p, "finish")
    /\ UNCHANGED <<outstanding, committing, boot, panic, hold, written>>

\* Mutant: no wakeup(&log).
end_commit_NoWakeup(p) ==
    /\ At(p, "finish")
    /\ committing' = 0
    /\ Goto(p, "idle")
    /\ UNCHANGED <<diskVars, cache, dirty, lh, outstanding, tail, boot, panic,
                   hold, written>>

\* The end of end_op(): committing is reset and every sleeper is woken.
end_commit(p) ==
    /\ At(p, "finish")
    /\ committing' = 0
    /\ WakeupGoto(p, "idle")
    /\ UNCHANGED <<diskVars, cache, dirty, lh, outstanding, tail, boot, panic,
                   hold, written>>

-----------------------------------------------------------------------------
(* The environment: buffer recycling and power failure.                     *)

\* bget() recycles a buffer with refcnt 0 and B_DIRTY clear for another block.
recycle(b) ==
    /\ panic = "none"
    /\ cache[b] # NoBuf
    /\ b \notin dirty
    /\ \A p \in Proc : hold[p] # b
    /\ cache' = [cache EXCEPT ![b] = NoBuf]
    /\ UNCHANGED <<diskVars, dirty, memVars, panic, procVars>>

\* Power is lost and the machine boots: only the disk survives.
Crash ==
    /\ cache' = [b \in Block |-> NoBuf]
    /\ dirty' = {}
    /\ lh' = <<>>
    /\ outstanding' = 0
    /\ committing' = 0
    /\ tail' = 0
    /\ boot' = "read_head"
    /\ panic' = "none"
    /\ pc' = [p \in Proc |-> "idle"]
    /\ hold' = [p \in Proc |-> NoBlock]
    /\ written' = [p \in Proc |-> {}]
    /\ UNCHANGED diskVars

Recover == read_head \/ recover_install \/ recover_clear

OpStep(p) == \/ Call(p)
             \/ begin_op(p)
             \/ \E b \in Block : bread(p, b)
             \/ brelse(p)
             \/ \E v \in Val : log_write_check(p, v)
             \/ log_write(p)
             \/ end_op(p)

CommitStep(p) == \/ commit_nothing(p)
                 \/ write_log(p)
                 \/ write_head(p)
                 \/ install_trans(p)
                 \/ commit_clear(p)
                 \/ end_commit(p)

Run == \/ Recover
       \/ \E p \in Proc : OpStep(p) \/ CommitStep(p)
       \/ \E b \in Block : recycle(b)

Next == Run \/ Crash

Spec == Init /\ [][Next]_vars

(***************************************************************************)
(* Fairness.  The scheduler runs every runnable process, so recovery, a     *)
(* commit and a call that can take its next step take it.  Strong fairness  *)
(* of end_op says that a call is a finite program: it cannot go on reading  *)
(* and logging blocks for ever without reaching its end_op().  Liveness is  *)
(* about a machine that, after some crashes, stays powered.                 *)
(***************************************************************************)
Fairness ==
    /\ WF_vars(Recover)
    /\ \A p \in Proc : /\ WF_vars(CommitStep(p))
                       /\ WF_vars(pc[p] # "idle" /\ OpStep(p))
                       /\ SF_vars(end_op(p))

LiveSpec == Spec /\ Fairness /\ <>[][~Crash]_vars

-----------------------------------------------------------------------------
(* Properties.                                                              *)

TypeOK ==
    /\ disk \in [Block -> Val]
    /\ logblk \in [LogSlot -> Val]
    /\ head \in Seq(Block)
    /\ cache \in [Block -> Val \cup {NoBuf}]
    /\ dirty \in SUBSET Block
    /\ lh \in Seq(Block)
    /\ outstanding \in Nat
    /\ committing \in {0, 1}
    /\ tail \in Nat
    /\ boot \in {"read_head", "install", "up"}
    /\ panic \in {"none", "too_big", "outside_of_trans",
                  "log_committing"}
    /\ pc \in [Proc -> {"idle", "begin", "asleep"} \cup CallPC \cup CommitPC]
    /\ hold \in [Proc -> Block \cup {NoBlock}]
    /\ written \in [Proc -> SUBSET Block]

\* What is read through the buffer cache.
Contents == [b \in Block |-> IF cache[b] = NoBuf THEN disk[b] ELSE cache[b]]

\* Home blocks dsk after the log blocks blk under header hdr are replayed.
Replay(hdr, blk, dsk) == [b \in Block |->
    IF Logged(hdr, b)
    THEN blk[CHOOSE i \in 1 .. Len(hdr) : hdr[i] = b]
    ELSE dsk[b]]

\* What the disk holds once recovery has run.
Recovered == Replay(head, logblk, disk)

\* No call ever stops the machine in log_write() or end_op(): the space that
\* begin_op() reserved is enough for log_write()'s unlocked size check, also
\* when another call's log_write() comes between the check and the update.
NoPanic == panic = "none"

\* The header in memory never outgrows the log on disk or the block array of
\* struct logheader, although log_write() checks its size without the lock.
LogFits == Len(lh) =< NLOG - 1 /\ Len(lh) =< LOGSIZE

\* No wakeup(&log) is lost: whenever a process sleeps in begin_op(), some
\* call that has yet to reach end_op(), or the commit in progress, wakes it.
SleeperHasWaker ==
    (\E p \in Proc : pc[p] = "asleep") =>
        \E q \in Proc : pc[q] \in CallPC \cup CommitPC

\* When no call and no commit is in progress, so in particular when the
\* end_op() that committed has returned, every update is at its home block
\* and the log is empty: nothing a crash could lose or replay is left.
QuiescentIsDurable ==
    (boot = "up" /\ outstanding = 0 /\ committing = 0) =>
        Contents = disk /\ head = <<>> /\ lh = <<>>

\* A buffer that bget() may recycle agrees with the disk: B_DIRTY pins every
\* update until commit() has installed it.
RecyclableIsClean ==
    \A b \in Block :
        (b \notin dirty /\ \A p \in Proc : hold[p] # b) => Contents[b] = disk[b]

\* A process that sleeps in begin_op() is woken, provided calls end.
SleeperWakes == \A p \in Proc : pc[p] = "asleep" ~> pc[p] # "asleep"

=============================================================================
