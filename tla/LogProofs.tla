----------------------------- MODULE LogProofs ------------------------------
(***************************************************************************)
(* The steps of commit() preserve the log's invariant, and the write-ahead  *)
(* log implements AtomicDisk: what survives a crash is always the outcome of *)
(* whole groups of whole calls.                                             *)
(***************************************************************************)
EXTENDS LogLemmas, LogDisk

\* While a process runs commit() the machine is up, no call is in progress
\* and no other process commits.
LEMMA CommitterAlone ==
  ASSUME IInv, NEW p \in Proc, pc[p] \in CommitPC
  PROVE  /\ boot = "up" /\ Active = {} /\ committing = 1
         /\ \A q \in Proc : pc[q] \in CommitPC => q = p
         /\ \A q \in Proc : hold[q] = NoBlock /\ pc[q] \notin CallPC
BY Zenon DEF IInv, CtlInv, CommitPC, CallPC, Active

\* commit() of an empty transaction does nothing.
LEMMA CommitNothingIInv ==
  ASSUME IInv, NEW p \in Proc, commit_nothing(p) PROVE IInv'
<1>. USE DEF IInv, commit_nothing, At, Goto, diskVars, memVars
<1>1. /\ boot = "up" /\ Active = {} /\ committing = 1
      /\ \A q \in Proc : pc[q] \in CommitPC => q = p
      /\ \A q \in Proc : hold[q] = NoBlock /\ pc[q] \notin CallPC
  BY CommitterAlone, Zenon DEF CommitPC
<1>2. TypeOK'
  BY Zenon DEF TypeOK, CommitPC
<1>. USE DEF TypeOK
<1>3. Active' = Active /\ ~Installing /\ ~Installing'
  BY <1>1, Zenon DEF Active, CallPC, Installing, CommitPC
<1>4. CtlInv'
  BY <1>1, <1>3 DEF CtlInv, SleeperHasWaker, CommitPC
<1>5. HeaderInv' /\ WrittenInv'
  BY Zenon DEF HeaderInv, WrittenInv, LogFits, CallPC
<1>6. RoomInv' /\ HeadInv'
  BY <1>3, Zenon DEF RoomInv, HeadInv, Reserved
<1>7. DirtyInv'
  BY <1>1, <1>3, Zenon DEF DirtyInv
<1>8. CopyInv'
  BY <1>1, <1>3, EmptyHeader, Zenon DEF CopyInv
<1>. QED
  BY <1>2, <1>4, <1>5, <1>6, <1>7, <1>8, Zenon

\* write_log() copies a pinned, hence cached, block to its log block.
LEMMA WriteLogIInv ==
  ASSUME IInv, NEW p \in Proc, write_log(p) PROVE IInv'
<1>. USE DEF IInv, write_log, At, procVars
<1>1. /\ boot = "up" /\ Active = {} /\ committing = 1
      /\ \A q \in Proc : pc[q] \in CommitPC => q = p
      /\ \A q \in Proc : hold[q] = NoBlock /\ pc[q] \notin CallPC
  BY CommitterAlone, Zenon DEF CommitPC
<1>2. /\ tail + 1 \in 1 .. Len(lh) /\ tail + 1 \in LogSlot
      /\ lh[tail + 1] \in Block
  BY NextToInstall, Zenon
<1>3. Active' = Active /\ ~Installing /\ ~Installing'
  BY <1>1, Zenon DEF Active, Installing, CommitPC
<1>4. cache[lh[tail + 1]] \in Val
  BY <1>1, <1>2, <1>3 DEF DirtyInv, TypeOK
<1>5. TypeOK'
  BY <1>2, <1>4 DEF TypeOK
<1>. USE DEF TypeOK
<1>6. CtlInv'
  BY <1>1, <1>3, Zenon DEF CtlInv, SleeperHasWaker
<1>7. HeaderInv' /\ WrittenInv'
  <2>1. HeaderInv'
    BY <1>2 DEF HeaderInv, LogFits
  <2>. QED
    BY <2>1, Zenon DEF WrittenInv
<1>8. RoomInv' /\ HeadInv'
  BY <1>3, Zenon DEF RoomInv, HeadInv, Reserved
<1>9. DirtyInv'
  BY <1>1, <1>3, Zenon DEF DirtyInv
<1>10. CopyInv'
  <2>1. ASSUME NEW i \in 1 .. Len(lh), i =< tail + 1
        PROVE  logblk'[i] = cache[lh[i]]
    <3>1. i \in LogSlot
      BY <2>1, LogConstants DEF LogSlot, HeaderInv, LogFits
    <3>. QED
      BY <1>2, <2>1, <3>1 DEF CopyInv
  <2>. QED
    BY <1>1, <1>3, <2>1, Zenon DEF CopyInv
<1>. QED
  BY <1>5, <1>6, <1>7, <1>8, <1>9, <1>10, Zenon

\* write_head() commits a log that agrees with the cache in every block.
LEMMA WriteHeadIInv ==
  ASSUME IInv, NEW p \in Proc, write_head(p) PROVE IInv'
<1>. USE DEF IInv, write_head, At, Goto
<1>1. /\ boot = "up" /\ Active = {} /\ committing = 1
      /\ \A q \in Proc : pc[q] \in CommitPC => q = p
      /\ \A q \in Proc : hold[q] = NoBlock /\ pc[q] \notin CallPC
  BY CommitterAlone, Zenon DEF CommitPC
<1>2. TypeOK'
  BY Zenon DEF TypeOK, CommitPC
<1>. USE DEF TypeOK
<1>3. Active' = Active /\ ~Installing /\ Installing'
  BY <1>1, Zenon DEF Active, CallPC, Installing, CommitPC
<1>4. CtlInv'
  BY <1>1, <1>3 DEF CtlInv, SleeperHasWaker, CommitPC
<1>5. HeaderInv' /\ WrittenInv'
  <2>1. HeaderInv'
    BY DEF HeaderInv, LogFits
  <2>. QED
    BY <2>1, Zenon DEF WrittenInv, CallPC
<1>6. RoomInv' /\ HeadInv'
  BY <1>1, <1>3, Zenon DEF RoomInv, HeadInv, Reserved
<1>7. DirtyInv'
  BY <1>1, <1>3 DEF DirtyInv
<1>8. CopyInv'
  BY <1>1, <1>3 DEF CopyInv, CommitPC
<1>. QED
  BY <1>2, <1>4, <1>5, <1>6, <1>7, <1>8, Zenon

\* install_trans() writes a logged block home and unpins it.
LEMMA InstallTransIInv ==
  ASSUME IInv, NEW p \in Proc, install_trans(p) PROVE IInv'
<1>. USE DEF IInv, install_trans, At, procVars
<1>1. /\ boot = "up" /\ Active = {} /\ committing = 1
      /\ \A q \in Proc : pc[q] \in CommitPC => q = p
      /\ \A q \in Proc : hold[q] = NoBlock /\ pc[q] \notin CallPC
  BY CommitterAlone, Zenon DEF CommitPC
<1>2. Active' = Active /\ Installing /\ Installing'
  BY <1>1, Zenon DEF Active, Installing
<1>3. InstallOne /\ \A i \in 1 .. Len(lh) : i =< tail => disk[lh[i]] = logblk[i]
  BY <1>2, Zenon DEF CopyInv
<1>4. TypeOK'
  BY <1>3, InstallOneFacts DEF TypeOK, InstallOne
<1>5. CtlInv'
  BY <1>1, <1>2, Zenon DEF CtlInv, SleeperHasWaker
<1>6. HeaderInv'
  BY <1>3, InstallOneFacts, Zenon DEF HeaderInv, LogFits, InstallOne
<1>7. WrittenInv'
  BY Zenon DEF WrittenInv, InstallOne
<1>8. RoomInv' /\ HeadInv'
  BY <1>2, Zenon DEF RoomInv, HeadInv, Reserved, InstallOne
<1>9. DirtyInv'
  <2>. USE DEF TypeOK
  <2>1. /\ tail + 1 \in 1 .. Len(lh) /\ lh[tail + 1] \in Block
        /\ logblk[tail + 1] \in Val
    BY NextToInstall, Zenon DEF InstallOne
  <2>2. ASSUME NEW b \in Block
        PROVE  b \in dirty' <=> \E i \in 1 .. Len(lh) : lh[i] = b /\ i > tail + 1
    BY <1>1, <1>2, <2>1, SMTT(30) DEF InstallOne, DirtyInv, HeaderInv, NoDup
  <2>3. \A b \in dirty' : cache'[b] # NoBuf
    BY Zenon DEF InstallOne, DirtyInv
  <2>4. \A b \in Block : b \in dirty' \/ cache'[b] \in {NoBuf, disk'[b]}
    BY <1>1, <2>1, SMTT(30) DEF InstallOne, DirtyInv, CallPC
  <2>. QED
    BY <1>1, <1>2, <2>2, <2>3, <2>4, SMTT(30) DEF InstallOne, DirtyInv
<1>10. CopyInv'
  <2>1. \A i \in 1 .. Len(lh') : i > tail' => logblk'[i] = cache'[lh'[i]]
    BY <1>2, <1>3, InstallOneFacts DEF CopyInv, InstallOne, TypeOK
  <2>2. \A q \in Proc : pc'[q] # "write_log"
    BY <1>1, Zenon DEF CommitPC
  <2>. QED
    BY <1>1, <1>3, <2>1, <2>2, InstallOneFacts, SMTT(30) DEF CopyInv
<1>. QED
  BY <1>4, <1>5, <1>6, <1>7, <1>8, <1>9, <1>10, Zenon

\* Clearing the header after the last install leaves nothing to recover.
LEMMA CommitClearIInv ==
  ASSUME IInv, NEW p \in Proc, commit_clear(p) PROVE IInv'
<1>. USE EmptyHeader DEF IInv, commit_clear, ClearHead, At, Goto
<1>1. /\ boot = "up" /\ Active = {} /\ committing = 1
      /\ \A q \in Proc : pc[q] \in CommitPC => q = p
      /\ \A q \in Proc : hold[q] = NoBlock /\ pc[q] \notin CallPC
  BY CommitterAlone, Zenon DEF CommitPC
<1>2. TypeOK'
  BY Zenon DEF TypeOK, CommitPC
<1>. USE <1>2 DEF TypeOK
<1>3. Active' = {} /\ Installing /\ ~Installing'
  BY <1>1, Zenon DEF Active, CallPC, Installing, CommitPC
<1>4. CtlInv'
  BY <1>1, <1>3 DEF CtlInv, SleeperHasWaker, CommitPC
<1>5. HeaderInv'
  BY LogConstants DEF HeaderInv, LogFits
<1>6. WrittenInv'
  BY <1>1, Zenon DEF WrittenInv, CallPC
<1>7. RoomInv' /\ HeadInv'
  <2>1. Cardinality(Reserved') \in Nat /\ Cardinality(Reserved') =< 0
    BY <1>3, TokensBound, FS_EmptySet, LogConstants DEF Reserved
  <2>. QED
    BY <1>3, <2>1, LogConstants DEF RoomInv, HeadInv
<1>8. DirtyInv'
  <2>1. dirty = {}
    BY <1>1, <1>3 DEF DirtyInv
  <2>. QED
    BY <1>1, <1>3, <2>1, SMTT(30) DEF DirtyInv, CallPC
<1>9. CopyInv'
  BY <1>1, <1>3, Zenon DEF CopyInv
<1>. QED
  BY <1>4, <1>5, <1>6, <1>7, <1>8, <1>9, SMTT(30)

\* The end of end_op() wakes every sleeper, so none is left without a waker.
LEMMA EndCommitIInv ==
  ASSUME IInv, NEW p \in Proc, end_commit(p) PROVE IInv'
<1>. USE DEF IInv, end_commit, At, WakeupGoto, diskVars
<1>1. /\ boot = "up" /\ Active = {} /\ committing = 1
      /\ \A q \in Proc : pc[q] \in CommitPC => q = p
      /\ \A q \in Proc : hold[q] = NoBlock /\ pc[q] \notin CallPC
  BY CommitterAlone, Zenon DEF CommitPC
<1>2. TypeOK'
  BY Zenon DEF TypeOK
<1>. USE DEF TypeOK
<1>3. \A q \in Proc : pc'[q] \notin CommitPC \cup CallPC \cup {"asleep"}
  BY <1>1, Zenon DEF CommitPC, CallPC
<1>4. Active' = Active /\ ~Installing /\ ~Installing'
  BY <1>1, <1>3, Zenon DEF Active, Installing, CommitPC
<1>5. CtlInv'
  BY <1>1, <1>3, <1>4, SMTT(30) DEF CtlInv, SleeperHasWaker, CommitPC, CallPC
<1>6. HeaderInv'
  BY Zenon DEF HeaderInv, LogFits
<1>7. WrittenInv'
  BY <1>1, <1>3, Zenon DEF WrittenInv, CallPC
<1>8. RoomInv' /\ HeadInv'
  BY <1>3, <1>4, Zenon DEF RoomInv, HeadInv, Reserved, CommitPC
<1>9. DirtyInv'
  BY <1>1, <1>4, Zenon DEF DirtyInv, CallPC
<1>10. CopyInv'
  BY <1>1, <1>3, <1>4, SMTT(30) DEF CopyInv, CommitPC
<1>. QED
  BY <1>2, <1>5, <1>6, <1>7, <1>8, <1>9, <1>10, SMTT(30)

\* bget() recycles only buffers whose contents are also on disk.
LEMMA RecycleIInv ==
  ASSUME IInv, NEW b \in Block, recycle(b) PROVE IInv'
<1>. USE DEF IInv, recycle, diskVars, memVars, procVars
<1>1. TypeOK'
  BY Zenon DEF TypeOK
<1>. USE DEF TypeOK
<1>2. Active' = Active /\ (Installing' <=> Installing)
  BY Zenon DEF Active, Installing
<1>3. CtlInv'
  BY <1>2, Zenon DEF CtlInv, SleeperHasWaker
<1>4. HeaderInv' /\ WrittenInv'
  BY Zenon DEF HeaderInv, WrittenInv, LogFits
<1>5. RoomInv' /\ HeadInv'
  BY <1>2, Zenon DEF RoomInv, HeadInv, Reserved
<1>6. DirtyInv'
  BY <1>2, Zenon DEF DirtyInv
<1>7. CopyInv'
  <2>1. ASSUME NEW i \in 1 .. Len(lh), lh[i] \in dirty
        PROVE  cache'[lh[i]] = cache[lh[i]]
    BY <2>1, Zenon
  <2>2. ASSUME NEW p \in Proc, pc[p] = "write_log"
        PROVE  boot = "up" /\ ~Installing
    BY <2>2, Zenon DEF CtlInv, CommitPC, Installing
  <2>3. Installing => boot = "up"
    BY Zenon DEF CtlInv, Installing
  <2>. QED
    BY <1>2, <2>1, <2>2, <2>3 DEF CopyInv, DirtyInv
<1>. QED
  BY <1>1, <1>3, <1>4, <1>5, <1>6, <1>7, SMTT(30)

\* Every step preserves the invariant.
LEMMA NextIInv ==
  ASSUME EnoughSpace PROVE IInv /\ [Next]_vars => IInv'
<1>. SUFFICES ASSUME IInv, [Next]_vars PROVE IInv'
  BY Zenon
<1>1. ASSUME NEW p \in Proc, OpStep(p) PROVE IInv'
  BY <1>1, CallIInv, BeginOpIInv, BreadIInv, BrelseIInv, LogWriteCheckIInv,
     LogWriteIInv, EndOpIInv, Zenon DEF OpStep
<1>2. ASSUME NEW p \in Proc, CommitStep(p) PROVE IInv'
  BY <1>2, CommitNothingIInv, WriteLogIInv, WriteHeadIInv, InstallTransIInv,
     CommitClearIInv, EndCommitIInv, Zenon DEF CommitStep
<1>3. CASE UNCHANGED vars
  <2>. USE <1>3 DEF vars, IInv
  <2>1. Active' = Active /\ (Installing' <=> Installing) /\ Reserved' = Reserved
    BY Zenon DEF Active, Installing, Reserved
  <2>2. TypeOK'
    BY Zenon DEF TypeOK
  <2>3. CtlInv'
    BY <2>1, Zenon DEF CtlInv, SleeperHasWaker
  <2>4. HeaderInv' /\ WrittenInv'
    BY Zenon DEF HeaderInv, LogFits, WrittenInv
  <2>5. RoomInv' /\ HeadInv'
    BY <2>1, SMTT(30) DEF RoomInv, HeadInv
  <2>6. DirtyInv' /\ CopyInv'
    BY <2>1, Zenon DEF DirtyInv, CopyInv
  <2>. QED
    BY <2>2, <2>3, <2>4, <2>5, <2>6, Zenon
<1>. QED
  BY <1>1, <1>2, <1>3, RecoverIInv, RecycleIInv, CrashIInv, Zenon DEF Next, Run

\* IInv is an invariant of the log whenever the largest call stays within
\* the space that log_write()'s checks allow it.
THEOREM LogInvariant == ASSUME EnoughSpace PROVE Spec => []IInv
BY InitIInv, NextIInv, PTL DEF Spec

\* The types of the log's state: in particular the committer never copies a
\* block that the cache has lost, and never writes outside the log.
THEOREM LogTypes == ASSUME EnoughSpace PROVE Spec => []TypeOK
<1>1. IInv => TypeOK
  BY Zenon DEF IInv
<1>. QED
  BY <1>1, LogInvariant, PTL

\* log_write() and end_op() never panic: what begin_op() reserves is enough,
\* whatever the interleaving of calls, commits, recoveries and crashes.
THEOREM LogNeverPanics == ASSUME EnoughSpace PROVE Spec => []NoPanic
<1>1. IInv => NoPanic
  BY Zenon DEF IInv, CtlInv, NoPanic
<1>. QED
  BY <1>1, LogInvariant, PTL

\* No wakeup(&log) is lost.
THEOREM LogWakesSleepers == ASSUME EnoughSpace PROVE Spec => []SleeperHasWaker
<1>1. IInv => SleeperHasWaker
  BY Zenon DEF IInv, CtlInv
<1>. QED
  BY <1>1, LogInvariant, PTL

\* The log never outgrows its blocks on disk or the array in struct
\* logheader, although log_write() tests its size without the lock.
THEOREM LogNeverOverflows == ASSUME EnoughSpace PROVE Spec => []LogFits
<1>1. IInv => LogFits
  BY Zenon DEF IInv, HeaderInv
<1>. QED
  BY <1>1, LogInvariant, PTL


-----------------------------------------------------------------------------
(* Replaying a log.                                                         *)

\* Replay takes a logged block from the log and any other from its home.
LEMMA ReplayAt ==
  ASSUME NEW hdr \in Seq(Block), NoDup(hdr), NEW blk, NEW dsk
  PROVE  /\ \A i \in 1 .. Len(hdr) : Replay(hdr, blk, dsk)[hdr[i]] = blk[i]
         /\ \A b \in Block : ~Logged(hdr, b) => Replay(hdr, blk, dsk)[b] = dsk[b]
<1>1. ASSUME NEW i \in 1 .. Len(hdr)
      PROVE  Replay(hdr, blk, dsk)[hdr[i]] = blk[i]
  <2>1. hdr[i] \in Block /\ Logged(hdr, hdr[i])
    BY DEF Logged
  <2>2. (CHOOSE j \in 1 .. Len(hdr) : hdr[j] = hdr[i]) = i
    BY Zenon DEF NoDup
  <2>. QED
    BY <2>1, <2>2, Zenon DEF Replay
<1>. QED
  BY <1>1, Zenon DEF Replay

\* Two replays of the same header agree if they agree on what they read.
LEMMA ReplayEqual ==
  ASSUME NEW hdr \in Seq(Block), NoDup(hdr), NEW f, NEW blk, NEW dsk,
         f = [b \in Block |-> f[b]],
         \A i \in 1 .. Len(hdr) : f[hdr[i]] = blk[i],
         \A b \in Block : ~Logged(hdr, b) => f[b] = dsk[b]
  PROVE  Replay(hdr, blk, dsk) = f
<1>1. ASSUME NEW b \in Block PROVE Replay(hdr, blk, dsk)[b] = f[b]
  <2>1. CASE Logged(hdr, b)
    BY <2>1, ReplayAt DEF Logged
  <2>2. CASE ~Logged(hdr, b)
    BY <2>2, ReplayAt
  <2>. QED
    BY <2>1, <2>2, Zenon
<1>2. Replay(hdr, blk, dsk) = [b \in Block |-> Replay(hdr, blk, dsk)[b]]
  BY DEF Replay
<1>. QED
  BY <1>1, <1>2, Zenon

\* Replaying an empty log changes nothing.
LEMMA ReplayEmpty ==
  ASSUME NEW blk, NEW dsk, dsk = [b \in Block |-> dsk[b]]
  PROVE  Replay(<<>>, blk, dsk) = dsk
BY EmptyHeader, Zenon DEF Replay

-----------------------------------------------------------------------------
(* What the inductive invariant says about the mapped state.                *)

\* The mapped contents are functions on the blocks.
LEMMA MappedTypes ==
  ASSUME IInv
  PROVE  /\ Contents = [b \in Block |-> Contents[b]]
         /\ Recovered = [b \in Block |-> Recovered[b]]
         /\ disk = [b \in Block |-> disk[b]]
BY DEF IInv, TypeOK, Contents, Recovered, Replay

\* With no update pending, the cache shows what is on disk.
LEMMA CleanContents ==
  ASSUME IInv, dirty = {}, \A p \in Proc : pc[p] # "log"
  PROVE  Contents = disk
<1>1. \A b \in Block : Contents[b] = disk[b]
  BY Zenon DEF IInv, DirtyInv, Contents
<1>. QED
  BY <1>1, MappedTypes, Zenon

\* A log that is fully installed may be dropped.
LEMMA InstalledRecovered ==
  ASSUME IInv, head = lh, tail = Len(lh), Installing \/ boot = "install"
  PROVE  Recovered = disk
<1>1. \A i \in 1 .. Len(lh) : disk[lh[i]] = logblk[i]
  BY DEF IInv, CopyInv, TypeOK
<1>2. head \in Seq(Block) /\ NoDup(head)
  BY Zenon DEF IInv, TypeOK, HeaderInv
<1>. QED
  BY <1>1, <1>2, MappedTypes, ReplayEqual DEF Recovered

\* Installing a block of the log that is committed changes no outcome.
LEMMA InstallRecovered ==
  ASSUME IInv, head = lh, InstallOne
  PROVE  Recovered' = Recovered
<1>1. /\ head \in Seq(Block) /\ NoDup(head)
      /\ head' = head /\ logblk' = logblk
  BY Zenon DEF IInv, TypeOK, HeaderInv, InstallOne
<1>2. \A i \in 1 .. Len(head) : Recovered[head[i]] = logblk[i]
  BY <1>1, ReplayAt DEF Recovered
<1>3. tail + 1 \in 1 .. Len(lh) /\ lh[tail + 1] \in Block
  BY NextToInstall, Zenon DEF IInv, TypeOK, InstallOne
<1>4. ASSUME NEW b \in Block, ~Logged(head, b) PROVE Recovered[b] = disk'[b]
  <2>1. b # lh[tail + 1]
    BY <1>3, <1>4, Zenon DEF Logged
  <2>2. disk'[b] = disk[b]
    BY <2>1, Zenon DEF IInv, TypeOK, InstallOne
  <2>. QED
    BY <1>1, <1>4, <2>2, ReplayAt DEF Recovered
<1>5. Replay(head, logblk, disk') = Recovered
  BY <1>1, <1>2, <1>4, MappedTypes, ReplayEqual
<1>. QED
  BY <1>1, <1>5, Zenon DEF Recovered

-----------------------------------------------------------------------------
(* Each step of the log is a step of AtomicDisk or changes nothing there.   *)

\* Recovery changes neither what survives a crash nor what calls will see.
LEMMA RecoverMaps ==
  ASSUME IInv, Recover PROVE UNCHANGED <<Recovered, Current, Active>>
<1>0. ASSUME UNCHANGED pc PROVE Active' = Active
  BY <1>0, Zenon DEF Active
<1>1. CASE read_head
  BY <1>1, <1>0, Zenon DEF read_head, diskVars, procVars, Recovered, Current
<1>2. CASE recover_install
  <2>1. Recovered' = Recovered
    BY <1>2, InstallRecovered, Zenon DEF recover_install, IInv, HeadInv
  <2>. QED
    BY <1>2, <1>0, <2>1, Zenon DEF recover_install, procVars, Current
<1>3. CASE recover_clear
  <2>. USE <1>3 DEF recover_clear, ClearHead, procVars
  <2>1. Recovered = disk
    BY InstalledRecovered, Zenon DEF IInv, HeadInv
  <2>2. Recovered' = disk
    BY ReplayEmpty, MappedTypes, Zenon DEF Recovered
  <2>3. Contents = disk
    BY CleanContents, Zenon DEF IInv, DirtyInv, CtlInv
  <2>4. Contents' = Contents
    BY Zenon DEF Contents
  <2>. QED
    BY <1>0, <2>1, <2>2, <2>3, <2>4, Zenon DEF Current
<1>. QED
  BY <1>1, <1>2, <1>3, Zenon DEF Recover

\* The steps of a call are Begin, Write and End, or invisible.
LEMMA OpMaps ==
  ASSUME IInv, NEW p \in Proc, OpStep(p)
  PROVE  \/ UNCHANGED <<Recovered, Current, Active>>
         \/ AD!Begin(p) \/ AD!End(p)
         \/ \E b \in Block, v \in Val : AD!Write(p, b, v)
<1>1. boot = "up" /\ boot' = boot
  BY Zenon DEF OpStep, Call, begin_op, bread, brelse, log_write_check, log_write,
         end_op, At, memVars, IInv, CtlInv
<1>2. Recovered' = Recovered
  BY Zenon DEF OpStep, Call, begin_op, bread, brelse, log_write_check, log_write,
         end_op, diskVars, Recovered
<1>3. Current = Contents /\ Current' = Contents'
  BY <1>1, Zenon DEF Current
<1>4. pc \in [Proc -> {"idle", "begin", "asleep"} \cup CallPC \cup CommitPC]
  BY Zenon DEF IInv, TypeOK
<1>5. CASE Call(p)
  BY <1>2, <1>3, <1>4, <1>5, Zenon
     DEF Call, At, Goto, Active, CallPC, Contents, diskVars
<1>6. CASE begin_op(p)
  <2>1. Contents' = Contents
    BY <1>6, Zenon DEF begin_op, Contents, diskVars
  <2>2. p \notin Active
    BY <1>6, Zenon DEF begin_op, At, Active, CallPC
  <2>3. Active' = Active \/ Active' = Active \cup {p}
    BY <1>4, <1>6, Zenon DEF begin_op, At, Goto, Active, CallPC
  <2>. QED
    BY <1>2, <1>3, <2>1, <2>2, <2>3, Zenon DEF AD!Begin
<1>7. CASE \E b \in Block : bread(p, b)
  <2>1. Contents' = Contents
    BY <1>7, Zenon DEF bread, Contents, diskVars, IInv, TypeOK
  <2>2. Active' = Active
    BY <1>4, <1>7, Zenon DEF bread, At, Goto, Active, CallPC
  <2>. QED
    BY <1>2, <1>3, <2>1, <2>2, Zenon
<1>8. CASE brelse(p)
  BY <1>2, <1>3, <1>4, <1>8, Zenon
     DEF brelse, At, Goto, Active, CallPC, Contents, diskVars
<1>9. ASSUME NEW v \in Val, log_write_check(p, v)
      PROVE  \E b \in Block : AD!Write(p, b, v)
  <2>1. hold[p] \in Block /\ p \in Active
    BY <1>9, Zenon DEF log_write_check, At, IInv, TypeOK, CtlInv, Active, CallPC
  <2>2. Active' = Active
    BY <1>4, <1>9, Zenon DEF log_write_check, At, Goto, Active, CallPC
  <2>3. Contents' = [Contents EXCEPT ![hold[p]] = v]
    BY <1>9, <2>1, LogConstants, Zenon
       DEF log_write_check, Contents, diskVars, IInv, TypeOK
  <2>4. AD!Write(p, hold[p], v)
    BY <1>2, <1>3, <2>1, <2>2, <2>3, Zenon DEF AD!Write
  <2>. QED
    BY <2>1, <2>4, Zenon
<1>10. CASE log_write(p)
  BY <1>2, <1>3, <1>4, <1>10, Zenon
     DEF log_write, At, Goto, Active, CallPC, Contents, diskVars
<1>11. CASE end_op(p)
  <2>1. Contents' = Contents
    BY <1>11, Zenon DEF end_op, Contents, diskVars
  <2>2. p \in Active /\ Active' = Active \ {p}
    BY <1>4, <1>11, Zenon DEF end_op, At, Goto, WakeupGoto, Active, CallPC
  <2>. QED
    BY <1>2, <1>3, <2>1, <2>2, Zenon DEF AD!End
<1>. QED
  BY <1>5, <1>6, <1>7, <1>8, <1>9, <1>10, <1>11, SMTT(30) DEF OpStep

\* The steps of commit() are invisible, but for write_head(), which makes
\* everything that calls see durable at once.
LEMMA CommitMaps ==
  ASSUME IInv, NEW p \in Proc, CommitStep(p)
  PROVE  UNCHANGED <<Recovered, Current, Active>> \/ AD!Commit
<1>1. pc[p] \in CommitPC /\ boot' = boot
  BY Zenon DEF CommitStep, commit_nothing, write_log, write_head, install_trans,
         commit_clear, end_commit, At, memVars, CommitPC
<1>2. /\ boot = "up" /\ Active = {} /\ committing = 1
      /\ \A q \in Proc : pc[q] \in CommitPC => q = p
      /\ \A q \in Proc : hold[q] = NoBlock /\ pc[q] \notin CallPC
  BY <1>1, CommitterAlone, Zenon DEF IInv
<1>3. Current = Contents /\ Current' = Contents'
  BY <1>1, <1>2, Zenon DEF Current
<1>4. Active' = Active
  BY <1>2, Zenon DEF CommitStep, commit_nothing, write_log, write_head,
     install_trans, commit_clear, end_commit, Goto, WakeupGoto, procVars,
     Active, CallPC, IInv, TypeOK
<1>5. pc[p] = "install" => head = lh /\ Installing
  BY <1>2, Zenon DEF IInv, HeadInv, Installing
<1>6. pc[p] # "install" => head = <<>> /\ ~Installing
  BY <1>1, <1>2, Zenon DEF IInv, HeadInv, Installing, CommitPC
<1>7. CASE commit_nothing(p) \/ end_commit(p)
  <2>1. UNCHANGED <<disk, logblk, head, cache>>
    BY <1>7, Zenon DEF commit_nothing, end_commit, diskVars
  <2>. QED
    BY <1>3, <1>4, <2>1, Zenon DEF Recovered, Contents
<1>8. CASE write_log(p)
  <2>1. head = <<>> /\ head' = <<>> /\ disk' = disk /\ cache' = cache
    BY <1>6, <1>8, Zenon DEF write_log, At
  <2>2. Recovered = disk /\ Recovered' = disk
    BY <2>1, ReplayEmpty, MappedTypes, Zenon DEF Recovered
  <2>. QED
    BY <1>3, <1>4, <2>1, <2>2, Zenon DEF Contents
<1>9. CASE write_head(p)
  <2>. USE <1>9 DEF write_head, At
  <2>1. /\ UNCHANGED <<disk, logblk, cache>> /\ head' = lh
        /\ lh \in Seq(Block) /\ NoDup(lh)
    BY Zenon DEF IInv, TypeOK, HeaderInv
  <2>2. Contents' = Contents
    BY <2>1, Zenon DEF Contents
  <2>3. ASSUME NEW i \in 1 .. Len(lh) PROVE Contents[lh[i]] = logblk[i]
    <3>1. lh[i] \in Block /\ lh[i] \in dirty
      BY <1>2, <1>6, <2>1, SMTT(30) DEF IInv, DirtyInv
    <3>2. logblk[i] = cache[lh[i]] /\ cache[lh[i]] # NoBuf
      BY <3>1, SMTT(30) DEF IInv, CopyInv, DirtyInv, TypeOK
    <3>. QED
      BY <3>1, <3>2, Zenon DEF Contents
  <2>4. ASSUME NEW b \in Block, ~Logged(lh, b) PROVE Contents[b] = disk[b]
    <3>1. b \notin dirty /\ \A q \in Proc : pc[q] # "log"
      BY <1>2, <2>4, Zenon DEF IInv, DirtyInv, Logged, CallPC
    <3>. QED
      BY <3>1, Zenon DEF IInv, DirtyInv, Contents
  <2>5. Replay(lh, logblk, disk) = Contents
    BY <2>1, <2>3, <2>4, MappedTypes, ReplayEqual
  <2>6. Recovered' = Contents
    BY <2>1, <2>5, Zenon DEF Recovered
  <2>. QED
    BY <1>2, <1>3, <1>4, <2>2, <2>6, Zenon DEF AD!Commit
<1>10. CASE install_trans(p)
  <2>1. Recovered' = Recovered
    BY <1>5, <1>10, InstallRecovered, Zenon DEF install_trans, At
  <2>2. /\ tail + 1 \in 1 .. Len(lh) /\ lh[tail + 1] \in Block
        /\ logblk[tail + 1] \in Val
    BY <1>10, NextToInstall, Zenon DEF IInv, TypeOK, install_trans, InstallOne
  <2>3. logblk[tail + 1] = cache[lh[tail + 1]]
    BY <1>5, <1>10, <2>2, SMTT(30) DEF install_trans, At, IInv, CopyInv, TypeOK
  <2>4. /\ cache' = cache
        /\ cache[lh[tail + 1]] # NoBuf
    BY <1>10, <2>2, <2>3, LogConstants, SMTT(30)
       DEF install_trans, InstallOne, IInv, TypeOK
  <2>5. Contents' = Contents
    BY <1>10, <2>2, <2>4, Zenon DEF install_trans, InstallOne, Contents, IInv, TypeOK
  <2>. QED
    BY <1>3, <1>4, <2>1, <2>5, Zenon
<1>11. CASE commit_clear(p)
  <2>. USE <1>11 DEF commit_clear, ClearHead, At
  <2>1. Recovered = disk
    BY <1>5, InstalledRecovered, Zenon
  <2>2. Recovered' = disk
    BY ReplayEmpty, MappedTypes, Zenon DEF Recovered
  <2>3. Contents' = Contents
    BY Zenon DEF Contents
  <2>. QED
    BY <1>3, <1>4, <2>1, <2>2, <2>3, Zenon
<1>. QED
  BY <1>7, <1>8, <1>9, <1>10, <1>11, Zenon DEF CommitStep

\* A buffer that bget() recycles takes no update with it.
LEMMA RecycleMaps ==
  ASSUME IInv, NEW b \in Block, recycle(b)
  PROVE  UNCHANGED <<Recovered, Current, Active>>
<1>. USE DEF recycle, diskVars, memVars, procVars
<1>1. cache[b] = disk[b]
  BY Zenon DEF IInv, DirtyInv
<1>2. Contents' = Contents
  BY <1>1, Zenon DEF Contents, IInv, TypeOK
<1>. QED
  BY <1>2, Zenon DEF Recovered, Current, Active

\* A power failure leaves what is durable and forgets the rest.
LEMMA CrashMaps ==
  ASSUME IInv, Crash PROVE AD!Crash
<1>. USE DEF Crash, diskVars
<1>1. Recovered' = Recovered /\ Current' = Recovered
  BY Zenon DEF Recovered, Current
<1>2. Active' = {}
  BY Zenon DEF Active, CallPC
<1>. QED
  BY <1>1, <1>2, Zenon DEF AD!Crash

\* The initial state maps to an initial state.
LEMMA InitMaps ==
  ASSUME Init PROVE AD!Init
<1>. USE DEF Init
<1>1. disk = [b \in Block |-> disk[b]]
  BY Zenon
<1>2. Recovered = disk /\ Current = Recovered
  BY <1>1, ReplayEmpty, Zenon DEF Recovered, Current
<1>3. Active = {}
  BY Zenon DEF Active, CallPC
<1>. QED
  BY <1>2, <1>3, Zenon DEF AD!Init

\* The log implements AtomicDisk for every number of processes, blocks and
\* contents: commit() and recover_from_log() make group commit atomic.
THEOREM LogImplementsAtomicDisk ==
  ASSUME EnoughSpace PROVE Spec => AtomicDiskSpec
<1>1. IInv /\ [Next]_vars => [AD!Next]_(AD!adVars)
  <2>. SUFFICES ASSUME IInv, [Next]_vars
                PROVE  AD!Next \/ UNCHANGED <<Recovered, Current, Active>>
    BY Zenon DEF AD!adVars
  <2>1. CASE Recover
    BY <2>1, RecoverMaps, Zenon
  <2>2. ASSUME NEW p \in Proc, OpStep(p)
        PROVE  AD!Next \/ UNCHANGED <<Recovered, Current, Active>>
    BY <2>2, OpMaps, Zenon DEF AD!Next
  <2>3. ASSUME NEW p \in Proc, CommitStep(p)
        PROVE  AD!Next \/ UNCHANGED <<Recovered, Current, Active>>
    BY <2>3, CommitMaps, Zenon DEF AD!Next
  <2>4. ASSUME NEW b \in Block, recycle(b)
        PROVE  AD!Next \/ UNCHANGED <<Recovered, Current, Active>>
    BY <2>4, RecycleMaps, Zenon
  <2>5. CASE Crash
    BY <2>5, CrashMaps, Zenon DEF AD!Next
  <2>6. CASE UNCHANGED vars
    BY <2>6, Zenon DEF vars, Recovered, Current, Contents, Active
  <2>. QED
    BY <2>1, <2>2, <2>3, <2>4, <2>5, <2>6, Zenon DEF Next, Run
<1>2. Init => AD!Init
  BY InitMaps, Zenon
<1>. QED
  BY <1>1, <1>2, LogInvariant, PTL DEF Spec, AtomicDiskSpec, AD!Spec

\* When no call and no commit is in progress, every update is at its home
\* block, so sync() would have nothing left to do.
THEOREM LogQuiescence == ASSUME EnoughSpace PROVE Spec => []QuiescentIsDurable
<1>1. IInv => QuiescentIsDurable
  <2>. SUFFICES ASSUME IInv, boot = "up", outstanding = 0, committing = 0
                PROVE  Contents = disk /\ head = <<>> /\ lh = <<>>
    BY Zenon DEF QuiescentIsDurable
  <2>1. Active = {}
    <3>1. Active \in SUBSET Proc /\ Cardinality(Active) = 0
      BY Zenon DEF Active, IInv, CtlInv
    <3>. QED
      BY <3>1, ProcsFinite, FS_EmptySet, Zenon
  <2>2. lh = <<>> /\ head = <<>>
    BY <2>1, Zenon DEF IInv, RoomInv, HeadInv, CtlInv, Installing, CommitPC
  <2>3. dirty = {}
    BY <2>2, EmptyHeader DEF IInv, DirtyInv, TypeOK
  <2>4. \A p \in Proc : pc[p] # "log"
    BY <2>1, Zenon DEF Active, CallPC
  <2>. QED
    BY <2>2, <2>3, <2>4, CleanContents, Zenon
<1>. QED
  BY <1>1, LogInvariant, PTL

\* bget() never recycles a buffer whose contents the disk does not have.
THEOREM LogRecycling == ASSUME EnoughSpace PROVE Spec => []RecyclableIsClean
<1>1. IInv => RecyclableIsClean
  BY Zenon DEF IInv, DirtyInv, RecyclableIsClean, Contents
<1>. QED
  BY <1>1, LogInvariant, PTL
=============================================================================
