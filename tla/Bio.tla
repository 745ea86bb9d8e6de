--------------------------------- MODULE Bio ---------------------------------
(***************************************************************************)
(* The buffer cache (kernel/bio.c), the sleep lock of a buffer              *)
(* (kernel/sleeplock.c) and the disk driver with its interrupt             *)
(* (kernel/ide.c).  A step is a critical section of bcache.lock, of the     *)
(* sleep lock's spin lock or of idelock.  Callers hold one buffer at a      *)
(* time; they change it and either write it (bwrite) or leave it dirty for  *)
(* the log, as log_write() does.                                            *)
(***************************************************************************)
EXTENDS Integers, Sequences, FiniteSets

CONSTANTS BProc,    \* processes
          NoOne,    \* "the sleep lock is free"
          Block,    \* block numbers
          NBUF,     \* buffers
          Data,     \* contents of a block
          Written,  \* blocks that the callers change; they only read the others
          MAXPIN    \* blocks that the log may keep dirty at a time

\* The log leaves every process a buffer.
ASSUME BioAssumption ==
    /\ IsFiniteSet(BProc) /\ NoOne \notin BProc /\ MAXPIN \in Nat /\ NBUF \in Nat \ {0}
    /\ MAXPIN + Cardinality(BProc) <= NBUF
    /\ Block \subseteq Nat \ {0} /\ Data # {}

VARIABLES buf,       \* per buffer: blockno, refcnt, valid, dirty, data
          mru,       \* bcache.head: most recently used first
          locker,    \* per buffer: who holds its sleep lock, or NoOne
          idequeue,  \* the buffers that wait for the disk, the active one first
          disk,
          bpc,       \* per process: where it is
          bp,        \* per process: its buffer
          bawake,    \* FALSE while in sleep()
          last       \* history: the last data that a holder gave each block

bioVars == <<buf, mru, locker, idequeue, disk, bpc, bp, bawake, last>>

Buf == 1 .. NBUF
NoBlock == 0
Blank == CHOOSE v \in Data : TRUE

BioInit ==
    /\ buf = [b \in Buf |-> [blockno |-> NoBlock, refcnt |-> 0, valid |-> 0, dirty |-> 0,
                              data |-> Blank]]
    /\ mru = [i \in Buf |-> NBUF + 1 - i]
    /\ locker = [b \in Buf |-> NoOne]
    /\ idequeue = <<>>
    /\ disk = [n \in Block |-> Blank]
    /\ bpc = [p \in BProc |-> "idle"]
    /\ bp = [p \in BProc |-> 1]
    /\ bawake = [p \in BProc |-> TRUE]
    /\ last = disk

BAt(p, l) == bpc[p] = l /\ bawake[p]
BGoto(p, l) == bpc' = [bpc EXCEPT ![p] = l]

\* wakeup(): everyone at a label of l who sleeps for buffer b.
Woken(l, b) == [p \in BProc |-> bawake[p] \/ (bpc[p] \in l /\ bp[p] = b)]

\* The buffers that bget() may recycle.
\* Mutant: a buffer that is in use is taken.
Recyclable_Used(b) == buf[b].dirty = 0

\* Mutant: a buffer that the log has left dirty is taken.
Recyclable_Dirty(b) == buf[b].refcnt = 0

Recyclable(b) == buf[b].refcnt = 0 /\ buf[b].dirty = 0

\* The one that is used: least recently used first.
Victim == mru[CHOOSE i \in Buf : Recyclable(mru[i]) /\ \A j \in i + 1 .. NBUF : ~Recyclable(mru[j])]

\* bget(n), up to acquiresleep().
bget(p, n) ==
    /\ BAt(p, "idle")
    /\ \/ \E b \in Buf : /\ buf[b].blockno = n
                         /\ buf' = [buf EXCEPT ![b] = [@ EXCEPT !.refcnt = buf[b].refcnt + 1]]
                         /\ bp' = [bp EXCEPT ![p] = b]
                         /\ BGoto(p, "acquiresleep")
       \/ /\ \A b \in Buf : buf[b].blockno # n
          /\ IF \E b \in Buf : Recyclable(b)
             THEN /\ buf' = [buf EXCEPT ![Victim] = [@ EXCEPT !.blockno = n, !.refcnt = 1,
                                                               !.valid = 0, !.dirty = 0]]
                  /\ bp' = [bp EXCEPT ![p] = Victim]
                  /\ BGoto(p, "acquiresleep")
             ELSE BGoto(p, "panic") /\ UNCHANGED <<buf, bp>>
    /\ UNCHANGED <<mru, locker, idequeue, disk, bawake, last>>

\* acquiresleep(), one turn of its loop; then bread() needs the disk or not.
acquiresleep(p) ==
    LET b == bp[p]
    IN  /\ BAt(p, "acquiresleep")
        /\ IF locker[b] = NoOne
           THEN /\ locker' = [locker EXCEPT ![b] = p]
                /\ BGoto(p, IF buf[b].valid = 1 THEN "hold" ELSE "iderw")
                /\ UNCHANGED bawake
           ELSE /\ bawake' = [bawake EXCEPT ![p] = FALSE]
                /\ UNCHANGED <<locker, bpc>>
        /\ UNCHANGED <<buf, mru, idequeue, disk, bp, last>>

\* iderw(), for bread() and for bwrite(): join the queue, then sleep.
iderw(p, from, to, done) ==
    /\ \/ /\ BAt(p, from)
          /\ idequeue' = Append(idequeue, bp[p])
          /\ BGoto(p, to)
          /\ bawake' = [bawake EXCEPT ![p] = FALSE]
       \/ /\ BAt(p, to)
          /\ IF buf[bp[p]].valid = 1 /\ buf[bp[p]].dirty = 0
             THEN BGoto(p, done) /\ UNCHANGED bawake
             ELSE bawake' = [bawake EXCEPT ![p] = FALSE] /\ UNCHANGED bpc
          /\ UNCHANGED idequeue
    /\ UNCHANGED <<buf, mru, locker, disk, bp, last>>

\* ideintr(): the active request is done.  The sleepers of its buffer wake up.
ideintr ==
    LET b == Head(idequeue)
        n == buf[b].blockno
        write == buf[b].dirty = 1
    IN  /\ idequeue # <<>>
        /\ idequeue' = Tail(idequeue)
        /\ disk' = IF write THEN [disk EXCEPT ![n] = buf[b].data] ELSE disk
        /\ buf' = [buf EXCEPT ![b] = [@ EXCEPT !.data = IF write THEN buf[b].data ELSE disk[n],
                                                !.valid = 1, !.dirty = 0]]
        /\ bawake' = Woken({"sleep", "wsleep"}, b)
        /\ UNCHANGED <<mru, locker, bpc, bp, last>>

\* The holder changes the data and calls bwrite(), or log_write(), which only pins it.
Put(p, v) ==
    /\ buf[bp[p]].blockno \in Written
    /\ buf' = [buf EXCEPT ![bp[p]] = [@ EXCEPT !.data = v, !.dirty = 1]]
    /\ last' = [last EXCEPT ![buf[bp[p]].blockno] = v]
    /\ UNCHANGED <<mru, locker, idequeue, disk, bp, bawake>>

bwrite(p, v) == BAt(p, "hold") /\ Put(p, v) /\ BGoto(p, "bwrite")

log_write(p, v) ==
    /\ BAt(p, "hold")
    /\ Cardinality({b \in Buf : buf[b].dirty = 1} \cup {bp[p]}) <= MAXPIN
    /\ Put(p, v)
    /\ BGoto(p, "brelse")

\* Mutant: who waits for the lock is not woken.
releasesleep_Quiet(p) ==
    /\ bpc[p] \in {"hold", "brelse", "written"} /\ bawake[p]
    /\ locker' = [locker EXCEPT ![bp[p]] = NoOne]
    /\ BGoto(p, "unref")
    /\ UNCHANGED <<buf, mru, idequeue, disk, bp, bawake, last>>

\* brelse(): releasesleep(), then the reference.
releasesleep(p) ==
    LET b == bp[p]
    IN  /\ bpc[p] \in {"hold", "brelse", "written"} /\ bawake[p]
        /\ locker' = [locker EXCEPT ![b] = NoOne]
        /\ bawake' = Woken({"acquiresleep"}, b)
        /\ BGoto(p, "unref")
        /\ UNCHANGED <<buf, mru, idequeue, disk, bp, last>>

\* The list after b was unlinked and linked again behind its head.
ToFront(b) ==
    LET k == CHOOSE i \in Buf : mru[i] = b
    IN  [i \in Buf |-> IF i = 1 THEN b ELSE IF i <= k THEN mru[i - 1] ELSE mru[i]]

brelse(p) ==
    LET b == bp[p]
    IN  /\ BAt(p, "unref")
        /\ buf' = [buf EXCEPT ![b] = [@ EXCEPT !.refcnt = buf[b].refcnt - 1]]
        /\ mru' = IF buf[b].refcnt = 1 THEN ToFront(b) ELSE mru
        /\ BGoto(p, "idle")
        /\ bp' = [bp EXCEPT ![p] = 1]
        /\ UNCHANGED <<locker, idequeue, disk, bawake, last>>

BioStep(p) ==
    \/ acquiresleep(p) \/ iderw(p, "iderw", "sleep", "hold") \/ iderw(p, "bwrite", "wsleep", "written")
    \/ releasesleep(p) \/ brelse(p)

BioNext ==
    \/ ideintr
    \/ \E p \in BProc : BioStep(p)
    \/ \E p \in BProc, n \in Block : bget(p, n)
    \/ \E p \in BProc, v \in Data : bwrite(p, v) \/ log_write(p, v)

BioSpec == BioInit /\ [][BioNext]_bioVars

\* The disk answers every request, and a process in bread(), bwrite() or brelse() goes on.
BioFair == WF_bioVars(ideintr) /\ \A p \in BProc : WF_bioVars(BioStep(p))
BioLiveSpec == BioSpec /\ BioFair

-----------------------------------------------------------------------------
(* Properties *)

Holds(p) == bpc[p] \in {"hold", "brelse", "written"}

\* A block is in one buffer at most, though two processes may miss it in the cache at once
\* (bget looks and recycles in one critical section).  A buffer that is locked, waited for or
\* on the disk queue is referenced and is not recycled; bget() finds one for everybody.
BufferStable ==
    /\ \A b, c \in Buf : buf[b].blockno = buf[c].blockno /\ b # c => buf[b].blockno = NoBlock
    /\ \A b \in Buf : buf[b].refcnt = Cardinality({p \in BProc : bpc[p] # "idle" /\ bp[p] = b})
    /\ \A b \in Buf : locker[b] # NoOne \/ b \in {idequeue[i] : i \in 1 .. Len(idequeue)}
                      => buf[b].refcnt > 0
    /\ \A p \in BProc : bpc[p] # "panic"

\* Whoever holds a buffer holds it alone and sees the last data that was put in the block,
\* whether it is still in the cache, dirty for the log, or has been written, evicted and read
\* again (bread, B_DIRTY in bget); and when bwrite() returns, that data is on the disk, which
\* the log's commit relies on (iderw).
HolderReads ==
    \A p \in BProc : Holds(p) =>
        LET n == buf[bp[p]].blockno
        IN  /\ locker[bp[p]] = p
            /\ buf[bp[p]].valid = 1 /\ buf[bp[p]].data = last[n]
            /\ bpc[p] = "written" => disk[n] = last[n]

\* Nobody sleeps for ever: who waits for a buffer's lock or for the disk is woken, although
\* requests queue behind one another (wakeup in ideintr and in releasesleep).
SleepersWake == \A p \in BProc : ~bawake[p] ~> bawake[p]
=============================================================================
