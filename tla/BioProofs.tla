------------------------------ MODULE BioProofs ------------------------------
(***************************************************************************)
(* The buffer cache keeps one copy of a block and shows its holder the last *)
(* data, for every number of buffers, blocks and processes (kernel/bio.c,   *)
(* kernel/sleeplock.c, kernel/ide.c).                                       *)
(***************************************************************************)
EXTENDS Bio, Functions, FiniteSetTheorems, WellFoundedInduction, TLAPS

\* Where a process has the sleep lock of its buffer; where it has found the buffer valid.
Locked == {"iderw", "sleep", "hold", "bwrite", "wsleep", "written", "brelse"}
Valid == Locked \ {"iderw", "sleep"}

Buffer == [blockno : Block \cup {NoBlock}, refcnt : Nat, valid : {0, 1}, dirty : {0, 1}, data : Data]

BioTypeOK ==
    /\ buf \in [Buf -> Buffer] /\ mru \in [Buf -> Buf] /\ locker \in [Buf -> BProc \cup {NoOne}]
    /\ idequeue \in Seq(Buf) /\ disk \in [Block -> Data] /\ last \in [Block -> Data]
    /\ bpc \in [BProc -> Locked \cup {"idle", "acquiresleep", "unref"}] /\ bp \in [BProc -> Buf]

Users(b) == {p \in BProc : bpc[p] # "idle" /\ bp[p] = b}

\* The list has every buffer; a block is in one buffer, and the reference count is exact.
CacheInv ==
    /\ \A b \in Buf : \E i \in Buf : mru[i] = b
    /\ \A b, c \in Buf : buf[b].blockno = buf[c].blockno /\ b # c => buf[b].blockno = NoBlock
    /\ \A b \in Buf : buf[b].refcnt = Cardinality(Users(b))
    /\ \A p \in BProc : bpc[p] # "idle" => buf[bp[p]].blockno \in Block

\* The sleep locks, and what their holders know of their buffers.
HolderInv ==
    /\ \A p \in BProc : bpc[p] \in Locked => locker[bp[p]] = p
    /\ \A b \in Buf : locker[b] # NoOne => bpc[locker[b]] \in Locked /\ bp[locker[b]] = b
    /\ \A p \in BProc : /\ bpc[p] = "iderw" => buf[bp[p]].valid = 0
                        /\ bpc[p] \in Valid => buf[bp[p]].valid = 1
                        /\ bpc[p] = "bwrite" => buf[bp[p]].dirty = 1
                        /\ bpc[p] = "written" => buf[bp[p]].dirty = 0

\* The disk queue: once each, for a holder that waits, and with something to do.
QueueInv ==
    /\ \A i, j \in 1 .. Len(idequeue) : idequeue[i] = idequeue[j] => i = j
    /\ \A i \in 1 .. Len(idequeue) :
          /\ \E p \in BProc : bp[p] = idequeue[i] /\ bpc[p] \in {"sleep", "wsleep"}
          /\ buf[idequeue[i]].valid = 0 \/ buf[idequeue[i]].dirty = 1

\* The last data of a block is in its buffer if that is valid, and on the disk unless that is dirty.
DataInv ==
    /\ \A b \in Buf : buf[b].dirty = 1 => buf[b].valid = 1
    /\ \A b \in Buf : buf[b].valid = 1 => buf[b].blockno \in Block /\ buf[b].data = last[buf[b].blockno]
    /\ \A n \in Block : disk[n] = last[n] \/ \E b \in Buf : buf[b].blockno = n /\ buf[b].dirty = 1

\* The buffers that the log keeps dirty.
Pinned == {b \in Buf : buf[b].dirty = 1 /\ \A p \in BProc : bp[p] = b => bpc[p] \notin {"bwrite", "wsleep"}}
PinInv == Cardinality(Pinned) <= MAXPIN

BioInv == BioTypeOK /\ CacheInv /\ HolderInv /\ QueueInv /\ DataInv /\ PinInv

-----------------------------------------------------------------------------
(* Finite sets, and the recycling of buffers *)

LEMMA UsersFinite ==
    ASSUME NEW b
    PROVE  IsFiniteSet(Users(b)) /\ Cardinality(Users(b)) \in Nat
<1>1. Users(b) \in SUBSET BProc BY Zenon DEF Users
<1>2. IsFiniteSet(Users(b)) BY <1>1, BioAssumption, FS_Subset, Zenon
<1>3. QED BY <1>2, FS_CardinalityType, Zenon

LEMMA BufFinite == IsFiniteSet(Buf) /\ Cardinality(Buf) = NBUF
<1>1. IsFiniteSet(1 .. NBUF) /\ Cardinality(1 .. NBUF) = IF 1 > NBUF THEN 0 ELSE NBUF - 1 + 1
  BY FS_Interval, BioAssumption
<1>2. QED BY <1>1, BioAssumption DEF Buf

LEMMA PinnedFinite == IsFiniteSet(Pinned) /\ Cardinality(Pinned) \in Nat
<1>1. Pinned \in SUBSET Buf BY Zenon DEF Pinned
<1>2. IsFiniteSet(Pinned) BY <1>1, BufFinite, FS_Subset, Zenon
<1>3. QED BY <1>2, FS_CardinalityType, Zenon

\* The count of a buffer is zero exactly when no process uses it.
LEMMA CountZero ==
    ASSUME CacheInv, NEW b \in Buf
    PROVE  buf[b].refcnt = 0 <=> Users(b) = {}
<1>1. buf[b].refcnt = Cardinality(Users(b)) BY Zenon DEF CacheInv
<1>2. IsFiniteSet(Users(b)) BY UsersFinite, Zenon
<1>3. QED BY <1>1, <1>2, FS_EmptySet, Zenon

\* While one process is idle, the others and the log do not keep all the buffers.
LEMMA SomeRecyclable ==
    ASSUME BioInv, NEW p \in BProc, bpc[p] = "idle"
    PROVE  \E b \in Buf : Recyclable(b)
<1> SUFFICES ASSUME \A b \in Buf : ~Recyclable(b) PROVE FALSE
  BY Zenon
<1> DEFINE Busy == {b \in Buf : Users(b) # {}}
           Others == BProc \ {p}
           f == [b \in Busy |-> CHOOSE q \in BProc : q \in Users(b)]
<1>1. IsFiniteSet(BProc) /\ Cardinality(BProc) \in Nat BY BioAssumption, FS_CardinalityType, Zenon
<1>2. IsFiniteSet(Others) /\ Cardinality(Others) = Cardinality(BProc) - 1
  BY <1>1, FS_RemoveElement, Zenon
<1>3. \A b \in Busy : f[b] \in BProc /\ f[b] \in Users(b)
  <2>1. SUFFICES ASSUME NEW b \in Busy PROVE f[b] \in BProc /\ f[b] \in Users(b)
    BY Zenon
  <2>2. \E q \in BProc : q \in Users(b) BY Zenon DEF Users
  <2>3. f[b] = CHOOSE q \in BProc : q \in Users(b) BY Zenon
  <2>4. QED BY <2>2, <2>3, Zenon
<1> HIDE DEF f
<1>4. \A b \in Busy : f[b] \in Others /\ bp[f[b]] = b BY <1>3, Zenon DEF Users
<1>5. f \in Injection(Busy, Others)
  <2>1. f = [b \in Busy |-> f[b]] BY DEF f
  <2>2. f \in [Busy -> Others] BY <1>4, <2>1, Zenon
  <2>3. IsInjective(f) BY <1>4, <2>2, Zenon DEF IsInjective
  <2>4. QED BY <2>2, <2>3, Zenon DEF Injection
<1> HIDE DEF Others, Busy
<1>6. IsFiniteSet(Busy) /\ Cardinality(Busy) <= Cardinality(Others) BY <1>2, <1>5, FS_Injection, Zenon
<1>7. Cardinality(Busy) \in Nat BY <1>6, FS_CardinalityType, Zenon
<1>8. IsFiniteSet(Busy \cup Pinned)
      /\ Cardinality(Busy \cup Pinned) = Cardinality(Busy) + Cardinality(Pinned) - Cardinality(Busy \cap Pinned)
  BY <1>6, PinnedFinite, FS_Union, Zenon
<1>9. Cardinality(Busy \cap Pinned) \in Nat
  <2>1. Busy \cap Pinned \in SUBSET Busy BY Zenon
  <2>2. IsFiniteSet(Busy \cap Pinned) BY <2>1, <1>6, FS_Subset, Zenon
  <2>3. QED BY <2>2, FS_CardinalityType, Zenon
<1>10. Buf \subseteq Busy \cup Pinned
  <2>1. SUFFICES ASSUME NEW b \in Buf, b \notin Busy PROVE b \in Pinned
    BY Zenon
  <2>2. Users(b) = {} BY <2>1, Zenon DEF Busy
  <2>3. buf[b].refcnt = 0 BY <2>2, CountZero, Zenon DEF BioInv
  <2>4. buf[b].dirty = 1 BY <2>3, Zenon DEF Recyclable, BioInv, BioTypeOK, Buffer
  <2>5. QED BY <2>2, <2>4, Zenon DEF Pinned, Users
<1>11. NBUF <= Cardinality(Busy \cup Pinned)
  <2>1. Buf \in SUBSET (Busy \cup Pinned) BY <1>10, Zenon
  <2>2. Cardinality(Buf) <= Cardinality(Busy \cup Pinned) BY <2>1, <1>8, FS_Subset, Zenon
  <2>3. QED BY <2>2, BufFinite, Zenon
<1>12. Cardinality(Pinned) <= MAXPIN /\ Cardinality(Pinned) \in Nat BY PinnedFinite, Zenon DEF BioInv, PinInv
<1>13. QED BY <1>1, <1>2, <1>6, <1>7, <1>8, <1>9, <1>11, <1>12, BioAssumption

\* The least recently used one can be recycled.
LEMMA VictimFacts ==
    ASSUME BioTypeOK, CacheInv, \E b \in Buf : Recyclable(b)
    PROVE  Victim \in Buf /\ Recyclable(Victim)
<1> DEFINE R == OpToRel(<, Nat)
           S == {k \in 0 .. NBUF - 1 : Recyclable(mru[NBUF - k])}
<1>1. IsWellFoundedOn(R, Nat) BY NatLessThanWellFounded, Zenon
<1>2. S \subseteq Nat BY BioAssumption
<1>3. \A x, y \in Nat : y < x => <<y, x>> \in R BY Zenon DEF OpToRel
<1>4. S # {}
  <2>1. PICK b \in Buf : Recyclable(b) BY Zenon
  <2>2. PICK i \in Buf : mru[i] = b BY Zenon DEF CacheInv
  <2>3. NBUF - i \in 0 .. NBUF - 1 /\ NBUF - (NBUF - i) = i BY BioAssumption DEF Buf
  <2>4. QED BY <2>1, <2>2, <2>3, Zenon
<1>5. \A k \in 0 .. NBUF - 1 : k \in S <=> Recyclable(mru[NBUF - k]) BY Zenon
<1>6. S \subseteq 0 .. NBUF - 1 BY Zenon
<1> HIDE DEF R, S
<1>7. PICK x \in S : \A y \in S : ~(<<y, x>> \in R) BY <1>1, <1>2, <1>4, WFMin, Zenon
<1>8. \A y \in S : ~(y < x) BY <1>2, <1>3, <1>7, Zenon
<1>9. PICK i \in Buf : i = NBUF - x BY <1>6, <1>7, BioAssumption DEF Buf
<1>10. Recyclable(mru[i]) BY <1>5, <1>6, <1>7, <1>9, Zenon
<1>11. ASSUME NEW j \in i + 1 .. NBUF PROVE ~Recyclable(mru[j])
  <2>1. NBUF - j \in 0 .. NBUF - 1 /\ NBUF - (NBUF - j) = j /\ NBUF - j < x
    BY <1>6, <1>9, BioAssumption DEF Buf
  <2>2. NBUF - j \notin S BY <2>1, <1>8, Zenon
  <2>3. QED BY <2>1, <2>2, <1>5, Zenon
<1> DEFINE Last(k) == Recyclable(mru[k]) /\ \A j \in k + 1 .. NBUF : ~Recyclable(mru[j])
<1>12. \E k \in Buf : Last(k) BY <1>10, <1>11, Zenon
<1> DEFINE v == CHOOSE k \in Buf : Last(k)
<1>13. v \in Buf /\ Last(v) BY <1>12, Zenon
<1>14. Victim = mru[v] BY Zenon DEF Victim
<1> HIDE DEF v
<1>15. QED BY <1>13, <1>14, Zenon DEF BioTypeOK

-----------------------------------------------------------------------------
(* The steps that leave the buffers alone *)

LEMMA InitInv == BioInit => BioInv
<1> SUFFICES ASSUME BioInit PROVE BioInv
  BY Zenon
<1> USE BioAssumption DEF BioInit
<1>1. Blank \in Data BY Zenon DEF Blank
<1>2. BioTypeOK BY <1>1 DEF BioTypeOK, Buffer, Buf
<1>3. CacheInv
  <2>1. \A b \in Buf : \E i \in Buf : mru[i] = b
    <3>1. SUFFICES ASSUME NEW b \in Buf PROVE mru[NBUF + 1 - b] = b /\ NBUF + 1 - b \in Buf
      BY Zenon
    <3>2. QED BY DEF Buf
  <2>2. ASSUME NEW b \in Buf PROVE buf[b].refcnt = Cardinality(Users(b))
    <3>1. Users(b) = {} BY Zenon DEF Users
    <3>2. QED BY <3>1, FS_EmptySet, Zenon
  <2>3. QED BY <2>1, <2>2, Zenon DEF CacheInv
<1>4. HolderInv BY Zenon DEF HolderInv, Locked, Valid
<1>5. QueueInv BY DEF QueueInv
<1>6. DataInv BY DEF DataInv
<1>7. PinInv
  <2>1. Pinned = {} BY DEF Pinned
  <2>2. QED BY <2>1, FS_EmptySet DEF PinInv
<1>8. QED BY <1>2, <1>3, <1>4, <1>5, <1>6, <1>7, Zenon DEF BioInv

\* No more buffers are pinned.
LEMMA PinKept ==
    ASSUME BioInv, Pinned' \subseteq Pinned
    PROVE  PinInv'
<1> DEFINE P == Pinned'
<1>1. P \in SUBSET Pinned BY Zenon
<1> HIDE DEF P
<1>2. IsFiniteSet(P) /\ Cardinality(P) <= Cardinality(Pinned) BY <1>1, PinnedFinite, FS_Subset, Zenon
<1>3. Cardinality(P) \in Nat BY <1>2, FS_CardinalityType, Zenon
<1>4. Cardinality(P) <= MAXPIN BY <1>2, <1>3, PinnedFinite, BioAssumption DEF BioInv, PinInv
<1>5. QED BY <1>4, Zenon DEF P, PinInv

\* A process that goes on with its buffer does not change the cache or the data.
LEMMA Moves ==
    ASSUME BioInv, NEW p \in BProc, NEW l, bpc[p] # "idle", l # "idle", BGoto(p, l),
           UNCHANGED <<buf, mru, disk, bp, last>>
    PROVE  CacheInv' /\ DataInv'
<1> USE DEF BioInv, BGoto, BioTypeOK
<1>1. \A q \in BProc : bpc'[q] # "idle" <=> bpc[q] # "idle" BY Zenon
<1>2. \A b : Users(b)' = Users(b) BY <1>1, Zenon DEF Users
<1>3. CacheInv'
  <2>1. \A b \in Buf : buf'[b].refcnt = Cardinality(Users(b)') BY <1>2, Zenon DEF CacheInv
  <2>2. QED BY <1>1, <2>1, Zenon DEF CacheInv
<1>4. DataInv' BY Zenon DEF DataInv
<1>5. QED BY <1>3, <1>4, Zenon

\* The disk queue stays, and so does the buffer of everyone who waits for the disk.
LEMMA QueueKept ==
    ASSUME BioInv, UNCHANGED idequeue,
           \A q \in BProc : bpc[q] \in {"sleep", "wsleep"} =>
               /\ bpc'[q] = bpc[q] /\ bp'[q] = bp[q]
               /\ buf'[bp[q]].valid = buf[bp[q]].valid /\ buf'[bp[q]].dirty = buf[bp[q]].dirty
    PROVE  QueueInv'
<1> USE DEF BioInv
<1>1. ASSUME NEW i \in 1 .. Len(idequeue)
      PROVE  /\ \E q \in BProc : bp'[q] = idequeue[i] /\ bpc'[q] \in {"sleep", "wsleep"}
             /\ buf'[idequeue[i]].valid = 0 \/ buf'[idequeue[i]].dirty = 1
  <2>1. PICK q \in BProc : bp[q] = idequeue[i] /\ bpc[q] \in {"sleep", "wsleep"} BY Zenon DEF QueueInv
  <2>2. buf[idequeue[i]].valid = 0 \/ buf[idequeue[i]].dirty = 1 BY Zenon DEF QueueInv
  <2>3. QED BY <2>1, <2>2, Zenon
<1>2. QED BY <1>1, Zenon DEF QueueInv

\* The invariant does not look at bawake: going to sleep keeps it.
LEMMA StutterInv ==
    ASSUME BioInv, UNCHANGED <<buf, mru, locker, idequeue, disk, bpc, bp, last>>
    PROVE  BioInv'
<1>1. /\ buf' = buf /\ mru' = mru /\ locker' = locker /\ idequeue' = idequeue /\ disk' = disk
      /\ bpc' = bpc /\ bp' = bp /\ last' = last
  BY Zenon
<1>2. BioTypeOK' BY <1>1, Zenon DEF BioInv, BioTypeOK
<1>3. CacheInv' BY <1>1 DEF BioInv, CacheInv, Users
<1>4. HolderInv' BY <1>1, Zenon DEF BioInv, HolderInv
<1>5. QueueInv' BY <1>1 DEF BioInv, QueueInv
<1>6. DataInv' BY <1>1 DEF BioInv, DataInv
<1>7. PinInv' BY <1>1, Zenon DEF BioInv, PinInv, Pinned
<1>8. QED BY <1>2, <1>3, <1>4, <1>5, <1>6, <1>7, Zenon DEF BioInv

LEMMA AcquireInv ==
    ASSUME BioInv, NEW p \in BProc, acquiresleep(p)
    PROVE  BioInv'
<1> USE BioAssumption DEF BioInv
<1>1. PICK b \in Buf : b = bp[p] BY Zenon DEF BioTypeOK
<1>2. CASE locker[b] = NoOne
  <2>1. PICK l \in {"hold", "iderw"} : /\ l = IF buf[b].valid = 1 THEN "hold" ELSE "iderw"
                                       /\ BGoto(p, l)
    BY <1>1, <1>2, Zenon DEF acquiresleep
  <2>2. /\ bpc[p] = "acquiresleep" /\ locker' = [locker EXCEPT ![b] = p]
        /\ UNCHANGED <<buf, mru, idequeue, disk, bp, last>>
    BY <1>1, <1>2, Zenon DEF acquiresleep, BAt
  <2>3. BioTypeOK' BY <2>1, <2>2, Zenon DEF BioTypeOK, BGoto, Locked
  <2>4. CacheInv' /\ DataInv' BY <2>1, <2>2, Moves, Zenon
  <2>5. HolderInv' BY <1>1, <1>2, <2>1, <2>2 DEF HolderInv, BGoto, BioTypeOK, Locked, Valid, Buffer
  <2>6. QueueInv' BY <2>1, <2>2 DEF QueueInv, BGoto, BioTypeOK
  <2>7. Pinned' \subseteq Pinned BY <2>1, <2>2, Zenon DEF Pinned, BGoto, BioTypeOK
  <2>8. QED BY <2>3, <2>4, <2>5, <2>6, <2>7, PinKept, Zenon
<1>3. CASE locker[b] # NoOne
  <2>1. UNCHANGED <<buf, mru, locker, idequeue, disk, bpc, bp, last>>
    BY <1>1, <1>3, Zenon DEF acquiresleep
  <2>2. QED BY <2>1, StutterInv, Zenon
<1>4. QED BY <1>2, <1>3, Zenon

LEMMA IderwInv ==
    ASSUME BioInv, NEW p \in BProc, NEW from, NEW to, NEW done, iderw(p, from, to, done),
           \/ from = "iderw" /\ to = "sleep" /\ done = "hold"
           \/ from = "bwrite" /\ to = "wsleep" /\ done = "written"
    PROVE  BioInv'
<1> USE BioAssumption DEF BioInv
<1>1. PICK b \in Buf : b = bp[p] BY Zenon DEF BioTypeOK
<1>2. UNCHANGED <<buf, mru, locker, disk, bp, last>> BY Zenon DEF iderw
<1>3. \/ from = "iderw" /\ to = "sleep" /\ done = "hold"
      \/ from = "bwrite" /\ to = "wsleep" /\ done = "written"
  BY Zenon
<1>4. CASE bpc[p] = from /\ idequeue' = Append(idequeue, b) /\ BGoto(p, to)
  <2>1. /\ idequeue' \in Seq(Buf) /\ Len(idequeue') = Len(idequeue) + 1 /\ Len(idequeue) \in Nat
        /\ idequeue'[Len(idequeue) + 1] = b
        /\ \A i \in 1 .. Len(idequeue) : idequeue'[i] = idequeue[i]
    BY <1>4 DEF BioTypeOK
  <2>2. BioTypeOK' BY <1>2, <1>3, <1>4, <2>1, Zenon DEF BioTypeOK, BGoto, Locked
  <2>3. CacheInv' /\ DataInv' BY <1>2, <1>3, <1>4, Moves, Zenon
  <2>4. HolderInv' BY <1>2, <1>3, <1>4 DEF HolderInv, BGoto, BioTypeOK, Locked, Valid
  <2>5. \A i \in 1 .. Len(idequeue) : idequeue[i] # b
    <3>1. SUFFICES ASSUME NEW i \in 1 .. Len(idequeue), idequeue[i] = b PROVE FALSE
      BY Zenon
    <3>2. PICK q \in BProc : bp[q] = b /\ bpc[q] \in {"sleep", "wsleep"} BY <3>1, Zenon DEF QueueInv
    <3>3. QED BY <1>1, <1>3, <1>4, <3>2 DEF HolderInv, Locked
  <2>6. buf[b].valid = 0 \/ buf[b].dirty = 1 BY <1>1, <1>3, <1>4, Zenon DEF HolderInv
  <2>7. QueueInv'
    <3>1. \A i, j \in 1 .. Len(idequeue') : idequeue'[i] = idequeue'[j] => i = j
      BY <2>1, <2>5, SMTT(30) DEF QueueInv
    <3>2. ASSUME NEW i \in 1 .. Len(idequeue')
          PROVE  /\ \E q \in BProc : bp'[q] = idequeue'[i] /\ bpc'[q] \in {"sleep", "wsleep"}
                 /\ buf'[idequeue'[i]].valid = 0 \/ buf'[idequeue'[i]].dirty = 1
      <4>1. CASE i = Len(idequeue) + 1
        BY <1>1, <1>2, <1>3, <1>4, <2>1, <2>6, <4>1, Zenon DEF BGoto, BioTypeOK
      <4>2. CASE i \in 1 .. Len(idequeue)
        <5>1. PICK q \in BProc : bp[q] = idequeue[i] /\ bpc[q] \in {"sleep", "wsleep"}
          BY <4>2, Zenon DEF QueueInv
        <5>2. bpc'[q] \in {"sleep", "wsleep"} BY <1>3, <1>4, <5>1, Zenon DEF BGoto, BioTypeOK
        <5>3. QED BY <1>2, <2>1, <4>2, <5>1, <5>2, Zenon DEF QueueInv
      <4>3. QED BY <2>1, <4>1, <4>2
    <3>3. QED BY <3>1, <3>2, Zenon DEF QueueInv
  <2>8. Pinned' \subseteq Pinned BY <1>1, <1>2, <1>3, <1>4, Zenon DEF Pinned, BGoto, BioTypeOK
  <2>9. QED BY <2>2, <2>3, <2>4, <2>7, <2>8, PinKept, Zenon
<1>5. CASE /\ bpc[p] = to /\ buf[b].valid = 1 /\ buf[b].dirty = 0 /\ BGoto(p, done)
           /\ UNCHANGED idequeue
  <2>1. BioTypeOK' BY <1>2, <1>3, <1>5, Zenon DEF BioTypeOK, BGoto, Locked
  <2>2. CacheInv' /\ DataInv' BY <1>2, <1>3, <1>5, Moves, Zenon
  <2>3. HolderInv' BY <1>1, <1>2, <1>3, <1>5, SMTT(30) DEF HolderInv, BGoto, BioTypeOK, Locked, Valid
  <2>4. QueueInv'
    <3>1. ASSUME NEW i \in 1 .. Len(idequeue)
          PROVE  \E q \in BProc : bp[q] = idequeue[i] /\ bpc'[q] \in {"sleep", "wsleep"}
      <4>1. PICK q \in BProc : bp[q] = idequeue[i] /\ bpc[q] \in {"sleep", "wsleep"} BY Zenon DEF QueueInv
      <4>2. q # p BY <1>1, <1>5, <4>1 DEF QueueInv
      <4>3. QED BY <1>5, <4>1, <4>2, Zenon DEF BGoto, BioTypeOK
    <3>2. QED BY <1>2, <1>5, <3>1 DEF QueueInv
  <2>5. Pinned' \subseteq Pinned BY <1>1, <1>2, <1>3, <1>5 DEF Pinned, BGoto, BioTypeOK
  <2>6. QED BY <2>1, <2>2, <2>3, <2>4, <2>5, PinKept, Zenon
<1>6. CASE UNCHANGED <<bpc, idequeue>>
  BY <1>2, <1>6, StutterInv, Zenon
<1>7. QED BY <1>1, <1>4, <1>5, <1>6, Zenon DEF iderw, BAt

LEMMA ReleaseInv ==
    ASSUME BioInv, NEW p \in BProc, releasesleep(p)
    PROVE  BioInv'
<1> USE BioAssumption DEF BioInv
<1>1. PICK b \in Buf : b = bp[p] BY Zenon DEF BioTypeOK
<1>2. /\ bpc[p] \in {"hold", "brelse", "written"} /\ locker' = [locker EXCEPT ![b] = NoOne]
      /\ BGoto(p, "unref") /\ UNCHANGED <<buf, mru, idequeue, disk, bp, last>>
  BY <1>1, Zenon DEF releasesleep
<1>3. BioTypeOK' BY <1>2, Zenon DEF BioTypeOK, BGoto
<1>4. CacheInv' /\ DataInv' BY <1>2, Moves, Zenon
<1>5. HolderInv' BY <1>1, <1>2 DEF HolderInv, BGoto, BioTypeOK, Locked, Valid
<1>6. QueueInv' BY <1>2 DEF QueueInv, BGoto, BioTypeOK
<1>7. Pinned' \subseteq Pinned BY <1>2, Zenon DEF Pinned, BGoto, BioTypeOK
<1>8. QED BY <1>3, <1>4, <1>5, <1>6, <1>7, PinKept, Zenon

-----------------------------------------------------------------------------
(* The steps that change a buffer *)

\* The reference counts after process p took buffer b.
LEMMA UserAdded ==
    ASSUME BioInv, NEW p \in BProc, NEW b \in Buf, bpc[p] = "idle", BGoto(p, "acquiresleep"),
           bp' = [bp EXCEPT ![p] = b]
    PROVE  /\ Cardinality(Users(b)') = buf[b].refcnt + 1
           /\ \A c \in Buf : c # b => Cardinality(Users(c)') = buf[c].refcnt
<1> USE DEF BioInv
<1>1. /\ bpc'[p] = "acquiresleep" /\ bp'[p] = b
      /\ \A q \in BProc : q # p => bpc'[q] = bpc[q] /\ bp'[q] = bp[q]
  BY Zenon DEF BioTypeOK, BGoto
<1>2. Users(b)' = Users(b) \cup {p} BY <1>1, Zenon DEF Users
<1>3. p \notin Users(b) BY Zenon DEF Users
<1>4. Cardinality(Users(b) \cup {p}) = Cardinality(Users(b)) + 1
  BY <1>3, UsersFinite, FS_AddElement, Zenon
<1>5. \A c \in Buf : c # b => Users(c)' = Users(c) BY <1>1, Zenon DEF Users
<1>6. QED BY <1>2, <1>4, <1>5, Zenon DEF CacheInv

LEMMA HitInv ==
    ASSUME BioInv, NEW p \in BProc, NEW n \in Block, NEW b \in Buf, bpc[p] = "idle",
           buf[b].blockno = n, buf' = [buf EXCEPT ![b] = [@ EXCEPT !.refcnt = buf[b].refcnt + 1]],
           bp' = [bp EXCEPT ![p] = b], BGoto(p, "acquiresleep"),
           UNCHANGED <<mru, locker, idequeue, disk, last>>
    PROVE  BioInv'
<1> USE BioAssumption DEF BioInv
<1>1. /\ bpc'[p] = "acquiresleep" /\ bp'[p] = b
      /\ \A q \in BProc : q # p => bpc'[q] = bpc[q] /\ bp'[q] = bp[q]
  BY Zenon DEF BioTypeOK, BGoto
<1>2. /\ \A c \in Buf : /\ buf'[c].blockno = buf[c].blockno /\ buf'[c].valid = buf[c].valid
                        /\ buf'[c].dirty = buf[c].dirty /\ buf'[c].data = buf[c].data
      /\ \A c \in Buf : c # b => buf'[c].refcnt = buf[c].refcnt
      /\ buf'[b].refcnt = buf[b].refcnt + 1
  BY DEF BioTypeOK, Buffer
<1>3. BioTypeOK'
  <2>1. PICK r \in Buffer : r = buf[b] BY Zenon DEF BioTypeOK
  <2>2. [r EXCEPT !.refcnt = r.refcnt + 1] \in Buffer BY DEF Buffer
  <2>3. buf' \in [Buf -> Buffer] BY <2>1, <2>2, Zenon DEF BioTypeOK
  <2>4. QED BY <2>3, Zenon DEF BioTypeOK, BGoto
<1>4. CacheInv'
  <2>1. ASSUME NEW c \in Buf PROVE buf'[c].refcnt = Cardinality(Users(c)')
    BY <1>2, UserAdded, ZenonT(30)
  <2>2. QED BY <1>1, <1>2, <2>1 DEF CacheInv, BioTypeOK
<1>5. HolderInv' BY <1>1, <1>2 DEF HolderInv, Locked, Valid, BioTypeOK
<1>6. QueueInv' BY <1>1, <1>2, QueueKept, Zenon DEF BioTypeOK
<1>7. DataInv' BY <1>2 DEF DataInv
<1>8. Pinned' \subseteq Pinned BY <1>1, <1>2, Zenon DEF Pinned
<1>9. QED BY <1>3, <1>4, <1>5, <1>6, <1>7, <1>8, PinKept, Zenon

LEMMA MissInv ==
    ASSUME BioInv, NEW p \in BProc, NEW n \in Block, NEW b \in Buf, bpc[p] = "idle",
           \A c \in Buf : buf[c].blockno # n, Recyclable(b),
           buf' = [buf EXCEPT ![b] = [@ EXCEPT !.blockno = n, !.refcnt = 1, !.valid = 0, !.dirty = 0]],
           bp' = [bp EXCEPT ![p] = b], BGoto(p, "acquiresleep"),
           UNCHANGED <<mru, locker, idequeue, disk, last>>
    PROVE  BioInv'
<1> USE BioAssumption DEF BioInv
<1>1. /\ bpc'[p] = "acquiresleep" /\ bp'[p] = b
      /\ \A q \in BProc : q # p => bpc'[q] = bpc[q] /\ bp'[q] = bp[q]
  BY Zenon DEF BioTypeOK, BGoto
<1>2. /\ \A c \in Buf : c # b => buf'[c] = buf[c]
      /\ buf'[b].blockno = n /\ buf'[b].refcnt = 1 /\ buf'[b].valid = 0 /\ buf'[b].dirty = 0
  BY DEF BioTypeOK, Buffer
<1>3. BioTypeOK'
  <2>1. PICK r \in Buffer : r = buf[b] BY Zenon DEF BioTypeOK
  <2>2. [r EXCEPT !.blockno = n, !.refcnt = 1, !.valid = 0, !.dirty = 0] \in Buffer BY Zenon DEF Buffer
  <2>3. buf' \in [Buf -> Buffer] BY <2>1, <2>2, Zenon DEF BioTypeOK
  <2>4. /\ bpc' \in [BProc -> Locked \cup {"idle", "acquiresleep", "unref"}]
        /\ bp' \in [BProc -> Buf]
    BY Zenon DEF BioTypeOK, BGoto
  <2>5. QED BY <2>3, <2>4, Zenon DEF BioTypeOK
<1>4. buf[b].refcnt = 0 /\ buf[b].dirty = 0 BY Zenon DEF Recyclable
<1>5. \A q \in BProc : bpc[q] # "idle" => bp[q] # b BY <1>4, CountZero, Zenon DEF Users
<1>6. n # NoBlock BY Zenon DEF NoBlock
<1>7. CacheInv'
  <2>1. ASSUME NEW c \in Buf PROVE buf'[c].refcnt = Cardinality(Users(c)')
    <3>1. /\ Cardinality(Users(b)') = buf[b].refcnt + 1
          /\ c # b => Cardinality(Users(c)') = buf[c].refcnt
      BY UserAdded, Zenon
    <3>2. QED BY <1>2, <1>4, <3>1
  <2>2. \A c, d \in Buf : buf'[c].blockno = buf'[d].blockno /\ c # d => buf'[c].blockno = NoBlock
    BY <1>2, <1>6 DEF CacheInv
  <2>3. \A q \in BProc : bpc'[q] # "idle" => buf'[bp'[q]].blockno \in Block
    BY <1>1, <1>2, <1>5 DEF CacheInv, BioTypeOK
  <2>4. QED BY <2>1, <2>2, <2>3, Zenon DEF CacheInv
<1>8. HolderInv' BY <1>1, <1>2, <1>5 DEF HolderInv, Locked, Valid, BioTypeOK
<1>10. QueueInv' BY <1>1, <1>2, <1>5, QueueKept, Zenon DEF BioTypeOK
<1>11. DataInv'
  <2>1. ASSUME NEW m \in Block
        PROVE  disk[m] = last[m] \/ \E c \in Buf : buf'[c].blockno = m /\ buf'[c].dirty = 1
    <3>1. CASE disk[m] # last[m]
      <4>1. PICK c \in Buf : buf[c].blockno = m /\ buf[c].dirty = 1 BY <3>1, Zenon DEF DataInv
      <4>2. c # b BY <1>4, <4>1
      <4>3. QED BY <1>2, <4>1, <4>2, Zenon
    <3>2. QED BY <3>1, Zenon
  <2>2. QED BY <1>2, <2>1 DEF DataInv
<1>12. Pinned' \subseteq Pinned BY <1>1, <1>2 DEF Pinned
<1>13. QED BY <1>3, <1>7, <1>8, <1>10, <1>11, <1>12, PinKept, Zenon

LEMMA BgetInv ==
    ASSUME BioInv, NEW p \in BProc, NEW n \in Block, bget(p, n)
    PROVE  BioInv'
<1>1. bpc[p] = "idle" /\ UNCHANGED <<mru, locker, idequeue, disk, last>> BY Zenon DEF bget, BAt
<1>2. \E b \in Buf : Recyclable(b) BY <1>1, SomeRecyclable, Zenon
<1>3. Victim \in Buf /\ Recyclable(Victim) BY <1>2, VictimFacts, Zenon DEF BioInv
<1>4. CASE \E b \in Buf : /\ buf[b].blockno = n /\ buf' = [buf EXCEPT ![b] = [@ EXCEPT !.refcnt = buf[b].refcnt + 1]]
                          /\ bp' = [bp EXCEPT ![p] = b] /\ BGoto(p, "acquiresleep")
  BY <1>1, <1>4, HitInv, Zenon
<1>5. CASE \A b \in Buf : buf[b].blockno # n
  <2>1. PICK b \in Buf : b = Victim BY <1>3, Zenon
  <2>2. CASE ~ \E c \in Buf : buf[c].blockno = n /\ bp' = [bp EXCEPT ![p] = c]
    <3>1. /\ buf' = [buf EXCEPT ![b] = [@ EXCEPT !.blockno = n, !.refcnt = 1, !.valid = 0, !.dirty = 0]]
          /\ bp' = [bp EXCEPT ![p] = b] /\ BGoto(p, "acquiresleep")
      BY <1>2, <2>1, <2>2, Zenon DEF bget
    <3>2. QED BY <1>1, <1>3, <1>5, <2>1, <3>1, MissInv, Zenon
  <2>3. QED BY <1>5, <2>2, Zenon
<1>6. QED BY <1>4, <1>5, Zenon DEF bget

LEMMA IntrInv ==
    ASSUME BioInv, ideintr
    PROVE  BioInv'
<1> USE BioAssumption DEF BioInv
<1>1. idequeue # <<>> /\ UNCHANGED <<mru, locker, bpc, bp, last>> BY Zenon DEF ideintr
<1>2. /\ Len(idequeue) \in Nat \ {0} /\ Head(idequeue) = idequeue[1] /\ idequeue[1] \in Buf
      /\ Tail(idequeue) \in Seq(Buf) /\ Len(Tail(idequeue)) = Len(idequeue) - 1
      /\ \A i \in 1 .. Len(idequeue) - 1 : Tail(idequeue)[i] = idequeue[i + 1]
  BY <1>1 DEF BioTypeOK
<1>3. PICK b \in Buf : b = Head(idequeue) /\ b = idequeue[1] BY <1>2, Zenon
<1>4. PICK p \in BProc : bp[p] = b /\ bpc[p] \in {"sleep", "wsleep"} BY <1>2, <1>3 DEF QueueInv
<1>5. PICK n \in Block : n = buf[b].blockno BY <1>4, Zenon DEF CacheInv
<1>6. PICK d \in Data : d = IF buf[b].dirty = 1 THEN buf[b].data ELSE disk[n]
  BY Zenon DEF BioTypeOK, Buffer
<1>7. /\ idequeue' = Tail(idequeue)
      /\ disk' = IF buf[b].dirty = 1 THEN [disk EXCEPT ![n] = buf[b].data] ELSE disk
      /\ buf' = [buf EXCEPT ![b] = [@ EXCEPT !.data = d, !.valid = 1, !.dirty = 0]]
  BY <1>3, <1>5, <1>6, Zenon DEF ideintr
<1>8. /\ \A c \in Buf : c # b => buf'[c] = buf[c]
      /\ buf'[b].blockno = n /\ buf'[b].refcnt = buf[b].refcnt /\ buf'[b].valid = 1
      /\ buf'[b].dirty = 0 /\ buf'[b].data = d
  BY <1>5, <1>7 DEF BioTypeOK, Buffer
<1>9. BioTypeOK'
  <2>1. disk' \in [Block -> Data] BY <1>7, Zenon DEF BioTypeOK, Buffer
  <2>2. buf' \in [Buf -> Buffer]
    <3>1. PICK r \in Buffer : r = buf[b] BY Zenon DEF BioTypeOK
    <3>2. [r EXCEPT !.data = d, !.valid = 1, !.dirty = 0] \in Buffer BY Zenon DEF Buffer
    <3>3. QED BY <1>7, <3>1, <3>2, Zenon DEF BioTypeOK
  <2>3. QED BY <1>1, <1>2, <1>7, <2>1, <2>2, Zenon DEF BioTypeOK
<1>10. CacheInv'
  <2>1. \A c \in Buf : buf'[c].blockno = buf[c].blockno /\ buf'[c].refcnt = buf[c].refcnt
    BY <1>5, <1>8, Zenon
  <2>2. \A c : Users(c)' = Users(c) BY <1>1, Zenon DEF Users
  <2>3. \A c \in Buf : buf'[c].refcnt = Cardinality(Users(c)') BY <2>1, <2>2, Zenon DEF CacheInv
  <2>4. \A q \in BProc : bpc'[q] # "idle" => buf'[bp'[q]].blockno \in Block
    BY <1>1, <2>1, ZenonT(30) DEF CacheInv, BioTypeOK
  <2>5. \A c, e \in Buf : buf'[c].blockno = buf'[e].blockno /\ c # e => buf'[c].blockno = NoBlock
    BY <2>1 DEF CacheInv
  <2>6. \A c \in Buf : \E i \in Buf : mru'[i] = c BY <1>1, Zenon DEF CacheInv
  <2>7. QED BY <2>3, <2>4, <2>5, <2>6, Zenon DEF CacheInv
<1>11. \A q \in BProc : bp[q] = b /\ bpc[q] \in Locked => q = p BY <1>4 DEF HolderInv, Locked
<1>12. HolderInv' BY <1>1, <1>4, <1>8, <1>11 DEF HolderInv, BioTypeOK, Locked, Valid
<1>13. QueueInv'
  <2>1. \A i \in 1 .. Len(idequeue') : i + 1 \in 1 .. Len(idequeue) /\ idequeue'[i] = idequeue[i + 1]
    BY <1>2, <1>7
  <2>2. \A i, j \in 1 .. Len(idequeue') : idequeue'[i] = idequeue'[j] => i = j
    BY <1>2, <1>7, <2>1 DEF QueueInv
  <2>3. ASSUME NEW i \in 1 .. Len(idequeue')
        PROVE  /\ \E q \in BProc : bp'[q] = idequeue'[i] /\ bpc'[q] \in {"sleep", "wsleep"}
               /\ buf'[idequeue'[i]].valid = 0 \/ buf'[idequeue'[i]].dirty = 1
    <3>1. i + 1 \in 1 .. Len(idequeue) /\ idequeue'[i] = idequeue[i + 1] /\ i + 1 # 1
      BY <2>1, <1>2, <1>7
    <3>2. idequeue[i + 1] # b BY <1>2, <1>3, <3>1 DEF QueueInv
    <3>3. idequeue[i + 1] \in Buf BY <3>1, SMTT(30) DEF BioTypeOK
    <3>4. QED BY <1>1, <1>8, <3>1, <3>2, <3>3 DEF QueueInv
  <2>4. QED BY <2>2, <2>3, Zenon DEF QueueInv
<1>14. DataInv'
  <2>1. d = last[n]
    <3>1. CASE buf[b].dirty = 1 BY <1>5, <1>6, <3>1, Zenon DEF DataInv
    <3>2. CASE buf[b].dirty # 1
      <4>1. ~ \E c \in Buf : buf[c].blockno = n /\ buf[c].dirty = 1
        BY <1>5, <3>2, Zenon DEF CacheInv, NoBlock
      <4>2. QED BY <1>6, <3>2, <4>1, Zenon DEF DataInv
    <3>3. QED BY <3>1, <3>2, Zenon
  <2>2. ASSUME NEW m \in Block
        PROVE  disk'[m] = last[m] \/ \E c \in Buf : buf'[c].blockno = m /\ buf'[c].dirty = 1
    <3>1. CASE m = n BY <1>6, <1>7, <2>1, <3>1 DEF BioTypeOK
    <3>2. CASE m # n
      <4>1. disk'[m] = disk[m] BY <1>7, <3>2, Zenon DEF BioTypeOK
      <4>2. \A c \in Buf : buf[c].blockno = m => c # b BY <1>5, <3>2, Zenon
      <4>3. QED BY <1>8, <4>1, <4>2 DEF DataInv
    <3>3. QED BY <3>1, <3>2, Zenon
  <2>3. QED BY <1>1, <1>8, <2>1, <2>2 DEF DataInv
<1>15. Pinned' \subseteq Pinned BY <1>1, <1>8 DEF Pinned
<1>16. QED BY <1>9, <1>10, <1>12, <1>13, <1>14, <1>15, PinKept, Zenon

\* The holder p changes its buffer, and goes on to l.
LEMMA PutInv ==
    ASSUME BioInv, NEW p \in BProc, NEW v \in Data, NEW l \in {"bwrite", "brelse"},
           bpc[p] = "hold", Put(p, v), BGoto(p, l), PinInv'
    PROVE  BioInv'
<1> USE BioAssumption DEF BioInv
<1>1. PICK b \in Buf : b = bp[p] BY Zenon DEF BioTypeOK
<1>2. PICK n \in Block : n = buf[b].blockno BY <1>1, Zenon DEF CacheInv
<1>3. /\ buf' = [buf EXCEPT ![b] = [@ EXCEPT !.data = v, !.dirty = 1]]
      /\ last' = [last EXCEPT ![n] = v] /\ UNCHANGED <<mru, locker, idequeue, disk, bp>>
  BY <1>1, <1>2, Zenon DEF Put
<1>4. /\ \A c \in Buf : c # b => buf'[c] = buf[c]
      /\ buf'[b].blockno = n /\ buf'[b].refcnt = buf[b].refcnt /\ buf'[b].valid = buf[b].valid
      /\ buf'[b].dirty = 1 /\ buf'[b].data = v
  BY <1>2, <1>3 DEF BioTypeOK, Buffer
<1>5. bpc'[p] = l /\ \A q \in BProc : q # p => bpc'[q] = bpc[q] BY Zenon DEF BGoto, BioTypeOK
<1>6. buf[b].valid = 1 BY <1>1, Zenon DEF HolderInv, Locked, Valid
<1>7. BioTypeOK'
  <2>1. buf' \in [Buf -> Buffer]
    <3>1. PICK r \in Buffer : r = buf[b] BY Zenon DEF BioTypeOK
    <3>2. [r EXCEPT !.data = v, !.dirty = 1] \in Buffer BY ZenonT(30) DEF Buffer
    <3>3. QED BY <1>3, <3>1, <3>2, Zenon DEF BioTypeOK
  <2>2. QED BY <1>3, <2>1, Zenon DEF BioTypeOK, BGoto, Locked
<1>8. CacheInv'
  <2>1. \A c \in Buf : buf'[c].blockno = buf[c].blockno /\ buf'[c].refcnt = buf[c].refcnt
    BY <1>2, <1>4, Zenon
  <2>2. \A c : Users(c)' = Users(c) BY <1>3, <1>5, Zenon DEF Users
  <2>3. \A c \in Buf : buf'[c].refcnt = Cardinality(Users(c)') BY <2>1, <2>2, Zenon DEF CacheInv
  <2>4. QED BY <1>3, <1>5, <2>1, <2>3 DEF CacheInv, BioTypeOK
<1>9. \A q \in BProc : bp[q] = b /\ bpc[q] \in Locked => q = p BY <1>1, SMTT(30) DEF HolderInv, Locked
<1>10. HolderInv'
  <2>1. \A q \in BProc : bpc'[q] \in Locked => locker'[bp'[q]] = q
    BY <1>3, <1>5, Zenon DEF HolderInv, Locked
  <2>2. \A c \in Buf : locker'[c] # NoOne => bpc'[locker'[c]] \in Locked /\ bp'[locker'[c]] = c
    <3>1. SUFFICES ASSUME NEW c \in Buf, locker[c] # NoOne
                   PROVE  bpc'[locker[c]] \in Locked /\ bp[locker[c]] = c
      BY <1>3, Zenon
    <3>2. PICK q \in BProc : q = locker[c] BY <3>1, Zenon DEF BioTypeOK
    <3>3. bpc[q] \in Locked /\ bp[q] = c BY <3>1, <3>2, Zenon DEF HolderInv
    <3>4. QED BY <1>5, <3>2, <3>3, Zenon DEF Locked
  <2>3. ASSUME NEW q \in BProc
        PROVE  /\ bpc'[q] = "iderw" => buf'[bp'[q]].valid = 0
               /\ bpc'[q] \in Valid => buf'[bp'[q]].valid = 1
               /\ bpc'[q] = "bwrite" => buf'[bp'[q]].dirty = 1
               /\ bpc'[q] = "written" => buf'[bp'[q]].dirty = 0
    <3>1. CASE q = p BY <1>1, <1>3, <1>4, <1>5, <1>6, <3>1, Zenon
    <3>2. CASE q # p
      <4>1. bpc[q] \in Locked => bp[q] # b BY <1>9, <3>2, Zenon
      <4>2. QED BY <1>3, <1>4, <1>5, <3>2, <4>1 DEF HolderInv, BioTypeOK, Locked, Valid
    <3>3. QED BY <3>1, <3>2, Zenon
  <2>4. QED BY <2>1, <2>2, <2>3, Zenon DEF HolderInv
<1>11. QueueInv'
  <2>1. \A q \in BProc : bpc[q] \in {"sleep", "wsleep"} => q # p /\ bp[q] # b /\ bp[q] \in Buf
    BY <1>9, Zenon DEF Locked, BioTypeOK
  <2>2. QED BY <1>3, <1>4, <1>5, <2>1, QueueKept, Zenon
<1>12. DataInv'
  <2>1. \A c \in Buf : c # b => buf[c].blockno # n BY <1>2, Zenon DEF CacheInv, NoBlock
  <2>2. last'[n] = v /\ \A m \in Block : m # n => last'[m] = last[m] BY <1>3, Zenon DEF BioTypeOK
  <2>3. \A c \in Buf : buf'[c].valid = 1 =>
            buf'[c].blockno \in Block /\ buf'[c].data = last'[buf'[c].blockno]
    <3>1. SUFFICES ASSUME NEW c \in Buf, buf'[c].valid = 1
                   PROVE  buf'[c].blockno \in Block /\ buf'[c].data = last'[buf'[c].blockno]
      BY Zenon
    <3>2. CASE c = b BY <1>4, <2>2, <3>2, Zenon
    <3>3. CASE c # b
      <4>1. buf'[c] = buf[c] /\ buf[c].blockno # n BY <1>4, <2>1, <3>3, Zenon
      <4>2. PICK m \in Block : m = buf[c].blockno BY <3>1, <4>1, ZenonT(30) DEF DataInv
      <4>3. buf[c].data = last[m] BY <3>1, <4>1, <4>2, Zenon DEF DataInv
      <4>4. QED BY <2>2, <4>1, <4>2, <4>3, Zenon
    <3>4. QED BY <3>2, <3>3, Zenon
  <2>4. ASSUME NEW m \in Block
        PROVE  disk[m] = last'[m] \/ \E c \in Buf : buf'[c].blockno = m /\ buf'[c].dirty = 1
    <3>1. CASE m = n BY <1>4, <3>1, Zenon
    <3>2. CASE m # n
      <4>1. \A c \in Buf : buf[c].blockno = m => c # b BY <1>2, <3>2, Zenon
      <4>2. last'[m] = last[m] BY <2>2, <3>2, Zenon
      <4>3. disk[m] = last[m] \/ \E c \in Buf : buf[c].blockno = m /\ buf[c].dirty = 1 BY Zenon DEF DataInv
      <4>4. ASSUME NEW c \in Buf, buf[c].blockno = m, buf[c].dirty = 1
            PROVE  buf'[c].blockno = m /\ buf'[c].dirty = 1
        BY <1>4, <4>1, <4>4, Zenon
      <4>5. QED BY <4>2, <4>3, <4>4, Zenon
    <3>3. QED BY <3>1, <3>2, Zenon
  <2>5. \A c \in Buf : buf'[c].dirty = 1 => buf'[c].valid = 1 BY <1>4, <1>6 DEF DataInv
  <2>6. UNCHANGED disk BY <1>3, Zenon
  <2>7. QED BY <2>3, <2>4, <2>5, <2>6, Zenon DEF DataInv
<1>13. QED BY <1>7, <1>8, <1>10, <1>11, <1>12, Zenon

LEMMA BwriteInv ==
    ASSUME BioInv, NEW p \in BProc, NEW v \in Data, bwrite(p, v)
    PROVE  BioInv'
<1>1. bpc[p] = "hold" /\ Put(p, v) /\ BGoto(p, "bwrite") BY Zenon DEF bwrite, BAt
<1>2. PICK b \in Buf : b = bp[p] BY Zenon DEF BioInv, BioTypeOK
<1>3. \A c \in Buf : c # b => buf'[c] = buf[c]
  BY <1>1, <1>2, Zenon DEF Put, BioInv, BioTypeOK
<1>4. bp' = bp /\ bpc'[p] = "bwrite" /\ \A q \in BProc : q # p => bpc'[q] = bpc[q]
  BY <1>1, Zenon DEF Put, BGoto, BioInv, BioTypeOK
<1>5. Pinned' \subseteq Pinned BY <1>1, <1>2, <1>3, <1>4, Zenon DEF Pinned
<1>6. QED BY <1>1, <1>5, PinKept, PutInv, Zenon

LEMMA LogWriteInv ==
    ASSUME BioInv, NEW p \in BProc, NEW v \in Data, log_write(p, v)
    PROVE  BioInv'
<1> DEFINE D == {b \in Buf : buf[b].dirty = 1} \cup {bp[p]}
           P == Pinned'
<1>1. bpc[p] = "hold" /\ Put(p, v) /\ BGoto(p, "brelse") /\ Cardinality(D) <= MAXPIN
  BY Zenon DEF log_write, BAt
<1>2. PICK b \in Buf : b = bp[p] BY Zenon DEF BioInv, BioTypeOK
<1>3. \A c \in Buf : c # b => buf'[c] = buf[c] BY <1>1, <1>2, Zenon DEF Put, BioInv, BioTypeOK
<1>4. P \in SUBSET D /\ D \in SUBSET Buf BY <1>2, <1>3, Zenon DEF Pinned
<1> HIDE DEF D, P
<1>5. IsFiniteSet(D) BY <1>4, BufFinite, FS_Subset, Zenon
<1>6. IsFiniteSet(P) /\ Cardinality(P) <= Cardinality(D) BY <1>4, <1>5, FS_Subset, Zenon
<1>7. Cardinality(P) \in Nat BY <1>6, FS_CardinalityType, Zenon
<1>8. Cardinality(D) \in Nat BY <1>5, FS_CardinalityType, Zenon
<1>9. PinInv' BY <1>1, <1>6, <1>7, <1>8, BioAssumption DEF PinInv, P
<1>10. QED BY <1>1, <1>9, PutInv, Zenon

\* The list still has every buffer.
LEMMA ToFrontFacts ==
    ASSUME BioTypeOK, CacheInv, NEW b \in Buf
    PROVE  ToFront(b) \in [Buf -> Buf] /\ \A c \in Buf : \E i \in Buf : ToFront(b)[i] = c
<1> USE BioAssumption DEF Buf, BioTypeOK
<1> DEFINE k == CHOOSE i \in Buf : mru[i] = b
           f == [i \in Buf |-> IF i = 1 THEN b ELSE IF i <= k THEN mru[i - 1] ELSE mru[i]]
<1>1. \E i \in Buf : mru[i] = b BY Zenon DEF CacheInv
<1>2. k \in Buf /\ mru[k] = b BY <1>1, Zenon
<1>3. ToFront(b) = f BY Zenon DEF ToFront
<1> HIDE DEF k
<1>4. f \in [Buf -> Buf]
  <2>1. \A i \in Buf : i # 1 => i - 1 \in Buf OBVIOUS
  <2>2. \A i \in Buf : mru[i] \in Buf BY Zenon
  <2>3. QED BY <2>1, <2>2, Zenon
<1>5. ASSUME NEW c \in Buf PROVE \E i \in Buf : f[i] = c
  <2>1. PICK j \in Buf : mru[j] = c BY Zenon DEF CacheInv
  <2>2. CASE c = b
    <3>1. f[1] = c /\ 1 \in Buf BY <2>2
    <3>2. QED BY <3>1, Zenon
  <2>3. CASE c # b /\ j < k
    <3>1. j + 1 \in Buf /\ j + 1 # 1 /\ j + 1 <= k /\ j + 1 - 1 = j BY <1>2, <2>3
    <3>2. f[j + 1] = c BY <2>1, <3>1
    <3>3. QED BY <3>1, <3>2, Zenon
  <2>4. CASE c # b /\ ~(j < k)
    <3>1. j # k BY <1>2, <2>1, <2>4, Zenon
    <3>2. j # 1 /\ ~(j <= k) BY <1>2, <2>4, <3>1
    <3>3. f[j] = c BY <2>1, <3>2, Zenon
    <3>4. QED BY <3>3, Zenon
  <2>5. QED BY <2>2, <2>3, <2>4, Zenon
<1>6. QED BY <1>3, <1>4, <1>5, Zenon

LEMMA BrelseInv ==
    ASSUME BioInv, NEW p \in BProc, brelse(p)
    PROVE  BioInv'
<1> USE BioAssumption DEF BioInv
<1>1. PICK b \in Buf : b = bp[p] BY Zenon DEF BioTypeOK
<1>2. /\ bpc[p] = "unref" /\ buf' = [buf EXCEPT ![b] = [@ EXCEPT !.refcnt = buf[b].refcnt - 1]]
      /\ mru' = IF buf[b].refcnt = 1 THEN ToFront(b) ELSE mru
      /\ BGoto(p, "idle") /\ bp' = [bp EXCEPT ![p] = 1]
      /\ UNCHANGED <<locker, idequeue, disk, last>>
  BY <1>1, Zenon DEF brelse, BAt
<1>3. /\ bpc'[p] = "idle" /\ bp'[p] = 1 /\ 1 \in Buf
      /\ \A q \in BProc : q # p => bpc'[q] = bpc[q] /\ bp'[q] = bp[q]
  BY <1>2 DEF BGoto, BioTypeOK, Buf
<1>4. /\ \A c \in Buf : /\ buf'[c].blockno = buf[c].blockno /\ buf'[c].valid = buf[c].valid
                        /\ buf'[c].dirty = buf[c].dirty /\ buf'[c].data = buf[c].data
      /\ \A c \in Buf : c # b => buf'[c].refcnt = buf[c].refcnt
      /\ buf'[b].refcnt = buf[b].refcnt - 1
  BY <1>2, SMTT(30) DEF BioTypeOK, Buffer
<1>5. \A c \in Buf : buf'[c].refcnt = Cardinality(Users(c)')
  <2>1. Users(b)' = Users(b) \ {p} BY <1>3, Zenon DEF Users
  <2>2. p \in Users(b) BY <1>1, <1>2, Zenon DEF Users
  <2>3. Cardinality(Users(b) \ {p}) = Cardinality(Users(b)) - 1 BY <2>2, UsersFinite, FS_RemoveElement, Zenon
  <2>4. \A c \in Buf : c # b => Users(c)' = Users(c) BY <1>1, <1>3, Zenon DEF Users
  <2>5. QED BY <1>4, <2>1, <2>3, <2>4, ZenonT(30) DEF CacheInv
<1>6. mru' \in [Buf -> Buf] /\ \A c \in Buf : \E i \in Buf : mru'[i] = c
  <2>1. CASE mru' = ToFront(b) BY <2>1, ToFrontFacts, Zenon
  <2>2. CASE mru' = mru BY <2>2, Zenon DEF BioTypeOK, CacheInv
  <2>3. QED BY <1>2, <2>1, <2>2, Zenon
<1>7. BioTypeOK'
  <2>1. buf[b].refcnt - 1 \in Nat
    <3>1. p \in Users(b) BY <1>1, <1>2, Zenon DEF Users
    <3>2. buf[b].refcnt # 0 BY <3>1, CountZero, Zenon
    <3>3. QED BY <3>2 DEF BioTypeOK, Buffer
  <2>2. PICK r \in Buffer : r = buf[b] BY Zenon DEF BioTypeOK
  <2>3. [r EXCEPT !.refcnt = r.refcnt - 1] \in Buffer BY <2>1, <2>2, Zenon DEF Buffer
  <2>4. buf' \in [Buf -> Buffer] BY <1>2, <2>2, <2>3, Zenon DEF BioTypeOK
  <2>5. QED BY <1>2, <1>3, <1>6, <2>4, Zenon DEF BioTypeOK, BGoto
<1>8. CacheInv'
  <2>1. ASSUME NEW c \in Buf, NEW d \in Buf, buf'[c].blockno = buf'[d].blockno, c # d
        PROVE  buf'[c].blockno = NoBlock
    <3>1. buf[c].blockno = buf[d].blockno BY <1>4, <2>1, Zenon
    <3>2. QED BY <1>4, <2>1, <3>1, ZenonT(30) DEF CacheInv
  <2>2. \A q \in BProc : bpc'[q] # "idle" => buf'[bp'[q]].blockno \in Block
    <3>1. SUFFICES ASSUME NEW q \in BProc, bpc'[q] # "idle" PROVE buf'[bp'[q]].blockno \in Block
      BY Zenon
    <3>2. bpc[q] # "idle" /\ bp'[q] = bp[q] /\ bp[q] \in Buf BY <1>3, <3>1, Zenon DEF BioTypeOK
    <3>3. QED BY <1>4, <3>2 DEF CacheInv
  <2>3. QED BY <1>5, <1>6, <2>1, <2>2, Zenon DEF CacheInv
<1>9. HolderInv'
  <2>1. \A c \in Buf : locker[c] # p BY <1>2, BioAssumption DEF HolderInv, Locked
  <2>2. QED BY <1>2, <1>3, <1>4, <2>1 DEF HolderInv, BioTypeOK, Locked, Valid
<1>10. QueueInv' BY <1>2, <1>3, <1>4, QueueKept, Zenon DEF BioTypeOK
<1>11. DataInv' BY <1>2, <1>4 DEF DataInv
<1>12. Pinned' \subseteq Pinned BY <1>2, <1>3, <1>4, Zenon DEF Pinned
<1>13. QED BY <1>7, <1>8, <1>9, <1>10, <1>11, <1>12, PinKept, Zenon

-----------------------------------------------------------------------------
(* The theorems *)

LEMMA NextInv == BioInv /\ [BioNext]_bioVars => BioInv'
<1> SUFFICES ASSUME BioInv, [BioNext]_bioVars PROVE BioInv'
  BY Zenon
<1>1. CASE ideintr BY <1>1, IntrInv, Zenon
<1>2. CASE \E p \in BProc : BioStep(p)
  <2>1. PICK p \in BProc : BioStep(p) BY <1>2, Zenon
  <2>2. CASE acquiresleep(p) BY <2>2, AcquireInv, Zenon
  <2>3. CASE iderw(p, "iderw", "sleep", "hold") BY <2>3, IderwInv, Zenon
  <2>4. CASE iderw(p, "bwrite", "wsleep", "written") BY <2>4, IderwInv, Zenon
  <2>5. CASE releasesleep(p) BY <2>5, ReleaseInv, Zenon
  <2>6. CASE brelse(p) BY <2>6, BrelseInv, Zenon
  <2>7. QED BY <2>1, <2>2, <2>3, <2>4, <2>5, <2>6, Zenon DEF BioStep
<1>3. CASE \E p \in BProc, n \in Block : bget(p, n) BY <1>3, BgetInv, Zenon
<1>4. CASE \E p \in BProc, v \in Data : bwrite(p, v) \/ log_write(p, v)
  BY <1>4, BwriteInv, LogWriteInv, Zenon
<1>5. CASE UNCHANGED bioVars
  BY <1>5, StutterInv, Zenon DEF bioVars
<1>6. QED BY <1>1, <1>2, <1>3, <1>4, <1>5, Zenon DEF BioNext

\* A buffer that is locked or queued has a process that uses it.
LEMMA InvStable == BioInv => BufferStable
<1> SUFFICES ASSUME BioInv PROVE BufferStable
  BY Zenon
<1> USE DEF BioInv
<1>1. \A b \in Buf : buf[b].refcnt = Cardinality({p \in BProc : bpc[p] # "idle" /\ bp[p] = b})
  BY Zenon DEF CacheInv, Users
<1>2. ASSUME NEW b \in Buf, NEW p \in BProc, bp[p] = b, bpc[p] # "idle" PROVE buf[b].refcnt > 0
  <2>1. Users(b) # {} BY <1>2, Zenon DEF Users
  <2>2. buf[b].refcnt # 0 BY <2>1, CountZero, Zenon
  <2>3. QED BY <2>2 DEF BioTypeOK, Buffer
<1>3. ASSUME NEW b \in Buf, locker[b] # NoOne PROVE buf[b].refcnt > 0
  <2>1. PICK p \in BProc : p = locker[b] BY <1>3, Zenon DEF BioTypeOK
  <2>2. bp[p] = b /\ bpc[p] # "idle" BY <1>3, <2>1, Zenon DEF HolderInv, Locked
  <2>3. QED BY <1>2, <2>2, Zenon
<1>4. ASSUME NEW b \in Buf, NEW i \in 1 .. Len(idequeue), idequeue[i] = b PROVE buf[b].refcnt > 0
  <2>1. PICK p \in BProc : bp[p] = b /\ bpc[p] \in {"sleep", "wsleep"} BY <1>4, Zenon DEF QueueInv
  <2>2. QED BY <1>2, <2>1, Zenon
<1>5. \A p \in BProc : bpc[p] # "panic" BY Zenon DEF BioTypeOK, Locked
<1>6. QED BY <1>1, <1>3, <1>4, <1>5, Zenon DEF BufferStable, CacheInv

\* A valid buffer has the last data; a block whose one buffer is clean has it on the disk.
LEMMA InvReads == BioInv => HolderReads
<1> SUFFICES ASSUME BioInv, NEW p \in BProc, Holds(p)
             PROVE  /\ locker[bp[p]] = p
                    /\ buf[bp[p]].valid = 1 /\ buf[bp[p]].data = last[buf[bp[p]].blockno]
                    /\ bpc[p] = "written" => disk[buf[bp[p]].blockno] = last[buf[bp[p]].blockno]
  BY Zenon DEF HolderReads
<1> USE DEF BioInv
<1>1. PICK b \in Buf : b = bp[p] BY Zenon DEF BioTypeOK
<1>2. locker[b] = p /\ buf[b].valid = 1 BY <1>1, Zenon DEF HolderInv, Holds, Locked, Valid
<1>3. PICK n \in Block : n = buf[b].blockno BY <1>2, Zenon DEF DataInv
<1>4. buf[b].data = last[n] BY <1>2, <1>3, Zenon DEF DataInv
<1>5. ASSUME bpc[p] = "written" PROVE disk[n] = last[n]
  <2>1. buf[b].dirty = 0 BY <1>1, <1>5, Zenon DEF HolderInv
  <2>2. \A c \in Buf : buf[c].blockno = n => c = b BY <1>3, BioAssumption, Zenon DEF CacheInv, NoBlock
  <2>3. QED BY <2>1, <2>2 DEF DataInv
<1>6. QED BY <1>1, <1>2, <1>3, <1>4, <1>5, Zenon

\* Whatever processes look up, wait for, write and release buffers, with the disk interrupt at
\* any moment: a block has one buffer, its count is the number of its users, nothing in use is
\* recycled, and bget() does not panic while the log leaves every process a buffer.
THEOREM CacheSafety == BioSpec => []BufferStable
<1>1. BioInit => BioInv BY InitInv, Zenon
<1>2. BioInv /\ [BioNext]_bioVars => BioInv' BY NextInv, Zenon
<1>3. BioInv => BufferStable BY InvStable, Zenon
<1>4. QED BY <1>1, <1>2, <1>3, PTL DEF BioSpec

\* The holder of a buffer is alone and reads what was last put in the block, even after it was
\* recycled and read again; what bwrite() has written is on the disk when it returns.
THEOREM ReadSafety == BioSpec => []HolderReads
<1>1. BioInit => BioInv BY InitInv, Zenon
<1>2. BioInv /\ [BioNext]_bioVars => BioInv' BY NextInv, Zenon
<1>3. BioInv => HolderReads BY InvReads, Zenon
<1>4. QED BY <1>1, <1>2, <1>3, PTL DEF BioSpec
=============================================================================
