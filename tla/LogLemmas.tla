----------------------------- MODULE LogLemmas ------------------------------
(***************************************************************************)
(* Proofs about the write-ahead log, for every number of processes, blocks *)
(* and contents: counting reservations, what recovery preserves, and the    *)
(* steps of a file-system call.                                             *)
(***************************************************************************)
EXTENDS LogInv, FiniteSetTheorems, SequenceTheorems, TLAPS

-----------------------------------------------------------------------------
(* Counting reservations.                                                   *)

\* A set of blocks is finite.
LEMMA BlocksFinite ==
  ASSUME NEW S \in SUBSET Block
  PROVE  IsFiniteSet(S) /\ Cardinality(S) \in Nat
BY FS_Subset, FS_CardinalityType, LogConstants, Zenon

\* So is a set of processes.
LEMMA ProcsFinite ==
  ASSUME NEW S \in SUBSET Proc
  PROVE  IsFiniteSet(S) /\ Cardinality(S) \in Nat
BY FS_Subset, FS_CardinalityType, LogConstants, Zenon

\* The calls in A hold at most MAXOPBLOCKS tokens each.
LEMMA TokensBound ==
  ASSUME NEW A \in SUBSET Proc, NEW W
  PROVE  /\ IsFiniteSet(Tokens(A, W))
         /\ Cardinality(Tokens(A, W)) \in Nat
         /\ Cardinality(Tokens(A, W)) =< Cardinality(A) * MAXOPBLOCKS
<1>1. IsFiniteSet(A)
  BY ProcsFinite, Zenon
<1>2. IsFiniteSet(1 .. MAXOPBLOCKS) /\ Cardinality(1 .. MAXOPBLOCKS) = MAXOPBLOCKS
  BY FS_Interval, LogConstants
<1>3. /\ IsFiniteSet(A \X (1 .. MAXOPBLOCKS))
      /\ Cardinality(A \X (1 .. MAXOPBLOCKS)) = Cardinality(A) * MAXOPBLOCKS
  BY <1>1, <1>2, FS_Product, Zenon
<1>4. Tokens(A, W) \in SUBSET (A \X (1 .. MAXOPBLOCKS))
  BY Zenon DEF Tokens
<1>. QED
  BY <1>3, <1>4, FS_Subset, FS_CardinalityType, Zenon

\* Fewer calls hold fewer tokens.
LEMMA TokensMonotonic ==
  ASSUME NEW A \in SUBSET Proc, NEW B \in SUBSET A, NEW W, NEW V,
         \A p \in B : W[p] = V[p]
  PROVE  Cardinality(Tokens(B, V)) =< Cardinality(Tokens(A, W))
<1>1. Tokens(B, V) \in SUBSET Tokens(A, W)
  BY Zenon DEF Tokens
<1>. QED
  BY <1>1, TokensBound, FS_Subset, Zenon

\* A call that may log k more blocks holds k tokens.
LEMMA TokensOfCall ==
  ASSUME NEW A \in SUBSET Proc, NEW p \in A, NEW W,
         Cardinality(W[p]) \in Nat
  PROVE  MAXOPBLOCKS - Cardinality(W[p]) =< Cardinality(Tokens(A, W))
<1>. DEFINE c == Cardinality(W[p])
            T == {p} \X (c + 1 .. MAXOPBLOCKS)
<1>0. c + 1 \in Int /\ MAXOPBLOCKS \in Int
  BY LogConstants
<1>1. T \in SUBSET Tokens(A, W)
  BY LogConstants DEF Tokens
<1>2. /\ IsFiniteSet(c + 1 .. MAXOPBLOCKS)
      /\ Cardinality(c + 1 .. MAXOPBLOCKS) =
            IF c + 1 > MAXOPBLOCKS THEN 0 ELSE MAXOPBLOCKS - (c + 1) + 1
  <2>. HIDE DEF c
  <2>. QED
    BY <1>0, FS_Interval, Zenon
<1>3. IsFiniteSet({p}) /\ Cardinality({p}) = 1
  BY FS_Singleton, Zenon
<1>4. Cardinality(T) = 1 * Cardinality(c + 1 .. MAXOPBLOCKS)
  BY <1>2, <1>3, FS_Product, Zenon
<1>5. Cardinality(T) =< Cardinality(Tokens(A, W)) /\ Cardinality(Tokens(A, W)) \in Nat
  BY <1>1, TokensBound, FS_Subset, Zenon
<1>. QED
  BY <1>2, <1>4, <1>5, LogConstants

\* Logging a new block spends one token.
LEMMA TokensSpent ==
  ASSUME NEW A \in SUBSET Proc, NEW p \in A, NEW W \in [Proc -> SUBSET Block],
         NEW b \in Block, b \notin W[p], Cardinality(W[p]) < MAXOPBLOCKS
  PROVE  Cardinality(Tokens(A, [W EXCEPT ![p] = @ \cup {b}])) + 1 =
            Cardinality(Tokens(A, W))
<1>. DEFINE c == Cardinality(W[p])
            V == [W EXCEPT ![p] = @ \cup {b}]
            t == <<p, c + 1>>
<1>1. c \in Nat /\ IsFiniteSet(W[p])
  BY BlocksFinite, Zenon
<1>2. Cardinality(W[p] \cup {b}) = c + 1
  BY <1>1, FS_AddElement, Zenon
<1>3. t \in Tokens(A, W)
  BY <1>1, LogConstants DEF Tokens
<1>4. V[p] = W[p] \cup {b} /\ \A q \in A : q # p => V[q] = W[q]
  BY Zenon
<1>5. Tokens(A, V) = Tokens(A, W) \ {t}
  <2>. HIDE DEF V, c
  <2>1. ASSUME NEW q \in A, NEW i \in 1 .. MAXOPBLOCKS
        PROVE  i > Cardinality(V[q]) <=> (i > Cardinality(W[q]) /\ <<q, i>> # t)
    <3>1. CASE q # p
      BY <1>4, <3>1, Zenon
    <3>2. CASE q = p
      <4>1. Cardinality(V[q]) = c + 1 /\ Cardinality(W[q]) = c
        BY <1>2, <1>4, <3>2, Zenon DEF c
      <4>. QED
        BY <1>1, <3>2, <4>1, LogConstants
    <3>. QED
      BY <3>1, <3>2, Zenon
  <2>2. ASSUME NEW x \in A \X (1 .. MAXOPBLOCKS)
        PROVE  x \in Tokens(A, V) <=> x \in Tokens(A, W) \ {t}
    BY <2>1 DEF Tokens
  <2>. QED
    BY <2>2, Zenon DEF Tokens
<1>6. IsFiniteSet(Tokens(A, W)) /\ Cardinality(Tokens(A, W)) \in Nat
  BY TokensBound, Zenon
<1>7. Cardinality(Tokens(A, V)) = Cardinality(Tokens(A, W)) - 1
  <2>. HIDE DEF V, t
  <2>1. Cardinality(Tokens(A, W) \ {t}) = Cardinality(Tokens(A, W)) - 1
    BY <1>3, <1>6, FS_RemoveElement, Zenon
  <2>. QED
    BY <1>5, <2>1, Zenon
<1>. QED
  BY <1>6, <1>7

\* The empty header.
LEMMA EmptyHeader ==
  /\ <<>> \in Seq(Block)
  /\ Len(<<>>) = 0
  /\ \A b \in Block : ~Logged(<<>>, b)
  /\ NoDup(<<>>)
<1>1. <<>> \in Seq(Block) /\ Len(<<>>) = 0
  BY EmptySeq, Zenon
<1>. QED
  BY <1>1 DEF Logged, NoDup

-----------------------------------------------------------------------------
(* Every action preserves the inductive invariant.                          *)

\* The invariant holds when the machine is first booted.
LEMMA InitIInv ==
  ASSUME Init PROVE IInv
<1>1. Active = {} /\ ~Installing
  BY Zenon DEF Init, Active, CallPC, Installing
<1>2. Cardinality({}) = 0
  BY FS_EmptySet, Zenon
<1>3. TypeOK
  BY EmptyHeader, Zenon DEF Init, TypeOK
<1>. USE <1>1, <1>2, <1>3, EmptyHeader DEF Init, TypeOK
<1>4. CtlInv
  BY DEF CtlInv, SleeperHasWaker, CallPC, CommitPC
<1>5. HeaderInv
  BY LogConstants DEF HeaderInv, LogFits
<1>6. WrittenInv
  BY LogConstants DEF WrittenInv
<1>7. RoomInv /\ HeadInv /\ DirtyInv /\ CopyInv
  BY Zenon DEF RoomInv, HeadInv, DirtyInv, CopyInv
<1>. QED
  BY <1>4, <1>5, <1>6, <1>7, Zenon DEF IInv

\* A power failure loses the memory and keeps a disk that the invariant
\* already constrains.
LEMMA CrashIInv ==
  ASSUME IInv, Crash PROVE IInv'
<1>1. Active' = {} /\ ~Installing'
  BY Zenon DEF Crash, Active, CallPC, Installing
<1>2. Cardinality({}) = 0
  BY FS_EmptySet, Zenon
<1>3. TypeOK'
  BY EmptyHeader, Zenon DEF IInv, Crash, TypeOK, diskVars
<1>. USE <1>1, <1>2, <1>3, EmptyHeader DEF Crash, TypeOK, diskVars
<1>4. CtlInv'
  BY DEF CtlInv, SleeperHasWaker, CallPC, CommitPC
<1>5. HeaderInv'
  BY LogConstants DEF IInv, HeaderInv, LogFits
<1>6. WrittenInv'
  BY LogConstants DEF WrittenInv
<1>7. RoomInv' /\ HeadInv' /\ DirtyInv' /\ CopyInv'
  BY Zenon DEF RoomInv, HeadInv, DirtyInv, CopyInv
<1>. QED
  BY <1>4, <1>5, <1>6, <1>7, Zenon DEF IInv

\* The block that install_trans() is about to copy.
LEMMA NextToInstall ==
  ASSUME TypeOK, HeaderInv, tail < Len(lh)
  PROVE  /\ tail + 1 \in 1 .. Len(lh)
         /\ tail + 1 \in LogSlot
         /\ lh[tail + 1] \in Block
         /\ logblk[tail + 1] \in Val
         /\ logblk[tail + 1] # NoBuf
BY LogConstants DEF TypeOK, HeaderInv, LogFits, LogSlot

\* One iteration of install_trans() keeps the types and the header, and the
\* blocks copied so far stay copied because no block is in the log twice.
LEMMA InstallOneFacts ==
  ASSUME TypeOK, HeaderInv, InstallOne,
         \A i \in 1 .. Len(lh) : i =< tail => disk[lh[i]] = logblk[i]
  PROVE  /\ disk' \in [Block -> Val]
         /\ cache' \in [Block -> Val \cup {NoBuf}]
         /\ dirty' \in SUBSET Block
         /\ tail' \in Nat /\ tail' =< Len(lh')
         /\ \A i \in 1 .. Len(lh') : i =< tail' => disk'[lh'[i]] = logblk'[i]
         /\ \A i \in 1 .. Len(lh') : i > tail' => cache'[lh'[i]] = cache[lh[i]]
<1>1. /\ tail + 1 \in 1 .. Len(lh) /\ lh[tail + 1] \in Block
      /\ logblk[tail + 1] \in Val
  BY NextToInstall, Zenon DEF InstallOne
<1>2. ASSUME NEW i \in 1 .. Len(lh), i # tail + 1
      PROVE  lh[i] \in Block /\ lh[i] # lh[tail + 1]
  BY <1>1, <1>2 DEF HeaderInv, NoDup, TypeOK
<1>3. ASSUME NEW i \in 1 .. Len(lh), i =< tail + 1
      PROVE  disk'[lh[i]] = logblk[i]
  <2>1. CASE i = tail + 1
    BY <1>1, <2>1, Zenon DEF InstallOne, TypeOK
  <2>2. CASE i # tail + 1
    BY <1>1, <1>2, <1>3, <2>2 DEF InstallOne, TypeOK
  <2>. QED
    BY <2>1, <2>2, Zenon
<1>4. ASSUME NEW i \in 1 .. Len(lh), i > tail + 1
      PROVE  cache'[lh[i]] = cache[lh[i]]
  BY <1>1, <1>2, <1>4 DEF InstallOne, TypeOK
<1>. QED
  BY <1>1, <1>3, <1>4 DEF InstallOne, TypeOK

\* Recovery's steps change no process.
LEMMA RecoverIInv ==
  ASSUME IInv, Recover PROVE IInv'
<1>. USE DEF IInv
<1>1. \A p \in Proc : pc[p] = "idle"
  BY Zenon DEF Recover, read_head, recover_install, recover_clear, CtlInv
<1>2. Active = {} /\ ~Installing
  BY <1>1, Zenon DEF Active, CallPC, Installing
<1>3. Active' = {} /\ ~Installing' /\ \A p \in Proc : pc'[p] = "idle"
  BY <1>1, <1>2, Zenon DEF Recover, read_head, recover_install, recover_clear,
     procVars, Active, Installing
<1>4. CASE read_head
  <2>. USE <1>4 DEF read_head, diskVars, procVars
  <2>1. TypeOK'
    BY Zenon DEF TypeOK
  <2>2. CtlInv'
    BY <1>2, <1>3, Zenon DEF CtlInv, SleeperHasWaker
  <2>. USE <2>1 DEF TypeOK
  <2>3. HeaderInv'
    BY DEF HeaderInv, LogFits
  <2>4. WrittenInv'
    BY <1>1, Zenon DEF WrittenInv, CallPC
  <2>5. RoomInv' /\ HeadInv'
    BY <1>3, Zenon DEF RoomInv, HeadInv
  <2>6. DirtyInv'
    BY <1>3, Zenon DEF DirtyInv
  <2>7. CopyInv'
    BY <1>3 DEF CopyInv
  <2>. QED
    BY <2>2, <2>3, <2>4, <2>5, <2>6, <2>7, Zenon
<1>5. CASE recover_install
  <2>. USE <1>5 DEF recover_install, procVars
  <2>0. InstallOne /\ \A i \in 1 .. Len(lh) : i =< tail => disk[lh[i]] = logblk[i]
    BY Zenon DEF CopyInv
  <2>1. TypeOK'
    BY <2>0, InstallOneFacts DEF TypeOK, InstallOne
  <2>2. CtlInv'
    BY <1>2, <1>3, Zenon DEF CtlInv, SleeperHasWaker
  <2>3. HeaderInv'
    BY <2>0, InstallOneFacts, Zenon DEF HeaderInv, LogFits, InstallOne
  <2>4. WrittenInv'
    BY Zenon DEF WrittenInv, InstallOne
  <2>5. RoomInv' /\ HeadInv'
    BY <1>3, Zenon DEF RoomInv, HeadInv, InstallOne
  <2>6. DirtyInv'
    <3>1. lh[tail + 1] \in Block
      BY NextToInstall, Zenon DEF InstallOne
    <3>2. \A p \in Proc : hold[p] = NoBlock
      BY <1>1, Zenon DEF CtlInv
    <3>3. dirty = {} /\ dirty' = {}
      BY Zenon DEF DirtyInv, InstallOne
    <3>4. \A b \in Block : cache[b] \in {NoBuf, disk[b]}
      BY <1>1, <3>3, Zenon DEF DirtyInv
    <3>5. \A b \in Block : cache'[b] \in {NoBuf, disk'[b]}
      BY <3>1, <3>4, Zenon DEF InstallOne, TypeOK
    <3>. QED
      BY <3>2, <3>3, <3>5, Zenon DEF DirtyInv
  <2>7. CopyInv'
    BY <1>3, <2>0, InstallOneFacts, Zenon DEF CopyInv
  <2>. QED
    BY <2>1, <2>2, <2>3, <2>4, <2>5, <2>6, <2>7, Zenon
<1>6. CASE recover_clear
  <2>. USE <1>6, EmptyHeader DEF recover_clear, ClearHead, procVars
  <2>1. TypeOK'
    BY Zenon DEF TypeOK
  <2>2. CtlInv'
    BY <1>2, <1>3, Zenon DEF CtlInv, SleeperHasWaker
  <2>. USE <2>1 DEF TypeOK
  <2>3. HeaderInv'
    BY LogConstants DEF HeaderInv, LogFits
  <2>4. WrittenInv'
    BY <1>1, Zenon DEF WrittenInv, CallPC
  <2>5. RoomInv' /\ HeadInv'
    <3>1. Cardinality(Reserved') \in Nat /\ Cardinality(Reserved') =< 0
      BY <1>3, TokensBound, FS_EmptySet, LogConstants DEF Reserved
    <3>. QED
      BY <1>3, <3>1, LogConstants DEF RoomInv, HeadInv
  <2>6. DirtyInv'
    BY <1>1, <1>3 DEF DirtyInv, CtlInv
  <2>7. CopyInv'
    BY <1>3, Zenon DEF CopyInv
  <2>. QED
    BY <2>2, <2>3, <2>4, <2>5, <2>6, <2>7, Zenon
<1>. QED
  BY <1>4, <1>5, <1>6, Zenon DEF Recover

-----------------------------------------------------------------------------
(* The steps of a file-system call.                                        *)

\* A process enters begin_op().
LEMMA CallIInv ==
  ASSUME IInv, NEW p \in Proc, Call(p) PROVE IInv'
<1>. USE DEF IInv, Call, At, Goto, diskVars, memVars
<1>1. TypeOK'
  BY Zenon DEF TypeOK
<1>. USE DEF TypeOK
<1>2. Active' = Active /\ (Installing' <=> Installing)
  BY Zenon DEF Active, CallPC, Installing
<1>3. CtlInv'
  BY <1>2 DEF CtlInv, SleeperHasWaker, CallPC, CommitPC
<1>4. HeaderInv' /\ WrittenInv'
  BY Zenon DEF HeaderInv, WrittenInv, LogFits, CallPC
<1>5. RoomInv' /\ HeadInv'
  BY <1>2, Zenon DEF RoomInv, HeadInv, Reserved
<1>6. DirtyInv'
  BY <1>2, Zenon DEF DirtyInv
<1>7. CopyInv'
  BY <1>2, Zenon DEF CopyInv
<1>. QED
  BY <1>1, <1>3, <1>4, <1>5, <1>6, <1>7, Zenon

\* begin_op() sleeps only if someone will wake it, and enters only if its
\* reservation fits.
LEMMA BeginOpIInv ==
  ASSUME IInv, NEW p \in Proc, begin_op(p) PROVE IInv'
<1>. USE DEF IInv, begin_op, At, Goto, diskVars
<1>1. boot = "up" /\ p \notin Active /\ hold[p] = NoBlock
  BY Zenon DEF CtlInv, Active, CallPC
<1>2. outstanding \in Nat /\ Len(lh) \in Nat /\ committing \in {0, 1}
  BY DEF TypeOK
<1>3. CASE committing = 1 \/ NoRoomForOp
  <2>. USE <1>3
  <2>1. TypeOK'
    BY SMTT(30) DEF TypeOK
  <2>. USE DEF TypeOK
  <2>2. Active' = Active /\ (Installing' <=> Installing)
    BY Zenon DEF Active, CallPC, Installing
  <2>3. SleeperHasWaker'
    <3>1. CASE committing = 1
      <4>1. PICK q \in Proc : pc[q] \in CommitPC
        BY <3>1, Zenon DEF CtlInv
      <4>. QED
        BY <4>1, Zenon DEF SleeperHasWaker, CommitPC
    <3>2. CASE committing # 1
      <4>1. Active # {}
        <5>. SUFFICES ASSUME Active = {} PROVE FALSE
          BY Zenon
        <5>1. lh = <<>> /\ outstanding = 0
          BY <1>1, <3>2, FS_EmptySet, Zenon DEF RoomInv, CtlInv
        <5>. QED
          BY <3>2, <5>1, EmptyHeader, LogConstants DEF NoRoomForOp
      <4>2. PICK q \in Proc : pc[q] \in CallPC
        BY <4>1, Zenon DEF Active
      <4>. QED
        BY <4>2, Zenon DEF SleeperHasWaker, CallPC
    <3>. QED
      BY <3>1, <3>2, Zenon
  <2>4. CtlInv'
    BY <2>2, <2>3 DEF CtlInv, CommitPC
  <2>5. HeaderInv' /\ WrittenInv'
    BY Zenon DEF HeaderInv, WrittenInv, LogFits, CallPC
  <2>6. RoomInv' /\ HeadInv'
    BY <2>2, Zenon DEF RoomInv, HeadInv, Reserved
  <2>7. DirtyInv' /\ CopyInv'
    BY <2>2 DEF DirtyInv, CopyInv
  <2>. QED
    BY <2>1, <2>4, <2>5, <2>6, <2>7, Zenon
<1>4. CASE ~(committing = 1 \/ NoRoomForOp)
  <2>. USE <1>4
  <2>1. TypeOK'
    BY DEF TypeOK, CallPC
  <2>. USE DEF TypeOK
  <2>2. Active' = Active \cup {p} /\ (Installing' <=> Installing)
    BY Zenon DEF Active, CallPC, Installing
  <2>3. Cardinality(Active') = outstanding + 1
    <3>1. IsFiniteSet(Active)
      BY ProcsFinite, Zenon DEF Active
    <3>. QED
      BY <1>1, <2>2, <3>1, FS_AddElement, Zenon DEF CtlInv
  <2>4. CtlInv'
    BY <1>2, <2>2, <2>3 DEF CtlInv, SleeperHasWaker, CommitPC, CallPC
  <2>5. HeaderInv' /\ WrittenInv'
    BY Zenon DEF HeaderInv, WrittenInv, LogFits, CallPC
  <2>6. RoomInv' /\ HeadInv'
    <3>1. Active' \in SUBSET Proc
      BY Zenon DEF Active
    <3>2. /\ Cardinality(Reserved') \in Nat
          /\ Cardinality(Reserved') =< (outstanding + 1) * MAXOPBLOCKS
      BY <2>3, <3>1, TokensBound, Zenon DEF Reserved
    <3>3. Len(lh) + Cardinality(Reserved') =< LOGSIZE
      <4>1. (outstanding + 1) * MAXOPBLOCKS \in Nat
        BY <1>2, LogConstants
      <4>. QED
        BY <1>2, <3>2, <4>1, LogConstants DEF NoRoomForOp
    <3>. QED
      BY <2>2, <3>3, Zenon DEF RoomInv, HeadInv
  <2>7. DirtyInv' /\ CopyInv'
    BY <2>2 DEF DirtyInv, CopyInv
  <2>. QED
    BY <2>1, <2>4, <2>5, <2>6, <2>7, Zenon
<1>. QED
  BY <1>3, <1>4, Zenon

\* bread() locks a buffer and loads it, clean, if it was not cached.
LEMMA BreadIInv ==
  ASSUME IInv, NEW p \in Proc, NEW b \in Block, bread(p, b) PROVE IInv'
<1>. USE DEF IInv, bread, At, Goto, diskVars, memVars
<1>1. TypeOK'
  BY Zenon DEF TypeOK, CallPC
<1>. USE DEF TypeOK
<1>2. Active' = Active /\ (Installing' <=> Installing)
  BY Zenon DEF Active, CallPC, Installing
<1>3. CtlInv'
  BY <1>2, LogConstants DEF CtlInv, SleeperHasWaker, CallPC, CommitPC
<1>4. HeaderInv' /\ WrittenInv'
  BY Zenon DEF HeaderInv, WrittenInv, LogFits, CallPC
<1>5. RoomInv' /\ HeadInv'
  BY <1>2, Zenon DEF RoomInv, HeadInv, Reserved
<1>6. ASSUME NEW c \in Block
      PROVE  cache'[c] = IF c = b /\ cache[b] = NoBuf THEN disk[b] ELSE cache[c]
  BY Zenon
<1>7. DirtyInv'
  BY <1>2, <1>6, LogConstants DEF DirtyInv
<1>8. CopyInv'
  <2>1. ~Installing /\ \A q \in Proc : pc[q] # "write_log" /\ pc'[q] # "write_log"
    BY Zenon DEF CtlInv, CommitPC, Active, CallPC, Installing
  <2>. QED
    BY <1>2, <2>1, Zenon DEF CopyInv
<1>. QED
  BY <1>1, <1>3, <1>4, <1>5, <1>7, <1>8, Zenon

\* brelse() of an unmodified buffer gives up its lock and nothing else.
LEMMA BrelseIInv ==
  ASSUME IInv, NEW p \in Proc, brelse(p) PROVE IInv'
<1>. USE DEF IInv, brelse, At, Goto, diskVars, memVars
<1>1. TypeOK'
  BY Zenon DEF TypeOK, CallPC
<1>. USE DEF TypeOK
<1>2. Active' = Active /\ (Installing' <=> Installing)
  BY Zenon DEF Active, CallPC, Installing
<1>3. CtlInv'
  BY <1>2, LogConstants DEF CtlInv, SleeperHasWaker, CallPC, CommitPC
<1>4. HeaderInv' /\ WrittenInv'
  BY Zenon DEF HeaderInv, WrittenInv, LogFits, CallPC
<1>5. RoomInv' /\ HeadInv'
  BY <1>2, Zenon DEF RoomInv, HeadInv, Reserved
<1>6. DirtyInv' /\ CopyInv'
  BY <1>2, Zenon DEF DirtyInv, CopyInv
<1>. QED
  BY <1>1, <1>3, <1>4, <1>5, <1>6, Zenon

\* While a call is in progress the log has room for one more block: this is
\* what begin_op() reserved.
LEMMA RoomForCall ==
  ASSUME IInv, EnoughSpace, NEW p \in Active
  PROVE  /\ Len(lh) < LOGSIZE /\ Len(lh) < NLOG - 1
         /\ outstanding >= 1
<1>. USE DEF IInv
<1>1. boot = "up" /\ p \in Proc
  BY Zenon DEF CtlInv, Active, CallPC
<1>2. Active \in SUBSET Proc /\ written[p] \in SUBSET Block
  BY <1>1, Zenon DEF Active, TypeOK
<1>3. Cardinality(written[p]) \in Nat
  BY <1>2, BlocksFinite, Zenon
<1>4. /\ MAXOPBLOCKS - Cardinality(written[p]) =< Cardinality(Reserved)
      /\ Cardinality(Reserved) \in Nat
  BY <1>2, <1>3, TokensOfCall, TokensBound, Zenon DEF Reserved
<1>5. /\ Len(lh) + Cardinality(Reserved) =< LOGSIZE
      /\ Cardinality(written[p]) =< OPBLOCKS
  BY <1>1, Zenon DEF RoomInv, WrittenInv
<1>6. Len(lh) \in Nat
  BY DEF TypeOK
<1>7. Len(lh) < LOGSIZE /\ Len(lh) < NLOG - 1
  BY <1>3, <1>4, <1>5, <1>6, LogConstants DEF EnoughSpace
<1>8. outstanding # 0 /\ outstanding \in Nat
  <2>1. IsFiniteSet(Active)
    BY <1>2, ProcsFinite, Zenon
  <2>2. Cardinality(Active) # 0
    BY <2>1, FS_EmptySet, Zenon
  <2>. QED
    BY <2>2, Zenon DEF CtlInv, TypeOK
<1>. QED
  BY <1>7, <1>8

\* log_write()'s unlocked checks pass, and the buffer it has changed is held.
LEMMA LogWriteCheckIInv ==
  ASSUME IInv, EnoughSpace, NEW p \in Proc, NEW v \in Val, log_write_check(p, v)
  PROVE  IInv'
<1>. USE DEF IInv, log_write_check, At, Goto, diskVars, memVars
<1>1. p \in Active /\ hold[p] \in Block
  BY Zenon DEF Active, CallPC, CtlInv, TypeOK
<1>2. panic' = "none"
  <2>1. ~TooBig /\ ~(outstanding < 1)
    <3>1. Len(lh) \in Nat /\ outstanding \in Nat
      BY DEF TypeOK
    <3>. QED
      BY <1>1, <3>1, RoomForCall, LogConstants DEF TooBig
  <2>. QED
    BY <2>1, Zenon
<1>3. TypeOK'
  BY <1>1, <1>2, Zenon DEF TypeOK, CallPC
<1>. USE DEF TypeOK
<1>4. Active' = Active /\ (Installing' <=> Installing)
  BY Zenon DEF Active, CallPC, Installing
<1>5. CtlInv'
  BY <1>2, <1>4 DEF CtlInv, SleeperHasWaker, CallPC, CommitPC
<1>6. HeaderInv' /\ WrittenInv'
  BY Zenon DEF HeaderInv, WrittenInv, LogFits, CallPC
<1>7. RoomInv' /\ HeadInv'
  BY <1>4, Zenon DEF RoomInv, HeadInv, Reserved
<1>8. ASSUME NEW c \in Block
      PROVE  cache'[c] = IF c = hold[p] THEN v ELSE cache[c]
  BY <1>1, Zenon
<1>9. DirtyInv'
  BY <1>1, <1>4, <1>8, LogConstants DEF DirtyInv
<1>10. CopyInv'
  <2>1. ~Installing /\ \A q \in Proc : pc[q] # "write_log" /\ pc'[q] # "write_log"
    BY <1>1, Zenon DEF CtlInv, CommitPC, Installing
  <2>. QED
    BY <1>4, <2>1, Zenon DEF CopyInv, CtlInv
<1>. QED
  BY <1>3, <1>5, <1>6, <1>7, <1>9, <1>10, Zenon

\* A call that has logged no more blocks than it writes has room left.
LEMMA RoomLeft ==
  ASSUME EnoughSpace, NEW n \in Nat, n =< OPBLOCKS
  PROVE  n < MAXOPBLOCKS
BY LogConstants DEF EnoughSpace

\* log_write() records a block that was promised room, or absorbs it.
LEMMA LogWriteIInv ==
  ASSUME IInv, EnoughSpace, NEW p \in Proc, log_write(p)
  PROVE  IInv'
<1>. USE DEF IInv, log_write, At, Goto, diskVars
<1>. DEFINE b == hold[p]
<1>1. p \in Active /\ b \in Block /\ boot = "up"
  BY Zenon DEF Active, CallPC, CtlInv, TypeOK
<1>2. Len(lh) < LOGSIZE /\ Len(lh) < NLOG - 1
  BY <1>1, RoomForCall, Zenon
<1>3. lh \in Seq(Block) /\ lh' \in Seq(Block)
  BY <1>1 DEF TypeOK
<1>4. TypeOK'
  BY <1>1, <1>3, Zenon DEF TypeOK, CallPC
<1>5. Active' = Active /\ (Installing' <=> Installing) /\ ~Installing
  BY <1>1, Zenon DEF Active, CallPC, Installing, CtlInv, CommitPC, TypeOK
<1>. /\ \A q \in Proc : pc[q] \notin CommitPC
     /\ \A q \in Proc : pc'[q] \notin CommitPC
  BY <1>1, Zenon DEF CtlInv, CommitPC, TypeOK
<1>6. /\ Len(lh') = IF Logged(lh, b) THEN Len(lh) ELSE Len(lh) + 1
      /\ \A i \in 1 .. Len(lh) : lh'[i] = lh[i]
      /\ ~Logged(lh, b) => lh'[Len(lh) + 1] = b
  BY <1>1, <1>3
<1>7. CtlInv'
  BY <1>5, Zenon DEF CtlInv, SleeperHasWaker, CallPC, CommitPC, TypeOK
<1>8. HeaderInv'
  <2>1. NoDup(lh')
    <3>1. CASE Logged(lh, b)
      BY <3>1, Zenon DEF HeaderInv
    <3>2. CASE ~Logged(lh, b)
      <4>. SUFFICES ASSUME NEW i \in 1 .. Len(lh'), NEW j \in 1 .. Len(lh'),
                           lh'[i] = lh'[j]
                    PROVE  i = j
        BY Zenon DEF NoDup
      <4>. QED
        BY <1>3, <1>6, <3>2 DEF HeaderInv, NoDup, Logged
    <3>. QED
      BY <3>1, <3>2, Zenon
  <2>2. /\ Len(lh) \in Nat /\ tail \in Nat /\ tail' = tail
        /\ Len(lh') =< Len(lh) + 1 /\ Len(lh) =< Len(lh')
    BY <1>3, <1>6 DEF TypeOK
  <2>3. LogFits' /\ tail' =< Len(lh')
    BY <1>2, <1>3, <2>2, LogConstants DEF HeaderInv, LogFits
  <2>. QED
    BY <2>1, <2>3, Zenon DEF HeaderInv
<1>9. \A c \in Block : Logged(lh', c) <=> Logged(lh, c) \/ c = b
  BY <1>1, <1>3, <1>6 DEF Logged
<1>10. WrittenInv'
  <2>. SUFFICES ASSUME NEW q \in Proc
                PROVE  /\ pc'[q] \notin CallPC => written'[q] = {}
                       /\ \A c \in written'[q] : Logged(lh', c)
                       /\ Cardinality(written'[q]) =< OPBLOCKS
                       /\ pc'[q] = "log" =>
                            Cardinality(written'[q] \cup {hold'[q]}) =< OPBLOCKS
    BY Zenon DEF WrittenInv
  <2>1. CASE q = p
    <3>1. pc'[q] = "op" /\ written'[q] = written[p] \cup {b}
      BY <2>1, Zenon DEF TypeOK
    <3>2. \A c \in written'[q] : Logged(lh', c)
      BY <1>1, <1>9, <3>1, Zenon DEF WrittenInv, TypeOK
    <3>3. Cardinality(written'[q]) =< OPBLOCKS
      BY <3>1, Zenon DEF WrittenInv
    <3>. QED
      BY <3>1, <3>2, <3>3, Zenon DEF CallPC
  <2>2. CASE q # p
    <3>1. pc'[q] = pc[q] /\ written'[q] = written[q] /\ hold'[q] = hold[q]
      BY <2>2, Zenon DEF TypeOK
    <3>2. \A c \in written'[q] : Logged(lh', c)
      BY <1>9, <3>1, Zenon DEF WrittenInv, TypeOK
    <3>. QED
      BY <3>1, <3>2, Zenon DEF WrittenInv
  <2>. QED
    BY <2>1, <2>2, Zenon
<1>11. RoomInv'
  <2>1. Active \in SUBSET Proc /\ written \in [Proc -> SUBSET Block]
    BY Zenon DEF Active, TypeOK
  <2>2. /\ Cardinality(Reserved) \in Nat /\ Cardinality(Reserved') \in Nat
        /\ Len(lh) + Cardinality(Reserved) =< LOGSIZE
    BY <1>1, <1>5, <2>1, TokensBound, Zenon DEF Reserved, RoomInv
  <2>3. written' = [written EXCEPT ![p] = @ \cup {b}]
    BY Zenon
  <2>4. CASE b \in written[p]
    <3>1. Logged(lh, b)
      BY <2>4, Zenon DEF WrittenInv
    <3>2. written' = written
      BY <2>1, <2>3, <2>4
    <3>. QED
      BY <1>1, <1>5, <2>2, <3>1, <3>2, Zenon DEF RoomInv, Reserved, CommitPC
  <2>5. CASE b \notin written[p]
    <3>1. Cardinality(written[p]) < MAXOPBLOCKS
      <4>1. /\ Cardinality(written[p]) \in Nat
            /\ Cardinality(written[p]) =< OPBLOCKS
        BY <2>1, BlocksFinite, Zenon DEF WrittenInv
      <4>. QED
        BY <4>1, RoomLeft, Zenon
    <3>2. Cardinality(Reserved') + 1 = Cardinality(Reserved)
      <4>. HIDE DEF b
      <4>1. Reserved' = Tokens(Active, [written EXCEPT ![p] = @ \cup {b}])
        BY <1>5, <2>3, Zenon DEF Reserved
      <4>2. Cardinality(Tokens(Active, [written EXCEPT ![p] = @ \cup {b}])) + 1 =
               Cardinality(Tokens(Active, written))
        BY <1>1, <2>1, <2>5, <3>1, TokensSpent, Zenon
      <4>. QED
        BY <4>1, <4>2, Zenon DEF Reserved
    <3>3. Len(lh) \in Nat /\ Len(lh') =< Len(lh) + 1 /\ Len(lh') \in Nat
      BY <1>3, <1>6
    <3>4. Len(lh') + Cardinality(Reserved') =< LOGSIZE
      BY <2>2, <3>2, <3>3, LogConstants
    <3>. QED
      BY <1>1, <1>5, <3>4, Zenon DEF RoomInv, CommitPC
  <2>. QED
    BY <2>4, <2>5, Zenon
<1>12. HeadInv'
  BY <1>1, <1>5, SMTT(30) DEF HeadInv
<1>13. DirtyInv'
  <2>1. ASSUME NEW c \in Block
        PROVE  c \in dirty' <=> \E i \in 1 .. Len(lh') : lh'[i] = c
    BY <1>1, <1>5, <1>9 DEF DirtyInv, Logged
  <2>2. \A c \in dirty' : cache'[c] # NoBuf
    BY <1>1, LogConstants, SMTT(30) DEF DirtyInv
  <2>3. \A q \in Proc : hold'[q] # NoBlock => cache'[hold'[q]] # NoBuf
    BY Zenon DEF DirtyInv, TypeOK
  <2>4. ASSUME NEW c \in Block, c \notin dirty'
        PROVE  \/ \E q \in Proc : pc'[q] = "log" /\ hold'[q] = c
               \/ cache'[c] \in {NoBuf, disk'[c]}
    BY <2>4, Zenon DEF DirtyInv, TypeOK
  <2>. QED
    BY <1>1, <1>5, <2>1, <2>2, <2>3, <2>4, SMTT(30) DEF DirtyInv
<1>14. CopyInv'
  BY <1>1, <1>5, Zenon DEF CopyInv, CommitPC
<1>. QED
  BY <1>4, <1>7, <1>8, <1>10, <1>11, <1>12, <1>13, <1>14, Zenon

\* end_op() gives its reservation back; the last one starts the commit, any
\* other leaves a call in progress and wakes the sleepers.
LEMMA EndOpIInv ==
  ASSUME IInv, NEW p \in Proc, end_op(p)
  PROVE  IInv'
<1>. USE DEF IInv, end_op, At, Goto, WakeupGoto, diskVars
<1>1. p \in Active /\ boot = "up" /\ hold[p] = NoBlock
  BY Zenon DEF Active, CallPC, CtlInv
<1>2. committing = 0 /\ panic' = "none"
  BY <1>1, SMTT(30) DEF CtlInv, TypeOK
<1>3. ~Installing /\ \A q \in Proc : pc[q] \notin CommitPC
  BY <1>2, Zenon DEF CtlInv, Installing, CommitPC
<1>4. Active' = Active \ {p} /\ ~Installing'
  BY <1>3 DEF Active, CallPC, Installing, TypeOK, CommitPC
<1>5. Active \in SUBSET Proc /\ IsFiniteSet(Active)
  BY ProcsFinite, Zenon DEF Active
<1>6. Cardinality(Active') = outstanding - 1 /\ outstanding - 1 \in Nat
  <2>1. Cardinality(Active \ {p}) = Cardinality(Active) - 1
    BY <1>1, <1>5, FS_RemoveElement, Zenon
  <2>2. IsFiniteSet(Active \ {p}) /\ Cardinality(Active \ {p}) \in Nat
    BY <1>5, ProcsFinite, Zenon
  <2>. QED
    BY <1>4, <2>1, <2>2, Zenon DEF CtlInv
<1>7. Active' = {} <=> outstanding - 1 = 0
  BY <1>4, <1>5, <1>6, ProcsFinite, FS_EmptySet, Zenon
<1>8. TypeOK'
  BY <1>2, <1>6 DEF TypeOK, CommitPC
<1>9. CtlInv'
  <2>1. CASE outstanding = 1
    <3>1. Active' = {} /\ committing' = 1 /\ pc'[p] = "write_log"
      BY <1>7, <2>1 DEF TypeOK
    <3>2. \A q \in Proc : pc'[q] \in CommitPC <=> q = p
      BY <1>3, <2>1, <3>1, Zenon DEF TypeOK, CommitPC
    <3>3. \A q \in Proc : hold'[q] # NoBlock <=> pc'[q] \in {"held", "log"}
      BY <1>1, <2>1, SMTT(30) DEF TypeOK, CtlInv
    <3>. QED
      BY <1>1, <1>2, <1>6, <3>1, <3>2, <3>3, ZenonT(60)
         DEF CtlInv, SleeperHasWaker
  <2>2. CASE outstanding # 1
    <3>1. Active' # {} /\ committing' = 0
      BY <1>2, <1>6, <1>7, <2>2 DEF TypeOK
    <3>2. \A q \in Proc : pc'[q] \notin CommitPC /\ pc'[q] # "asleep"
      BY <1>3, <2>2, Zenon DEF TypeOK, CommitPC
    <3>3. \A q \in Proc : hold'[q] # NoBlock <=> pc'[q] \in {"held", "log"}
      BY <1>1, <2>2, Zenon DEF TypeOK, CtlInv
    <3>. QED
      BY <1>1, <1>2, <1>6, <3>1, <3>2, <3>3, SMTT(30) DEF CtlInv, SleeperHasWaker
  <2>. QED
    BY <2>1, <2>2, Zenon
<1>10. HeaderInv'
  <2>1. Len(lh) \in Nat /\ tail' \in {tail, 0}
    BY DEF TypeOK
  <2>. QED
    BY <2>1 DEF HeaderInv, LogFits
<1>11. WrittenInv'
  <2>. SUFFICES ASSUME NEW q \in Proc
                PROVE  /\ pc'[q] \notin CallPC => written'[q] = {}
                       /\ \A c \in written'[q] : Logged(lh', c)
                       /\ Cardinality(written'[q]) =< OPBLOCKS
                       /\ pc'[q] = "log" =>
                            Cardinality(written'[q] \cup {hold'[q]}) =< OPBLOCKS
    BY Zenon DEF WrittenInv
  <2>1. CASE q = p
    BY <2>1, FS_EmptySet, LogConstants DEF TypeOK
  <2>2. CASE q # p
    <3>1. /\ written'[q] = written[q] /\ hold'[q] = hold[q]
          /\ pc'[q] = pc[q] \/ (pc[q] = "asleep" /\ pc'[q] = "begin")
      BY <2>2, Zenon DEF TypeOK
    <3>. QED
      BY <3>1, Zenon DEF WrittenInv, CallPC
  <2>. QED
    BY <2>1, <2>2, Zenon
<1>12. RoomInv'
  <2>1. \A q \in Active' : written[q] = written'[q]
    BY <1>4, <1>5, Zenon DEF TypeOK
  <2>2. /\ Cardinality(Reserved') =< Cardinality(Reserved)
        /\ Cardinality(Reserved) \in Nat /\ Cardinality(Reserved') \in Nat
    BY <1>4, <1>5, <2>1, TokensMonotonic, TokensBound, Zenon DEF Reserved
  <2>3. Len(lh') + Cardinality(Reserved') =< LOGSIZE
    <3>1. Len(lh) \in Nat
      BY DEF TypeOK
    <3>. QED
      BY <1>1, <2>2, <3>1, LogConstants DEF RoomInv
  <2>4. \A q \in Proc : pc'[q] # "finish"
    BY <1>3, Zenon DEF CommitPC, TypeOK
  <2>5. Active' = {} => committing' # 0
    BY <1>7, <1>8, SMTT(30) DEF TypeOK
  <2>. QED
    BY <1>1, <2>3, <2>4, <2>5, Zenon DEF RoomInv
<1>13. HeadInv'
  BY <1>1, <1>3, <1>4, SMTT(30) DEF HeadInv
<1>14. DirtyInv'
  BY <1>1, <1>3, <1>4, SMTT(30) DEF DirtyInv, TypeOK
<1>15. CopyInv'
  <2>1. \A q \in Proc : pc'[q] = "write_log" => tail' = 0
    BY <1>3, Zenon DEF CommitPC, TypeOK
  <2>. QED
    BY <1>1, <1>4, <1>8, <2>1 DEF CopyInv, TypeOK
<1>. QED
  BY <1>8, <1>9, <1>10, <1>11, <1>12, <1>13, <1>14, <1>15, SMTT(30)
=============================================================================
