------------------------------ MODULE BlockMap -------------------------------
(***************************************************************************)
(* The blocks of files: the image that tools/mkfs.c builds, then bmap(),    *)
(* balloc(), bfree(), itrunc(), readi() and writei() of kernel/fs.c and     *)
(* filewrite() of kernel/file.c, which cuts a write into transactions.  A   *)
(* step is an iteration of writei(), made under the lock of the inode.      *)
(* The byte written at an offset of a file is a number of its own: it       *)
(* tells a byte in the wrong place, of a wrong file, or old.                *)
(***************************************************************************)
EXTENDS Integers, FiniteSets, FiniteSetsExt

CONSTANTS WProc,        \* processes
          Inum,         \* files
          NMETA,        \* blocks 0 .. NMETA - 1 hold no data; 0 stands for "no block"
          FSSIZE,
          BSIZE, NDIRECT, NINDIRECT,
          MAXOPBLOCKS,
          Counts,       \* sizes of writes
          MKBYTES       \* bound: bytes of a file in the image

ASSUME BlockAssumption == NMETA >= 3 /\ BSIZE > 0 /\ MAXOPBLOCKS >= 6

VARIABLES bitmap,   \* blocks marked as used
          inode,    \* per file: addrs (the last one is the indirect block) and size
          content,  \* per block: its bytes, or, of an indirect block, block numbers
          freeblock,\* mkfs: the next block to give
          phase,    \* "mkfs" or "kernel"
          holder,   \* per file: who holds the inode's lock
          w         \* per process: pc, file, offset, bytes left, of this transaction, blocks logged

blockVars == <<bitmap, inode, content, freeblock, phase, holder, w>>

Bno == 0 .. FSSIZE - 1
MAXFILE == NDIRECT + NINDIRECT
Byte(i, off) == FSSIZE + i * MAXFILE * BSIZE + off
BitmapBlock == 1
InodeBlock == 2
\* One array per block serves for bytes and for block numbers.
Width == IF BSIZE > NINDIRECT THEN BSIZE ELSE NINDIRECT
Zeroes == [k \in 0 .. Width - 1 |-> 0]
\* What a freed block holds: old data, that may look like block numbers.
Old == [k \in 0 .. Width - 1 |-> NMETA]
NewFile == [addrs |-> [b \in 0 .. NDIRECT |-> 0], size |-> 0]
NoWork == [pc |-> "user", i |-> 0, off |-> 0, left |-> 0, n1 |-> 0, logged |-> {}]
Nobody == 0

BlockInit ==
    /\ bitmap = {} /\ inode = [i \in Inum |-> NewFile] /\ content = [b \in Bno |-> Zeroes]
    /\ freeblock = NMETA /\ phase = "mkfs"
    /\ holder = [i \in Inum |-> Nobody] /\ w = [p \in WProc |-> NoWork]

\* A disk as balloc(), bmap() and iappend() change it: m has fields addrs, content, used
\* (the bitmap), logged and ok.  Give marks, clears and logs block b.
\* Mutant: the block is not marked.
Give_Unmarked(m, b) == [m EXCEPT !.content[b] = Zeroes, !.logged = @ \cup {BitmapBlock, b}]

Give(m, b) == [m EXCEPT !.used = @ \cup {b}, !.content[b] = Zeroes, !.logged = @ \cup {BitmapBlock, b}]

\* balloc(): the first free block, zeroed; there may be none.
balloc(m) == Min(Bno \ m.used)
Full(m) == Bno \subseteq m.used

\* bmap(bn): the block, made if need be, and the indirect block before it.
Direct(m, bn) ==
    IF m.addrs[bn] # 0 THEN m
    ELSE IF Full(m) THEN [m EXCEPT !.ok = FALSE]
    ELSE [Give(m, balloc(m)) EXCEPT !.addrs[bn] = balloc(m)]

Indirect(m, k) ==
    LET ind == m.addrs[NDIRECT]
        b == balloc(m)
    IN  IF ~m.ok \/ m.content[ind][k] # 0 THEN m
        ELSE IF Full(m) THEN [m EXCEPT !.ok = FALSE]
        ELSE [Give(m, b) EXCEPT !.content[ind][k] = b, !.logged = @ \cup {ind}]

bmap(m, bn) == IF bn < NDIRECT THEN Direct(m, bn) ELSE Indirect(Direct(m, NDIRECT), bn - NDIRECT)

\* The block that bmap() returns, or 0.
Addr(addrs, c, bn) ==
    IF bn < NDIRECT THEN addrs[bn] ELSE IF addrs[NDIRECT] = 0 THEN 0 ELSE c[addrs[NDIRECT]][bn - NDIRECT]

\* Bytes off .. off + n - 1 of file i, all in one block, are stored.
Store(c, b, i, off, n) ==
    LET a == off % BSIZE
    IN  [c EXCEPT ![b] = [k \in 0 .. Width - 1 |-> IF k \in a .. a + n - 1 THEN Byte(i, off - a + k) ELSE @[k]]]

-----------------------------------------------------------------------------
(* mkfs.c *)

\* One iteration of iappend(): as bmap(), with freeblock for the allocator.
iappend(i, n) ==
    LET off == inode[i].size
        m == [addrs |-> inode[i].addrs, content |-> content, used |-> 0 .. freeblock - 1, logged |-> {}, ok |-> TRUE]
        r == bmap(m, off \div BSIZE)
        n1 == Min({n, BSIZE - (off % BSIZE)})
    IN  /\ phase = "mkfs" /\ off + n1 <= MKBYTES
        /\ content' = Store(r.content, Addr(r.addrs, r.content, off \div BSIZE), i, off, n1)
        /\ inode' = [inode EXCEPT ![i] = [addrs |-> r.addrs, size |-> off + n1]]
        /\ freeblock' = Cardinality(r.used)
        /\ UNCHANGED <<bitmap, phase, holder, w>>

\* mkfs's balloc(): the bitmap of the blocks that were given; the disk is ready.
\* Mutant: the metadata blocks are left out.
mkfs_balloc_Meta ==
    /\ phase = "mkfs"
    /\ bitmap' = NMETA .. freeblock - 1
    /\ phase' = "kernel"
    /\ UNCHANGED <<inode, content, freeblock, holder, w>>

mkfs_balloc ==
    /\ phase = "mkfs"
    /\ bitmap' = 0 .. freeblock - 1
    /\ phase' = "kernel"
    /\ UNCHANGED <<inode, content, freeblock, holder, w>>

-----------------------------------------------------------------------------
(* The kernel *)

WAt(p, l) == phase = "kernel" /\ w[p].pc = l /\ UNCHANGED <<phase, freeblock>>
Work(p, x) == w' = [w EXCEPT ![p] = x]

\* filewrite(): bytes of one transaction.
\* Mutant: the slop for writes that are not aligned is forgotten, and the allocation blocks.
maxbytes_NoSlop == (MAXOPBLOCKS - 1 - 1) * BSIZE

maxbytes == ((MAXOPBLOCKS - 1 - 1 - 2) \div 2) * BSIZE

filewrite(p, i, off, n) ==
    /\ WAt(p, "user") /\ off <= inode[i].size
    /\ Work(p, [NoWork EXCEPT !.pc = "chunk", !.i = i, !.off = off, !.left = n])
    /\ UNCHANGED <<bitmap, inode, content, holder>>

\* The loop: a transaction, the inode's lock, and the tests of writei(), which may fail.
writei_start(p) ==
    LET x == w[p]
        n1 == Min({x.left, maxbytes})
    IN  /\ WAt(p, "chunk") /\ holder[x.i] = Nobody
        /\ IF x.off > inode[x.i].size \/ x.off + n1 > MAXFILE * BSIZE
           THEN Work(p, NoWork) /\ UNCHANGED holder
           ELSE /\ Work(p, [x EXCEPT !.pc = "writei", !.n1 = n1, !.left = @ - n1])
                /\ holder' = [holder EXCEPT ![x.i] = p]
        /\ UNCHANGED <<bitmap, inode, content>>

\* One iteration of writei().
writei(p) ==
    LET x == w[p]
        m == [addrs |-> inode[x.i].addrs, content |-> content, used |-> bitmap, logged |-> x.logged, ok |-> TRUE]
        r == bmap(m, x.off \div BSIZE)
        b == Addr(r.addrs, r.content, x.off \div BSIZE)
        n == Min({x.n1, BSIZE - (x.off % BSIZE)})
    IN  /\ WAt(p, "writei") /\ x.n1 > 0
        /\ IF ~r.ok THEN Work(p, [x EXCEPT !.pc = "panic"]) /\ UNCHANGED <<bitmap, inode, content>>
           ELSE /\ bitmap' = r.used
                /\ inode' = [inode EXCEPT ![x.i].addrs = r.addrs]
                /\ content' = Store(r.content, b, x.i, x.off, n)
                /\ Work(p, [x EXCEPT !.off = @ + n, !.n1 = @ - n, !.logged = r.logged \cup {b}])
        /\ UNCHANGED holder

\* Its end: the size, iupdate(), and the end of the transaction.
iupdate(p) ==
    LET x == w[p]
        grows == x.off > inode[x.i].size
    IN  /\ WAt(p, "writei") /\ x.n1 = 0
        /\ inode' = IF grows THEN [inode EXCEPT ![x.i].size = x.off] ELSE inode
        /\ holder' = [holder EXCEPT ![x.i] = Nobody]
        /\ Work(p, IF x.left = 0 THEN NoWork ELSE [x EXCEPT !.pc = "chunk", !.logged = {}])
        /\ UNCHANGED <<bitmap, content>>

\* itrunc(), when the last name and reference of a file are gone: bfree() of its blocks.
itrunc(p, i) ==
    LET ind == inode[i].addrs[NDIRECT]
        direct == {inode[i].addrs[b] : b \in 0 .. NDIRECT - 1} \ {0}
        far == IF ind = 0 THEN {} ELSE ({content[ind][k] : k \in 0 .. NINDIRECT - 1} \ {0}) \cup {ind}
    IN  /\ WAt(p, "user") /\ holder[i] = Nobody /\ \A q \in WProc : w[q].i # i
        /\ inode[i] # NewFile
        /\ IF direct \cup far \subseteq bitmap
           THEN /\ bitmap' = bitmap \ (direct \cup far)
                /\ content' = [b \in Bno |-> IF b \in direct \cup far THEN Old ELSE content[b]]
                /\ inode' = [inode EXCEPT ![i] = NewFile]
                /\ UNCHANGED w
           ELSE Work(p, [NoWork EXCEPT !.pc = "freeing free block"]) /\ UNCHANGED <<bitmap, inode, content>>
        /\ UNCHANGED holder

\* panic() loops for ever.
panic(p) == w[p].pc \in {"panic", "freeing free block"} /\ UNCHANGED blockVars

BlockNext ==
    \/ mkfs_balloc
    \/ \E i \in Inum, n \in Counts : iappend(i, n)
    \/ \E p \in WProc : writei_start(p) \/ writei(p) \/ iupdate(p) \/ panic(p)
    \/ \E p \in WProc, i \in Inum : itrunc(p, i)
    \/ \E p \in WProc, i \in Inum, off \in 0 .. MAXFILE * BSIZE, n \in Counts : filewrite(p, i, off, n)

-----------------------------------------------------------------------------
(* Properties *)

\* readi(): the bytes that a reader gets.
readi(i) == [o \in 0 .. inode[i].size - 1 |->
                content[Addr(inode[i].addrs, content, o \div BSIZE)][o % BSIZE]]

Mapped(i) == {bn \in 0 .. MAXFILE - 1 : Addr(inode[i].addrs, content, bn) # 0}
BlocksOf(i) == {Addr(inode[i].addrs, content, bn) : bn \in Mapped(i)} \cup ({inode[i].addrs[NDIRECT]} \ {0})

\* The bitmap is exact, in the image that mkfs leaves and after any writes and deletions:
\* a block is marked if and only if it is metadata or a block of one file, at one place.
BitmapExact ==
    phase = "kernel" =>
        /\ bitmap = (0 .. NMETA - 1) \cup UNION {BlocksOf(i) : i \in Inum}
        /\ \A i, j \in Inum : i # j => BlocksOf(i) \cap BlocksOf(j) = {}
        /\ \A i \in Inum : /\ BlocksOf(i) \cap (0 .. NMETA - 1) = {}
                           /\ Cardinality(BlocksOf(i)) = Cardinality(Mapped(i)) + (IF inode[i].addrs[NDIRECT] = 0 THEN 0 ELSE 1)
    
\* A file reads back as it was written, up to its size, though its blocks were another
\* file's before and other files grow and are deleted at the same time.
ReadsBack ==
    \A i \in Inum : \A o \in DOMAIN readi(i) : readi(i)[o] = Byte(i, o)

\* A transaction of filewrite() fits: its data blocks, the blocks it clears, the indirect
\* block, the bitmap and the inode are at most MAXOPBLOCKS (the formula of file.c:132).
FitsLog == \A p \in WProc : Cardinality(w[p].logged \cup {InodeBlock}) <= MAXOPBLOCKS
=============================================================================
