-------------------------------- MODULE Malloc -------------------------------
(***************************************************************************)
(* The allocator of user/umalloc.c.  The heap is counted in units of a      *)
(* header; the free blocks form a circular list in the order of their       *)
(* addresses, entered at freep, with the empty block `base' at address 0.   *)
(* sbrk() hands out the next units, or fails.                               *)
(***************************************************************************)
EXTENDS Integers, FiniteSets, FiniteSetsExt

CONSTANTS MINUNITS,   \* units that morecore() asks for at least, 4096
          HEAP,       \* bound: units that sbrk() gives
          Units       \* sizes in units, header included, that malloc() is asked for

ASSUME MallocAssumption == MINUNITS > 0 /\ Units \subseteq Nat \ {0}

VARIABLES ptr, size,    \* s.ptr and s.size of every header in the heap
          freep,
          brk,          \* units that sbrk() has given
          mine          \* addresses of the blocks that the program holds

heapVars == <<ptr, size, freep, brk, mine>>

base == 0
Address == 0 .. HEAP
\* The state of the list as a value, which free() and malloc() map to another.
FreeList == [ptr |-> ptr, size |-> size, freep |-> freep]

MallocInit ==
    /\ ptr = [a \in Address |-> base] /\ size = [a \in Address |-> 0]
    /\ freep = base /\ brk = 0 /\ mine = {}

\* The k-th block from p.
RECURSIVE Nth(_, _, _)
Nth(l, p, k) == IF k = 0 THEN p ELSE Nth(l, l.ptr[p], k - 1)

\* The first block from p for which ok holds, looking at no block twice.
FirstBlock(l, p, ok(_)) ==
    LET ks == {k \in 0 .. HEAP : ok(Nth(l, p, k))}
    IN  Nth(l, p, Min(ks))

\* The new state.  What is left in memory of headers of no block is forgotten: no call reads
\* a header before it is written again.
Nodes(l) == {Nth(l, base, k) : k \in 0 .. HEAP}
Becomes(l, held) ==
    /\ ptr' = [a \in Address |-> IF a \in Nodes(l) THEN l.ptr[a] ELSE base]
    /\ size' = [a \in Address |-> IF a \in Nodes(l) \cup held THEN l.size[a] ELSE 0]
    /\ freep' = l.freep
    /\ mine' = held

\* Where free() puts bp: behind p, or at the ends of the list.
Behind(l, bp, p) == \/ bp > p /\ bp < l.ptr[p]
                    \/ p >= l.ptr[p] /\ (bp > p \/ bp < l.ptr[p])

\* free(): the block is joined with its neighbours when they touch.
Freed(l, bp) ==
    LET p == FirstBlock(l, l.freep, LAMBDA q : Behind(l, bp, q))
        next == l.ptr[p]
        up == bp + l.size[bp] = next
        l1 == [l EXCEPT !.size[bp] = IF up THEN @ + l.size[next] ELSE @,
                        !.ptr[bp] = IF up THEN l.ptr[next] ELSE next]
        down == p + l1.size[p] = bp
    IN  [l1 EXCEPT !.size[p] = IF down THEN @ + l1.size[bp] ELSE @,
                   !.ptr[p] = IF down THEN l1.ptr[bp] ELSE bp,
                   !.freep = p]

\* malloc() takes n units of block p: all of it, or its upper end.
\* Mutant: the block is cut one unit short.
Taken_Short(l, prevp, p, n) ==
    IF l.size[p] = n THEN [l EXCEPT !.ptr[prevp] = l.ptr[p], !.freep = prevp]
    ELSE [l EXCEPT !.size[p] = @ - n + 1, !.size[p + l.size[p] - n] = n, !.freep = prevp]

Taken(l, prevp, p, n) ==
    IF l.size[p] = n THEN [l EXCEPT !.ptr[prevp] = l.ptr[p], !.freep = prevp]
    ELSE [l EXCEPT !.size[p] = @ - n, !.size[p + l.size[p] - n] = n, !.freep = prevp]

Fits(l, n) == {k \in 1 .. HEAP + 1 : l.size[Nth(l, l.freep, k)] >= n}

\* The search of malloc(), which starts behind freep.
Allocate(l, n) ==
    LET k == Min(Fits(l, n))
        prevp == Nth(l, l.freep, k - 1)
        p == l.ptr[prevp]
    IN  Becomes(Taken(l, prevp, p, n), mine \cup {p + l.size[p] - n})

\* morecore(): the block after the last that sbrk() gave, at address brk + 1.
malloc(n) ==
    LET nu == IF n < MINUNITS THEN MINUNITS ELSE n
        grown == Freed([FreeList EXCEPT !.size[brk + 1] = nu], brk + 1)
    IN  \/ Fits(FreeList, n) # {} /\ Allocate(FreeList, n) /\ UNCHANGED brk
        \/ /\ Fits(FreeList, n) = {} /\ brk + nu <= HEAP
           /\ Allocate(grown, n)
           /\ brk' = brk + nu

free(a) == a \in mine /\ Becomes(Freed(FreeList, a), mine \ {a}) /\ UNCHANGED brk

MallocNext == (\E n \in Units : malloc(n)) \/ (\E a \in mine : free(a))

-----------------------------------------------------------------------------
(* Properties *)

OnList == Nodes(FreeList)
UnitsOf(a) == a .. a + size[a] - 1

\* Every unit of the heap belongs to exactly one block, free or the program's: blocks never
\* overlap and none is lost, in whatever order they are taken and given back (free, malloc).
\* Free neighbours are joined, so that the heap does not crumble (the two joins of free).
HeapPartition ==
    LET blocks == (OnList \ {base}) \cup mine
    IN  /\ OnList \cap mine = {}
        /\ UNION {UnitsOf(a) : a \in blocks} = 1 .. brk
        /\ \A a, b \in blocks : a # b => UnitsOf(a) \cap UnitsOf(b) = {}
        /\ freep \in OnList
        /\ \A a, b \in OnList \ {base} : a + size[a] # b

=============================================================================
