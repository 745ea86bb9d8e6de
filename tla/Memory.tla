------------------------------- MODULE Memory --------------------------------
(***************************************************************************)
(* Physical pages (kernel/kalloc.c), page tables (kernel/vm.c) and what     *)
(* fork(), exec(), sbrk(), exit() and wait() do with them, one page at a    *)
(* time, while other processes allocate and free.  Memory may run out at    *)
(* every kalloc().  Addresses are small unsigned numbers, modulo UINT.      *)
(***************************************************************************)
EXTENDS Integers, FiniteSets, FiniteSetsExt

CONSTANTS MProc,     \* slots of the process table
          NPAGES,    \* physical pages 1 .. NPAGES
          PGSIZE,    \* bytes of a page
          NPTE,      \* pages that one page table maps
          NKTAB,     \* page tables of the kernel's part, made by setupkvm()
          KERNBASE,  \* first address that is not the user's
          UINT,      \* 2^32: addresses are unsigned; 2^31 is KERNBASE
          Grows,     \* arguments of sbrk()
          Images,    \* sizes of the programs that exec() loads
          ArgBytes   \* bytes that their arguments take on the stack

ASSUME MemoryAssumption ==
    /\ PGSIZE > 0 /\ NPTE > 0 /\ KERNBASE % (PGSIZE * NPTE) = 0 /\ UINT = 2 * KERNBASE

VARIABLES free,    \* kmem.freelist
          pgdir,   \* page directory of each process
          psz,     \* proc->sz
          pstate,  \* "unused", "run" or "zombie"
          kstack,
          job      \* what each process does in the kernel

memVars == <<free, pgdir, psz, pstate, kstack, job>>

Page == 1 .. NPAGES
VPN == 0 .. KERNBASE \div PGSIZE - 1
PDX(v) == v \div NPTE
Tables == {PDX(v) : v \in VPN}
PGROUNDUP(a) == (a + PGSIZE - 1) \div PGSIZE

\* A page directory: its page, the kernel's page tables, the user's, their entries, and the
\* pages whose PTE_U is clear.
NoDir == [dir |-> 0, ktab |-> {}, tab |-> [t \in Tables |-> 0], pte |-> [v \in VPN |-> 0], guard |-> {}]
NoJob == [pc |-> "user", new |-> NoDir, at |-> 0, to |-> 0, child |-> 0]

PagesOf(d) == ({d.dir} \cup d.ktab \cup {d.tab[t] : t \in Tables} \cup {d.pte[v] : v \in VPN}) \ {0}

-----------------------------------------------------------------------------
(* vm.c: operators on the free pages f and a directory d *)

kalloc(f) == IF f = {} THEN 0 ELSE Min(f)

\* walkpgdir(..., 1): make the page table of page v if there is none.
walkpgdir(f, d, v) ==
    LET m == kalloc(f)
    IN  IF d.tab[PDX(v)] # 0 THEN [ok |-> TRUE, free |-> f, d |-> d]
        ELSE IF m = 0 THEN [ok |-> FALSE, free |-> f, d |-> d]
        ELSE [ok |-> TRUE, free |-> f \ {m}, d |-> [d EXCEPT !.tab[PDX(v)] = m]]

mappages(f, d, v, m) ==
    LET w == walkpgdir(f, d, v)
    IN  IF w.ok THEN [w EXCEPT !.d.pte[v] = m] ELSE w

deallocuvm(f, d, oldsz, newsz) ==
    LET gone == {v \in VPN : v >= PGROUNDUP(newsz) /\ v * PGSIZE < oldsz}
    IN  [free |-> f \cup ({d.pte[v] : v \in gone} \ {0}),
         d |-> [d EXCEPT !.pte = [v \in VPN |-> IF v \in gone THEN 0 ELSE @[v]], !.guard = @ \ gone]]

freevm(f, d) == f \cup PagesOf(d)

\* One iteration of the loops of allocuvm() and copyuvm(): a page for v, or ok = FALSE
\* with nothing taken but, possibly, the page table.
\* Mutant: the page is not given back when its page table cannot be made.
AddPage_Lost(f, d, v) ==
    LET m == kalloc(f)
    IN  IF m = 0 THEN [ok |-> FALSE, free |-> f, d |-> d] ELSE mappages(f \ {m}, d, v, m)

AddPage(f, d, v) ==
    LET m == kalloc(f)
        r == mappages(f \ {m}, d, v, m)
    IN  IF m = 0 THEN [ok |-> FALSE, free |-> f, d |-> d]
        ELSE IF r.ok THEN r ELSE [r EXCEPT !.free = @ \cup {m}]

-----------------------------------------------------------------------------
(* The system calls.  job[p].at is the next page, job[p].to the size to reach. *)

MAt(p, l) == pstate[p] = "run" /\ job[p].pc = l
Job(p, j) == job' = [job EXCEPT ![p] = j]

MemInit ==
    LET p == Min(MProc)
        ktab == 2 .. NKTAB + 1
    IN  /\ pgdir = [q \in MProc |-> IF q # p THEN NoDir
                       ELSE [NoDir EXCEPT !.dir = 1, !.ktab = ktab, !.tab[0] = NKTAB + 2, !.pte[0] = NKTAB + 3]]
        /\ kstack = [q \in MProc |-> IF q = p THEN NKTAB + 4 ELSE 0]
        /\ free = NKTAB + 5 .. NPAGES
        /\ psz = [q \in MProc |-> IF q = p THEN PGSIZE ELSE 0]      \* inituvm()
        /\ pstate = [q \in MProc |-> IF q = p THEN "run" ELSE "unused"]
        /\ job = [q \in MProc |-> NoJob]

\* A process in user mode.  One that has freed its own code (see sbrk) faults instead.
User(p) == MAt(p, "user") /\ pgdir[p].pte[0] # 0
init == Min(MProc)

\* growproc(n).  n < 0 and sz + n = 0 is taken for the error return of deallocuvm(): the
\* pages are gone and sz stays.  A size below zero is a large unsigned one, and ignored.
sbrk(p, n) ==
    LET sz == psz[p]
        newsz == (sz + n) % UINT
        r == deallocuvm(free, pgdir[p], sz, newsz)
    IN  /\ User(p) /\ p # init
        /\ \/ /\ n > 0 /\ newsz < KERNBASE
              /\ Job(p, [NoJob EXCEPT !.pc = "grow", !.at = PGROUNDUP(sz), !.to = newsz])
              /\ UNCHANGED <<free, pgdir, psz>>
           \/ /\ n < 0 /\ newsz < sz
              /\ free' = r.free /\ pgdir' = [pgdir EXCEPT ![p] = r.d]
              /\ psz' = IF newsz = 0 THEN psz ELSE [psz EXCEPT ![p] = newsz]
              /\ UNCHANGED job
        /\ UNCHANGED <<pstate, kstack>>

\* allocuvm() in growproc(); at its end growproc() stores the size.
grow(p) ==
    LET j == job[p]
        r == AddPage(free, pgdir[p], j.at)
        u == IF r.ok THEN r ELSE deallocuvm(r.free, r.d, j.to, psz[p])
    IN  /\ MAt(p, "grow")
        /\ IF j.at * PGSIZE >= j.to
           THEN /\ psz' = [psz EXCEPT ![p] = j.to]
                /\ Job(p, NoJob)
                /\ UNCHANGED <<free, pgdir>>
           ELSE /\ free' = u.free
                /\ pgdir' = [pgdir EXCEPT ![p] = u.d]
                /\ Job(p, IF r.ok THEN [j EXCEPT !.at = @ + 1] ELSE NoJob)
                /\ UNCHANGED psz
        /\ UNCHANGED <<pstate, kstack>>

\* fork(): allocproc() takes a slot, EMBRYO until the end, and its kernel stack.
fork(p, c) ==
    LET m == kalloc(free)
    IN  /\ User(p) /\ pstate[c] = "unused" /\ m # 0
        /\ free' = free \ {m}
        /\ kstack' = [kstack EXCEPT ![c] = m]
        /\ pstate' = [pstate EXCEPT ![c] = "embryo"]
        /\ Job(p, [NoJob EXCEPT !.pc = "setupkvm", !.child = c, !.to = psz[p]])
        /\ UNCHANGED <<pgdir, psz>>

\* exec() of a program of `size' bytes, up to setupkvm().
exec(p, size) ==
    /\ User(p)
    /\ Job(p, [NoJob EXCEPT !.pc = "setupkvm", !.to = size])
    /\ UNCHANGED <<free, pgdir, psz, pstate, kstack>>

\* The call of p gives up: freevm() of what it has built; fork() frees the slot too.
bad(p, f, d) ==
    LET c == job[p].child
    IN  /\ free' = freevm(f, d) \cup (IF c = 0 THEN {} ELSE {kstack[c]})
        /\ pstate' = IF c = 0 THEN pstate ELSE [pstate EXCEPT ![c] = "unused"]
        /\ kstack' = IF c = 0 THEN kstack ELSE [kstack EXCEPT ![c] = 0]
        /\ Job(p, NoJob)
        /\ UNCHANGED <<pgdir, psz>>

Build(p, f, j) ==
    /\ free' = f
    /\ Job(p, j)
    /\ UNCHANGED <<pgdir, psz, pstate, kstack>>

\* setupkvm(): the directory, then the kernel's page tables.
setupkvm(p) ==
    LET j == job[p]
        m == kalloc(free)
        d == IF j.new.dir = 0 THEN [j.new EXCEPT !.dir = m] ELSE [j.new EXCEPT !.ktab = @ \cup {m}]
        last == j.new.dir # 0 /\ Cardinality(d.ktab) = NKTAB
    IN  /\ MAt(p, "setupkvm")
        /\ IF m = 0 THEN bad(p, free, j.new)
           ELSE Build(p, free \ {m}, [j EXCEPT !.new = d,
                         !.pc = IF ~last THEN @ ELSE IF j.child # 0 THEN "copyuvm" ELSE "load"])

\* The loop of copyuvm(), and of the two allocuvm() of exec(): segments, then guard and stack.
AddPages(p) ==
    LET j == job[p]
        r == AddPage(free, j.new, j.at)
    IN  /\ j.pc \in {"copyuvm", "load", "stack"} /\ pstate[p] = "run"
        /\ j.at * PGSIZE < j.to
        /\ IF j.to < KERNBASE /\ r.ok THEN Build(p, r.free, [j EXCEPT !.new = r.d, !.at = @ + 1])
           ELSE bad(p, IF j.to < KERNBASE THEN r.free ELSE free, IF j.to < KERNBASE THEN r.d ELSE j.new)

\* The end of fork().
fork_done(p) ==
    LET j == job[p]
    IN  /\ MAt(p, "copyuvm") /\ j.at * PGSIZE >= j.to
        /\ pgdir' = [pgdir EXCEPT ![j.child] = [j.new EXCEPT !.guard = pgdir[p].guard]]
        /\ psz' = [psz EXCEPT ![j.child] = psz[p]]
        /\ pstate' = [pstate EXCEPT ![j.child] = "run"]
        /\ Job(p, NoJob)
        /\ UNCHANGED <<free, kstack>>

\* exec() meets a program header that is wrong, or a segment that loaduvm() cannot read.
exec_load_fails(p) == MAt(p, "load") /\ bad(p, free, job[p].new)

\* exec(): two more pages after the segments.
exec_stack(p) ==
    LET j == job[p]
    IN  /\ MAt(p, "load") /\ j.at * PGSIZE >= j.to
        /\ Build(p, free, [j EXCEPT !.pc = "stack", !.to = (PGROUNDUP(j.to) + 2) * PGSIZE])

\* copyout() writes into user pages only.
copyout(d, va, len) ==
    \A v \in VPN : v * PGSIZE < va + len /\ (v + 1) * PGSIZE > va => d.pte[v] # 0 /\ v \notin d.guard

\* exec(): clearpteu() of the lower page, n bytes of arguments, and the new image is p's.
exec_commit(p, n) ==
    LET j == job[p]
        d == [j.new EXCEPT !.guard = {PGROUNDUP(j.to) - 2}]
    IN  /\ MAt(p, "stack") /\ j.at * PGSIZE >= j.to
        /\ IF ~copyout(d, j.to - n, n) THEN bad(p, free, d)
           ELSE /\ pgdir' = [pgdir EXCEPT ![p] = d]
                /\ psz' = [psz EXCEPT ![p] = j.to]
                /\ free' = freevm(free, pgdir[p])
                /\ Job(p, NoJob)
                /\ UNCHANGED <<pstate, kstack>>

exit(p) ==
    /\ MAt(p, "user") /\ p # init
    /\ pstate' = [pstate EXCEPT ![p] = "zombie"]
    /\ UNCHANGED <<free, pgdir, psz, kstack, job>>

\* The parent, or init, frees the kernel stack and the memory of a zombie.
wait(p, c) ==
    /\ User(p) /\ pstate[c] = "zombie"
    /\ free' = freevm(free \cup {kstack[c]}, pgdir[c])
    /\ kstack' = [kstack EXCEPT ![c] = 0]
    /\ pgdir' = [pgdir EXCEPT ![c] = NoDir]
    /\ pstate' = [pstate EXCEPT ![c] = "unused"]
    /\ UNCHANGED <<psz, job>>

MemNext ==
    \E p \in MProc :
        \/ \E n \in Grows : sbrk(p, n)
        \/ grow(p) \/ setupkvm(p) \/ AddPages(p) \/ fork_done(p) \/ exec_load_fails(p) \/ exec_stack(p)
        \/ exit(p)
        \/ \E c \in MProc : fork(p, c) \/ wait(p, c)
        \/ \E s \in Images : exec(p, s)
        \/ \E n \in ArgBytes : exec_commit(p, n)

-----------------------------------------------------------------------------
(* syscall.c: which addresses a system call accepts, in unsigned arithmetic *)

fetchint(sz, addr) == addr < sz /\ (addr + 4) % UINT <= sz

\* Mutant: the sum is compared, its carry lost, and the address itself is not.
argptr_Sum(sz, i, size) == size >= 0 /\ (i + size) % UINT <= sz

argptr(sz, i, size) == size >= 0 /\ i < sz /\ (i + size) % UINT <= sz

-----------------------------------------------------------------------------
(* Properties *)

Dirs == {pgdir[p] : p \in MProc} \cup {job[p].new : p \in MProc}
UsedTwice == \E d, e \in Dirs : d # e /\ PagesOf(d) \cap PagesOf(e) # {}
Slots(d) == Cardinality(d.ktab) + Cardinality({t \in Tables : d.tab[t] # 0})
            + Cardinality({v \in VPN : d.pte[v] # 0}) + (IF d.dir # 0 THEN 1 ELSE 0)
Stacks == {kstack[p] : p \in MProc} \ {0}
InUse == Stacks \cup UNION {PagesOf(d) : d \in Dirs}

\* Every physical page is in exactly one place: on the free list, a kernel stack, a page
\* directory, a page table or one entry of one page table.  So no page is lost, given out
\* twice or freed while in use, wherever fork(), exec() or sbrk() runs out of memory
\* (allocuvm, copyuvm, setupkvm, exec's bad, wait).
PagesOnce ==
    /\ free = Page \ InUse
    /\ ~UsedTwice
    /\ \A d \in Dirs : Cardinality(PagesOf(d)) = Slots(d) /\ PagesOf(d) \cap Stacks = {}
    /\ Cardinality(Stacks) = Cardinality({p \in MProc : kstack[p] # 0})

\* A process that sbrk() has left with no page at all (proc.c:168).
Gone(p) == \A v \in VPN : pgdir[p].pte[v] = 0

\* proc->sz says which memory a process has.  Between calls exactly the pages below sz are
\* mapped, after a failed sbrk() as before it (copyuvm() panics otherwise); and a pointer
\* that argptr() or fetchint() accepts is memory of the process, every byte of it, so that the
\* kernel, which follows it without looking at the page table, does not fault.
SizeMapped ==
    /\ \A p \in MProc : MAt(p, "user") /\ ~Gone(p) =>
          \A v \in VPN : pgdir[p].pte[v] # 0 <=> v * PGSIZE < psz[p]
    /\ \A p \in MProc : User(p) =>
          \A a \in 0 .. UINT - 1 : \A n \in -KERNBASE .. KERNBASE - 1 :
              argptr(psz[p], a, n) \/ (n = 4 /\ fetchint(psz[p], a)) =>
                  \A b \in a .. a + n - 1 : b < KERNBASE /\ pgdir[p].pte[b \div PGSIZE] # 0
=============================================================================
