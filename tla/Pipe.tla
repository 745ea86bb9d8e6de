-------------------------------- MODULE Pipe --------------------------------
(***************************************************************************)
(* Pipes and the open-file table: kernel/pipe.c, kernel/file.c, and the     *)
(* system calls of kernel/sysfile.c and kernel/proc.c that make, share and  *)
(* drop descriptors of pipes (pipe, dup, close, fork, exit, read, write).   *)
(*                                                                          *)
(* Every step is one critical section of ftable.lock, or one turn of a loop *)
(* under the pipe's lock, so that kill(), which takes neither lock, can     *)
(* come between any two of them.  sleep() gives up the pipe's lock and      *)
(* marks the process in one step, as ptable.lock makes it do.               *)
(***************************************************************************)
EXTENDS Integers, FiniteSets, FiniteSetsExt

CONSTANTS Proc,      \* process slots
          NFILE,     \* entries of ftable
          NOFILE,    \* descriptors of a process
          Pipe,      \* pages that kalloc() can give to a pipe
          PIPESIZE,  \* bytes in the ring buffer
          UINT,      \* 2^32: nread and nwrite are unsigned ints
          Byte,      \* contents of a byte
          MAXN,      \* bound: most bytes in one read or write
          Killable   \* bound: processes that kill() is called for

NoProc == 0
NoFile == 0
NoPipe == 0
NoByte == 0
File == 1 .. NFILE
Fd == 0 .. NOFILE - 1

\* Where a call keeps the files that it has to close: the locals rf and wf of sys_pipe()
\* (f0 and f1 of pipealloc), and one place for each descriptor that close() or exit() drops.
Rf == -2
Wf == -1
Slot == -2 .. NOFILE - 1

ASSUME ConstantsOK == /\ IsFiniteSet(Proc) /\ NFILE \in Nat \ {0} /\ NOFILE \in Nat \ {0}
                      /\ PIPESIZE \in Nat \ {0} /\ UINT \in Nat
                      /\ UINT % PIPESIZE = 0 /\ UINT > PIPESIZE
                      /\ NoProc \notin Proc /\ NoPipe \notin Pipe /\ NoByte \notin Byte
                      /\ MAXN \in Nat /\ Killable \subseteq Proc

VARIABLES ofile,     \* proc->ofile, per process
          file,      \* ftable.file
          pipe,      \* struct pipe, per page
          pc,        \* where each process is
          todo,      \* files that its call has taken or will close, per place
          cpipe,     \* the pipe that its call works on
          left,      \* bytes that its read() or write() still has to copy
          writable,  \* ff.writable in fileclose()
          exiting,   \* it closes its files in exit()
          killed,    \* proc->killed
          out        \* byte that the last pipewrite() or piperead() step copied out

locals == <<todo, cpipe, left, writable, exiting>>
vars == <<ofile, file, pipe, pc, locals, killed, out>>

\* A closed file: fileclose() resets ref and type, and the other fields are not read
\* before pipealloc() sets them again.
NoFileRec == [ref |-> 0, type |-> "none", writable |-> 0, pipe |-> NoPipe]

\* kfree() fills the page with ones, so a freed pipe looks open.
Junk == [alloc |-> 0, lock |-> NoProc, data |-> [i \in 0 .. PIPESIZE - 1 |-> NoByte],
         nread |-> 1, nwrite |-> 1, readopen |-> 1, writeopen |-> 1]

NoTodo == [i \in Slot |-> NoFile]
NoFds == [d \in Fd |-> NoFile]

Init == /\ \E p \in Proc : pc = [q \in Proc |-> IF q = p THEN "user" ELSE "unused"]
        /\ ofile = [p \in Proc |-> NoFds]
        /\ file = [f \in File |-> NoFileRec]
        /\ pipe = [s \in Pipe |-> Junk]
        /\ todo = [p \in Proc |-> NoTodo]
        /\ cpipe = [p \in Proc |-> NoPipe]
        /\ left = [p \in Proc |-> 0]
        /\ writable = [p \in Proc |-> 0]
        /\ exiting = [p \in Proc |-> 0]
        /\ killed = [p \in Proc |-> 0]
        /\ out = [s \in Pipe |-> NoByte]

-----------------------------------------------------------------------------
(* Helpers *)

Empty(s) == pipe[s].nread = pipe[s].nwrite
Full_OffByOne(s) == pipe[s].nwrite = (pipe[s].nread + PIPESIZE + 1) % UINT
Full(s) == pipe[s].nwrite = (pipe[s].nread + PIPESIZE) % UINT

FreeFiles == {f \in File : file[f].ref = 0}
FreeFds(p) == {d \in Fd : ofile[p][d] = NoFile}

\* A process that is about to make a system call: trap() has seen killed = 0.
AtUser(p) == pc[p] = "user" /\ killed[p] = 0

Goto(p, l) == pc' = [pc EXCEPT ![p] = l]

\* wakeup(&pipe->nread) and wakeup(&pipe->nwrite): sleepers go for the lock again.
\* The caller's own program counter becomes l.
WakeupAnd(s, from, to, p, l) ==
    pc' = [q \in Proc |-> IF q = p THEN l
                          ELSE IF pc[q] = from /\ cpipe[q] = s THEN to ELSE pc[q]]
WakeReaders(s, p, l) == WakeupAnd(s, "rsleep", "rlock", p, l)
WakeWriters(s, p, l) == WakeupAnd(s, "wsleep", "wlock", p, l)

\* What a process with the files t left does when it has closed one.
AfterClose(p, t) == IF t # NoTodo THEN "fileclose"
                    ELSE IF exiting[p] = 1 THEN "unused" ELSE "user"
StillExiting(p, t) == [exiting EXCEPT ![p] = IF t # NoTodo THEN @ ELSE 0]

\* The call that works on a pipe is over.
EndCall(p) == /\ cpipe' = [cpipe EXCEPT ![p] = NoPipe]
              /\ left' = [left EXCEPT ![p] = 0]
              /\ UNCHANGED <<todo, writable, exiting>>

-----------------------------------------------------------------------------
(* Descriptors *)

filedup(f) == file' = [file EXCEPT ![f] = [@ EXCEPT !.ref = file[f].ref + 1]]

sys_dup(p, d) ==
    /\ AtUser(p)
    /\ ofile[p][d] # NoFile
    /\ FreeFds(p) # {}
    /\ ofile' = [ofile EXCEPT ![p] = [@ EXCEPT ![Min(FreeFds(p))] = ofile[p][d]]]
    /\ filedup(ofile[p][d])
    /\ UNCHANGED <<pipe, pc, locals, killed, out>>

sys_close(p, d) ==
    /\ AtUser(p)
    /\ ofile[p][d] # NoFile
    /\ ofile' = [ofile EXCEPT ![p] = [@ EXCEPT ![d] = NoFile]]
    /\ todo' = [todo EXCEPT ![p] = [@ EXCEPT ![d] = ofile[p][d]]]
    /\ Goto(p, "fileclose")
    /\ UNCHANGED <<file, pipe, cpipe, left, writable, exiting, killed, out>>

fork_NoDup(p, q) ==
    /\ AtUser(p)
    /\ pc[q] = "unused"
    /\ ofile' = [ofile EXCEPT ![q] = ofile[p]]
    /\ Goto(q, "user")
    /\ killed' = [killed EXCEPT ![q] = 0]
    /\ UNCHANGED <<file, pipe, locals, out>>

\* The child's descriptors: one filedup() for each of the parent's.  wait() has
\* cleared killed in the slot.
fork(p, q) ==
    /\ AtUser(p)
    /\ pc[q] = "unused"
    /\ ofile' = [ofile EXCEPT ![q] = ofile[p]]
    /\ file' = [f \in File |-> [file[f] EXCEPT
                   !.ref = file[f].ref + Cardinality({d \in Fd : ofile[p][d] = f})]]
    /\ Goto(q, "user")
    /\ killed' = [killed EXCEPT ![q] = 0]
    /\ UNCHANGED <<pipe, locals, out>>

\* exit(), called by the program or, for a killed process, by trap().  The slot
\* can be taken again once the files are closed.
exit(p) ==
    /\ pc[p] = "user"
    /\ todo' = [todo EXCEPT ![p] = [i \in Slot |-> IF i \in Fd THEN ofile[p][i] ELSE NoFile]]
    /\ ofile' = [ofile EXCEPT ![p] = NoFds]
    /\ exiting' = [exiting EXCEPT ![p] = IF ofile[p] = NoFds THEN 0 ELSE 1]
    /\ Goto(p, IF ofile[p] = NoFds THEN "unused" ELSE "fileclose")
    /\ UNCHANGED <<file, pipe, cpipe, left, writable, killed, out>>

\* The next file of the call: rf before wf, descriptors in order.
fileclose(p) ==
    LET i == Min({j \in Slot : todo[p][j] # NoFile})
        f == todo[p][i]
        t == [todo[p] EXCEPT ![i] = NoFile]
    IN  /\ pc[p] = "fileclose"
        /\ todo' = [todo EXCEPT ![p] = t]
        /\ \/ /\ file[f].ref > 1
              /\ file' = [file EXCEPT ![f] = [@ EXCEPT !.ref = file[f].ref - 1]]
              /\ Goto(p, AfterClose(p, t)) /\ exiting' = StillExiting(p, t)
              /\ UNCHANGED <<cpipe, writable>>
           \/ /\ file[f].ref <= 1 /\ file[f].type = "pipe"
              /\ file' = [file EXCEPT ![f] = NoFileRec]
              /\ cpipe' = [cpipe EXCEPT ![p] = file[f].pipe]
              /\ writable' = [writable EXCEPT ![p] = file[f].writable]
              /\ Goto(p, "pipeclose") /\ UNCHANGED exiting
           \/ /\ file[f].ref <= 1 /\ file[f].type # "pipe"
              /\ file' = [file EXCEPT ![f] = NoFileRec]
              /\ Goto(p, AfterClose(p, t)) /\ exiting' = StillExiting(p, t)
              /\ UNCHANGED <<cpipe, writable>>
        /\ UNCHANGED <<ofile, pipe, left, killed, out>>

-----------------------------------------------------------------------------
(* pipealloc() and sys_pipe() *)

\* The first free entry of ftable, for the place i of process p.
filealloc(p, i) ==
    LET f == Min(FreeFiles)
    IN  /\ FreeFiles # {}
        /\ file' = [file EXCEPT ![f] = [@ EXCEPT !.ref = 1]]
        /\ todo' = [todo EXCEPT ![p] = [@ EXCEPT ![i] = f]]
        /\ UNCHANGED <<ofile, pipe, cpipe, left, writable, exiting, killed, out>>

sys_pipe(p) == AtUser(p) /\ filealloc(p, Rf) /\ Goto(p, "filealloc")

pipealloc_file(p) == pc[p] = "filealloc" /\ filealloc(p, Wf) /\ Goto(p, "kalloc")

\* The error paths: no second file, or no page.  Memory has other users, so
\* kalloc() may fail at any time.
pipealloc_bad(p) ==
    /\ \/ pc[p] = "filealloc" /\ FreeFiles = {}
       \/ pc[p] = "kalloc"
    /\ Goto(p, "fileclose")
    /\ UNCHANGED <<ofile, file, pipe, locals, killed, out>>

pipealloc(p, s) ==
    LET rf == todo[p][Rf]
        wf == todo[p][Wf]
    IN  /\ pc[p] = "kalloc"
        /\ pipe[s].alloc = 0
        /\ pipe' = [pipe EXCEPT ![s] = [@ EXCEPT !.alloc = 1, !.lock = NoProc,
                        !.nread = 0, !.nwrite = 0, !.readopen = 1, !.writeopen = 1]]
        /\ file' = [file EXCEPT
               ![rf] = [@ EXCEPT !.type = "pipe", !.writable = 0, !.pipe = s],
               ![wf] = [@ EXCEPT !.type = "pipe", !.writable = 1, !.pipe = s]]
        /\ Goto(p, "fdalloc")
        /\ UNCHANGED <<ofile, locals, killed, out>>

sys_pipe_fds(p) ==
    LET fd0 == Min(FreeFds(p))
        fd1 == Min(FreeFds(p) \ {fd0})
    IN  /\ pc[p] = "fdalloc"
        /\ IF FreeFds(p) # {} /\ FreeFds(p) # {fd0}
           THEN /\ ofile' = [ofile EXCEPT ![p] = [@ EXCEPT ![fd0] = todo[p][Rf],
                                                           ![fd1] = todo[p][Wf]]]
                /\ todo' = [todo EXCEPT ![p] = NoTodo]
                /\ Goto(p, "user")
           ELSE Goto(p, "fileclose") /\ UNCHANGED <<ofile, todo>>
        /\ UNCHANGED <<file, pipe, cpipe, left, writable, exiting, killed, out>>

pipeclose_FreesEarly(p) ==
    LET s  == cpipe[p]
        w  == writable[p]
        ro == IF w = 1 THEN pipe[s].readopen ELSE 0
        wo == IF w = 1 THEN 0 ELSE pipe[s].writeopen
        l  == IF wo = 1 THEN AfterClose(p, todo[p]) ELSE "kfree"
    IN  /\ pc[p] = "pipeclose"
        /\ pipe[s].lock = NoProc
        /\ pipe' = [pipe EXCEPT ![s] = [@ EXCEPT !.readopen = ro, !.writeopen = wo]]
        /\ IF w = 1 THEN WakeReaders(s, p, l) ELSE WakeWriters(s, p, l)
        /\ IF l = "kfree"
           THEN UNCHANGED locals
           ELSE /\ cpipe' = [cpipe EXCEPT ![p] = NoPipe]
                /\ writable' = [writable EXCEPT ![p] = 0]
                /\ exiting' = StillExiting(p, todo[p])
                /\ UNCHANGED <<todo, left>>
        /\ UNCHANGED <<ofile, file, killed, out>>

pipeclose(p) ==
    LET s  == cpipe[p]
        w  == writable[p]
        ro == IF w = 1 THEN pipe[s].readopen ELSE 0
        wo == IF w = 1 THEN 0 ELSE pipe[s].writeopen
        l  == IF ro = 1 \/ wo = 1 THEN AfterClose(p, todo[p]) ELSE "kfree"
    IN  /\ pc[p] = "pipeclose"
        /\ pipe[s].lock = NoProc
        /\ pipe' = [pipe EXCEPT ![s] = [@ EXCEPT !.readopen = ro, !.writeopen = wo]]
        /\ IF w = 1 THEN WakeReaders(s, p, l) ELSE WakeWriters(s, p, l)
        /\ IF l = "kfree"
           THEN UNCHANGED locals
           ELSE /\ cpipe' = [cpipe EXCEPT ![p] = NoPipe]
                /\ writable' = [writable EXCEPT ![p] = 0]
                /\ exiting' = StillExiting(p, todo[p])
                /\ UNCHANGED <<todo, left>>
        /\ UNCHANGED <<ofile, file, killed, out>>

\* Also forgets out, which only exists for the checks.
kfree(p) ==
    /\ pc[p] = "kfree"
    /\ pipe' = [pipe EXCEPT ![cpipe[p]] = Junk]
    /\ out' = [out EXCEPT ![cpipe[p]] = NoByte]
    /\ cpipe' = [cpipe EXCEPT ![p] = NoPipe]
    /\ writable' = [writable EXCEPT ![p] = 0]
    /\ exiting' = StillExiting(p, todo[p])
    /\ Goto(p, AfterClose(p, todo[p]))
    /\ UNCHANGED <<ofile, file, todo, left, killed>>

-----------------------------------------------------------------------------
(* read() and write() *)

\* fileread() and filewrite() return -1 at once for the wrong end of a pipe.
sys_read_write(p, d, n) ==
    /\ AtUser(p)
    /\ ofile[p][d] # NoFile
    /\ LET f == file[ofile[p][d]] IN
       /\ cpipe' = [cpipe EXCEPT ![p] = f.pipe]
       /\ left' = [left EXCEPT ![p] = n]
       /\ Goto(p, IF f.writable = 1 THEN "wlock" ELSE "rlock")
    /\ UNCHANGED <<ofile, file, pipe, todo, writable, exiting, killed, out>>

Lock(s, p) == pipe' = [pipe EXCEPT ![s] = [@ EXCEPT !.lock = p]]
Unlock(s) == Lock(s, NoProc)

\* acquire(&p->lock), at the start of the call and at the end of sleep().
acquire(p) ==
    /\ pc[p] \in {"rlock", "wlock"}
    /\ pipe[cpipe[p]].lock = NoProc
    /\ Lock(cpipe[p], p)
    /\ Goto(p, IF pc[p] = "rlock" THEN "piperead" ELSE "pipewrite")
    /\ UNCHANGED <<ofile, file, locals, killed, out>>

\* sleep(&p->nread, &p->lock) and sleep(&p->nwrite, &p->lock).
sleep(p) ==
    /\ pc[p] \in {"empty", "full"}
    /\ Unlock(cpipe[p])
    /\ Goto(p, IF pc[p] = "empty" THEN "rsleep" ELSE "wsleep")
    /\ UNCHANGED <<ofile, file, locals, killed, out>>

pipewrite_byte(p, b) ==
    LET s == cpipe[p]
        k == pipe[s].nwrite
    IN  /\ pc[p] = "pipewrite"
        /\ left[p] > 0
        /\ ~Full(s)
        /\ pipe' = [pipe EXCEPT ![s] = [@ EXCEPT !.nwrite = (k + 1) % UINT,
                                   !.data = [pipe[s].data EXCEPT ![k % PIPESIZE] = b]]]
        /\ left' = [left EXCEPT ![p] = @ - 1]
        /\ out' = [out EXCEPT ![s] = NoByte]
        /\ UNCHANGED <<ofile, file, pc, todo, cpipe, writable, exiting, killed>>

\* The tests of the inner loop.  killed is read without ptable.lock, so kill() can
\* still come before the sleep.
pipewrite_full(p) ==
    LET s == cpipe[p]
    IN  /\ pc[p] = "pipewrite"
        /\ left[p] > 0
        /\ Full(s)
        /\ IF pipe[s].readopen = 0 \/ killed[p] = 1
           THEN Unlock(s) /\ Goto(p, "user") /\ EndCall(p)
           ELSE WakeReaders(s, p, "full") /\ UNCHANGED <<pipe, locals>>
        /\ UNCHANGED <<ofile, file, killed, out>>

pipewrite_end_NoWakeup(p) ==
    LET s == cpipe[p]
    IN  /\ pc[p] = "pipewrite"
        /\ left[p] = 0
        /\ Unlock(s) /\ Goto(p, "user") /\ EndCall(p)
        /\ UNCHANGED <<ofile, file, killed, out>>

pipewrite_end(p) ==
    LET s == cpipe[p]
    IN  /\ pc[p] = "pipewrite"
        /\ left[p] = 0
        /\ Unlock(s) /\ WakeReaders(s, p, "user") /\ EndCall(p)
        /\ UNCHANGED <<ofile, file, killed, out>>

piperead_test(p) ==
    LET s == cpipe[p]
    IN  /\ pc[p] = "piperead"
        /\ IF Empty(s) /\ pipe[s].writeopen = 1
           THEN IF killed[p] = 1
                THEN Unlock(s) /\ Goto(p, "user") /\ EndCall(p)
                ELSE Goto(p, "empty") /\ UNCHANGED <<pipe, locals>>
           ELSE Goto(p, "copy") /\ UNCHANGED <<pipe, locals>>
        /\ UNCHANGED <<ofile, file, killed, out>>

piperead_copy(p) ==
    LET s == cpipe[p]
        k == pipe[s].nread
    IN  /\ pc[p] = "copy"
        /\ left[p] > 0
        /\ ~Empty(s)
        /\ out' = [out EXCEPT ![s] = pipe[s].data[k % PIPESIZE]]
        /\ pipe' = [pipe EXCEPT ![s] = [@ EXCEPT !.nread = (k + 1) % UINT]]
        /\ left' = [left EXCEPT ![p] = @ - 1]
        /\ UNCHANGED <<ofile, file, pc, todo, cpipe, writable, exiting, killed>>

piperead_end(p) ==
    LET s == cpipe[p]
    IN  /\ pc[p] = "copy"
        /\ left[p] = 0 \/ Empty(s)
        /\ Unlock(s) /\ WakeWriters(s, p, "user") /\ EndCall(p)
        /\ UNCHANGED <<ofile, file, killed, out>>

\* kill() of a process that may be asleep.
kill(p) ==
    /\ p \in Killable
    /\ pc[p] # "unused"
    /\ killed[p] = 0
    /\ killed' = [killed EXCEPT ![p] = 1]
    /\ Goto(p, IF pc[p] = "rsleep" THEN "rlock" ELSE IF pc[p] = "wsleep" THEN "wlock" ELSE pc[p])
    /\ UNCHANGED <<ofile, file, pipe, locals, out>>

-----------------------------------------------------------------------------
(* What a process does once it is inside the kernel. *)
InKernel(p) ==
    \/ fileclose(p) \/ pipealloc_file(p) \/ pipealloc_bad(p) \/ sys_pipe_fds(p)
    \/ pipeclose(p) \/ kfree(p) \/ acquire(p) \/ sleep(p)
    \/ pipewrite_full(p) \/ pipewrite_end(p)
    \/ piperead_test(p) \/ piperead_copy(p) \/ piperead_end(p)
    \/ \E b \in Byte : pipewrite_byte(p, b)
    \/ \E s \in Pipe : pipealloc(p, s)

Next ==
    \E p \in Proc :
        \/ sys_pipe(p) \/ exit(p) \/ kill(p) \/ InKernel(p)
        \/ \E d \in Fd : sys_dup(p, d) \/ sys_close(p, d)
        \/ \E d \in Fd, n \in 0 .. MAXN : sys_read_write(p, d, n)
        \/ \E q \in Proc : fork(p, q)

Spec == Init /\ [][Next]_vars

-----------------------------------------------------------------------------
(* Properties *)

InPipe == {"rlock", "piperead", "empty", "rsleep", "copy",
           "wlock", "pipewrite", "full", "wsleep", "pipeclose", "kfree"}

Descriptors(f) == {x \in Proc \X Fd : ofile[x[1]][x[2]] = f}
Holders(f) == {x \in Proc \X Slot : todo[x[1]][x[2]] = f}

\* The end of pipe s for writing (w = 1) or reading is open.
EndOpen(s, w) == IF w = 1 THEN pipe[s].writeopen = 1 ELSE pipe[s].readopen = 1

\* The ref of an open file is the number of descriptors for it, in all processes, plus
\* the references of calls in progress: pipe() that fails half way, fork(), dup(), close()
\* and exit() neither leak a file nor free one that is in use.  An end of a pipe is open
\* as long as a file refers to it, up to the pipeclose() that fileclose() has decided on.
FileRefs ==
    /\ \A f \in File : file[f].ref = Cardinality(Descriptors(f)) + Cardinality(Holders(f))
    /\ \A s \in Pipe, w \in {0, 1} : pipe[s].alloc = 1 =>
          (EndOpen(s, w) <=>
            \/ \E f \in File : /\ file[f].ref > 0 /\ file[f].type = "pipe"
                              /\ file[f].pipe = s /\ file[f].writable = w
            \/ \E p \in Proc : pc[p] = "pipeclose" /\ cpipe[p] = s /\ writable[p] = w)

\* No process is inside a pipe whose page is free, and a page that no end of a pipe
\* uses is on its way to kfree(), by one process only.
PipePages ==
    /\ \A p \in Proc : pc[p] \in InPipe => cpipe[p] \in Pipe /\ pipe[cpipe[p]].alloc = 1
    /\ \A s \in Pipe : (\E p \in Proc : pc[p] = "kfree" /\ cpipe[p] = s) <=>
                       pipe[s].alloc = 1 /\ pipe[s].readopen = 0 /\ pipe[s].writeopen = 0
    /\ \A p, q \in Proc : pc[p] = "kfree" /\ pc[q] = "kfree" /\ cpipe[p] = cpipe[q] => p = q

Asleep(s, l) == \E p \in Proc : pc[p] = l /\ cpipe[p] = s

\* No wakeup is lost.  When nobody holds the lock of a pipe, its sleeping writers wait for
\* room that a reader can still make, and its sleeping readers for bytes that a writer can
\* still send (the tests and sleeps of piperead, pipewrite; the wakeups, also pipeclose's).
\* It holds while no writer is killed: pipewrite() leaves without the wakeup when it finds
\* the pipe full and its process killed.
NobodyForgotten ==
    \A s \in Pipe : pipe[s].lock = NoProc =>
        /\ Asleep(s, "wsleep") => Full(s) /\ pipe[s].readopen = 1
        /\ Asleep(s, "rsleep") => Empty(s) /\ pipe[s].writeopen = 1
=============================================================================
