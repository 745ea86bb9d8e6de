------------------------------ MODULE PipeInvs ------------------------------
(***************************************************************************)
(* The inductive invariants of the open files, the pipes and their pages and *)
(* of the sleepers on a pipe (kernel/pipe.c, kernel/file.c).                *)
(***************************************************************************)
EXTENDS Pipe

Critical == {"piperead", "empty", "copy", "pipewrite", "full"}
Reading == {"rlock", "piperead", "empty", "rsleep", "copy"}
Writing == {"wlock", "pipewrite", "full", "wsleep"}
Opening == {"filealloc", "kalloc", "fdalloc"}
Closing == {"fileclose", "pipeclose", "kfree"}
Labels == {"unused", "user"} \cup Reading \cup Writing \cup Opening \cup Closing

FileRec == [ref : Nat, type : {"none", "pipe"}, writable : {0, 1}, pipe : Pipe \cup {NoPipe}]
PipeRec == [alloc : {0, 1}, lock : Proc \cup {NoProc}, data : [0 .. PIPESIZE - 1 -> Byte \cup {NoByte}],
            nread : 0 .. UINT - 1, nwrite : 0 .. UINT - 1, readopen : {0, 1}, writeopen : {0, 1}]

PipeTypeOK ==
    /\ ofile \in [Proc -> [Fd -> File \cup {NoFile}]] /\ todo \in [Proc -> [Slot -> File \cup {NoFile}]]
    /\ file \in [File -> FileRec] /\ pipe \in [Pipe -> PipeRec]
    /\ pc \in [Proc -> Labels]
    /\ cpipe \in [Proc -> Pipe \cup {NoPipe}] /\ left \in [Proc -> Nat] /\ writable \in [Proc -> {0, 1}]
    /\ exiting \in [Proc -> {0, 1}] /\ killed \in [Proc -> {0, 1}] /\ out \in [Pipe -> Byte \cup {NoByte}]

\* A file that is open as an end of a pipe.
IsEnd(f, s, w) == file[f].ref > 0 /\ file[f].type = "pipe" /\ file[f].pipe = s /\ file[f].writable = w

\* A file in a descriptor is open: it follows from the counts, and is all that read() and
\* write() need of them.
HeldOpen == \A p \in Proc, d \in Fd : ofile[p][d] # NoFile => file[ofile[p][d]].ref > 0

\* The counts, and which files a process has in its descriptors and in its call.
RefInv ==
    /\ \A f \in File : file[f].ref = Cardinality(Descriptors(f)) + Cardinality(Holders(f))
    /\ \A f \in File : file[f].ref = 0 => file[f].type = "none"
    /\ \A p \in Proc, d \in Fd : ofile[p][d] # NoFile => file[ofile[p][d]].type = "pipe"

CallOK(p) ==
    /\ pc[p] \notin Opening \cup Closing => todo[p] = NoTodo
    /\ pc[p] = "fileclose" => todo[p] # NoTodo
    /\ pc[p] \in Opening =>
          /\ todo[p][Rf] # NoFile /\ \A i \in Fd : todo[p][i] = NoFile
          /\ todo[p][Wf] # NoFile <=> pc[p] # "filealloc"
          /\ \A i \in Slot : todo[p][i] # NoFile =>
                file[todo[p][i]].type = IF pc[p] = "fdalloc" THEN "pipe" ELSE "none"
    /\ exiting[p] = 1 => pc[p] \in Closing /\ ofile[p] = NoFds
    /\ pc[p] = "unused" => ofile[p] = NoFds
    /\ pc[p] \in Reading \cup Writing =>
          \E d \in Fd : /\ ofile[p][d] # NoFile /\ file[ofile[p][d]].pipe = cpipe[p]
                        /\ file[ofile[p][d]].writable = IF pc[p] \in Writing THEN 1 ELSE 0

\* A file that pipe() has taken and not yet made an end of a pipe is its own.
Fresh == \A p, q \in Proc, i, j \in Slot :
    /\ pc[p] \in {"filealloc", "kalloc"}
    /\ todo[p][i] # NoFile
    /\ todo[q][j] = todo[p][i]
    => q = p /\ j = i

CallInv == Fresh /\ \A p \in Proc : CallOK(p)

\* The ends of the pipes, and the calls that close them.
Shutting(p, s, w) == pc[p] = "pipeclose" /\ cpipe[p] = s /\ writable[p] = w
Freeing(p, s) == pc[p] = "kfree" /\ cpipe[p] = s

EndInv ==
    /\ \A s \in Pipe \cup {NoPipe}, w \in {0, 1}, f \in File : IsEnd(f, s, w) =>
          /\ s \in Pipe /\ pipe[s].alloc = 1 /\ EndOpen(s, w)
          /\ \A g \in File : IsEnd(g, s, w) => g = f
    /\ \A s \in Pipe \cup {NoPipe}, w \in {0, 1}, p \in Proc : Shutting(p, s, w) =>
          /\ s \in Pipe /\ pipe[s].alloc = 1 /\ EndOpen(s, w)
          /\ \A f \in File : ~IsEnd(f, s, w)
          /\ \A q \in Proc : Shutting(q, s, w) => q = p
    /\ \A s \in Pipe \cup {NoPipe}, p \in Proc : Freeing(p, s) =>
          /\ s \in Pipe /\ pipe[s].alloc = 1 /\ pipe[s].readopen = 0 /\ pipe[s].writeopen = 0
          /\ \A q \in Proc : Freeing(q, s) => q = p
    /\ \A s \in Pipe, w \in {0, 1} : pipe[s].alloc = 1 /\ EndOpen(s, w) =>
          (\E f \in File : IsEnd(f, s, w)) \/ (\E p \in Proc : Shutting(p, s, w))
    /\ \A s \in Pipe : pipe[s].alloc = 1 /\ pipe[s].readopen = 0 /\ pipe[s].writeopen = 0 =>
          \E p \in Proc : Freeing(p, s)

LockInv ==
    /\ \A p \in Proc : pc[p] \in Critical => pipe[cpipe[p]].lock = p
    /\ \A s \in Pipe : pipe[s].lock # NoProc => pc[pipe[s].lock] \in Critical /\ cpipe[pipe[s].lock] = s

PipeInv == PipeTypeOK /\ RefInv /\ CallInv /\ EndInv /\ LockInv

\* Who sleeps on a pipe, while a reader copies bytes out and a writer copies bytes in.
WakeAt(s) ==
    /\ Asleep(s, "wsleep") /\ ~Asleep(s, "copy") => Full(s) /\ pipe[s].readopen = 1
    /\ Asleep(s, "rsleep") /\ ~Asleep(s, "pipewrite") => Empty(s) /\ pipe[s].writeopen = 1
    /\ Asleep(s, "full") => Full(s) /\ pipe[s].readopen = 1
    /\ Asleep(s, "empty") => Empty(s) /\ pipe[s].writeopen = 1
WakeInv == (\A p \in Proc : killed[p] = 0) /\ \A s \in Pipe : WakeAt(s)
=============================================================================
