----------------------------- MODULE PipeFiles ------------------------------
(***************************************************************************)
(* The references to open files, and the calls that make, share and drop    *)
(* descriptors: dup, close, exit, fork and pipe (kernel/file.c,             *)
(* kernel/sysfile.c, kernel/proc.c).                                        *)
(***************************************************************************)
EXTENDS PipeIo

-----------------------------------------------------------------------------
(* Counting references *)

\* The places where a table g over I has file f, and where the tables h of all processes have it.
Row(g, I, f) == {i \in I : g[i] = f}
Refs(h, I, f) == {x \in Proc \X I : h[x[1]][x[2]] = f}

\* The references of a process with descriptors g and files t in its call, and of all processes.
Uses(g, t, f) == Cardinality(Row(g, Fd, f)) + Cardinality(Row(t, Slot, f))
Total(h, k, f) == Cardinality(Refs(h, Fd, f)) + Cardinality(Refs(k, Slot, f))

\* Two tables differ in one place, or in the row of one process.
OnlyAt(g, k, I, i) == \A j \in I : j # i => k[j] = g[j]
OnlyOf(h, k, p) == \A q \in Proc : q # p => k[q] = h[q]

\* What the proofs about the calls need of finite sets: it holds of all tables, because a
\* process has finitely many descriptors and there are finitely many processes (PipeProofs).
HasMin == \A S \in SUBSET Int, b \in Int : S # {} /\ (\A x \in S : b =< x) => Min(S) \in S
UsesNat == \A g, t, f : Uses(g, t, f) \in Nat
FdCount == \A g, k, t, f : \A d \in Fd : OnlyAt(g, k, Fd, d) =>
    Uses(k, t, f) = Uses(g, t, f) - (IF g[d] = f THEN 1 ELSE 0) + (IF k[d] = f THEN 1 ELSE 0)
SlotCount == \A g, t, u, f : \A i \in Slot : OnlyAt(t, u, Slot, i) =>
    Uses(g, u, f) = Uses(g, t, f) - (IF t[i] = f THEN 1 ELSE 0) + (IF u[i] = f THEN 1 ELSE 0)
NoUses == \A f \in File : Uses(NoFds, NoTodo, f) = 0
FdUses == \A g : \A f \in File : Uses(g, NoTodo, f) = Cardinality(Row(g, Fd, f))
ExitUses == \A g, t : (\A i \in Slot : t[i] = IF i \in Fd THEN g[i] ELSE NoFile) =>
    \A f \in File : Uses(NoFds, t, f) = Uses(g, NoTodo, f)
TotalStep == \A h, k, m, n, f : \A p \in Proc : OnlyOf(h, m, p) /\ OnlyOf(k, n, p) =>
    Total(m, n, f) = Total(h, k, f) - Uses(h[p], k[p], f) + Uses(m[p], n[p], f)
TotalUsed == \A h, k, f : \A p \in Proc :
    (\E d \in Fd : h[p][d] = f) \/ (\E i \in Slot : k[p][i] = f) => Total(h, k, f) > 0
TotalOne == \A h, k, f : \A p \in Proc, i \in Slot : Total(h, k, f) = 1 /\ k[p][i] = f =>
    /\ \A q \in Proc, d \in Fd : h[q][d] # f
    /\ \A q \in Proc, j \in Slot : k[q][j] = f => q = p /\ j = i

Counting == /\ HasMin /\ UsesNat /\ FdCount /\ SlotCount /\ NoUses /\ FdUses /\ ExitUses
            /\ TotalStep /\ TotalUsed /\ TotalOne

LEMMA Places == /\ Fd \subseteq Slot /\ Rf \in Slot /\ Wf \in Slot /\ Rf \notin Fd /\ Wf \notin Fd /\ Rf # Wf
                /\ \A i \in Slot : i \in Fd \/ i = Rf \/ i = Wf
BY ConstantsOK DEF Fd, Slot, Rf, Wf

LEMMA RealFile == \A f \in File : f # NoFile
BY ConstantsOK DEF File, NoFile

\* A file that is referred to is open.
AllOpen == HeldOpen /\ \A p \in Proc, i \in Slot : todo[p][i] # NoFile => file[todo[p][i]].ref > 0

LEMMA RefTotal ==
    ASSUME PipeInv, NEW f \in File
    PROVE  file[f].ref = Total(ofile, todo, f) /\ file[f].ref \in Nat
<1>1. file[f].ref = Cardinality(Descriptors(f)) + Cardinality(Holders(f)) BY Zenon DEF PipeInv, RefInv
<1>2. Descriptors(f) = Refs(ofile, Fd, f) /\ Holders(f) = Refs(todo, Slot, f) BY Zenon DEF Descriptors, Holders, Refs
<1>3. file[f] \in FileRec BY Zenon DEF PipeInv, PipeTypeOK
<1>4. file[f].ref \in Nat BY <1>3, Zenon DEF FileRec
<1>5. QED BY <1>1, <1>2, <1>4, Zenon DEF Total

LEMMA Referred ==
    ASSUME Counting, PipeInv
    PROVE  AllOpen
<1>1. /\ ofile \in [Proc -> [Fd -> File \cup {NoFile}]] /\ todo \in [Proc -> [Slot -> File \cup {NoFile}]]
  BY Zenon DEF PipeInv, PipeTypeOK
<1>2. TotalUsed BY Zenon DEF Counting
<1>3. ASSUME NEW p \in Proc, NEW d \in Fd, ofile[p][d] # NoFile PROVE file[ofile[p][d]].ref > 0
  <2>1. PICK f \in File : f = ofile[p][d] BY <1>1, <1>3, Zenon
  <2>2. Total(ofile, todo, f) > 0 BY <1>2, <2>1, Zenon DEF TotalUsed
  <2>3. QED BY <2>1, <2>2, RefTotal, Zenon
<1>4. ASSUME NEW p \in Proc, NEW i \in Slot, todo[p][i] # NoFile PROVE file[todo[p][i]].ref > 0
  <2>1. PICK f \in File : f = todo[p][i] BY <1>1, <1>4, Zenon
  <2>2. Total(ofile, todo, f) > 0 BY <1>2, <2>1, Zenon DEF TotalUsed
  <2>3. QED BY <2>1, <2>2, RefTotal, Zenon
<1>5. QED BY <1>3, <1>4, Zenon DEF AllOpen, HeldOpen

\* The only reference to a file.
LEMMA LastRef ==
    ASSUME Counting, PipeInv, NEW p \in Proc, NEW i \in Slot, NEW f \in File, todo[p][i] = f, file[f].ref <= 1
    PROVE  /\ file[f].ref = 1
           /\ \A q \in Proc, d \in Fd : ofile[q][d] # f
           /\ \A q \in Proc, j \in Slot : todo[q][j] = f => q = p /\ j = i
<1>1. TotalUsed /\ TotalOne BY Zenon DEF Counting
<1>2. file[f].ref = Total(ofile, todo, f) /\ file[f].ref \in Nat BY RefTotal, Zenon
<1>3. Total(ofile, todo, f) > 0 BY <1>1, Zenon DEF TotalUsed
<1>4. Total(ofile, todo, f) = 1 BY <1>2, <1>3
<1>5. QED BY <1>1, <1>2, <1>4 DEF TotalOne

-----------------------------------------------------------------------------
(* What a step leaves alone *)

SameFile(f) == /\ file'[f].type = file[f].type /\ file'[f].pipe = file[f].pipe
               /\ file'[f].writable = file[f].writable

\* All processes but p are where they were, or have been woken.
Others(p) ==
    /\ \A q \in Proc : q # p => \/ pc'[q] = pc[q]
                                \/ pc[q] = "rsleep" /\ pc'[q] = "rlock"
                                \/ pc[q] = "wsleep" /\ pc'[q] = "wlock"
    /\ OnlyOf(ofile, ofile', p) /\ OnlyOf(todo, todo', p) /\ OnlyOf(cpipe, cpipe', p)
    /\ OnlyOf(writable, writable', p) /\ OnlyOf(exiting, exiting', p)

\* The files that the others refer to stay what they are.
OthersFiles(p) == \A q \in Proc : q # p =>
    /\ \A d \in Fd : ofile[q][d] # NoFile => SameFile(ofile[q][d])
    /\ \A i \in Slot : todo[q][i] # NoFile => SameFile(todo[q][i])

\* The counts follow the references of p.
Balanced(p) == \A f \in File :
    file'[f].ref = file[f].ref - Uses(ofile[p], todo[p], f) + Uses(ofile'[p], todo'[p], f)

\* Closed files are reset, and the descriptors of p are for pipes.
FilesOK(p) == /\ \A f \in File : file'[f].ref = 0 => file'[f].type = "none"
              /\ \A d \in Fd : ofile'[p][d] # NoFile => file'[ofile'[p][d]].type = "pipe"

LEMMA RefKept ==
    ASSUME Counting, PipeInv, NEW p \in Proc, Others(p), Balanced(p), OthersFiles(p), FilesOK(p)
    PROVE  RefInv'
<1>1. ASSUME NEW f \in File PROVE file'[f].ref = Cardinality(Descriptors(f)') + Cardinality(Holders(f)')
  <2> DEFINE of == ofile'
             td == todo'
  <2>1. Descriptors(f)' = Refs(of, Fd, f) /\ Holders(f)' = Refs(td, Slot, f) BY Zenon DEF Descriptors, Holders, Refs
  <2>2. OnlyOf(ofile, of, p) /\ OnlyOf(todo, td, p) BY Zenon DEF Others
  <2>3. file'[f].ref = file[f].ref - Uses(ofile[p], todo[p], f) + Uses(of[p], td[p], f) BY Zenon DEF Balanced
  <2> HIDE DEF of, td
  <2>4. UsesNat /\ TotalStep BY Zenon DEF Counting
  <2>5. Total(of, td, f) = Total(ofile, todo, f) - Uses(ofile[p], todo[p], f) + Uses(of[p], td[p], f)
    BY <2>2, <2>4 DEF TotalStep
  <2>6. Uses(ofile[p], todo[p], f) \in Nat /\ Uses(of[p], td[p], f) \in Nat BY <2>4, Zenon DEF UsesNat
  <2>7. file'[f].ref = Total(of, td, f) BY <2>3, <2>5, <2>6, RefTotal, Zenon
  <2>8. QED BY <2>1, <2>7, Zenon DEF Total
<1>2. ASSUME NEW q \in Proc, NEW d \in Fd, ofile'[q][d] # NoFile PROVE file'[ofile'[q][d]].type = "pipe"
  <2>1. CASE q = p BY <1>2, <2>1, Zenon DEF FilesOK
  <2>2. CASE q # p
    <3>1. ofile'[q] = ofile[q] BY <2>2, Zenon DEF Others, OnlyOf
    <3>2. file[ofile[q][d]].type = "pipe" BY <1>2, <3>1, Zenon DEF PipeInv, RefInv
    <3>3. SameFile(ofile[q][d]) BY <1>2, <2>2, <3>1, Zenon DEF OthersFiles
    <3>4. QED BY <3>1, <3>2, <3>3, Zenon DEF SameFile
  <2>3. QED BY <2>1, <2>2, Zenon
<1>3. QED BY <1>1, <1>2, Zenon DEF RefInv, FilesOK

LEMMA CallKept ==
    ASSUME PipeInv, NEW p \in Proc, Others(p), OthersFiles(p), NEW q \in Proc, q # p
    PROVE  CallOK(q)'
<1>1. /\ pc'[q] = pc[q] \/ (pc[q] \in Reading /\ pc'[q] \in Reading) \/ (pc[q] \in Writing /\ pc'[q] \in Writing)
      /\ ofile'[q] = ofile[q] /\ todo'[q] = todo[q] /\ cpipe'[q] = cpipe[q] /\ exiting'[q] = exiting[q]
  BY Zenon DEF Others, OnlyOf, Reading, Writing
<1>2. CallOK(q) BY Zenon DEF PipeInv, CallInv
<1>3. /\ \A d \in Fd : ofile[q][d] # NoFile => SameFile(ofile[q][d])
      /\ \A i \in Slot : todo[q][i] # NoFile => SameFile(todo[q][i])
  BY Zenon DEF OthersFiles
<1>4. ASSUME pc'[q] \in Reading \cup Writing
      PROVE  \E d \in Fd : /\ ofile'[q][d] # NoFile /\ file'[ofile'[q][d]].pipe = cpipe'[q]
                           /\ file'[ofile'[q][d]].writable = IF pc'[q] \in Writing THEN 1 ELSE 0
  <2>1. pc[q] \in Reading \cup Writing /\ (pc[q] \in Writing <=> pc'[q] \in Writing)
    BY <1>1, <1>4, Zenon DEF Reading, Writing
  <2>2. PICK d \in Fd : /\ ofile[q][d] # NoFile /\ file[ofile[q][d]].pipe = cpipe[q]
                        /\ file[ofile[q][d]].writable = IF pc[q] \in Writing THEN 1 ELSE 0
    BY <1>2, <2>1, Zenon DEF CallOK
  <2>3. SameFile(ofile[q][d]) BY <1>3, <2>2, Zenon
  <2>4. QED BY <1>1, <2>1, <2>2, <2>3, Zenon DEF SameFile
<1>5. CASE pc'[q] = pc[q]
  <2>1. ASSUME NEW i \in Slot, pc'[q] \in Opening, todo'[q][i] # NoFile
        PROVE  file'[todo'[q][i]].type = IF pc'[q] = "fdalloc" THEN "pipe" ELSE "none"
    <3>1. file[todo[q][i]].type = IF pc[q] = "fdalloc" THEN "pipe" ELSE "none"
      BY <1>1, <1>2, <1>5, <2>1, Zenon DEF CallOK
    <3>2. SameFile(todo[q][i]) BY <1>1, <1>3, <2>1, Zenon
    <3>3. QED BY <1>1, <1>5, <3>1, <3>2, Zenon DEF SameFile
  <2>2. QED BY <1>1, <1>2, <1>4, <1>5, <2>1, Zenon DEF CallOK
<1>6. CASE pc'[q] # pc[q]
  <2>1. pc[q] \in Reading \cup Writing /\ pc'[q] \in Reading \cup Writing BY <1>1, <1>6, Zenon
  <2>2. todo[q] = NoTodo /\ exiting[q] # 1
    BY <1>2, <2>1, Zenon DEF CallOK, Reading, Writing, Opening, Closing
  <2>3. pc'[q] \notin Opening /\ pc'[q] # "fileclose" /\ pc'[q] # "unused"
    BY <2>1, Zenon DEF Reading, Writing, Opening
  <2>4. QED BY <1>1, <1>4, <2>1, <2>2, <2>3, Zenon DEF CallOK
<1>7. QED BY <1>5, <1>6, Zenon

\* The files of the call of p are the ones it had, or ends of pipes.
OldFiles(p) == \A i \in Slot : \/ todo'[p][i] = todo[p][i]
                               \/ todo'[p][i] = NoFile
                               \/ file[todo'[p][i]].type = "pipe"

LEMMA FreshKept ==
    ASSUME PipeInv, NEW p \in Proc, Others(p), pc'[p] \notin {"filealloc", "kalloc"}, OldFiles(p)
    PROVE  Fresh'
<1> SUFFICES ASSUME NEW r \in Proc, NEW q \in Proc, NEW i \in Slot, NEW j \in Slot,
                    pc'[r] \in {"filealloc", "kalloc"}, todo'[r][i] # NoFile, todo'[q][j] = todo'[r][i]
             PROVE  q = r /\ j = i
  BY DEF Fresh
<1>1. r # p /\ pc[r] \in {"filealloc", "kalloc"} /\ todo'[r] = todo[r] BY Zenon DEF Others, OnlyOf
<1>2. CallOK(r) /\ Fresh BY Zenon DEF PipeInv, CallInv
<1>3. file[todo[r][i]].type = "none" BY <1>1, <1>2, Zenon DEF CallOK, Opening
<1>4. todo'[q][j] = todo[q][j]
  <2>1. CASE q = p BY <1>1, <1>3, <2>1, Zenon DEF OldFiles
  <2>2. CASE q # p BY <2>2, Zenon DEF Others, OnlyOf
  <2>3. QED BY <2>1, <2>2, Zenon
<1>5. QED BY <1>1, <1>2, <1>4 DEF Fresh

LEMMA LockKept ==
    ASSUME PipeInv, HeldOpen, NEW p \in Proc, Others(p), pc[p] \notin Critical, pc'[p] \notin Critical,
           \A s \in Pipe : pipe'[s].lock = pipe[s].lock
    PROVE  LockInv'
<1>1. \A q \in Proc : pc'[q] \in Critical <=> pc[q] \in Critical BY Zenon DEF Others, Critical
<1>2. \A q \in Proc : pc[q] \in Critical => cpipe'[q] = cpipe[q] /\ cpipe[q] \in Pipe
  <2> SUFFICES ASSUME NEW q \in Proc, pc[q] \in Critical PROVE cpipe'[q] = cpipe[q] /\ cpipe[q] \in Pipe
    BY Zenon
  <2>1. cpipe'[q] = cpipe[q] BY Zenon DEF Others, OnlyOf
  <2>2. pc[q] \in Reading \cup Writing BY Zenon DEF Critical, Reading, Writing
  <2>3. QED BY <2>1, <2>2, InsidePipe, Zenon
<1>3. \A s \in Pipe : pipe[s].lock \in Proc \cup {NoProc} BY Zenon DEF PipeInv, PipeTypeOK, PipeRec
<1>4. LockInv BY Zenon DEF PipeInv
<1>5. QED BY <1>1, <1>2, <1>3, <1>4 DEF LockInv

OpenEnd(f) == file[f].ref > 0 /\ file[f].type = "pipe"
EndsKept == \A f \in File : (OpenEnd(f)' <=> OpenEnd(f)) /\ (OpenEnd(f) => SameFile(f))

\* p is not inside a pipe, nor does it close an end of one.
Away(p) == pc[p] \notin Critical \cup {"pipeclose", "kfree"} /\ pc'[p] \notin Critical \cup {"pipeclose", "kfree"}

LEMMA EndKept ==
    ASSUME PipeInv, NEW p \in Proc, Others(p), UNCHANGED pipe, Away(p), EndsKept
    PROVE  EndInv'
<1>1. \A q \in Proc : pc'[q] \in {"pipeclose", "kfree"} <=> pc[q] \in {"pipeclose", "kfree"}
  BY Zenon DEF Others, Away
<1>2. \A q \in Proc : pc[q] \in {"pipeclose", "kfree"} =>
         pc'[q] = pc[q] /\ cpipe'[q] = cpipe[q] /\ writable'[q] = writable[q]
  BY Zenon DEF Others, OnlyOf, Away
<1>3. \A s, w : \A f \in File : IsEnd(f, s, w)' <=> IsEnd(f, s, w) BY Zenon DEF IsEnd, SameFile, EndsKept, OpenEnd
<1>4. \A s, w : EndOpen(s, w)' <=> EndOpen(s, w) BY Zenon DEF EndOpen
<1>5. \A q \in Proc : \A s, w : Shutting(q, s, w)' <=> Shutting(q, s, w) BY <1>1, <1>2, Zenon DEF Shutting
<1>6. \A q \in Proc : \A s : Freeing(q, s)' <=> Freeing(q, s) BY <1>1, <1>2, Zenon DEF Freeing
<1>7. EndInv BY Zenon DEF PipeInv
<1>8. QED BY <1>3, <1>4, <1>5, <1>6, <1>7 DEF EndInv

\* The call of a process that is in no pipe and opens none.
LEMMA IdleCall ==
    ASSUME NEW p \in Proc, pc'[p] \in {"user", "unused", "fileclose"},
           pc'[p] = "fileclose" <=> todo'[p] # NoTodo,
           exiting'[p] = 1 => pc'[p] = "fileclose" /\ ofile'[p] = NoFds,
           pc'[p] = "unused" => ofile'[p] = NoFds
    PROVE  CallOK(p)'
BY Zenon DEF CallOK, Opening, Closing, Reading, Writing

LEMMA IdleFacts ==
    ASSUME PipeInv, NEW p \in Proc, pc[p] \in {"user", "unused"}
    PROVE  todo[p] = NoTodo /\ exiting[p] # 1 /\ (pc[p] = "unused" => ofile[p] = NoFds)
<1>1. CallOK(p) BY Zenon DEF PipeInv, CallInv
<1>2. QED BY <1>1, Zenon DEF CallOK, Opening, Closing

\* A step of a call that leaves the pipes alone.
LEMMA QuietInv ==
    ASSUME Counting, PipeInv, NEW p \in Proc, PipeTypeOK', Others(p), Balanced(p), OthersFiles(p), FilesOK(p),
           EndsKept, Away(p), CallOK(p)', Fresh', UNCHANGED pipe
    PROVE  PipeInv'
<1>1. HeldOpen BY Referred, Zenon DEF AllOpen
<1>2. RefInv' BY RefKept, Zenon
<1>3. CallInv' BY CallKept, Zenon DEF CallInv
<1>4. EndInv' BY EndKept, Zenon
<1>5. pc[p] \notin Critical /\ pc'[p] \notin Critical BY Zenon DEF Away
<1>6. LockInv' BY <1>1, <1>5, LockKept, Zenon
<1>7. QED BY <1>2, <1>3, <1>4, <1>6, Zenon DEF PipeInv

-----------------------------------------------------------------------------
(* Descriptors *)

LEMMA FdsFacts ==
    ASSUME PipeTypeOK, NEW p \in Proc, NEW g \in [Fd -> File \cup {NoFile}], ofile' = [ofile EXCEPT ![p] = g]
    PROVE  ofile' \in [Proc -> [Fd -> File \cup {NoFile}]] /\ ofile'[p] = g /\ OnlyOf(ofile, ofile', p)
<1>1. ofile \in [Proc -> [Fd -> File \cup {NoFile}]] BY Zenon DEF PipeTypeOK
<1>2. QED BY <1>1, Zenon DEF OnlyOf

LEMMA TodoFacts ==
    ASSUME PipeTypeOK, NEW p \in Proc, NEW t \in [Slot -> File \cup {NoFile}], todo' = [todo EXCEPT ![p] = t]
    PROVE  todo' \in [Proc -> [Slot -> File \cup {NoFile}]] /\ todo'[p] = t /\ OnlyOf(todo, todo', p)
<1>1. todo \in [Proc -> [Slot -> File \cup {NoFile}]] BY Zenon DEF PipeTypeOK
<1>2. QED BY <1>1, Zenon DEF OnlyOf

LEMMA RefFacts ==
    ASSUME PipeTypeOK, NEW f \in File, NEW n \in Nat,
           file' = [file EXCEPT ![f] = [file[f] EXCEPT !.ref = n]]
    PROVE  /\ file' \in [File -> FileRec] /\ file'[f].ref = n
           /\ \A g \in File : g # f => file'[g] = file[g]
           /\ \A g \in File : SameFile(g)
<1>1. file \in [File -> FileRec] BY Zenon DEF PipeTypeOK
<1>2. PICK r \in FileRec : r = file[f] BY <1>1, Zenon
<1>3. [r EXCEPT !.ref = n] \in FileRec BY Zenon DEF FileRec
<1>4. file' = [file EXCEPT ![f] = [r EXCEPT !.ref = n]] BY <1>2, Zenon
<1>5. file'[f] = [r EXCEPT !.ref = n] BY <1>1, <1>4, Zenon
<1>6. \A g \in File : g # f => file'[g] = file[g] BY <1>1, <1>4, Zenon
<1>7. file' \in [File -> FileRec] BY <1>1, <1>3, <1>4, Zenon
<1>8. file'[f].ref = n /\ SameFile(f) BY <1>2, <1>5 DEF FileRec, SameFile
<1>9. QED BY <1>6, <1>7, <1>8, Zenon DEF SameFile

\* When no file changes its kind.
LEMMA OthersSame ==
    ASSUME PipeTypeOK, NEW p \in Proc, \A g \in File : SameFile(g)
    PROVE  OthersFiles(p)
<1>1. /\ ofile \in [Proc -> [Fd -> File \cup {NoFile}]] /\ todo \in [Proc -> [Slot -> File \cup {NoFile}]]
  BY Zenon DEF PipeTypeOK
<1>2. QED BY <1>1, Zenon DEF OthersFiles

LEMMA FreeFdMin ==
    ASSUME Counting, NEW p \in Proc, NEW S \in SUBSET FreeFds(p), S # {}
    PROVE  Min(S) \in S /\ Min(S) \in Fd /\ ofile[p][Min(S)] = NoFile
<1>1. S \in SUBSET Int /\ \A x \in S : 0 =< x BY ConstantsOK DEF FreeFds, Fd
<1>2. HasMin BY Zenon DEF Counting
<1>3. Min(S) \in S BY <1>1, <1>2 DEF HasMin
<1>4. QED BY <1>3, Zenon DEF FreeFds

LEMMA DupInv ==
    ASSUME Counting, PipeInv, NEW p \in Proc, NEW d \in Fd, sys_dup(p, d)
    PROVE  PipeInv'
<1>1. pc[p] = "user" /\ ofile[p][d] # NoFile /\ FreeFds(p) # {} BY Zenon DEF sys_dup, AtUser
<1>2. PipeTypeOK /\ RefInv /\ AllOpen BY Referred, Zenon DEF PipeInv
<1>3. ofile[p] \in [Fd -> File \cup {NoFile}] BY <1>2, Zenon DEF PipeTypeOK
<1>4. PICK f \in File : f = ofile[p][d] BY <1>1, <1>3, Zenon
<1>5. PICK k \in Fd : k = Min(FreeFds(p)) /\ ofile[p][k] = NoFile BY <1>1, FreeFdMin, Zenon
<1>6. PICK n \in Nat : n = file[f].ref + 1 BY RefTotal
<1>7. PICK g \in [Fd -> File \cup {NoFile}] : g = [ofile[p] EXCEPT ![k] = f] BY <1>3, Zenon
<1>8. /\ ofile' = [ofile EXCEPT ![p] = g] /\ file' = [file EXCEPT ![f] = [file[f] EXCEPT !.ref = n]]
      /\ UNCHANGED <<pipe, pc, todo, cpipe, left, writable, exiting, killed, out>>
  BY <1>4, <1>5, <1>6, <1>7, Zenon DEF sys_dup, filedup, locals
<1>9. ofile' \in [Proc -> [Fd -> File \cup {NoFile}]] /\ ofile'[p] = g /\ OnlyOf(ofile, ofile', p)
  BY <1>2, <1>8, FdsFacts, Zenon
<1>10. /\ file' \in [File -> FileRec] /\ file'[f].ref = n /\ \A x \in File : SameFile(x)
       /\ \A x \in File : x # f => file'[x] = file[x]
  BY <1>2, <1>8, RefFacts, Zenon
<1>11. PipeTypeOK' BY <1>2, <1>8, <1>9, <1>10, Zenon DEF PipeTypeOK
<1>12. Others(p) BY <1>8, <1>9, Zenon DEF Others, OnlyOf
<1>13. file[f].ref > 0 /\ file[f].type = "pipe" /\ n > 0
  <2>1. n > 0 BY <1>6, RefTotal
  <2>2. QED BY <1>1, <1>2, <1>4, <2>1, Zenon DEF AllOpen, HeldOpen, RefInv
<1>14. Balanced(p)
  <2> SUFFICES ASSUME NEW x \in File
               PROVE  file'[x].ref = file[x].ref - Uses(ofile[p], todo[p], x) + Uses(ofile'[p], todo'[p], x)
    BY Zenon DEF Balanced
  <2>1. UsesNat /\ FdCount BY Zenon DEF Counting
  <2> DEFINE h == ofile[p]
             t == todo[p]
  <2>2. OnlyAt(h, g, Fd, k) /\ h[k] = NoFile /\ g[k] = f BY <1>3, <1>5, <1>7, Zenon DEF OnlyAt
  <2>3. h = ofile[p] /\ t = todo[p] BY Zenon
  <2> HIDE DEF h, t
  <2>4. Uses(g, t, x) = Uses(h, t, x) - (IF h[k] = x THEN 1 ELSE 0) + (IF g[k] = x THEN 1 ELSE 0)
    BY <2>1, <2>2 DEF FdCount
  <2>5. Uses(h, t, x) \in Nat BY <2>1, Zenon DEF UsesNat
  <2>6. file'[x].ref = file[x].ref + (IF f = x THEN 1 ELSE 0) BY <1>6, <1>10, RefTotal
  <2>7. file'[x].ref = file[x].ref - Uses(h, t, x) + Uses(g, t, x)
    BY <2>2, <2>4, <2>5, <2>6, RealFile, RefTotal
  <2>8. QED BY <1>8, <1>9, <2>3, <2>7, Zenon
<1>15. OthersFiles(p) BY <1>2, <1>10, OthersSame, Zenon
<1>16. FilesOK(p)
  <2>1. ASSUME NEW x \in File, file'[x].ref = 0 PROVE file'[x].type = "none"
    <3>1. x # f BY <1>10, <1>13, <2>1
    <3>2. QED BY <1>2, <1>10, <2>1, <3>1, Zenon DEF RefInv
  <2>2. ASSUME NEW e \in Fd, g[e] # NoFile PROVE file'[g[e]].type = "pipe"
    <3>1. g[e] \in File /\ file[g[e]].type = "pipe" BY <1>2, <1>3, <1>7, <1>13, <2>2, Zenon DEF RefInv
    <3>2. QED BY <1>10, <3>1, Zenon DEF SameFile
  <2>3. QED BY <1>9, <2>1, <2>2, Zenon DEF FilesOK
<1>17. EndsKept
  <2>1. \A x \in File : file'[x].ref > 0 <=> file[x].ref > 0 BY <1>10, <1>13, Zenon
  <2>2. QED BY <1>10, <2>1, Zenon DEF EndsKept, OpenEnd, SameFile
<1>18. Away(p) BY <1>1, <1>8, Zenon DEF Away, Critical
<1>19. todo[p] = NoTodo /\ exiting[p] # 1 BY <1>1, IdleFacts, Zenon
<1>20. CallOK(p)' BY <1>1, <1>8, <1>19, IdleCall, Zenon
<1>21. Fresh' BY <1>1, <1>8, <1>12, FreshKept, Zenon DEF OldFiles
<1>22. QED BY <1>8, <1>11, <1>12, <1>14, <1>15, <1>16, <1>17, <1>18, <1>20, <1>21, QuietInv, Zenon

\* The files are as they were.
LEMMA FilesSame ==
    ASSUME PipeInv, NEW p \in Proc, UNCHANGED file
    PROVE  /\ OthersFiles(p) /\ EndsKept
           /\ (\A d \in Fd : ofile'[p][d] # NoFile => file[ofile'[p][d]].type = "pipe") => FilesOK(p)
<1>1. OthersFiles(p) BY Zenon DEF OthersFiles, SameFile
<1>2. EndsKept BY Zenon DEF EndsKept, OpenEnd, SameFile
<1>3. RefInv BY Zenon DEF PipeInv
<1>4. QED BY <1>1, <1>2, <1>3, Zenon DEF FilesOK, RefInv

\* Descriptor d is out of the table, and its file is the one that the call closes.
LEMMA CloseInv ==
    ASSUME Counting, PipeInv, NEW p \in Proc, NEW d \in Fd, sys_close(p, d)
    PROVE  PipeInv'
<1>1. pc[p] = "user" /\ ofile[p][d] # NoFile BY Zenon DEF sys_close, AtUser
<1>2. PipeTypeOK /\ RefInv BY Zenon DEF PipeInv
<1>3. ofile[p] \in [Fd -> File \cup {NoFile}] /\ todo[p] \in [Slot -> File \cup {NoFile}] BY <1>2, Zenon DEF PipeTypeOK
<1>4. PICK f \in File : f = ofile[p][d] BY <1>1, <1>3, Zenon
<1>5. PICK g \in [Fd -> File \cup {NoFile}] : g = [ofile[p] EXCEPT ![d] = NoFile] BY <1>3, Zenon
<1>6. d \in Slot BY Places, Zenon
<1>7. PICK t \in [Slot -> File \cup {NoFile}] : t = [todo[p] EXCEPT ![d] = f] BY <1>3, Zenon
<1>8. /\ ofile' = [ofile EXCEPT ![p] = g] /\ todo' = [todo EXCEPT ![p] = t] /\ Goto(p, "fileclose")
      /\ UNCHANGED <<file, pipe, cpipe, left, writable, exiting, killed, out>>
  BY <1>4, <1>5, <1>7, Zenon DEF sys_close
<1>9. ofile' \in [Proc -> [Fd -> File \cup {NoFile}]] /\ ofile'[p] = g /\ OnlyOf(ofile, ofile', p)
  BY <1>2, <1>8, FdsFacts, Zenon
<1>10. todo' \in [Proc -> [Slot -> File \cup {NoFile}]] /\ todo'[p] = t /\ OnlyOf(todo, todo', p)
  BY <1>2, <1>8, TodoFacts, Zenon
<1>11. pc' \in [Proc -> Labels] /\ pc'[p] = "fileclose" /\ \A q \in Proc : q # p => pc'[q] = pc[q]
  BY <1>2, <1>8, GotoFacts, Zenon DEF Labels, Closing
<1>12. PipeTypeOK' BY <1>2, <1>8, <1>9, <1>10, <1>11, Zenon DEF PipeTypeOK
<1>13. Others(p) BY <1>8, <1>9, <1>10, <1>11, Zenon DEF Others, OnlyOf
<1>14. todo[p] = NoTodo /\ exiting[p] # 1 BY <1>1, IdleFacts, Zenon
<1>15. Balanced(p)
  <2> SUFFICES ASSUME NEW x \in File
               PROVE  file'[x].ref = file[x].ref - Uses(ofile[p], todo[p], x) + Uses(ofile'[p], todo'[p], x)
    BY Zenon DEF Balanced
  <2>1. UsesNat /\ FdCount /\ SlotCount BY Zenon DEF Counting
  <2> DEFINE h == ofile[p]
             u == todo[p]
  <2>2. OnlyAt(h, g, Fd, d) /\ h[d] = f /\ g[d] = NoFile BY <1>3, <1>4, <1>5, Zenon DEF OnlyAt
  <2>3. OnlyAt(u, t, Slot, d) /\ u[d] = NoFile /\ t[d] = f BY <1>3, <1>6, <1>7, <1>14, Zenon DEF OnlyAt, NoTodo
  <2>4. h = ofile[p] /\ u = todo[p] BY Zenon
  <2> HIDE DEF h, u
  <2>5. Uses(g, u, x) = Uses(h, u, x) - (IF h[d] = x THEN 1 ELSE 0) + (IF g[d] = x THEN 1 ELSE 0)
    BY <2>1, <2>2 DEF FdCount
  <2>6. Uses(g, t, x) = Uses(g, u, x) - (IF u[d] = x THEN 1 ELSE 0) + (IF t[d] = x THEN 1 ELSE 0)
    BY <1>6, <2>1, <2>3 DEF SlotCount
  <2>7. Uses(h, u, x) \in Nat BY <2>1, Zenon DEF UsesNat
  <2>8. Uses(g, t, x) = Uses(h, u, x) BY <2>2, <2>3, <2>5, <2>6, <2>7, RealFile
  <2>9. QED BY <1>8, <1>9, <1>10, <2>4, <2>7, <2>8, RefTotal
<1>16. OthersFiles(p) /\ EndsKept /\ FilesOK(p)
  <2>1. \A e \in Fd : g[e] # NoFile => file[g[e]].type = "pipe" BY <1>2, <1>3, <1>5, Zenon DEF RefInv
  <2>2. QED BY <1>8, <1>9, <2>1, FilesSame, Zenon
<1>17. Away(p) BY <1>1, <1>11, Zenon DEF Away, Critical
<1>18. CallOK(p)'
  <2>1. t # NoTodo BY <1>3, <1>6, <1>7, RealFile, Zenon DEF NoTodo
  <2>2. QED BY <1>8, <1>10, <1>11, <1>14, <2>1, IdleCall, Zenon
<1>19. Fresh'
  <2>1. OldFiles(p) BY <1>1, <1>2, <1>3, <1>4, <1>7, <1>10 DEF OldFiles, RefInv
  <2>2. QED BY <1>11, <1>13, <2>1, FreshKept, Zenon
<1>20. QED BY <1>8, <1>12, <1>13, <1>15, <1>16, <1>17, <1>18, <1>19, QuietInv, Zenon

\* All descriptors of p are files that its exit() closes.
LEMMA ExitInv ==
    ASSUME Counting, PipeInv, NEW p \in Proc, exit(p)
    PROVE  PipeInv'
<1>1. pc[p] = "user" BY Zenon DEF exit
<1>2. PipeTypeOK /\ RefInv BY Zenon DEF PipeInv
<1>3. ofile[p] \in [Fd -> File \cup {NoFile}] /\ NoFds \in [Fd -> File \cup {NoFile}] BY <1>2, Zenon DEF PipeTypeOK, NoFds
<1>4. PICK t \in [Slot -> File \cup {NoFile}] : t = [i \in Slot |-> IF i \in Fd THEN ofile[p][i] ELSE NoFile] BY <1>3, Zenon
<1>5. \A i \in Slot : t[i] = IF i \in Fd THEN ofile[p][i] ELSE NoFile BY <1>4, Zenon
<1>6. PICK l \in {"unused", "fileclose"} : l = IF ofile[p] = NoFds THEN "unused" ELSE "fileclose" BY Zenon
<1>7. PICK x \in {0, 1} : x = IF ofile[p] = NoFds THEN 0 ELSE 1 BY Zenon
<1>8. /\ ofile' = [ofile EXCEPT ![p] = NoFds] /\ todo' = [todo EXCEPT ![p] = t] /\ Goto(p, l)
      /\ exiting' = [exiting EXCEPT ![p] = x]
      /\ UNCHANGED <<file, pipe, cpipe, left, writable, killed, out>>
  BY <1>4, <1>6, <1>7, Zenon DEF exit
<1>9. t # NoTodo <=> ofile[p] # NoFds
  <2>1. ASSUME t = NoTodo PROVE ofile[p] = NoFds
    <3>1. \A i \in Fd : ofile[p][i] = NoFile BY <1>5, <2>1, Places, Zenon DEF NoTodo
    <3>2. QED BY <1>3, <3>1, Zenon DEF NoFds
  <2>2. ASSUME ofile[p] = NoFds PROVE t = NoTodo
    <3>1. \A i \in Slot : t[i] = NoFile BY <1>5, <2>2, Zenon DEF NoFds
    <3>2. QED BY <3>1, Zenon DEF NoTodo
  <2>3. QED BY <2>1, <2>2, Zenon
<1>10. ofile' \in [Proc -> [Fd -> File \cup {NoFile}]] /\ ofile'[p] = NoFds /\ OnlyOf(ofile, ofile', p)
  BY <1>2, <1>3, <1>8, FdsFacts, Zenon
<1>11. todo' \in [Proc -> [Slot -> File \cup {NoFile}]] /\ todo'[p] = t /\ OnlyOf(todo, todo', p)
  BY <1>2, <1>8, TodoFacts, Zenon
<1>12. exiting' \in [Proc -> {0, 1}] /\ exiting'[p] = x /\ OnlyOf(exiting, exiting', p)
  <2>1. exiting \in [Proc -> {0, 1}] BY <1>2, Zenon DEF PipeTypeOK
  <2>2. QED BY <1>8, <2>1, Zenon DEF OnlyOf
<1>13. pc' \in [Proc -> Labels] /\ pc'[p] = l /\ \A q \in Proc : q # p => pc'[q] = pc[q]
  <2>1. l \in Labels BY Zenon DEF Labels, Closing
  <2>2. QED BY <1>2, <1>8, <2>1, GotoFacts, Zenon
<1>14. PipeTypeOK' BY <1>2, <1>8, <1>10, <1>11, <1>12, <1>13, Zenon DEF PipeTypeOK
<1>15. Others(p) BY <1>8, <1>10, <1>11, <1>12, <1>13, Zenon DEF Others, OnlyOf
<1>16. todo[p] = NoTodo BY <1>1, IdleFacts, Zenon
<1>17. Balanced(p)
  <2> SUFFICES ASSUME NEW y \in File
               PROVE  file'[y].ref = file[y].ref - Uses(ofile[p], todo[p], y) + Uses(ofile'[p], todo'[p], y)
    BY Zenon DEF Balanced
  <2>1. UsesNat /\ ExitUses BY Zenon DEF Counting
  <2> DEFINE h == ofile[p]
  <2>2. \A i \in Slot : t[i] = IF i \in Fd THEN h[i] ELSE NoFile BY <1>5, Zenon
  <2>3. h = ofile[p] BY Zenon
  <2> HIDE DEF h
  <2>4. Uses(NoFds, t, y) = Uses(h, NoTodo, y) BY <2>1, <2>2, Zenon DEF ExitUses
  <2>5. Uses(h, NoTodo, y) \in Nat BY <2>1, Zenon DEF UsesNat
  <2>6. QED BY <1>8, <1>10, <1>11, <1>16, <2>3, <2>4, <2>5, RefTotal
<1>18. OthersFiles(p) /\ EndsKept /\ FilesOK(p)
  <2>1. \A e \in Fd : ofile'[p][e] = NoFile BY <1>10, Zenon DEF NoFds
  <2>2. QED BY <1>8, <2>1, FilesSame, Zenon
<1>19. Away(p) BY <1>1, <1>13, Zenon DEF Away, Critical
<1>20. CallOK(p)' BY <1>6, <1>7, <1>9, <1>10, <1>11, <1>12, <1>13, IdleCall
<1>21. Fresh'
  <2>1. OldFiles(p) BY <1>2, <1>5, <1>11 DEF OldFiles, RefInv
  <2>2. QED BY <1>13, <1>15, <2>1, FreshKept, Zenon
<1>22. QED BY <1>8, <1>14, <1>15, <1>17, <1>18, <1>19, <1>20, <1>21, QuietInv, Zenon

\* The slot of the child was unused, and gets a reference for each of the parent's.
LEMMA ForkInv ==
    ASSUME Counting, PipeInv, NEW p \in Proc, NEW q \in Proc, fork(p, q)
    PROVE  PipeInv'
<1>1. pc[q] = "unused" BY Zenon DEF fork
<1>2. PipeTypeOK /\ RefInv BY Zenon DEF PipeInv
<1>3. ofile[q] = NoFds /\ todo[q] = NoTodo /\ exiting[q] # 1 BY <1>1, IdleFacts, Zenon
<1>4. PICK g \in [Fd -> File \cup {NoFile}] : g = ofile[p] BY <1>2, Zenon DEF PipeTypeOK
<1> DEFINE more(f) == Cardinality(Row(g, Fd, f))
<1>5. /\ ofile' = [ofile EXCEPT ![q] = g] /\ Goto(q, "user") /\ killed' = [killed EXCEPT ![q] = 0]
      /\ file' = [f \in File |-> [file[f] EXCEPT !.ref = file[f].ref + more(f)]]
      /\ UNCHANGED <<pipe, todo, cpipe, left, writable, exiting, out>>
  BY <1>4, Zenon DEF fork, locals, Row
<1>6. \A f \in File : more(f) = Uses(g, NoTodo, f) /\ more(f) \in Nat
  <2>1. UsesNat /\ FdUses BY Zenon DEF Counting
  <2>2. QED BY <2>1, Zenon DEF UsesNat, FdUses
<1> HIDE DEF more
<1>7. ofile' \in [Proc -> [Fd -> File \cup {NoFile}]] /\ ofile'[q] = g /\ OnlyOf(ofile, ofile', q)
  BY <1>2, <1>5, FdsFacts, Zenon
<1>8. pc' \in [Proc -> Labels] /\ pc'[q] = "user" /\ \A r \in Proc : r # q => pc'[r] = pc[r]
  BY <1>2, <1>5, GotoFacts, Zenon DEF Labels
<1>9. ASSUME NEW f \in File
      PROVE  /\ file'[f] \in FileRec /\ SameFile(f) /\ file'[f].ref = file[f].ref + more(f)
  <2>1. PICK r \in FileRec : r = file[f] BY <1>2, Zenon DEF PipeTypeOK
  <2>2. PICK n \in Nat : n = r.ref + more(f) BY <1>6 DEF FileRec
  <2>3. [r EXCEPT !.ref = n] \in FileRec BY Zenon DEF FileRec
  <2>4. file'[f] = [r EXCEPT !.ref = n] BY <1>5, <2>1, <2>2, Zenon
  <2>5. QED BY <2>1, <2>2, <2>3, <2>4, Zenon DEF FileRec, SameFile
<1>10. file' \in [File -> FileRec] BY <1>5, <1>9, Zenon
<1>11. killed' \in [Proc -> {0, 1}] BY <1>2, <1>5, Zenon DEF PipeTypeOK
<1>12. PipeTypeOK' BY <1>2, <1>5, <1>7, <1>8, <1>10, <1>11, Zenon DEF PipeTypeOK
<1>13. Others(q) BY <1>5, <1>7, <1>8, Zenon DEF Others, OnlyOf
<1>14. Balanced(q)
  <2>1. UsesNat /\ NoUses BY Zenon DEF Counting
  <2>2. ASSUME NEW f \in File
        PROVE  file'[f].ref = file[f].ref - Uses(NoFds, NoTodo, f) + Uses(g, NoTodo, f)
    BY <1>6, <1>9, <2>1, RefTotal DEF NoUses
  <2>3. QED BY <1>3, <1>5, <1>7, <2>2, Zenon DEF Balanced
<1>15. OthersFiles(q) BY <1>2, <1>9, OthersSame, Zenon
<1>16. \A f \in File : file'[f].ref = 0 => file[f].ref = 0 BY <1>6, <1>9, RefTotal
<1>17. FilesOK(q)
  <2>1. \A f \in File : file'[f].ref = 0 => file'[f].type = "none" BY <1>2, <1>9, <1>16 DEF RefInv, SameFile
  <2>2. \A e \in Fd : g[e] # NoFile => file[g[e]].type = "pipe" BY <1>2, <1>4, Zenon DEF RefInv
  <2>3. QED BY <1>7, <1>9, <2>1, <2>2 DEF FilesOK, SameFile
<1>18. EndsKept
  <2>1. \A f \in File : file[f].ref = 0 => file[f].type # "pipe" BY <1>2, Zenon DEF RefInv
  <2>2. QED BY <1>6, <1>9, <2>1, RefTotal DEF EndsKept, OpenEnd, SameFile
<1>19. Away(q) BY <1>1, <1>8, Zenon DEF Away, Critical
<1>20. CallOK(q)' BY <1>3, <1>5, <1>8, IdleCall, Zenon
<1>21. Fresh' BY <1>5, <1>8, <1>13, FreshKept, Zenon DEF OldFiles
<1>22. QED BY <1>5, <1>12, <1>13, <1>14, <1>15, <1>17, <1>18, <1>19, <1>20, <1>21, QuietInv, Zenon

-----------------------------------------------------------------------------
(* pipe() *)

\* The file was free, so nothing refers to it, and it is the one that pipe() takes.
LEMMA FileAllocInv ==
    ASSUME Counting, PipeInv, NEW p \in Proc, NEW i \in {Rf, Wf}, NEW l \in {"filealloc", "kalloc"},
           filealloc(p, i), Goto(p, l),
           \/ pc[p] = "user" /\ i = Rf /\ l = "filealloc"
           \/ pc[p] = "filealloc" /\ i = Wf /\ l = "kalloc"
    PROVE  PipeInv'
<1>1. PipeTypeOK /\ RefInv /\ AllOpen /\ Fresh /\ CallOK(p) BY Referred, Zenon DEF PipeInv, CallInv
<1>2. PICK f \in File : f = Min(FreeFiles) /\ file[f].ref = 0
  <2>1. PICK S \in SUBSET Int : S = FreeFiles /\ S # {} /\ \A x \in S : 0 =< x
    BY ConstantsOK DEF FreeFiles, File, filealloc
  <2>2. HasMin BY Zenon DEF Counting
  <2>3. Min(S) \in S BY <2>1, <2>2 DEF HasMin
  <2>4. Min(S) \in File /\ file[Min(S)].ref = 0 BY <2>1, <2>3, Zenon DEF FreeFiles
  <2>5. QED BY <2>1, <2>4, Zenon
<1>3. todo[p] \in [Slot -> File \cup {NoFile}] BY <1>1, Zenon DEF PipeTypeOK
<1>4. i \in Slot /\ i \notin Fd BY Places, Zenon
<1>5. PICK t \in [Slot -> File \cup {NoFile}] : t = [todo[p] EXCEPT ![i] = f] BY <1>3, Zenon
<1>6. /\ file' = [file EXCEPT ![f] = [file[f] EXCEPT !.ref = 1]] /\ todo' = [todo EXCEPT ![p] = t]
      /\ UNCHANGED <<ofile, pipe, cpipe, left, writable, exiting, killed, out>>
  BY <1>2, <1>5, Zenon DEF filealloc
<1>7. /\ file' \in [File -> FileRec] /\ file'[f].ref = 1 /\ \A x \in File : SameFile(x)
      /\ \A x \in File : x # f => file'[x] = file[x]
  BY <1>1, <1>6, RefFacts, Zenon
<1>8. todo' \in [Proc -> [Slot -> File \cup {NoFile}]] /\ todo'[p] = t /\ OnlyOf(todo, todo', p)
  BY <1>1, <1>6, TodoFacts, Zenon
<1>9. pc' \in [Proc -> Labels] /\ pc'[p] = l /\ \A q \in Proc : q # p => pc'[q] = pc[q]
  <2>1. l \in Labels BY Zenon DEF Labels, Opening
  <2>2. QED BY <1>1, <2>1, GotoFacts, Zenon
<1>10. PipeTypeOK' BY <1>1, <1>6, <1>7, <1>8, <1>9, Zenon DEF PipeTypeOK
<1>11. Others(p) BY <1>6, <1>8, <1>9, Zenon DEF Others, OnlyOf
<1>12. t[i] = f /\ \A j \in Slot : j # i => t[j] = todo[p][j] BY <1>3, <1>4, <1>5, Zenon
<1>13. /\ todo[p][i] = NoFile /\ exiting[p] # 1
       /\ \A e \in Fd : todo[p][e] = NoFile
       /\ l = "kalloc" => todo[p][Rf] # NoFile /\ file[todo[p][Rf]].type = "none"
       /\ l = "filealloc" => \A j \in Slot : todo[p][j] = NoFile
  <2>1. CASE pc[p] = "user" /\ l = "filealloc"
    <3>1. todo[p] = NoTodo /\ exiting[p] # 1 BY <2>1, IdleFacts, Zenon
    <3>2. QED BY <1>4, <2>1, <3>1, Places, Zenon DEF NoTodo
  <2>2. CASE pc[p] = "filealloc" /\ i = Wf /\ l = "kalloc"
    BY <1>1, <2>2, Places, Zenon DEF CallOK, Opening, Closing
  <2>3. QED BY <2>1, <2>2, Zenon
<1>14. \A q \in Proc : (\A e \in Fd : ofile[q][e] # f) /\ (\A j \in Slot : todo[q][j] # f)
  BY <1>1, <1>2, RealFile DEF AllOpen, HeldOpen
<1>15. file[f].type = "none" BY <1>1, <1>2, Zenon DEF RefInv
<1>16. Balanced(p)
  <2> SUFFICES ASSUME NEW x \in File
               PROVE  file'[x].ref = file[x].ref - Uses(ofile[p], todo[p], x) + Uses(ofile'[p], todo'[p], x)
    BY Zenon DEF Balanced
  <2>1. UsesNat /\ SlotCount BY Zenon DEF Counting
  <2> DEFINE h == ofile[p]
             u == todo[p]
  <2>2. OnlyAt(u, t, Slot, i) /\ u[i] = NoFile /\ t[i] = f BY <1>12, <1>13, Zenon DEF OnlyAt
  <2>3. h = ofile[p] /\ u = todo[p] BY Zenon
  <2> HIDE DEF h, u
  <2>4. Uses(h, t, x) = Uses(h, u, x) - (IF u[i] = x THEN 1 ELSE 0) + (IF t[i] = x THEN 1 ELSE 0)
    BY <1>4, <2>1, <2>2 DEF SlotCount
  <2>5. Uses(h, u, x) \in Nat BY <2>1, Zenon DEF UsesNat
  <2>6. file'[x].ref = file[x].ref + (IF f = x THEN 1 ELSE 0) BY <1>2, <1>7, RefTotal
  <2>7. file'[x].ref = file[x].ref - Uses(h, u, x) + Uses(h, t, x)
    BY <2>2, <2>4, <2>5, <2>6, RealFile, RefTotal
  <2>8. QED BY <1>6, <1>8, <2>3, <2>7, Zenon
<1>17. OthersFiles(p) BY <1>1, <1>7, OthersSame, Zenon
<1>18. FilesOK(p)
  <2>1. \A x \in File : file'[x].ref = 0 => file'[x].type = "none" BY <1>1, <1>7 DEF RefInv
  <2>2. ASSUME NEW e \in Fd, ofile[p][e] # NoFile PROVE file'[ofile[p][e]].type = "pipe"
    <3>1. ofile[p][e] \in File /\ file[ofile[p][e]].type = "pipe" BY <1>1, <2>2 DEF RefInv, PipeTypeOK
    <3>2. QED BY <1>7, <3>1, Zenon DEF SameFile
  <2>3. QED BY <1>6, <2>1, <2>2, Zenon DEF FilesOK
<1>19. EndsKept BY <1>7, <1>15, Zenon DEF EndsKept, OpenEnd, SameFile
<1>20. Away(p) BY <1>9, Zenon DEF Away, Critical
<1>21. CallOK(p)'
  <2>1. t[Rf] # NoFile /\ \A e \in Fd : t[e] = NoFile BY <1>4, <1>12, <1>13, Places, RealFile, Zenon
  <2>2. t[Wf] # NoFile <=> l # "filealloc" BY <1>12, <1>13, Places, RealFile, Zenon
  <2>3. ASSUME NEW j \in Slot, t[j] # NoFile PROVE file'[t[j]].type = "none"
    <3>1. t[j] \in File /\ file[t[j]].type = "none" BY <1>12, <1>13, <1>15, <2>3, Places, Zenon
    <3>2. QED BY <1>7, <3>1, Zenon DEF SameFile
  <2>4. exiting'[p] # 1 BY <1>6, <1>13, Zenon
  <2>5. QED BY <1>8, <1>9, <2>1, <2>2, <2>3, <2>4, Zenon DEF CallOK, Opening, Closing, Reading, Writing
<1>22. Fresh'
  <2> SUFFICES ASSUME NEW r \in Proc, NEW q \in Proc, NEW j \in Slot, NEW k \in Slot,
                      pc'[r] \in {"filealloc", "kalloc"}, todo'[r][j] # NoFile, todo'[q][k] = todo'[r][j]
               PROVE  q = r /\ k = j
    BY DEF Fresh
  <2>1. \A v \in Proc, m \in Slot : todo'[v][m] = IF v = p /\ m = i THEN f ELSE todo[v][m]
    BY <1>8, <1>12, Zenon DEF OnlyOf
  <2>2. CASE todo'[r][j] = f BY <1>14, <2>1, <2>2
  <2>3. CASE todo'[r][j] # f
    <3>1. todo[r][j] = todo'[r][j] /\ todo[q][k] = todo'[q][k] BY <2>1, <2>3, Zenon
    <3>2. pc[r] \in {"filealloc", "kalloc"} BY <1>9, <1>13, <3>1, Zenon
    <3>3. QED BY <1>1, <3>1, <3>2 DEF Fresh
  <2>4. QED BY <2>2, <2>3, Zenon
<1>23. QED BY <1>6, <1>10, <1>11, <1>16, <1>17, <1>18, <1>19, <1>20, <1>21, <1>22, QuietInv, Zenon

LEMMA SysPipeInv ==
    ASSUME Counting, PipeInv, NEW p \in Proc, sys_pipe(p)
    PROVE  PipeInv'
BY FileAllocInv, Zenon DEF sys_pipe, AtUser

LEMMA SecondFileInv ==
    ASSUME Counting, PipeInv, NEW p \in Proc, pipealloc_file(p)
    PROVE  PipeInv'
BY FileAllocInv, Zenon DEF pipealloc_file

\* The call gives up, and closes the files that it has taken.
LEMMA GiveUpInv ==
    ASSUME Counting, PipeInv, NEW p \in Proc, pc[p] \in Opening, Goto(p, "fileclose"),
           UNCHANGED <<ofile, file, pipe, todo, cpipe, left, writable, exiting, killed, out>>
    PROVE  PipeInv'
<1>1. PipeTypeOK /\ RefInv /\ CallOK(p) BY Zenon DEF PipeInv, CallInv
<1>2. pc' \in [Proc -> Labels] /\ pc'[p] = "fileclose" /\ \A q \in Proc : q # p => pc'[q] = pc[q]
  BY <1>1, GotoFacts, Zenon DEF Labels, Closing
<1>3. PipeTypeOK' BY <1>1, <1>2, Zenon DEF PipeTypeOK
<1>4. Others(p) BY <1>2, Zenon DEF Others, OnlyOf
<1>5. Balanced(p)
  <2>1. UsesNat BY Zenon DEF Counting
  <2>2. \A x \in File : Uses(ofile[p], todo[p], x) \in Nat BY <2>1, Zenon DEF UsesNat
  <2>3. QED BY <2>2, RefTotal DEF Balanced
<1>6. OthersFiles(p) /\ EndsKept /\ FilesOK(p)
  <2>1. \A d \in Fd : ofile[p][d] # NoFile => file[ofile[p][d]].type = "pipe" BY <1>1, Zenon DEF RefInv
  <2>2. QED BY <2>1, FilesSame, Zenon
<1>7. Away(p) BY <1>2, Zenon DEF Away, Critical, Opening
<1>8. todo[p] # NoTodo /\ exiting[p] # 1
  <2>1. todo[p][Rf] # NoFile /\ exiting[p] # 1 BY <1>1, Zenon DEF CallOK, Opening, Closing
  <2>2. QED BY <2>1, Places, Zenon DEF NoTodo
<1>9. CallOK(p)' BY <1>2, <1>8, IdleCall, Zenon
<1>10. Fresh' BY <1>2, <1>4, FreshKept, Zenon DEF OldFiles
<1>11. QED BY <1>3, <1>4, <1>5, <1>6, <1>7, <1>9, <1>10, QuietInv, Zenon

LEMMA BadInv ==
    ASSUME Counting, PipeInv, NEW p \in Proc, pipealloc_bad(p)
    PROVE  PipeInv'
BY GiveUpInv, Zenon DEF pipealloc_bad, locals, Opening

LEMMA FdsInv ==
    ASSUME Counting, PipeInv, NEW p \in Proc, sys_pipe_fds(p)
    PROVE  PipeInv'
<1> DEFINE fd0 == Min(FreeFds(p))
           fd1 == Min(FreeFds(p) \ {fd0})
<1>1. pc[p] = "fdalloc" BY Zenon DEF sys_pipe_fds
<1>2. PipeTypeOK /\ RefInv /\ CallOK(p) BY Zenon DEF PipeInv, CallInv
<1>3. CASE ~(FreeFds(p) # {} /\ FreeFds(p) # {fd0}) BY <1>1, <1>3, GiveUpInv, Zenon DEF sys_pipe_fds, Opening
<1>4. CASE FreeFds(p) # {} /\ FreeFds(p) # {fd0}
  <2>1. PICK a \in Fd : a = fd0 /\ ofile[p][a] = NoFile BY <1>4, FreeFdMin, Zenon
  <2>2. FreeFds(p) \ {a} # {} BY <1>4, <2>1, Zenon
  <2>3. PICK b \in Fd : b = Min(FreeFds(p) \ {a}) /\ b # a /\ ofile[p][b] = NoFile
    <3> DEFINE S == FreeFds(p) \ {a}
    <3>1. S \in SUBSET FreeFds(p) /\ S # {} /\ a \notin S BY <2>2, Zenon
    <3> HIDE DEF S
    <3>2. Min(S) \in S /\ Min(S) \in Fd /\ ofile[p][Min(S)] = NoFile BY <3>1, FreeFdMin, Zenon
    <3>3. QED BY <3>1, <3>2, Zenon DEF S
  <2>4. todo[p] \in [Slot -> File \cup {NoFile}] /\ ofile[p] \in [Fd -> File \cup {NoFile}] BY <1>2, Zenon DEF PipeTypeOK
  <2>5. /\ todo[p][Rf] # NoFile /\ todo[p][Wf] # NoFile /\ exiting[p] # 1 /\ \A i \in Fd : todo[p][i] = NoFile
        /\ \A i \in Slot : todo[p][i] # NoFile => file[todo[p][i]].type = "pipe"
    BY <1>1, <1>2, Zenon DEF CallOK, Opening, Closing
  <2>6. PICK rf \in File : rf = todo[p][Rf] /\ file[rf].type = "pipe" BY <2>4, <2>5, Places, Zenon
  <2>7. PICK wf \in File : wf = todo[p][Wf] /\ file[wf].type = "pipe" BY <2>4, <2>5, Places, Zenon
  <2>8. PICK m \in [Fd -> File \cup {NoFile}] : m = [ofile[p] EXCEPT ![a] = rf] BY <2>4, Zenon
  <2>9. PICK g \in [Fd -> File \cup {NoFile}] : g = [m EXCEPT ![b] = wf] BY <2>8, Zenon
  <2>10. [ofile[p] EXCEPT ![a] = rf, ![b] = wf] = g BY <2>8, <2>9, Zenon
  <2>11. NoTodo \in [Slot -> File \cup {NoFile}] BY Zenon DEF NoTodo
  <2>12. /\ ofile' = [ofile EXCEPT ![p] = g] /\ todo' = [todo EXCEPT ![p] = NoTodo] /\ Goto(p, "user")
         /\ UNCHANGED <<file, pipe, cpipe, left, writable, exiting, killed, out>>
    BY <1>4, <2>1, <2>3, <2>6, <2>7, <2>10, Zenon DEF sys_pipe_fds
  <2>13. ofile' \in [Proc -> [Fd -> File \cup {NoFile}]] /\ ofile'[p] = g /\ OnlyOf(ofile, ofile', p)
    BY <1>2, <2>12, FdsFacts, Zenon
  <2>14. todo' \in [Proc -> [Slot -> File \cup {NoFile}]] /\ todo'[p] = NoTodo /\ OnlyOf(todo, todo', p)
    BY <1>2, <2>11, <2>12, TodoFacts, Zenon
  <2>15. pc' \in [Proc -> Labels] /\ pc'[p] = "user" /\ \A q \in Proc : q # p => pc'[q] = pc[q]
    BY <1>2, <2>12, GotoFacts, Zenon DEF Labels
  <2>16. PipeTypeOK' BY <1>2, <2>12, <2>13, <2>14, <2>15, Zenon DEF PipeTypeOK
  <2>17. Others(p) BY <2>12, <2>13, <2>14, <2>15, Zenon DEF Others, OnlyOf
  <2>18. Balanced(p)
    <3> SUFFICES ASSUME NEW x \in File
                 PROVE  file'[x].ref = file[x].ref - Uses(ofile[p], todo[p], x) + Uses(ofile'[p], todo'[p], x)
      BY Zenon DEF Balanced
    <3>1. UsesNat /\ FdCount /\ SlotCount BY Zenon DEF Counting
    <3> DEFINE h == ofile[p]
               u == todo[p]
               v == [NoTodo EXCEPT ![Rf] = rf]
    <3>2. OnlyAt(h, m, Fd, a) /\ h[a] = NoFile /\ m[a] = rf BY <2>1, <2>4, <2>8, Zenon DEF OnlyAt
    <3>3. OnlyAt(m, g, Fd, b) /\ m[b] = NoFile /\ g[b] = wf BY <2>3, <2>8, <2>9, Zenon DEF OnlyAt
    <3>4. OnlyAt(NoTodo, v, Slot, Rf) /\ NoTodo[Rf] = NoFile /\ v[Rf] = rf BY Places, Zenon DEF OnlyAt, NoTodo
    <3>5. OnlyAt(v, u, Slot, Wf) /\ v[Wf] = NoFile /\ u[Wf] = wf
      BY <2>5, <2>6, <2>7, Places, Zenon DEF OnlyAt, NoTodo
    <3>6. h = ofile[p] /\ u = todo[p] BY Zenon
    <3> HIDE DEF h, u, v
    <3>7. Uses(m, u, x) = Uses(h, u, x) - (IF h[a] = x THEN 1 ELSE 0) + (IF m[a] = x THEN 1 ELSE 0)
      BY <3>1, <3>2 DEF FdCount
    <3>8. Uses(g, u, x) = Uses(m, u, x) - (IF m[b] = x THEN 1 ELSE 0) + (IF g[b] = x THEN 1 ELSE 0)
      BY <3>1, <3>3 DEF FdCount
    <3>9. Uses(g, u, x) = Uses(g, v, x) - (IF v[Wf] = x THEN 1 ELSE 0) + (IF u[Wf] = x THEN 1 ELSE 0)
      BY <3>1, <3>5, Places DEF SlotCount
    <3>10. Uses(g, v, x) = Uses(g, NoTodo, x) - (IF NoTodo[Rf] = x THEN 1 ELSE 0) + (IF v[Rf] = x THEN 1 ELSE 0)
      BY <3>1, <3>4, Places DEF SlotCount
    <3>11. Uses(h, u, x) \in Nat /\ Uses(g, NoTodo, x) \in Nat BY <3>1, Zenon DEF UsesNat
    <3>12. Uses(g, NoTodo, x) = Uses(h, u, x)
      BY <3>2, <3>3, <3>4, <3>5, <3>7, <3>8, <3>9, <3>10, <3>11, RealFile
    <3>13. QED BY <2>12, <2>13, <2>14, <3>6, <3>11, <3>12, RefTotal
  <2>19. OthersFiles(p) /\ EndsKept /\ FilesOK(p)
    <3>1. \A e \in Fd : g[e] # NoFile => file[g[e]].type = "pipe"
      BY <1>2, <2>4, <2>6, <2>7, <2>8, <2>9, Zenon DEF RefInv
    <3>2. QED BY <2>12, <2>13, <3>1, FilesSame, Zenon
  <2>20. Away(p) BY <1>1, <2>15, Zenon DEF Away, Critical
  <2>21. CallOK(p)' BY <2>5, <2>12, <2>14, <2>15, IdleCall, Zenon
  <2>22. Fresh'
    <3>1. OldFiles(p) BY <2>14, Zenon DEF OldFiles, NoTodo
    <3>2. QED BY <2>15, <2>17, <3>1, FreshKept, Zenon
  <2>23. QED BY <2>12, <2>16, <2>17, <2>18, <2>19, <2>20, <2>21, <2>22, QuietInv, Zenon
<1>5. QED BY <1>3, <1>4, Zenon

-----------------------------------------------------------------------------
(* Pages *)

\* Nobody works on a page that has no open end.
LEMMA PageLock ==
    ASSUME Counting, PipeInv, NEW s \in Pipe,
           pipe[s].alloc = 0 \/ (pipe[s].readopen = 0 /\ pipe[s].writeopen = 0)
    PROVE  pipe[s].lock = NoProc
<1> SUFFICES ASSUME pipe[s].lock # NoProc PROVE FALSE
  BY Zenon
<1>1. PICK q \in Proc : q = pipe[s].lock BY Zenon DEF PipeInv, PipeTypeOK, PipeRec
<1>2. pc[q] \in Critical /\ cpipe[q] = s BY <1>1, Zenon DEF PipeInv, LockInv
<1>3. pc[q] \in Reading \cup Writing BY <1>2, Zenon DEF Critical, Reading, Writing
<1>4. HeldOpen BY Referred, Zenon DEF AllOpen
<1>5. QED BY <1>2, <1>3, <1>4, InsidePipe

\* What EndInv says of a pipe, of a file and of a process.
FilesEnd(s, w) == \A f \in File : IsEnd(f, s, w) =>
    /\ s \in Pipe /\ pipe[s].alloc = 1 /\ EndOpen(s, w)
    /\ \A g \in File : IsEnd(g, s, w) => g = f
ShutsEnd(s, w) == \A p \in Proc : Shutting(p, s, w) =>
    /\ s \in Pipe /\ pipe[s].alloc = 1 /\ EndOpen(s, w)
    /\ \A f \in File : ~IsEnd(f, s, w)
    /\ \A q \in Proc : Shutting(q, s, w) => q = p
FreesPage(s) == \A p \in Proc : Freeing(p, s) =>
    /\ s \in Pipe /\ pipe[s].alloc = 1 /\ pipe[s].readopen = 0 /\ pipe[s].writeopen = 0
    /\ \A q \in Proc : Freeing(q, s) => q = p
OpenUsed(s, w) == s \in Pipe /\ pipe[s].alloc = 1 /\ EndOpen(s, w) =>
    (\E f \in File : IsEnd(f, s, w)) \/ (\E p \in Proc : Shutting(p, s, w))
DeadFreed(s) == s \in Pipe /\ pipe[s].alloc = 1 /\ pipe[s].readopen = 0 /\ pipe[s].writeopen = 0 =>
    \E p \in Proc : Freeing(p, s)
EndsOK(s) == /\ \A w \in {0, 1} : FilesEnd(s, w) /\ ShutsEnd(s, w) /\ OpenUsed(s, w)
             /\ FreesPage(s) /\ DeadFreed(s)

LEMMA EndParts == EndInv <=> \A s \in Pipe \cup {NoPipe} : EndsOK(s)
BY DEF EndInv, EndsOK, FilesEnd, ShutsEnd, FreesPage, OpenUsed, DeadFreed

\* Nothing happens to the ends of pipe t.
SameEnd(t) == /\ t \in Pipe => pipe'[t] = pipe[t]
              /\ \A w \in {0, 1} : /\ \A f \in File : IsEnd(f, t, w)' <=> IsEnd(f, t, w)
                                   /\ \A q \in Proc : Shutting(q, t, w)' <=> Shutting(q, t, w)
              /\ \A q \in Proc : Freeing(q, t)' <=> Freeing(q, t)

LEMMA EndSame ==
    ASSUME NEW t \in Pipe \cup {NoPipe}, EndsOK(t), SameEnd(t)
    PROVE  EndsOK(t)'
<1>1. \A w \in {0, 1} : t \in Pipe => (EndOpen(t, w)' <=> EndOpen(t, w)) BY Zenon DEF SameEnd, EndOpen
<1>2. ASSUME NEW w \in {0, 1} PROVE FilesEnd(t, w)' /\ ShutsEnd(t, w)' /\ OpenUsed(t, w)'
  <2>1. FilesEnd(t, w)' BY <1>1, Zenon DEF SameEnd, EndsOK, FilesEnd
  <2>2. ShutsEnd(t, w)' BY <1>1, Zenon DEF SameEnd, EndsOK, ShutsEnd
  <2>3. OpenUsed(t, w)' BY <1>1, Zenon DEF SameEnd, EndsOK, OpenUsed
  <2>4. QED BY <2>1, <2>2, <2>3, Zenon
<1>3. FreesPage(t)' BY Zenon DEF SameEnd, EndsOK, FreesPage
<1>4. DeadFreed(t)' BY Zenon DEF SameEnd, EndsOK, DeadFreed
<1>5. QED BY <1>2, <1>3, <1>4, Zenon DEF EndsOK

\* One step changes the ends of one pipe only.
LEMMA OneEnd ==
    ASSUME PipeInv, NEW s, EndsOK(s)', \A t \in Pipe \cup {NoPipe} : t # s => SameEnd(t)
    PROVE  EndInv'
<1>1. \A t \in Pipe \cup {NoPipe} : EndsOK(t) BY EndParts, Zenon DEF PipeInv
<1>2. \A t \in Pipe \cup {NoPipe} : EndsOK(t)' BY <1>1, EndSame, Zenon
<1>3. QED BY <1>2 DEF EndInv, EndsOK, FilesEnd, ShutsEnd, FreesPage, OpenUsed, DeadFreed

\* The page was no pipe's, so nobody is inside it, and the two files are nobody else's.
LEMMA PipeAllocInv ==
    ASSUME Counting, PipeInv, NEW p \in Proc, NEW s \in Pipe, pipealloc(p, s)
    PROVE  PipeInv'
<1>1. pc[p] = "kalloc" /\ pipe[s].alloc = 0 BY Zenon DEF pipealloc
<1>2. PipeTypeOK /\ RefInv /\ AllOpen /\ Fresh /\ CallOK(p) BY Referred, Zenon DEF PipeInv, CallInv
<1>3. todo[p] \in [Slot -> File \cup {NoFile}] BY <1>2, Zenon DEF PipeTypeOK
<1>4. /\ todo[p][Rf] # NoFile /\ todo[p][Wf] # NoFile /\ exiting[p] # 1 /\ \A i \in Fd : todo[p][i] = NoFile
      /\ \A i \in Slot : todo[p][i] # NoFile => file[todo[p][i]].type = "none"
  BY <1>1, <1>2, Zenon DEF CallOK, Opening, Closing
<1>5. PICK rf \in File : rf = todo[p][Rf] /\ file[rf].type = "none" /\ file[rf].ref > 0
  BY <1>2, <1>3, <1>4, Places, Zenon DEF AllOpen
<1>6. PICK wf \in File : wf = todo[p][Wf] /\ file[wf].type = "none" /\ file[wf].ref > 0
  BY <1>2, <1>3, <1>4, Places, Zenon DEF AllOpen
<1>7. rf # wf /\ \A q \in Proc, j \in Slot : q # p => todo[q][j] # rf /\ todo[q][j] # wf
  BY <1>1, <1>2, <1>5, <1>6, Places, RealFile DEF Fresh
<1>8. /\ pipe' = [pipe EXCEPT ![s] = [pipe[s] EXCEPT !.alloc = 1, !.lock = NoProc,
                      !.nread = 0, !.nwrite = 0, !.readopen = 1, !.writeopen = 1]]
      /\ file' = [file EXCEPT ![rf] = [file[rf] EXCEPT !.type = "pipe", !.writable = 0, !.pipe = s],
                              ![wf] = [file[wf] EXCEPT !.type = "pipe", !.writable = 1, !.pipe = s]]
      /\ Goto(p, "fdalloc") /\ UNCHANGED <<ofile, todo, cpipe, left, writable, exiting, killed, out>>
  BY <1>2, <1>5, <1>6, <1>7, Zenon DEF pipealloc, locals, PipeTypeOK
<1>9. /\ pipe' \in [Pipe -> PipeRec] /\ \A t \in Pipe : t # s => pipe'[t] = pipe[t]
      /\ pipe'[s].alloc = 1 /\ pipe'[s].lock = NoProc /\ pipe'[s].readopen = 1 /\ pipe'[s].writeopen = 1
  <2>1. PICK r \in PipeRec : r = pipe[s] BY <1>2, Zenon DEF PipeTypeOK
  <2> DEFINE new == [r EXCEPT !.alloc = 1, !.lock = NoProc, !.nread = 0, !.nwrite = 0,
                              !.readopen = 1, !.writeopen = 1]
  <2>2. /\ new \in PipeRec /\ new.alloc = 1 /\ new.lock = NoProc /\ new.readopen = 1 /\ new.writeopen = 1
    <3>1. 0 \in 0 .. UINT - 1 BY ConstantsOK
    <3>2. QED BY <3>1, Zenon DEF PipeRec
  <2>3. pipe' = [pipe EXCEPT ![s] = new] BY <1>8, <2>1, Zenon
  <2>4. pipe \in [Pipe -> PipeRec] BY <1>2, Zenon DEF PipeTypeOK
  <2> HIDE DEF new
  <2>5. pipe' \in [Pipe -> PipeRec] BY <2>2, <2>3, <2>4, Zenon
  <2>6. pipe'[s] = new /\ \A t \in Pipe : t # s => pipe'[t] = pipe[t] BY <2>3, <2>4, Zenon
  <2>7. QED BY <2>2, <2>5, <2>6, Zenon
<1>10. /\ file' \in [File -> FileRec] /\ \A g \in File : g # rf /\ g # wf => file'[g] = file[g]
       /\ file'[rf].type = "pipe" /\ file'[rf].writable = 0 /\ file'[rf].pipe = s /\ file'[rf].ref = file[rf].ref
       /\ file'[wf].type = "pipe" /\ file'[wf].writable = 1 /\ file'[wf].pipe = s /\ file'[wf].ref = file[wf].ref
  <2>1. PICK r \in FileRec : r = file[rf] BY <1>2, Zenon DEF PipeTypeOK
  <2>2. PICK w \in FileRec : w = file[wf] BY <1>2, Zenon DEF PipeTypeOK
  <2> DEFINE nr == [r EXCEPT !.type = "pipe", !.writable = 0, !.pipe = s]
             nw == [w EXCEPT !.type = "pipe", !.writable = 1, !.pipe = s]
  <2>3. nr \in FileRec /\ nr.type = "pipe" /\ nr.writable = 0 /\ nr.pipe = s /\ nr.ref = r.ref BY Zenon DEF FileRec
  <2>4. nw \in FileRec /\ nw.type = "pipe" /\ nw.writable = 1 /\ nw.pipe = s /\ nw.ref = w.ref BY Zenon DEF FileRec
  <2>5. file' = [file EXCEPT ![rf] = nr, ![wf] = nw] BY <1>8, <2>1, <2>2, Zenon
  <2>6. file \in [File -> FileRec] BY <1>2, Zenon DEF PipeTypeOK
  <2> HIDE DEF nr, nw
  <2>7. file'[rf] = nr /\ file'[wf] = nw /\ \A g \in File : g # rf /\ g # wf => file'[g] = file[g]
    BY <1>7, <2>5, <2>6, Zenon
  <2>8. file' \in [File -> FileRec] BY <2>3, <2>4, <2>5, <2>6, Zenon
  <2>9. QED BY <2>1, <2>2, <2>3, <2>4, <2>7, <2>8, Zenon
<1>11. pc' \in [Proc -> Labels] /\ pc'[p] = "fdalloc" /\ \A q \in Proc : q # p => pc'[q] = pc[q]
  BY <1>2, <1>8, GotoFacts, Zenon DEF Labels, Opening
<1>12. UNCHANGED <<ofile, todo, cpipe, writable, exiting>> BY <1>8, Zenon
<1>13. PipeTypeOK' BY <1>2, <1>8, <1>9, <1>10, <1>11, Zenon DEF PipeTypeOK
<1>14. Others(p) BY <1>11, <1>12, Zenon DEF Others, OnlyOf
<1>15. Balanced(p)
  <2>1. UsesNat BY Zenon DEF Counting
  <2>2. \A x \in File : Uses(ofile[p], todo[p], x) \in Nat BY <2>1, Zenon DEF UsesNat
  <2>3. \A x \in File : file'[x].ref = file[x].ref BY <1>10, Zenon
  <2>4. QED BY <1>12, <2>2, <2>3, RefTotal DEF Balanced
<1>16. ASSUME NEW q \in Proc, NEW e \in Fd, ofile[q][e] # NoFile
       PROVE  SameFile(ofile[q][e]) /\ file[ofile[q][e]].type = "pipe"
  <2>1. ofile[q][e] \in File /\ file[ofile[q][e]].type = "pipe" BY <1>2, <1>16 DEF PipeTypeOK, RefInv
  <2>2. ofile[q][e] # rf /\ ofile[q][e] # wf BY <1>5, <1>6, <2>1, Zenon
  <2>3. QED BY <1>10, <2>1, <2>2, Zenon DEF SameFile
<1>17. OthersFiles(p)
  <2>1. ASSUME NEW q \in Proc, q # p, NEW j \in Slot, todo[q][j] # NoFile PROVE SameFile(todo[q][j])
    <3>1. todo[q][j] \in File /\ todo[q][j] # rf /\ todo[q][j] # wf BY <1>2, <1>7, <2>1 DEF PipeTypeOK
    <3>2. QED BY <1>10, <3>1, Zenon DEF SameFile
  <2>2. QED BY <1>16, <2>1, Zenon DEF OthersFiles
<1>18. FilesOK(p)
  <2>1. ASSUME NEW x \in File, file'[x].ref = 0 PROVE file'[x].type = "none"
    <3>1. file'[x].ref = file[x].ref BY <1>10, Zenon
    <3>2. x # rf /\ x # wf BY <1>5, <1>6, <2>1, <3>1
    <3>3. file'[x] = file[x] BY <1>10, <3>2, Zenon
    <3>4. QED BY <1>2, <2>1, <3>3, Zenon DEF RefInv
  <2>2. QED BY <1>12, <1>16, <2>1 DEF FilesOK, SameFile
<1>19. RefInv' BY <1>14, <1>15, <1>17, <1>18, RefKept, Zenon
<1>20. CallInv'
  <2>1. \A j \in Slot : todo[p][j] # NoFile => file'[todo[p][j]].type = "pipe"
    BY <1>4, <1>5, <1>6, <1>10, Places, Zenon
  <2>2. CallOK(p)' BY <1>4, <1>11, <1>12, <2>1, Zenon DEF CallOK, Opening, Closing, Reading, Writing
  <2>3. Fresh' BY <1>11, <1>12, <1>14, FreshKept, Zenon DEF OldFiles
  <2>4. QED BY <1>14, <1>17, <2>2, <2>3, CallKept, Zenon DEF CallInv
<1>21. EndInv'
  <2>1. \A g \in File : file[g].ref > 0 /\ file[g].type = "pipe" => file[g].pipe # s BY <1>1, EndFacts
  <2>2. \A g \in File, w \in {0, 1} : IsEnd(g, s, w)' <=> (g = rf /\ w = 0) \/ (g = wf /\ w = 1)
    <3>1. \A w \in {0, 1} : IsEnd(rf, s, w)' <=> w = 0 BY <1>5, <1>10, Zenon DEF IsEnd
    <3>2. \A w \in {0, 1} : IsEnd(wf, s, w)' <=> w = 1 BY <1>6, <1>10, Zenon DEF IsEnd
    <3>3. \A g \in File, w \in {0, 1} : g # rf /\ g # wf => ~IsEnd(g, s, w)' BY <1>10, <2>1, Zenon DEF IsEnd
    <3>4. QED BY <1>7, <3>1, <3>2, <3>3, Zenon
  <2>3. \A t, w : \A g \in File : t # s => (IsEnd(g, t, w)' <=> IsEnd(g, t, w))
    <3>1. \A t, w : t # s => ~IsEnd(rf, t, w)' /\ ~IsEnd(rf, t, w) BY <1>5, <1>10, Zenon DEF IsEnd
    <3>2. \A t, w : t # s => ~IsEnd(wf, t, w)' /\ ~IsEnd(wf, t, w) BY <1>6, <1>10, Zenon DEF IsEnd
    <3>3. \A t, w : \A g \in File : g # rf /\ g # wf => (IsEnd(g, t, w)' <=> IsEnd(g, t, w))
      BY <1>10, Zenon DEF IsEnd
    <3>4. QED BY <3>1, <3>2, <3>3, Zenon
  <2>4. \A q \in Proc : pc[q] \in {"pipeclose", "kfree"} => cpipe[q] # s BY <1>1, CloseFacts
  <2>5. \A q \in Proc : \A t, w : /\ Shutting(q, t, w)' <=> Shutting(q, t, w)
                                  /\ Shutting(q, t, w) => t # s
    BY <1>1, <1>11, <1>12, <2>4, Zenon DEF Shutting
  <2>6. \A q \in Proc : \A t : (Freeing(q, t)' <=> Freeing(q, t)) /\ (Freeing(q, t) => t # s)
    BY <1>1, <1>11, <1>12, <2>4, Zenon DEF Freeing
  <2>7. \A t \in Pipe \cup {NoPipe} : t # s => SameEnd(t) BY <1>9, <2>3, <2>5, <2>6, Zenon DEF SameEnd
  <2>8. EndsOK(s)'
    <3>1. \A w \in {0, 1} : EndOpen(s, w)' BY <1>9, Zenon DEF EndOpen
    <3>2. \A w \in {0, 1} : FilesEnd(s, w)' BY <1>9, <2>2, <3>1 DEF FilesEnd
    <3>3. \A w \in {0, 1} : ShutsEnd(s, w)' BY <2>5, Zenon DEF ShutsEnd
    <3>4. \A w \in {0, 1} : OpenUsed(s, w)' BY <2>2, Zenon DEF OpenUsed
    <3>5. FreesPage(s)' /\ DeadFreed(s)' BY <1>9, <2>6 DEF FreesPage, DeadFreed
    <3>6. QED BY <3>2, <3>3, <3>4, <3>5, Zenon DEF EndsOK
  <2>9. QED BY <2>7, <2>8, OneEnd, Zenon
<1>22. LockInv'
  <2>1. HeldOpen /\ pipe[s].lock = NoProc BY <1>1, <1>2, PageLock, Zenon DEF AllOpen
  <2>2. pc[p] \notin Critical /\ pc'[p] \notin Critical BY <1>1, <1>11, Zenon DEF Critical
  <2>3. \A t \in Pipe : pipe'[t].lock = pipe[t].lock BY <1>9, <2>1, Zenon
  <2>4. QED BY <1>14, <2>1, <2>2, <2>3, LockKept, Zenon
<1>23. QED BY <1>13, <1>19, <1>20, <1>21, <1>22, Zenon DEF PipeInv

=============================================================================
