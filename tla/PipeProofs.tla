----------------------------- MODULE PipeProofs -----------------------------
(***************************************************************************)
(* Open files, pipes and their pages are accounted for, and no sleeper on a *)
(* pipe is forgotten, for every number of processes, files, descriptors and *)
(* pages and every size of the buffer (kernel/pipe.c, kernel/file.c).       *)
(***************************************************************************)
EXTENDS PipeFiles, FiniteSetTheorems, WellFoundedInduction

-----------------------------------------------------------------------------
(* Closing *)

\* A process that has closed a file and has the files t left.
LEMMA AfterFacts ==
    ASSUME PipeInv, NEW p \in Proc, pc[p] \in Closing, NEW t, todo'[p] = t,
           pc'[p] = AfterClose(p, t), exiting' = StillExiting(p, t), UNCHANGED ofile
    PROVE  /\ pc'[p] \in {"fileclose", "unused", "user"}
           /\ exiting' \in [Proc -> {0, 1}] /\ OnlyOf(exiting, exiting', p) /\ CallOK(p)'
<1>1. exiting \in [Proc -> {0, 1}] /\ CallOK(p) BY Zenon DEF PipeInv, PipeTypeOK, CallInv
<1>2. exiting[p] = 1 => ofile[p] = NoFds BY <1>1, Zenon DEF CallOK
<1>3. PICK x \in {0, 1} : x = (IF t # NoTodo THEN exiting[p] ELSE 0) /\ exiting' = [exiting EXCEPT ![p] = x]
  BY <1>1, Zenon DEF StillExiting
<1>4. exiting' \in [Proc -> {0, 1}] /\ exiting'[p] = x /\ OnlyOf(exiting, exiting', p) BY <1>1, <1>3, Zenon DEF OnlyOf
<1>5. /\ pc'[p] \in {"fileclose", "unused", "user"} /\ (pc'[p] = "fileclose" <=> t # NoTodo)
      /\ pc'[p] = "unused" => exiting[p] = 1
  BY Zenon DEF AfterClose
<1>6. CallOK(p)' BY <1>2, <1>3, <1>4, <1>5, IdleCall
<1>7. QED BY <1>4, <1>5, <1>6, Zenon

\* The process p drops its reference to f at the place i, and has the files t left.
Drop(p, i, f, t) ==
    /\ todo[p][i] = f /\ t[i] = NoFile /\ OnlyAt(todo[p], t, Slot, i) /\ todo' = [todo EXCEPT ![p] = t]
    /\ UNCHANGED <<ofile, pipe, left, killed, out>>

\* The three ends of fileclose(): other references remain, it was the last one to an end of a
\* pipe, and pipe() has not made an end of a pipe of it.
Shared(p, f, t) ==
    /\ file[f].ref > 1
    /\ file' = [file EXCEPT ![f] = [file[f] EXCEPT !.ref = file[f].ref - 1]]
    /\ Goto(p, AfterClose(p, t)) /\ exiting' = StillExiting(p, t)
    /\ UNCHANGED <<cpipe, writable>>
LastEnd(p, f) ==
    /\ file[f].ref <= 1 /\ file[f].type = "pipe"
    /\ file' = [file EXCEPT ![f] = NoFileRec]
    /\ cpipe' = [cpipe EXCEPT ![p] = file[f].pipe]
    /\ writable' = [writable EXCEPT ![p] = file[f].writable]
    /\ Goto(p, "pipeclose") /\ UNCHANGED exiting
LastFresh(p, f, t) ==
    /\ file[f].ref <= 1 /\ file[f].type # "pipe"
    /\ file' = [file EXCEPT ![f] = NoFileRec]
    /\ Goto(p, AfterClose(p, t)) /\ exiting' = StillExiting(p, t)
    /\ UNCHANGED <<cpipe, writable>>

LEMMA Dropped ==
    ASSUME Counting, PipeInv, NEW p \in Proc, fileclose(p)
    PROVE  \E i \in Slot, f \in File, t \in [Slot -> File \cup {NoFile}] :
              Drop(p, i, f, t) /\ (Shared(p, f, t) \/ LastEnd(p, f) \/ LastFresh(p, f, t))
<1>1. todo[p] \in [Slot -> File \cup {NoFile}] BY Zenon DEF PipeInv, PipeTypeOK
<1>2. todo[p] # NoTodo BY Zenon DEF PipeInv, CallInv, CallOK, fileclose
<1> DEFINE S == {j \in Slot : todo[p][j] # NoFile}
<1>3. PICK b \in Int : \A j \in Slot : j \in Int /\ b =< j
  <2>1. PICK b \in Int : b = -2 OBVIOUS
  <2>2. \A j \in Slot : j \in Int /\ b =< j BY <2>1, ConstantsOK DEF Slot
  <2>3. QED BY <2>2, Zenon
<1>4. S \in SUBSET Int /\ S # {} /\ \A x \in S : b =< x BY <1>1, <1>2, <1>3, Zenon DEF NoTodo
<1>5. Min(S) \in S
  <2> HIDE DEF S
  <2>1. HasMin BY Zenon DEF Counting
  <2>2. QED BY <1>4, <2>1, Zenon DEF HasMin
<1>6. PICK i \in Slot : i = Min({j \in Slot : todo[p][j] # NoFile}) /\ todo[p][i] # NoFile BY <1>5, Zenon
<1> HIDE DEF S
<1>7. PICK f \in File : f = todo[p][i] BY <1>1, <1>6, Zenon
<1>8. PICK t \in [Slot -> File \cup {NoFile}] : t = [todo[p] EXCEPT ![i] = NoFile] BY <1>1, Zenon
<1>9. t[i] = NoFile /\ OnlyAt(todo[p], t, Slot, i) BY <1>1, <1>8, Zenon DEF OnlyAt
<1>10. todo' = [todo EXCEPT ![p] = t] /\ UNCHANGED <<ofile, pipe, left, killed, out>>
  BY <1>6, <1>8, Zenon DEF fileclose
<1>11. Shared(p, f, t) \/ LastEnd(p, f) \/ LastFresh(p, f, t)
  BY <1>6, <1>7, <1>8, Zenon DEF fileclose, Shared, LastEnd, LastFresh
<1>12. Drop(p, i, f, t) BY <1>7, <1>9, <1>10, Zenon DEF Drop
<1>13. QED BY <1>11, <1>12, Zenon

LEMMA ClosedFacts ==
    ASSUME PipeTypeOK, NEW f \in File, file' = [file EXCEPT ![f] = NoFileRec]
    PROVE  /\ file' \in [File -> FileRec] /\ file'[f].ref = 0 /\ file'[f].type = "none"
           /\ \A g \in File : g # f => file'[g] = file[g]
<1>1. NoFileRec \in FileRec /\ NoFileRec.ref = 0 /\ NoFileRec.type = "none" BY Zenon DEF NoFileRec, FileRec
<1>2. file \in [File -> FileRec] BY Zenon DEF PipeTypeOK
<1>3. file'[f] = NoFileRec /\ \A g \in File : g # f => file'[g] = file[g] BY <1>2, Zenon
<1>4. file' \in [File -> FileRec] BY <1>1, <1>2, Zenon
<1>5. QED BY <1>1, <1>3, <1>4, Zenon

\* One reference less is counted, and what else refers to the file finds it open.
LEMMA DropRef ==
    ASSUME Counting, PipeInv, NEW p \in Proc, NEW i \in Slot, NEW f \in File,
           NEW t \in [Slot -> File \cup {NoFile}], Drop(p, i, f, t),
           file'[f].ref = file[f].ref - 1, \A g \in File : g # f => file'[g] = file[g],
           IF file[f].ref > 1 THEN SameFile(f) ELSE file'[f].type = "none"
    PROVE  /\ todo' \in [Proc -> [Slot -> File \cup {NoFile}]] /\ todo'[p] = t /\ OnlyOf(todo, todo', p)
           /\ Balanced(p) /\ OthersFiles(p) /\ FilesOK(p) /\ OldFiles(p)
<1>1. PipeTypeOK /\ RefInv BY Zenon DEF PipeInv
<1>2. todo' \in [Proc -> [Slot -> File \cup {NoFile}]] /\ todo'[p] = t /\ OnlyOf(todo, todo', p)
  BY <1>1, TodoFacts, Zenon DEF Drop
<1>3. todo[p][i] = f /\ t[i] = NoFile /\ OnlyAt(todo[p], t, Slot, i) /\ ofile' = ofile BY Zenon DEF Drop
<1>4. Balanced(p)
  <2> SUFFICES ASSUME NEW x \in File
               PROVE  file'[x].ref = file[x].ref - Uses(ofile[p], todo[p], x) + Uses(ofile'[p], todo'[p], x)
    BY Zenon DEF Balanced
  <2>1. UsesNat /\ SlotCount BY Zenon DEF Counting
  <2> DEFINE h == ofile[p]
             u == todo[p]
  <2>2. OnlyAt(u, t, Slot, i) /\ u[i] = f /\ t[i] = NoFile BY <1>3, Zenon
  <2>3. h = ofile[p] /\ u = todo[p] BY Zenon
  <2> HIDE DEF h, u
  <2>4. Uses(h, t, x) = Uses(h, u, x) - (IF u[i] = x THEN 1 ELSE 0) + (IF t[i] = x THEN 1 ELSE 0)
    BY <2>1, <2>2 DEF SlotCount
  <2>5. Uses(h, u, x) \in Nat BY <2>1, Zenon DEF UsesNat
  <2>6. file'[x].ref = file[x].ref - (IF f = x THEN 1 ELSE 0) BY RefTotal
  <2>7. file'[x].ref = file[x].ref - Uses(h, u, x) + Uses(h, t, x)
    BY <2>2, <2>4, <2>5, <2>6, RealFile, RefTotal
  <2>8. QED BY <1>2, <1>3, <2>3, <2>7, Zenon
<1>5. file[f].ref \in Nat BY RefTotal, Zenon
<1>6. \A g \in File : g # f => SameFile(g) BY Zenon DEF SameFile
<1>7. ASSUME NEW g \in File, ~SameFile(g) PROVE g = f /\ file[f].ref <= 1 BY <1>5, <1>6, <1>7
<1>8. ASSUME NEW q \in Proc, NEW d \in Fd, ofile[q][d] # NoFile PROVE ofile[q][d] \in File /\ SameFile(ofile[q][d])
  <2>1. PICK g \in File : g = ofile[q][d] BY <1>1, <1>8 DEF PipeTypeOK
  <2>2. ASSUME ~SameFile(g) PROVE FALSE BY <1>3, <1>7, <2>1, <2>2, LastRef
  <2>3. QED BY <2>1, <2>2, Zenon
<1>9. ASSUME NEW q \in Proc, NEW j \in Slot, q # p, todo[q][j] # NoFile PROVE SameFile(todo[q][j])
  <2>1. PICK g \in File : g = todo[q][j] BY <1>1, <1>9 DEF PipeTypeOK
  <2>2. ASSUME ~SameFile(g) PROVE FALSE BY <1>3, <1>7, <1>9, <2>1, <2>2, LastRef
  <2>3. QED BY <2>1, <2>2, Zenon
<1>10. OthersFiles(p) BY <1>8, <1>9, Zenon DEF OthersFiles
<1>11. FilesOK(p)
  <2>1. ASSUME NEW g \in File, file'[g].ref = 0 PROVE file'[g].type = "none"
    <3>1. CASE g = f BY <1>5, <2>1, <3>1
    <3>2. CASE g # f BY <1>1, <2>1, <3>2, Zenon DEF RefInv
    <3>3. QED BY <3>1, <3>2, Zenon
  <2>2. \A d \in Fd : ofile[p][d] # NoFile => file'[ofile[p][d]].type = "pipe" BY <1>1, <1>8 DEF RefInv, SameFile
  <2>3. QED BY <1>3, <2>1, <2>2, Zenon DEF FilesOK
<1>12. OldFiles(p) BY <1>2, <1>3, Zenon DEF OldFiles, OnlyAt
<1>13. QED BY <1>2, <1>4, <1>10, <1>11, <1>12, Zenon

\* The process goes on with its next file, or is done.
LEMMA GoOn ==
    ASSUME PipeInv, NEW p \in Proc, pc[p] = "fileclose", NEW t, todo'[p] = t, OnlyOf(todo, todo', p),
           UNCHANGED <<ofile, cpipe, writable>>, Goto(p, AfterClose(p, t)), exiting' = StillExiting(p, t)
    PROVE  /\ pc' \in [Proc -> Labels] /\ exiting' \in [Proc -> {0, 1}] /\ CallOK(p)' /\ Others(p)
           /\ Away(p) /\ pc'[p] \notin {"filealloc", "kalloc"}
<1>1. PICK l \in {"fileclose", "unused", "user"} : l = AfterClose(p, t) BY Zenon DEF AfterClose
<1>2. PipeTypeOK /\ l \in Labels BY Zenon DEF PipeInv, Labels, Closing
<1>3. pc' \in [Proc -> Labels] /\ pc'[p] = l /\ \A q \in Proc : q # p => pc'[q] = pc[q]
  BY <1>1, <1>2, GotoFacts, Zenon
<1>4. exiting' \in [Proc -> {0, 1}] /\ CallOK(p)' /\ OnlyOf(exiting, exiting', p)
  BY <1>1, <1>3, AfterFacts, Zenon DEF Closing
<1>5. Others(p) BY <1>3, <1>4, Zenon DEF Others, OnlyOf
<1>6. Away(p) BY <1>3, Zenon DEF Away, Critical
<1>7. QED BY <1>3, <1>4, <1>5, <1>6, Zenon

LEMMA SharedInv ==
    ASSUME Counting, PipeInv, NEW p \in Proc, pc[p] = "fileclose", NEW i \in Slot, NEW f \in File,
           NEW t \in [Slot -> File \cup {NoFile}], Drop(p, i, f, t), Shared(p, f, t)
    PROVE  PipeInv'
<1>1. PipeTypeOK BY Zenon DEF PipeInv
<1>2. PICK n \in Nat : n = file[f].ref - 1 /\ n > 0 BY RefTotal DEF Shared
<1>3. /\ file' \in [File -> FileRec] /\ file'[f].ref = n /\ \A g \in File : SameFile(g)
      /\ \A g \in File : g # f => file'[g] = file[g]
  <2>1. file' = [file EXCEPT ![f] = [file[f] EXCEPT !.ref = n]] BY <1>2, Zenon DEF Shared
  <2>2. QED BY <1>1, <2>1, RefFacts, Zenon
<1>4. /\ todo' \in [Proc -> [Slot -> File \cup {NoFile}]] /\ todo'[p] = t /\ OnlyOf(todo, todo', p)
      /\ Balanced(p) /\ OthersFiles(p) /\ FilesOK(p) /\ OldFiles(p)
  BY <1>2, <1>3, DropRef DEF Shared
<1>5. UNCHANGED <<ofile, pipe, left, killed, out, cpipe, writable>> BY Zenon DEF Drop, Shared
<1>6. /\ pc' \in [Proc -> Labels] /\ exiting' \in [Proc -> {0, 1}] /\ CallOK(p)' /\ Others(p)
      /\ Away(p) /\ pc'[p] \notin {"filealloc", "kalloc"}
  BY <1>4, <1>5, GoOn, Zenon DEF Shared
<1>7. PipeTypeOK' BY <1>1, <1>3, <1>4, <1>5, <1>6, Zenon DEF PipeTypeOK
<1>8. EndsKept
  <2>1. \A g \in File : file'[g].ref > 0 <=> file[g].ref > 0 BY <1>2, <1>3, RefTotal
  <2>2. QED BY <1>3, <2>1, Zenon DEF EndsKept, OpenEnd, SameFile
<1>9. Fresh' BY <1>4, <1>6, FreshKept, Zenon
<1>10. QED BY <1>4, <1>5, <1>6, <1>7, <1>8, <1>9, QuietInv, Zenon

LEMMA LastFreshInv ==
    ASSUME Counting, PipeInv, NEW p \in Proc, pc[p] = "fileclose", NEW i \in Slot, NEW f \in File,
           NEW t \in [Slot -> File \cup {NoFile}], Drop(p, i, f, t), LastFresh(p, f, t)
    PROVE  PipeInv'
<1>1. PipeTypeOK BY Zenon DEF PipeInv
<1>2. file[f].ref = 1 BY LastRef DEF Drop, LastFresh
<1>3. /\ file' \in [File -> FileRec] /\ file'[f].ref = 0 /\ file'[f].type = "none"
      /\ \A g \in File : g # f => file'[g] = file[g]
  BY <1>1, ClosedFacts, Zenon DEF LastFresh
<1>4. /\ todo' \in [Proc -> [Slot -> File \cup {NoFile}]] /\ todo'[p] = t /\ OnlyOf(todo, todo', p)
      /\ Balanced(p) /\ OthersFiles(p) /\ FilesOK(p) /\ OldFiles(p)
  BY <1>2, <1>3, DropRef
<1>5. UNCHANGED <<ofile, pipe, left, killed, out, cpipe, writable>> BY Zenon DEF Drop, LastFresh
<1>6. /\ pc' \in [Proc -> Labels] /\ exiting' \in [Proc -> {0, 1}] /\ CallOK(p)' /\ Others(p)
      /\ Away(p) /\ pc'[p] \notin {"filealloc", "kalloc"}
  BY <1>4, <1>5, GoOn, Zenon DEF LastFresh
<1>7. PipeTypeOK' BY <1>1, <1>3, <1>4, <1>5, <1>6, Zenon DEF PipeTypeOK
<1>8. EndsKept
  <2>1. file[f].type # "pipe" BY Zenon DEF LastFresh
  <2>2. QED BY <1>3, <2>1, Zenon DEF EndsKept, OpenEnd, SameFile
<1>9. Fresh' BY <1>4, <1>6, FreshKept, Zenon
<1>10. QED BY <1>4, <1>5, <1>6, <1>7, <1>8, <1>9, QuietInv, Zenon

\* The end stays open until the pipeclose() of p, which nobody else is in for this end.
LEMMA LastEndInv ==
    ASSUME Counting, PipeInv, NEW p \in Proc, pc[p] = "fileclose", NEW i \in Slot, NEW f \in File,
           NEW t \in [Slot -> File \cup {NoFile}], Drop(p, i, f, t), LastEnd(p, f)
    PROVE  PipeInv'
<1>1. PipeTypeOK /\ CallOK(p) /\ HeldOpen BY Referred, Zenon DEF PipeInv, CallInv, AllOpen
<1>2. file[f].ref = 1 /\ file[f].type = "pipe" BY LastRef DEF Drop, LastEnd
<1>3. /\ file' \in [File -> FileRec] /\ file'[f].ref = 0 /\ file'[f].type = "none"
      /\ \A g \in File : g # f => file'[g] = file[g]
  BY <1>1, ClosedFacts, Zenon DEF LastEnd
<1>4. /\ todo' \in [Proc -> [Slot -> File \cup {NoFile}]] /\ todo'[p] = t /\ OnlyOf(todo, todo', p)
      /\ Balanced(p) /\ OthersFiles(p) /\ FilesOK(p) /\ OldFiles(p)
  BY <1>2, <1>3, DropRef
<1>5. UNCHANGED <<ofile, pipe, left, killed, out, exiting>> BY Zenon DEF Drop, LastEnd
<1>6. PICK s \in Pipe : s = file[f].pipe BY <1>2, EndFacts
<1>7. PICK w \in {0, 1} : w = file[f].writable BY <1>1, Zenon DEF PipeTypeOK, FileRec
<1>8. /\ cpipe' \in [Proc -> Pipe \cup {NoPipe}] /\ cpipe'[p] = s /\ OnlyOf(cpipe, cpipe', p)
      /\ writable' \in [Proc -> {0, 1}] /\ writable'[p] = w /\ OnlyOf(writable, writable', p)
  <2>1. cpipe' = [cpipe EXCEPT ![p] = s] /\ writable' = [writable EXCEPT ![p] = w] BY <1>6, <1>7, Zenon DEF LastEnd
  <2>2. cpipe \in [Proc -> Pipe \cup {NoPipe}] /\ writable \in [Proc -> {0, 1}] BY <1>1, Zenon DEF PipeTypeOK
  <2>3. QED BY <2>1, <2>2, Zenon DEF OnlyOf
<1>9. pc' \in [Proc -> Labels] /\ pc'[p] = "pipeclose" /\ \A q \in Proc : q # p => pc'[q] = pc[q]
  BY <1>1, GotoFacts, Zenon DEF LastEnd, Labels, Closing
<1>10. PipeTypeOK' BY <1>1, <1>3, <1>4, <1>5, <1>8, <1>9, Zenon DEF PipeTypeOK
<1>11. Others(p) BY <1>4, <1>5, <1>8, <1>9, Zenon DEF Others, OnlyOf
<1>12. RefInv' BY <1>4, <1>11, RefKept, Zenon
<1>13. CallInv'
  <2>1. exiting[p] = 1 => ofile[p] = NoFds BY <1>1, Zenon DEF CallOK
  <2>2. CallOK(p)' BY <1>5, <1>9, <2>1, Zenon DEF CallOK, Opening, Closing, Reading, Writing
  <2>3. Fresh' BY <1>4, <1>9, <1>11, FreshKept, Zenon
  <2>4. QED BY <1>4, <1>11, <2>2, <2>3, CallKept, Zenon DEF CallInv
<1>14. LockInv' BY <1>1, <1>5, <1>9, <1>11, LockKept, Zenon DEF Critical
<1>15. EndInv'
  <2>1. IsEnd(f, s, w) /\ \A u, v : IsEnd(f, u, v) => u = s /\ v = w BY <1>2, <1>6, <1>7 DEF IsEnd
  <2>2. \A u, v : \A g \in File : IsEnd(g, u, v)' <=> IsEnd(g, u, v) /\ g # f BY <1>3, Zenon DEF IsEnd
  <2>3. \A u, v : EndOpen(u, v)' <=> EndOpen(u, v) BY <1>5, Zenon DEF EndOpen
  <2>4. \A q \in Proc : \A u, v : Shutting(q, u, v)' <=> Shutting(q, u, v) \/ (q = p /\ u = s /\ v = w)
    BY <1>8, <1>9, <1>11, Zenon DEF Shutting, Others, OnlyOf
  <2>5. \A q \in Proc : \A u : Freeing(q, u)' <=> Freeing(q, u) BY <1>8, <1>9, Zenon DEF Freeing, OnlyOf
  <2>6. \A u \in Pipe \cup {NoPipe} : EndsOK(u) BY EndParts, Zenon DEF PipeInv
  <2>7. \A u \in Pipe \cup {NoPipe} : u # s => SameEnd(u) BY <1>5, <2>1, <2>2, <2>4, <2>5, Zenon DEF SameEnd
  <2>8. EndsOK(s)'
    <3>1. FilesEnd(s, w) /\ ShutsEnd(s, w) BY <2>6, Zenon DEF EndsOK
    <3>2. /\ pipe[s].alloc = 1 /\ EndOpen(s, w) /\ \A g \in File : IsEnd(g, s, w) => g = f BY <2>1, <3>1, Zenon DEF FilesEnd
    <3>3. \A q \in Proc : ~Shutting(q, s, w) BY <2>1, <3>1, Zenon DEF ShutsEnd
    <3>4. ASSUME NEW v \in {0, 1} PROVE FilesEnd(s, v)' /\ ShutsEnd(s, v)' /\ OpenUsed(s, v)'
      <4>1. FilesEnd(s, v) /\ ShutsEnd(s, v) /\ OpenUsed(s, v) BY <2>6, Zenon DEF EndsOK
      <4>2. FilesEnd(s, v)' BY <1>5, <2>2, <2>3, <4>1, Zenon DEF FilesEnd
      <4>3. ShutsEnd(s, v)'
        <5>1. CASE v = w BY <1>5, <2>2, <2>3, <2>4, <3>2, <3>3, <5>1, Zenon DEF ShutsEnd
        <5>2. CASE v # w BY <1>5, <2>2, <2>3, <2>4, <4>1, <5>2, Zenon DEF ShutsEnd
        <5>3. QED BY <5>1, <5>2, Zenon
      <4>4. OpenUsed(s, v)' BY <1>5, <2>1, <2>2, <2>3, <2>4, <4>1, Zenon DEF OpenUsed
      <4>5. QED BY <4>2, <4>3, <4>4, Zenon
    <3>5. FreesPage(s)' /\ DeadFreed(s)' BY <1>5, <2>5, <2>6, Zenon DEF EndsOK, FreesPage, DeadFreed
    <3>6. QED BY <3>4, <3>5, Zenon DEF EndsOK
  <2>9. QED BY <2>7, <2>8, OneEnd, Zenon
<1>16. QED BY <1>10, <1>12, <1>13, <1>14, <1>15, Zenon DEF PipeInv

LEMMA FileCloseInv ==
    ASSUME Counting, PipeInv, NEW p \in Proc, fileclose(p)
    PROVE  PipeInv'
<1>1. pc[p] = "fileclose" BY Zenon DEF fileclose
<1>2. QED BY <1>1, Dropped, SharedInv, LastEndInv, LastFreshInv, Zenon

\* The references do not change, and p is done with one file.
LEMMA FilesKept ==
    ASSUME Counting, PipeInv, NEW p \in Proc, Others(p), UNCHANGED <<ofile, file, todo>>,
           CallOK(p)', pc'[p] \notin {"filealloc", "kalloc"}
    PROVE  RefInv' /\ CallInv'
<1>1. RefInv'
  <2>1. \A f \in File : Descriptors(f)' = Descriptors(f) /\ Holders(f)' = Holders(f) BY Zenon DEF Descriptors, Holders
  <2>2. RefInv BY Zenon DEF PipeInv
  <2>3. QED BY <2>1, <2>2, Zenon DEF RefInv
<1>2. OthersFiles(p) BY Zenon DEF OthersFiles, SameFile
<1>3. Fresh' BY FreshKept, Zenon DEF OldFiles
<1>4. QED BY <1>1, <1>2, <1>3, CallKept, Zenon DEF CallInv

LEMMA PipeCloseInv ==
    ASSUME Counting, PipeInv, NEW p \in Proc, pipeclose(p)
    PROVE  PipeInv'
<1>1. pc[p] = "pipeclose" /\ PipeTypeOK /\ CallOK(p) /\ HeldOpen BY Referred, Zenon DEF pipeclose, PipeInv, CallInv, AllOpen
<1>2. PICK s \in Pipe : s = cpipe[p] /\ pipe[s].alloc = 1 BY <1>1, CloseFacts, Zenon
<1>3. PICK w \in {0, 1} : w = writable[p] BY <1>1, Zenon DEF PipeTypeOK
<1>4. Shutting(p, s, w) BY <1>1, <1>2, <1>3, Zenon DEF Shutting
<1>5. PICK r \in PipeRec : r = pipe[s] BY <1>1, Zenon DEF PipeTypeOK
<1>6. PICK ro \in {0, 1} : ro = IF w = 1 THEN r.readopen ELSE 0 BY Zenon DEF PipeRec
<1>7. PICK wo \in {0, 1} : wo = IF w = 1 THEN 0 ELSE r.writeopen BY Zenon DEF PipeRec
<1>8. AfterClose(p, todo[p]) \in {"fileclose", "unused", "user"} BY Zenon DEF AfterClose
<1>9. PICK l \in {"fileclose", "unused", "user", "kfree"} :
          l = IF ro = 1 \/ wo = 1 THEN AfterClose(p, todo[p]) ELSE "kfree"
  BY <1>8, Zenon
<1>10. l = "kfree" <=> ro = 0 /\ wo = 0 BY <1>8, <1>9
<1>11. l \in Labels /\ l \notin Critical /\ l \notin {"filealloc", "kalloc"} /\ l # "pipeclose"
  BY Zenon DEF Labels, Closing, Critical
<1>12. /\ pipe' = [pipe EXCEPT ![s] = [r EXCEPT !.readopen = ro, !.writeopen = wo]]
       /\ WakeReaders(s, p, l) \/ WakeWriters(s, p, l)
       /\ IF l = "kfree"
          THEN UNCHANGED <<todo, cpipe, left, writable, exiting>>
          ELSE /\ cpipe' = [cpipe EXCEPT ![p] = NoPipe]
               /\ writable' = [writable EXCEPT ![p] = 0]
               /\ exiting' = StillExiting(p, todo[p])
               /\ UNCHANGED <<todo, left>>
       /\ UNCHANGED <<ofile, file, killed, out>>
  BY <1>2, <1>3, <1>5, <1>6, <1>7, <1>9, Zenon DEF pipeclose, locals
<1>13. /\ pipe' \in [Pipe -> PipeRec] /\ \A t \in Pipe : t # s => pipe'[t] = pipe[t]
       /\ pipe'[s].alloc = 1 /\ pipe'[s].lock = pipe[s].lock /\ pipe'[s].readopen = ro /\ pipe'[s].writeopen = wo
  <2>1. [r EXCEPT !.readopen = ro, !.writeopen = wo] \in PipeRec BY Zenon DEF PipeRec
  <2>2. pipe \in [Pipe -> PipeRec] BY <1>1, Zenon DEF PipeTypeOK
  <2>3. pipe' \in [Pipe -> PipeRec] BY <1>12, <2>1, <2>2, Zenon
  <2>4. pipe'[s] = [r EXCEPT !.readopen = ro, !.writeopen = wo] /\ \A t \in Pipe : t # s => pipe'[t] = pipe[t]
    BY <1>12, <2>2, Zenon
  <2>5. QED BY <1>2, <1>5, <2>3, <2>4, Zenon DEF PipeRec
<1>14. UNCHANGED <<ofile, file, todo, left, killed, out>> BY <1>12, Zenon
<1>15. /\ cpipe' \in [Proc -> Pipe \cup {NoPipe}] /\ OnlyOf(cpipe, cpipe', p)
       /\ writable' \in [Proc -> {0, 1}] /\ OnlyOf(writable, writable', p)
       /\ l = "kfree" => cpipe'[p] = s /\ UNCHANGED exiting
       /\ l # "kfree" => exiting' = StillExiting(p, todo[p])
  <2>1. cpipe \in [Proc -> Pipe \cup {NoPipe}] /\ writable \in [Proc -> {0, 1}] BY <1>1, Zenon DEF PipeTypeOK
  <2>2. CASE l = "kfree" BY <1>2, <1>12, <2>1, <2>2, Zenon DEF OnlyOf
  <2>3. CASE l # "kfree" BY <1>12, <2>1, <2>3, Zenon DEF OnlyOf
  <2>4. QED BY <2>2, <2>3, Zenon
<1>16. /\ pc' \in [Proc -> Labels] /\ pc'[p] = l /\ Woken(p, s)
  <2>1. Apart(p) BY <1>15, Zenon DEF Apart, OnlyOf
  <2>2. QED BY <1>1, <1>11, <1>12, <2>1, WokenFacts, Zenon
<1>17. exiting' \in [Proc -> {0, 1}] /\ OnlyOf(exiting, exiting', p) /\ CallOK(p)'
  <2>1. CASE l = "kfree"
    <3>1. exiting[p] = 1 => ofile[p] = NoFds BY <1>1, Zenon DEF CallOK
    <3>2. CallOK(p)' BY <1>14, <1>15, <1>16, <2>1, <3>1, Zenon DEF CallOK, Opening, Closing, Reading, Writing
    <3>3. exiting \in [Proc -> {0, 1}] BY <1>1, Zenon DEF PipeTypeOK
    <3>4. QED BY <1>15, <2>1, <3>2, <3>3, Zenon DEF OnlyOf
  <2>2. CASE l # "kfree"
    <3> DEFINE t == todo[p]
    <3>1. /\ todo'[p] = t /\ pc'[p] = AfterClose(p, t) /\ exiting' = StillExiting(p, t) /\ UNCHANGED ofile
          /\ pc[p] \in Closing
      BY <1>1, <1>9, <1>14, <1>15, <1>16, <2>2, Zenon DEF Closing
    <3> HIDE DEF t
    <3>2. QED BY <3>1, AfterFacts, Zenon
  <2>3. QED BY <2>1, <2>2, Zenon
<1>18. Others(p) BY <1>14, <1>15, <1>16, <1>17, Zenon DEF Others, OnlyOf, Woken
<1>19. PipeTypeOK' BY <1>1, <1>13, <1>14, <1>15, <1>16, <1>17, Zenon DEF PipeTypeOK
<1>20. RefInv' /\ CallInv' BY <1>11, <1>14, <1>16, <1>17, <1>18, FilesKept, Zenon
<1>21. LockInv'
  <2>1. pc[p] \notin Critical BY <1>1, Zenon DEF Critical
  <2>2. \A t \in Pipe : pipe'[t].lock = pipe[t].lock BY <1>13, Zenon
  <2>3. QED BY <1>1, <1>11, <1>16, <1>18, <2>1, <2>2, LockKept, Zenon
<1>22. EndInv'
  <2>1. \A f, u, v : IsEnd(f, u, v)' <=> IsEnd(f, u, v) BY <1>14, Zenon DEF IsEnd
  <2>2. \A v \in {0, 1} : EndOpen(s, v)' <=> EndOpen(s, v) /\ v # w BY <1>5, <1>6, <1>7, <1>13 DEF EndOpen
  <2>3. \A q \in Proc : \A u, v : Shutting(q, u, v)' <=> Shutting(q, u, v) /\ q # p
    <3>1. \A u, v : ~Shutting(p, u, v)' BY <1>11, <1>16, Zenon DEF Shutting
    <3>2. \A q \in Proc : q # p => \A u, v : Shutting(q, u, v)' <=> Shutting(q, u, v)
      BY <1>18, Zenon DEF Shutting, Others, OnlyOf
    <3>3. QED BY <3>1, <3>2, Zenon
  <2>4. \A q \in Proc : \A u : Freeing(q, u)' <=> Freeing(q, u) \/ (q = p /\ l = "kfree" /\ u = s)
    <3>1. \A u : Freeing(p, u)' <=> l = "kfree" /\ u = s BY <1>15, <1>16, Zenon DEF Freeing
    <3>2. \A q \in Proc : q # p => \A u : Freeing(q, u)' <=> Freeing(q, u) BY <1>18, Zenon DEF Freeing, Others, OnlyOf
    <3>3. \A u : ~Freeing(p, u) BY <1>1, Zenon DEF Freeing
    <3>4. QED BY <3>1, <3>2, <3>3, Zenon
  <2>5. \A u \in Pipe \cup {NoPipe} : EndsOK(u) BY EndParts, Zenon DEF PipeInv
  <2>6. \A u \in Pipe \cup {NoPipe} : u # s => SameEnd(u)
    <3>1. \A u, v : Shutting(p, u, v) => u = s BY <1>2, Zenon DEF Shutting
    <3>2. QED BY <1>13, <2>1, <2>3, <2>4, <3>1, Zenon DEF SameEnd
  <2>7. EndsOK(s)'
    <3>1. ShutsEnd(s, w) /\ FreesPage(s) BY <2>5, Zenon DEF EndsOK
    <3>2. /\ EndOpen(s, w) /\ (\A f \in File : ~IsEnd(f, s, w)) /\ \A q \in Proc : Shutting(q, s, w) => q = p
      BY <1>4, <3>1, Zenon DEF ShutsEnd
    <3>3. \A q \in Proc : ~Freeing(q, s) BY <3>1, <3>2 DEF FreesPage, EndOpen
    <3>4. ASSUME NEW v \in {0, 1} PROVE FilesEnd(s, v)' /\ ShutsEnd(s, v)' /\ OpenUsed(s, v)'
      <4>1. FilesEnd(s, v) /\ ShutsEnd(s, v) /\ OpenUsed(s, v) BY <2>5, Zenon DEF EndsOK
      <4>2. FilesEnd(s, v)' BY <1>13, <2>1, <2>2, <3>2, <4>1, Zenon DEF FilesEnd
      <4>3. ShutsEnd(s, v)' BY <1>13, <2>1, <2>2, <2>3, <3>2, <4>1, Zenon DEF ShutsEnd
      <4>4. OpenUsed(s, v)'
        <5>1. Shutting(p, s, v) => v = w BY <1>3, Zenon DEF Shutting
        <5>2. QED BY <1>2, <2>1, <2>2, <2>3, <4>1, <5>1, Zenon DEF OpenUsed
      <4>5. QED BY <4>2, <4>3, <4>4, Zenon
    <3>5. FreesPage(s)' BY <1>10, <1>13, <2>4, <3>3, Zenon DEF FreesPage
    <3>6. DeadFreed(s)' BY <1>10, <1>13, <2>4, Zenon DEF DeadFreed
    <3>7. QED BY <3>4, <3>5, <3>6, Zenon DEF EndsOK
  <2>8. QED BY <2>6, <2>7, OneEnd, Zenon
<1>23. QED BY <1>19, <1>20, <1>21, <1>22, Zenon DEF PipeInv

\* The page is free when no file, no call that closes an end and no read or write uses it.
LEMMA KfreeInv ==
    ASSUME Counting, PipeInv, NEW p \in Proc, kfree(p)
    PROVE  PipeInv'
<1>1. pc[p] = "kfree" /\ PipeTypeOK /\ HeldOpen BY Referred, Zenon DEF kfree, PipeInv, AllOpen
<1>2. PICK s \in Pipe : s = cpipe[p] /\ Freeing(p, s) BY <1>1, CloseFacts, Zenon
<1>3. \A u \in Pipe \cup {NoPipe} : EndsOK(u) BY EndParts, Zenon DEF PipeInv
<1>4. /\ pipe[s].alloc = 1 /\ pipe[s].readopen = 0 /\ pipe[s].writeopen = 0
      /\ \A q \in Proc : Freeing(q, s) => q = p
  BY <1>2, <1>3, Zenon DEF EndsOK, FreesPage
<1> DEFINE t == todo[p]
<1>5. /\ pipe' = [pipe EXCEPT ![s] = Junk] /\ out' = [out EXCEPT ![s] = NoByte]
      /\ cpipe' = [cpipe EXCEPT ![p] = NoPipe] /\ writable' = [writable EXCEPT ![p] = 0]
      /\ exiting' = StillExiting(p, t) /\ Goto(p, AfterClose(p, t))
      /\ UNCHANGED <<ofile, file, todo, left, killed>>
  BY <1>2, Zenon DEF kfree
<1>6. todo'[p] = t /\ UNCHANGED <<ofile, file, todo, left, killed>> BY <1>5, Zenon
<1> HIDE DEF t
<1>7. Junk \in PipeRec /\ Junk.alloc = 0 /\ Junk.lock = NoProc BY ConstantsOK DEF Junk, PipeRec
<1>8. pipe' \in [Pipe -> PipeRec] /\ pipe'[s] = Junk /\ \A u \in Pipe : u # s => pipe'[u] = pipe[u]
  <2>1. pipe \in [Pipe -> PipeRec] BY <1>1, Zenon DEF PipeTypeOK
  <2>2. pipe' \in [Pipe -> PipeRec] BY <1>5, <1>7, <2>1, Zenon
  <2>3. QED BY <1>5, <2>1, <2>2, Zenon
<1>9. PICK l \in {"fileclose", "unused", "user"} : l = AfterClose(p, t) BY Zenon DEF AfterClose
<1>10. /\ l \in Labels /\ l \notin Critical /\ l \notin {"filealloc", "kalloc"} /\ l # "pipeclose" /\ l # "kfree"
       /\ pc[p] \in Closing /\ pc[p] \notin Critical
  BY <1>1, Zenon DEF Labels, Closing, Critical
<1>11. pc' \in [Proc -> Labels] /\ pc'[p] = l /\ \A q \in Proc : q # p => pc'[q] = pc[q]
  BY <1>1, <1>5, <1>9, <1>10, GotoFacts, Zenon
<1>12. exiting' \in [Proc -> {0, 1}] /\ OnlyOf(exiting, exiting', p) /\ CallOK(p)'
  BY <1>5, <1>6, <1>9, <1>10, <1>11, AfterFacts, Zenon
<1>13. /\ cpipe' \in [Proc -> Pipe \cup {NoPipe}] /\ OnlyOf(cpipe, cpipe', p)
       /\ writable' \in [Proc -> {0, 1}] /\ OnlyOf(writable, writable', p)
       /\ out' \in [Pipe -> Byte \cup {NoByte}]
  <2>1. /\ cpipe \in [Proc -> Pipe \cup {NoPipe}] /\ writable \in [Proc -> {0, 1}]
        /\ out \in [Pipe -> Byte \cup {NoByte}]
    BY <1>1, Zenon DEF PipeTypeOK
  <2>2. QED BY <1>5, <2>1, Zenon DEF OnlyOf
<1>14. Others(p) BY <1>6, <1>11, <1>12, <1>13, Zenon DEF Others, OnlyOf
<1>15. PipeTypeOK' BY <1>1, <1>6, <1>8, <1>11, <1>12, <1>13, Zenon DEF PipeTypeOK
<1>16. RefInv' /\ CallInv' BY <1>6, <1>10, <1>11, <1>12, <1>14, FilesKept, Zenon
<1>17. LockInv'
  <2>1. pipe[s].lock = NoProc BY <1>4, PageLock, Zenon
  <2>2. \A u \in Pipe : pipe'[u].lock = pipe[u].lock BY <1>7, <1>8, <2>1, Zenon
  <2>3. QED BY <1>1, <1>10, <1>11, <1>14, <2>2, LockKept, Zenon
<1>18. EndInv'
  <2>1. \A f, u, v : IsEnd(f, u, v)' <=> IsEnd(f, u, v) BY <1>6, Zenon DEF IsEnd
  <2>2. \A q \in Proc : \A u, v : Shutting(q, u, v)' <=> Shutting(q, u, v)
    BY <1>1, <1>10, <1>11, <1>13, Zenon DEF Shutting, OnlyOf
  <2>3. \A q \in Proc : \A u : Freeing(q, u)' <=> Freeing(q, u) /\ q # p
    BY <1>10, <1>11, <1>13, Zenon DEF Freeing, OnlyOf
  <2>4. \A u \in Pipe \cup {NoPipe} : u # s => SameEnd(u)
    <3>1. \A u : Freeing(p, u) => u = s BY <1>2, Zenon DEF Freeing
    <3>2. QED BY <1>8, <2>1, <2>2, <2>3, <3>1, Zenon DEF SameEnd
  <2>5. \A v \in {0, 1} : ~EndOpen(s, v) BY <1>4 DEF EndOpen
  <2>6. \A v \in {0, 1} : (\A g \in File : ~IsEnd(g, s, v)) /\ (\A q \in Proc : ~Shutting(q, s, v))
    BY <1>3, <2>5, Zenon DEF EndsOK, FilesEnd, ShutsEnd
  <2>7. pipe'[s].alloc = 0 BY <1>7, <1>8, Zenon
  <2>8. EndsOK(s)'
    <3>1. \A v \in {0, 1} : FilesEnd(s, v)' /\ ShutsEnd(s, v)' BY <2>1, <2>2, <2>6, Zenon DEF FilesEnd, ShutsEnd
    <3>2. \A v \in {0, 1} : OpenUsed(s, v)' BY <2>7 DEF OpenUsed
    <3>3. FreesPage(s)' /\ DeadFreed(s)' BY <1>4, <2>3, <2>7 DEF FreesPage, DeadFreed
    <3>4. QED BY <3>1, <3>2, <3>3, Zenon DEF EndsOK
  <2>9. QED BY <2>4, <2>8, OneEnd, Zenon
<1>19. QED BY <1>15, <1>16, <1>17, <1>18, Zenon DEF PipeInv

-----------------------------------------------------------------------------
(* Least elements, and counting the references that a process has *)

\* A set of integers with a lower bound has a least element.
LEMMA MinIn ==
    ASSUME NEW b \in Int, NEW S \in SUBSET Int, S # {}, \A x \in S : b =< x
    PROVE  Min(S) \in S
<1> DEFINE R == OpToRel(<, Nat)
           T == {k \in Nat : k + b \in S}
<1>1. IsWellFoundedOn(R, Nat) BY NatLessThanWellFounded, Zenon
<1>2. \A x, y \in Nat : y < x => <<y, x>> \in R BY Zenon DEF OpToRel
<1>3. T # {} /\ T \subseteq Nat
  <2>1. PICK x \in S : TRUE BY Zenon
  <2>2. x - b \in Nat /\ (x - b) + b = x OBVIOUS
  <2>3. x - b \in T BY <2>1, <2>2, Zenon
  <2>4. QED BY <2>3, Zenon
<1>4. \A k \in Nat : k \in T <=> k + b \in S BY Zenon
<1> HIDE DEF R, T
<1>5. PICK m \in T : \A y \in T : ~(<<y, m>> \in R) BY <1>1, <1>3, WFMin, Zenon
<1>6. \A y \in T : ~(y < m) BY <1>2, <1>3, <1>5, Zenon
<1>7. m + b \in S BY <1>3, <1>4, <1>5, Zenon
<1>8. ASSUME NEW y \in S PROVE m + b =< y
  <2>1. y - b \in Nat /\ (y - b) + b = y /\ m \in Nat BY <1>3
  <2>2. y - b \in T BY <1>4, <2>1, Zenon
  <2>3. ~(y - b < m) BY <1>6, <2>2, Zenon
  <2>4. QED BY <2>1, <2>3
<1>9. QED BY <1>7, <1>8, Zenon DEF Min

LEMMA Bounds == /\ IsFiniteSet(Fd) /\ IsFiniteSet(Slot) /\ Fd \subseteq Slot /\ Rf \in Slot /\ Wf \in Slot
                /\ Rf \notin Fd /\ Wf \notin Fd /\ Rf # Wf /\ \A i \in Slot : i \in Fd \/ i = Rf \/ i = Wf
<1> USE ConstantsOK DEF Fd, Slot, Rf, Wf
<1>1. IsFiniteSet(Fd) BY FS_Interval
<1>2. IsFiniteSet(Slot) BY FS_Interval
<1>3. QED BY <1>1, <1>2

LEMMA RowFinite ==
    ASSUME NEW I, IsFiniteSet(I), NEW g, NEW f
    PROVE  IsFiniteSet(Row(g, I, f)) /\ Cardinality(Row(g, I, f)) \in Nat
<1>1. Row(g, I, f) \in SUBSET I BY Zenon DEF Row
<1>2. IsFiniteSet(Row(g, I, f)) BY <1>1, FS_Subset, Zenon
<1>3. QED BY <1>2, FS_CardinalityType, Zenon

LEMMA RefsFinite ==
    ASSUME NEW I, IsFiniteSet(I), NEW h, NEW f
    PROVE  IsFiniteSet(Refs(h, I, f)) /\ Cardinality(Refs(h, I, f)) \in Nat
<1>1. IsFiniteSet(Proc \X I) BY ConstantsOK, FS_Product, Zenon
<1>2. Refs(h, I, f) \in SUBSET (Proc \X I) BY Zenon DEF Refs
<1>3. IsFiniteSet(Refs(h, I, f)) BY <1>1, <1>2, FS_Subset, Zenon
<1>4. QED BY <1>3, FS_CardinalityType, Zenon

\* The references of process p are those in its row, and the others are elsewhere.
Elsewhere(h, I, f, p) == {x \in Refs(h, I, f) : x[1] # p}

LEMMA RefsSplit ==
    ASSUME NEW I, IsFiniteSet(I), NEW h, NEW f, NEW p \in Proc
    PROVE  /\ Cardinality(Refs(h, I, f)) = Cardinality(Elsewhere(h, I, f, p)) + Cardinality(Row(h[p], I, f))
           /\ Cardinality(Elsewhere(h, I, f, p)) \in Nat
<1> DEFINE W == Row(h[p], I, f)
           Q == Elsewhere(h, I, f, p)
           B == {p} \X W
<1>1. IsFiniteSet(W) /\ Cardinality(W) \in Nat BY RowFinite, Zenon
<1>2. IsFiniteSet({p}) /\ Cardinality({p}) = 1 BY FS_Singleton, Zenon
<1>3. Refs(h, I, f) = Q \cup B
  <2>1. Refs(h, I, f) \subseteq Q \cup B BY Zenon DEF Refs, Row, Elsewhere
  <2>2. Q \cup B \subseteq Refs(h, I, f) BY Zenon DEF Refs, Row, Elsewhere
  <2>3. QED BY <2>1, <2>2, Zenon
<1>4. Q \cap B = {} BY Zenon DEF Elsewhere
<1>5. Q \in SUBSET Refs(h, I, f) BY Zenon DEF Elsewhere
<1> HIDE DEF W
<1>6. IsFiniteSet(B) /\ Cardinality(B) = 1 * Cardinality(W) BY <1>1, <1>2, FS_Product, Zenon
<1> HIDE DEF B, Q
<1>7. IsFiniteSet(Q) BY <1>5, RefsFinite, FS_Subset, Zenon
<1>8. Cardinality(Q) \in Nat BY <1>7, FS_CardinalityType, Zenon
<1>9. Cardinality(Q \cup B) = Cardinality(Q) + Cardinality(B) - Cardinality(Q \cap B)
  BY <1>6, <1>7, FS_Union, Zenon
<1>10. Cardinality(Q \cap B) = 0 BY <1>4, FS_EmptySet, Zenon
<1>11. Cardinality(B) = Cardinality(W) BY <1>1, <1>6
<1>12. Cardinality(Refs(h, I, f)) = Cardinality(Q) + Cardinality(W)
  BY <1>1, <1>3, <1>8, <1>9, <1>10, <1>11
<1>13. QED BY <1>8, <1>12, Zenon DEF W, Q

\* One process changes its row.
LEMMA RefsRow ==
    ASSUME NEW I, IsFiniteSet(I), NEW h, NEW k, NEW p \in Proc, NEW f,
           OnlyOf(h, k, p)
    PROVE  Cardinality(Refs(k, I, f)) =
           Cardinality(Refs(h, I, f)) - Cardinality(Row(h[p], I, f)) + Cardinality(Row(k[p], I, f))
<1>1. Elsewhere(h, I, f, p) = Elsewhere(k, I, f, p) BY Zenon DEF Elsewhere, Refs, OnlyOf
<1>2. /\ Cardinality(Refs(k, I, f)) = Cardinality(Elsewhere(k, I, f, p)) + Cardinality(Row(k[p], I, f))
      /\ Cardinality(Elsewhere(k, I, f, p)) \in Nat
  BY RefsSplit, Zenon
<1>3. Cardinality(Refs(h, I, f)) = Cardinality(Elsewhere(h, I, f, p)) + Cardinality(Row(h[p], I, f))
  BY RefsSplit, Zenon
<1>4. Cardinality(Row(k[p], I, f)) \in Nat /\ Cardinality(Row(h[p], I, f)) \in Nat BY RowFinite, Zenon
<1>5. QED BY <1>1, <1>2, <1>3, <1>4

\* One place of a row changes.
LEMMA RowSet ==
    ASSUME NEW I, IsFiniteSet(I), NEW g, NEW k, NEW i \in I, NEW f, OnlyAt(g, k, I, i)
    PROVE  Cardinality(Row(k, I, f)) =
           Cardinality(Row(g, I, f)) - (IF g[i] = f THEN 1 ELSE 0) + (IF k[i] = f THEN 1 ELSE 0)
<1> DEFINE A == Row(g, I, f) \ {i}
<1>1. IsFiniteSet(Row(g, I, f)) /\ Cardinality(Row(g, I, f)) \in Nat BY RowFinite, Zenon
<1>2. /\ IsFiniteSet(A)
      /\ Cardinality(A) = IF i \in Row(g, I, f) THEN Cardinality(Row(g, I, f)) - 1
                                                ELSE Cardinality(Row(g, I, f))
  BY <1>1, FS_RemoveElement, Zenon
<1>3. i \in Row(g, I, f) <=> g[i] = f BY Zenon DEF Row
<1>4. i \notin A BY Zenon
<1>5. Row(k, I, f) = IF k[i] = f THEN A \cup {i} ELSE A BY Zenon DEF Row, OnlyAt
<1> HIDE DEF A
<1>6. Cardinality(A \cup {i}) = Cardinality(A) + 1 BY <1>2, <1>4, FS_AddElement, Zenon
<1>7. QED BY <1>1, <1>2, <1>3, <1>5, <1>6

LEMMA Counted == Counting
<1> USE Bounds
<1>1. HasMin BY MinIn, Zenon DEF HasMin
<1>2. UsesNat BY RowFinite DEF UsesNat, Uses
<1>3. FdCount
  <2> SUFFICES ASSUME NEW g, NEW k, NEW t, NEW f, NEW d \in Fd, OnlyAt(g, k, Fd, d)
               PROVE  Uses(k, t, f) = Uses(g, t, f) - (IF g[d] = f THEN 1 ELSE 0) + (IF k[d] = f THEN 1 ELSE 0)
    BY Zenon DEF FdCount
  <2>1. Cardinality(Row(k, Fd, f)) =
        Cardinality(Row(g, Fd, f)) - (IF g[d] = f THEN 1 ELSE 0) + (IF k[d] = f THEN 1 ELSE 0)
    BY RowSet
  <2>2. Cardinality(Row(g, Fd, f)) \in Nat /\ Cardinality(Row(t, Slot, f)) \in Nat BY RowFinite, Zenon
  <2>3. QED BY <2>1, <2>2 DEF Uses
<1>4. SlotCount
  <2> SUFFICES ASSUME NEW g, NEW t, NEW u, NEW f, NEW i \in Slot, OnlyAt(t, u, Slot, i)
               PROVE  Uses(g, u, f) = Uses(g, t, f) - (IF t[i] = f THEN 1 ELSE 0) + (IF u[i] = f THEN 1 ELSE 0)
    BY Zenon DEF SlotCount
  <2>1. Cardinality(Row(u, Slot, f)) =
        Cardinality(Row(t, Slot, f)) - (IF t[i] = f THEN 1 ELSE 0) + (IF u[i] = f THEN 1 ELSE 0)
    BY RowSet
  <2>2. Cardinality(Row(g, Fd, f)) \in Nat /\ Cardinality(Row(t, Slot, f)) \in Nat BY RowFinite, Zenon
  <2>3. QED BY <2>1, <2>2 DEF Uses
<1>5. \A f \in File : Cardinality(Row(NoTodo, Slot, f)) = 0 /\ Cardinality(Row(NoFds, Fd, f)) = 0
  <2> SUFFICES ASSUME NEW f \in File
               PROVE  Cardinality(Row(NoTodo, Slot, f)) = 0 /\ Cardinality(Row(NoFds, Fd, f)) = 0
    BY Zenon
  <2>1. Row(NoTodo, Slot, f) = {} /\ Row(NoFds, Fd, f) = {} BY RealFile, Zenon DEF Row, NoTodo, NoFds
  <2>2. QED BY <2>1, FS_EmptySet, Zenon
<1>6. NoUses BY <1>5 DEF NoUses, Uses
<1>7. FdUses
  <2> SUFFICES ASSUME NEW g, NEW f \in File PROVE Uses(g, NoTodo, f) = Cardinality(Row(g, Fd, f))
    BY Zenon DEF FdUses
  <2>1. Cardinality(Row(g, Fd, f)) \in Nat BY RowFinite, Zenon
  <2>2. QED BY <1>5, <2>1 DEF Uses
<1>8. ExitUses
  <2> SUFFICES ASSUME NEW g, NEW t, \A i \in Slot : t[i] = IF i \in Fd THEN g[i] ELSE NoFile, NEW f \in File
               PROVE  Uses(NoFds, t, f) = Uses(g, NoTodo, f)
    BY Zenon DEF ExitUses
  <2>1. Row(t, Slot, f) = Row(g, Fd, f) BY RealFile, Zenon DEF Row
  <2>2. Cardinality(Row(g, Fd, f)) \in Nat BY RowFinite, Zenon
  <2>3. QED BY <1>5, <2>1, <2>2 DEF Uses
<1>9. TotalStep
  <2> SUFFICES ASSUME NEW h, NEW k, NEW m, NEW n, NEW f, NEW p \in Proc, OnlyOf(h, m, p), OnlyOf(k, n, p)
               PROVE  Total(m, n, f) = Total(h, k, f) - Uses(h[p], k[p], f) + Uses(m[p], n[p], f)
    BY DEF TotalStep
  <2>1. Cardinality(Refs(m, Fd, f)) =
        Cardinality(Refs(h, Fd, f)) - Cardinality(Row(h[p], Fd, f)) + Cardinality(Row(m[p], Fd, f))
    BY RefsRow
  <2>2. Cardinality(Refs(n, Slot, f)) =
        Cardinality(Refs(k, Slot, f)) - Cardinality(Row(k[p], Slot, f)) + Cardinality(Row(n[p], Slot, f))
    BY RefsRow
  <2>3. Cardinality(Refs(h, Fd, f)) \in Nat /\ Cardinality(Refs(k, Slot, f)) \in Nat BY RefsFinite, Zenon
  <2>4. /\ Cardinality(Row(h[p], Fd, f)) \in Nat /\ Cardinality(Row(m[p], Fd, f)) \in Nat
        /\ Cardinality(Row(k[p], Slot, f)) \in Nat /\ Cardinality(Row(n[p], Slot, f)) \in Nat
    BY RowFinite, Zenon
  <2>5. QED BY <2>1, <2>2, <2>3, <2>4 DEF Total, Uses
<1>10. TotalUsed
  <2> SUFFICES ASSUME NEW h, NEW k, NEW f, NEW p \in Proc,
                      (\E d \in Fd : h[p][d] = f) \/ (\E i \in Slot : k[p][i] = f)
               PROVE  Total(h, k, f) > 0
    BY Zenon DEF TotalUsed
  <2>1. /\ IsFiniteSet(Refs(h, Fd, f)) /\ Cardinality(Refs(h, Fd, f)) \in Nat
        /\ IsFiniteSet(Refs(k, Slot, f)) /\ Cardinality(Refs(k, Slot, f)) \in Nat
    BY RefsFinite, Zenon
  <2>2. Refs(h, Fd, f) # {} \/ Refs(k, Slot, f) # {}
    <3>1. \A d \in Fd : h[p][d] = f => <<p, d>> \in Refs(h, Fd, f) BY Zenon DEF Refs
    <3>2. \A i \in Slot : k[p][i] = f => <<p, i>> \in Refs(k, Slot, f) BY Zenon DEF Refs
    <3>3. QED BY <3>1, <3>2, Zenon
  <2>3. Cardinality(Refs(h, Fd, f)) # 0 \/ Cardinality(Refs(k, Slot, f)) # 0 BY <2>1, <2>2, FS_EmptySet, Zenon
  <2>4. QED BY <2>1, <2>3 DEF Total
<1>11. TotalOne
  <2> USE DEF TotalOne
  <2> TAKE h, k, f
  <2> TAKE p \in Proc, i \in Slot
  <2> HAVE Total(h, k, f) = 1 /\ k[p][i] = f
  <2> DEFINE D == Refs(h, Fd, f)
             H == Refs(k, Slot, f)
  <2>1. IsFiniteSet(D) /\ Cardinality(D) \in Nat /\ IsFiniteSet(H) /\ Cardinality(H) \in Nat BY RefsFinite, Zenon
  <2>2. Cardinality(D) + Cardinality(H) = 1 BY Zenon DEF Total
  <2>3. \A q \in Proc, d \in Fd : h[q][d] = f => <<q, d>> \in D BY Zenon DEF Refs
  <2>4. \A q \in Proc, j \in Slot : k[q][j] = f => <<q, j>> \in H BY Zenon DEF Refs
  <2> HIDE DEF D, H
  <2>5. <<p, i>> \in H BY <2>4, Zenon
  <2>6. Cardinality(H) # 0 BY <2>1, <2>5, FS_EmptySet, Zenon
  <2>7. Cardinality(D) = 0 /\ Cardinality(H) = 1 BY <2>1, <2>2, <2>6
  <2>8. D = {} BY <2>1, <2>7, FS_EmptySet, Zenon
  <2>9. PICK x : H = {x} BY <2>1, <2>7, FS_Singleton, Zenon
  <2>10. \A q \in Proc, d \in Fd : h[q][d] # f BY <2>3, <2>8, Zenon
  <2>11. \A q \in Proc, j \in Slot : k[q][j] = f => q = p /\ j = i BY <2>4, <2>5, <2>9
  <2>12. QED BY <2>10, <2>11, Zenon
<1>12. QED BY <1>1, <1>2, <1>3, <1>4, <1>6, <1>7, <1>8, <1>9, <1>10, <1>11, Zenon DEF Counting

-----------------------------------------------------------------------------
(* The files and the pages of the pipes *)

LEMMA InitInv == Init => PipeInv
<1> SUFFICES ASSUME Init PROVE PipeInv
  BY Zenon
<1> USE ConstantsOK DEF Init
<1>1. PICK p \in Proc : pc = [q \in Proc |-> IF q = p THEN "user" ELSE "unused"] BY Zenon
<1>2. PipeTypeOK
  <2>1. Junk \in PipeRec BY DEF Junk, PipeRec
  <2>2. NoFileRec \in FileRec BY Zenon DEF NoFileRec, FileRec
  <2>3. NoFds \in [Fd -> File \cup {NoFile}] BY Zenon DEF NoFds
  <2>4. NoTodo \in [Slot -> File \cup {NoFile}] BY Zenon DEF NoTodo
  <2>5. QED BY <1>1, <2>1, <2>2, <2>3, <2>4, Zenon DEF PipeTypeOK, Labels
<1>3. RefInv
  <2>1. ASSUME NEW f \in File PROVE file[f].ref = Cardinality(Descriptors(f)) + Cardinality(Holders(f))
    <3>1. f # NoFile BY DEF File, NoFile
    <3>2. Descriptors(f) = {} BY <3>1, Zenon DEF Descriptors, NoFds
    <3>3. Holders(f) = {} BY <3>1, Zenon DEF Holders, NoTodo
    <3>4. Cardinality({}) = 0 BY FS_EmptySet, Zenon
    <3>5. QED BY <3>2, <3>3, <3>4 DEF NoFileRec
  <2>2. QED BY <2>1, Zenon DEF RefInv, NoFileRec, NoFds
<1>4. CallInv BY <1>1 DEF CallInv, CallOK, Fresh, NoTodo, Opening, Closing, Reading, Writing
<1>5. EndInv BY <1>1 DEF EndInv, IsEnd, Shutting, Freeing, NoFileRec, Junk
<1>6. LockInv BY <1>1, Zenon DEF LockInv, Critical, Junk
<1>7. QED BY <1>2, <1>3, <1>4, <1>5, <1>6, Zenon DEF PipeInv

LEMMA NextInv == PipeInv /\ [Next]_vars => PipeInv'
<1> SUFFICES ASSUME PipeInv, [Next]_vars PROVE PipeInv'
  BY Zenon
<1> Counting BY Counted, Zenon
<1> HeldOpen BY Referred, Zenon DEF AllOpen
<1>1. CASE UNCHANGED vars
  <2>1. UNCHANGED <<ofile, file, pipe, pc, todo, cpipe, left, writable, exiting, killed, out>>
    BY <1>1, Zenon DEF vars, locals
  <2>2. PipeTypeOK' BY <2>1, Zenon DEF PipeInv, PipeTypeOK
  <2>3. \A q \in Proc : IoMove(q) BY <2>1, Zenon DEF IoMove
  <2>4. SameFiles /\ SameEnds BY <2>1, Zenon DEF SameFiles, SameEnds
  <2>5. RefInv' /\ CallInv' /\ EndInv' BY <2>3, <2>4, IoStep, Zenon
  <2>6. LockInv' BY <2>1, Zenon DEF PipeInv, LockInv
  <2>7. QED BY <2>2, <2>5, <2>6, Zenon DEF PipeInv
<1>2. ASSUME NEW p \in Proc, InKernel(p) PROVE PipeInv'
  BY <1>2, FileCloseInv, SecondFileInv, BadInv, FdsInv, PipeCloseInv, KfreeInv, AcquireInv, SleepInv,
     WriteFullInv, WriteEndInv, ReadTestInv, ReadByteInv, ReadEndInv, WriteByteInv, PipeAllocInv, Zenon
     DEF InKernel
<1>3. CASE Next
  BY <1>2, <1>3, SysPipeInv, ExitInv, KillInv, DupInv, CloseInv, ReadWriteInv, ForkInv, Zenon DEF Next
<1>4. QED BY <1>1, <1>3, Zenon

LEMMA Invariance == Spec => []PipeInv
BY InitInv, NextInv, PTL DEF Spec

\* ftable counts every reference to an open file, and an end of a pipe is open exactly as long
\* as a file refers to it or a pipeclose() of it is on its way (file.c, pipe.c, and pipe(),
\* dup(), close(), fork() and exit() that share and drop the descriptors).
THEOREM FileSafety == Spec => []FileRefs
<1>1. PipeInv => FileRefs
  <2> SUFFICES ASSUME PipeInv PROVE FileRefs
    BY Zenon
  <2>1. ASSUME NEW s \in Pipe, NEW w \in {0, 1}, pipe[s].alloc = 1
        PROVE  EndOpen(s, w) <=> (\E f \in File : IsEnd(f, s, w)) \/ (\E p \in Proc : Shutting(p, s, w))
    BY <2>1 DEF PipeInv, EndInv
  <2>2. QED BY <2>1, Zenon DEF FileRefs, PipeInv, RefInv, IsEnd, Shutting
<1>2. QED BY <1>1, Invariance, PTL

\* No process is inside a pipe whose page is free, and the page of a pipe with both ends closed
\* is freed by one process (piperead(), pipewrite(), pipeclose(), kfree()).
THEOREM PageSafety == Spec => []PipePages
<1>1. PipeInv => PipePages
  <2> SUFFICES ASSUME PipeInv PROVE PipePages
    BY Zenon
  <2> HeldOpen BY Counted, Referred, Zenon DEF AllOpen
  <2>1. ASSUME NEW p \in Proc, pc[p] \in InPipe PROVE cpipe[p] \in Pipe /\ pipe[cpipe[p]].alloc = 1
    <3>1. CASE pc[p] \in {"pipeclose", "kfree"} BY <3>1, CloseFacts, Zenon
    <3>2. CASE pc[p] \notin {"pipeclose", "kfree"}
      <4>1. pc[p] \in Reading \cup Writing BY <2>1, <3>2, Zenon DEF InPipe, Reading, Writing
      <4>2. QED BY <4>1, InsidePipe, Zenon
    <3>3. QED BY <3>1, <3>2, Zenon
  <2>2. ASSUME NEW s \in Pipe
        PROVE  (\E p \in Proc : Freeing(p, s)) <=>
               pipe[s].alloc = 1 /\ pipe[s].readopen = 0 /\ pipe[s].writeopen = 0
    BY Zenon DEF PipeInv, EndInv
  <2>3. ASSUME NEW p \in Proc, NEW q \in Proc, pc[p] = "kfree", pc[q] = "kfree", cpipe[p] = cpipe[q]
        PROVE  p = q
    <3>1. PICK s \in Pipe : s = cpipe[p] BY <2>3, CloseFacts, Zenon
    <3>2. Freeing(p, s) /\ Freeing(q, s) BY <2>3, <3>1, Zenon DEF Freeing
    <3>3. QED BY <3>2, Zenon DEF PipeInv, EndInv
  <2>4. QED BY <2>1, <2>2, <2>3, Zenon DEF PipePages, Freeing
<1>2. QED BY <1>1, Invariance, PTL

-----------------------------------------------------------------------------
(* The sleepers *)

\* As long as nobody is killed, no wakeup of a reader or a writer of a pipe is lost: what a
\* sleeper waits for has not happened when the lock of the pipe is free (sleep() and wakeup()
\* in piperead(), pipewrite() and pipeclose()).
THEOREM WakeSafety ==
    ASSUME Killable = {}
    PROVE  Spec => []NobodyForgotten
<1>1. Init => WakeInv
  <2> SUFFICES ASSUME Init PROVE WakeInv
    BY Zenon
  <2>1. \A p \in Proc : pc[p] \in {"user", "unused"} /\ killed[p] = 0 BY Zenon DEF Init
  <2>2. QED BY <2>1, Zenon DEF WakeInv, WakeAt, Asleep
<1>2. PipeInv /\ WakeInv => NobodyForgotten
  <2> SUFFICES ASSUME PipeInv, WakeInv, NEW s \in Pipe, pipe[s].lock = NoProc
               PROVE  /\ Asleep(s, "wsleep") => Full(s) /\ pipe[s].readopen = 1
                      /\ Asleep(s, "rsleep") => Empty(s) /\ pipe[s].writeopen = 1
    BY Zenon DEF NobodyForgotten
  <2>1. ~Asleep(s, "copy") /\ ~Asleep(s, "pipewrite")
    BY ConstantsOK DEF Asleep, PipeInv, LockInv, Critical
  <2>2. QED BY <2>1, Zenon DEF WakeInv, WakeAt
<1>3. PipeInv => HeldOpen BY Counted, Referred, Zenon DEF AllOpen
<1>4. QED BY <1>1, <1>2, <1>3, NextWake, Invariance, PTL DEF Spec
=============================================================================
