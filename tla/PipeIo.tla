------------------------------- MODULE PipeIo -------------------------------
(***************************************************************************)
(* read() and write() on a pipe: who is inside it, what its lock protects,  *)
(* and that no sleeper is forgotten (kernel/pipe.c).                        *)
(***************************************************************************)
EXTENDS PipeInvs, TLAPS

-----------------------------------------------------------------------------
(* Inside a pipe *)

\* What the invariant says of an end of a pipe, and of the calls that close one.
LEMMA EndFacts ==
    ASSUME PipeInv, NEW f \in File, file[f].ref > 0, file[f].type = "pipe"
    PROVE  /\ file[f].pipe \in Pipe /\ pipe[file[f].pipe].alloc = 1
           /\ EndOpen(file[f].pipe, file[f].writable)
<1>1. PICK s \in Pipe \cup {NoPipe}, w \in {0, 1} : s = file[f].pipe /\ w = file[f].writable
  BY Zenon DEF PipeInv, PipeTypeOK, FileRec
<1>2. IsEnd(f, s, w) BY <1>1, Zenon DEF IsEnd
<1>3. s \in Pipe /\ pipe[s].alloc = 1 /\ EndOpen(s, w) BY <1>2 DEF PipeInv, EndInv
<1>4. QED BY <1>1, <1>3, Zenon

LEMMA CloseFacts ==
    ASSUME PipeInv, NEW p \in Proc, pc[p] \in {"pipeclose", "kfree"}
    PROVE  /\ cpipe[p] \in Pipe /\ pipe[cpipe[p]].alloc = 1
           /\ pc[p] = "pipeclose" => Shutting(p, cpipe[p], writable[p])
           /\ pc[p] = "kfree" => Freeing(p, cpipe[p])
<1>1. PICK s \in Pipe \cup {NoPipe}, w \in {0, 1} : s = cpipe[p] /\ w = writable[p]
  BY Zenon DEF PipeInv, PipeTypeOK
<1>2. Shutting(p, s, w) \/ Freeing(p, s) BY <1>1, Zenon DEF Shutting, Freeing
<1>3. s \in Pipe /\ pipe[s].alloc = 1 BY <1>2, Zenon DEF PipeInv, EndInv
<1>4. QED BY <1>1, <1>3, Zenon DEF Shutting, Freeing

\* A call that reads or writes is inside a pipe whose end is open.
LEMMA InsidePipe ==
    ASSUME PipeInv, HeldOpen, NEW p \in Proc, pc[p] \in Reading \cup Writing
    PROVE  /\ cpipe[p] \in Pipe /\ pipe[cpipe[p]].alloc = 1
           /\ pc[p] \in Reading => pipe[cpipe[p]].readopen = 1
           /\ pc[p] \in Writing => pipe[cpipe[p]].writeopen = 1
<1>1. CallOK(p) BY Zenon DEF PipeInv, CallInv
<1>2. PICK d \in Fd : /\ ofile[p][d] # NoFile /\ file[ofile[p][d]].pipe = cpipe[p]
                      /\ file[ofile[p][d]].writable = IF pc[p] \in Writing THEN 1 ELSE 0
  BY <1>1, Zenon DEF CallOK
<1>3. PICK f \in File : f = ofile[p][d] BY <1>2 DEF PipeInv, PipeTypeOK
<1>4. file[f].ref > 0 /\ file[f].type = "pipe" BY <1>2, <1>3, Zenon DEF PipeInv, RefInv, HeldOpen
<1>5. QED BY <1>2, <1>3, <1>4, EndFacts DEF EndOpen, Reading, Writing

\* What a step on pipe s keeps of the pages and of the ends, and of the bytes in s.
KeptPipe(s) == /\ pipe' \in [Pipe -> PipeRec]
               /\ \A t \in Pipe : t # s => pipe'[t] = pipe[t]
               /\ pipe'[s].alloc = pipe[s].alloc
               /\ pipe'[s].readopen = pipe[s].readopen /\ pipe'[s].writeopen = pipe[s].writeopen
SameBytes(s) == pipe'[s].nread = pipe[s].nread /\ pipe'[s].nwrite = pipe[s].nwrite

LEMMA LockFacts ==
    ASSUME PipeTypeOK, NEW s \in Pipe, NEW x \in Proc \cup {NoProc}, Lock(s, x)
    PROVE  KeptPipe(s) /\ SameBytes(s) /\ pipe'[s].lock = x
<1>1. pipe \in [Pipe -> PipeRec] BY Zenon DEF PipeTypeOK
<1>2. PICK r \in PipeRec : r = pipe[s] BY <1>1, Zenon
<1>3. [r EXCEPT !.lock = x] \in PipeRec BY Zenon DEF PipeRec
<1>4. pipe' = [pipe EXCEPT ![s] = [r EXCEPT !.lock = x]] BY <1>2, Zenon DEF Lock
<1>5. pipe'[s] = [r EXCEPT !.lock = x] BY <1>1, <1>4, Zenon
<1>6. /\ pipe'[s].lock = x /\ pipe'[s].alloc = r.alloc
      /\ pipe'[s].readopen = r.readopen /\ pipe'[s].writeopen = r.writeopen
      /\ pipe'[s].nread = r.nread /\ pipe'[s].nwrite = r.nwrite
  BY <1>5, Zenon DEF PipeRec
<1>7. pipe' \in [Pipe -> PipeRec] /\ \A t \in Pipe : t # s => pipe'[t] = pipe[t] BY <1>1, <1>3, <1>4, Zenon
<1>8. QED BY <1>2, <1>6, <1>7, Zenon DEF KeptPipe, SameBytes

LEMMA SamePipe ==
    ASSUME PipeTypeOK, NEW s \in Pipe, UNCHANGED pipe
    PROVE  KeptPipe(s) /\ SameBytes(s) /\ pipe'[s].lock = pipe[s].lock
<1>1. pipe \in [Pipe -> PipeRec] BY Zenon DEF PipeTypeOK
<1>2. QED BY <1>1, Zenon DEF KeptPipe, SameBytes

LEMMA GotoFacts ==
    ASSUME PipeTypeOK, NEW p \in Proc, NEW l \in Labels, Goto(p, l)
    PROVE  pc' \in [Proc -> Labels] /\ pc'[p] = l /\ \A q \in Proc : q # p => pc'[q] = pc[q]
<1>1. pc \in [Proc -> Labels] BY Zenon DEF PipeTypeOK
<1>2. QED BY <1>1, Zenon DEF Goto

\* The other processes' calls stay on their pipes.
Apart(p) == \A q \in Proc : q # p => cpipe'[q] = cpipe[q]

\* All processes but p are where they were, or sleep no longer on s.
Woken(p, s) == \A q \in Proc : q # p =>
    /\ cpipe'[q] = cpipe[q]
    /\ \/ pc'[q] = pc[q]
       \/ cpipe[q] = s /\ pc[q] = "rsleep" /\ pc'[q] = "rlock"
       \/ cpipe[q] = s /\ pc[q] = "wsleep" /\ pc'[q] = "wlock"

\* Who else sleeps on the pipe.
Sleeper(s, p, l) == \E q \in Proc : q # p /\ pc[q] = l /\ cpipe[q] = s

\* wakeup() of the readers or of the writers of s, or of nobody, while p goes to l.
LEMMA WokenFacts ==
    ASSUME PipeTypeOK, NEW p \in Proc, NEW s, NEW l \in Labels, Apart(p),
           WakeReaders(s, p, l) \/ WakeWriters(s, p, l) \/ Goto(p, l)
    PROVE  /\ pc' \in [Proc -> Labels] /\ pc'[p] = l /\ Woken(p, s)
           /\ WakeReaders(s, p, l) => ~Sleeper(s, p, "rsleep")'
           /\ WakeWriters(s, p, l) => ~Sleeper(s, p, "wsleep")'
<1>1. pc \in [Proc -> Labels] /\ "rlock" \in Labels /\ "wlock" \in Labels
  BY Zenon DEF PipeTypeOK, Labels, Reading, Writing
<1>2. CASE Goto(p, l) BY <1>1, <1>2, Zenon DEF Goto, Apart, Woken, WakeReaders, WakeWriters, WakeupAnd, Sleeper
<1>3. CASE WakeReaders(s, p, l)
  BY <1>1, <1>3, Zenon DEF Apart, Woken, WakeReaders, WakeWriters, WakeupAnd, Sleeper
<1>4. CASE WakeWriters(s, p, l)
  BY <1>1, <1>4, Zenon DEF Apart, Woken, WakeReaders, WakeWriters, WakeupAnd, Sleeper
<1>5. QED BY <1>2, <1>3, <1>4, Zenon

LEMMA EndCallFacts ==
    ASSUME PipeTypeOK, NEW p \in Proc, EndCall(p)
    PROVE  /\ cpipe' \in [Proc -> Pipe \cup {NoPipe}] /\ left' \in [Proc -> Nat] /\ cpipe'[p] = NoPipe
           /\ Apart(p) /\ UNCHANGED <<todo, writable, exiting>>
<1>1. cpipe \in [Proc -> Pipe \cup {NoPipe}] /\ left \in [Proc -> Nat] BY Zenon DEF PipeTypeOK
<1>2. QED BY <1>1, Zenon DEF EndCall, Apart

-----------------------------------------------------------------------------
(* read() and write() *)

\* What a step of read() or write() does to the calls.
IoMove(q) ==
    \/ pc'[q] = pc[q] /\ cpipe'[q] = cpipe[q]
    \/ pc[q] \in Reading /\ pc'[q] \in Reading /\ cpipe'[q] = cpipe[q]
    \/ pc[q] \in Writing /\ pc'[q] \in Writing /\ cpipe'[q] = cpipe[q]
    \/ pc[q] \in Reading \cup Writing /\ pc'[q] = "user"
    \/ /\ pc[q] = "user" /\ pc'[q] \in Reading \cup Writing
       /\ \E d \in Fd : /\ ofile[q][d] # NoFile /\ file[ofile[q][d]].pipe = cpipe'[q]
                        /\ file[ofile[q][d]].writable = IF pc'[q] \in Writing THEN 1 ELSE 0

\* ... and what it leaves alone.
SameFiles == UNCHANGED <<ofile, file, todo, writable, exiting>>
SameEnds == \A s \in Pipe : /\ pipe'[s].alloc = pipe[s].alloc
                            /\ pipe'[s].readopen = pipe[s].readopen /\ pipe'[s].writeopen = pipe[s].writeopen

LEMMA IoStep ==
    ASSUME PipeInv, SameFiles, SameEnds, \A q \in Proc : IoMove(q)
    PROVE  RefInv' /\ CallInv' /\ EndInv'
<1>1. RefInv' BY Zenon DEF PipeInv, RefInv, Descriptors, Holders, SameFiles
<1>2. \A q \in Proc : /\ pc'[q] \in Opening \cup Closing \cup {"unused"} <=> pc[q] \in Opening \cup Closing \cup {"unused"}
                      /\ pc[q] \in Opening \cup Closing \cup {"unused"} => pc'[q] = pc[q] /\ cpipe'[q] = cpipe[q]
  BY Zenon DEF IoMove, Reading, Writing, Opening, Closing
<1>3. CallInv'
  <2>1. ASSUME NEW q \in Proc PROVE CallOK(q)'
    <3>1. CallOK(q) BY Zenon DEF PipeInv, CallInv
    <3>2. todo' = todo /\ exiting' = exiting /\ ofile' = ofile /\ file' = file BY Zenon DEF SameFiles
    <3>3. pc'[q] \notin Opening \cup Closing => todo'[q] = NoTodo BY <1>2, <3>1, <3>2, Zenon DEF CallOK
    <3>4. /\ pc'[q] = "fileclose" => todo'[q] # NoTodo
          /\ exiting'[q] = 1 => pc'[q] \in Closing /\ ofile'[q] = NoFds
          /\ pc'[q] = "unused" => ofile'[q] = NoFds
      BY <1>2, <3>1, <3>2, Zenon DEF CallOK, Closing
    <3>5. CASE pc'[q] \in Reading \cup Writing
      <4>1. PICK d \in Fd : /\ ofile[q][d] # NoFile /\ file[ofile[q][d]].pipe = cpipe'[q]
                            /\ file[ofile[q][d]].writable = IF pc'[q] \in Writing THEN 1 ELSE 0
        BY <3>1, <3>5 DEF CallOK, IoMove, Reading, Writing
      <4>2. pc'[q] \notin Opening BY <3>5, Zenon DEF Reading, Writing, Opening
      <4>3. QED BY <3>2, <3>3, <3>4, <4>1, <4>2, Zenon DEF CallOK
    <3>6. CASE pc'[q] \notin Reading \cup Writing
      <4>1. pc'[q] \in Opening => pc'[q] = pc[q] BY <1>2, Zenon
      <4>2. QED BY <3>1, <3>2, <3>3, <3>4, <3>6, <4>1, Zenon DEF CallOK
    <3>7. QED BY <3>5, <3>6, Zenon
  <2>2. Fresh'
    <3>1. \A q \in Proc : pc'[q] \in {"filealloc", "kalloc"} => pc[q] = pc'[q] BY <1>2, Zenon DEF Opening
    <3>2. QED BY <3>1 DEF PipeInv, CallInv, Fresh, SameFiles
  <2>3. QED BY <2>1, <2>2, Zenon DEF CallInv
<1>4. EndInv'
  <2>1. \A q \in Proc : /\ pc'[q] \in {"pipeclose", "kfree"} <=> pc[q] \in {"pipeclose", "kfree"}
                        /\ pc[q] \in {"pipeclose", "kfree"} => pc'[q] = pc[q] /\ cpipe'[q] = cpipe[q]
    BY <1>2, Zenon DEF Closing
  <2>2. \A f, s, w : IsEnd(f, s, w)' <=> IsEnd(f, s, w) BY Zenon DEF IsEnd, SameFiles
  <2>3. \A w : \A s \in Pipe : EndOpen(s, w)' <=> EndOpen(s, w) BY Zenon DEF EndOpen, SameEnds
  <2>4. \A q \in Proc : \A s, w : Shutting(q, s, w)' <=> Shutting(q, s, w) BY <2>1, Zenon DEF Shutting, SameFiles
  <2>5. \A q \in Proc : \A s : Freeing(q, s)' <=> Freeing(q, s) BY <2>1, Zenon DEF Freeing
  <2>6. QED BY <2>2, <2>3, <2>4, <2>5 DEF PipeInv, EndInv, SameEnds
<1>5. QED BY <1>1, <1>3, <1>4, Zenon

IoTypes == /\ pc' \in [Proc -> Labels] /\ cpipe' \in [Proc -> Pipe \cup {NoPipe}] /\ left' \in [Proc -> Nat]
           /\ killed' \in [Proc -> {0, 1}] /\ out' \in [Pipe -> Byte \cup {NoByte}]

\* Process p goes from one place of read() or write() to another or out of it, with the lock
\* of its pipe s or taking it.
IoCall(p, s) ==
    /\ s = cpipe[p] /\ (pc[p] \in Critical \/ pipe[s].lock = NoProc)
    /\ \/ pc[p] \in Reading /\ pc'[p] \in Reading /\ cpipe'[p] = s
       \/ pc[p] \in Writing /\ pc'[p] \in Writing /\ cpipe'[p] = s
       \/ pc[p] \in Reading \cup Writing /\ pc'[p] = "user" /\ cpipe'[p] = NoPipe
    /\ pipe'[s].lock = IF pc'[p] \in Critical THEN p ELSE NoProc

\* p holds the lock of s, or nobody does: nobody else is inside.
OthersOut(p, s) == \A q \in Proc : q # p /\ cpipe[q] = s => pc[q] \notin Critical

LEMMA Alone ==
    ASSUME PipeInv, NEW p \in Proc, NEW s \in Pipe, pipe[s].lock = NoProc \/ (pc[p] \in Critical /\ cpipe[p] = s)
    PROVE  OthersOut(p, s)
BY ConstantsOK DEF PipeInv, LockInv, OthersOut

LEMMA IoInv ==
    ASSUME PipeInv, HeldOpen, NEW p \in Proc, NEW s \in Pipe, IoCall(p, s), Woken(p, s), KeptPipe(s),
           IoTypes, SameFiles
    PROVE  PipeInv'
<1>1. PipeTypeOK' BY Zenon DEF PipeInv, PipeTypeOK, IoTypes, SameFiles, KeptPipe
<1>2. \A q \in Proc : IoMove(q)
  <2>1. IoMove(p) BY Zenon DEF IoMove, IoCall
  <2>2. ASSUME NEW q \in Proc, q # p PROVE IoMove(q) BY <2>2, Zenon DEF IoMove, Woken, Reading, Writing
  <2>3. QED BY <2>1, <2>2, Zenon
<1>3. SameEnds BY Zenon DEF SameEnds, KeptPipe
<1>4. RefInv' /\ CallInv' /\ EndInv' BY <1>2, <1>3, IoStep, Zenon
<1>5. LockInv'
  <2>1. \A q \in Proc : q # p => /\ pc'[q] \in Critical <=> pc[q] \in Critical
                                 /\ cpipe'[q] = cpipe[q]
    BY Zenon DEF Critical, Woken
  <2>2. OthersOut(p, s) BY Alone, Zenon DEF IoCall
  <2>3. pc'[p] \in Critical => cpipe'[p] = s BY Zenon DEF IoCall, Critical
  <2>4. ASSUME NEW q \in Proc, pc'[q] \in Critical PROVE pipe'[cpipe'[q]].lock = q
    <3>1. CASE q = p BY <2>3, <2>4, <3>1, Zenon DEF IoCall
    <3>2. CASE q # p
      <4>1. pc[q] \in Critical /\ cpipe'[q] = cpipe[q] /\ cpipe[q] # s BY <2>1, <2>2, <2>4, <3>2, Zenon DEF OthersOut
      <4>2. cpipe[q] \in Pipe BY <4>1, InsidePipe, Zenon DEF Critical, Reading, Writing
      <4>3. QED BY <4>1, <4>2 DEF PipeInv, LockInv, KeptPipe
    <3>3. QED BY <3>1, <3>2, Zenon
  <2>5. ASSUME NEW t \in Pipe, pipe'[t].lock # NoProc
        PROVE  pc'[pipe'[t].lock] \in Critical /\ cpipe'[pipe'[t].lock] = t
    <3>1. CASE t = s BY <2>3, <2>5, <3>1, Zenon DEF IoCall
    <3>2. CASE t # s
      <4>1. pipe'[t] = pipe[t] BY <3>2, Zenon DEF KeptPipe
      <4>2. PICK q \in Proc : q = pipe[t].lock BY <2>5, <4>1, Zenon DEF PipeInv, PipeTypeOK, PipeRec
      <4>3. pc[q] \in Critical /\ cpipe[q] = t BY <2>5, <4>1, <4>2, Zenon DEF PipeInv, LockInv
      <4>4. q # p BY <3>2, <4>3, Zenon DEF IoCall
      <4>5. QED BY <2>1, <4>1, <4>2, <4>3, <4>4, Zenon
    <3>3. QED BY <3>1, <3>2, Zenon
  <2>6. QED BY <2>4, <2>5, Zenon DEF LockInv
<1>6. QED BY <1>1, <1>4, <1>5, Zenon DEF PipeInv

\* p goes on to l in its call, with the lock or taking it, maybe waking others.
LEMMA MoveInv ==
    ASSUME PipeInv, HeldOpen, NEW p \in Proc, NEW s \in Pipe, s = cpipe[p], NEW l \in Labels,
           (pc[p] \in Reading /\ l \in Reading) \/ (pc[p] \in Writing /\ l \in Writing),
           pc[p] \in Critical \/ pipe[s].lock = NoProc,
           WakeReaders(s, p, l) \/ WakeWriters(s, p, l) \/ Goto(p, l),
           KeptPipe(s), pipe'[s].lock = IF l \in Critical THEN p ELSE NoProc,
           UNCHANGED <<ofile, file, locals, killed, out>>
    PROVE  PipeInv'
<1>1. PipeTypeOK BY Zenon DEF PipeInv
<1>2. UNCHANGED <<todo, cpipe, left, writable, exiting>> BY Zenon DEF locals
<1>3. Apart(p) BY <1>2, Zenon DEF Apart
<1>4. pc' \in [Proc -> Labels] /\ pc'[p] = l /\ Woken(p, s) BY <1>1, <1>3, WokenFacts, Zenon
<1>5. IoCall(p, s) BY <1>2, <1>4, Zenon DEF IoCall
<1>6. IoTypes BY <1>1, <1>2, <1>4, Zenon DEF IoTypes, PipeTypeOK
<1>7. SameFiles BY <1>2, Zenon DEF SameFiles
<1>8. QED BY <1>4, <1>5, <1>6, <1>7, IoInv, Zenon

\* p gives up the lock and leaves the call, maybe waking others.
LEMMA LeaveInv ==
    ASSUME PipeInv, HeldOpen, NEW p \in Proc, NEW s \in Pipe, s = cpipe[p],
           pc[p] \in Reading \cup Writing, pc[p] \in Critical, Unlock(s), EndCall(p),
           WakeReaders(s, p, "user") \/ WakeWriters(s, p, "user") \/ Goto(p, "user"),
           UNCHANGED <<ofile, file, killed, out>>
    PROVE  PipeInv'
<1>1. PipeTypeOK /\ "user" \in Labels /\ "user" \notin Critical BY Zenon DEF PipeInv, Labels, Critical
<1>2. /\ cpipe' \in [Proc -> Pipe \cup {NoPipe}] /\ left' \in [Proc -> Nat] /\ cpipe'[p] = NoPipe
      /\ Apart(p) /\ UNCHANGED <<todo, writable, exiting>>
  BY <1>1, EndCallFacts, Zenon
<1>3. pc' \in [Proc -> Labels] /\ pc'[p] = "user" /\ Woken(p, s) BY <1>1, <1>2, WokenFacts, Zenon
<1>4. KeptPipe(s) /\ pipe'[s].lock = NoProc BY <1>1, LockFacts, Zenon DEF Unlock
<1>5. IoCall(p, s) BY <1>1, <1>2, <1>3, <1>4, Zenon DEF IoCall
<1>6. IoTypes BY <1>1, <1>2, <1>3, Zenon DEF IoTypes, PipeTypeOK
<1>7. SameFiles BY <1>2, Zenon DEF SameFiles
<1>8. QED BY <1>3, <1>4, <1>5, <1>6, <1>7, IoInv, Zenon

LEMMA AcquireInv ==
    ASSUME PipeInv, HeldOpen, NEW p \in Proc, acquire(p)
    PROVE  PipeInv'
<1>1. pc[p] \in {"rlock", "wlock"} BY Zenon DEF acquire
<1>2. PICK s \in Pipe : s = cpipe[p] BY <1>1, InsidePipe, Zenon DEF Reading, Writing
<1>3. PICK l \in {"piperead", "pipewrite"} : l = (IF pc[p] = "rlock" THEN "piperead" ELSE "pipewrite") /\ Goto(p, l)
  BY Zenon DEF acquire
<1>4. Lock(s, p) /\ pipe[s].lock = NoProc /\ UNCHANGED <<ofile, file, locals, killed, out>> BY <1>2, Zenon DEF acquire
<1>5. l \in Labels /\ l \in Critical BY Zenon DEF Labels, Reading, Writing, Critical
<1>6. (pc[p] \in Reading /\ l \in Reading) \/ (pc[p] \in Writing /\ l \in Writing) BY <1>1, <1>3, Zenon DEF Reading, Writing
<1>7. KeptPipe(s) /\ pipe'[s].lock = p BY <1>4, LockFacts, Zenon DEF PipeInv
<1>8. QED BY <1>2, <1>3, <1>4, <1>5, <1>6, <1>7, MoveInv, Zenon

LEMMA SleepInv ==
    ASSUME PipeInv, HeldOpen, NEW p \in Proc, sleep(p)
    PROVE  PipeInv'
<1>1. pc[p] \in {"empty", "full"} BY Zenon DEF sleep
<1>2. PICK s \in Pipe : s = cpipe[p] BY <1>1, InsidePipe, Zenon DEF Reading, Writing
<1>3. PICK l \in {"rsleep", "wsleep"} : l = (IF pc[p] = "empty" THEN "rsleep" ELSE "wsleep") /\ Goto(p, l)
  BY Zenon DEF sleep
<1>4. Lock(s, NoProc) /\ UNCHANGED <<ofile, file, locals, killed, out>> BY <1>2, Zenon DEF sleep, Unlock
<1>5. l \in Labels /\ l \notin Critical /\ pc[p] \in Critical BY <1>1, Zenon DEF Labels, Reading, Writing, Critical
<1>6. (pc[p] \in Reading /\ l \in Reading) \/ (pc[p] \in Writing /\ l \in Writing) BY <1>1, <1>3, Zenon DEF Reading, Writing
<1>7. KeptPipe(s) /\ pipe'[s].lock = NoProc BY <1>4, LockFacts, Zenon DEF PipeInv
<1>8. QED BY <1>2, <1>3, <1>4, <1>5, <1>6, <1>7, MoveInv, Zenon

\* A byte goes in or out: x is the pipe after it, and b what came out.
ByteMove(p, s, x, b) ==
    /\ x.alloc = pipe[s].alloc /\ x.lock = pipe[s].lock
    /\ x.readopen = pipe[s].readopen /\ x.writeopen = pipe[s].writeopen
    /\ pipe' = [pipe EXCEPT ![s] = x]
    /\ left[p] > 0 /\ left' = [left EXCEPT ![p] = left[p] - 1]
    /\ out' = [out EXCEPT ![s] = b]
    /\ UNCHANGED <<ofile, file, pc, todo, cpipe, writable, exiting, killed>>

LEMMA ByteInv ==
    ASSUME PipeInv, HeldOpen, NEW p \in Proc, NEW s \in Pipe, s = cpipe[p],
           pc[p] \in Reading \cup Writing, pc[p] \in Critical,
           NEW x \in PipeRec, NEW b \in Byte \cup {NoByte}, ByteMove(p, s, x, b)
    PROVE  PipeInv'
<1>1. /\ pipe \in [Pipe -> PipeRec] /\ out \in [Pipe -> Byte \cup {NoByte}] /\ left \in [Proc -> Nat]
      /\ pc \in [Proc -> Labels] /\ cpipe \in [Proc -> Pipe \cup {NoPipe}] /\ killed \in [Proc -> {0, 1}]
  BY Zenon DEF PipeInv, PipeTypeOK
<1>2. KeptPipe(s) /\ pipe'[s].lock = pipe[s].lock BY <1>1, Zenon DEF KeptPipe, ByteMove
<1>3. IoTypes
  <2>1. left[p] - 1 \in Nat BY <1>1 DEF ByteMove
  <2>2. QED BY <1>1, <2>1, Zenon DEF IoTypes, ByteMove
<1>4. pipe[s].lock = p BY Zenon DEF PipeInv, LockInv
<1>5. IoCall(p, s) BY <1>2, <1>4, Zenon DEF IoCall, ByteMove
<1>6. Woken(p, s) BY Zenon DEF Woken, ByteMove
<1>7. SameFiles BY Zenon DEF SameFiles, ByteMove
<1>8. QED BY <1>2, <1>3, <1>5, <1>6, <1>7, IoInv, Zenon

LEMMA WriteByteInv ==
    ASSUME PipeInv, HeldOpen, NEW p \in Proc, NEW b \in Byte, pipewrite_byte(p, b)
    PROVE  PipeInv'
<1>1. pc[p] = "pipewrite" /\ left[p] > 0 BY Zenon DEF pipewrite_byte
<1>2. PICK s \in Pipe : s = cpipe[p] BY <1>1, InsidePipe, Zenon DEF Reading, Writing
<1>3. PICK r \in PipeRec : r = pipe[s] BY Zenon DEF PipeInv, PipeTypeOK
<1>4. PICK m \in 0 .. UINT - 1 : m = (r.nwrite + 1) % UINT BY ConstantsOK DEF PipeRec
<1>5. PICK y \in [0 .. PIPESIZE - 1 -> Byte \cup {NoByte}] : y = [r.data EXCEPT ![r.nwrite % PIPESIZE] = b]
  BY Zenon DEF PipeRec
<1>6. /\ pipe' = [pipe EXCEPT ![s] = [r EXCEPT !.nwrite = m, !.data = y]]
      /\ left' = [left EXCEPT ![p] = left[p] - 1] /\ out' = [out EXCEPT ![s] = NoByte]
      /\ UNCHANGED <<ofile, file, pc, todo, cpipe, writable, exiting, killed>>
  BY <1>2, <1>3, <1>4, <1>5, Zenon DEF pipewrite_byte
<1>7. PICK x \in PipeRec : x = [r EXCEPT !.nwrite = m, !.data = y] BY Zenon DEF PipeRec
<1>8. x.alloc = r.alloc /\ x.lock = r.lock /\ x.readopen = r.readopen /\ x.writeopen = r.writeopen
  BY <1>7, Zenon DEF PipeRec
<1>9. pc[p] \in Reading \cup Writing /\ pc[p] \in Critical BY <1>1, Zenon DEF Reading, Writing, Critical
<1>10. ByteMove(p, s, x, NoByte) BY <1>1, <1>3, <1>6, <1>7, <1>8, Zenon DEF ByteMove
<1>11. QED BY <1>2, <1>9, <1>10, ByteInv, Zenon

LEMMA ReadByteInv ==
    ASSUME PipeInv, HeldOpen, NEW p \in Proc, piperead_copy(p)
    PROVE  PipeInv'
<1>1. pc[p] = "copy" /\ left[p] > 0 BY Zenon DEF piperead_copy
<1>2. PICK s \in Pipe : s = cpipe[p] BY <1>1, InsidePipe, Zenon DEF Reading, Writing
<1>3. PICK r \in PipeRec : r = pipe[s] BY Zenon DEF PipeInv, PipeTypeOK
<1>4. PICK m \in 0 .. UINT - 1 : m = (r.nread + 1) % UINT BY ConstantsOK DEF PipeRec
<1>5. PICK b \in Byte \cup {NoByte} : b = r.data[r.nread % PIPESIZE]
  <2>1. r.nread % PIPESIZE \in 0 .. PIPESIZE - 1 BY ConstantsOK DEF PipeRec
  <2>2. QED BY <2>1, Zenon DEF PipeRec
<1>6. /\ pipe' = [pipe EXCEPT ![s] = [r EXCEPT !.nread = m]]
      /\ left' = [left EXCEPT ![p] = left[p] - 1] /\ out' = [out EXCEPT ![s] = b]
      /\ UNCHANGED <<ofile, file, pc, todo, cpipe, writable, exiting, killed>>
  BY <1>2, <1>3, <1>4, <1>5, Zenon DEF piperead_copy
<1>7. PICK x \in PipeRec : x = [r EXCEPT !.nread = m] BY Zenon DEF PipeRec
<1>8. x.alloc = r.alloc /\ x.lock = r.lock /\ x.readopen = r.readopen /\ x.writeopen = r.writeopen
  BY <1>7, Zenon DEF PipeRec
<1>9. pc[p] \in Reading \cup Writing /\ pc[p] \in Critical BY <1>1, Zenon DEF Reading, Writing, Critical
<1>10. ByteMove(p, s, x, b) BY <1>1, <1>3, <1>6, <1>7, <1>8, Zenon DEF ByteMove
<1>11. QED BY <1>2, <1>9, <1>10, ByteInv, Zenon

LEMMA WriteFullInv ==
    ASSUME PipeInv, HeldOpen, NEW p \in Proc, pipewrite_full(p)
    PROVE  PipeInv'
<1>1. pc[p] = "pipewrite" /\ UNCHANGED <<ofile, file, killed, out>> BY Zenon DEF pipewrite_full
<1>2. PICK s \in Pipe : s = cpipe[p] BY <1>1, InsidePipe, Zenon DEF Reading, Writing
<1>3. pc[p] \in Writing /\ pc[p] \in Critical BY <1>1, Zenon DEF Writing, Critical
<1>4. CASE Unlock(s) /\ Goto(p, "user") /\ EndCall(p) BY <1>1, <1>2, <1>3, <1>4, LeaveInv, Zenon
<1>5. CASE WakeReaders(s, p, "full") /\ UNCHANGED <<pipe, locals>>
  <2>1. "full" \in Labels /\ "full" \in Writing /\ "full" \in Critical BY Zenon DEF Labels, Writing, Critical
  <2>2. KeptPipe(s) /\ pipe'[s].lock = pipe[s].lock BY <1>5, SamePipe, Zenon DEF PipeInv
  <2>3. pipe[s].lock = p BY <1>2, <1>3, Zenon DEF PipeInv, LockInv
  <2>4. QED BY <1>1, <1>2, <1>3, <1>5, <2>1, <2>2, <2>3, MoveInv, Zenon
<1>6. QED BY <1>2, <1>4, <1>5, Zenon DEF pipewrite_full

LEMMA WriteEndInv ==
    ASSUME PipeInv, HeldOpen, NEW p \in Proc, pipewrite_end(p)
    PROVE  PipeInv'
<1>1. pc[p] = "pipewrite" BY Zenon DEF pipewrite_end
<1>2. PICK s \in Pipe : s = cpipe[p] BY <1>1, InsidePipe, Zenon DEF Reading, Writing
<1>3. pc[p] \in Writing /\ pc[p] \in Critical BY <1>1, Zenon DEF Writing, Critical
<1>4. QED BY <1>2, <1>3, LeaveInv, Zenon DEF pipewrite_end

LEMMA ReadTestInv ==
    ASSUME PipeInv, HeldOpen, NEW p \in Proc, piperead_test(p)
    PROVE  PipeInv'
<1>1. pc[p] = "piperead" /\ UNCHANGED <<ofile, file, killed, out>> BY Zenon DEF piperead_test
<1>2. PICK s \in Pipe : s = cpipe[p] BY <1>1, InsidePipe, Zenon DEF Reading, Writing
<1>3. pc[p] \in Reading /\ pc[p] \in Critical BY <1>1, Zenon DEF Reading, Critical
<1>4. CASE Unlock(s) /\ Goto(p, "user") /\ EndCall(p) BY <1>1, <1>2, <1>3, <1>4, LeaveInv, Zenon
<1>5. ASSUME NEW l \in {"empty", "copy"}, Goto(p, l), UNCHANGED <<pipe, locals>>
      PROVE  PipeInv'
  <2>1. l \in Labels /\ l \in Reading /\ l \in Critical BY Zenon DEF Labels, Reading, Critical
  <2>2. KeptPipe(s) /\ pipe'[s].lock = pipe[s].lock BY <1>5, SamePipe, Zenon DEF PipeInv
  <2>3. pipe[s].lock = p BY <1>2, <1>3, Zenon DEF PipeInv, LockInv
  <2>4. QED BY <1>1, <1>2, <1>3, <1>5, <2>1, <2>2, <2>3, MoveInv, Zenon
<1>6. QED BY <1>2, <1>4, <1>5, Zenon DEF piperead_test

LEMMA ReadEndInv ==
    ASSUME PipeInv, HeldOpen, NEW p \in Proc, piperead_end(p)
    PROVE  PipeInv'
<1>1. pc[p] = "copy" BY Zenon DEF piperead_end
<1>2. PICK s \in Pipe : s = cpipe[p] BY <1>1, InsidePipe, Zenon DEF Reading, Writing
<1>3. pc[p] \in Reading /\ pc[p] \in Critical BY <1>1, Zenon DEF Reading, Critical
<1>4. QED BY <1>2, <1>3, LeaveInv, Zenon DEF piperead_end

LEMMA ReadWriteInv ==
    ASSUME PipeInv, HeldOpen, NEW p \in Proc, NEW d \in Fd, NEW n \in 0 .. MAXN, sys_read_write(p, d, n)
    PROVE  PipeInv'
<1>1. pc[p] = "user" /\ ofile[p][d] # NoFile BY Zenon DEF sys_read_write, AtUser
<1>2. PICK f \in File : f = ofile[p][d] BY <1>1 DEF PipeInv, PipeTypeOK
<1>3. file[f].ref > 0 /\ file[f].type = "pipe" BY <1>1, <1>2, Zenon DEF PipeInv, RefInv, HeldOpen
<1>4. PICK s \in Pipe : s = file[f].pipe BY <1>3, EndFacts, Zenon
<1>5. PICK l \in {"wlock", "rlock"} : l = IF file[f].writable = 1 THEN "wlock" ELSE "rlock" BY Zenon
<1>6. /\ cpipe' = [cpipe EXCEPT ![p] = s] /\ left' = [left EXCEPT ![p] = n] /\ Goto(p, l)
      /\ UNCHANGED <<ofile, file, pipe, todo, writable, exiting, killed, out>>
  BY <1>2, <1>4, <1>5, Zenon DEF sys_read_write
<1>7. l \in Labels /\ (l \in Reading \cup Writing) /\ (l \in Writing <=> l = "wlock") /\ l \notin Critical
  BY Zenon DEF Labels, Reading, Writing, Critical
<1>8. pc' \in [Proc -> Labels] /\ pc'[p] = l /\ \A q \in Proc : q # p => pc'[q] = pc[q]
  BY <1>6, <1>7, GotoFacts, Zenon DEF PipeInv
<1>9. cpipe \in [Proc -> Pipe \cup {NoPipe}] /\ left \in [Proc -> Nat] BY Zenon DEF PipeInv, PipeTypeOK
<1>10. cpipe'[p] = s /\ \A q \in Proc : q # p => cpipe'[q] = cpipe[q] BY <1>6, <1>9, Zenon
<1>11. PipeTypeOK'
  <2>1. n \in Nat BY ConstantsOK
  <2>2. left' \in [Proc -> Nat] /\ cpipe' \in [Proc -> Pipe \cup {NoPipe}] BY <1>6, <1>9, <2>1, Zenon
  <2>3. QED BY <1>6, <1>8, <2>2, Zenon DEF PipeInv, PipeTypeOK
<1>12. file[f].writable \in {0, 1} BY Zenon DEF PipeInv, PipeTypeOK, FileRec
<1>13. file[f].writable = IF pc'[p] \in Writing THEN 1 ELSE 0 BY <1>5, <1>7, <1>8, <1>12, Zenon
<1>14. IoMove(p) BY <1>1, <1>2, <1>4, <1>7, <1>8, <1>10, <1>13, Zenon DEF IoMove
<1>15. \A q \in Proc : IoMove(q) BY <1>8, <1>10, <1>14, Zenon DEF IoMove
<1>16. SameFiles /\ SameEnds BY <1>6, Zenon DEF SameFiles, SameEnds
<1>17. RefInv' /\ CallInv' /\ EndInv' BY <1>15, <1>16, IoStep, Zenon
<1>18. LockInv'
  <2>1. pc[p] \notin Critical BY <1>1, Zenon DEF Critical
  <2>2. \A t \in Pipe : pipe[t].lock # p BY <2>1, ConstantsOK DEF PipeInv, LockInv
  <2>3. \A q \in Proc : pc'[q] \in Critical => q # p BY <1>7, <1>8, Zenon
  <2>4. \A t \in Pipe : pipe[t].lock \in Proc \cup {NoProc} BY Zenon DEF PipeInv, PipeTypeOK, PipeRec
  <2>5. QED BY <1>6, <1>8, <1>10, <2>2, <2>3, <2>4, Zenon DEF PipeInv, LockInv
<1>19. QED BY <1>11, <1>17, <1>18, Zenon DEF PipeInv

LEMMA KillInv ==
    ASSUME PipeInv, NEW p \in Proc, kill(p)
    PROVE  PipeInv'
<1>1. PICK l \in Labels : /\ l = IF pc[p] = "rsleep" THEN "rlock" ELSE IF pc[p] = "wsleep" THEN "wlock" ELSE pc[p]
                          /\ Goto(p, l)
  BY Zenon DEF kill, PipeInv, PipeTypeOK, Labels, Reading, Writing
<1>2. /\ UNCHANGED <<ofile, file, pipe, todo, cpipe, left, writable, exiting, out>>
      /\ killed' = [killed EXCEPT ![p] = 1]
  BY Zenon DEF kill, locals
<1>3. pc' \in [Proc -> Labels] /\ pc'[p] = l /\ \A q \in Proc : q # p => pc'[q] = pc[q]
  BY <1>1, GotoFacts, Zenon DEF PipeInv
<1>4. PipeTypeOK' BY <1>2, <1>3, Zenon DEF PipeInv, PipeTypeOK
<1>5. \A q \in Proc : IoMove(q) BY <1>1, <1>2, <1>3, Zenon DEF IoMove, Reading, Writing
<1>6. SameFiles /\ SameEnds BY <1>2, Zenon DEF SameFiles, SameEnds
<1>7. RefInv' /\ CallInv' /\ EndInv' BY <1>5, <1>6, IoStep, Zenon
<1>8. \A q \in Proc : pc'[q] \in Critical <=> pc[q] \in Critical BY <1>1, <1>3, Zenon DEF Critical
<1>9. \A t \in Pipe : pipe[t].lock \in Proc \cup {NoProc} BY Zenon DEF PipeInv, PipeTypeOK, PipeRec
<1>10. LockInv' BY <1>2, <1>8, <1>9, Zenon DEF PipeInv, LockInv
<1>11. QED BY <1>4, <1>7, <1>10, Zenon DEF PipeInv

-----------------------------------------------------------------------------
(* Sleep and wakeup *)

Hot == {"wsleep", "rsleep", "copy", "pipewrite", "full", "empty"}

\* A step of p on its pipe s, as the other pipes see it.
OnPipe(p, s) == /\ s = cpipe[p] /\ Woken(p, s) /\ (pc'[p] \in Hot => cpipe'[p] = s)
                /\ \A t \in Pipe : t # s => pipe'[t] = pipe[t]

\* A step on pipe s says nothing of the other pipes.
LEMMA PipeWake ==
    ASSUME WakeInv, NEW p \in Proc, NEW s \in Pipe, OnPipe(p, s), WakeAt(s)'
    PROVE  \A t \in Pipe : WakeAt(t)'
<1> SUFFICES ASSUME NEW t \in Pipe, t # s PROVE WakeAt(t)'
  BY Zenon
<1>1. \A l \in Hot : Asleep(t, l)' <=> Asleep(t, l)
  <2>1. \A q \in Proc, l \in Hot : (pc'[q] = l /\ cpipe'[q] = t) <=> (pc[q] = l /\ cpipe[q] = t)
    BY Zenon DEF OnPipe, Woken, Hot
  <2>2. QED BY <2>1, Zenon DEF Asleep
<1>2. (Full(t)' <=> Full(t)) /\ (Empty(t)' <=> Empty(t)) /\ pipe'[t] = pipe[t] BY Zenon DEF Full, Empty, OnPipe
<1>3. WakeAt(t) BY Zenon DEF WakeInv
<1>4. QED BY <1>1, <1>2, <1>3, Zenon DEF WakeAt, Hot

\* A step of a process that is in no read or write at a place that matters.
Outside(p) == /\ pc[p] \notin Hot /\ pc'[p] \notin Hot
              /\ \A q \in Proc : q # p => cpipe'[q] = cpipe[q] /\ pc'[q] = pc[q]

LEMMA OutsideWake ==
    ASSUME WakeInv, NEW p \in Proc, Outside(p), NEW t \in Pipe,
           pipe'[t] = pipe[t] \/ \A q \in Proc : pc[q] \in Hot => cpipe[q] # t
    PROVE  WakeAt(t)'
<1>1. \A q \in Proc, l \in Hot : (pc'[q] = l /\ cpipe'[q] = t) <=> (pc[q] = l /\ cpipe[q] = t)
  BY Zenon DEF Outside
<1>2. \A l \in Hot : Asleep(t, l)' <=> Asleep(t, l) BY <1>1, Zenon DEF Asleep
<1>3. CASE pipe'[t] = pipe[t]
  <2>1. (Full(t)' <=> Full(t)) /\ (Empty(t)' <=> Empty(t)) BY <1>3, Zenon DEF Full, Empty
  <2>2. WakeAt(t) BY Zenon DEF WakeInv
  <2>3. QED BY <1>2, <1>3, <2>1, <2>2, Zenon DEF WakeAt, Hot
<1>4. CASE \A q \in Proc : pc[q] \in Hot => cpipe[q] # t
  <2>1. \A l \in Hot : ~Asleep(t, l) BY <1>4, Zenon DEF Asleep
  <2>2. QED BY <1>2, <2>1, Zenon DEF WakeAt, Hot
<1>5. QED BY <1>3, <1>4, Zenon

\* Why the sleepers other than p wait, and why p itself does or will.
OthersWait(p, s) ==
    /\ Sleeper(s, p, "wsleep") /\ ~(pc[p] = "copy" /\ cpipe[p] = s) => Full(s) /\ pipe[s].readopen = 1
    /\ Sleeper(s, p, "rsleep") /\ ~(pc[p] = "pipewrite" /\ cpipe[p] = s) => Empty(s) /\ pipe[s].writeopen = 1
SelfWaits(p, s) ==
    /\ pc[p] \in {"wsleep", "full"} => Full(s) /\ pipe[s].readopen = 1
    /\ pc[p] \in {"rsleep", "empty"} => Empty(s) /\ pipe[s].writeopen = 1

\* A step of the process that has the lock of s, or takes it.
LEMMA AtPipe ==
    ASSUME NEW p \in Proc, NEW s \in Pipe, Woken(p, s), OthersOut(p, s), OthersWait(p, s)', SelfWaits(p, s)'
    PROVE  WakeAt(s)'
<1>1. \A q \in Proc, l \in {"copy", "pipewrite", "full", "empty"} : q # p => ~(pc'[q] = l /\ cpipe'[q] = s)
  BY Zenon DEF Woken, Critical, OthersOut
<1>2. \A l \in {"copy", "pipewrite", "full", "empty"} : Asleep(s, l)' <=> pc'[p] = l /\ cpipe'[p] = s
  BY <1>1, Zenon DEF Asleep
<1>3. \A l : Asleep(s, l)' => Sleeper(s, p, l)' \/ (pc'[p] = l /\ cpipe'[p] = s) BY Zenon DEF Asleep, Sleeper
<1>4. QED BY <1>2, <1>3, Zenon DEF WakeAt, OthersWait, SelfWaits

\* What the sleepers waited for before the step.
LEMMA Before ==
    ASSUME WakeInv, NEW p \in Proc, NEW s \in Pipe, OthersOut(p, s)
    PROVE  OthersWait(p, s)
<1>1. \A l \in {"copy", "pipewrite"} : Asleep(s, l) => pc[p] = l /\ cpipe[p] = s BY Zenon DEF Asleep, Critical, OthersOut
<1>2. \A l : Sleeper(s, p, l) => Asleep(s, l) BY Zenon DEF Asleep, Sleeper
<1>3. WakeAt(s) BY Zenon DEF WakeInv
<1>4. QED BY <1>1, <1>2, <1>3, Zenon DEF WakeAt, OthersWait

\* The sleepers after a step slept before it.
LEMMA StillAsleep ==
    ASSUME NEW p \in Proc, NEW s, Woken(p, s), NEW l \in {"rsleep", "wsleep"}, Sleeper(s, p, l)'
    PROVE  Sleeper(s, p, l)
BY Zenon DEF Sleeper, Woken

\* A step that leaves the pipes alone and goes from one place outside them to another.
LEMMA QuietWake ==
    ASSUME PipeInv, WakeInv, NEW p \in Proc, NEW l, l \notin Hot, pc[p] \notin Hot, Goto(p, l), Apart(p), UNCHANGED pipe
    PROVE  \A t \in Pipe : WakeAt(t)'
<1>1. pc \in [Proc -> Labels] BY Zenon DEF PipeInv, PipeTypeOK
<1>2. Outside(p) BY <1>1, Zenon DEF Goto, Apart, Outside
<1>3. QED BY <1>2, OutsideWake, Zenon

LEMMA FileWake ==
    ASSUME PipeInv, WakeInv, NEW p \in Proc,
           \/ sys_pipe(p) \/ exit(p) \/ pipealloc_file(p) \/ pipealloc_bad(p) \/ sys_pipe_fds(p) \/ fileclose(p)
           \/ \E d \in Fd : sys_close(p, d)
           \/ \E d \in Fd, n \in 0 .. MAXN : sys_read_write(p, d, n)
    PROVE  \A t \in Pipe : WakeAt(t)'
<1>1. UNCHANGED cpipe => Apart(p) BY Zenon DEF Apart
<1>2. cpipe \in [Proc -> Pipe \cup {NoPipe}] BY Zenon DEF PipeInv, PipeTypeOK
<1>3. \A s : cpipe' = [cpipe EXCEPT ![p] = s] => Apart(p) BY <1>2, Zenon DEF Apart
<1>4. CASE sys_pipe(p) BY <1>1, <1>4, QuietWake, Zenon DEF sys_pipe, AtUser, filealloc, Hot
<1>5. CASE exit(p)
  <2>1. PICK l \in {"unused", "fileclose"} : Goto(p, l) BY <1>5, Zenon DEF exit
  <2>2. pc[p] = "user" /\ UNCHANGED <<cpipe, pipe>> BY <1>5, Zenon DEF exit
  <2>3. QED BY <1>1, <2>1, <2>2, QuietWake, Zenon DEF Hot
<1>6. CASE pipealloc_file(p) BY <1>1, <1>6, QuietWake, Zenon DEF pipealloc_file, filealloc, Hot
<1>7. CASE pipealloc_bad(p) BY <1>1, <1>7, QuietWake, Zenon DEF pipealloc_bad, locals, Hot
<1>8. CASE sys_pipe_fds(p)
  <2>1. PICK l \in {"user", "fileclose"} : Goto(p, l) BY <1>8, Zenon DEF sys_pipe_fds
  <2>2. pc[p] = "fdalloc" /\ UNCHANGED <<cpipe, pipe>> BY <1>8, Zenon DEF sys_pipe_fds
  <2>3. QED BY <1>1, <2>1, <2>2, QuietWake, Zenon DEF Hot
<1>9. CASE fileclose(p)
  <2>1. \A t : AfterClose(p, t) \in {"fileclose", "unused", "user"} BY Zenon DEF AfterClose
  <2>2. PICK l \in {"fileclose", "unused", "user", "pipeclose"} : Goto(p, l) BY <1>9, <2>1, Zenon DEF fileclose
  <2>3. Apart(p) BY <1>1, <1>3, <1>9, Zenon DEF fileclose
  <2>4. pc[p] = "fileclose" /\ UNCHANGED pipe BY <1>9, Zenon DEF fileclose
  <2>5. QED BY <2>2, <2>3, <2>4, QuietWake, Zenon DEF Hot
<1>10. ASSUME NEW d \in Fd, sys_close(p, d) PROVE \A t \in Pipe : WakeAt(t)'
  BY <1>1, <1>10, QuietWake, Zenon DEF sys_close, AtUser, Hot
<1>11. ASSUME NEW d \in Fd, NEW n \in 0 .. MAXN, sys_read_write(p, d, n) PROVE \A t \in Pipe : WakeAt(t)'
  <2>1. PICK l \in {"wlock", "rlock"} : Goto(p, l) BY <1>11, Zenon DEF sys_read_write
  <2>2. pc[p] = "user" /\ UNCHANGED pipe /\ Apart(p) BY <1>3, <1>11, Zenon DEF sys_read_write, AtUser
  <2>3. QED BY <2>1, <2>2, QuietWake, Zenon DEF Hot
<1>12. QED BY <1>4, <1>5, <1>6, <1>7, <1>8, <1>9, <1>10, <1>11, Zenon

LEMMA DupWake ==
    ASSUME PipeInv, WakeInv, NEW p \in Proc, NEW d \in Fd, sys_dup(p, d)
    PROVE  \A t \in Pipe : WakeAt(t)'
<1>1. pc[p] = "user" /\ UNCHANGED <<pc, cpipe, pipe>> BY Zenon DEF sys_dup, AtUser, locals
<1>2. Outside(p) BY <1>1, Zenon DEF Outside, Hot
<1>3. QED BY <1>1, <1>2, OutsideWake, Zenon

LEMMA ForkWake ==
    ASSUME PipeInv, WakeInv, NEW p \in Proc, NEW q \in Proc, fork(p, q)
    PROVE  \A t \in Pipe : WakeAt(t)'
<1>1. pc[q] = "unused" /\ Goto(q, "user") /\ UNCHANGED <<cpipe, pipe>> BY Zenon DEF fork, locals
<1>2. Apart(q) BY <1>1, Zenon DEF Apart
<1>3. QED BY <1>1, <1>2, QuietWake, Zenon DEF Hot

\* A page that becomes a pipe or stops being one has nobody inside.
LEMMA PageWake ==
    ASSUME PipeInv, HeldOpen, WakeInv, NEW p \in Proc, kfree(p) \/ \E s \in Pipe : pipealloc(p, s)
    PROVE  \A t \in Pipe : WakeAt(t)'
<1>1. \A q \in Proc : pc[q] \in Hot => pc[q] \in Reading \cup Writing BY Zenon DEF Hot, Reading, Writing
<1>2. \A q \in Proc : pc[q] \in Hot => /\ pipe[cpipe[q]].alloc = 1
                                       /\ pipe[cpipe[q]].readopen = 1 \/ pipe[cpipe[q]].writeopen = 1
  BY <1>1, InsidePipe, Zenon
<1>3. pipe \in [Pipe -> PipeRec] /\ pc \in [Proc -> Labels] /\ cpipe \in [Proc -> Pipe \cup {NoPipe}]
  BY Zenon DEF PipeInv, PipeTypeOK
<1>4. CASE kfree(p)
  <2>1. pc[p] = "kfree" BY <1>4, Zenon DEF kfree
  <2>2. PICK s \in Pipe : s = cpipe[p] /\ Freeing(p, s) BY <2>1, CloseFacts, Zenon
  <2>3. pipe[s].readopen = 0 /\ pipe[s].writeopen = 0 BY <2>2, Zenon DEF PipeInv, EndInv
  <2>4. \A q \in Proc : pc[q] \in Hot => cpipe[q] # s BY <1>2, <2>3
  <2>5. \A t \in Pipe : t # s => pipe'[t] = pipe[t] BY <1>3, <1>4, <2>2, Zenon DEF kfree
  <2>6. PICK l \in {"fileclose", "unused", "user"} : Goto(p, l) BY <1>4, Zenon DEF kfree, AfterClose
  <2>7. pc'[p] = l /\ \A q \in Proc : q # p => cpipe'[q] = cpipe[q] /\ pc'[q] = pc[q]
    BY <1>3, <1>4, <2>6, Zenon DEF kfree, Goto
  <2>8. Outside(p) BY <2>1, <2>7, Zenon DEF Outside, Hot
  <2>9. QED BY <2>4, <2>5, <2>8, OutsideWake, Zenon
<1>5. ASSUME NEW s \in Pipe, pipealloc(p, s) PROVE \A t \in Pipe : WakeAt(t)'
  <2>1. pipe[s].alloc = 0 BY <1>5, Zenon DEF pipealloc
  <2>2. \A q \in Proc : pc[q] \in Hot => cpipe[q] # s BY <1>2, <2>1
  <2>3. \A t \in Pipe : t # s => pipe'[t] = pipe[t] BY <1>3, <1>5, Zenon DEF pipealloc
  <2>4. pc[p] = "kalloc" /\ Goto(p, "fdalloc") /\ UNCHANGED cpipe BY <1>5, Zenon DEF pipealloc, locals
  <2>5. Outside(p) BY <1>3, <2>4, Zenon DEF Outside, Hot, Goto
  <2>6. QED BY <2>2, <2>3, <2>5, OutsideWake, Zenon
<1>6. QED BY <1>4, <1>5, Zenon

\* A step of p on its pipe s that moves no byte and closes no end.  A reader that stops
\* copying leaves no writer asleep behind it, and a writer no reader.
Hands(p, s) == /\ pc[p] = "copy" => pc'[p] = "copy" \/ ~Sleeper(s, p, "wsleep")'
               /\ pc[p] = "pipewrite" => pc'[p] = "pipewrite" \/ ~Sleeper(s, p, "rsleep")'

LEMMA StepWake ==
    ASSUME PipeInv, WakeInv, NEW p \in Proc, NEW s \in Pipe, OnPipe(p, s), KeptPipe(s), SameBytes(s),
           pipe[s].lock = NoProc \/ pc[p] \in Critical, Hands(p, s),
           pc'[p] \in {"wsleep", "full"} => Full(s) /\ pipe[s].readopen = 1,
           pc'[p] \in {"rsleep", "empty"} => Empty(s) /\ pipe[s].writeopen = 1
    PROVE  \A t \in Pipe : WakeAt(t)'
<1>1. s = cpipe[p] /\ Woken(p, s) /\ (pc'[p] \in Hot => cpipe'[p] = s) BY Zenon DEF OnPipe
<1>2. OthersOut(p, s) BY <1>1, Alone, Zenon
<1>3. OthersWait(p, s) BY <1>2, Before, Zenon
<1>4. /\ (Full(s)' <=> Full(s)) /\ (Empty(s)' <=> Empty(s))
      /\ pipe'[s].readopen = pipe[s].readopen /\ pipe'[s].writeopen = pipe[s].writeopen
  BY Zenon DEF Full, Empty, KeptPipe, SameBytes
<1>5. \A l \in {"rsleep", "wsleep"} : Sleeper(s, p, l)' => Sleeper(s, p, l) BY <1>1, StillAsleep, Zenon
<1>6. pc'[p] \in {"copy", "pipewrite"} => cpipe'[p] = s BY <1>1, Zenon DEF Hot
<1>7. OthersWait(p, s)' BY <1>1, <1>3, <1>4, <1>5, <1>6, Zenon DEF OthersWait, Hands
<1>8. SelfWaits(p, s)' BY <1>4, Zenon DEF SelfWaits
<1>9. WakeAt(s)' BY <1>1, <1>2, <1>7, <1>8, AtPipe, Zenon
<1>10. QED BY <1>9, PipeWake, Zenon

\* p moves to l, with the lock of s or taking it.
LEMMA MoveWake ==
    ASSUME PipeInv, WakeInv, NEW p \in Proc, NEW s \in Pipe, s = cpipe[p], NEW l \in Labels,
           WakeReaders(s, p, l) \/ WakeWriters(s, p, l) \/ Goto(p, l), UNCHANGED cpipe \/ (EndCall(p) /\ l = "user")
    PROVE  /\ Woken(p, s) /\ pc'[p] = l /\ (KeptPipe(s) => OnPipe(p, s))
           /\ WakeReaders(s, p, l) => ~Sleeper(s, p, "rsleep")'
           /\ WakeWriters(s, p, l) => ~Sleeper(s, p, "wsleep")'
<1>1. Apart(p) BY EndCallFacts, Zenon DEF PipeInv, Apart
<1>2. /\ pc'[p] = l /\ Woken(p, s)
      /\ WakeReaders(s, p, l) => ~Sleeper(s, p, "rsleep")'
      /\ WakeWriters(s, p, l) => ~Sleeper(s, p, "wsleep")'
  BY <1>1, WokenFacts, Zenon DEF PipeInv
<1>3. l \in Hot => cpipe'[p] = s BY Zenon DEF Hot
<1>4. QED BY <1>2, <1>3, Zenon DEF OnPipe, KeptPipe

LEMMA AcquireWake ==
    ASSUME PipeInv, HeldOpen, WakeInv, NEW p \in Proc, acquire(p)
    PROVE  \A t \in Pipe : WakeAt(t)'
<1>1. pc[p] \in {"rlock", "wlock"} BY Zenon DEF acquire
<1>2. PICK s \in Pipe : s = cpipe[p] BY <1>1, InsidePipe, Zenon DEF Reading, Writing
<1>3. PICK l \in {"piperead", "pipewrite"} : Goto(p, l) BY Zenon DEF acquire
<1>4. Lock(s, p) /\ pipe[s].lock = NoProc /\ UNCHANGED cpipe BY <1>2, Zenon DEF acquire, locals
<1>5. l \in Labels BY Zenon DEF Labels, Reading, Writing
<1>6. KeptPipe(s) /\ SameBytes(s) BY <1>4, LockFacts, Zenon DEF PipeInv
<1>7. OnPipe(p, s) /\ pc'[p] = l BY <1>2, <1>3, <1>4, <1>5, <1>6, MoveWake, Zenon
<1>8. Hands(p, s) BY <1>1, Zenon DEF Hands
<1>9. QED BY <1>4, <1>6, <1>7, <1>8, StepWake, Zenon

LEMMA SleepWake ==
    ASSUME PipeInv, HeldOpen, WakeInv, NEW p \in Proc, sleep(p)
    PROVE  \A t \in Pipe : WakeAt(t)'
<1>1. pc[p] \in {"empty", "full"} BY Zenon DEF sleep
<1>2. PICK s \in Pipe : s = cpipe[p] BY <1>1, InsidePipe, Zenon DEF Reading, Writing
<1>3. PICK l \in {"rsleep", "wsleep"} : l = (IF pc[p] = "empty" THEN "rsleep" ELSE "wsleep") /\ Goto(p, l)
  BY Zenon DEF sleep
<1>4. Lock(s, NoProc) /\ UNCHANGED cpipe BY <1>2, Zenon DEF sleep, Unlock, locals
<1>5. l \in Labels /\ pc[p] \in Critical BY <1>1, Zenon DEF Labels, Reading, Writing, Critical
<1>6. KeptPipe(s) /\ SameBytes(s) BY <1>4, LockFacts, Zenon DEF PipeInv
<1>7. OnPipe(p, s) /\ pc'[p] = l BY <1>2, <1>3, <1>4, <1>5, <1>6, MoveWake, Zenon
<1>8. Hands(p, s) BY <1>1, Zenon DEF Hands
<1>9. WakeAt(s) /\ Asleep(s, pc[p]) BY <1>2, Zenon DEF WakeInv, Asleep
<1>10. /\ pc[p] = "full" => Full(s) /\ pipe[s].readopen = 1
       /\ pc[p] = "empty" => Empty(s) /\ pipe[s].writeopen = 1
  BY <1>9, Zenon DEF WakeAt
<1>11. QED BY <1>1, <1>3, <1>5, <1>6, <1>7, <1>8, <1>10, StepWake, Zenon

LEMMA WriteFullWake ==
    ASSUME PipeInv, HeldOpen, WakeInv, NEW p \in Proc, pipewrite_full(p)
    PROVE  \A t \in Pipe : WakeAt(t)'
<1>1. pc[p] = "pipewrite" BY Zenon DEF pipewrite_full
<1>2. PICK s \in Pipe : s = cpipe[p] BY <1>1, InsidePipe, Zenon DEF Reading, Writing
<1>3. Full(s) /\ killed[p] = 0 BY <1>2, Zenon DEF pipewrite_full, WakeInv
<1>4. pc[p] \in Critical /\ "user" \in Labels /\ "full" \in Labels BY <1>1, Zenon DEF Critical, Labels, Writing
<1>5. CASE pipe[s].readopen = 0
  <2>1. Lock(s, NoProc) /\ Goto(p, "user") /\ EndCall(p) BY <1>2, <1>5, Zenon DEF pipewrite_full, Unlock
  <2>2. KeptPipe(s) /\ SameBytes(s) BY <2>1, LockFacts, Zenon DEF PipeInv
  <2>3. Woken(p, s) /\ OnPipe(p, s) /\ pc'[p] = "user" BY <1>2, <1>4, <2>1, <2>2, MoveWake, Zenon
  <2>4. \A q \in Proc : pc[q] = "rsleep" => pipe[cpipe[q]].readopen = 1 BY InsidePipe, Zenon DEF Reading
  <2>5. ~Sleeper(s, p, "rsleep") BY <1>5, <2>4 DEF Sleeper
  <2>6. ~Sleeper(s, p, "rsleep")' BY <2>3, <2>5, StillAsleep, Zenon
  <2>7. Hands(p, s) BY <1>1, <2>6, Zenon DEF Hands
  <2>8. QED BY <1>4, <2>2, <2>3, <2>7, StepWake, Zenon
<1>6. CASE pipe[s].readopen # 0
  <2>1. WakeReaders(s, p, "full") /\ UNCHANGED <<pipe, cpipe>> BY <1>2, <1>3, <1>6 DEF pipewrite_full, locals
  <2>2. KeptPipe(s) /\ SameBytes(s) BY <2>1, SamePipe, Zenon DEF PipeInv
  <2>3. OnPipe(p, s) /\ pc'[p] = "full" /\ ~Sleeper(s, p, "rsleep")' BY <1>2, <1>4, <2>1, <2>2, MoveWake, Zenon
  <2>4. pipe[s].readopen = 1 BY <1>6, Zenon DEF PipeInv, PipeTypeOK, PipeRec
  <2>5. Hands(p, s) BY <1>1, <2>3, Zenon DEF Hands
  <2>6. QED BY <1>3, <1>4, <2>2, <2>3, <2>4, <2>5, StepWake, Zenon
<1>7. QED BY <1>5, <1>6, Zenon

LEMMA WriteEndWake ==
    ASSUME PipeInv, HeldOpen, WakeInv, NEW p \in Proc, pipewrite_end(p)
    PROVE  \A t \in Pipe : WakeAt(t)'
<1>1. pc[p] = "pipewrite" BY Zenon DEF pipewrite_end
<1>2. PICK s \in Pipe : s = cpipe[p] BY <1>1, InsidePipe, Zenon DEF Reading, Writing
<1>3. Lock(s, NoProc) /\ WakeReaders(s, p, "user") /\ EndCall(p) BY <1>2, Zenon DEF pipewrite_end, Unlock
<1>4. pc[p] \in Critical /\ "user" \in Labels BY <1>1, Zenon DEF Critical, Labels
<1>5. KeptPipe(s) /\ SameBytes(s) BY <1>3, LockFacts, Zenon DEF PipeInv
<1>6. OnPipe(p, s) /\ pc'[p] = "user" /\ ~Sleeper(s, p, "rsleep")' BY <1>2, <1>3, <1>4, <1>5, MoveWake, Zenon
<1>7. Hands(p, s) BY <1>1, <1>6, Zenon DEF Hands
<1>8. QED BY <1>4, <1>5, <1>6, <1>7, StepWake, Zenon

LEMMA ReadEndWake ==
    ASSUME PipeInv, HeldOpen, WakeInv, NEW p \in Proc, piperead_end(p)
    PROVE  \A t \in Pipe : WakeAt(t)'
<1>1. pc[p] = "copy" BY Zenon DEF piperead_end
<1>2. PICK s \in Pipe : s = cpipe[p] BY <1>1, InsidePipe, Zenon DEF Reading, Writing
<1>3. Lock(s, NoProc) /\ WakeWriters(s, p, "user") /\ EndCall(p) BY <1>2, Zenon DEF piperead_end, Unlock
<1>4. pc[p] \in Critical /\ "user" \in Labels BY <1>1, Zenon DEF Critical, Labels
<1>5. KeptPipe(s) /\ SameBytes(s) BY <1>3, LockFacts, Zenon DEF PipeInv
<1>6. OnPipe(p, s) /\ pc'[p] = "user" /\ ~Sleeper(s, p, "wsleep")' BY <1>2, <1>3, <1>4, <1>5, MoveWake, Zenon
<1>7. Hands(p, s) BY <1>1, <1>6, Zenon DEF Hands
<1>8. QED BY <1>4, <1>5, <1>6, <1>7, StepWake, Zenon

LEMMA ReadTestWake ==
    ASSUME PipeInv, HeldOpen, WakeInv, NEW p \in Proc, piperead_test(p)
    PROVE  \A t \in Pipe : WakeAt(t)'
<1>1. pc[p] = "piperead" /\ killed[p] = 0 BY Zenon DEF piperead_test, WakeInv
<1>2. PICK s \in Pipe : s = cpipe[p] BY <1>1, InsidePipe, Zenon DEF Reading, Writing
<1>3. PICK l \in {"empty", "copy"} : /\ l = (IF Empty(s) /\ pipe[s].writeopen = 1 THEN "empty" ELSE "copy")
                                     /\ Goto(p, l) /\ UNCHANGED <<pipe, cpipe>>
  BY <1>1, <1>2 DEF piperead_test, locals
<1>4. pc[p] \in Critical /\ l \in Labels BY <1>1, Zenon DEF Critical, Labels, Reading
<1>5. KeptPipe(s) /\ SameBytes(s) BY <1>3, SamePipe, Zenon DEF PipeInv
<1>6. OnPipe(p, s) /\ pc'[p] = l BY <1>2, <1>3, <1>4, <1>5, MoveWake, Zenon
<1>7. Hands(p, s) BY <1>1, Zenon DEF Hands
<1>8. QED BY <1>3, <1>4, <1>5, <1>6, <1>7, StepWake, Zenon

\* Nobody waits for room in a pipe that p finds not full.
LEMMA WriteByteWake ==
    ASSUME PipeInv, HeldOpen, WakeInv, NEW p \in Proc, NEW b \in Byte, pipewrite_byte(p, b)
    PROVE  \A t \in Pipe : WakeAt(t)'
<1>1. pc[p] = "pipewrite" /\ UNCHANGED <<pc, cpipe>> BY Zenon DEF pipewrite_byte
<1>2. PICK s \in Pipe : s = cpipe[p] BY <1>1, InsidePipe, Zenon DEF Reading, Writing
<1>3. pipe \in [Pipe -> PipeRec] BY Zenon DEF PipeInv, PipeTypeOK
<1>4. ~Full(s) /\ \A t \in Pipe : t # s => pipe'[t] = pipe[t] BY <1>2, <1>3, Zenon DEF pipewrite_byte
<1>5. OthersOut(p, s) BY <1>1, <1>2, Alone, Zenon DEF Critical
<1>6. Woken(p, s) BY <1>1, Zenon DEF Woken
<1>7. ~Sleeper(s, p, "wsleep") BY <1>1, <1>4, <1>5, Before, Zenon DEF OthersWait
<1>8. ~Sleeper(s, p, "wsleep")' BY <1>6, <1>7, StillAsleep, Zenon
<1>9. pc'[p] = "pipewrite" /\ cpipe'[p] = s BY <1>1, <1>2, Zenon
<1>10. OthersWait(p, s)' /\ SelfWaits(p, s)' BY <1>8, <1>9, Zenon DEF OthersWait, SelfWaits
<1>11. WakeAt(s)' BY <1>5, <1>6, <1>10, AtPipe, Zenon
<1>12. OnPipe(p, s) BY <1>2, <1>4, <1>6, <1>9, Zenon DEF OnPipe
<1>13. QED BY <1>11, <1>12, PipeWake, Zenon

\* Nobody waits for bytes in a pipe that p finds not empty.
LEMMA ReadByteWake ==
    ASSUME PipeInv, HeldOpen, WakeInv, NEW p \in Proc, piperead_copy(p)
    PROVE  \A t \in Pipe : WakeAt(t)'
<1>1. pc[p] = "copy" /\ UNCHANGED <<pc, cpipe>> BY Zenon DEF piperead_copy
<1>2. PICK s \in Pipe : s = cpipe[p] BY <1>1, InsidePipe, Zenon DEF Reading, Writing
<1>3. pipe \in [Pipe -> PipeRec] BY Zenon DEF PipeInv, PipeTypeOK
<1>4. ~Empty(s) /\ \A t \in Pipe : t # s => pipe'[t] = pipe[t] BY <1>2, <1>3, Zenon DEF piperead_copy
<1>5. OthersOut(p, s) BY <1>1, <1>2, Alone, Zenon DEF Critical
<1>6. Woken(p, s) BY <1>1, Zenon DEF Woken
<1>7. ~Sleeper(s, p, "rsleep") BY <1>1, <1>4, <1>5, Before, Zenon DEF OthersWait
<1>8. ~Sleeper(s, p, "rsleep")' BY <1>6, <1>7, StillAsleep, Zenon
<1>9. pc'[p] = "copy" /\ cpipe'[p] = s BY <1>1, <1>2, Zenon
<1>10. OthersWait(p, s)' /\ SelfWaits(p, s)' BY <1>8, <1>9, Zenon DEF OthersWait, SelfWaits
<1>11. WakeAt(s)' BY <1>5, <1>6, <1>10, AtPipe, Zenon
<1>12. OnPipe(p, s) BY <1>2, <1>4, <1>6, <1>9, Zenon DEF OnPipe
<1>13. QED BY <1>11, <1>12, PipeWake, Zenon

\* Closing the last writer wakes the readers, closing the last reader wakes the writers.
LEMMA PipeCloseWake ==
    ASSUME PipeInv, WakeInv, NEW p \in Proc, pipeclose(p)
    PROVE  \A t \in Pipe : WakeAt(t)'
<1>1. pc[p] = "pipeclose" /\ pipe[cpipe[p]].lock = NoProc BY Zenon DEF pipeclose
<1>2. PICK s \in Pipe : s = cpipe[p] BY <1>1, CloseFacts, Zenon
<1>3. writable[p] \in {0, 1} /\ cpipe \in [Proc -> Pipe \cup {NoPipe}] /\ pipe \in [Pipe -> PipeRec]
  BY Zenon DEF PipeInv, PipeTypeOK
<1>4. PICK w \in {0, 1} : w = writable[p] BY <1>3, Zenon
<1>5. AfterClose(p, todo[p]) \in {"fileclose", "unused", "user"} BY Zenon DEF AfterClose
<1>6. PICK l \in {"fileclose", "unused", "user", "kfree"} :
         IF w = 1 THEN WakeReaders(s, p, l) ELSE WakeWriters(s, p, l)
  BY <1>2, <1>4, <1>5, Zenon DEF pipeclose
<1>7. PICK ro, wo : /\ ro = (IF w = 1 THEN pipe[s].readopen ELSE 0) /\ wo = (IF w = 1 THEN 0 ELSE pipe[s].writeopen)
                    /\ pipe' = [pipe EXCEPT ![s] = [pipe[s] EXCEPT !.readopen = ro, !.writeopen = wo]]
  BY <1>2, <1>4, Zenon DEF pipeclose
<1>8. \A t \in Pipe : t # s => pipe'[t] = pipe[t] BY <1>3, <1>7, Zenon
<1>9. /\ SameBytes(s)
      /\ w = 1 => pipe'[s].readopen = pipe[s].readopen
      /\ w = 0 => pipe'[s].writeopen = pipe[s].writeopen
  <2>1. PICK r \in PipeRec : r = pipe[s] BY <1>3, Zenon
  <2>2. pipe'[s] = [r EXCEPT !.readopen = ro, !.writeopen = wo] BY <1>3, <1>7, <2>1, Zenon
  <2>3. /\ pipe'[s].nread = r.nread /\ pipe'[s].nwrite = r.nwrite
        /\ pipe'[s].readopen = ro /\ pipe'[s].writeopen = wo
    BY <2>2, Zenon DEF PipeRec
  <2>4. QED BY <1>7, <2>1, <2>3 DEF SameBytes
<1>10. Apart(p)
  <2>1. UNCHANGED cpipe \/ cpipe' = [cpipe EXCEPT ![p] = NoPipe] BY Zenon DEF pipeclose, locals
  <2>2. QED BY <1>3, <2>1, Zenon DEF Apart
<1>11. l \in Labels /\ l \notin Hot BY Zenon DEF Labels, Closing, Hot
<1>12. /\ Woken(p, s) /\ pc'[p] = l
       /\ WakeReaders(s, p, l) => ~Sleeper(s, p, "rsleep")'
       /\ WakeWriters(s, p, l) => ~Sleeper(s, p, "wsleep")'
  BY <1>6, <1>10, <1>11, WokenFacts, Zenon DEF PipeInv
<1>13. OthersOut(p, s) BY <1>1, <1>2, Alone, Zenon
<1>14. /\ Sleeper(s, p, "wsleep") => Full(s) /\ pipe[s].readopen = 1
       /\ Sleeper(s, p, "rsleep") => Empty(s) /\ pipe[s].writeopen = 1
  BY <1>1, <1>13, Before, Zenon DEF OthersWait
<1>15. \A k \in {"rsleep", "wsleep"} : Sleeper(s, p, k)' => Sleeper(s, p, k) BY <1>12, StillAsleep, Zenon
<1>16. (Full(s)' <=> Full(s)) /\ (Empty(s)' <=> Empty(s)) BY <1>9, Zenon DEF Full, Empty, SameBytes
<1>17. SelfWaits(p, s)' BY <1>11, <1>12, Zenon DEF Hot, SelfWaits
<1>18. OthersWait(p, s)'
  <2>1. CASE w = 1 BY <1>6, <1>9, <1>12, <1>14, <1>15, <1>16, <2>1, Zenon DEF OthersWait
  <2>2. CASE w = 0 BY <1>6, <1>9, <1>12, <1>14, <1>15, <1>16, <2>2, Zenon DEF OthersWait
  <2>3. QED BY <2>1, <2>2, Zenon
<1>19. WakeAt(s)' BY <1>12, <1>13, <1>17, <1>18, AtPipe, Zenon
<1>20. OnPipe(p, s) BY <1>2, <1>8, <1>11, <1>12, Zenon DEF OnPipe
<1>21. QED BY <1>19, <1>20, PipeWake, Zenon

LEMMA NextWake ==
    ASSUME Killable = {}
    PROVE  PipeInv /\ HeldOpen /\ WakeInv /\ [Next]_vars => WakeInv'
<1> SUFFICES ASSUME PipeInv, HeldOpen, WakeInv, [Next]_vars PROVE WakeInv'
  BY Zenon
<1>1. \A p \in Proc : killed'[p] = 0
  <2>1. ASSUME NEW p \in Proc, InKernel(p) PROVE UNCHANGED killed
    BY <2>1, Zenon DEF InKernel, fileclose, pipealloc_file, filealloc, pipealloc_bad, sys_pipe_fds, pipeclose, kfree,
       acquire, sleep, pipewrite_full, pipewrite_end, piperead_test, piperead_copy, piperead_end,
       pipewrite_byte, pipealloc
  <2>2. ASSUME NEW p \in Proc, NEW q \in Proc, fork(p, q) PROVE killed' = [killed EXCEPT ![q] = 0]
    BY <2>2, Zenon DEF fork
  <2>3. \A p \in Proc : ~kill(p) BY Zenon DEF kill
  <2>4. UNCHANGED killed \/ \E q \in Proc : killed' = [killed EXCEPT ![q] = 0]
    BY <2>1, <2>2, <2>3, Zenon DEF Next, vars, sys_pipe, filealloc, exit, sys_dup, sys_close, sys_read_write
  <2>5. killed \in [Proc -> {0, 1}] BY Zenon DEF PipeInv, PipeTypeOK
  <2>6. QED BY <2>4, <2>5, Zenon DEF WakeInv
<1>2. CASE UNCHANGED vars
  <2>1. UNCHANGED <<pc, cpipe, pipe>> BY <1>2, Zenon DEF vars, locals
  <2>2. \A s \in Pipe : WakeAt(s)' BY <2>1, Zenon DEF WakeInv, WakeAt, Asleep, Full, Empty
  <2>3. QED BY <1>1, <2>2, Zenon DEF WakeInv
<1>3. ASSUME NEW p \in Proc, InKernel(p) PROVE \A t \in Pipe : WakeAt(t)'
  BY <1>3, FileWake, PageWake, PipeCloseWake, AcquireWake, SleepWake, WriteFullWake, WriteEndWake,
     ReadTestWake, ReadByteWake, ReadEndWake, WriteByteWake, Zenon DEF InKernel
<1>4. CASE Next
  <2>1. \A p \in Proc : ~kill(p) BY Zenon DEF kill
  <2>2. \A t \in Pipe : WakeAt(t)' BY <1>3, <1>4, <2>1, FileWake, DupWake, ForkWake, Zenon DEF Next
  <2>3. QED BY <1>1, <2>2, Zenon DEF WakeInv
<1>5. QED BY <1>2, <1>4, Zenon
=============================================================================
