------------------------------- MODULE FileSys -------------------------------
(***************************************************************************)
(* The inode layer (kernel/fs.c) and the system calls on top of it          *)
(* (kernel/sysfile.c, kernel/file.c, kernel/exec.c): inode cache, sleep     *)
(* locks of inodes, reference and link counts, directories, path walk, and  *)
(* the locks, references and transactions of every call.                    *)
(*                                                                          *)
(* One step of a process runs from the moment it gets an inode's sleep lock *)
(* (or starts a call) to the next place where it can wait or where another  *)
(* process can see what it did: an ilock(), an iput(), the end of a call.   *)
(* What happens in between is guarded by the locks it holds, or is one      *)
(* critical section of icache.lock.  File contents are left to BlockMap.    *)
(***************************************************************************)
EXTENDS Integers, Sequences, FiniteSets, FiniteSetsExt

CONSTANTS Proc,      \* processes, each with its cwd and one descriptor
          Uid, Euid, \* [Proc -> user id]; setuid() sets both
          NINODE,    \* entries of the inode cache
          ninodes,   \* inodes on disk: 1 .. ninodes - 1
          Name,      \* names in directories, other than "." and ".."
          Modes,     \* arguments of chmod()
          Programs,  \* what mkfs put on the disk, the processes' first directory, and
                     \* (bounds) the paths they use and the calls each of them makes
          MAXLOST    \* bound: references that chmod(), chown(), open() may lose

ROOTINO == 1
Inum == 1 .. ninodes - 1
Slot == 1 .. NINODE
NoProc == 0
NoSlot == 0
Entry == Name \cup {".", ".."}

VARIABLES dinode,  \* inodes on disk, as the log shows them
          dirs,    \* contents of directories: name -> inode number, 0 if absent
          icache,  \* struct inode: inum, ref, valid and the copy of the dinode
          lock,    \* holder of each inode's sleep lock
          inop,    \* processes between begin_op() and end_op()
          cwd, ofile,
          pr,      \* program counter and local variables of each process
          lost,    \* references that nobody will release
          panic,
          prog     \* one of Programs: [image, cwd, paths, calls]

vars == <<dinode, dirs, icache, lock, inop, cwd, ofile, pr, lost, panic, prog>>

Free == [type |-> "free", nlink |-> 0, mode |-> 0, uid |-> 0]
\* What an unused entry still holds is never read: iget() clears valid.
NoInode == [inum |-> 0, ref |-> 0, valid |-> FALSE, d |-> Free]
NoDir == [e \in Entry |-> 0]
NoOpen == [ip |-> NoSlot, readable |-> FALSE, writable |-> FALSE]

\* call, path, new, arg: the call and its arguments; rest: what namex() has still
\* to walk; name: nameiparent()'s result; ip, dp, old: inodes the call refers to;
\* want, then: the inode to lock or put, and where to go on; ret: namex()'s caller.
Idle == [pc |-> "idle", call |-> "none", path |-> <<>>, new |-> <<>>, arg |-> 0,
         rest |-> <<>>, parent |-> FALSE, name |-> ".", ip |-> NoSlot, dp |-> NoSlot,
         old |-> NoSlot, want |-> NoSlot, then |-> "idle", ret |-> "idle"]

\* mkfs: the root directory and, in image, the directories of makedirs() and the files of
\* main().  Its ialloc() gives each inode one link; makedirs() adds none for the "..".
mkfs_dinode(image, i) ==
    IF i > Len(image) + 1 THEN Free
    ELSE [type |-> IF i = ROOTINO THEN "dir" ELSE image[i - 1].type, nlink |-> 1, mode |-> 511, uid |-> 0]

mkfs_dir(image, i) ==
    [e \in Entry |->
        IF mkfs_dinode(image, i).type # "dir" THEN 0
        ELSE IF e = "." THEN i
        ELSE IF e = ".." THEN (IF i = ROOTINO THEN i ELSE image[i - 1].in)
        ELSE IF \E k \in DOMAIN image : image[k].in = i /\ image[k].name = e
        THEN 1 + CHOOSE k \in DOMAIN image : image[k].in = i /\ image[k].name = e
        ELSE 0]

Init == /\ prog \in Programs
        /\ dinode = [i \in Inum |-> mkfs_dinode(prog.image, i)]
        /\ dirs = [i \in Inum |-> mkfs_dir(prog.image, i)]
        /\ icache = [[s \in Slot |-> NoInode] EXCEPT ![1].inum = prog.cwd, ![1].ref = Cardinality(Proc)]
        /\ lock = [s \in Slot |-> NoProc]
        /\ inop = {}
        /\ cwd = [p \in Proc |-> 1]
        /\ ofile = [p \in Proc |-> NoOpen]
        /\ pr = [p \in Proc |-> Idle]
        /\ lost = [s \in Slot |-> 0]
        /\ panic = "none"

-----------------------------------------------------------------------------
(* Continuations of a step whose new local variables are r: where the process waits *)
(* next, after what it does with its local variables only. *)

Lock(r, s, l) == [r EXCEPT !.pc = "ilock", !.want = s, !.then = l]
Put(r, s, l) == [r EXCEPT !.pc = "iput", !.want = s, !.then = l]
Walk(r, path, parent, l) == [r EXCEPT !.pc = "namex", !.rest = path, !.parent = parent, !.ret = l]
skipelem(r) == [r EXCEPT !.name = Head(r.rest), !.rest = Tail(r.rest)]
InParent(r) == [r EXCEPT !.dp = r.ip, !.ip = NoSlot]

\* namei() or nameiparent() has returned r.ip, or the parent has been released.
Return(r, l) ==
    CASE l = "found" /\ r.ip # NoSlot -> Lock(r, r.ip, r.call)
      [] l = "create" /\ r.ip # NoSlot -> Lock(InParent(r), r.ip, "create_entry")
      [] l = "unlink_parent" /\ r.ip # NoSlot -> Lock(InParent(r), r.ip, "unlink_entry")
      [] l = "link_parent" /\ r.ip # NoSlot -> Lock(InParent(r), r.ip, "link_entry")
      [] l \in {"found", "create", "unlink_parent"} /\ r.ip = NoSlot -> [r EXCEPT !.pc = "end_op"]
      [] l = "link_parent" /\ r.ip = NoSlot -> Lock(r, r.old, "link_bad")
      [] l = "create_exists" -> Lock(r, r.ip, "create_type")
      [] l = "link_undo" -> Lock(r, r.old, "link_bad")
      [] l = "link_done" -> Put([r EXCEPT !.old = NoSlot], r.old, "end_op")
      [] OTHER -> [r EXCEPT !.pc = l]

\* The head of namex()'s loop: lock the next directory, or return.
Goto(r, l) ==
    IF l # "namex_loop" THEN Return(r, l)
    ELSE IF r.rest # <<>> THEN Lock(r, r.ip, "namex_elem")
    ELSE IF r.parent THEN Put([r EXCEPT !.ip = NoSlot], r.ip, r.ret)
    ELSE Return(r, r.ret)

To(p, r, l) == pr' = [pr EXCEPT ![p] = Goto(r, l)]
ThenLock(p, r, s, l) == pr' = [pr EXCEPT ![p] = Lock(r, s, l)]
ThenPut(p, r, s, l) == pr' = [pr EXCEPT ![p] = Put(r, s, l)]
ThenName(p, r, path, parent, l) == pr' = [pr EXCEPT ![p] = Walk(r, path, parent, l)]

\* p is at l, in a kernel that has not panicked; prog never changes.
At(p, l) == panic = "none" /\ pr[p].pc = l /\ UNCHANGED prog

Panic(why) == /\ panic' = why
              /\ UNCHANGED <<dinode, dirs, icache, lock, inop, cwd, ofile, pr, lost>>

iunlock(s) == lock' = [lock EXCEPT ![s] = NoProc]
iunlockput(p, r, s, l) == iunlock(s) /\ ThenPut(p, r, s, l)

\* iget(): the entry of inode i, or an empty one.
Cached(i) == {s \in Slot : icache[s].ref > 0 /\ icache[s].inum = i}
Empty == {s \in Slot : icache[s].ref = 0}
HasSlot(i) == Cached(i) \cup Empty # {}
SlotOf(i) == IF Cached(i) # {} THEN Min(Cached(i)) ELSE Min(Empty)
iget(i) == LET s == SlotOf(i)
           IN  IF Cached(i) # {} THEN [icache EXCEPT ![s].ref = @ + 1]
               ELSE [icache EXCEPT ![s].inum = i, ![s].ref = 1, ![s].valid = FALSE]
idup(s) == [icache EXCEPT ![s].ref = @ + 1]

\* Set the locked inode in entry s to d and iupdate(): the cache is write-through.
Update(s, d) == /\ icache' = [icache EXCEPT ![s].d = d]
                /\ dinode' = [dinode EXCEPT ![icache[s].inum] = d]

\* dirlookup() in the directory of entry s; dirlink(), once the name is known to be absent.
Lookup(s, name) == dirs[icache[s].inum][name]
dirlink(d, i, name, j) == [d EXCEPT ![i][name] = j]
IsDir(s) == icache[s].d.type = "dir"

-----------------------------------------------------------------------------
(* ilock(), iput() and the end of a call *)

ilock(p) ==
    LET s == pr[p].want
        i == icache[s].inum
        loaded == [icache EXCEPT ![s].d = dinode[i], ![s].valid = TRUE]
    IN  /\ At(p, "ilock")
        /\ IF icache[s].ref < 1 THEN Panic("ilock")
           ELSE /\ lock[s] = NoProc
                /\ IF ~icache[s].valid /\ dinode[i].type = "free" THEN Panic("ilock: no type")
                   ELSE /\ lock' = [lock EXCEPT ![s] = p]
                        /\ icache' = IF icache[s].valid THEN icache ELSE loaded
                        /\ To(p, pr[p], pr[p].then)
                        /\ UNCHANGED <<dinode, dirs, inop, cwd, ofile, lost, panic>>

\* Mutant: a freed inode stays valid in the cache.
iput_KeepValid(p) ==
    LET s == pr[p].want
        i == icache[s].inum
    IN  /\ At(p, "iput")
        /\ lock[s] = NoProc
        /\ IF icache[s].valid /\ icache[s].d.nlink = 0 /\ icache[s].ref = 1
           THEN /\ dinode' = [dinode EXCEPT ![i] = Free]
                /\ dirs' = [dirs EXCEPT ![i] = NoDir]
                /\ icache' = [icache EXCEPT ![s].d.type = "free"]
           ELSE UNCHANGED <<dinode, dirs, icache>>
        /\ To(p, pr[p], "iput_ref")
        /\ UNCHANGED <<lock, inop, cwd, ofile, lost, panic>>

\* The part of iput() that holds the sleep lock: free an inode that has no links and
\* no other reference.
iput(p) ==
    LET s == pr[p].want
        i == icache[s].inum
    IN  /\ At(p, "iput")
        /\ lock[s] = NoProc
        /\ IF icache[s].valid /\ icache[s].d.nlink = 0 /\ icache[s].ref = 1
           THEN /\ dinode' = [dinode EXCEPT ![i] = Free]
                /\ dirs' = [dirs EXCEPT ![i] = NoDir]
                /\ icache' = [icache EXCEPT ![s].valid = FALSE, ![s].d = Free]
           ELSE UNCHANGED <<dinode, dirs, icache>>
        /\ To(p, pr[p], "iput_ref")
        /\ UNCHANGED <<lock, inop, cwd, ofile, lost, panic>>

iput_ref(p) ==
    /\ At(p, "iput_ref")
    /\ icache' = [icache EXCEPT ![pr[p].want] =
                    IF @.ref = 1 THEN NoInode ELSE [@ EXCEPT !.ref = @ - 1]]
    /\ To(p, pr[p], pr[p].then)
    /\ UNCHANGED <<dinode, dirs, lock, inop, cwd, ofile, lost, panic>>

end_op(p) ==
    /\ At(p, "end_op")
    /\ inop' = inop \ {p}
    /\ pr' = [pr EXCEPT ![p] = Idle]
    /\ UNCHANGED <<dinode, dirs, icache, lock, cwd, ofile, lost, panic>>

-----------------------------------------------------------------------------
(* namex() *)

namex(p) ==
    LET absolute == pr[p].rest # <<>> /\ Head(pr[p].rest) = "/"
        r == [pr[p] EXCEPT !.ip = IF absolute THEN SlotOf(ROOTINO) ELSE cwd[p],
                           !.rest = IF absolute THEN Tail(@) ELSE @]
    IN  /\ At(p, "namex")
        /\ IF absolute /\ ~HasSlot(ROOTINO) THEN Panic("iget: no inodes")
           ELSE /\ icache' = IF absolute THEN iget(ROOTINO) ELSE idup(cwd[p])
                /\ To(p, r, "namex_loop")
                /\ UNCHANGED <<dinode, dirs, lock, inop, cwd, ofile, lost, panic>>

namex_elem(p) ==
    LET r == pr[p]
        none == [r EXCEPT !.ip = NoSlot]
        next == Lookup(r.ip, Head(r.rest))
    IN  /\ At(p, "namex_elem")
        /\ \/ /\ ~IsDir(r.ip)
              /\ iunlockput(p, none, r.ip, r.ret)
              /\ UNCHANGED <<icache, panic>>
           \/ /\ IsDir(r.ip) /\ r.parent /\ Len(r.rest) = 1
              /\ iunlock(r.ip)
              /\ To(p, skipelem(r), r.ret)
              /\ UNCHANGED <<icache, panic>>
           \/ /\ IsDir(r.ip) /\ ~(r.parent /\ Len(r.rest) = 1)
              /\ IF next = 0 THEN iunlockput(p, none, r.ip, r.ret) /\ UNCHANGED <<icache, panic>>
                 ELSE IF ~HasSlot(next)
                 THEN panic' = "iget: no inodes" /\ UNCHANGED <<icache, lock, pr>>
                 ELSE /\ icache' = iget(next)
                      /\ iunlockput(p, [skipelem(r) EXCEPT !.ip = SlotOf(next)], r.ip, "namex_loop")
                      /\ UNCHANGED panic
        /\ UNCHANGED <<dinode, dirs, inop, cwd, ofile, lost>>

-----------------------------------------------------------------------------
(* create(), called by open(), mkdir() and mknod() with the type in r.new *)

TypeMade(call) == CASE call = "open" -> "file" [] call = "mkdir" -> "dir" [] call = "mknod" -> "dev"
ModeMade(call) == IF call = "mkdir" THEN 448 ELSE 420   \* 0700, 0644
Created(call) == IF call = "open" THEN "open_namei" ELSE "made"

\* dirlookup(); if there is no such entry, ialloc() takes the first free inode.
FreeInums == {i \in Inum : dinode[i].type = "free"}

create_entry(p) ==
    LET r == pr[p]
        found == Lookup(r.dp, r.name)
        i == IF found # 0 THEN found ELSE Min(FreeInums)
        s == SlotOf(i)
        d == [type |-> TypeMade(r.call), nlink |-> 0, mode |-> ModeMade(r.call), uid |-> Uid[p]]
    IN  /\ At(p, "create_entry")
        /\ IF ~IsDir(r.dp) THEN Panic("dirlookup not DIR")
           ELSE IF found = 0 /\ FreeInums = {} THEN Panic("ialloc: no inodes")
           ELSE IF ~HasSlot(i) THEN Panic("iget: no inodes")
           ELSE /\ icache' = iget(i)
                /\ \/ /\ found # 0
                      /\ iunlockput(p, [r EXCEPT !.ip = s, !.dp = NoSlot], r.dp, "create_exists")
                      /\ UNCHANGED dinode
                   \/ /\ found = 0
                      /\ dinode' = [dinode EXCEPT ![i] = d]
                      /\ ThenLock(p, [r EXCEPT !.ip = s], s, "create_new")
                      /\ UNCHANGED lock
                /\ UNCHANGED <<dirs, inop, cwd, ofile, lost, panic>>

create_type(p) ==
    LET r == pr[p]
        type == icache[r.ip].d.type
    IN  /\ At(p, "create_type")
        /\ IF (r.call = "open" /\ type = "file") \/ type = "dev"
           THEN To(p, r, Created(r.call)) /\ UNCHANGED lock
           ELSE iunlockput(p, [r EXCEPT !.ip = NoSlot], r.ip, "end_op")
        /\ UNCHANGED <<dinode, dirs, icache, inop, cwd, ofile, lost, panic>>

create_new(p) ==
    LET r == pr[p]
        i == icache[r.ip].inum
        di == icache[r.dp].inum
        dir == IsDir(r.ip)
        ip == [icache[r.ip].d EXCEPT !.nlink = 1]
        dp == [icache[r.dp].d EXCEPT !.nlink = IF dir THEN @ + 1 ELSE @]
        dots == IF dir THEN [NoDir EXCEPT !["."] = i, ![".."] = di] ELSE NoDir
    IN  /\ At(p, "create_new")
        /\ icache' = [icache EXCEPT ![r.ip].d = ip, ![r.dp].d = dp]
        /\ dinode' = [dinode EXCEPT ![i] = ip, ![di] = dp]
        /\ dirs' = dirlink([dirs EXCEPT ![i] = dots], di, r.name, i)
        /\ iunlockput(p, [r EXCEPT !.dp = NoSlot], r.dp, Created(r.call))
        /\ UNCHANGED <<inop, cwd, ofile, lost, panic>>

\* sys_mkdir() and sys_mknod() release what create() returned.
made(p) ==
    /\ At(p, "made")
    /\ iunlockput(p, [pr[p] EXCEPT !.ip = NoSlot], pr[p].ip, "end_op")
    /\ UNCHANGED <<dinode, dirs, icache, inop, cwd, ofile, lost, panic>>

-----------------------------------------------------------------------------
(* sys_open() and sys_chdir() *)

O_RDONLY == 0
O_WRONLY == 1
O_RDWR == 2
O_CREATE == 512

\* int_to_bin_digit(mode, 10, bits): bits[0] is the most significant digit.
bits(mode, i) == (mode \div 2 ^ (9 - i)) % 2
USER_R_BIT == 1
USER_W_BIT == 2
USER_X_BIT == 3
GROUP_W_BIT == 5
OTHER_R_BIT == 7
OTHER_W_BIT == 8
OTHER_X_BIT == 9


\* The permission test of sys_open().  groupmember is always 0; others who open a file
\* for reading and writing are tested with the group's w bit; a mode other than these
\* three passes.
OpenDenied(d, uid, omode) ==
    LET b(i) == bits(d.mode, i)
        owner == d.uid = uid
    IN  /\ uid # 0
        /\ \/ omode = O_RDONLY /\ b(IF owner THEN USER_R_BIT ELSE OTHER_R_BIT) = 0
           \/ omode = O_WRONLY /\ b(IF owner THEN USER_W_BIT ELSE OTHER_W_BIT) = 0
           \/ omode = O_RDWR /\ IF owner THEN b(USER_R_BIT) = 0 \/ b(USER_W_BIT) = 0
                                ELSE b(OTHER_R_BIT) = 0 \/ b(GROUP_W_BIT) = 0

ChdirDenied(d, uid) ==
    uid # 0 /\ bits(d.mode, IF d.uid = uid THEN USER_X_BIT ELSE OTHER_X_BIT) = 0

\* After create(), namei() overwrites ip: create()'s reference and lock are lost.
open_namei(p) ==
    /\ At(p, "open_namei")
    /\ lost' = [lost EXCEPT ![pr[p].ip] = @ + 1]
    /\ ThenName(p, [pr[p] EXCEPT !.ip = NoSlot], pr[p].path, FALSE, "found")
    /\ UNCHANGED <<dinode, dirs, icache, lock, inop, cwd, ofile, panic>>

\* Mutant: a failing open() unlocks the inode and keeps its reference.
sys_open_NoPut(p) ==
    LET r == pr[p]
        d == icache[r.ip].d
        failed == \/ d.type = "dir" /\ r.arg # O_RDONLY
                  \/ OpenDenied(d, Euid[p], r.arg)
                  \/ ofile[p].ip # NoSlot              \* fdalloc() fails
    IN  /\ At(p, "open")
        /\ IF failed
           THEN iunlock(r.ip) /\ To(p, [r EXCEPT !.ip = NoSlot], "end_op") /\ UNCHANGED ofile
           ELSE /\ iunlock(r.ip)
                /\ ofile' = [ofile EXCEPT ![p] = [ip |-> r.ip, readable |-> r.arg % 2 = 0,
                                                  writable |-> r.arg % 4 # 0]]
                /\ To(p, [r EXCEPT !.ip = NoSlot], "end_op")
        /\ UNCHANGED <<dinode, dirs, icache, inop, cwd, lost, panic>>

sys_open(p) ==
    LET r == pr[p]
        d == icache[r.ip].d
        failed == \/ d.type = "dir" /\ r.arg # O_RDONLY
                  \/ OpenDenied(d, Euid[p], r.arg)
                  \/ ofile[p].ip # NoSlot              \* fdalloc() fails
    IN  /\ At(p, "open")
        /\ IF failed
           THEN iunlockput(p, [r EXCEPT !.ip = NoSlot], r.ip, "end_op") /\ UNCHANGED ofile
           ELSE /\ iunlock(r.ip)
                /\ ofile' = [ofile EXCEPT ![p] = [ip |-> r.ip, readable |-> r.arg % 2 = 0,
                                                  writable |-> r.arg % 4 # 0]]
                /\ To(p, [r EXCEPT !.ip = NoSlot], "end_op")
        /\ UNCHANGED <<dinode, dirs, icache, inop, cwd, lost, panic>>

\* curproc->cwd keeps its old value until end_op() has returned; nobody else reads it.
sys_chdir(p) ==
    LET r == pr[p]
        d == icache[r.ip].d
    IN  /\ At(p, "chdir")
        /\ IF d.type # "dir" \/ ChdirDenied(d, Euid[p])
           THEN iunlockput(p, [r EXCEPT !.ip = NoSlot], r.ip, "end_op") /\ UNCHANGED cwd
           ELSE /\ iunlock(r.ip)
                /\ ThenPut(p, [r EXCEPT !.ip = NoSlot], cwd[p], "end_op")
                /\ cwd' = [cwd EXCEPT ![p] = r.ip]
        /\ UNCHANGED <<dinode, dirs, icache, inop, ofile, lost, panic>>

-----------------------------------------------------------------------------
(* sys_chmod() and sys_chown(): neither releases the reference of namei() *)

Lose(p, s) == /\ lost' = [lost EXCEPT ![s] = @ + 1]
              /\ To(p, [pr[p] EXCEPT !.ip = NoSlot], "end_op")

\* ip->uid is read before ilock(): of an entry that is not valid, it is what an inode
\* that used the entry before has left there.
chmod_owner(p, left) ==
    LET r == pr[p]
        owner == IF icache[r.ip].valid THEN icache[r.ip].d.uid ELSE left
    IN  /\ At(p, "chmod_owner")
        /\ IF r.ip = NoSlot THEN To(p, r, "end_op") /\ UNCHANGED lost
           ELSE IF owner # Uid[p] /\ Uid[p] # 0 THEN Lose(p, r.ip)
           ELSE ThenLock(p, r, r.ip, "chmod") /\ UNCHANGED lost
        /\ UNCHANGED <<dinode, dirs, icache, lock, inop, cwd, ofile, panic>>

sys_chmod(p) ==
    LET s == pr[p].ip
    IN  /\ At(p, "chmod")
        /\ Update(s, [icache[s].d EXCEPT !.mode = pr[p].arg])
        /\ iunlock(s)
        /\ Lose(p, s)
        /\ UNCHANGED <<dirs, inop, cwd, ofile, panic>>

sys_chown(p) ==
    LET s == pr[p].ip
    IN  /\ At(p, "chown")
        /\ Update(s, [icache[s].d EXCEPT !.uid = IF pr[p].arg = -1 THEN @ ELSE pr[p].arg])
        /\ iunlock(s)
        /\ Lose(p, s)
        /\ UNCHANGED <<dirs, inop, cwd, ofile, panic>>

-----------------------------------------------------------------------------
(* sys_link() and sys_unlink() *)

\* Mutant: the link count is not raised before the entry is made.
sys_link_NoLink(p) ==
    LET r == pr[p]
        d == icache[r.ip].d
    IN  /\ At(p, "link")
        /\ IF d.type = "dir"
           THEN iunlockput(p, [r EXCEPT !.ip = NoSlot], r.ip, "end_op") /\ UNCHANGED <<icache, dinode>>
           ELSE /\ Update(r.ip, [d EXCEPT !.nlink = @])
                /\ iunlock(r.ip)
                /\ ThenName(p, [r EXCEPT !.old = r.ip, !.ip = NoSlot], r.new, TRUE, "link_parent")
        /\ UNCHANGED <<dirs, inop, cwd, ofile, lost, panic>>

sys_link(p) ==
    LET r == pr[p]
        d == icache[r.ip].d
    IN  /\ At(p, "link")
        /\ IF d.type = "dir"
           THEN iunlockput(p, [r EXCEPT !.ip = NoSlot], r.ip, "end_op") /\ UNCHANGED <<icache, dinode>>
           ELSE /\ Update(r.ip, [d EXCEPT !.nlink = @ + 1])
                /\ iunlock(r.ip)
                /\ ThenName(p, [r EXCEPT !.old = r.ip, !.ip = NoSlot], r.new, TRUE, "link_parent")
        /\ UNCHANGED <<dirs, inop, cwd, ofile, lost, panic>>

\* dirlink(): an existing entry is looked up and put while dp is locked.
link_entry(p) ==
    LET r == pr[p]
        exists == Lookup(r.dp, r.name)
    IN  /\ At(p, "link_entry")
        /\ IF exists = 0
           THEN /\ dirs' = dirlink(dirs, icache[r.dp].inum, r.name, icache[r.old].inum)
                /\ iunlockput(p, [r EXCEPT !.dp = NoSlot], r.dp, "link_done")
                /\ UNCHANGED <<icache, panic>>
           ELSE /\ IF HasSlot(exists)
                   THEN /\ icache' = iget(exists)
                        /\ ThenPut(p, r, SlotOf(exists), "link_exists")
                        /\ UNCHANGED panic
                   ELSE panic' = "iget: no inodes" /\ UNCHANGED <<icache, pr>>
                /\ UNCHANGED <<dirs, lock>>
        /\ UNCHANGED <<dinode, inop, cwd, ofile, lost>>

link_exists(p) ==
    /\ At(p, "link_exists")
    /\ iunlockput(p, [pr[p] EXCEPT !.dp = NoSlot], pr[p].dp, "link_undo")
    /\ UNCHANGED <<dinode, dirs, icache, inop, cwd, ofile, lost, panic>>

link_bad(p) ==
    LET s == pr[p].old
    IN  /\ At(p, "link_bad")
        /\ Update(s, [icache[s].d EXCEPT !.nlink = @ - 1])
        /\ iunlockput(p, [pr[p] EXCEPT !.old = NoSlot], s, "end_op")
        /\ UNCHANGED <<dirs, inop, cwd, ofile, lost, panic>>


unlink_entry(p) ==
    LET r == pr[p]
        i == Lookup(r.dp, r.name)
    IN  /\ At(p, "unlink_entry")
        /\ IF r.name \in {".", ".."} \/ i = 0
           THEN /\ iunlockput(p, [r EXCEPT !.dp = NoSlot], r.dp, "end_op")
                /\ UNCHANGED <<icache, panic>>
           ELSE IF ~HasSlot(i) THEN panic' = "iget: no inodes" /\ UNCHANGED <<icache, lock, pr>>
           ELSE /\ icache' = iget(i)
                /\ ThenLock(p, [r EXCEPT !.ip = SlotOf(i)], SlotOf(i), "unlink")
                /\ UNCHANGED <<lock, panic>>
        /\ UNCHANGED <<dinode, dirs, inop, cwd, ofile, lost>>

isdirempty(i) == \A e \in Name : dirs[i][e] = 0

sys_unlink(p) ==
    LET r == pr[p]
        i == icache[r.ip].inum
        di == icache[r.dp].inum
        dir == IsDir(r.ip)
        d == [icache[r.dp].d EXCEPT !.nlink = @ - 1]
    IN  /\ At(p, "unlink")
        /\ IF icache[r.ip].d.nlink < 1 THEN Panic("unlink: nlink < 1")
           ELSE /\ IF dir /\ ~isdirempty(i)
                   THEN /\ iunlockput(p, [r EXCEPT !.ip = NoSlot], r.ip, "unlink_bad")
                        /\ UNCHANGED <<dinode, dirs, icache>>
                   ELSE /\ dirs' = [dirs EXCEPT ![di][r.name] = 0]
                        /\ IF dir THEN Update(r.dp, d) ELSE UNCHANGED <<icache, dinode>>
                        /\ iunlockput(p, [r EXCEPT !.dp = NoSlot], r.dp, "unlink_done")
                /\ UNCHANGED <<inop, cwd, ofile, lost, panic>>

unlink_bad(p) ==
    /\ At(p, "unlink_bad")
    /\ iunlockput(p, [pr[p] EXCEPT !.dp = NoSlot], pr[p].dp, "end_op")
    /\ UNCHANGED <<dinode, dirs, icache, inop, cwd, ofile, lost, panic>>

unlink_done(p) ==
    LET s == pr[p].ip
    IN  /\ At(p, "unlink_done")
        /\ Update(s, [icache[s].d EXCEPT !.nlink = @ - 1])
        /\ iunlockput(p, [pr[p] EXCEPT !.ip = NoSlot], s, "end_op")
        /\ UNCHANGED <<dirs, inop, cwd, ofile, lost, panic>>

-----------------------------------------------------------------------------
(* Starting a call *)

OpenModes == {O_RDONLY, O_WRONLY, O_RDWR, O_CREATE + O_RDWR}
Args(call, p) == CASE call = "open" -> OpenModes
                   [] call = "chmod" -> Modes
                   [] call = "chown" -> {Uid[q] : q \in Proc} \cup {-1}
                   [] OTHER -> {0}

\* begin_op() and the call's first path walk.
WalksToParent(call, arg) == call \in {"mkdir", "unlink"} \/ (call = "open" /\ arg >= O_CREATE)
AfterWalk(call, arg) == CASE call = "mkdir" \/ (call = "open" /\ arg >= O_CREATE) -> "create"
                          [] call = "unlink" -> "unlink_parent"
                          [] call = "chmod" -> "chmod_owner"
                          [] OTHER -> "found"
Losing(call) == call \in {"chmod", "chown", "mknod"}
MayLose == FoldSet(LAMBDA s, n : n + lost[s], 0, Slot)
           + Cardinality({p \in Proc : Losing(pr[p].call)}) < MAXLOST

begin_op(p, call, path, new, arg) ==
    /\ At(p, "idle")
    /\ call = "chown" => Uid[p] = 0
    /\ Losing(call) => MayLose
    /\ inop' = inop \cup {p}
    /\ ThenName(p, [Idle EXCEPT !.call = call, !.path = path, !.new = new, !.arg = arg],
                path, WalksToParent(call, arg), AfterWalk(call, arg))
    /\ UNCHANGED <<dinode, dirs, icache, lock, cwd, ofile, lost, panic>>

\* sys_mknod() first walks a path that is not yet set, outside a transaction: it may find
\* nothing or a directory, whose reference it keeps; the test of what it found may fail
\* for all but root, and then an inode that is not set is unlocked.
sys_mknod(p, path) ==
    /\ At(p, "idle")
    /\ MayLose
    /\ \/ /\ \/ UNCHANGED <<icache, lost>>
             \/ \E i \in Inum : /\ dinode[i].type = "dir" /\ HasSlot(i)
                                /\ icache' = iget(i)
                                /\ lost' = [lost EXCEPT ![SlotOf(i)] = @ + 1]
          /\ inop' = inop \cup {p}
          /\ ThenName(p, [Idle EXCEPT !.call = "mknod", !.path = path], path, TRUE, "create")
          /\ UNCHANGED <<dinode, dirs, lock, cwd, ofile, panic>>
       \/ Euid[p] # 0 /\ Panic("iunlock")

\* exec() reads the image under the lock; both of its ends release the inode.
exec(p) ==
    /\ At(p, "exec")
    /\ iunlockput(p, [pr[p] EXCEPT !.ip = NoSlot], pr[p].ip, "end_op")
    /\ UNCHANGED <<dinode, dirs, icache, inop, cwd, ofile, lost, panic>>

\* fileread(), filestat() and filewrite() lock the inode of an open file; filewrite()
\* does so in a transaction.
file_begin(p, call) ==
    /\ At(p, "idle")
    /\ ofile[p].ip # NoSlot
    /\ IF call = "write" THEN ofile[p].writable ELSE ofile[p].readable
    /\ inop' = IF call = "write" THEN inop \cup {p} ELSE inop
    /\ ThenLock(p, [Idle EXCEPT !.call = call], ofile[p].ip, call)
    /\ UNCHANGED <<dinode, dirs, icache, lock, cwd, ofile, lost, panic>>

file_io(p) ==
    /\ \E call \in {"read", "write"} : At(p, call)
    /\ iunlock(ofile[p].ip)
    /\ pr' = [pr EXCEPT ![p] = IF @.pc = "write" THEN [@ EXCEPT !.pc = "end_op"] ELSE Idle]
    /\ UNCHANGED <<dinode, dirs, icache, inop, cwd, ofile, lost, panic>>


\* fileclose() of the last descriptor.
fileclose(p) ==
    /\ At(p, "idle")
    /\ ofile[p].ip # NoSlot
    /\ inop' = inop \cup {p}
    /\ ofile' = [ofile EXCEPT ![p] = NoOpen]
    /\ ThenPut(p, [Idle EXCEPT !.call = "close"], ofile[p].ip, "end_op")
    /\ UNCHANGED <<dinode, dirs, icache, lock, cwd, lost, panic>>

Start(p) ==
    \/ \E call \in prog.calls[p] \cap {"open", "mkdir", "chdir", "exec", "chmod", "chown", "unlink"} :
          \E path \in prog.paths, arg \in Args(call, p) : begin_op(p, call, path, <<>>, arg)
    \/ "link" \in prog.calls[p] /\ \E path, new \in prog.paths : begin_op(p, "link", path, new, 0)
    \/ "mknod" \in prog.calls[p] /\ \E path \in prog.paths : sys_mknod(p, path)
    \/ \E call \in prog.calls[p] \cap {"read", "write"} : file_begin(p, call)
    \/ "close" \in prog.calls[p] /\ fileclose(p)

Inodes(p) == ilock(p) \/ iput(p) \/ iput_ref(p) \/ namex(p) \/ namex_elem(p)

Creates(p) == \/ create_entry(p) \/ create_type(p)
              \/ create_new(p) \/ made(p) \/ open_namei(p)

Handles(p) == \/ sys_open(p) \/ sys_chdir(p) \/ exec(p) \/ file_io(p) \/ end_op(p)
              \/ \E left \in {Uid[q] : q \in Proc} : chmod_owner(p, left)
              \/ sys_chmod(p) \/ sys_chown(p)

Links(p) == \/ sys_link(p) \/ link_entry(p) \/ link_exists(p)
            \/ link_bad(p)
            \/ unlink_entry(p) \/ sys_unlink(p) \/ unlink_bad(p) \/ unlink_done(p)

Next == \E p \in Proc : Start(p) \/ Inodes(p) \/ Creates(p) \/ Handles(p) \/ Links(p)

Spec == Init /\ [][Next]_vars

-----------------------------------------------------------------------------
(* Properties *)

\* The pointers to cache entry s: current directories, open files, variables of calls.
Pointers(p, s) == LET r == pr[p]
                      is(t) == IF t = s THEN 1 ELSE 0
                      putting == IF r.pc \in {"iput", "iput_ref"} THEN is(r.want) ELSE 0
                  IN  is(cwd[p]) + is(ofile[p].ip) + is(r.ip) + is(r.dp) + is(r.old) + putting

\* ip->ref is exactly the number of pointers to the entry, counting those that chmod(),
\* chown(), mknod() and open(O_CREATE) drop without iput(): through every early return
\* and error path of the calls, no entry is recycled under a pointer to it.
RefsExact ==
    \A s \in Slot : icache[s].ref = FoldSet(LAMBDA p, n : n + Pointers(p, s), lost[s], Proc)

\* The cache shows the disk: iget() never gives one inode two entries, so that one sleep lock
\* guards it, and a valid entry is the inode on disk, even when iput() freed the inode and
\* ialloc() gave its number to a new file while other pointers to the entry were in use.
CacheCoherent ==
    /\ \A s, t \in Slot : s # t /\ icache[s].ref > 0 /\ icache[t].ref > 0 => icache[s].inum # icache[t].inum
    /\ \A s \in Slot : icache[s].valid => icache[s].d = dinode[icache[s].inum]

\* The names of inode i in linked directories, and the ".." of its own subdirectories.
Names(i) == {<<j, e>> \in Inum \X Name : dinode[j].nlink > 0 /\ dirs[j][e] = i}
            \cup {<<j, "..">> : j \in {j \in Inum : /\ dirs[j][".."] = i
                                                    /\ j = i \/ \E e \in Name : dirs[i][e] = j}}

\* An inode has at least as many links as names, at every moment of link(), unlink() and
\* create() and of any two of them together, and no name leads to a freed inode.  Only the
\* root is left out: mkfs gives it one link for all its subdirectories.
LinksCoverNames == \A i \in Inum \ {ROOTINO} : /\ Cardinality(Names(i)) <= dinode[i].nlink
                                               /\ dinode[i].type = "free" => Names(i) = {}


\* Only a full disk, a full cache, a ".." that outlives its directory, and mknod()'s
\* variable that is not set can stop the kernel: no call finds a link count of zero in
\* unlink(), looks up a name in what is not a directory or locks an unreferenced inode.
NoPanic == panic \notin {"ilock", "unlink: nlink < 1", "dirlookup not DIR"}


\* fs.c:334: "If that was the last reference and the inode has no links to it, free the
\* inode (and its content) on disk": an allocated inode with no links is in the cache.
UnlinkedFreed == \A i \in Inum : dinode[i].type # "free" /\ dinode[i].nlink = 0 => Cached(i) # {}

\* fs.c:150: the separation of ilock() and iget() "helps avoid deadlock and races during
\* pathname lookup": no process waits for an inode that it has locked itself.
NoSelfWait == \A p \in Proc : pr[p].pc \in {"ilock", "iput"} => lock[pr[p].want] # p

=============================================================================
