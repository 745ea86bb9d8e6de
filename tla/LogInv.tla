------------------------------- MODULE LogInv -------------------------------
(***************************************************************************)
(* The inductive invariant of Log: who may be where (CtlInv), how much log  *)
(* space is promised and used (HeaderInv, WrittenInv, RoomInv), and how the *)
(* cache, the log and the home blocks agree (HeadInv, DirtyInv, CopyInv).   *)
(***************************************************************************)
EXTENDS Log

\* What log_write()'s checks need of the constants.  They count a block that
\* is already in the log as if it were new, and sb.nlog counts the header
\* block, so the largest call must stay two blocks below its reservation
\* when sb.nlog = LOGSIZE, the value that mkfs writes.
EnoughSpace == /\ OPBLOCKS < MAXOPBLOCKS
               /\ LOGSIZE + OPBLOCKS < NLOG - 1 + MAXOPBLOCKS

NoDup(s) == \A i, j \in 1 .. Len(s) : s[i] = s[j] => i = j

\* One token for each block that a call in A, having logged the blocks W,
\* may still add to the log.
Tokens(A, W) == {t \in A \X (1 .. MAXOPBLOCKS) : t[2] > Cardinality(W[t[1]])}

Reserved == Tokens(Active, written)

Installing == \E p \in Proc : pc[p] = "install"

CtlInv ==
    /\ panic = "none"
    /\ outstanding = Cardinality(Active)
    /\ committing = 1 <=> \E p \in Proc : pc[p] \in CommitPC
    /\ committing = 1 => Active = {}
    /\ \A p, q \in Proc : pc[p] \in CommitPC /\ pc[q] \in CommitPC => p = q
    /\ \A p \in Proc : hold[p] # NoBlock <=> pc[p] \in {"held", "log"}
    /\ \A p, q \in Proc : hold[p] = hold[q] /\ hold[p] # NoBlock => p = q
    /\ boot # "up" => \A p \in Proc : pc[p] = "idle"
    /\ SleeperHasWaker

HeaderInv ==
    /\ NoDup(lh) /\ NoDup(head)
    /\ LogFits
    /\ Len(head) =< NLOG - 1 /\ Len(head) =< LOGSIZE
    /\ tail =< Len(lh)

WrittenInv ==
    \A p \in Proc :
        /\ pc[p] \notin CallPC => written[p] = {}
        /\ \A b \in written[p] : Logged(lh, b)
        /\ Cardinality(written[p]) =< OPBLOCKS
        /\ pc[p] = "log" => Cardinality(written[p] \cup {hold[p]}) =< OPBLOCKS

RoomInv ==
    /\ boot = "up" => Len(lh) + Cardinality(Reserved) =< LOGSIZE
    /\ (boot = "up" /\ Active = {} /\ committing = 0) => lh = <<>>
    /\ \A p \in Proc : pc[p] = "finish" => lh = <<>>

HeadInv ==
    /\ boot = "install" => head = lh
    /\ boot = "up" /\ Installing => head = lh
    /\ boot = "up" /\ ~Installing => head = <<>>

DirtyInv ==
    /\ boot # "up" => dirty = {}
    /\ boot = "up" => \A b \in Block :
          b \in dirty <=> \E i \in 1 .. Len(lh) :
                             lh[i] = b /\ (Installing => i > tail)
    /\ \A b \in dirty : cache[b] # NoBuf
    /\ \A p \in Proc : hold[p] # NoBlock => cache[hold[p]] # NoBuf
    /\ \A b \in Block :
          \/ b \in dirty
          \/ \E p \in Proc : pc[p] = "log" /\ hold[p] = b
          \/ cache[b] \in {NoBuf, disk[b]}

CopyInv ==
    /\ \A p \in Proc : pc[p] = "write_log" =>
          \A i \in 1 .. Len(lh) : i =< tail => logblk[i] = cache[lh[i]]
    /\ Installing =>
          \A i \in 1 .. Len(lh) : i > tail => logblk[i] = cache[lh[i]]
    /\ (Installing \/ boot = "install") =>
          \A i \in 1 .. Len(lh) : i =< tail => disk[lh[i]] = logblk[i]

\* The inductive invariant of the log: the control state of begin_op() and
\* end_op(), the space they account for, and the agreement of cache, log and
\* disk that makes every crash recoverable.
IInv == /\ TypeOK
        /\ CtlInv
        /\ HeaderInv
        /\ WrittenInv
        /\ RoomInv
        /\ HeadInv
        /\ DirtyInv
        /\ CopyInv
=============================================================================
