-------------------------------- MODULE Shell --------------------------------
(***************************************************************************)
(* The shell (user/sh.c): the parser, on the tokens that gettoken() finds,  *)
(* and runcmd(), which turns the tree into processes, pipes and redirected  *)
(* files.  A command line is a sequence of <<token, position>>; a word is   *)
(* "a".  What the system calls do is modelled by their effect on file       *)
(* descriptors and on the process tree; fork(), pipe(), open() and exec()   *)
(* may fail.                                                                *)
(***************************************************************************)
EXTENDS Integers, Sequences, FiniteSets, FiniteSetsExt

CONSTANTS Lines,     \* token sequences to parse and run
          SHPROCS,   \* processes, the shell included
          MAXARGS,   \* words of a command
          MAXFAIL    \* system calls that fail

Tagged(s) == [i \in 1 .. Len(s) |-> <<s[i], i>>]

\* Trees
Exec(argv) == <<"exec", argv>>
Redir(c, file, fd) == <<"redir", c, file, fd>>
Pipe2(l, r) == <<"pipe", l, r>>
List(l, r) == <<"list", l, r>>
Back(c) == <<"back", c>>
Panic == [c |-> <<"panic">>, i |-> 0]

-----------------------------------------------------------------------------
(* The parser.  Each function takes the line and an index and returns a tree and the next *)
(* index, or Panic.                                                                       *)

peek(s, i, toks) == i <= Len(s) /\ s[i][1] \in toks

\* parseredirs(): each redirection wraps the command, so the last one is the outermost.
RECURSIVE parseredirs(_, _, _)
parseredirs(s, c, i) ==
    IF ~peek(s, i, {"<", ">"}) THEN [c |-> c, i |-> i]
    ELSE IF ~peek(s, i + 1, {"a"}) THEN Panic
    ELSE parseredirs(s, Redir(c, s[i + 1][2], IF s[i][1] = "<" THEN 0 ELSE 1), i + 2)

\* The execcmd stays at the core of its redirections and gets the words.
RECURSIVE AddWord(_, _)
AddWord(c, w) == IF c[1] = "exec" THEN Exec(Append(c[2], w)) ELSE Redir(AddWord(c[2], w), c[3], c[4])
RECURSIVE Words(_)
Words(c) == IF c[1] = "exec" THEN c[2] ELSE Words(c[2])

RECURSIVE parseargs(_, _)
parseargs(s, r) ==
    IF r.i = 0 \/ r.i > Len(s) \/ peek(s, r.i, {"|", ")", "&", ";"}) THEN r
    ELSE IF s[r.i][1] # "a" \/ Len(Words(r.c)) + 1 >= MAXARGS THEN Panic
    ELSE parseargs(s, parseredirs(s, AddWord(r.c, s[r.i][2]), r.i + 1))

RECURSIVE parseline(_, _)
RECURSIVE parsepipe(_, _)
RECURSIVE backs(_, _)

parseblock(s, i) ==
    LET r == parseline(s, i + 1)
    IN  IF r.i = 0 \/ ~peek(s, r.i, {")"}) THEN Panic ELSE parseredirs(s, r.c, r.i + 1)

parseexec(s, i) ==
    IF peek(s, i, {"("}) THEN parseblock(s, i) ELSE parseargs(s, parseredirs(s, Exec(<<>>), i))

parsepipe(s, i) ==
    LET l == parseexec(s, i)
        r == parsepipe(s, l.i + 1)
    IN  IF l.i = 0 \/ ~peek(s, l.i, {"|"}) THEN l
        ELSE IF r.i = 0 THEN r ELSE [c |-> Pipe2(l.c, r.c), i |-> r.i]

backs(s, r) == IF r.i # 0 /\ peek(s, r.i, {"&"}) THEN backs(s, [c |-> Back(r.c), i |-> r.i + 1]) ELSE r

\* Mutant: & binds tighter than |.
parseline_Amp(s, i) ==
    LET b == backs(s, parseexec(s, i))
        r == parseline(s, b.i + 1)
        q == parsepipe(s, b.i + 1)
    IN  IF b.i # 0 /\ peek(s, b.i, {"|"}) THEN (IF q.i = 0 THEN q ELSE [c |-> Pipe2(b.c, q.c), i |-> q.i])
        ELSE IF b.i = 0 \/ ~peek(s, b.i, {";"}) THEN b
        ELSE IF r.i = 0 THEN r ELSE [c |-> List(b.c, r.c), i |-> r.i]

parseline(s, i) ==
    LET b == backs(s, parsepipe(s, i))
        r == parseline(s, b.i + 1)
    IN  IF b.i = 0 \/ ~peek(s, b.i, {";"}) THEN b
        ELSE IF r.i = 0 THEN r ELSE [c |-> List(b.c, r.c), i |-> r.i]

\* Leftovers are an error.
parsecmd(s) ==
    LET r == parseline(s, 1)
    IN  IF r.i = Len(s) + 1 THEN r.c ELSE Panic.c

-----------------------------------------------------------------------------
(* A reference: split the line at the operators that are outside parentheses *)

Depth(s, k) == Cardinality({i \in 1 .. k : s[i][1] = "("}) - Cardinality({i \in 1 .. k : s[i][1] = ")"})
Tops(s, op) == {k \in 1 .. Len(s) : s[k][1] = op /\ Depth(s, k) = 0}
From(s, k) == SubSeq(s, k, Len(s))
Bad(c) == c[1] = "panic"
Both(op, l, r) == IF Bad(l) \/ Bad(r) THEN Panic.c ELSE <<op, l, r>>

RECURSIVE RefLine(_)
RECURSIVE RefBack(_)
RECURSIVE RefPipe(_)
RECURSIVE RefRedirs(_, _)

\* Redirections only: c wrapped in those of s, from left to right.
RefRedirs(c, s) ==
    IF s = <<>> THEN c
    ELSE IF Len(s) = 1 \/ s[1][1] \notin {"<", ">"} \/ s[2][1] # "a" THEN Panic.c
    ELSE RefRedirs(Redir(c, s[2][2], IF s[1][1] = "<" THEN 0 ELSE 1), From(s, 3))

\* Words and redirections in any order: the words are those not behind < or >.
RefSimple(s) ==
    LET file(i) == i > 1 /\ s[i - 1][1] \in {"<", ">"}
        words == SelectSeq([i \in 1 .. Len(s) |-> IF s[i][1] = "a" /\ ~file(i) THEN s[i][2] ELSE 0],
                           LAMBDA w : w # 0)
        redirs == SelectSeq([i \in 1 .. Len(s) |-> IF s[i][1] = "a" /\ ~file(i) THEN <<"", 0>> ELSE s[i]],
                            LAMBDA t : t[1] # "")
    IN  IF Len(words) >= MAXARGS THEN Panic.c ELSE RefRedirs(Exec(words), redirs)

RefCommand(s) ==
    LET close == {k \in 1 .. Len(s) : Depth(s, k) = 0}
        inner == RefLine(SubSeq(s, 2, Min(close) - 1))
    IN  IF s = <<>> \/ s[1][1] # "(" THEN RefSimple(s)
        ELSE IF close = {} THEN Panic.c
        ELSE IF Bad(inner) THEN Panic.c ELSE RefRedirs(inner, From(s, Min(close) + 1))

RefPipe(s) ==
    LET k == Min(Tops(s, "|"))
    IN  IF Tops(s, "|") = {} THEN RefCommand(s) ELSE Both("pipe", RefCommand(SubSeq(s, 1, k - 1)), RefPipe(From(s, k + 1)))

RefBack(s) ==
    LET c == RefBack(SubSeq(s, 1, Len(s) - 1))
    IN  IF s = <<>> \/ s[Len(s)][1] # "&" THEN RefPipe(s) ELSE IF Bad(c) THEN c ELSE Back(c)

RefLine(s) ==
    LET k == Min(Tops(s, ";"))
    IN  IF Tops(s, ";") = {} THEN RefBack(s) ELSE Both("list", RefBack(SubSeq(s, 1, k - 1)), RefLine(From(s, k + 1)))

-----------------------------------------------------------------------------
(* runcmd().  A step is a system call of a process, or a few that only touch its own *)
(* descriptors.                                                                      *)

VARIABLES sline,   \* the line that was typed
          sp,      \* per process: pc, tree, descriptors, parent
          fails    \* system calls that have failed

shVars == <<sline, sp, fails>>

SProc == 1 .. SHPROCS     \* 1 is the shell that reads lines
FD == 0 .. 4
Tty == <<"tty">>
File(w) == <<"file", w>>
Closed == <<"closed">>
Ends(k) == {<<"pipe", k, "r">>, <<"pipe", k, "w">>}
NoProc == [pc |-> "none", cmd |-> <<"panic">>, fd |-> [f \in FD |-> Closed], p |-> <<0, 0>>, parent |-> 0]

SIs(p, l) == sp[p].pc = l
SAt(p, l) == SIs(p, l) /\ UNCHANGED sline
ChildrenOf(p) == {c \in SProc : sp[c].parent = p /\ sp[c].pc # "none"}
Spare == {c \in SProc : sp[c].pc = "none"}
Lowest(fd) == Min({f \in FD : fd[f] = Closed})
Close(fd, f) == [fd EXCEPT ![f] = Closed]
Dup(fd, o) == [fd EXCEPT ![Lowest(fd)] = o]

ShInit ==
    /\ sline \in Lines
    /\ sp = [p \in SProc |-> IF p # 1 THEN NoProc
                             ELSE [NoProc EXCEPT !.pc = "prompt", !.cmd = parsecmd(Tagged(sline)),
                                                 !.fd = [f \in FD |-> IF f <= 2 THEN Tty ELSE Closed]]]
    /\ fails = 0

\* exit(): descriptors closed, children given to init, which waits for them.
Exited(st, p) ==
    [q \in SProc |->
        IF q = p THEN (IF st[p].parent = 0 THEN NoProc ELSE [NoProc EXCEPT !.pc = "zombie", !.parent = st[p].parent])
        ELSE IF st[q].parent = p THEN (IF st[q].pc = "zombie" THEN NoProc ELSE [st[q] EXCEPT !.parent = 0])
        ELSE st[q]]

Exit(p) == sp' = Exited(sp, p)
FailingExit(p) == fails < MAXFAIL /\ fails' = fails + 1 /\ Exit(p)      \* panic()

\* fork1(): the child starts at l with tree c; the parent goes on at next.
fork1(p, l, c, next) ==
    \/ /\ Spare # {}
       /\ sp' = [sp EXCEPT ![Min(Spare)] = [sp[p] EXCEPT !.pc = l, !.cmd = c, !.parent = p], ![p].pc = next]
       /\ UNCHANGED fails
    \/ FailingExit(p)

\* wait(): one child that has exited.  Its callers have a child, which they have just forked.
wait(p, l, next) ==
    /\ SAt(p, l)
    /\ \E c \in ChildrenOf(p) : SIs(c, "zombie") /\ sp' = [sp EXCEPT ![c] = NoProc, ![p].pc = next]
    /\ UNCHANGED fails

\* main(): a child parses the line (to the tree that Init has put in place) and runs it.
main(p) ==
    \/ SAt(p, "prompt") /\ fork1(p, "runcmd", sp[p].cmd, "wait")
    \/ wait(p, "wait", "again")

Node(p, type) == SAt(p, "runcmd") /\ sp[p].cmd[1] = type

\* The shell's panic() in the parser.
syntax(p) == Node(p, "panic") /\ Exit(p) /\ UNCHANGED fails

EXEC(p) ==
    /\ Node(p, "exec")
    /\ \/ sp[p].cmd[2] = <<>> /\ Exit(p) /\ UNCHANGED fails
       \/ sp[p].cmd[2] # <<>> /\ sp' = [sp EXCEPT ![p].pc = "program"] /\ UNCHANGED fails
       \/ sp[p].cmd[2] # <<>> /\ FailingExit(p)

REDIR(p) ==
    LET c == sp[p].cmd
    IN  /\ Node(p, "redir")
        /\ \/ /\ sp' = [sp EXCEPT ![p].cmd = c[2], ![p].fd = Dup(Close(@, c[4]), File(c[3]))]
              /\ UNCHANGED fails
           \/ FailingExit(p)

LIST(p) ==
    \/ Node(p, "list") /\ fork1(p, "runcmd", sp[p].cmd[2], "list")
    \/ wait(p, "list", "second")
    \/ SAt(p, "second") /\ sp' = [sp EXCEPT ![p].pc = "runcmd", ![p].cmd = @[3]] /\ UNCHANGED fails

BACK(p) == Node(p, "back") /\ fork1(p, "runcmd", sp[p].cmd[2], "exit")

Used(k) == \E q \in SProc, f \in FD : sp[q].fd[f] \in Ends(k)


close(p) ==
    /\ SAt(p, "close")
    /\ sp' = [sp EXCEPT ![p].fd = Close(Close(@, sp[p].p[1]), sp[p].p[2]), ![p].pc = "wait1"]
    /\ UNCHANGED fails

PIPE(p) ==
    LET k == Min({i \in SProc : ~Used(i)})
        fd0 == Lowest(sp[p].fd)
        one == Dup(sp[p].fd, <<"pipe", k, "r">>)
    IN  \/ /\ Node(p, "pipe")
           /\ sp' = [sp EXCEPT ![p].fd = Dup(one, <<"pipe", k, "w">>), ![p].p = <<fd0, Lowest(one)>>, ![p].pc = "fork1"]
           /\ UNCHANGED fails
        \/ Node(p, "pipe") /\ FailingExit(p)
        \/ SAt(p, "fork1") /\ fork1(p, "left", sp[p].cmd[2], "fork2")
        \/ SAt(p, "fork2") /\ fork1(p, "right", sp[p].cmd[3], "close")
        \/ wait(p, "wait1", "wait2") \/ wait(p, "wait2", "exit")

\* The child's part: its end of the pipe becomes descriptor 1 or 0.
\* Mutant: the child keeps the ends.
PIPE_side_Keep(p, l, f, end) ==
    /\ SAt(p, l)
    /\ sp' = [sp EXCEPT ![p].fd = Dup(Close(@, f), @[sp[p].p[end]]), ![p].pc = "runcmd"]
    /\ UNCHANGED fails

PIPE_side(p, l, f, end) ==
    LET e == sp[p].p
    IN  /\ SAt(p, l)
        /\ sp' = [sp EXCEPT ![p].fd = Close(Close(Dup(Close(@, f), @[e[end]]), e[1]), e[2]), ![p].pc = "runcmd"]
        /\ UNCHANGED fails

exit(p) == SAt(p, "exit") /\ Exit(p) /\ UNCHANGED fails

\* A program reads its input to the end, then exits.  A pipe ends when nobody can write it.
program(p) ==
    /\ SAt(p, "program")
    /\ \A k \in SProc : sp[p].fd[0] = <<"pipe", k, "r">> =>
           \A q \in SProc, f \in FD : sp[q].fd[f] # <<"pipe", k, "w">>
    /\ Exit(p)
    /\ UNCHANGED fails

ShStep(p) ==
    \/ main(p) \/ syntax(p) \/ EXEC(p) \/ REDIR(p) \/ LIST(p) \/ BACK(p) \/ PIPE(p) \/ close(p)
    \/ PIPE_side(p, "left", 1, 2) \/ PIPE_side(p, "right", 0, 1) \/ exit(p) \/ program(p)

ShNext == \E p \in SProc : ShStep(p)

\* The scheduler runs every process.
ShFair == \A p \in SProc : WF_shVars(ShStep(p))

-----------------------------------------------------------------------------
(* Properties *)

\* The recursive-descent parser builds the tree that splitting the line at the operators
\* outside parentheses gives, ; before & before |, with the words and redirections of each
\* command, and it refuses exactly the lines that this refuses (parsecmd and what it calls).
ParseIsGrammar == \A p \in SProc : SIs(p, "prompt") => sp[p].cmd = RefLine(Tagged(sline))

\* A program starts with descriptors 0, 1 and 2 and nothing else: redirections land on the
\* descriptor they are for, and no end of a pipe is left over, which would keep its reader
\* waiting (the close and dup calls of runcmd).
ProgramFds == \A p \in SProc : SIs(p, "program") => {f \in FD : sp[p].fd[f] # Closed} = 0 .. 2

=============================================================================
