------------------------------- MODULE Console -------------------------------
(***************************************************************************)
(* Console input (kernel/console.c): the interrupt handler that edits a     *)
(* ring of INPUT_BUF characters and the processes that read it.  The        *)
(* indices are unsigned and wrap (modulo WRAP).                             *)
(***************************************************************************)
EXTENDS Integers, Sequences, FiniteSets

CONSTANTS Reader,
          INPUT_BUF,
          WRAP,      \* 2^32, a multiple of INPUT_BUF
          Letter,    \* ordinary characters
          Sizes,     \* sizes of the buffers given to read()
          MAXKILLS   \* calls of kill()

ASSUME ConsoleAssumption == INPUT_BUF > 0 /\ WRAP > INPUT_BUF /\ WRAP % INPUT_BUF = 0

VARIABLES input,    \* buf, and the indices r (read), w (write) and e (edit)
          cons,     \* cons.lock: its holder or "free"
          rd        \* per reader: pc, n, target, killed, and what it has got

conVars == <<input, cons, rd>>

Ring == 0 .. INPUT_BUF - 1
Keys == Letter \cup {"nl", "^D"}
Idle == [pc |-> "user", n |-> 0, killed |-> FALSE, got |-> <<>>]

Inc(i) == (i + 1) % WRAP
Dec(i) == (i - 1) % WRAP
Distance(a, b) == (b - a) % WRAP

ConInit ==
    /\ input = [buf |-> [i \in Ring |-> "nl"], r |-> 0, w |-> 0, e |-> 0]
    /\ cons = "free"
    /\ rd = [p \in Reader |-> Idle]

\* wakeup(&input.r)
Awake == [p \in Reader |-> IF rd[p].pc = "asleep" THEN [rd[p] EXCEPT !.pc = "acquire"] ELSE rd[p]]

\* The default case of consoleintr(): store c; a line is done at a newline, at ^D and when
\* the ring is full.
Stored(c) ==
    LET e == Inc(input.e)
        done == c \in {"nl", "^D"} \/ Distance(input.r, e) = INPUT_BUF
    IN  [input EXCEPT !.buf[input.e % INPUT_BUF] = c, !.e = e, !.w = IF done THEN e ELSE @]

consoleintr(c) ==
    /\ cons = "free"
    /\ Distance(input.r, input.e) < INPUT_BUF
    /\ input' = Stored(c)
    /\ rd' = IF input'.w # input.w THEN Awake ELSE rd
    /\ UNCHANGED cons

\* ^H
\* Mutant: the characters of finished lines can be erased.
backspace_Ready ==
    /\ cons = "free" /\ input.e # input.r
    /\ input' = [input EXCEPT !.e = Dec(@)]
    /\ UNCHANGED <<cons, rd>>

backspace ==
    /\ cons = "free" /\ input.e # input.w
    /\ input' = [input EXCEPT !.e = Dec(@)]
    /\ UNCHANGED <<cons, rd>>

\* ^U: back to the write index or behind the last newline, whichever comes first.
killline ==
    LET back(k) == (input.e - k) % WRAP
        stop(k) == back(k) = input.w \/ input.buf[Dec(back(k)) % INPUT_BUF] = "nl"
        k0 == CHOOSE k \in 0 .. INPUT_BUF : stop(k) /\ \A i \in 0 .. k - 1 : ~stop(i)
    IN  /\ cons = "free"
        /\ input' = [input EXCEPT !.e = back(k0)]
        /\ UNCHANGED <<cons, rd>>

-----------------------------------------------------------------------------
(* consoleread() *)

read(p, n) ==
    /\ rd[p].pc = "user"
    /\ rd' = [rd EXCEPT ![p] = [Idle EXCEPT !.pc = "acquire", !.n = n, !.killed = rd[p].killed]]
    /\ UNCHANGED <<input, cons>>

acquire(p) ==
    /\ rd[p].pc = "acquire" /\ cons = "free"
    /\ cons' = p
    /\ rd' = [rd EXCEPT ![p].pc = "read"]
    /\ UNCHANGED input

\* No character: return -1 when killed, or go to sleep().
consoleread_empty(p) ==
    /\ rd[p].pc = "read" /\ rd[p].n > 0 /\ input.r = input.w
    /\ rd' = [rd EXCEPT ![p] = IF @.killed THEN [Idle EXCEPT !.killed = TRUE] ELSE [@ EXCEPT !.pc = "sleep"]]
    /\ cons' = IF rd[p].killed THEN "free" ELSE cons
    /\ UNCHANGED input

\* sleep(): cons.lock is held until ptable.lock is.
\* Mutant: the lock is released before, and a key may come in between.
sleep_Late(p) ==
    /\ rd[p].pc = "sleep"
    /\ \/ cons = p /\ cons' = "free" /\ UNCHANGED rd
       \/ cons # p /\ rd' = [rd EXCEPT ![p].pc = "asleep"] /\ UNCHANGED cons
    /\ UNCHANGED input

sleep(p) ==
    /\ rd[p].pc = "sleep"
    /\ cons' = "free"
    /\ rd' = [rd EXCEPT ![p].pc = "asleep"]
    /\ UNCHANGED input

\* Take a character.  ^D ends the read, and stays in the ring unless nothing was read.
consoleread(p) ==
    LET c == input.buf[input.r % INPUT_BUF]
        keep == c = "^D" /\ rd[p].got # <<>>
    IN  /\ rd[p].pc = "read" /\ rd[p].n > 0 /\ input.r # input.w
        /\ input' = IF keep THEN input ELSE [input EXCEPT !.r = Inc(@)]
        /\ rd' = IF c = "^D" THEN [rd EXCEPT ![p].n = 0]
                 ELSE [rd EXCEPT ![p].n = IF c = "nl" THEN 0 ELSE @ - 1, ![p].got = Append(@, c)]
        /\ UNCHANGED cons

\* The loop is over: return target - n.
consoleread_return(p) ==
    /\ rd[p].pc = "read" /\ rd[p].n = 0
    /\ cons' = "free"
    /\ rd' = [rd EXCEPT ![p] = [Idle EXCEPT !.killed = rd[p].killed]]
    /\ UNCHANGED input

\* kill() marks a reader and wakes it.
kill(p) ==
    /\ Cardinality({q \in Reader : rd[q].killed}) < MAXKILLS /\ ~rd[p].killed
    /\ rd' = [rd EXCEPT ![p].killed = TRUE, ![p].pc = IF @ = "asleep" THEN "acquire" ELSE @]
    /\ UNCHANGED <<input, cons>>

ReadStep(p) ==
    acquire(p) \/ consoleread_empty(p) \/ sleep(p) \/ consoleread(p) \/ consoleread_return(p)

ConNext ==
    \/ \E c \in Keys : consoleintr(c)
    \/ backspace \/ killline
    \/ \E p \in Reader : ReadStep(p) \/ kill(p)
    \/ \E p \in Reader, n \in Sizes : read(p, n)

-----------------------------------------------------------------------------
(* Properties *)

Chars(from, to) == [i \in 1 .. Distance(from, to) |-> input.buf[(from + i - 1) % INPUT_BUF]]
Input == INSTANCE LineInput WITH Char <- Keys, Ends <- {"nl", "^D"}, MAX <- INPUT_BUF,
                                 ready <- Chars(input.r, input.w), line <- Chars(input.w, input.e)

\* The ring behaves as a queue of finished lines and a line under edit: nothing that was
\* finished is erased or overwritten, characters are read once and in order, and the wrap of
\* the indices changes nothing (the comparisons of input.e, input.w and input.r).
LineSpec == Input!Spec

\* Keyboard and readers do not block one another.  A reader that sleeps has nothing to read,
\* however the handler, other readers and kill() come between its test and its sleep
\* (cons.lock in sleep(), and wakeup).  When the ring is full, so that every key except an
\* erasing one is dropped, what is in it can be read.
ReaderWoken ==
    /\ \A p \in Reader : rd[p].pc = "asleep" => input.r = input.w
    /\ Distance(input.r, input.e) = INPUT_BUF => input.w = input.e
=============================================================================
