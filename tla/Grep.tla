-------------------------------- MODULE Grep ---------------------------------
(***************************************************************************)
(* The program grep (user/grep.c): its matcher, and its loop over a text    *)
(* that read() delivers in pieces.  A file gives as many bytes as are asked *)
(* for, a pipe any number of them.                                          *)
(***************************************************************************)
EXTENDS Integers, Sequences, SequencesExt, FiniteSetsExt

CONSTANTS Jobs,       \* pairs of a pattern and a text, sequences of characters
          GREPBUF,    \* size of buf, 1024
          TextChar,   \* characters of the lines
          TEXTLEN     \* bound: length of the lines on which the matcher is checked

VARIABLES pattern, text,   \* what grep is given
          rest,            \* what read() has not delivered yet
          pipe,            \* TRUE if it comes through a pipe
          kept,            \* the m bytes at the start of buf
          printed,         \* the lines written
          cut,             \* history: the beginning of a line has been thrown away
          grepc

grepVars == <<pattern, text, rest, pipe, kept, printed, cut, grepc>>

-----------------------------------------------------------------------------
(* The matcher *)

\* matchhere() and matchstar(), at position i of the pattern and j of the line.
matchhere(re, line, first) ==
    LET at[i \in 1 .. Len(re) + 2, j \in 1 .. Len(line) + 1] ==
            \/ i > Len(re)
            \/ /\ i < Len(re) /\ re[i + 1] = "*"
               /\ \E k \in j .. Len(line) + 1 : /\ \A l \in j .. k - 1 : re[i] \in {line[l], "."}
                                                /\ at[i + 2, k]
            \/ /\ i = Len(re) /\ re[i] = "$" /\ j > Len(line)
            \/ /\ i <= Len(re) /\ ~(i < Len(re) /\ re[i + 1] = "*") /\ ~(i = Len(re) /\ re[i] = "$")
               /\ j <= Len(line) /\ re[i] \in {line[j], "."}
               /\ at[i + 1, j + 1]
    IN  at[1, first]

match(re, line) ==
    IF re # <<>> /\ re[1] = "^" THEN matchhere(Tail(re), line, 1)
    ELSE \E j \in 1 .. Len(line) + 1 : matchhere(re, line, j)

-----------------------------------------------------------------------------
(* grep() *)

GrepInit ==
    /\ \E job \in Jobs : pattern = job[1] /\ text = job[2]
    /\ rest = text /\ pipe \in BOOLEAN
    /\ kept = <<>> /\ printed = <<>> /\ cut = FALSE /\ grepc = "read"

\* Where the last line of buf ends, or 0.
LineEnd(buf) == Max({0} \cup {i \in DOMAIN buf : buf[i] = "nl"})

\* The lines that end in buf.
LinesOf(buf) ==
    LET done == FoldLeft(LAMBDA acc, c : IF c = "nl" THEN [lines |-> Append(acc.lines, acc.line), line |-> <<>>]
                                         ELSE [acc EXCEPT !.line = Append(@, c)],
                         [lines |-> <<>>, line |-> <<>>], buf)
    IN  done.lines

\* Mutant: the line that is still open is not moved to the front.
Left_Lost(buf) == <<>>

\* What stays in buf: nothing if it holds no end of a line.
Left(buf) == IF LineEnd(buf) = 0 THEN <<>> ELSE SubSeq(buf, LineEnd(buf) + 1, Len(buf))

\* A turn of the loop: read() gives n bytes.
grep(n) ==
    LET buf == kept \o SubSeq(rest, 1, n)
    IN  /\ grepc = "read" /\ n > 0
        /\ rest' = SubSeq(rest, n + 1, Len(rest))
        /\ printed' = printed \o SelectSeq(LinesOf(buf), LAMBDA line : match(pattern, line))
        /\ kept' = Left(buf)
        /\ cut' = (cut \/ (LineEnd(buf) = 0 /\ LineEnd(rest') # 0))
        /\ UNCHANGED <<pattern, text, pipe, grepc>>

grep_end ==
    /\ grepc = "read" /\ rest = <<>>
    /\ grepc' = "done"
    /\ UNCHANGED <<pattern, text, rest, pipe, kept, printed, cut>>

GrepNext ==
    \/ LET most == Min({GREPBUF - 1 - Len(kept), Len(rest)})
       IN  \E n \in (IF pipe THEN 1 .. most ELSE {most}) : grep(n)
    \/ grep_end

-----------------------------------------------------------------------------
(* Properties *)

\* The reference for the matcher: a pattern is a list of items, each one character and
\* perhaps starred, between two optional anchors, and denotes a set of strings.
Hat(re) == re # <<>> /\ re[1] = "^"
Body(re) == IF Hat(re) THEN Tail(re) ELSE re
Starts(re) ==   \* the positions at which an item starts
    LET starts[i \in 1 .. Len(re) + 2] ==
            i = 1 \/ (i > 2 /\ re[i - 1] = "*" /\ starts[i - 2])
                  \/ (i > 1 /\ starts[i - 1] /\ (i > Len(re) \/ re[i] # "*"))
    IN  {i \in 1 .. Len(re) : starts[i]}
Dollar(re) == re # <<>> /\ re[Len(re)] = "$" /\ Len(re) \in Starts(re)
Short(S) == {s \in S : Len(s) <= TEXTLEN}
Strings(chars) == UNION {[1 .. n -> chars] : n \in 0 .. TEXTLEN}
Item(re, i) ==
    LET chars == IF re[i] = "." THEN TextChar ELSE {re[i]}
    IN  IF i < Len(re) /\ re[i + 1] = "*" THEN Strings(chars) ELSE {<<c>> : c \in chars}
Language(re) ==
    LET items == Starts(re) \ (IF Dollar(re) THEN {Len(re)} ELSE {})
    IN  FoldLeft(LAMBDA lang, i : Short({u \o v : u \in lang, v \in Item(re, i)}),
                 {<<>>}, SetToSortSeq(items, <))
Matches(re, line) ==
    \E i \in 1 .. Len(line) + 1 : \E j \in i - 1 .. Len(line) :
        /\ SubSeq(line, i, j) \in Language(Body(re))
        /\ Hat(re) => i = 1
        /\ Dollar(Body(re)) => j = Len(line)

\* grep prints the lines that the pattern matches.  The matcher agrees with the strings that
\* the pattern denotes (match, matchhere, matchstar).  The lines of the text that match are
\* printed, once and in order, however lines and pieces overlap (the m bytes that grep() moves
\* to the front), unless the beginning of a line was alone in buf and was thrown away; and of
\* a file whose lines fit into buf nothing is thrown away.
GrepRight ==
    /\ grepc = "read" /\ rest = text =>
          \A line \in Strings(TextChar) : match(pattern, line) <=> Matches(pattern, line)
    /\ grepc = "done" /\ ~cut => printed = SelectSeq(LinesOf(text), LAMBDA line : Matches(pattern, line))
    /\ ~pipe /\ (\A i \in DOMAIN LinesOf(text) : Len(LinesOf(text)[i]) <= GREPBUF - 2) => ~cut
=============================================================================
