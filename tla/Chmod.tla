-------------------------------- MODULE Chmod --------------------------------
(***************************************************************************)
(* The program chmod (user/chmod.c): "chmod 644 file" and "chmod u+x file". *)
(***************************************************************************)
EXTENDS Integers, Sequences, Bitwise

CONSTANTS FileModes   \* modes that the file may have before

VARIABLES mode,       \* of the inode
          mode0,      \* history: what it was at first
          rights,     \* of the user: "owner" of the file, "read" permission for it
          arg,        \* argv[1]: three digits, or whom, symbol and perm
          chpc, st    \* where the program is, and st.mode

chmodVars == <<mode, mode0, rights, arg, chpc, st>>

Octals == [digits : (0 .. 7) \X (0 .. 7) \X (0 .. 7)]
Symbolic == [whom : {"u", "g", "o", "a"}, symbol : {"+", "-"}, perm : {"r", "w", "x"}]

\* Neither "+" nor "-" is in the argument.
IsOctal(a) == "digits" \in DOMAIN a

ChmodInit == /\ mode \in FileModes /\ mode0 = mode /\ rights \in SUBSET {"owner", "read"}
             /\ (arg \in Octals \/ arg \in Symbolic) /\ chpc = "main" /\ st = 0

\* atoi() reads the digits as a decimal number.
Decimal(d) == 100 * d[1] + 10 * d[2] + d[3]

\* pow(8, y)
pow8[y \in Nat] == IF y = 0 THEN 1 ELSE (IF y % 2 = 0 THEN 1 ELSE 8) * pow8[y \div 2] * pow8[y \div 2]

octtodec(oct) ==
    LET sum[n \in Nat, i \in Nat] == IF n = 0 THEN 0 ELSE (n % 10) * pow8[i] + sum[n \div 10, i + 1]
    IN  sum[oct, 0]

ADD == [u |-> [r |-> 256, w |-> 128, x |-> 64], g |-> [r |-> 32, w |-> 16, x |-> 8],
        o |-> [r |-> 4, w |-> 2, x |-> 1], a |-> [r |-> 292, w |-> 146, x |-> 73]]
REM == [u |-> [r |-> 255, w |-> 383, x |-> 447], g |-> [r |-> 479, w |-> 495, x |-> 503],
        o |-> [r |-> 507, w |-> 509, x |-> 510], a |-> [r |-> 219, w |-> 365, x |-> 438]]

\* Mutant: the bits are taken away by the complement of one mask only.
Masked_User(m, a) == IF a.symbol = "+" THEN m | ADD[a.whom][a.perm] ELSE m & REM["u"][a.perm]

Masked(m, a) == IF a.symbol = "+" THEN m | ADD[a.whom][a.perm] ELSE m & REM[a.whom][a.perm]

\* The system call: only the owner changes the mode.
chmod(m) == mode' = IF "owner" \in rights THEN m ELSE mode

octal == /\ chpc = "main" /\ IsOctal(arg)
         /\ chmod(octtodec(Decimal(arg.digits)))
         /\ chpc' = "done" /\ UNCHANGED <<mode0, rights, arg, st>>

\* open() of the file for reading, and fstat().
fstat == /\ chpc = "main" /\ ~IsOctal(arg)
         /\ IF "read" \in rights THEN chpc' = "chmod" /\ st' = mode ELSE chpc' = "done" /\ st' = st
         /\ UNCHANGED <<mode, mode0, rights, arg>>

symbolic == /\ chpc = "chmod" /\ chmod(Masked(st, arg))
            /\ chpc' = "done" /\ UNCHANGED <<mode0, rights, arg, st>>

ChmodNext == octal \/ fstat \/ symbolic

\* The permission bits of a mode, as pairs of a class and a permission.
Bits(m) == {b \in {"u", "g", "o"} \X {"r", "w", "x"} :
              LET weight == (CASE b[1] = "u" -> 64 [] b[1] = "g" -> 8 [] b[1] = "o" -> 1)
                              * (CASE b[2] = "r" -> 4 [] b[2] = "w" -> 2 [] b[2] = "x" -> 1)
              IN  (m \div weight) % 2 = 1}
Named(a) == (IF a.whom = "a" THEN {"u", "g", "o"} ELSE {a.whom}) \X {a.perm}

\* chmod sets the permissions that its argument says, and no other: three octal digits are
\* the three classes, and a symbolic mode changes the bits it names and keeps the rest.  A
\* user who may not change, or for a symbolic mode read, the file changes nothing.
ModeRight ==
    chpc = "done" =>
        IF "owner" \notin rights \/ (~IsOctal(arg) /\ "read" \notin rights) THEN mode = mode0
        ELSE IF IsOctal(arg) THEN mode = 64 * arg.digits[1] + 8 * arg.digits[2] + arg.digits[3]
        ELSE Bits(mode) = IF arg.symbol = "+" THEN Bits(mode0) \cup Named(arg) ELSE Bits(mode0) \ Named(arg)
=============================================================================
