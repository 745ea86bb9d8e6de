--------------------------------- MODULE Kbd ---------------------------------
(***************************************************************************)
(* The keyboard (kernel/kbd.c): kbdgetc() turns scan codes into characters  *)
(* and keeps, in `shift', the modifier keys.  A key sends its code when     *)
(* pressed and code + 128 when released; some keys send 0xE0 before each.   *)
(***************************************************************************)
EXTENDS Integers, Sequences

CONSTANTS Key,      \* keys that are used: pairs of a code and whether 0xE0 precedes it
          MAXSCAN   \* bound: codes that wait in the controller

VARIABLES held,     \* keys that are down
          scan,     \* codes that kbdgetc() has not read
          shift,    \* set of flags
          caps,     \* history: CAPS LOCK was pressed an odd number of times
          char      \* what kbdgetc() returned last

kbdVars == <<held, scan, shift, caps, char>>

E0 == 224
CAPS == 58
LETTER == 30    \* the key of the letter a
shiftcode(data) == CASE data \in {29, 157} -> {"CTL"} [] data \in {42, 54} -> {"SHIFT"}
                     [] data \in {56, 184} -> {"ALT"} [] OTHER -> {}
togglecode(data) == IF data = CAPS THEN {"CAPSLOCK"} ELSE {}

KbdInit == held = {} /\ scan = <<>> /\ shift = {} /\ caps = FALSE /\ char = "none"

Codes(k, up) == (IF k[2] THEN <<E0>> ELSE <<>>) \o <<IF up THEN k[1] + 128 ELSE k[1]>>

\* The user (external): a key goes down or up.
press(k) ==
    /\ k \notin held /\ Len(scan) < MAXSCAN
    /\ held' = held \cup {k} /\ scan' = scan \o Codes(k, FALSE)
    /\ caps' = IF k[1] = CAPS THEN ~caps ELSE caps
    /\ UNCHANGED <<shift, char>>

unpress(k) ==
    /\ k \in held /\ Len(scan) < MAXSCAN
    /\ held' = held \ {k} /\ scan' = scan \o Codes(k, TRUE)
    /\ UNCHANGED <<shift, caps, char>>

\* The character of a code: the maps agree on everything but letters and control keys.
charcode(data, s) ==
    IF data # LETTER THEN "none"
    ELSE IF "CTL" \in s THEN "^A"
    ELSE IF ("SHIFT" \in s) # ("CAPSLOCK" \in s) THEN "A" ELSE "a"

\* A code that is not 0xE0 uses the escape up.
\* Mutant: the escape stays in force.
Unescaped_Not(s) == s

Unescaped(s) == s \ {"E0ESC"}

kbdgetc ==
    LET data == Head(scan)
        esc == "E0ESC" \in shift
        code == IF esc THEN data + 128 ELSE data
        on == Unescaped(shift) \cup shiftcode(code)
        s == (on \cup togglecode(code)) \ (on \cap togglecode(code))
    IN  /\ scan # <<>> /\ scan' = Tail(scan)
        /\ shift' = IF data = E0 THEN shift \cup {"E0ESC"}
                    ELSE IF data >= 128 THEN shift \ (shiftcode(IF esc THEN data ELSE data - 128) \cup {"E0ESC"})
                    ELSE s
        /\ char' = IF data >= 128 THEN char ELSE charcode(code, s)
        /\ UNCHANGED <<held, caps>>

KbdNext == kbdgetc \/ \E k \in Key : press(k) \/ unpress(k)

\* No modifier sticks: when everything has been read and no key is down, no modifier is on,
\* and CAPS LOCK is on if it was pressed an odd number of times, with and without 0xE0.
NoStuckKey == scan = <<>> /\ held = {} => shift = IF caps THEN {"CAPSLOCK"} ELSE {}
=============================================================================
