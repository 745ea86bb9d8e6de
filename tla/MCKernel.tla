------------------------------ MODULE MCKernel -------------------------------
(***************************************************************************)
(* Small instances of the kernel's components that share no state, checked  *)
(* in one run: each behaviour is a behaviour of one of them, while the      *)
(* others rest in their initial states.                                     *)
(***************************************************************************)
EXTENDS Memory, Console, BlockMap, Spinlock, Kbd, TLC

VARIABLE part
allVars == <<part, memVars, conVars, blockVars, spinVars, kbdVars>>

\* Readers of the console and writers of files are interchangeable.
Symmetry == Permutations(Reader) \cup Permutations(WProc)

MCGrows == {1, 3, -2, -4}
\* Shift, control on both sides, Caps Lock and a letter.
MCKey == {<<42, FALSE>>, <<29, FALSE>>, <<29, TRUE>>, <<CAPS, FALSE>>, <<LETTER, FALSE>>}

\* A machine on which no process has memory.
NoMemory == /\ free = Page /\ pgdir = [p \in MProc |-> NoDir] /\ psz = [p \in MProc |-> 0]
            /\ kstack = psz /\ pstate = [p \in MProc |-> "unused"] /\ job = [p \in MProc |-> NoJob]

Init == /\ part \in {"memory", "console", "blocks", "locks", "keyboard"}
        /\ IF part = "memory" THEN MemInit ELSE NoMemory
        /\ ConInit /\ BlockInit /\ SpinInit /\ KbdInit

\* Everything but what is named rests.
Memory_ == part = "memory" /\ MemNext /\ UNCHANGED <<part, conVars, blockVars, spinVars, kbdVars>>
Console_ == part = "console" /\ ConNext /\ UNCHANGED <<part, memVars, blockVars, spinVars, kbdVars>>
Blocks_ == part = "blocks" /\ BlockNext /\ UNCHANGED <<part, memVars, conVars, spinVars, kbdVars>>
Locks_ == part = "locks" /\ SpinNext /\ UNCHANGED <<part, memVars, conVars, blockVars, kbdVars>>
Keyboard_ == part = "keyboard" /\ KbdNext /\ UNCHANGED <<part, memVars, conVars, blockVars, spinVars>>

Next == Memory_ \/ Console_ \/ Blocks_ \/ Locks_ \/ Keyboard_

Spec == Init /\ [][Next]_allVars
=============================================================================
