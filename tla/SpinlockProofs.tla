---------------------------- MODULE SpinlockProofs ----------------------------
(***************************************************************************)
(* Spin locks are safe for every number of CPUs and of locks, and whatever  *)
(* locks the interrupt handlers take (kernel/spinlock.c).                   *)
(***************************************************************************)
EXTENDS Spinlock, FiniteSets, FiniteSetTheorems, TLAPS

Lock == 1 .. Locks

\* The steps between pushcli() and popcli() of one acquire() or release().
InCall == {"xchg", "own", "clear", "popcli"}

CodeType == [at : {"run", "cli", "xchg", "own", "clear", "popcli"}, lk : 0 .. Locks,
             eflags : {0, 1}, has : SUBSET Lock]

SpinTypeOK ==
    /\ FL_IF \in [Cpu -> {0, 1}] /\ ncli \in [Cpu -> Int] /\ intena \in [Cpu -> {0, 1}]
    /\ locked \in [Lock -> {0, 1}] /\ owner \in [Lock -> Nat]
    /\ depth \in [Cpu -> 1 .. 2] /\ frame \in [Cpu -> [1 .. 2 -> CodeType]]

\* What ncli counts: the locks that the code on top has, and the call it is in.
Count(f) == Cardinality(f.has) + IF f.at \in InCall THEN 1 ELSE 0

\* Interrupts: the counter is exact, interrupts are enabled exactly when it is 0 outside
\* handlers, and what popcli() will restore is what the outermost pushcli() has found.
CpuInv(c) ==
    /\ ncli[c] = Count(Top(c))
    /\ FL_IF[c] = 1 <=> depth[c] = 1 /\ ncli[c] = 0
    /\ ncli[c] # 0 => (intena[c] = 1 <=> depth[c] = 1)
    /\ depth[c] = 2 => frame[c][1].has = {} /\ frame[c][1].at \in {"run", "cli"}
    /\ depth[c] = 1 => frame[c][2] = Code
    /\ \A i \in 1 .. 2 : frame[c][i].at = "cli" /\ (i # depth[c] \/ ncli[c] = 0)
                            => (frame[c][i].eflags = 1 <=> i = 1)

\* A call has a lock to work on, above those that the code has when it acquires it.
CallInv(f) ==
    /\ f.at \in {"cli", "xchg", "own", "clear"} => f.lk \in Lock /\ f.lk \notin f.has
    /\ f.at \in {"run", "popcli"} => f.lk = 0
    /\ f.at # "cli" => f.eflags = 0

\* The locks: set while someone has them, recorded as this CPU's while it holds them.
LockInv ==
    /\ \A l \in Lock : \A c, d \in Cpu : \A i, j \in 1 .. 2 :
          Has(c, i, l) /\ Has(d, j, l) => c = d /\ i = j
    /\ \A c \in Cpu : \A i \in 1 .. 2 : \A l \in Lock : Has(c, i, l) => locked[l] = 1
    /\ \A c \in Cpu : \A i \in 1 .. 2 : \A l \in frame[c][i].has : owner[l] = c

SpinInv == SpinTypeOK /\ (\A c \in Cpu : CpuInv(c) /\ \A i \in 1 .. 2 : CallInv(frame[c][i])) /\ LockInv

-----------------------------------------------------------------------------
(* Lemmas.                                                                  *)

\* A step of the code on top of CPU c changes its record and no other.
LEMMA GoesChanges ==
    ASSUME SpinTypeOK, NEW c \in Cpu, NEW f \in CodeType, Goes(c, f)
    PROVE  /\ depth' = depth
           /\ frame' \in [Cpu -> [1 .. 2 -> CodeType]]
           /\ Top(c)' = f /\ frame'[c][depth[c]] = f
           /\ \A d \in Cpu, i \in 1 .. 2 :
                 d # c \/ i # depth[c] => frame'[d][i] = frame[d][i]
BY Zenon DEF SpinTypeOK, Goes, Top

\* The number of locks that the code has goes up by one with own() and down with release().
LEMMA HasCounts ==
    ASSUME NEW S \in SUBSET Lock, NEW l \in Lock
    PROVE  /\ l \notin S => Cardinality(S \cup {l}) = Cardinality(S) + 1
           /\ l \in S => Cardinality(S \ {l}) = Cardinality(S) - 1
<1>1. IsFiniteSet(Lock) BY SpinConstants, FS_Interval DEF Lock
<1>2. IsFiniteSet(S) BY <1>1, FS_Subset, Zenon
<1>3. l \notin S => Cardinality(S \cup {l}) = Cardinality(S) + 1
  BY <1>2, FS_AddElement, Zenon
<1>4. l \in S => Cardinality(S \ {l}) = Cardinality(S) - 1
  BY <1>2, FS_RemoveElement, Zenon
<1>5. QED BY <1>3, <1>4, Zenon

LEMMA HasFinite ==
    ASSUME NEW S \in SUBSET Lock
    PROVE  Cardinality(S) \in Nat /\ (S = {} <=> Cardinality(S) = 0)
<1>1. IsFiniteSet(Lock) BY SpinConstants, FS_Interval DEF Lock
<1>2. IsFiniteSet(S) BY <1>1, FS_Subset, Zenon
<1>3. Cardinality(S) \in Nat BY <1>2, FS_CardinalityType, Zenon
<1>4. S = {} <=> Cardinality(S) = 0 BY <1>2, FS_EmptySet, Zenon
<1>5. QED BY <1>3, <1>4, Zenon

-----------------------------------------------------------------------------
LEMMA InitInv == SpinInit => SpinInv
<1> SUFFICES ASSUME SpinInit PROVE SpinInv
  BY Zenon
<1> USE DEF SpinInit
<1>1. Code \in CodeType BY SpinConstants DEF Code, CodeType, Lock
<1>2. SpinTypeOK BY <1>1 DEF SpinTypeOK, Lock, NoCpu
<1>3. ASSUME NEW c \in Cpu PROVE CpuInv(c)
  <2>1. frame[c][1] = Code /\ frame[c][2] = Code /\ Top(c) = Code BY DEF Top
  <2>2. Code.has = {} /\ Code.at = "run" BY Zenon DEF Code
  <2>3. Cardinality({}) = 0 BY FS_EmptySet, Zenon
  <2>4. Count(Code) = 0 BY <2>2, <2>3 DEF Count, InCall
  <2>5. QED BY <2>1, <2>2, <2>4, Zenon DEF CpuInv
<1>4. ASSUME NEW c \in Cpu, NEW i \in 1 .. 2 PROVE CallInv(frame[c][i])
  BY Zenon DEF CallInv, Code
<1>5. LockInv BY DEF LockInv, Has, Code
<1>6. QED BY <1>2, <1>3, <1>4, <1>5, Zenon DEF SpinInv

-----------------------------------------------------------------------------
(* The steps.                                                               *)

\* What a step of the code on top of CPU c owes the invariant: everything about the other
\* CPUs, and about what the code on c has interrupted, is as before.
LEMMA StepInv ==
    ASSUME SpinInv, NEW c \in Cpu, NEW f \in CodeType, Goes(c, f), CallInv(f),
           NEW F \in {0, 1}, FL_IF' = [FL_IF EXCEPT ![c] = F],
           NEW n \in Int, ncli' = [ncli EXCEPT ![c] = n],
           NEW e \in {0, 1}, intena' = [intena EXCEPT ![c] = e],
           n = Count(f), F = 1 <=> depth[c] = 1 /\ n = 0, n # 0 => (e = 1 <=> depth[c] = 1),
           f.at = "cli" /\ n = 0 => (f.eflags = 1 <=> depth[c] = 1),
           locked' \in [Lock -> {0, 1}], owner' \in [Lock -> Nat], LockInv'
    PROVE  SpinInv'
<1>1. /\ depth' = depth
      /\ frame' \in [Cpu -> [1 .. 2 -> CodeType]]
      /\ Top(c)' = f /\ frame'[c][depth[c]] = f
      /\ \A d \in Cpu, i \in 1 .. 2 : d # c \/ i # depth[c] => frame'[d][i] = frame[d][i]
  BY GoesChanges, Zenon DEF SpinInv
<1>2. SpinTypeOK' BY <1>1, Zenon DEF SpinInv, SpinTypeOK
<1>3. ASSUME NEW d \in Cpu PROVE CpuInv(d)'
  <2>1. CpuInv(d) /\ depth[d] \in 1 .. 2 BY Zenon DEF SpinInv, SpinTypeOK
  <2>2. CASE d # c
    <3>1. /\ ncli'[d] = ncli[d] /\ FL_IF'[d] = FL_IF[d] /\ intena'[d] = intena[d]
          /\ \A i \in 1 .. 2 : frame'[d][i] = frame[d][i]
      BY <2>2, <1>1, Zenon DEF SpinInv, SpinTypeOK
    <3>2. QED BY <2>1, <3>1, <1>1 DEF CpuInv, Top
  <2>3. CASE d = c
    <3>1. ncli'[c] = n /\ FL_IF'[c] = F /\ intena'[c] = e BY Zenon DEF SpinInv, SpinTypeOK
    <3>2. QED BY <2>1, <2>3, <3>1, <1>1 DEF CpuInv
  <2>4. QED BY <2>2, <2>3, Zenon
<1>4. ASSUME NEW d \in Cpu, NEW i \in 1 .. 2 PROVE CallInv(frame'[d][i])
  <2>1. CallInv(frame[d][i]) BY Zenon DEF SpinInv
  <2>2. QED BY <2>1, <1>1, Zenon
<1>5. QED BY <1>2, <1>3, <1>4, Zenon DEF SpinInv

\* A step that takes no lock and changes no owner preserves the locks' part.
LEMMA LocksKept ==
    ASSUME SpinInv, NEW c \in Cpu, NEW f \in CodeType, Goes(c, f), UNCHANGED <<locked, owner>>,
           f.has = Top(c).has, f.at \notin {"own", "clear"}
    PROVE  LockInv' /\ locked' \in [Lock -> {0, 1}] /\ owner' \in [Lock -> Nat]
<1>1. /\ frame'[c][depth[c]] = f
      /\ \A d \in Cpu, i \in 1 .. 2 : d # c \/ i # depth[c] => frame'[d][i] = frame[d][i]
  BY GoesChanges, Zenon DEF SpinInv
<1>2. \A d \in Cpu, i \in 1 .. 2, m \in Lock : Has(d, i, m)' => Has(d, i, m)
  BY <1>1, Zenon DEF Has, Top
<1>3. \A d \in Cpu, i \in 1 .. 2 : frame'[d][i].has = frame[d][i].has
  BY <1>1, Zenon DEF Top
<1>4. LockInv' BY <1>2, <1>3 DEF SpinInv, LockInv
<1>5. QED BY <1>4, Zenon DEF SpinInv, SpinTypeOK

\* What the invariant says of the code on top, and that a value put in place is a change.
LEMMA TopInv ==
    ASSUME SpinInv, NEW c \in Cpu
    PROVE  /\ Top(c) \in CodeType /\ depth[c] \in 1 .. 2 /\ Top(c) = frame[c][depth[c]]
           /\ CallInv(Top(c)) /\ ncli[c] = Count(Top(c))
           /\ FL_IF[c] = 1 <=> depth[c] = 1 /\ ncli[c] = 0
           /\ ncli[c] # 0 => (intena[c] = 1 <=> depth[c] = 1)
           /\ Top(c).at = "cli" /\ ncli[c] = 0 => (Top(c).eflags = 1 <=> depth[c] = 1)
           /\ FL_IF[c] \in {0, 1} /\ intena[c] \in {0, 1} /\ ncli[c] \in Int
           /\ FL_IF = [FL_IF EXCEPT ![c] = FL_IF[c]] /\ ncli = [ncli EXCEPT ![c] = ncli[c]]
           /\ intena = [intena EXCEPT ![c] = intena[c]]
<1>1. Top(c) \in CodeType /\ depth[c] \in 1 .. 2 /\ Top(c) = frame[c][depth[c]]
  BY Zenon DEF SpinInv, SpinTypeOK, Top
<1>2. CpuInv(c) /\ CallInv(Top(c)) BY <1>1, Zenon DEF SpinInv
<1>3. QED BY <1>1, <1>2 DEF SpinInv, SpinTypeOK, CpuInv

-----------------------------------------------------------------------------
(* acquire() and pushcli().                                                 *)

LEMMA ReadeflagsInv ==
    ASSUME SpinInv, NEW c \in Cpu, readeflags(c)
    PROVE  SpinInv'
<1> DEFINE t == Top(c)
<1>1. t.at = "run" /\ UNCHANGED <<FL_IF, ncli, intena, locked, owner>>
  BY Zenon DEF readeflags
<1>2. PICK l \in Lock : /\ \A h \in t.has : h < l
                        /\ Goes(c, [t EXCEPT !.at = "cli", !.lk = l, !.eflags = FL_IF[c]])
  BY SpinConstants, Zenon DEF readeflags, Lock
<1> DEFINE f == [t EXCEPT !.at = "cli", !.lk = l, !.eflags = FL_IF[c]]
<1>3. l \in 0 .. Locks /\ FL_IF[c] \in {0, 1} /\ t \in CodeType BY TopInv DEF Lock
<1>4. f \in CodeType /\ f.at = "cli" /\ f.lk = l /\ f.eflags = FL_IF[c] /\ f.has = t.has
  BY <1>3, Zenon DEF CodeType
<1>5. Goes(c, f) BY <1>2, Zenon
<1> HIDE DEF f
<1>6. Count(f) = Count(t) BY <1>1, <1>4, Zenon DEF Count, InCall
<1>7. CallInv(f)
  <2>1. l \notin t.has BY <1>2 DEF Lock
  <2>2. QED BY <2>1, <1>4, Zenon DEF CallInv
<1>8. LockInv' /\ locked' \in [Lock -> {0, 1}] /\ owner' \in [Lock -> Nat]
  BY <1>1, <1>4, <1>5, LocksKept, Zenon
<1>9. QED BY <1>1, <1>4, <1>5, <1>6, <1>7, <1>8, TopInv, StepInv

LEMMA PushcliInv ==
    ASSUME SpinInv, NEW c \in Cpu, pushcli(c)
    PROVE  SpinInv'
<1> DEFINE t == Top(c)
           f == [t EXCEPT !.at = "xchg", !.eflags = 0]
           e == IF ncli[c] = 0 THEN t.eflags ELSE intena[c]
           n == ncli[c] + 1
           F == 0
<1>1. /\ t.at = "cli" /\ Goes(c, f) /\ UNCHANGED <<locked, owner>>
      /\ FL_IF' = [FL_IF EXCEPT ![c] = F] /\ intena' = [intena EXCEPT ![c] = e]
      /\ ncli' = [ncli EXCEPT ![c] = n]
  BY Zenon DEF pushcli
<1>2. t \in CodeType /\ CallInv(t) BY TopInv, Zenon
<1>3. /\ f \in CodeType /\ f.at = "xchg" /\ f.lk = t.lk /\ f.eflags = 0 /\ f.has = t.has
      /\ t.eflags \in {0, 1}
  BY <1>2, Zenon DEF CodeType
<1> HIDE DEF f, t
<1>4. Count(t) \in Nat /\ Count(f) = Count(t) + 1
  <2>1. Cardinality(t.has) \in Nat /\ t.has \in SUBSET Lock
    BY <1>2, HasFinite, Zenon DEF CodeType
  <2>2. QED BY <2>1, <1>1, <1>3 DEF Count, InCall
<1>5. CallInv(f) BY <1>1, <1>2, <1>3, Zenon DEF CallInv
<1>6. LockInv' /\ locked' \in [Lock -> {0, 1}] /\ owner' \in [Lock -> Nat]
  BY <1>1, <1>3, LocksKept, Zenon DEF t
<1>7. /\ e \in {0, 1} /\ ncli[c] = Count(t) /\ (e = 1 <=> depth[c] = 1)
  BY <1>1, <1>3, TopInv, Zenon DEF t
<1>8. /\ n \in Int /\ n = Count(f) /\ n # 0
      /\ F \in {0, 1} /\ (F = 1 <=> depth[c] = 1 /\ n = 0)
  BY <1>4, <1>7
<1> HIDE DEF e, n, F
<1>9. QED BY <1>1, <1>3, <1>5, <1>6, <1>7, <1>8, StepInv, Zenon

-----------------------------------------------------------------------------
(* The lock changes hands.                                                  *)

LEMMA XchgInv ==
    ASSUME SpinInv, NEW c \in Cpu, xchg(c)
    PROVE  SpinInv'
<1> DEFINE t == Top(c)
           f == [t EXCEPT !.at = "own"]
<1>1. /\ t.at = "xchg" /\ Goes(c, f) /\ UNCHANGED <<FL_IF, ncli, intena, owner>>
      /\ locked[t.lk] = 0 /\ locked' = [locked EXCEPT ![t.lk] = 1]
  BY Zenon DEF xchg
<1>2. t \in CodeType /\ CallInv(t) /\ t = frame[c][depth[c]] /\ depth[c] \in 1 .. 2
  BY TopInv, Zenon
<1>3. f \in CodeType /\ f.at = "own" /\ f.lk = t.lk /\ f.eflags = t.eflags /\ f.has = t.has
  BY <1>2, Zenon DEF CodeType
<1> HIDE DEF f, t
<1>4. Count(f) = Count(t) BY <1>1, <1>3, Zenon DEF Count, InCall
<1>5. CallInv(f) BY <1>1, <1>2, <1>3, Zenon DEF CallInv
<1>6. LockInv' /\ locked' \in [Lock -> {0, 1}] /\ owner' \in [Lock -> Nat]
  <2>1. /\ frame'[c][depth[c]] = f
        /\ \A d \in Cpu, i \in 1 .. 2 : d # c \/ i # depth[c] => frame'[d][i] = frame[d][i]
    BY <1>1, <1>3, GoesChanges, Zenon DEF SpinInv
  <2>2. t.lk \in Lock BY <1>1, <1>2, Zenon DEF CallInv
  <2>3. /\ locked' \in [Lock -> {0, 1}] /\ owner' \in [Lock -> Nat]
        /\ locked'[t.lk] = 1 /\ \A m \in Lock : m # t.lk => locked'[m] = locked[m]
    BY <1>1, <2>2, Zenon DEF SpinInv, SpinTypeOK
  <2>4. \A d \in Cpu, i \in 1 .. 2, m \in Lock :
           Has(d, i, m)' => Has(d, i, m) \/ (m = t.lk /\ d = c /\ i = depth[c])
    BY <2>1, <1>2, <1>3, Zenon DEF Has
  <2>5. \A d \in Cpu, i \in 1 .. 2 : ~Has(d, i, t.lk)
    BY <1>1, <2>2 DEF SpinInv, LockInv
  <2>6. \A d \in Cpu, i \in 1 .. 2 : frame'[d][i].has = frame[d][i].has
    BY <2>1, <1>2, <1>3, Zenon
  <2>7. LockInv' BY <2>2, <2>3, <2>4, <2>5, <2>6, <1>1 DEF SpinInv, LockInv
  <2>8. QED BY <2>3, <2>7, Zenon
<1>7. QED BY <1>1, <1>3, <1>4, <1>5, <1>6, TopInv, StepInv DEF t

LEMMA OwnInv ==
    ASSUME SpinInv, NEW c \in Cpu, own(c)
    PROVE  SpinInv'
<1> DEFINE t == Top(c)
           f == [t EXCEPT !.at = "run", !.lk = 0, !.has = @ \cup {t.lk}]
<1>1. /\ t.at = "own" /\ Goes(c, f) /\ UNCHANGED <<FL_IF, ncli, intena, locked>>
      /\ owner' = [owner EXCEPT ![t.lk] = c]
  BY Zenon DEF own
<1>2. t \in CodeType /\ CallInv(t) /\ t = frame[c][depth[c]] /\ depth[c] \in 1 .. 2
  BY TopInv, Zenon
<1>3. t.lk \in Lock /\ t.lk \notin t.has /\ t.has \in SUBSET Lock
  BY <1>1, <1>2, Zenon DEF CallInv, CodeType
<1>4. /\ f \in CodeType /\ f.at = "run" /\ f.lk = 0 /\ f.eflags = t.eflags
      /\ f.has = t.has \cup {t.lk}
  <2>1. 0 \in 0 .. Locks /\ t.has \cup {t.lk} \in SUBSET Lock BY <1>3, SpinConstants
  <2>2. QED BY <1>2, <2>1, Zenon DEF CodeType
<1> HIDE DEF f, t
<1>5. Count(f) = Count(t)
  <2>1. /\ Cardinality(t.has) \in Nat
        /\ Cardinality(t.has \cup {t.lk}) = Cardinality(t.has) + 1
    BY <1>3, HasCounts, HasFinite, Zenon
  <2>2. QED BY <2>1, <1>1, <1>4 DEF Count, InCall
<1>6. CallInv(f) BY <1>1, <1>2, <1>4, Zenon DEF CallInv
<1>7. LockInv' /\ locked' \in [Lock -> {0, 1}] /\ owner' \in [Lock -> Nat]
  <2>1. /\ frame'[c][depth[c]] = f
        /\ \A d \in Cpu, i \in 1 .. 2 : d # c \/ i # depth[c] => frame'[d][i] = frame[d][i]
    BY <1>1, <1>4, GoesChanges, Zenon DEF SpinInv
  <2>2. /\ locked' \in [Lock -> {0, 1}] /\ owner' \in [Lock -> Nat]
        /\ owner'[t.lk] = c /\ \A m \in Lock : m # t.lk => owner'[m] = owner[m]
    BY <1>1, <1>3, SpinConstants, Zenon DEF SpinInv, SpinTypeOK
  <2>3. \A d \in Cpu, i \in 1 .. 2, m \in Lock : Has(d, i, m)' => Has(d, i, m)
    BY <2>1, <1>1, <1>2, <1>4 DEF Has
  <2>4. Has(c, depth[c], t.lk) BY <1>1, <1>2, Zenon DEF Has
  <2>5. \A d \in Cpu, i \in 1 .. 2 : t.lk \in frame[d][i].has => Has(d, i, t.lk)
    BY Zenon DEF Has
  <2>6. ASSUME NEW d \in Cpu, NEW i \in 1 .. 2, NEW m \in frame'[d][i].has
        PROVE  owner'[m] = d
    <3>1. CASE d = c /\ i = depth[c]
      <4>1. m = t.lk \/ (m \in t.has /\ m \in Lock /\ m # t.lk)
        BY <3>1, <2>1, <1>3, <1>4, Zenon
      <4>2. m \in t.has => owner[m] = c BY <1>2, Zenon DEF SpinInv, LockInv
      <4>3. QED BY <3>1, <4>1, <4>2, <2>2, Zenon
    <3>2. CASE ~(d = c /\ i = depth[c])
      <4>1. m \in frame[d][i].has /\ m \in Lock
        BY <3>2, <2>1 DEF SpinInv, SpinTypeOK, CodeType
      <4>2. m # t.lk
        BY <3>2, <4>1, <2>4, <2>5, <1>2, <1>3 DEF SpinInv, LockInv
      <4>3. QED BY <4>1, <4>2, <2>2, Zenon DEF SpinInv, LockInv
    <3>3. QED BY <3>1, <3>2, Zenon
  <2>7. LockInv' BY <2>3, <2>6, <1>1 DEF SpinInv, LockInv
  <2>8. QED BY <2>2, <2>7, Zenon
<1>8. QED BY <1>1, <1>4, <1>5, <1>6, <1>7, TopInv, StepInv DEF t

-----------------------------------------------------------------------------
(* release() and popcli().                                                  *)

LEMMA ReleaseInv ==
    ASSUME SpinInv, NEW c \in Cpu, release(c)
    PROVE  SpinInv'
<1> DEFINE t == Top(c)
<1>1. t.at = "run" /\ UNCHANGED <<FL_IF, ncli, intena, locked>> BY Zenon DEF release
<1>2. PICK l \in t.has : /\ owner' = [owner EXCEPT ![l] = NoCpu]
                         /\ Goes(c, [t EXCEPT !.at = "clear", !.lk = l, !.has = @ \ {l}])
  BY Zenon DEF release
<1> DEFINE f == [t EXCEPT !.at = "clear", !.lk = l, !.has = @ \ {l}]
<1>3. /\ t \in CodeType /\ CallInv(t) /\ t = frame[c][depth[c]] /\ depth[c] \in 1 .. 2
      /\ Goes(c, f)
  BY <1>2, TopInv, Zenon
<1>4. l \in Lock /\ l \in 0 .. Locks /\ t.has \in SUBSET Lock /\ t.has \ {l} \in SUBSET Lock
  BY <1>3 DEF CodeType, Lock
<1>5. /\ f \in CodeType /\ f.at = "clear" /\ f.lk = l /\ f.eflags = t.eflags
      /\ f.has = t.has \ {l}
  BY <1>3, <1>4, Zenon DEF CodeType
<1> HIDE DEF f, t
<1>6. Count(f) = Count(t)
  <2>1. Cardinality(t.has) \in Nat /\ Cardinality(t.has \ {l}) = Cardinality(t.has) - 1
    BY <1>4, HasCounts, HasFinite, Zenon
  <2>2. QED BY <2>1, <1>1, <1>5 DEF Count, InCall
<1>7. CallInv(f) BY <1>1, <1>3, <1>4, <1>5, Zenon DEF CallInv
<1>8. LockInv' /\ locked' \in [Lock -> {0, 1}] /\ owner' \in [Lock -> Nat]
  <2>1. /\ frame'[c][depth[c]] = f
        /\ \A d \in Cpu, i \in 1 .. 2 : d # c \/ i # depth[c] => frame'[d][i] = frame[d][i]
    BY <1>3, <1>5, GoesChanges, Zenon DEF SpinInv
  <2>2. /\ locked' \in [Lock -> {0, 1}] /\ owner' \in [Lock -> Nat]
        /\ \A m \in Lock : m # l => owner'[m] = owner[m]
    BY <1>1, <1>2, <1>4, Zenon DEF SpinInv, SpinTypeOK, NoCpu
  <2>3. \A d \in Cpu, i \in 1 .. 2, m \in Lock : Has(d, i, m)' => Has(d, i, m)
    BY <2>1, <1>2, <1>3, <1>5 DEF Has
  <2>4. Has(c, depth[c], l) BY <1>2, <1>3, Zenon DEF Has
  <2>5. ASSUME NEW d \in Cpu, NEW i \in 1 .. 2, NEW m \in frame'[d][i].has
        PROVE  owner'[m] = d
    <3>1. m \in frame[d][i].has /\ m \in Lock
      BY <2>1, <1>3, <1>4, <1>5 DEF SpinInv, SpinTypeOK, CodeType
    <3>2. CASE d = c /\ i = depth[c] 
      <4>1. m # l BY <3>2, <2>1, <1>5, Zenon
      <4>2. QED BY <3>1, <4>1, <2>2, Zenon DEF SpinInv, LockInv
    <3>3. CASE ~(d = c /\ i = depth[c])
      <4>1. Has(d, i, m) BY <3>1, Zenon DEF Has
      <4>2. m # l BY <3>3, <4>1, <2>4, <1>3, <1>4 DEF SpinInv, LockInv
      <4>3. QED BY <3>1, <4>2, <2>2, Zenon DEF SpinInv, LockInv
    <3>4. QED BY <3>2, <3>3, Zenon
  <2>6. LockInv' BY <2>3, <2>5, <1>1 DEF SpinInv, LockInv
  <2>7. QED BY <2>2, <2>6, Zenon
<1>9. QED BY <1>1, <1>3, <1>5, <1>6, <1>7, <1>8, TopInv, StepInv DEF t

LEMMA ClearInv ==
    ASSUME SpinInv, NEW c \in Cpu, clear(c)
    PROVE  SpinInv'
<1> DEFINE t == Top(c)
           f == [t EXCEPT !.at = "popcli", !.lk = 0]
<1>1. /\ t.at = "clear" /\ Goes(c, f) /\ UNCHANGED <<FL_IF, ncli, intena, owner>>
      /\ locked' = [locked EXCEPT ![t.lk] = 0]
  BY Zenon DEF clear
<1>2. t \in CodeType /\ CallInv(t) /\ t = frame[c][depth[c]] /\ depth[c] \in 1 .. 2
  BY TopInv, Zenon
<1>3. f \in CodeType /\ f.at = "popcli" /\ f.lk = 0 /\ f.eflags = t.eflags /\ f.has = t.has
  <2>1. 0 \in 0 .. Locks BY SpinConstants
  <2>2. QED BY <1>2, <2>1, Zenon DEF CodeType
<1> HIDE DEF f, t
<1>4. Count(f) = Count(t) BY <1>1, <1>3, Zenon DEF Count, InCall
<1>5. CallInv(f) BY <1>1, <1>2, <1>3, Zenon DEF CallInv
<1>6. LockInv' /\ locked' \in [Lock -> {0, 1}] /\ owner' \in [Lock -> Nat]
  <2>1. /\ frame'[c][depth[c]] = f
        /\ \A d \in Cpu, i \in 1 .. 2 : d # c \/ i # depth[c] => frame'[d][i] = frame[d][i]
    BY <1>1, <1>3, GoesChanges, Zenon DEF SpinInv
  <2>2. t.lk \in Lock /\ t.lk \notin t.has BY <1>1, <1>2, Zenon DEF CallInv
  <2>3. /\ locked' \in [Lock -> {0, 1}] /\ owner' \in [Lock -> Nat]
        /\ \A m \in Lock : m # t.lk => locked'[m] = locked[m]
    BY <1>1, <2>2, Zenon DEF SpinInv, SpinTypeOK
  <2>4. \A d \in Cpu, i \in 1 .. 2, m \in Lock : Has(d, i, m)' => Has(d, i, m)
    BY <2>1, <1>2, <1>3 DEF Has
  <2>5. PICK l \in Lock, k \in 1 .. 2 : l = t.lk /\ k = depth[c] BY <2>2, <1>2, Zenon
  <2>6. Has(c, k, l) /\ ~(Has(c, k, l)')
    BY <2>1, <2>2, <2>5, <1>1, <1>2, <1>3, Zenon DEF Has
  <2>7. \A d \in Cpu, i \in 1 .. 2 : ~(Has(d, i, l)')
    BY <2>4, <2>6 DEF SpinInv, LockInv
  <2>8. \A d \in Cpu, i \in 1 .. 2 : frame'[d][i].has = frame[d][i].has
    BY <2>1, <1>2, <1>3, Zenon
  <2>9. LockInv' BY <2>3, <2>4, <2>5, <2>7, <2>8, <1>1 DEF SpinInv, LockInv
  <2>10. QED BY <2>3, <2>9, Zenon
<1>7. QED BY <1>1, <1>3, <1>4, <1>5, <1>6, TopInv, StepInv DEF t

LEMMA PopcliInv ==
    ASSUME SpinInv, NEW c \in Cpu, popcli(c)
    PROVE  SpinInv'
<1> DEFINE t == Top(c)
           f == [t EXCEPT !.at = "run"]
           n == ncli[c] - 1
           F == IF ncli[c] = 1 /\ intena[c] = 1 THEN 1 ELSE FL_IF[c]
           e == intena[c]
<1>0. t.at = "popcli" /\ UNCHANGED <<intena, locked, owner>> BY Zenon DEF popcli
<1>1. Goes(c, f) /\ ncli' = [ncli EXCEPT ![c] = n] /\ FL_IF' = [FL_IF EXCEPT ![c] = F]
  BY Zenon DEF popcli
<1>2. t \in CodeType /\ CallInv(t) /\ ncli[c] = Count(t) BY TopInv, Zenon
<1>3. /\ f \in CodeType /\ f.at = "run" /\ f.lk = t.lk /\ f.eflags = t.eflags /\ f.has = t.has
      /\ t.has \in SUBSET Lock
  BY <1>2, Zenon DEF CodeType
<1> HIDE DEF f, t
<1>4. Count(f) \in Nat /\ Count(t) = Count(f) + 1
  <2>1. Cardinality(t.has) \in Nat BY <1>3, HasFinite, Zenon
  <2>2. QED BY <2>1, <1>0, <1>3 DEF Count, InCall
<1>5. CallInv(f) BY <1>0, <1>2, <1>3, Zenon DEF CallInv
<1>6. LockInv' /\ locked' \in [Lock -> {0, 1}] /\ owner' \in [Lock -> Nat]
  BY <1>0, <1>1, <1>3, LocksKept, Zenon DEF t
<1>7. /\ n \in Int /\ n = Count(f) /\ F \in {0, 1} /\ (F = 1 <=> depth[c] = 1 /\ n = 0)
      /\ e \in {0, 1} /\ (n # 0 => (e = 1 <=> depth[c] = 1))
      /\ intena' = [intena EXCEPT ![c] = e]
  BY <1>0, <1>2, <1>4, TopInv
<1>8. f.at = "cli" /\ n = 0 => (f.eflags = 1 <=> depth[c] = 1) BY <1>3, Zenon
<1> HIDE DEF n, F, e
<1>9. QED BY <1>1, <1>3, <1>5, <1>6, <1>7, <1>8, StepInv, Zenon

-----------------------------------------------------------------------------
(* Interrupts.                                                              *)

\* Code that has no lock and is in no call counts nothing.
LEMMA CountZero ==
    ASSUME NEW f \in CodeType
    PROVE  Count(f) = 0 <=> f.has = {} /\ f.at \in {"run", "cli"}
<1>1. f.has \in SUBSET Lock /\ f.at \in {"run", "cli", "xchg", "own", "clear", "popcli"}
  BY Zenon DEF CodeType
<1>2. Cardinality(f.has) \in Nat /\ (f.has = {} <=> Cardinality(f.has) = 0)
  BY <1>1, HasFinite, Zenon
<1>3. QED BY <1>1, <1>2 DEF Count, InCall

\* Neither the interrupt nor iret touches what the codes have.
LEMMA SameFrames ==
    ASSUME SpinInv, UNCHANGED <<frame, locked, owner>>
    PROVE  LockInv' /\ \A c \in Cpu : \A i \in 1 .. 2 : CallInv(frame'[c][i])
<1>1. \A d \in Cpu, i \in 1 .. 2, m \in Lock : Has(d, i, m)' <=> Has(d, i, m) BY Zenon DEF Has
<1>2. LockInv' BY <1>1 DEF SpinInv, LockInv
<1>3. QED BY <1>2, Zenon DEF SpinInv

LEMMA InterruptInv ==
    ASSUME SpinInv, NEW c \in Cpu, interrupt(c) \/ iret(c)
    PROVE  SpinInv'
<1>1. UNCHANGED <<frame, ncli, intena, locked, owner>> BY Zenon DEF interrupt, iret
<1>2. SpinTypeOK' BY <1>1 DEF SpinInv, SpinTypeOK, interrupt, iret
<1>3. ASSUME NEW d \in Cpu PROVE CpuInv(d)'
  <2>1. /\ CpuInv(d) /\ depth[d] \in 1 .. 2 /\ ncli[d] = Count(Top(d))
        /\ frame[d][1] \in CodeType /\ frame[d][2] \in CodeType
    BY DEF SpinInv, SpinTypeOK, CpuInv
  <2>2. CASE d # c
    <3>1. depth'[d] = depth[d] /\ FL_IF'[d] = FL_IF[d]
      BY <2>2, Zenon DEF SpinInv, SpinTypeOK, interrupt, iret
    <3>2. QED BY <2>1, <3>1, <1>1, Zenon DEF CpuInv, Top
  <2>3. Count(Code) = 0 BY FS_EmptySet DEF Code, Count, InCall
  <2>4. CASE d = c /\ interrupt(c)
    <3>1. /\ depth[c] = 1 /\ depth'[c] = 2 /\ FL_IF[c] = 1 /\ FL_IF'[c] = 0
      BY <2>1, <2>4 DEF interrupt, InHandler, SpinInv, SpinTypeOK
    <3>2. ncli[c] = 0 /\ Top(c) = frame[c][1] /\ Top(c)' = Code
      BY <2>1, <2>4, <3>1, <1>1, Zenon DEF CpuInv, Top
    <3>3. frame[c][1].has = {} /\ frame[c][1].at \in {"run", "cli"}
      BY <2>1, <2>4, <3>2, CountZero, Zenon
    <3>4. Code.at # "cli" BY Zenon DEF Code
    <3>5. QED BY <2>1, <2>3, <2>4, <3>1, <3>2, <3>3, <3>4, <1>1 DEF CpuInv
  <2>5. CASE d = c /\ iret(c)
    <3>1. /\ depth[c] = 2 /\ depth'[c] = 1 /\ FL_IF'[c] = 1 /\ Top(c) = Code
      BY <2>5, Zenon DEF iret, InHandler, SpinInv, SpinTypeOK
    <3>2. ncli[c] = 0 /\ frame[c][2] = Code /\ Top(c)' = frame[c][1]
      BY <2>1, <2>3, <2>5, <3>1, <1>1, Zenon DEF Top
    <3>3. Count(frame[c][1]) = 0 BY <2>1, <2>5, <3>1, CountZero, Zenon DEF CpuInv
    <3>4. Code.at # "cli" BY Zenon DEF Code
    <3>5. QED BY <2>1, <2>5, <3>1, <3>2, <3>3, <3>4, <1>1, Zenon DEF CpuInv
  <2>6. QED BY <2>2, <2>4, <2>5, Zenon
<1>4. QED BY <1>1, <1>2, <1>3, SameFrames, Zenon DEF SpinInv

-----------------------------------------------------------------------------
(* The theorem.                                                             *)

LEMMA NextInv == SpinInv /\ [SpinNext]_spinVars => SpinInv'
<1> SUFFICES ASSUME SpinInv, [SpinNext]_spinVars PROVE SpinInv'
  BY Zenon
<1>1. CASE UNCHANGED spinVars
  <2> USE <1>1 DEF spinVars
  <2>1. SpinTypeOK' BY Zenon DEF SpinInv, SpinTypeOK
  <2>2. \A c \in Cpu : CpuInv(c)' BY Zenon DEF SpinInv, CpuInv, Top
  <2>3. QED BY <2>1, <2>2, SameFrames, Zenon DEF SpinInv
<1>2. ASSUME NEW c \in Cpu, SpinStep(c) \/ interrupt(c) \/ iret(c) PROVE SpinInv'
  BY <1>2, ReadeflagsInv, PushcliInv, XchgInv, OwnInv, ReleaseInv, ClearInv, PopcliInv,
     InterruptInv, Zenon DEF SpinStep
<1>3. QED BY <1>1, <1>2, Zenon DEF SpinNext

\* The inductive invariant contains the property: a CPU that spins for a lock does not have
\* it, since a handler runs only over code without locks.
LEMMA InvSafe == SpinInv => LocksSafe
<1> SUFFICES ASSUME SpinInv PROVE LocksSafe
  BY Zenon
<1>1. Exclusive
  <2>1. \A c \in Cpu : depth[c] \in 1 .. 2 BY Zenon DEF SpinInv, SpinTypeOK
  <2>2. QED BY <2>1 DEF SpinInv, LockInv, Exclusive, Lock
<1>2. ASSUME NEW c \in Cpu
      PROVE  /\ Top(c).at = "xchg" => \A i \in 1 .. depth[c] : Top(c).lk \notin frame[c][i].has
             /\ \A i \in 1 .. depth[c] : \A l \in frame[c][i].has : holding(c, l)
             /\ Top(c).at = "popcli" => FL_IF[c] = 0 /\ ncli[c] > 0
             /\ ~InHandler(c) /\ Top(c).at = "run" /\ Top(c).has = {} => FL_IF[c] = 1 /\ ncli[c] = 0
  <2>1. /\ Top(c) \in CodeType /\ depth[c] \in 1 .. 2 /\ Top(c) = frame[c][depth[c]]
        /\ CallInv(Top(c)) /\ ncli[c] = Count(Top(c)) /\ FL_IF[c] \in {0, 1}
        /\ FL_IF[c] = 1 <=> depth[c] = 1 /\ ncli[c] = 0
    BY TopInv, Zenon
  <2>2. depth[c] = 2 => frame[c][1].has = {} BY Zenon DEF SpinInv, CpuInv
  <2>3. Top(c).at = "xchg" => \A i \in 1 .. depth[c] : Top(c).lk \notin frame[c][i].has
    BY <2>1, <2>2 DEF CallInv
  <2>4. \A i \in 1 .. depth[c] : \A l \in frame[c][i].has : holding(c, l)
    <3>1. ASSUME NEW i \in 1 .. 2, NEW l \in frame[c][i].has PROVE holding(c, l)
      <4>1. l \in Lock BY DEF SpinInv, SpinTypeOK, CodeType
      <4>2. Has(c, i, l) BY Zenon DEF Has
      <4>3. QED BY <4>1, <4>2, Zenon DEF SpinInv, LockInv, holding
    <3>2. QED BY <3>1, <2>1
  <2>5. Cardinality(Top(c).has) \in Nat BY <2>1, HasFinite, Zenon DEF CodeType
  <2>6. Top(c).at = "popcli" => FL_IF[c] = 0 /\ ncli[c] > 0
    BY <2>1, <2>5 DEF Count, InCall
  <2>7. ~InHandler(c) /\ Top(c).at = "run" /\ Top(c).has = {} => FL_IF[c] = 1 /\ ncli[c] = 0
    <3>1. Cardinality({}) = 0 BY FS_EmptySet, Zenon
    <3>2. QED BY <2>1, <3>1 DEF Count, InCall, InHandler
  <2>8. QED BY <2>3, <2>4, <2>6, <2>7, Zenon
<1>3. QED BY <1>1, <1>2, Zenon DEF LocksSafe

\* Spin locks exclude, no CPU reaches a panic of spinlock.c and interrupts are back on once
\* all locks are released: for every set of CPUs, every number of locks, and every choice of
\* locks for the handlers that may interrupt acquire() and release() between any two steps.
THEOREM SpinSafety == SpinSpec => []LocksSafe
BY InitInv, NextInv, InvSafe, PTL DEF SpinSpec
=============================================================================
