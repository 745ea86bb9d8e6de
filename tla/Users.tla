-------------------------------- MODULE Users --------------------------------
(***************************************************************************)
(* The user database: the parsing of /etc/passwd and /etc/group (auth.c),   *)
(* the commands that change them (useradd.c, groupadd.c, passwd.c) and the  *)
(* login of getty.c.  A file is a sequence of symbols: letters of names and *)
(* passwords, decimal numbers, ":", "\n" and the zeros that passwd writes.  *)
(* Commands run one after the other, step by step of their system calls,    *)
(* and may be killed between two steps.                                     *)
(***************************************************************************)
EXTENDS Integers, Sequences, SequencesExt, FiniteSetsExt, TLC

CONSTANTS User, Group,  \* names that useradd and groupadd are given, sequences of letters
          Password,   \* passwords that are typed
          MINPASS,    \* least length of a password, 7
          FIRSTUID,   \* first uid and gid that are given, 1000
          UidOption,  \* arguments of useradd -u
          MAXUSERS,   \* bound: records in /etc/passwd
          MAXGROUPS   \* bound: records in /etc/group to which groupadd adds

ASSUME MINPASSAssumption == MINPASS \in Nat \ {0, 1}   \* passwd cannot set "_"

\* nextuid() passes over an id only where it comes in the file, so ids given with -u must lie
\* above those that it gives.
ASSUME OptionAssumption == \A id \in UidOption : id >= FIRSTUID + MAXUSERS - 1

ROOT == <<"r", "o">>                        \* "root"
PASS0 == <<"p", "q">>                       \* "password"

\* passwd looks for the name as text: it must not end another name or a password.
ASSUME NamesAssumption ==
    \A u \in User \cup {ROOT} :
        /\ \A v \in User \cup {ROOT} : IsSuffix(u, v) => u = v
        /\ \A w \in Password \cup {PASS0, <<"_">>, <<"S">>} : ~IsSuffix(u, w)

VARIABLES passwd, group,  \* the two files
          homes,          \* names of the directories in /home
          cmd,            \* the command that runs: where it is, and its variables
          session         \* uid of the shell that getty started, -1 while getty waits

usersVars == <<passwd, group, homes, cmd, session>>

Num == 0 .. FIRSTUID + MAXUSERS + MAXGROUPS
itoa(n) == <<ToString(n)>>
\* ulib's atoi() is -1 for what does not start with a digit.
atoi(tok) == IF \E n \in Num : ToString(n) = tok[1] THEN CHOOSE n \in Num : ToString(n) = tok[1] ELSE -1

-----------------------------------------------------------------------------
(* auth.c *)

\* The string that read() leaves in buff: up to the first zero.
String(file) == IF \E i \in DOMAIN file : file[i] = "zero"
                THEN SubSeq(file, 1, Min({i \in DOMAIN file : file[i] = "zero"}) - 1) ELSE file


\* What ends token number counter: the token after number eol ends with its line.
Delim(counter, eol, fields) == IF (counter - 1) % fields = eol THEN "\n" ELSE ":"

\* strtok(), symbol by symbol: delimiters before a token are skipped, and one ends it.
strtok(acc, c, eol, fields) ==
    IF c # Delim(Len(acc.toks) % fields, eol, fields) THEN [acc EXCEPT !.tok = Append(@, c)]
    ELSE IF acc.tok = <<>> THEN acc
    ELSE [toks |-> Append(acc.toks, acc.tok), tok |-> <<>>]

\* The loop of every function of auth.c: the tokens of s, counted round by fields.
Tokens(s, eol, fields) ==
    LET after[i \in 0 .. Len(s)] ==
            IF i = 0 THEN [toks |-> <<>>, tok |-> <<>>]
            ELSE CHOOSE a \in {strtok(acc, s[i], eol, fields) : acc \in {after[i - 1]}} : TRUE
    IN  CHOOSE toks \in {IF acc.tok = <<>> THEN acc.toks ELSE Append(acc.toks, acc.tok) :
                           acc \in {after[Len(s)]}} : TRUE

\* The tokens, by record.
Records(file, eol, fields) ==
    CHOOSE recs \in {[j \in 1 .. (Len(toks) + fields - 1) \div fields |->
                         SubSeq(toks, fields * (j - 1) + 1, Min({fields * j, Len(toks)}))] :
                     toks \in {Tokens(s, eol, fields) : s \in {String(file)}}} : TRUE
PasswdRecords(file) == Records(file, 4, 6)     \* user:pass:uid:gid:name:home
GroupRecords(file) == Records(file, 1, 3)      \* group:gid:members

\* The first record of which test holds, or 0; the functions then give -1 or NULL.
FirstRecord(recs, test(_)) == LET is == {i \in DOMAIN recs : test(recs[i])} IN IF is = {} THEN 0 ELSE Min(is)
Field(recs, i, k) == IF i = 0 THEN <<>> ELSE recs[i][k]
Number(recs, i, k) == IF i = 0 THEN -1 ELSE atoi(recs[i][k])
ByUid(recs, uid) == FirstRecord(recs, LAMBDA r : Len(r) >= 3 /\ atoi(r[3]) = uid)
ByGid(recs, gid) == FirstRecord(recs, LAMBDA r : Len(r) >= 2 /\ atoi(r[2]) = gid)

uidtouser(recs, uid) == Field(recs, ByUid(recs, uid), 1)
uidtopass(recs, uid) == Field(recs, ByUid(recs, uid), 2)
uidtogid(recs, uid) == Number(recs, ByUid(recs, uid), 4)
uidtodir(recs, uid) == Field(recs, ByUid(recs, uid), 6)
usertouid(recs, name) == Number(recs, FirstRecord(recs, LAMBDA r : r[1] = name), 3)
gidtogroup(recs, gid) == Field(recs, ByGid(recs, gid), 1)
grouptogid(recs, name) == Number(recs, FirstRecord(recs, LAMBDA r : r[1] = name), 2)

\* It returns a uint: its -1 is a large number.
UINT_MAX == 100000
validateuid(recs, uid) == IF ByUid(recs, uid) = 0 THEN 0 ELSE UINT_MAX

\* nextuid(), nextgid(): minuid goes up when it is met, in the order of the file.
NextId(recs, k) ==
    FoldLeft(LAMBDA min, r : IF Len(r) >= k /\ atoi(r[k]) = min THEN min + 1 ELSE min, FIRSTUID, recs)

nextuid(file) == NextId(PasswdRecords(file), 3)
nextgid(file) == NextId(GroupRecords(file), 2)

-----------------------------------------------------------------------------
(* The commands *)

Home(user) == <<"/">> \o user

\* Text written at offset off of a file.
WriteAt(file, off, text) ==
    [i \in 1 .. Max({Len(file), off + Len(text)}) |->
        IF i \in off + 1 .. off + Len(text) THEN text[i - off] ELSE file[i]]

PasswdLine(user, uid, gid) ==
    user \o <<":", "_", ":">> \o itoa(uid) \o <<":">> \o itoa(gid) \o <<":", "_", ":">> \o Home(user) \o <<"\n">>
GroupLine(name, gid, members) == name \o <<":">> \o itoa(gid) \o <<":">> \o members \o <<"\n">>

NoCmd == [pc |-> "none", op |-> "none", user |-> <<>>, uid |-> 0, gid |-> 0, old |-> <<>>, new |-> <<>>,
          off |-> 0, buf |-> <<>>]

UsersInit ==
        /\ passwd = ROOT \o <<":">> \o PASS0 \o <<":", "0", ":", "0", ":", "S", ":">> \o Home(ROOT) \o <<"\n">>
        /\ group = GroupLine(ROOT, 0, ROOT)
        /\ homes = {ROOT}
        /\ cmd = NoCmd
        /\ session = -1

\* A shell of root starts a command.
Started == cmd.pc = "none" /\ session = 0

\* useradd -u is given ids that are not in use: validateuid() refuses none, its -1 being a
\* uint that is compared with "< 0".
Unused(option) == option = -1 \/ ByUid(PasswdRecords(passwd), option) = 0

\* Run by root, whose rights open() of the files for writing asks for.
useradd(user, option) ==
    /\ Started /\ Len(PasswdRecords(passwd)) < MAXUSERS
    /\ Unused(option)
    /\ option = -1 \/ ~(validateuid(PasswdRecords(passwd), option) < 0)
    /\ cmd' = [NoCmd EXCEPT !.op = "useradd", !.pc = "mkdir", !.user = user, !.gid = nextgid(group),
                            !.uid = IF option = -1 THEN nextuid(passwd) ELSE option]
    /\ UNCHANGED <<passwd, group, homes, session>>

useradd_mkdir ==
    /\ cmd.pc = "mkdir"
    /\ cmd' = IF cmd.user \in homes THEN NoCmd ELSE [cmd EXCEPT !.pc = "seek"]
    /\ homes' = homes \cup {cmd.user}
    /\ UNCHANGED <<passwd, group, session>>

passwdlen(file) == Len(String(file))
grouplen(file) == Len(String(file))

\* read() of passwdlen() bytes moves the offset to the end of the text.
useradd_seek ==
    /\ cmd.pc = "seek"
    /\ cmd' = [cmd EXCEPT !.pc = "write", !.off = passwdlen(passwd)]
    /\ UNCHANGED <<passwd, group, homes, session>>

useradd_write ==
    /\ cmd.pc = "write"
    /\ passwd' = WriteAt(passwd, cmd.off, PasswdLine(cmd.user, cmd.uid, cmd.gid))
    /\ cmd' = [cmd EXCEPT !.pc = "group", !.off = grouplen(group)]
    /\ UNCHANGED <<group, homes, session>>

groupadd(name) ==
    /\ Started /\ Len(GroupRecords(group)) < MAXGROUPS
    /\ cmd' = [NoCmd EXCEPT !.op = "groupadd", !.pc = "group", !.user = name, !.off = grouplen(group),
                            !.gid = nextgid(group)]
    /\ UNCHANGED <<passwd, group, homes, session>>

\* The last step of useradd and of groupadd, whose group has " " for members.
group_write ==
    /\ cmd.pc = "group"
    /\ group' = WriteAt(group, cmd.off, GroupLine(cmd.user, cmd.gid, IF cmd.op = "useradd" THEN cmd.user ELSE <<" ">>))
    /\ cmd' = NoCmd
    /\ UNCHANGED <<passwd, homes, session>>

\* passwd, run by root for a user that exists: any other user fails to open the file.
passwd_start(user, new) ==
    LET recs == PasswdRecords(passwd)
        uid == usertouid(recs, user)
    IN  /\ Started /\ uid # -1
        /\ Len(new) >= MINPASS
        /\ cmd' = [NoCmd EXCEPT !.op = "passwd", !.pc = "replace", !.user = user, !.new = new,
                                !.old = uidtopass(recs, uid), !.buf = String(passwd)]
        /\ UNCHANGED <<passwd, group, homes, session>>

\* strstr(buff, user:), then the new password in place of as many symbols as the old has.
Replaced(buf, user, old, new) ==
    LET key == Append(user, ":")
        index == Min({i \in 1 .. Len(buf) - Len(key) + 1 : SubSeq(buf, i, i + Len(key) - 1) = key})
        start == index + Len(key) - 1
    IN  SubSeq(buf, 1, start) \o new \o SubSeq(buf, start + Len(old) + 1, Len(buf))

passwd_write ==
    LET file == Replaced(cmd.buf, cmd.user, cmd.old, cmd.new)
    IN  /\ cmd.pc = "replace"
        /\ passwd' = WriteAt(passwd, 0, file)
        /\ cmd' = IF Len(cmd.old) > Len(cmd.new) THEN [cmd EXCEPT !.pc = "clear", !.off = Len(file)] ELSE NoCmd
        /\ UNCHANGED <<group, homes, session>>


passwd_clear ==
    /\ cmd.pc = "clear"
    /\ passwd' = WriteAt(passwd, cmd.off, [i \in 1 .. Len(cmd.old) - Len(cmd.new) |-> "zero"])
    /\ cmd' = NoCmd
    /\ UNCHANGED <<group, homes, session>>

\* The command is killed between two of its system calls.  Only the step from passwd's
\* text to its zeros is spared: there the rest of the longer old text would stay behind.
killed == /\ cmd.pc \notin {"none", "clear"}
          /\ cmd' = NoCmd
          /\ UNCHANGED <<passwd, group, homes, session>>

\* getty: main()'s loop until the name exists and the password is right, and start().
getty(user, pass) ==
    LET recs == PasswdRecords(passwd)
        uid == usertouid(recs, user)
    IN  /\ session = -1
        /\ uid # -1 /\ uidtopass(recs, uid) = pass
        /\ session' = uid
        /\ UNCHANGED <<passwd, group, homes, cmd>>

\* The shell exits, getty with it, and init starts getty again.
logout == /\ session >= 0 /\ cmd.pc = "none"
          /\ session' = -1
          /\ UNCHANGED <<passwd, group, homes, cmd>>

UsersNext == \/ \E user \in User, option \in UidOption \cup {-1} : useradd(user, option)
             \/ useradd_mkdir \/ useradd_seek \/ useradd_write \/ group_write
             \/ \E name \in Group : groupadd(name)
             \/ \E user \in User \cup {ROOT}, new \in Password : passwd_start(user, new)
             \/ passwd_write \/ passwd_clear \/ killed \/ logout
             \/ \E user \in User \cup {ROOT}, pass \in Password \cup {PASS0} : getty(user, pass)

-----------------------------------------------------------------------------
(* Properties *)

\* The list of users that the text stands for; between passwd's two writes, the first
\* holds all of it.
Abstract ==
    CHOOSE db \in {[i \in DOMAIN recs |-> [user |-> recs[i][1],
                                           pass |-> IF Len(recs[i]) < 3 THEN <<>> ELSE recs[i][2],
                                           uid |-> IF Len(recs[i]) < 3 THEN -1 ELSE atoi(recs[i][3])]] :
                     recs \in {PasswdRecords(IF cmd.pc = "clear" THEN SubSeq(passwd, 1, cmd.off) ELSE passwd)}} : TRUE

\* The commands implement a user database on a text file: each step leaves the list as it
\* is, adds one user with a new name and a new uid, or sets one password, whatever the
\* lengths of the passwords before it, the zeros left behind and the commands killed.
DB == INSTANCE UserDb WITH db <- Abstract, Root <- [user |-> ROOT, pass |-> PASS0, uid |-> 0]


=============================================================================
