SPECIFICATION Spec
CONSTANTS
    User <- MCUserNames
    Group <- MCGroup
    Password <- MCPassword
    MINPASS = 2
    FIRSTUID = 3
    UidOption = {5}
    MAXUSERS = 3
    MAXGROUPS = 2
    Lines <- MCLines
    SHPROCS = 6
    MAXARGS = 4
    MAXFAIL = 1
    MINUNITS = 4
    HEAP = 8
    Units = {1, 2, 5}
    FileModes = {83, 1023}
    Jobs <- MCJobs
    GREPBUF = 4
    TextChar = {"a", "b"}
    TEXTLEN = 3
INVARIANTS
     ParseIsGrammar ProgramFds
    HeapPartition ModeRight GrepRight
  
CHECK_DEADLOCK FALSE
