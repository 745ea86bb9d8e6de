SPECIFICATION BioLiveSpec
CONSTANTS
    BProc = {p1, p2}
    NoOne = NoOne
    Block = {1, 2, 3, 4}
    Written = {1}
    NBUF = 3
    Data = {0, 1}
    MAXPIN = 1
INVARIANTS BufferStable HolderReads
PROPERTIES SleepersWake
