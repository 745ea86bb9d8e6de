CONSTANTS
    Proc = {p1, p2}
    Block = {b1, b2}
    Val = {v0, v1}
    NoBlock = NoBlock
    NoBuf = NoBuf
    MAXOPBLOCKS = 4
    LOGSIZE = 8
    NLOG = 8
    OPBLOCKS = 2
SPECIFICATION LiveSpec
INVARIANTS QuiescentIsDurable NoPanic IInv
PROPERTIES AtomicDiskSpec SleeperWakes
