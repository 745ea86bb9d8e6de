CONSTANTS
    NPROC = 4
    Cpu = {c1, c2}
    NoCpu = NoCpu
    Uid = {0}
    MAXPID = 4
    KILLPIDS = {0, 2}
    MAXTICKS = 1
    Sleepers = {1, 2, 3, 4}
CONSTRAINT Bound
SPECIFICATION MCSpec
SYMMETRY CpuSymmetry
INVARIANTS StackExclusive SlotsAccounted FamiliesIntact
CHECK_DEADLOCK FALSE
