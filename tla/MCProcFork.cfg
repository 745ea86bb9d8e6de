CONSTANTS
    NPROC = 3
    Cpu = {c1}
    NoCpu = NoCpu
    Uid = {0, 1}
    MAXPID = 2
    KILLPIDS = {0, 1, 2, 3, 4}
    MAXTICKS = 0
    Sleepers = {1, 2, 3}
SPECIFICATION Spec
PROPERTY ForkCopiesUid
CHECK_DEADLOCK FALSE
