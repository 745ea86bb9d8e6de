CONSTANTS
    NPROC = 3
    Cpu = {c1, c2}
    NoCpu = NoCpu
    Uid = {0}
    MAXPID = 3
    KILLPIDS = {2, 3}
    MAXTICKS = 1
    Sleepers = {2}
ACTION_CONSTRAINT FirstChildKilled
SPECIFICATION MCLiveSpec
PROPERTIES KilledExits OrphansReaped
CHECK_DEADLOCK FALSE
