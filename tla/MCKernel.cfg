SPECIFICATION Spec
SYMMETRY Symmetry
CONSTANTS
    MProc = {1, 2, 3}
    NPAGES = 13
    PGSIZE = 2
    NPTE = 2
    NKTAB = 1
    KERNBASE = 12
    UINT = 24
    Grows <- MCGrows
    Images = {2}
    ArgBytes = {1, 3}
    Reader = {c1, c2}
    INPUT_BUF = 3
    WRAP = 6
    Letter = {"a"}
    Sizes = {1, 4}
    MAXKILLS = 1
    WProc = {w1, w2}
    Inum = {1, 2}
    NMETA = 3
    FSSIZE = 8
    BSIZE = 2
    NDIRECT = 1
    NINDIRECT = 3
    MAXOPBLOCKS = 6
    Counts = {7}
    MKBYTES = 3
    Cpu = {1, 2}
    Locks = 2
    HandlerLocks = {2}
    Key <- MCKey
    MAXSCAN = 2
INVARIANTS PagesOnce SizeMapped ReaderWoken BitmapExact ReadsBack FitsLog LocksSafe NoStuckKey
PROPERTIES LineSpec
