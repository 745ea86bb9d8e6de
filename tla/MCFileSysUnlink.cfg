SPECIFICATION Spec
CONSTANTS
  Proc = {1, 2}
  Uid <- UidConst
  Euid <- UidConst
  NINODE = 3
  ninodes = 5
  Name = {"a", "b"}
  Modes = {404, 416}
  Programs <- UnlinkPrograms
  MAXLOST = 1
INVARIANT UnlinkedFreed
CHECK_DEADLOCK FALSE
