SPECIFICATION Spec
CONSTANTS
  Proc = {1, 2}
  Uid <- UidConst
  Euid <- UidConst
  NINODE = 3
  ninodes = 5
  Name = {"a", "b"}
  Modes = {404, 416}
  Programs <- ProgramsConst
  MAXLOST = 1
INVARIANTS RefsExact CacheCoherent LinksCoverNames 
  
CHECK_DEADLOCK FALSE
