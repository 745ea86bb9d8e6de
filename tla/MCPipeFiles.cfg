SPECIFICATION Spec
CONSTANTS
  Proc = {p1, p2}
  NFILE = 3
  NOFILE = 2
  Pipe = {s1, s2}
  PIPESIZE = 1
  UINT = 2
  Byte = {a}
  MAXN = 0
  Killable = {p1, p2}
SYMMETRY PipeSymmetry
INVARIANTS FileRefs PipePages
CHECK_DEADLOCK FALSE
