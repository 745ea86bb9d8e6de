SPECIFICATION Spec
CONSTANTS
  Proc = {p1, p2}
  NFILE = 2
  NOFILE = 2
  Pipe = {s1}
  PIPESIZE = 2
  UINT = 4
  Byte = {a, b}
  MAXN = 3
  Killable = {}
SYMMETRY PipeSymmetry
INVARIANTS NobodyForgotten
PROPERTIES StreamSpec
CHECK_DEADLOCK FALSE
