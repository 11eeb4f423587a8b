\* Two requests at once.
CONSTANTS
  Callers = {a, b}
  Threads = {t1}
  None = None
  MaxOps = 3
SPECIFICATION Spec
CHECK_DEADLOCK FALSE
INVARIANT WholeFile
