\* Three runs of the program and three pids, which the system may reuse.
SPECIFICATION HandleSpec
CONSTANTS
  Procs = {p1, p2, p3}
  Pids = {n1, n2, n3}
  NoProc = NoProc
  NoPid = NoPid
  Recycle = TRUE
SYMMETRY Symmetry
INVARIANTS
  HoldsItsRow
CHECK_DEADLOCK FALSE
