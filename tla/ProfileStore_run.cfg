SPECIFICATION Spec
CONSTANTS
  p1 = p1
  p2 = p2
  t1 = t1
  t2 = t2
  a = a
  b = b
  n1 = n1
  n2 = n2
  d1 = d1
  Procs = {p1, p2}
  Threads = {t1, t2}
  ProcOf <- TwoProcesses
  Profiles = {a, b}
  Names = {n1, n2}
  Dests = {d1}
  None = None
  Legacy = {a, b}
  MaxKeys = 2
  MaxCrashes = 1
SYMMETRY Symmetric
INVARIANTS NamesUnique DestinationsExist 
