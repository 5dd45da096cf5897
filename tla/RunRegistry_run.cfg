SPECIFICATION FairSpec
CONSTANTS
  m1 = m1
  m2 = m2
  m3 = m3
  c1 = c1
  t1 = t1
  p = p
  x = x
  y = y
  None = None
  Mics = {m1, m2, m3}
  Clips = {c1}
  Stresses = {t1}
  ProfileOf <- ProfileOfMics
  ModelOf <- ModelOfMics
  MaxRuns = 2
  MaxMics = 1
  Workers = 1
INVARIANTS LimitsKept ShutdownDrained
PROPERTIES ModelsKept RequestsSettle RunsKeepPromise
CHECK_DEADLOCK FALSE
