SPECIFICATION FairSpec
CONSTANTS
  c1 = c1
  m1 = m1
  i1 = i1
  p1 = p1
  k1 = k1
  None = None
  Closer = Closer
  Keys = {k1}
  Ops <- MixedOps
  KeyOf <- MixedKey
  KindOf <- MixedKind
  
PROPERTIES NobodyStuck
CHECK_DEADLOCK FALSE
