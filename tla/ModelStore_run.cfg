SPECIFICATION FairModels
CONSTANTS
  k1 = k1
  k2 = k2
  r1 = r1
  r2 = r2
  r3 = r3
  Keys = {k1, k2}
  Repos = {r1, r2, r3}
  Absent = Absent
  Builtins <- OneBuiltin
  Requests <- FiveRequests
  Started = {k2}
  Named = {k1}
  MaxFaults = 2
INVARIANTS ModelsTypeOK 
PROPERTIES  OperationsEnd
