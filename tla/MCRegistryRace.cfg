CONSTANTS
  t1 = t1  t2 = t2  d1 = d1  d2 = d2
  NoDyn = NoDyn  NoId = NoId
  Threads <- MCThreads
  Dyns <- MCDyns
  IncNumSpace = 4
  MaxDynIdTries = 2

SPECIFICATION Spec

CHECK_DEADLOCK FALSE

INVARIANT RegistryConsistent
