SPECIFICATION FairSpec
CONSTANTS
  t1 = t1
  t2 = t2
  t3 = t3
  Thread <- ThreeThreads
  Permits = 1
  Threshold = 3
  MaxElements = 2
  MaxGenerations = 2
INVARIANTS
  TypeOK
  WakeupsSuffice
  GenerationsApart
PROPERTIES
  ImplementsAtomicSync
CHECK_DEADLOCK FALSE
