SPECIFICATION FairSpec
CHECK_DEADLOCK FALSE
CONSTANTS
  t1 = t1
  t2 = t2
  x1 = x1
  r = r
  w1 = w1
  w2 = w2
  w3 = w3
  w4 = w4
  w5 = w5
  Threads = {t1, t2}
  First = t1
  NextCore <- Ring2
  Externals = {x1}
  Works = {r, w1, w2, w3, w4, w5}
  Root = r
  Programs <- MCPrograms
  BatchSize = 1
  MaxFutile = 0
  None = None
INVARIANTS
  NoLostWakeup
  OneWakePerSleep
  SomeoneInCharge
PROPERTIES
  ImplementsWorkPool
  PoolStops
