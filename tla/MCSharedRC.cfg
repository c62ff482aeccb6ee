SPECIFICATION FairSpec
CHECK_DEADLOCK FALSE
CONSTANTS
  r1 = r1
  r2 = r2
  r3 = r3
  r4 = r4
  r5 = r5
  Refs = {r1, r2, r3, r4, r5}
INVARIANTS
  NoUseAfterDealloc
PROPERTIES
  ImplementsWeakRefs
  WaitFree
