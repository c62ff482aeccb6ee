SPECIFICATION FairSpec
CHECK_DEADLOCK FALSE
CONSTANTS
  b1 = b1
  b2 = b2
  b3 = b3
  a = a
  c = c
  d = d
  Behaviours = {b1, b2, b3}
  Cowns = {a, c, d}
  Footprint <- Overlap
  Rank <- MCRank
  Transfer = {b1}
  Wait = Wait
  Ready = Ready
  NoSlot = NoSlot
INVARIANTS
  MutualExclusion
  NoUseAfterFree
  NoOvertaking
  NoLeak
PROPERTIES
  ImplementsBoC
  EveryBehaviourRuns
