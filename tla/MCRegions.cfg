SPECIFICATION Spec
CHECK_DEADLOCK FALSE
CONSTANTS
  k1 = k1
  k2 = k2
  s1 = s1
  s2 = s2
  R = R
  S = S
  Null = Null
  Objs = {k1, k2, s1}
  Metas = {R, S}
  Trivial = {s1}
  Large = {k2, s1}
  Kinds <- MCKinds
  MaxRoots = 1
  ArenaSize = 1
PROPERTIES
  ImplementsRegionSets
  FinaliserSeesRegion
  CollectsGarbage
