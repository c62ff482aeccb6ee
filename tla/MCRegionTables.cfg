SPECIFICATION Spec
CHECK_DEADLOCK FALSE
CONSTANTS
  i1 = i1
  i2 = i2
  i3 = i3
  i4 = i4
  i5 = i5
  x1 = x1
  x2 = x2
  x3 = x3
  x4 = x4
  x5 = x5
  R = R
  S = S
  Null = Null
  Regions = {R, S}
  Imms = {i1, i2, i3, i4, i5}
  Objs = {x1, x2, x3, x4, x5}
  Child <- MCChild
  Starts <- MCStarts
  Hash <- MCHash
  InitCap = 8
  MaxProbe = 1
  MaxCount = 2
INVARIANTS
  ReferencedAlive
  CountsCover
  ExtRefsExact
SYMMETRY RegionsAlike
