SPECIFICATION Spec
CHECK_DEADLOCK FALSE
CONSTANTS
  o1 = o1
  o2 = o2
  o3 = o3
  Main = Main
  Sub = Sub
  t1 = t1
  t2 = t2
  Null = Null
  Objects = {o1, o2, o3}
  Regions = {Main, Sub}
  Start = Main
  Threads = {t1, t2}
  First = t1
  Graphs <- MCGraphs
INVARIANTS
  SccsCounted
  HeldIsAlive
  NothingLeaks
