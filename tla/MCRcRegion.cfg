SPECIFICATION Spec
CHECK_DEADLOCK FALSE
CONSTANTS
  e = e
  a = a
  b = b
  q = q
  Null = Null
  Objs = {e, a, b}
  Entry = e
  Subs = {q}
  Finalising = {}
  MaxRefs = 3
  EntryRefs = FALSE
  StaleEntries = FALSE
  IsoInCycles = FALSE
INVARIANTS
  ReachableAlive
  CountsExact
PROPERTIES
  CandidatesGo
