SPECIFICATION Spec
CONSTANTS
  a = a
  b = b
  c = c
  Names <- MCNames
  Hash <- MCHash
  Nodes = {n1, n2, n3, n4}
  Nil = Nil
  MinSize = 4
  Threads = {t1, t2}
  Overlap = FALSE
  MaxLookups = 2
SYMMETRY Symmetric
INVARIANTS
  FoundByHash KernelInodesAlive
