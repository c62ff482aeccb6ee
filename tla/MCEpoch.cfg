SPECIFICATION MCSpec
CONSTANTS
  Threads = {1, 2, 3}
  Objs = {a, b}
  First = a
  None = none
  Readers = {2, 3}
  Updaters = {1}
  Advancers = {1, 2}
  Ejectors = {1}
  Exiting = {3}
  MaxEpoch = 3
  MaxBuffer = 1
INVARIANTS
  PeekSafe
PROPERTY
  OneBehind
