SPECIFICATION FairSpec
CHECK_DEADLOCK FALSE
CONSTANTS
  r1 = r1
  r2 = r2
  r3 = r3
  r4 = r4
  r5 = r5
  r6 = r6
  r7 = r7
  Requests = {r1, r2, r3, r4, r5, r6, r7}
  What <- SharedFile
  After <- SharedOrder
  Denied = {r6}
  Top = 4
  Zero = Zero
  None = None
  Junk = Junk
  BlockCells = 2
  MaxBlocks = 8
PROPERTIES
  ImplementsSeqFile
  EveryRequestAnswered
