SPECIFICATION FairSpec
CONSTANTS
  m1 = m1
  m2 = m2
  r1 = r1
  Notifiers <- MCNotifiers
  Readers <- MCReaders
  Slots <- MCSlots
  Callers <- MCCallers
  note = note
  slot = slot
  NoSlot = NoSlot
INVARIANTS
  NoUseAfterFree OutcomeFirst ScheduledOnce
PROPERTY
  RequestsRun
