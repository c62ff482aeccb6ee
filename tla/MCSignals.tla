----------------------------- MODULE MCSignals -----------------------------
EXTENDS Signals
CONSTANTS m1, m2, r1
MCNotifiers == {m1, m2}
MCReaders == {r1}
MCSlots == {r1, note, slot}
MCCallers == {m1, m2, r1, note}
=============================================================================
