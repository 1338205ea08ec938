\* Two tabs over one queue, one invalid inspection, one fault.
SPECIFICATION FairSpec
CONSTANTS
    Inspection = {1, 2}
    Valid = {2}
    Hazard = {h}
    Leave = {l}
    Tab = {t1, t2}
    Slot = {s1, s2}
    None = None
    MaxFaults = 1
CHECK_DEADLOCK FALSE
INVARIANTS SyncedIsStored FiledSparingly
PROPERTIES  FlushEnds
