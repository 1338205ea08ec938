\* One tab, an inspection and a hazard issue, one fault.
SPECIFICATION FairSpec
CONSTANTS
    Inspection = {1}
    Valid = {1}
    Hazard = {h}
    Leave = {}
    Tab = {t1}
    Slot = {s1, s2}
    None = None
    MaxFaults = 1
CHECK_DEADLOCK FALSE
PROPERTIES QueueMoves
