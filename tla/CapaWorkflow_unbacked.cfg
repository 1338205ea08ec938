\* One request at a time; a client synchronises a CAPA as verified, then an edit.
SPECIFICATION MCSpec
CONSTANTS
    Handler = {h1}
    Role = {auditor, worker}
    Verifier = {auditor}
    Reopener = {auditor}
    None = None
    k1 = k1
    k2 = k2
    Item <- UnbackedItem
    MaxVersion = 7
    MaxTrail = 6
    MaxShared = 3
    MaxCrash = 0
INVARIANTS VerifiedIsBacked
