\* Two requests at once, synchronisation of any items, one crash.
SPECIFICATION MCSpec
CONSTANTS
    Handler = {h1, h2}
    Role = {auditor, worker}
    Verifier = {auditor}
    Reopener = {auditor}
    None = None
    k1 = k1
    k2 = k2
    Item <- SyncedItem
    MaxVersion = 7
    MaxTrail = 6
    MaxShared = 3
    MaxCrash = 1
SYMMETRY Symmetry
INVARIANTS TypeOK EvidenceUnlessStripped VerifierUnlessImported TrailLegal StateVouched TrailIsPathSerially
PROPERTIES KeepsLifecycle
