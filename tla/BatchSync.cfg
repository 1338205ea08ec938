\* Two requests at once on one inspection, one of which may die.
SPECIFICATION MCSpec
CONSTANTS
    Handler = {h1, h2}
    Key = {k1, k2, k3}
    None = None
    MaxVersion = 5
    MaxCrash = 1
SYMMETRY Symmetry
INVARIANTS ContentAccounted CreatedOnce EditsCounted
PROPERTIES KeepsRegisterSerially
