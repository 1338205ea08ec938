\* Two requests at once: an edit overwritten by one that had not seen it.
SPECIFICATION MCSpec
CONSTANTS
    Handler = {h1, h2}
    Key = {k1, k2, k3}
    None = None
    MaxVersion = 4
    MaxCrash = 0
SYMMETRY Symmetry
PROPERTIES KeepsRegister
