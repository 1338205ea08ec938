\* Two appends at once and nobody tampering: the chain reported broken.
SPECIFICATION Spec
CONSTANTS
    Mine = {m1}
    Handler = {h1, h2}
    Payload = {p}
    Falsified = {}
    NoEdit = NoEdit
    BlockId = {b1, b2}
    MaxLost = 0
SYMMETRY Symmetry
INVARIANTS NoFalseAlarm
