\* Two requests at once on two schedules, one of which may die.
SPECIFICATION MCSpec
CONSTANTS
    Handler = {h1, h2}
    Schedule = {s1, s2}
    Asked = {"IN_PROGRESS", "COMPLETED"}
    MaxLapses = 2
    MaxCrash = 1
SYMMETRY Symmetry
INVARIANTS EveryLapseEscalated StampNeedsInspection EscalatedOnce
PROPERTIES CompletionStandsSerially
