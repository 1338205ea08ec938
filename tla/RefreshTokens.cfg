\* Two requests at once on four tokens, one of which may die.
SPECIFICATION MCSpec
CONSTANTS
    Handler = {h1, h2}
    Token = {t1, t2, t3, t4}
    None = None
    MaxCrash = 1
SYMMETRY Symmetry
INVARIANTS ReplacedIsRevoked SessionsEnd
