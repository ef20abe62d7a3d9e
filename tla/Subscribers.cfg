SPECIFICATION Spec
CONSTANTS
    Imsis = {i1, i2}
    Numbers = {n1, n2}
    None = None
    Writers = {w1}
    CRASHES = 1
    Exclusive = TRUE
    LAG = TRUE
INVARIANT FoundByNumber
INVARIANT IndexSound
SYMMETRY Symmetry
