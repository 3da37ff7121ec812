SPECIFICATION Spec
CONSTANTS
    c1 = c1
    c2 = c2
    Child <- TwoChildren
    MaxSa = 2
    MaxId = 1
    MaxBytes = 1
    Stale = 3
    EmptyLists = TRUE
INVARIANTS ChargedOnce
SYMMETRY Interchangeable
