SPECIFICATION Spec
CONSTANTS
    w1 = w1
    w2 = w2
    w3 = w3
    NoWord = NoWord
    Words <- MCWords
    UserBreakpoints <- MCSoftBreakpoints
    Comparators = 3
    CodeComparators = 3
    AlwaysInserted = TRUE
    MaxListed = 4
    MaxSent = 4
INVARIANTS
    AcceptedIsArmed
SYMMETRY MCSymmetry
