SPECIFICATION Spec
CONSTANTS
    w1 = w1
    w2 = w2
    w3 = w3
    NoWord = NoWord
    Words <- MCWords
    UserBreakpoints <- MCBreakpointSet
    Comparators = 2
    CodeComparators = 1
    AlwaysInserted = FALSE
    MaxListed = 4
    MaxSent = 4
INVARIANTS
    TypeOK
    OneComparatorPerWord
    OnlyInsertedStops
    InsertedIsListed
    StopsWhereAsked
SYMMETRY MCSymmetry
