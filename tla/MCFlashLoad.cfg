SPECIFICATION Spec
CONSTANTS
    v1 = v1
    Erased = Erased
    Zero = Zero
    Data <- MCData
    LastSector = 2
    LastCell = 2
INVARIANTS
    TypeOK
    DoneIsWritten
    OtherSectorsKept
    FirstEraseResets
