SPECIFICATION Spec
CONSTANTS
    LastAddress = 3
    Regions <- MCRegions
    Ram <- MCRam
    FlashBegin = 1
    FlashEnd = 4
    Payload = 2
    LastRegister = 1
    RegPayload = 1
    Values <- MCValues
    Zero = "zero"
INVARIANTS
    TypeOK
    ReadIsMemory
    ReadIsOfItsAddress
    CountedIsWritten

PROPERTY EachRoundAdvances
