SPECIFICATION Spec
CONSTANTS
    LastAddress = 3
    Regions <- MCRegions
    Ram <- MCRam
    FlashBegin = 1
    FlashEnd = 4
    Payload = 2
    LastRegister = 2
    RegPayload = 2
    Values <- MCValues
    Zero = "zero"
INVARIANT RegistersInOrder
