SPECIFICATION FairSpec
CONSTANTS
    MaxSent = 5
    MaxChunks = 3
    MaxMessage = 2
    MaxStarts = 2
INVARIANTS
    AnswerIsOwnUnlessBehind
    LostOnlyByRestart
    PrintingIsNotLockedOut
PROPERTIES
    HostIsAnswered
    ImplementsPipe
CHECK_DEADLOCK FALSE
