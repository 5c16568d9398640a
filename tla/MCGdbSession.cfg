SPECIFICATION FairSpec
CONSTANTS
    MaxSends <- MCMaxSends
    MaxInterrupts <- MCMaxInterrupts
INVARIANTS
    ToldStoppedIsStopped
    AnswerIsOwn
    AnswerIsComing
    InterruptIsOfThisRun
    NoStepLeftOver
PROPERTIES
    ForgottenOnlyByOther
    InterruptStops
    WaitingGdbIsServed
