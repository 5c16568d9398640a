SPECIFICATION Spec
CONSTANTS
    bootPage = bootPage
    userPage = userPage
    dataPage = dataPage
    Pages <- MCPages
    UserPages <- MCUserPages
    FirmwarePage = userPage
    Requests <- MCRequests
    HostCommands = {"Halt", "Resume", "ResumeStep", "FlashDetach", "Unlock", "Erase", "Detach", "Write"}
    QueueCap = 3
    ParamsCap = 1
    MaxNesting = 2
INVARIANTS
    TypeOK
    MaskedOnlyWhileSteppingOut
    StepIsOneInstruction
    DeferredCommandWaits
    ReportedHaltIsControlled
    LoopsRunAlone
    UnreachableOnlyWhenStepping
CHECK_DEADLOCK FALSE
