SPECIFICATION Spec
CONSTANTS
    bootPage = bootPage
    userPage = userPage
    dataPage = dataPage
    Pages <- MCPages
    UserPages <- MCUserPages
    FirmwarePage = userPage
    Requests <- MCRequests
    HostCommands = {"Halt", "Resume", "ResumeStep", "FlashDetach", "Unlock", "Erase", "Detach"}
    QueueCap = 3
    ParamsCap = 2
    MaxNesting = 1
INVARIANT EraseIsNotStopped
CHECK_DEADLOCK FALSE
