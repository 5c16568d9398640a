SPECIFICATION FairSpec
CONSTANTS
    bootPage = bootPage
    userPage = userPage
    dataPage = dataPage
    Pages <- MCPages
    UserPages <- MCUserPages
    FirmwarePage = userPage
    Requests <- MCRequests
    HostCommands = {"Halt", "Resume", "ResumeStep", "Detach"}
    QueueCap = 2
    ParamsCap = 1
    MaxNesting = 2
PROPERTY StepOutEnds
CHECK_DEADLOCK FALSE
