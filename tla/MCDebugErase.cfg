SPECIFICATION FairSpec
CONSTANTS
    bootPage = bootPage
    userPage = userPage
    dataPage = dataPage
    Pages <- MCMorePages
    UserPages <- MCMoreUserPages
    FirmwarePage = userPage
    Requests <- MCMoreRequests
    HostCommands = {"Halt", "Erase"}
    QueueCap = 2
    ParamsCap = 2
    MaxNesting = 1
PROPERTY EraseLoopComesBack RequestedPagesAreErased
CHECK_DEADLOCK FALSE
