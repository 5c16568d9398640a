SPECIFICATION OvertakenSpec
CONSTANTS
    thread = thread
    svc = svc
    usb = usb
    debugMonitor = debugMonitor
    Size = 3
    a = a
    b = b
    Data <- MCData
    NoValue = none
    Producers <- MCProducers
    Consumer = debugMonitor
    Preempts <- MCPreempts
PROPERTY OnlyOvertakenPutCorrupts
SYMMETRY MCSymmetry
