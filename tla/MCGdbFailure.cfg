SPECIFICATION Spec
CONSTANTS
    MaxSends <- MCMaxSends
    MaxInterrupts <- MCMaxInterrupts
INVARIANT FailureIsNoStop
