CONSTANTS
    a = a
    b = b
    Node <- TwoNodes
    Known <- OneKnows
    MultiPort <- OneMultiPort
    MaxAttempts = 2
    LastStart <- Starts
    MaxSessions = 2
    Horizon = 4
SPECIFICATION Spec
INVARIANTS AttemptsPaced OneLiveSession SuccessIsMutual
PROPERTIES SessionsEnd
