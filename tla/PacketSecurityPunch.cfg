SPECIFICATION MCSpec
CONSTANTS
    Thread <- Threads
    Traffic <- AllTraffic
    Locked <- Registering
    Nonces = {0, 1}
    NoThread = NoThread
    MaxPackets = 1
    Inputs <- Payloads
    Foreign <- AnyBytes
    DINDEX <- SumHash
    D_SIZE = 16
    M2_MAX_OFFSET = 16
    M3_MAX_OFFSET = 32
    MAX_BLOCK = 64
INVARIANTS PunchesAreTaken
CHECK_DEADLOCK FALSE
