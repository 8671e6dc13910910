SPECIFICATION PeerManagerSpec
CONSTANTS
    Thread <- Threads
    Traffic <- AllTraffic
    Locked <- Registering
    Nonces = {0, 1}
    NoThread = NoThread
    MaxPackets = 1
    Inputs <- Payloads
    Foreign <- AnyBytes
    DINDEX <- SumHash
    D_SIZE = 16
    M2_MAX_OFFSET = 16
    M3_MAX_OFFSET = 32
    MAX_BLOCK = 64
    MAX_RETRY_COUNT = 2
    INITIAL_RETRY_DELAY_SEC = 2
    MAX_BACKOFF_DELAY_SEC = 3
    RECOVERY_DELAY_SEC = 4
    EpochOffset = 100
    MaxLag = 1
    MaxCount = 3
    a1 = a1
    Nobody = Nobody
    Addresses = {a1}
    SeedNodes <- OneSeed
INVARIANTS NoSeedForgotten RetryBudget SignedIntact PreparedIsTaken HarmNeedsUnlocked RoundTrips WritesFit StaysInBounds
PROPERTIES KeepsTrying DiscoveryHappens ImplementsLifecycle
CHECK_DEADLOCK FALSE
