SPECIFICATION Spec
CONSTANTS
    MAX_RETRY_COUNT = 2
    INITIAL_RETRY_DELAY_SEC = 2
    MAX_BACKOFF_DELAY_SEC = 3
    RECOVERY_DELAY_SEC = 4
    EpochOffset = 100
    MaxLag = 1
    MaxCount = 3
    a1 = a1
    Nobody = Nobody
    Addresses = {a1}
    SeedNodes <- OneSeed
PROPERTIES BackoffRespected
