SPECIFICATION Spec
CONSTANTS
    s = s
    a = a
    b = b
    Node = {s, a, b}
    SeedsOf <- Tiered
    Loopback = TRUE
    MaxListed = 10
    Replays = TRUE
    Lossy = {}
    MaxRestarts = 0
INVARIANTS MutualKeys ListsVerify ListsIntroduce NeverOwnPeer
PROPERTIES TrackersFollowLifecycle
CHECK_DEADLOCK FALSE
