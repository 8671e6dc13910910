SPECIFICATION FairSpec
CONSTANTS
    s = s
    a = a
    b = b
    Node = {s, a}
    SeedsOf <- TwoClients
    Loopback = FALSE
    MaxListed = 10
    Replays = FALSE
    Lossy = {"register", "register_resp", "accepted", "peer_list", "find_node", "nodes"}
    MaxRestarts = 1
INVARIANTS GenuineKeys
PROPERTIES HandshakeCompletes
CHECK_DEADLOCK FALSE
