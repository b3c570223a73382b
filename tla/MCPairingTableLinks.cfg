CONSTANTS
    SlotCount = 1
    Computer = {a}
    NoComputer = NoComputer
    Handle = {h1, h2}
    NoHandle = NoHandle
    QueueLength = 2
    PeerCount = 2
    Generations = 1
    NoPeer = NoPeer
    NoLink = NoLink
    NoSnapshot = NoSnapshot
SPECIFICATION FairSpec
INVARIANTS LinksMatchPeers
PROPERTIES LinkRestored
CHECK_DEADLOCK FALSE
