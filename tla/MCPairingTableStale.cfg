CONSTANTS
    SlotCount = 2
    Computer = {a}
    NoComputer = NoComputer
    Handle = {h1}
    NoHandle = NoHandle
    QueueLength = 2
    PeerCount = 1
    Generations = 1
    NoPeer = NoPeer
    NoLink = NoLink
    NoSnapshot = NoSnapshot
SPECIFICATION Spec
PROPERTIES RemovalBlocksStaleEvents
CHECK_DEADLOCK FALSE
