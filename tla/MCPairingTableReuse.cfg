CONSTANTS
    SlotCount = 2
    Computer = {a, b}
    NoComputer = NoComputer
    Handle = {h1}
    NoHandle = NoHandle
    QueueLength = 2
    PeerCount = 1
    Generations = 4
    NoPeer = NoPeer
    NoLink = NoLink
    NoSnapshot = NoSnapshot
SYMMETRY Symmetry
SPECIFICATION Spec
INVARIANTS TypeOK InputReachesOwner OneSlotPerComputer GenerationIdentifies
PROPERTIES SlotsChangeOnlyByRemoval
CHECK_DEADLOCK FALSE
