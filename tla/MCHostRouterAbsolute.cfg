CONSTANTS
    SlotCount = 2
    Conn = {c1, c2}
    NoConn = NoConn
    Position = {centre, corner}
    Centre = centre
    Unknown = Unknown
    Absolute = TRUE
    SubscriptionSet <- AbsoluteMasks
SYMMETRY Symmetry
SPECIFICATION Spec
INVARIANTS TypeOK InputAccounted ButtonsTracked OldPathOwed
PROPERTIES PressesGoToSelected ReleasesKeepPosition NoTeleport
CHECK_DEADLOCK FALSE
