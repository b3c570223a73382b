CONSTANTS
    SlotCount = 2
    Conn = {c1, c2}
    NoConn = NoConn
    Position = {centre}
    Centre = centre
    Unknown = Unknown
    Absolute = FALSE
    SubscriptionSet <- RelativeMasks
SPECIFICATION FairSpec
PROPERTIES FocusSpec ReleaseDelivered
CHECK_DEADLOCK FALSE
