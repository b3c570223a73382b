CONSTANTS
    Device = {d1}
    Models <- MCModels
    Handle = {h1, h2}
    None = None
    QueueLength = 1
    EntryCount = 2
    MouseCount = 2
SPECIFICATION FairSpec
INVARIANTS TypeOK MiceAreActive HeldHasOwner
PROPERTIES PowerReturns DeadIsReset
CHECK_DEADLOCK FALSE
