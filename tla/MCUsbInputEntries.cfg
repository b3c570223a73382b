CONSTANTS
    Device = {d1}
    Models <- MCModels
    Handle = {h1, h2}
    None = None
    QueueLength = 2
    EntryCount = 2
    MouseCount = 2
SPECIFICATION Spec
INVARIANTS EntriesAreActive
CHECK_DEADLOCK FALSE
