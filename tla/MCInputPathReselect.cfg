CONSTANTS
    Source = {0, 1}
    Setups <- KeyboardSetups
    QueueLength = 1
    PendingLength = 1
    Reselect = TRUE
SPECIFICATION Spec
INVARIANTS KeysReleased
CHECK_DEADLOCK FALSE
