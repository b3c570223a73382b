CONSTANTS
    Source = {0, 1}
    Setups <- AllSetups
    QueueLength = 1
    PendingLength = 1
    Reselect = FALSE
SPECIFICATION Spec
INVARIANTS TypeOK KeysReleased ButtonsReleased DuplicatesKnown
PROPERTIES CarriedInputWaits HandoffIsClean
CHECK_DEADLOCK FALSE
