CONSTANTS
    Source = {0, 1}
    Setups <- SharingSetups
    QueueLength = 1
    PendingLength = 1
    Reselect = FALSE
SPECIFICATION Spec
PROPERTIES ResetKeepsBarrier
CHECK_DEADLOCK FALSE
