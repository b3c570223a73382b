CONSTANTS
    Devices = {d1, d2}
    Computers = {c1}
    MaxBonds = 2
    Codes = {k1, k2}
    MaxAttempts = 2
    None = None
SPECIFICATION FairSpec
INVARIANTS TypeOK ReadyOverSecureLink GoneHoldsNothing AnswersOpenPrompt CancelledLeavesNoLink
PROPERTIES BondsAreKept OperationEnds CancelTakesEffect
CHECK_DEADLOCK FALSE
