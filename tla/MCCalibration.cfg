CONSTANTS
    Slot = {0, 1}
    Relative = {0, 1}
    None = None
    MaxMotion = 2
SPECIFICATION Spec
INVARIANTS TypeOK PathIsOwned SpanIsDelivered TypedIsReleased CarriedKeyChoosesNothing
