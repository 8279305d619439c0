CONSTANTS
    w1 = w1
    w2 = w2
    Events = {1, 2}
    Workers = {w1, w2}
    MaxAttempts = 2
    ClaimLimit = 2
    MaxStops = 1
    MaxErrors = 1
SPECIFICATION OutboxFairSpec
INVARIANTS ClaimIsExclusive NothingIsStranded
PROPERTIES DeliveryIsKept EventsSettle
CHECK_DEADLOCK FALSE
