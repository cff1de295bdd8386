CONSTANTS
    Clients = {c1, c2}
    TTL = 3
    Retry = 2
    WatchInterval = 2
    MaxHold = 2
    Failing = {"extend"}
SPECIFICATION Spec
INVARIANT Exclusion
CHECK_DEADLOCK FALSE
