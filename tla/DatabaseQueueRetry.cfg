CONSTANTS
    Workers = {w1}
    Jobs = {a}
    Runnable = {a}
    MaxRetry = 1
    Delays = {0}
    Backoff = 1
    MaxCrashes = 0
SPECIFICATION FairSpec
PROPERTIES JobsFinish
CHECK_DEADLOCK FALSE
