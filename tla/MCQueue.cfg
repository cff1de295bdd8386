CONSTANTS
    Workers = {w1, w2}
    Jobs = {a, b}
    Runnable = {a, b}
    MaxRetry = 1
    Delays = {0, 1}
    Backoff = 1
    Processors = {p1}
    MaxCrashes = 1
SPECIFICATION MCSpec
INVARIANTS TypesOK HandlerDiscipline QuietAfterStop 
 
CHECK_DEADLOCK FALSE
