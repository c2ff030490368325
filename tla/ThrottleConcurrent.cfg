SPECIFICATION Spec
CONSTANTS
    Workers = {w1, w2}
    Clients = {c1}
    Emails = {e1}
    RequestLimit = 1
    Duration = 1
    AttemptLimit = 3
    Timeout = 2
    RedisFails = TRUE
INVARIANTS TypeOK ExcessBounded RefusedForCause
PROPERTIES DatedLocksEnd
