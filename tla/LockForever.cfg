SPECIFICATION Spec
CONSTANTS
    Workers = {w1}
    Clients = {c1}
    Emails = {e1}
    RequestLimit = 3
    Duration = 1
    AttemptLimit = 2
    Timeout = 2
    RedisFails = FALSE
PROPERTIES LocksEnd
