\* One input, one request held for it and its retry.
SPECIFICATION MCSpec
CONSTANTS
    Source = {s}
    MaxRequests = 2
    Keep = 1
    MaxOwners = 1
    None = None
PROPERTIES RetryUnchanged
CHECK_DEADLOCK FALSE
