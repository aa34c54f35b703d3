\* A run is resumed while its worker is being stopped.
SPECIFICATION MCSpec
CONSTANTS
    Process = {a}
    Workspace = {v}
    MaxRuns = 2
    QueueSize = 2
    Limits = {2}
    Policies = {"serialize"}
    MaxStopFailures = 0
    MaxForeign = 0
    None = None
INVARIANTS OneWorkerPerConversation
CHECK_DEADLOCK FALSE
