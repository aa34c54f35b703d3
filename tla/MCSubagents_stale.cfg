\* A second process opens the session while the first one owns it.
SPECIFICATION MCSpec
CONSTANTS
    Process = {a, b}
    Workspace = {v}
    MaxRuns = 1
    QueueSize = 1
    Limits = {1}
    Policies = {"serialize"}
    MaxStopFailures = 0
    MaxForeign = 0
    None = None
PROPERTIES TerminalStays
CHECK_DEADLOCK FALSE
