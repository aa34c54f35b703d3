\* One process, two runs in one workspace: one at a time beside a writer of
\* another session, or two at a time.
SPECIFICATION MCSpec
CONSTANTS
    Process = {a}
    Workspace = {v}
    MaxRuns = 2
    QueueSize = 2
    Limits = {1, 2}
    Policies = {"serialize", "parallel"}
    MaxStopFailures = 1
    MaxForeign = 1
    None = None
PROPERTIES WritersAlone LocksFollowWorkers SuccessIsReported TerminalStays LeavesNothing RunsEnd
CHECK_DEADLOCK FALSE
