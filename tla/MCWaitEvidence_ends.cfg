\* Two waits with deadlines, one watched wait, one subscription.
SPECIFICATION MCSpec
CONSTANTS
    t1 = t1
    Token = {t1, t2}
    MaxTime = 3
    MaxDelay = 1
    Fresh = 1
    Cadence = 1
    Timeout = 1
    Grace = 0
    Predicate = {p, q}
    MaxRevision = 4
    MaxPending = 2
    MaxProbes = 1
    MaxReplays = 1
    MaxRestarts = 1
    MaxCrashes = 1
    None = None
    Nil = Nil
INVARIANTS Faithful
PROPERTIES ReportWins DeadlineNoticed SilenceNoticed EndReaches
CHECK_DEADLOCK FALSE
