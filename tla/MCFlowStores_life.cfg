\* Three requests over two inputs, with a restart; waits of one work on two
\* executions, and of two works on one.
SPECIFICATION MCSpec
CONSTANTS
    Source = {s1, s2}
    s1 = s1
    MaxRequests = 3
    Keep = 1
    MaxOwners = 2
    Automatic = Automatic  c = c  u = u
    x = x  y = y
    Work = {Automatic, c, u}
    BindingOf <- OneCampaign
    Execution = {x, y}
    Monitored = {y}
    Token = {w1, w2}
    MaxTime = 2
    MaxResets = 1
    None = None
    Nil = None
SYMMETRY Tokens
INVARIANTS Validates WaitsValidate
PROPERTIES CancelledStaysOut NeverRequiredAgain DecisionKept
CHECK_DEADLOCK FALSE
