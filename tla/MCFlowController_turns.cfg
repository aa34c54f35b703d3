\* Two producers, with one user turn or one replaced intent: what a run may
\* consume, and that the loop ends, closes and forgets nothing.
SPECIFICATION MCSpec
CONSTANTS
    p = p  q = q
    Producer = {p, q}
    MaxRevision <- OnceReplaced
    MaxTurns = 1
INVARIANTS ItemAccounted
PROPERTIES ClaimsCurrent ConsumedOnce Rests CloseCompletes WakeHeard
CHECK_DEADLOCK FALSE
