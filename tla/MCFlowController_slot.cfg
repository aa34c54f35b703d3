\* One producer and one user turn are enough to block the pending slot.
SPECIFICATION MCSpec
CONSTANTS
    p = p  q = q
    Producer = {p}
    MaxRevision <- OnceReplaced
    MaxTurns = 1
INVARIANTS SlotFree
CHECK_DEADLOCK FALSE
