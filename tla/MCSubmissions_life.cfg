\* Two processes that take the journal over from one another, or update
\* their package; and sessions with two messages each.
SPECIFICATION MCSpec
CONSTANTS
    x = x  y = y  j = j  k = k  a = a  b = b
    Process = {x, y}
    Owner = {x, y}
    Key = {j, k}
    Transaction <- MCTransaction
    MaxSequence = 7
    MaxWaiting = 1
    typed = typed  adapter = adapter
    first = first  second = second  firstAgain = firstAgain  secondAgain = secondAgain
    Id = {typed, adapter, first, second, firstAgain, secondAgain}
    Typed = {typed}
    Adapter = {adapter}
    NextIssue <- MCNextIssue
    MaxRestarts = 1
    MaxRevision = 2
    MaxLives = 2
    MaxVersion = 3
    None = None
    Absent = None
    Nil = None
SYMMETRY Processes
INVARIANTS Openable ReadsSettled AtMostOnce Accounted NoLostRelease Exclusive Settled
PROPERTIES AtomicStoreSpec
CHECK_DEADLOCK FALSE
