\* What a user is told "retry" does to an interrupted turn.
SPECIFICATION MCSpec
CONSTANTS
    Attempt = {a1}
    m1 = m1  m2 = m2  w1 = w1
    p = p  q = q  v = v
    ask = ask  a = a  b = b  c = c
    Member = {m1, m2}
    Required = {m1}
    Intact <- NoMembers
    Work = {w1}
    WorkOf <- MCWorkOf
    Request = {r1, r2}
    Entry = {}
    RecentRequests = 1
    Keep = 0
    MaxGeneration = 2
    None = None
    Nil = Nil
    Intent = {ask, a, b, c}
    Producer = {p, q}
    WorkId = {v}
    RankOf <- Ranks
    ProducerOf <- Owners
    SequenceOf <- Places
    WorkIdOf <- Works
    Independent = {}
    Pairs <- WatchedPairs
    CadenceLimit = 4
SYMMETRY Identities
PROPERTIES RetryReleasesWork
CHECK_DEADLOCK FALSE
