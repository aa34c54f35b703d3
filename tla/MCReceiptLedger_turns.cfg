\* Two attempts over one piece of work, one kept: reservations, restarts,
\* decisions, folding; pruning and its fences;
\* and the policy with every kind of work that competes for a turn, with waits,
\* stops and gates.
SPECIFICATION MCSpec
CONSTANTS
    Attempt = {a1, a2}
    m1 = m1  m2 = m2  w1 = w1
    p = p  q = q  v = v
    ask = ask  a = a  b = b  c = c
    Member = {m1, m2}
    Required = {m1}
    Intact <- IntactMembers
    Work = {w1}
    WorkOf <- MCWorkOf
    Request = {r1, r2}
    Entry = {e1}
    RecentRequests = 1
    Keep = 1
    MaxGeneration = 2
    None = None
    Nil = Nil
    Intent = {ask, a, b, c}
    Producer = {p, q}
    WorkId = {v}
    RankOf <- Ranks
    ProducerOf <- Owners
    SequenceOf <- Places
    WorkIdOf <- Works
    Independent = {}
    Pairs <- WatchedPairs
    CadenceLimit = 4
SYMMETRY Identities
INVARIANTS SingleReservation Validates ChargedWasIncluded FairTurns NoLostIntent
PROPERTIES HandoffsKept EvidenceExact FencesHold DecisionDelivered ReservationSpec
CHECK_DEADLOCK FALSE
