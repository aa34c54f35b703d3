-------------------------- MODULE MCReceiptLedger --------------------------
(* Small instances of the receipt ledger, and of the admission policy whose *)
(* state it stores.                                                         *)
EXTENDS ReceiptLedger, Admission, TLC

CONSTANTS m1, m2, w1, p, q, v, ask, a, b, c

VARIABLES
    scope    \* what this behaviour is about; fixed from the start

MCWorkOf == [m \in Member |-> w1]      \* every member continues the same work
NoMembers == {}
IntactMembers == {m2}

\* Attempts and requests are interchangeable; members are not (Required).
Identities == Permutations(Attempt) \cup Permutations(Request)

\* A wait decision, ordinary work of two producers, and cadence work of one
\* that drives the same work as the other.
Ranks     == ask :> 3 @@ a :> 4 @@ b :> 4 @@ c :> 5
Owners    == ask :> p @@ a :> p @@ b :> q @@ c :> q
Places    == ask :> 1 @@ a :> 3 @@ b :> 2 @@ c :> 4
Works     == ask :> Nil @@ a :> v @@ b :> Nil @@ c :> v

\* Who is watched, and the rival that may pass it.
WatchedPairs == {r \in [rank : {4}, producer : {p, q}, rival : {p, q}] : r.producer # r.rival}

Carries(m) == \E x \in Stored : m \in attempts[x].members
Used == StoredRequests \cup {r \in Request : archive[r] # "none"}

(***************************************************************************)
(* Requests that follow each other, with one member and its history; or    *)
(* members that are replaced, cancelled and fenced, with one request; or   *)
(* the policy, whose changes the ledger only numbers.                      *)
(***************************************************************************)
InScope ==
    CASE scope = "requests" -> ~Carries(m2)
      [] scope = "members" ->
            /\ Cardinality(Used) <= 1
            /\ \A x \in Stored : attempts[x].history = {}
Ledger(A) == scope # "policy" /\ UNCHANGED <<admissionVars, scope>> /\ A /\ InScope'
Choosing(A) == scope = "policy" /\ UNCHANGED <<vars, scope>> /\ A

MCInit ==
    /\ Init /\ AdmissionInit
    /\ \/ scope \in {"requests", "members"} /\ watch = CHOOSE pair \in WatchedPairs : TRUE
       \/ scope = "policy"
MCNext == Ledger(Next) \/ Choosing(AdmissionNext)
MCSpec == MCInit /\ [][MCNext]_<<vars, admissionVars, scope>>
=============================================================================
