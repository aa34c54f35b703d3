--------------------------- MODULE ReceiptLedger ---------------------------
(***************************************************************************)
(* The durable receipt ledger of flow control (receipt-ledger.ts): one     *)
(* attempt per automatic turn, from its selection to the evidence that the *)
(* provider answered it.  The ledger never sends anything; it records, in  *)
(* one transaction per call, the facts that decide whether a piece of work *)
(* may be offered again, and it keeps at most one attempt reserved.        *)
(*                                                                         *)
(* Every mutation is one serialised store transaction (pi-ledger-store.ts),*)
(* so every operation is one atomic action.  A call through a handle of an *)
(* earlier attachment is refused and changes nothing, so each action is a  *)
(* call through the current handle.  Left out: texts, content hashes, the  *)
(* byte and count limits, and whether a request carried user input.        *)
(***************************************************************************)
EXTENDS Integers, Sequences, FiniteSets

CONSTANTS
    Attempt,        \* attempt identities
    Member,         \* member identities (id and revision)
    Required,       \* members that every sendable request must carry
    Intact,         \* members whose frame may not be replaced
    Request,        \* request identities
    Work,           \* work identities (id and revision)
    WorkOf,         \* the work a member continues when it is selected, or None
    Entry,          \* native history entry identities
    RecentRequests, \* request records kept in full, 4 in the code
    Keep,           \* settled attempts kept addressable, 32 in the code
    MaxGeneration,  \* bound: attachments explored
    None            \* "undefined"

ASSUME LedgerAssumption ==
    /\ Required \subseteq Member
    /\ Intact \subseteq Member
    /\ WorkOf \in [Member -> Work \cup {None}]
    /\ RecentRequests \in Nat \ {0}
    /\ Keep \in Nat
    /\ MaxGeneration \in Nat \ {0}
    /\ None \notin Attempt \cup Member \cup Request \cup Entry \cup Work
    /\ None \notin {"success", "failure"}

VARIABLES
    generation,   \* attachment that owns the ledger
    active,       \* activeAttemptId
    admission,    \* revision of the admission policy state
    older,        \* pairs of stored attempts, the one selected first first
    attempts,     \* what is stored about each attempt
    archive,      \* requests moved out of their attempt, and whether sent
    retired       \* what is carried forward of the attempts pruned

vars == <<generation, active, admission, older, attempts, archive, retired>>

-----------------------------------------------------------------------------
(* Attempts and requests *)

Terminal == {"settled", "cancelled", "withheld", "uncertain"}
Open     == {"selected", "queued", "claimed", "prepared", "handed-off", "running"}
Outcome  == {"success", "failure"}   \* the three failures are not told apart

RequestRecord ==
    [id : Request, included : SUBSET Member, sent : BOOLEAN,
     outcome : Outcome \cup {None}]
Summary == [count : Nat, included : SUBSET Member, succeeded : SUBSET Member]
Choice  == [intent : Member, revision : Nat]

AttemptRecord ==
    [phase    : Terminal \cup Open \cup {"absent"},
     owner    : Nat,
     consumed : BOOLEAN,
     members  : SUBSET Member,
     choice   : Choice \cup {None},
     charged  : BOOLEAN,
     requests : Seq(RequestRecord),
     summary  : Summary,
     held     : BOOLEAN,          \* attempt.reason: no further request
     outcome  : Outcome \cup {None},
     history  : SUBSET (Member \X Entry)]

Absent ==
    [phase |-> "absent", owner |-> 0, consumed |-> FALSE, members |-> {},
     choice |-> None, charged |-> FALSE, requests |-> <<>>,
     summary |-> [count |-> 0, included |-> {}, succeeded |-> {}],
     held |-> FALSE, outcome |-> None, history |-> {}]

NothingRetired ==
    [attempts |-> {}, members |-> {}, work |-> {}, settled |-> [m \in Member |-> 0]]

Stored  == {a \in Attempt : attempts[a].phase # "absent"}
Live(a) == attempts[a].phase \in Open

\* Bug for testing the properties: folded requests are forgotten.
HasHandoff_Recent(A) == \E i \in 1..Len(A.requests) : A.requests[i].sent

HasHandoff(A) ==
    A.summary.count > 0 \/ \E i \in 1..Len(A.requests) : A.requests[i].sent

\* Members that a successful request is known to have carried.
Delivered(A) ==
    A.summary.succeeded \cup
    UNION {A.requests[i].included :
             i \in {j \in 1..Len(A.requests) :
                      A.requests[j].sent /\ A.requests[j].outcome = "success"}}

LastRequest(A) == A.requests[Len(A.requests)]

StoredRequests ==
    UNION {{attempts[a].requests[i].id : i \in 1..Len(attempts[a].requests)} :
             a \in Attempt}

-----------------------------------------------------------------------------
(* consolidateFlowRequests: fold finished requests older than the recent   *)
(* ones into counts and member sets; the records go to the archive.        *)

Cutoff(requests) ==
    IF Len(requests) > RecentRequests THEN Len(requests) - RecentRequests ELSE 0

Finished(request) == request.sent /\ request.outcome # None

Foldable(requests) ==
    {requests[i] : i \in {j \in 1..Cutoff(requests) : Finished(requests[j])}}

\* The oldest Cutoff records leave together: only the last record of an attempt
\* can be unfinished, so each of them is foldable.
Without(requests, folded) ==
    IF folded = {} THEN requests
    ELSE SubSeq(requests, Cutoff(requests) + 1, Len(requests))

Carried(requests) == UNION {r.included : r \in requests}
Successes(requests) == {r \in requests : r.outcome = "success"}

\* Bugs: what failed requests carried is dropped, or counted as delivered.
Folded_SuccessOnly(summary, folded) ==
    [count     |-> summary.count + Cardinality(folded),
     included  |-> summary.included  \cup Carried(Successes(folded)),
     succeeded |-> summary.succeeded \cup Carried(Successes(folded))]
Folded_AnyOutcome(summary, folded) ==
    [count     |-> summary.count + Cardinality(folded),
     included  |-> summary.included  \cup Carried(folded),
     succeeded |-> summary.succeeded \cup Carried(folded)]

Folded(summary, folded) ==
    [count     |-> summary.count + Cardinality(folded),
     included  |-> summary.included  \cup Carried(folded),
     succeeded |-> summary.succeeded \cup Carried(Successes(folded))]

Consolidated(A) ==
    [A EXCEPT !.requests = Without(@, Foldable(@)),
              !.summary  = Folded(@, Foldable(A.requests))]

\* Records of A that a transaction leaving B in its place removes.
Archived(A) ==
    [r \in Request |->
       IF \E q \in Foldable(A.requests) : q.id = r THEN "sent" ELSE archive[r]]

\* Every record of the attempts that a transaction removes.
Holds(a, r, sent) ==
    \E i \in 1..Len(attempts[a].requests) :
      attempts[a].requests[i].id = r /\ attempts[a].requests[i].sent = sent

ArchiveOf(gone) ==
    [r \in Request |->
       IF \E a \in gone : Holds(a, r, TRUE) THEN "sent"
       ELSE IF \E a \in gone : Holds(a, r, FALSE) THEN "unsent"
       ELSE archive[r]]

\* Store A for attempt a; every mutation ends by consolidating.
Put(a, A) ==
    /\ attempts' = [attempts EXCEPT ![a] = Consolidated(A)]
    /\ archive'  = Archived(A)

Becomes(a, A) ==    \* a change that leaves the request records alone
    /\ attempts' = [attempts EXCEPT ![a] = A]
    /\ archive'  = archive

\* The attempt lookup shared by the operations of the current attachment.
Owned(a, phases) ==
    /\ attempts[a].owner = generation
    /\ attempts[a].phase \in phases

-----------------------------------------------------------------------------
Init ==
    /\ generation = 1
    /\ active = None
    /\ admission = 0
    /\ older = {}
    /\ attempts = [a \in Attempt |-> Absent]
    /\ archive = [r \in Request |-> "none"]
    /\ retired = NothingRetired

\* Bug: a restart takes everything open for unsent.
ClosedPhase_Unsent(A) == "cancelled"

ClosedPhase(A) == IF HasHandoff(A) THEN "uncertain" ELSE "cancelled"

\* A restart or takeover: whatever was open is closed by what it had sent.
Attach ==
    /\ generation < MaxGeneration
    /\ generation' = generation + 1
    /\ active' = None
    /\ attempts' =
         [a \in Attempt |->
            IF ~Live(a) THEN attempts[a]
            ELSE [attempts[a] EXCEPT !.phase = ClosedPhase(attempts[a]),
                                     !.held = TRUE]]
    /\ UNCHANGED <<admission, older, archive, retired>>

\* Forget every attempt; request identities stay fenced by the archive.
Reset ==
    /\ active' = None
    /\ admission' = 0
    /\ older' = {}
    /\ attempts' = [a \in Attempt |-> Absent]
    /\ archive' = ArchiveOf(Attempt)
    /\ retired' = NothingRetired
    /\ UNCHANGED generation

ChoiceFits(members, choice) ==
    choice # None => choice.revision = admission /\ choice.intent \in members

Select(a, members, choice) ==
    /\ active = None
    /\ attempts[a].phase = "absent" /\ a \notin retired.attempts
    /\ members # {}
    /\ ChoiceFits(members, choice)
    /\ active' = a
    /\ older' = older \cup (Stored \X {a})
    /\ Becomes(a, [Absent EXCEPT !.phase = "selected", !.owner = generation,
                                 !.members = members, !.choice = choice])
    /\ UNCHANGED <<generation, admission, retired>>

Queued(a) ==
    /\ Owned(a, {"selected"})
    /\ Becomes(a, [attempts[a] EXCEPT !.phase = "queued"])
    /\ UNCHANGED <<generation, active, admission, older, retired>>

\* Bug: consumption is not recorded.
Claim_Unrecorded(a) ==
    /\ Owned(a, {"queued"})
    /\ Becomes(a, [attempts[a] EXCEPT !.phase = "claimed"])
    /\ UNCHANGED <<generation, active, admission, older, retired>>

\* The queue consumed the message: from here the work may have been spent.
Claim(a) ==
    /\ Owned(a, {"queued"})
    /\ Becomes(a, [attempts[a] EXCEPT !.phase = "claimed", !.consumed = TRUE])
    /\ UNCHANGED <<generation, active, admission, older, retired>>


\* Where the session's native history holds each member: one entry each.
HistoryFits(A, receipts) ==
    /\ receipts \subseteq A.members \X Entry
    /\ \A p, q \in A.history \cup receipts : p[1] = q[1] => p = q

History(a, receipts) ==
    /\ Owned(a, {"claimed", "prepared", "handed-off", "running", "settled", "withheld"})
    /\ HistoryFits(attempts[a], receipts)
    /\ Becomes(a, [attempts[a] EXCEPT !.history = @ \cup receipts])
    /\ UNCHANGED <<generation, active, admission, older, retired>>

\* The same facts found after reattachment, for any consumed attempt.
RecoverHistory(a, receipts) ==
    /\ active = None
    /\ attempts[a].phase \in Terminal /\ attempts[a].consumed
    /\ HistoryFits(attempts[a], receipts)
    /\ Becomes(a, [attempts[a] EXCEPT !.history = @ \cup receipts])
    /\ UNCHANGED <<generation, active, admission, older, retired>>

-----------------------------------------------------------------------------
(* prepare: judge the final inclusion of a request before it is sent.      *)

\* Compaction may drop input that an earlier request already delivered.
Satisfied(A, included, compacted) == included \cup (compacted \cap Delivered(A))

Sendable(A, included, compacted, replaced) ==
    /\ A.members \cap Required \subseteq Satisfied(A, included, compacted)
    /\ replaced \cap Intact = {}
    /\ Satisfied(A, included, compacted) # {}

NewRequest(r, included) ==
    [id |-> r, included |-> included, sent |-> FALSE, outcome |-> None]

MayPrepare(a, r) ==
    /\ Owned(a, {"claimed", "running"})
    /\ ~attempts[a].held
    /\ r \notin StoredRequests /\ archive[r] = "none"

\* The final inclusion: included and replaced or rejected members, and of the
\* omitted ones those that compaction removed.
Inclusion(a, included, compacted, replaced) ==
    /\ included \cup compacted \cup replaced \subseteq attempts[a].members
    /\ included \cap compacted = {}
    /\ replaced \cap (included \cup compacted) = {}

\* Accepted; the admission policy is charged with the first request that
\* carries the selected intent.
Prepare(a, r, included, compacted, replaced) ==
    LET A    == attempts[a]
        open == A.choice # None /\ ~A.charged
        pays == open /\ A.choice.intent \in included
    IN  /\ MayPrepare(a, r)
        /\ Inclusion(a, included, compacted, replaced)
        /\ Sendable(A, included, compacted, replaced)
        /\ open => A.choice.revision = admission
        /\ Put(a, [A EXCEPT !.phase = "prepared",
                            !.requests = Append(@, NewRequest(r, included)),
                            !.charged = @ \/ pays])
        /\ admission' = IF pays THEN A.choice.revision + 1 ELSE admission
        /\ UNCHANGED <<generation, active, older, retired>>

\* Required input was filtered, or nothing is left: no request may go out.
PrepareWithheld(a, r, included, compacted, replaced) ==
    LET A    == attempts[a]
        owns == HasHandoff(A)
    IN  /\ MayPrepare(a, r)
        /\ Inclusion(a, included, compacted, replaced)
        /\ ~Sendable(A, included, compacted, replaced)
        /\ Put(a, [A EXCEPT !.phase = IF owns THEN "running" ELSE "withheld",
                            !.requests = Append(@, NewRequest(r, included)),
                            !.held = TRUE])
        /\ active' = IF owns THEN active ELSE None
        /\ UNCHANGED <<generation, admission, older, retired>>

\* A prepared request failed before it was sent.
WithholdRequest(a) ==
    LET A    == attempts[a]
        owns == HasHandoff(A)
    IN  /\ Owned(a, {"prepared"})
        /\ ~LastRequest(A).sent
        /\ Becomes(a, [A EXCEPT !.phase = IF owns THEN "running" ELSE "withheld",
                                !.held = TRUE])
        /\ active' = IF owns THEN active ELSE None
        /\ UNCHANGED <<generation, admission, older, retired>>

-----------------------------------------------------------------------------
(* Handoff to the provider and what came of it *)

Handoff(a) ==
    /\ Owned(a, {"prepared"})
    /\ Put(a, [attempts[a] EXCEPT
                 !.phase = "handed-off",
                 !.requests[Len(attempts[a].requests)].sent = TRUE])
    /\ UNCHANGED <<generation, active, admission, older, retired>>

RequestOutcome(a, outcome) ==
    /\ Owned(a, {"handed-off"})
    /\ Put(a, [attempts[a] EXCEPT
                 !.phase = "running",
                 !.requests[Len(attempts[a].requests)].outcome = outcome])
    /\ UNCHANGED <<generation, active, admission, older, retired>>

\* The host is inactive, and the provider's answer is not known.
Uncertain(a) ==
    /\ Owned(a, {"handed-off"})
    /\ Becomes(a, [attempts[a] EXCEPT !.phase = "uncertain", !.held = TRUE])
    /\ active' = None
    /\ UNCHANGED <<generation, admission, older, retired>>

Resolved(A, resolution) ==
    IF resolution = "discard"
    THEN [A EXCEPT !.phase = "settled", !.outcome = "failure", !.held = TRUE]
    ELSE [A EXCEPT !.phase = "cancelled", !.held = TRUE]

\* Bug: the reservation is cleared under another open attempt.
ResolveUncertain_Busy(a, resolution) ==
    /\ attempts[a].phase = "uncertain"
    /\ Becomes(a, Resolved(attempts[a], resolution))
    /\ active' = None
    /\ UNCHANGED <<generation, admission, older, retired>>

\* The user's decision on an unknown outcome, whichever attachment made the
\* attempt.  It clears the reservation without looking at it; with another
\* attempt reserved the transaction's validation refuses the result.
ResolveUncertain(a, resolution) ==
    /\ attempts[a].phase = "uncertain"
    /\ active = None
    /\ Becomes(a, Resolved(attempts[a], resolution))
    /\ UNCHANGED <<generation, active, admission, older, retired>>

Settle(a, outcome) ==
    /\ Owned(a, {"running"})
    /\ Becomes(a, [attempts[a] EXCEPT !.phase = "settled", !.outcome = outcome])
    /\ active' = None
    /\ UNCHANGED <<generation, admission, older, retired>>

\* The host could not reconcile: release the reservation by what was sent.
EmergencyReset(a) ==
    LET A == attempts[a]
    IN  /\ Owned(a, Open) /\ active = a
        /\ Becomes(a,
             IF ~HasHandoff(A)
             THEN [A EXCEPT !.phase = "cancelled", !.held = TRUE]
             ELSE IF A.phase = "prepared" /\ ~LastRequest(A).sent
             THEN [A EXCEPT !.phase = "settled", !.outcome = "failure", !.held = TRUE]
             ELSE [A EXCEPT !.phase = "uncertain", !.held = TRUE])
        /\ active' = None
        /\ UNCHANGED <<generation, admission, older, retired>>

Cancel(a) ==
    /\ Owned(a, {"selected", "queued", "claimed", "prepared", "cancelled"})
    /\ ~HasHandoff(attempts[a])
    /\ Becomes(a, [attempts[a] EXCEPT !.phase = "cancelled", !.held = TRUE])
    /\ active' = IF active = a THEN None ELSE active
    /\ UNCHANGED <<generation, admission, older, retired>>

-----------------------------------------------------------------------------
(* retire: prune finished attempts, keeping what fences their work.        *)

Unanswered(A) ==
    \E i \in 1..Len(A.requests) : A.requests[i].sent /\ ~Finished(A.requests[i])

Retirable(a) ==
    /\ a # active
    /\ attempts[a].phase \in {"settled", "cancelled", "withheld"}
    /\ ~Unanswered(attempts[a])

\* All but the Keep most recent of the retirable attempts, unless protected.
Retiring(protected) ==
    {a \in Stored :
       /\ Retirable(a)
       /\ Cardinality({b \in Stored : Retirable(b) /\ <<a, b>> \in older}) >= Keep
       /\ attempts[a].members \cap protected = {}}

\* An attempt cancelled before its message was consumed fences nothing.
Fences_AnyCancelled(A) == A.phase \notin {"absent", "cancelled"}   \* bug

Fences(A) == A.phase # "absent" /\ ~(A.phase = "cancelled" /\ ~A.consumed)

SelectedWork(A) == IF A.choice = None THEN None ELSE WorkOf[A.choice.intent]

\* retainedByReceipt: may the controller not offer m again?
FencedBy(A, m) ==
    /\ Fences(A)
    /\ \/ m \in A.members
       \/ WorkOf[m] # None /\ SelectedWork(A) = WorkOf[m]

Fenced(m) ==
    \/ m \in retired.members
    \/ WorkOf[m] # None /\ WorkOf[m] \in retired.work
    \/ \E a \in Attempt : FencedBy(attempts[a], m)

Won(a, m) ==
    attempts[a].choice # None /\ attempts[a].choice.intent = m
      /\ attempts[a].phase = "settled" /\ attempts[a].outcome = "success"

FoldedMembers(gone) ==
    UNION {attempts[a].members : a \in {b \in gone : Fences(attempts[b])}}
FoldedWork(gone) ==
    {SelectedWork(attempts[a]) : a \in {b \in gone : Fences(attempts[b])}} \ {None}

FoldRetired(gone) ==
    [attempts |-> retired.attempts \cup gone,
     members  |-> retired.members \cup FoldedMembers(gone),
     work     |-> retired.work \cup FoldedWork(gone),
     settled  |-> [m \in Member |->
                     retired.settled[m] + Cardinality({a \in gone : Won(a, m)})]]

Retire(protected) ==
    LET gone == Retiring(protected)
    IN  /\ gone # {}
        /\ \A a \in gone, b \in Stored : <<b, a>> \in older => attempts[b].phase \in Terminal
        /\ older' = older \cap ((Attempt \ gone) \X (Attempt \ gone))
        /\ attempts' = [a \in Attempt |-> IF a \in gone THEN Absent ELSE attempts[a]]
        /\ archive' = ArchiveOf(gone)
        /\ retired' = FoldRetired(gone)
        /\ UNCHANGED <<generation, active, admission>>

-----------------------------------------------------------------------------
Judge(a, r, included, compacted, replaced) ==
    \/ Prepare(a, r, included, compacted, replaced)
    \/ PrepareWithheld(a, r, included, compacted, replaced)

Choices == {None} \cup [intent : Member, revision : 0..admission]

Step(a) ==
    \/ \E members \in SUBSET Member, choice \in Choices : Select(a, members, choice)
    \/ Queued(a)
    \/ Claim(a)
    \/ \E m \in Member, e \in Entry :
         History(a, {<<m, e>>}) \/ RecoverHistory(a, {<<m, e>>})
    \/ \E r \in Request, i, c, x \in SUBSET Member : Judge(a, r, i, c, x)
    \/ WithholdRequest(a)
    \/ Handoff(a)
    \/ \E o \in Outcome : RequestOutcome(a, o) \/ Settle(a, o)
    \/ Uncertain(a)
    \/ \E d \in {"retry", "discard"} : ResolveUncertain(a, d)
    \/ EmergencyReset(a)
    \/ Cancel(a)

Next ==
    \/ \E a \in Attempt : Step(a)
    \/ Attach
    \/ Reset
    \/ \E protected \in SUBSET Member : Retire(protected)

Spec == Init /\ [][Next]_vars

-----------------------------------------------------------------------------
(* What the ledger promises, for whatever it records: Reservation. *)

Fate(a) ==
    IF a \in retired.attempts THEN "forgotten"
    ELSE CASE attempts[a].phase = "absent"    -> "free"
           [] attempts[a].phase \in Open      -> IF HasHandoff(attempts[a]) THEN "sent" ELSE "held"
           [] attempts[a].phase = "uncertain" -> "unknown"
           [] attempts[a].phase = "settled"   -> "done"
           [] OTHER                           -> "dropped"

Promise == INSTANCE Reservation WITH Turn <- Attempt, Nobody <- None, holder <- active,
                                     fate <- [a \in Attempt |-> Fate(a)]

\* The ledger implements the reservation it promises: one holder, and a turn
\* that was sent is done, or unknown until the user decides.
ReservationSpec == Promise!Spec

-----------------------------------------------------------------------------
(* Properties *)

\* The ledger's variables keep their types (FlowLedgerState).
TypeOK ==
    /\ generation \in 1..MaxGeneration
    /\ active \in Attempt \cup {None}
    /\ admission \in Nat
    /\ older \subseteq Stored \X Stored
    /\ IsFiniteSet(Stored)
    /\ attempts \in [Attempt -> AttemptRecord]
    /\ archive \in [Request -> {"none", "unsent", "sent"}]
    /\ retired \in [attempts : SUBSET Attempt, members : SUBSET Member,
                    work : SUBSET Work, settled : [Member -> Nat]]

\* At most one attempt is open; it is the one the ledger names as active, and
\* the current attachment owns it, whatever crashes and decisions came before.
SingleReservation ==
    /\ \A a \in Attempt : Live(a) => active = a /\ attempts[a].owner = generation
    /\ active # None => Live(active)

\* No sequence of calls leads to a state that validate() would refuse as
\* inconsistent, which would leave the whole ledger unreadable; nor to one in
\* which prepare would refuse with "Admission policy changed before final
\* inclusion": the policy stands still while a choice is open.
Validates ==
    /\ \A a \in Stored :
         LET A == attempts[a]
             n == Len(A.requests)
         IN  /\ ~A.consumed =>
                  /\ n = 0 /\ A.summary.count = 0 /\ A.history = {}
                  /\ A.phase \notin {"claimed", "prepared", "handed-off", "running", "settled"}
             /\ A.phase = "handed-off" => n > 0 /\ LastRequest(A).sent /\ LastRequest(A).outcome = None
             /\ A.phase = "prepared" => n > 0 /\ ~LastRequest(A).sent
             /\ A.phase = "settled" => A.outcome # None
             /\ A.summary.succeeded \subseteq A.summary.included
             /\ \A p, q \in A.history : p[1] = q[1] => p = q
             /\ \A i \in 1..n : A.requests[i].outcome # None => A.requests[i].sent
    /\ \A a, b \in Stored : \A i \in 1..Len(attempts[a].requests) :
         \A j \in 1..Len(attempts[b].requests) :
           attempts[a].requests[i].id = attempts[b].requests[j].id => a = b /\ i = j
    /\ \A a \in Attempt :
         Live(a) /\ attempts[a].choice # None /\ ~attempts[a].charged
           => attempts[a].choice.revision = admission

\* Fairness is charged only for work that a request really carried, and that
\* evidence survives the folding of old requests.
ChargedWasIncluded ==
    \A a \in Attempt :
      LET A == attempts[a]
      IN  A.charged =>
            \/ A.choice.intent \in A.summary.included
            \/ \E i \in 1..Len(A.requests) : A.choice.intent \in A.requests[i].included

\* Was this request ever handed to the provider?
EverSent(r) == archive[r] = "sent" \/ \E a \in Attempt : Holds(a, r, TRUE)

HandoffCount(A) ==
    A.summary.count + Cardinality({i \in 1..Len(A.requests) : A.requests[i].sent})

EvidenceFollows(A, B) ==
    A.phase # "absent" /\ B.phase # "absent" =>
      /\ HandoffCount(B) = HandoffCount(A) +
           (IF A.phase = "prepared" /\ B.phase = "handed-off" THEN 1 ELSE 0)
      /\ \/ Delivered(B) = Delivered(A)
         \/ /\ A.phase = "handed-off" /\ B.phase = "running"
            /\ Delivered(B) = Delivered(A) \cup LastRequest(A).included

\* While an attempt is stored, what its requests delivered and how many were
\* handed off changes only by a handoff or an answer, never by folding.
EvidenceExact == [][\A a \in Attempt : EvidenceFollows(attempts[a], attempts'[a])]_vars

\* No attempt that sent something ends as if it had not.
EndsAsSent(a) ==
    HandoffCount(attempts[a]) > 0 =>
      /\ attempts'[a].phase \in {"cancelled", "withheld"}
           => attempts[a].phase \in {"uncertain", "cancelled"}
      /\ attempts'[a].phase = "absent"
           => retired' = NothingRetired \/ ~Unanswered(attempts[a])

SentOnce(a) ==
    attempts[a].phase = "prepared" /\ attempts'[a].phase = "handed-off"
      => ~EverSent(LastRequest(attempts[a]).id)

\* What was handed off stays so, across reattachment, pruning and reset: a request
\* identity is sent at most once and the ledger never forgets that it was; an
\* attempt that sent something never ends as if it had not, except by the user's
\* decision on an unknown outcome, and is pruned only when answered.
HandoffsKept ==
    [][/\ \A r \in Request : EverSent(r) => EverSent(r)'
       /\ \A a \in Attempt : SentOnce(a) /\ EndsAsSent(a)]_vars

\* Input that was consumed.
Spent(m) ==
    \/ m \in retired.members
    \/ \E a \in Stored : attempts[a].consumed /\ m \in attempts[a].members

\* Successful turns counted for an intent, continuing its iteration numbers.
Iterations(m) ==
    retired.settled[m] + Cardinality({a \in Attempt : Won(a, m)})

Wiped == Stored' = {} /\ retired' = NothingRetired

\* Pruning changes neither what is fenced nor how far the iterations went.
PrunedUnseen(m) ==
    retired'.attempts # retired.attempts =>
      Fenced(m)' = Fenced(m) /\ Iterations(m)' = Iterations(m)

\* Until the ledger is reset, nothing that closes, resolves or prunes an attempt
\* lets the controller offer its consumed input again; and pruning is invisible
\* to admission: retired attempts "must fence exactly what they fenced when
\* stored" (controller.ts), and iteration numbers go on.
FencesHold ==
    [][Wiped \/ \A m \in Member : (Spent(m) => Fenced(m)') /\ PrunedUnseen(m)]_vars

\* The comment of resolveUncertain (receipt-ledger.ts:698-700): after "retry"
\* the attempt "is not a success, so its work becomes eligible for a fresh
\* attempt".
RetryReleasesWork ==
    [][\A a \in Attempt :
         attempts[a].phase = "uncertain" /\ attempts'[a].phase = "cancelled"
           => \A m \in attempts[a].members : ~FencedBy(attempts'[a], m)]_vars

=============================================================================
