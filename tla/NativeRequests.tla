------------------------------ MODULE NativeRequests ------------------------------
(***************************************************************************)
(* The receipts of the requests a session sends to a provider              *)
(* (flow-control/native-request-store.ts, native-request-retention.ts) and *)
(* the observer of Pi's checkpoints that drives them                       *)
(* (pi-native-requests.ts).                                                *)
(*                                                                         *)
(* Input of the user that was consumed is a source.  A request captures    *)
(* the sources its context shows and, after conversion, how each came out. *)
(* Those the store has not seen delivered are required: when one is missing*)
(* the request is withheld, and holds back all others until the user lets  *)
(* it be tried again, cancels its input or clears the flow state.          *)
(*                                                                         *)
(* A method of the store is one transaction.  A request's number is its    *)
(* place in the store, as records are appended.  A source is delivered     *)
(* ("intact" or "converted") or not.  Hashes, failure diagnostics, wait    *)
(* tokens, provider routes and the limits on bytes are left out.           *)
(***************************************************************************)
EXTENDS Integers, FiniteSets

CONSTANTS
    Source,        \* inputs of the user
    MaxRequests,   \* bound: requests
    Keep,          \* settled requests that retirement leaves
    MaxOwners,     \* bound: attachments to the session
    None

\* The evidence of a request is made of inputs and of the word "projection".
ASSUME NativeAssumption ==
    /\ {MaxRequests, Keep, MaxOwners} \subseteq Nat \ {0}
    /\ None \notin Source \cup Nat /\ "projection" \notin Source

VARIABLES
    records,     \* each request's receipt, or None
    begun,       \* requests begun so far
    place,       \* where each source is: new, in the context, compacted, forgotten
    archived,    \* sources whose submission has been archived
    reconciled,  \* sources known to be absent from the context
    cancelled,   \* the durable index: cancelled sources of retired requests
    owner,       \* the attachment
    turn,        \* the request under way
    reached,     \* every source a conversion has delivered
    dropped      \* every source the user has cancelled

sources == <<place, archived>>
history == <<reached, dropped>>
vars == <<records, begun, sources, reconciled, cancelled, owner, turn, history>>

Request == 1..MaxRequests
\* An aborted request counts as a failed one.
Outcome == {"success", "failure", "withheld"}
Projection == {"none", "delivered", "lost"}

Capture == [captured : SUBSET Source, delivered : SUBSET Source, projection : Projection]
Authorization == [owner : 1..MaxOwners, request : Request \cup {None}]
Receipt ==
    [owner : 1..MaxOwners, capture : Capture, required : SUBSET Source,
     cancelled : SUBSET Source, unprojected : BOOLEAN, retryOf : Request \cup {None},
     retry : Authorization \cup {None}, sent : BOOLEAN, outcome : Outcome \cup {None},
     reset : BOOLEAN]
Turn == [pc : {"idle", "captured", "ready", "failed", "executing"},
         id : Request \cup {None}, capture : Capture \cup {None}]
Idle == [pc |-> "idle", id |-> None, capture |-> None]

\* What stands for nothing is no receipt, authorization or outcome.
ASSUME NothingAssumption == None \notin Receipt \cup Authorization \cup Outcome

TypeOK ==
    /\ records \in [Request -> Receipt \cup {None}]
    /\ begun \in 0..MaxRequests
    /\ place \in [Source -> {"new", "context", "compacted", "forgotten"}]
    /\ {archived, reconciled, cancelled, reached, dropped} \subseteq SUBSET Source
    /\ owner \in 1..MaxOwners
    /\ turn \in Turn

Init ==
    /\ records = [r \in Request |-> None]
    /\ begun = 0
    /\ place = [s \in Source |-> "new"]
    /\ archived = {} /\ reconciled = {} /\ cancelled = {}
    /\ owner = 1
    /\ turn = Idle
    /\ reached = {} /\ dropped = {}

-----------------------------------------------------------------------------
(* Receipts as values *)

Retained(recs) == {r \in Request : recs[r] # None}
Unresolved(record) == record.outcome = None /\ ~record.reset
Withheld(record) ==
    /\ record.outcome = "withheld"
    /\ record.required # {} \/ record.capture.projection # "none"
Held(record) == Withheld(record) /\ ~record.reset
HoldPending(record) ==
    /\ Held(record)
    /\ IF record.required # {} THEN ~(record.required \subseteq record.cancelled)
       ELSE ~record.unprojected
Retried(record) == record.retry # None /\ record.retry.request # None
Authorized(record) ==
    record.retry # None /\ record.retry.request = None /\ record.retry.owner = owner

\* requiresRecovery: nothing else may be sent.
Blocks(record) ==
    Unresolved(record) \/ (HoldPending(record) /\ ~Retried(record) /\ ~Authorized(record))
Blocked(recs) == \E r \in Retained(recs) : Blocks(recs[r])

Received(recs) == UNION {recs[r].capture.delivered : r \in Retained(recs)}
\* Only while the hold stands.
CancelledBy_Held(recs) ==
    UNION {recs[r].cancelled : r \in {o \in Retained(recs) : Held(recs[o])}}
CancelledBy(recs) == UNION {recs[r].cancelled : r \in Retained(recs)}
Cancelled(recs) == cancelled \cup CancelledBy(recs)
Claimed == {s \in Source : place[s] \in {"context", "compacted"}}
Shown == {s \in Source : place[s] = "context"}

Finished(recs, r, outcome) ==
    [recs EXCEPT ![r].outcome = outcome]

-----------------------------------------------------------------------------
(* Retirement: native-request-retention.ts *)

\* What a success shows of its input, or nothing when it shows too little.
Evidence(record) ==
    IF record.outcome = "success" /\ record.capture.captured = record.capture.delivered
       /\ record.capture.projection # "lost"
    THEN record.capture.captured
         \cup (IF record.capture.projection = "none" THEN {} ELSE {"projection"})
    ELSE {}

Linked(record) == record.retryOf # None \/ record.retry # None

\* A later success shows everything this one does.
Superseded(recs) ==
    {r \in Retained(recs) :
        /\ Evidence(recs[r]) # {} /\ ~Linked(recs[r])
        /\ Evidence(recs[r]) \subseteq
             UNION {Evidence(recs[o]) : o \in {p \in Retained(recs) : p > r}}}

\* The newest ones stay.
Oldest(requests, keep) ==
    {r \in requests : Cardinality({o \in requests : o > r}) >= keep}

\* Settled requests without input, projection or retry.
Empty(recs) ==
    {r \in Retained(recs) :
        /\ ~Unresolved(recs[r]) /\ recs[r].outcome # None
        /\ recs[r].capture.captured = {} /\ recs[r].capture.projection = "none"
        /\ ~Linked(recs[r])}

\* A retry and what it retries stay or go together.
Chains_Apart(recs) == {{r} : r \in Retained(recs)}
Chains(recs) ==
    LET first[r \in Request] ==
            IF recs[r] = None \/ recs[r].retryOf = None THEN r ELSE first[recs[r].retryOf]
    IN {{o \in Retained(recs) : first[o] = first[r]} : r \in Retained(recs)}

\* liveOperations: a source whose submission is retained keeps its requests.
LiveSources_None == {}
LiveSources == Claimed \ archived

Retirable(recs, protected) ==
    {chain \in Chains(recs) : \A r \in chain :
        LET record == recs[r]
        IN /\ ~Unresolved(record) /\ r \notin protected
           /\ record.cancelled \subseteq reconciled
           /\ record.outcome = "success" =>
                \/ Evidence(record) # {}
                \/ record.capture.captured = {} /\ record.capture.projection = "none"
           /\ HoldPending(record) => Retried(record)
           /\ record.capture.captured \cap LiveSources = {}}

Retiring(recs, protected, keep) ==
    LET chains == Retirable(recs, protected)
        oldest == Oldest(UNION chains, keep)
    IN UNION {chain \in chains : chain \subseteq oldest}

Without(recs, gone) == [r \in Request |-> IF r \in gone THEN None ELSE recs[r]]

\* retireSuperseded and retireBeforeRequest.
Pruned(recs) == Without(recs, Superseded(recs))
PrunedBefore(recs) ==
    IF Blocked(recs) THEN recs
    ELSE Without(recs, Superseded(recs) \cup Oldest(Empty(recs), Keep))

\* The cancellations of what is removed go to the index.
Indexed(recs) ==
    cancelled \cup
        UNION {records[r].cancelled : r \in Retained(records) \ Retained(recs)}

\* A commit of the store.
Stored(recs) == records' = recs /\ cancelled' = Indexed(recs)

-----------------------------------------------------------------------------
(* The session: consuming, compacting, archiving *)

\* A prompt or a queued message is taken into the context.
Consume(s) ==
    /\ turn.pc \in {"idle", "failed"}
    /\ place[s] = "new"
    /\ place' = [place EXCEPT ![s] = "context"]
    /\ UNCHANGED <<records, begun, archived, reconciled, cancelled, owner, turn, history>>

Compact(gone) ==
    /\ turn.pc = "idle" /\ gone # {} /\ gone \subseteq Shown
    /\ place' = [s \in Source |-> IF s \in gone THEN "compacted" ELSE place[s]]
    /\ UNCHANGED <<records, begun, archived, reconciled, cancelled, owner, turn, history>>

Archive(s) ==
    /\ turn.pc = "idle" /\ ~Blocked(records)
    /\ s \in LiveSources /\ s \in reached \cup dropped
    /\ archived' = archived \cup {s}
    /\ UNCHANGED <<records, begun, place, reconciled, cancelled, owner, turn, history>>

-----------------------------------------------------------------------------
(* One request: the checkpoints of a turn *)

\* transformContext and convertToLlm.  Compacted input is reconciled first,
\* cancelled input is left out, and must be found for that; extensions may
\* change or drop the rest.
Captured(delivered, projection) ==
    LET members == Shown \ Cancelled(records)
        known == reconciled \cup (Claimed \ Shown)
    IN /\ turn.pc \in {"idle", "failed"}
       /\ reconciled' = known
       /\ delivered \subseteq members
       /\ turn' = IF CancelledBy(records) \subseteq Shown \cup known
                  THEN [turn EXCEPT !.pc = "captured",
                            !.capture = [captured |-> members, delivered |-> delivered,
                                         projection |-> projection]]
                  ELSE turn
       /\ UNCHANGED <<records, begun, sources, cancelled, owner, history>>

\* A request that was prepared before and never sent is withheld.
Settled == IF turn.id = None THEN records ELSE Finished(records, turn.id, "withheld")

Waiting(recs) == {r \in Retained(recs) : HoldPending(recs[r]) /\ Authorized(recs[r])}

\* What a request is the retry of: the first that waits for one.
RetryOf(recs) ==
    IF Waiting(recs) = {} THEN {None}
    ELSE {r \in Waiting(recs) : \A o \in Waiting(recs) : r <= o}

Demanded(recs, enforced) ==
    IF enforced THEN turn.capture.captured \ (Received(recs) \cup Cancelled(recs)) ELSE {}

\* begin: every input that was consumed must be accounted for, and a retry
\* must have the input that is held.
Admissible(recs, enforced) ==
    /\ enforced => ~Blocked(recs)
    /\ enforced => Claimed \subseteq reconciled \cup Received(recs) \cup Cancelled(recs)
                                   \cup turn.capture.captured
    /\ Waiting(recs) # {} => enforced
    /\ \A r \in Waiting(recs) :
          recs[r].required \ Cancelled(recs) \subseteq turn.capture.captured

NewRecord(capture, required, retryOf) ==
    [owner |-> owner, capture |-> capture, required |-> required, cancelled |-> {},
     unprojected |-> FALSE, retryOf |-> retryOf, retry |-> None, sent |-> FALSE,
     outcome |-> None, reset |-> FALSE]

\* The retry uses the authorization up.
Appended(recs, r, record) ==
    [o \in Request |->
        IF o = r THEN record
        ELSE IF o = record.retryOf
        THEN [recs[o] EXCEPT !.retry = [owner |-> owner, request |-> r]]
        ELSE recs[o]]

\* beforeRequest; enforced is whether flow control is on.  What comes after
\* begin may fail: the request is then still pending.
BeforeRequest(enforced, fails) ==
    LET recs == PrunedBefore(Settled)
        r == begun + 1
    IN /\ turn.pc = "captured" /\ r \in Request
       /\ enforced \/ turn.capture.projection = "none"
       /\ IF Admissible(recs, enforced)
          THEN /\ \E retryOf \in RetryOf(recs) :
                    Stored(Appended(recs, r,
                           NewRecord(turn.capture, Demanded(recs, enforced), retryOf)))
               /\ begun' = r
               /\ turn' = [Idle EXCEPT !.pc = IF fails THEN "failed" ELSE "ready", !.id = r]
               /\ reached' = reached \cup turn.capture.delivered
          ELSE /\ Stored(recs)
               /\ turn' = Idle
               /\ UNCHANGED <<begun, reached>>
       /\ UNCHANGED <<sources, reconciled, owner, dropped>>

\* streamFunction takes the pending request.
Execute ==
    /\ turn.pc = "ready"
    /\ turn' = [turn EXCEPT !.pc = "executing"]
    /\ UNCHANGED <<records, begun, sources, reconciled, cancelled, owner, history>>

\* A compaction's own request carries no sources.
Maintain ==
    /\ turn.pc = "idle" /\ begun < MaxRequests
    /\ ~Blocked(records) /\ Waiting(records) = {}
    /\ begun' = begun + 1
    /\ Stored(Appended(records, begun',
                       NewRecord([captured |-> {}, delivered |-> {}, projection |-> "none"],
                                 {}, None)))
    /\ turn' = [Idle EXCEPT !.pc = "executing", !.id = begun']
    /\ UNCHANGED <<sources, reconciled, owner, history>>

Complete(record) ==
    /\ record.required \subseteq record.capture.delivered
    /\ record.capture.projection # "lost"

\* onPayload, handoff: the last look at what the provider gets.
Handoff ==
    LET record == records[turn.id]
        clean == record.capture.delivered \cap Cancelled(records) = {}
    IN /\ turn.pc = "executing" /\ ~record.sent
       /\ IF clean /\ Complete(record)
          THEN Stored([records EXCEPT ![turn.id].sent = TRUE]) /\ UNCHANGED turn
          ELSE Stored(Finished(records, turn.id, "withheld")) /\ turn' = Idle
       /\ UNCHANGED <<begun, sources, reconciled, owner, history>>

\* The provider could not be prepared, or the turn is interrupted before.
Withhold ==
    /\ turn.pc = "executing" /\ ~records[turn.id].sent
    /\ Stored(Finished(records, turn.id, "withheld"))
    /\ turn' = Idle
    /\ UNCHANGED <<begun, sources, reconciled, owner, history>>

Answer(outcome) ==
    /\ turn.pc = "executing" /\ records[turn.id].sent
    /\ outcome # "withheld"
    /\ Stored(Finished(records, turn.id, outcome))
    /\ turn' = Idle
    /\ UNCHANGED <<begun, sources, reconciled, owner, history>>

\* The response breaks off: what became of the request stays unknown.
Lost ==
    /\ turn.pc = "executing" /\ records[turn.id].sent
    /\ turn' = Idle
    /\ UNCHANGED <<records, begun, sources, reconciled, cancelled, owner, history>>

-----------------------------------------------------------------------------
(* The user's decisions, at an idle session *)

Undecided(r) ==
    /\ turn.pc \in {"idle", "failed"}
    /\ \A o \in Retained(records) : ~Unresolved(records[o])
    /\ r \in Retained(records) /\ ~Retried(records[r])

\* /flow retry
AuthorizeRetry(r) ==
    /\ Undecided(r) /\ HoldPending(records[r])
    /\ Stored([records EXCEPT ![r].retry = [owner |-> owner, request |-> None]])
    /\ UNCHANGED <<begun, sources, reconciled, owner, turn, history>>

CancelSources(r, gone) ==
    /\ Undecided(r) /\ Held(records[r])
    /\ gone # {} /\ gone \subseteq records[r].required
    /\ Stored([records EXCEPT ![r].cancelled = @ \cup gone, ![r].retry = None])
    /\ dropped' = dropped \cup gone
    /\ UNCHANGED <<begun, sources, reconciled, owner, turn, reached>>

\* All the projections of a request or some of them; what is left is still held, and
\* an authorization is void.
CancelProjections(r) ==
    /\ Undecided(r) /\ Held(records[r])
    /\ records[r].required = {} /\ ~records[r].unprojected
    /\ \E all \in BOOLEAN :
          Stored([records EXCEPT ![r].unprojected = all, ![r].retry = None])
    /\ UNCHANGED <<begun, sources, reconciled, owner, turn, history>>

\* reset of the store: every hold is released without an outcome.
Released(recs) ==
    [r \in Request |->
        IF recs[r] # None /\ (Unresolved(recs[r]) \/ HoldPending(recs[r]))
        THEN [recs[r] EXCEPT !.reset = TRUE,
                             !.retry = IF Retried(recs[r]) THEN @ ELSE None]
        ELSE recs[r]]

\* /flow clear keeps the submissions, /flow reset discards them.
Clear(destructive) ==
    /\ turn.pc \in {"idle", "failed"}
    /\ Stored(Pruned(Released(records)))
    /\ IF destructive
       THEN /\ place' = [s \in Source |-> IF s \in Claimed THEN "forgotten" ELSE place[s]]
            /\ UNCHANGED reconciled
       ELSE reconciled' = reconciled \cup (Claimed \ Shown) /\ UNCHANGED place
    /\ UNCHANGED <<begun, archived, owner, turn, history>>

-----------------------------------------------------------------------------
(* Retiring history and restarting *)

\* retireUnreferencedRequests; fewer are kept when they take too many bytes.
RetireHistory(protected, keep) ==
    LET recs == Pruned(records)
    IN /\ turn.pc \in {"idle", "captured"} /\ ~Blocked(records)
       /\ \A r \in protected : recs[r] # None /\ recs[r].capture.projection # "none"
       /\ Stored(Without(recs, Retiring(recs, protected, keep)))
       /\ records' # records
       /\ UNCHANGED <<begun, sources, reconciled, owner, turn, history>>

\* close withholds what is pending; a crash leaves it as it is.
Reattach(crash) ==
    /\ owner < MaxOwners
    /\ crash \/ turn.pc # "executing"
    /\ owner' = owner + 1
    /\ Stored(IF crash THEN records ELSE Settled)
    /\ turn' = Idle
    /\ UNCHANGED <<begun, sources, reconciled, history>>

Steps ==
    \/ \E delivered \in SUBSET Source, projection \in Projection :
          Captured(delivered, projection)
    \/ \E enforced, fails \in BOOLEAN : BeforeRequest(enforced, fails)
    \/ Execute \/ Maintain \/ Handoff \/ Withhold \/ Lost
    \/ \E outcome \in Outcome : Answer(outcome)
Decide ==
    \/ \E r \in Request :
          \/ AuthorizeRetry(r) \/ CancelProjections(r)
          \/ \E gone \in SUBSET Source : CancelSources(r, gone)
    \/ \E destructive \in BOOLEAN : Clear(destructive)
Around ==
    \/ \E s \in Source : Consume(s) \/ Archive(s)
    \/ \E gone \in SUBSET Source : Compact(gone)
    \/ \E protected \in SUBSET Request, keep \in 1..Keep : RetireHistory(protected, keep)
    \/ \E crash \in BOOLEAN : Reattach(crash)

Next == Steps \/ Decide \/ Around
Spec == Init /\ [][Next]_vars

-----------------------------------------------------------------------------
(* Properties *)

\* What the store checks before and after every transaction, and refuses to
\* open without (validate): no order of requests, retries, cancellations,
\* releases, retirements and restarts leads to receipts it would not accept.
Validates ==
    /\ TypeOK
    /\ \A r \in Retained(records) :
         LET record == records[r]
         IN /\ record.retry # None => Withheld(record) /\ (record.reset => Retried(record))
            /\ Retried(record) =>
                 /\ record.retry.request \in Retained(records)
                 /\ record.retry.request > r
                 /\ records[record.retry.request].retryOf = r
            /\ record.retryOf # None =>
                 /\ record.retryOf \in Retained(records) /\ record.retryOf < r
                 /\ records[record.retryOf].retry = [owner |-> record.owner, request |-> r]
            /\ record.cancelled # {} => Withheld(record) /\ record.cancelled \subseteq record.required
            /\ record.unprojected => Withheld(record) /\ record.required = {}
            /\ record.outcome = "withheld" => ~record.sent
            /\ record.outcome \in {"success", "failure"} => record.sent
            /\ record.sent => Complete(record)

Sends(r) == records[r] # None /\ records'[r] # None /\ ~records[r].sent /\ records'[r].sent

\* A request that goes to the provider carries nothing the user has cancelled,
\* however long ago and in whatever request that has been retired since; and
\* each of its required inputs (Cancelled, Indexed, Handoff).
CancelledStaysOut ==
    [][\A r \in Request : Sends(r) =>
          /\ records[r].capture.delivered \cap dropped = {}
          /\ records[r].required \subseteq records[r].capture.delivered]_vars

\* Input that has reached a provider's adapter once is not required again, so
\* that filtering old history holds nothing back: retirement keeps the evidence
\* of every submission that is not archived (liveOperations).
NeverRequiredAgain ==
    [][\A r \in Request : records[r] = None /\ records'[r] # None =>
          records'[r].required \cap reached \subseteq archived]_vars

\* "Retry one withheld request against its unchanged input" (the release notes):
\* a retry that is sent delivers the input the withheld request was held for.
RetryUnchanged ==
    [][\A r \in Request : Sends(r) /\ records[r].retryOf # None =>
          LET held == records[records[r].retryOf]
          IN held.required \ held.cancelled \subseteq records[r].capture.delivered]_vars
=============================================================================
