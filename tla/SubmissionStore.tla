--------------------------- MODULE SubmissionStore ---------------------------
(***************************************************************************)
(* The records of what a session has accepted (submission-store.ts), and   *)
(* what they say to whoever admits the next send (native-admission.ts).    *)
(* Each operator from records to records is one transaction of the store.  *)
(*                                                                         *)
(* A message is submitted under an identity, and a continuation that is    *)
(* issued again under another.                                             *)
(* Left out: the admission holds, which are diagnostics, capacity, the     *)
(* cursors of subscriptions, reset, and queue edits and cancellations.     *)
(***************************************************************************)
EXTENDS Integers, FiniteSets

CONSTANTS
    Id,          \* identities under which messages are submitted
    Typed,       \* those of what the user typed,
    Adapter,     \* and of what an adapter sends for the user; the others are
                 \* waking continuations
    NextIssue,   \* the identity of a continuation that is issued again
    None

VARIABLE records   \* per identity: what is retained, None when nothing is

External(id)        == id \in Adapter
UserInstruction(id) == id \in Typed \cup Adapter
\* A waking message that carries no callback can be issued again.
Replayable(id)      == ~UserInstruction(id)

SubmissionRecord ==
    [position : Nat, revision : Nat,
     status : {"retained", "revoked", "suspended", "cancelled"}, ended : BOOLEAN,
     queues : BOOLEAN, phase : {"none", "started", "returned", "failed"},
     input : {"none", "queued", "done", "lost"}, archived : BOOLEAN]

ASSUME SubmissionAssumption ==
    /\ IsFiniteSet(Id) /\ None \notin Id \cup SubmissionRecord
    /\ DOMAIN NextIssue \subseteq Id
    /\ \A i \in DOMAIN NextIssue :
          NextIssue[i] \in Id /\ Replayable(i) /\ Replayable(NextIssue[i])
    /\ \A i, j \in DOMAIN NextIssue : NextIssue[i] = NextIssue[j] => i = j

Existing == {id \in Id : records[id] # None}
Active   == {id \in Existing : ~records[id].archived}

\* The dispatch has an intent when its phase is not "none"; its input is what
\* the host was seen to take of it: "queued" until the queue gives it up, then
\* "done" when a run claims it or "lost" when the host drops it.
NewRecord(position, queues) ==
    [position |-> position, revision |-> 1, status |-> "retained", ended |-> FALSE,
     queues |-> queues, phase |-> "none", input |-> "none", archived |-> FALSE]

-----------------------------------------------------------------------------
(* What a record says *)

\* Its native call never ran.
Undispatched(r) == r.phase = "none" \/ (r.phase = "failed" /\ r.input = "none")

\* Bug: a callback whose call failed is taken for one that may still run.
EndedCallback_NoIntent(id, r) == r.phase = "none"

\* For external input a failed dispatch is no proof that nothing got through.
EndedCallback(id, r) == IF External(id) THEN r.phase = "none" ELSE Undispatched(r)

CompletedWithoutInput(r) == r.phase = "returned" /\ r.input = "none"

\* The host has yet to take it; what it dropped from its queue it will not.
AwaitingNativeInput(r) ==
    /\ r.status = "retained" /\ ~r.ended
    /\ ~CompletedWithoutInput(r)
    /\ r.input \in {"none", "queued"}

FullyConsumed(r) ==
    r.status = "retained" /\ r.phase = "returned" /\ r.input \in {"none", "done"}

CancellationSettled(r) ==
    /\ r.status # "retained"
    /\ r.phase = "none" \/ (r.phase # "started" /\ r.input \in {"none", "done"})

-----------------------------------------------------------------------------
(* Transactions *)

\* What is settled leaves the active records.
Archived(rs) ==
    [id \in Id |-> IF rs[id] # None /\ (FullyConsumed(rs[id]) \/ CancellationSettled(rs[id]))
                   THEN [rs[id] EXCEPT !.archived = TRUE] ELSE rs[id]]

Retained(rs, id, queues) ==
    [rs EXCEPT ![id] = NewRecord(Cardinality({i \in Id : rs[i] # None}) + 1, queues)]

\* Only external input whose callback ended before any intent comes back.
CanReattach(id) ==
    /\ id \in Active /\ External(id)
    /\ records[id].status = "retained" /\ records[id].ended /\ records[id].phase = "none"

Reattached(id) ==
    [records EXCEPT ![id].revision = @ + 1, ![id].ended = FALSE]

\* recordAdmission finds the record the decision was about.
Current(id, revision) ==
    id \in Active /\ records[id].status = "retained" /\ records[id].revision = revision

\* The intent is retained before the native call, once.
Dispatchable(id, revision) ==
    Current(id, revision) /\ ~records[id].ended /\ records[id].phase = "none"

Dispatched(id) == [records EXCEPT ![id].phase = "started"]

CallbackEnded(rs, id) ==
    IF /\ rs[id] # None /\ ~rs[id].archived
       /\ rs[id].status = "retained" /\ EndedCallback(id, rs[id])
    THEN [rs EXCEPT ![id].ended = TRUE] ELSE rs

CancellableExternal(id) ==
    id \in Active /\ records[id].status = "retained" /\ records[id].phase = "none"

Cancelled(id, reason) ==
    [records EXCEPT ![id].status = reason, ![id].revision = @ + 1]

\* A new attachment has no callbacks; a continuation needs none.
CallbacksRecovered(rs) ==
    [id \in Id |-> IF /\ rs[id] # None /\ ~rs[id].archived /\ rs[id].status = "retained"
                      /\ ~Replayable(id) /\ EndedCallback(id, rs[id])
                   THEN [rs[id] EXCEPT !.ended = TRUE] ELSE rs[id]]

\* Intents without evidence, which only the user may give up.
Interrupted(rs) ==
    {id \in Id : /\ rs[id] # None /\ ~rs[id].archived
                 /\ rs[id].phase = "started" /\ rs[id].input = "none"}

Discarded(rs) ==
    [id \in Id |-> IF id \in Interrupted(rs)
                   THEN [rs[id] EXCEPT !.archived = TRUE, !.revision = @ + 1,
                                       !.status = "cancelled"]
                   ELSE rs[id]]
=============================================================================
