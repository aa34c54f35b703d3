--------------------------- MODULE SessionIngress ---------------------------
(***************************************************************************)
(* How a session takes a send in, holds it, and releases it later          *)
(* (pi-session-ingress.ts, native-admission.ts, and the native queue as    *)
(* pi-native-dispatch.ts observes it).                                     *)
(*                                                                         *)
(* A send is retained with a callback that would run it, and released at   *)
(* once if admission allows.  What is held waits for a pass of the         *)
(* scheduler, which anything that may have changed the answer asks for.    *)
(* The callback runs at most once, through admission, through the flush    *)
(* when flow control is turned off, or, for a continuation of an earlier   *)
(* lifetime, by issuing its message again.                                 *)
(*                                                                         *)
(* Left out: producers and waits (other modules), retries and compaction,  *)
(* wait contexts, work claims, a grants file that cannot be read, host     *)
(* admission, destructive reset, queue edits, branch changes and commands. *)
(***************************************************************************)
EXTENDS SubmissionStore

CONSTANTS
    MaxRestarts,   \* bound: crashes of the process
    MaxRevision    \* bound: an adapter's message is attached that often

ASSUME SessionAssumption == MaxRevision \in Nat \ {0}

VARIABLES
    pending,     \* [Id -> revision of the record its callback is for, 0 without one]
    release,     \* [Id -> the release of that callback in progress]
    submitting,  \* sends whose submit, a host operation, has not returned
    scheduler,   \* the automatic release
    replay,      \* continuations inherited at the attachment, to be issued again
    notice,      \* the host owes an idle notification
    mode,        \* flow control: "on", "cancelling", "flushing", "off"
    turn,        \* the send whose input started the running turn, or None
    blocked,     \* recovery: "no", "held" request, "interrupted" dispatch
    paused,      \* automatic work: "no", "admission", "aborted"
    ending,      \* adapter sends whose callback a reload has ended
    restarts,
    ran,         \* history: [Id -> native calls made]
    flushed,     \* history: handed to the host without a receipt
    skipped,     \* history: issued again but not retired
    silent       \* history: refusals after which nothing asks for a pass

session == <<scheduler, replay, notice, mode, turn, blocked, paused, ending, restarts>>
history == <<flushed, skipped, silent>>
vars == <<records, pending, release, submitting, session, ran, history>>

Resting == [at |-> "none", revision |-> 0, works |-> FALSE, allowed |-> FALSE]
Idle == [phase |-> "idle", requested |-> FALSE, semantic |-> FALSE, cand |-> {},
         left |-> {}, on |-> None, todo |-> {}, issuing |-> None]

Released(id) == release[id].at # "none"

-----------------------------------------------------------------------------
(* The scheduler: one pass at a time, any number of requests folded into one *)

\* Bug: a request that arrives during a pass is taken to be served by it.
QueueRelease_Running(s, semantic) ==
    IF mode # "on" \/ s.phase # "idle" THEN s
    ELSE [s EXCEPT !.requested = TRUE, !.semantic = @ \/ semantic, !.phase = "scheduled"]

QueueRelease(s, semantic) ==
    IF mode # "on" THEN s
    ELSE [s EXCEPT !.requested = TRUE, !.semantic = @ \/ semantic,
                   !.phase = IF @ = "idle" THEN "scheduled" ELSE @]

\* A pass that released something while others wait asks for the next one.
PassEnded(s, pend, released) ==
    LET again == s.requested \/ (released /\ \E c \in s.cand : pend[c[1]] = c[2])
    IN [s EXCEPT !.cand = {}, !.left = {}, !.on = None, !.requested = again,
                 !.phase = IF again /\ mode = "on" THEN "scheduled" ELSE "idle"]

\* What a pass learns of a release it waits for: it stops at the first that
\* went through, and at an error.
PassTold(s, id, result, pend) ==
    IF s.on # id THEN s
    ELSE IF result = "no" THEN [s EXCEPT !.on = None, !.left = {c \in @ : c[1] # id}]
    ELSE PassEnded(s, pend, result = "yes")

\* A record that could not be issued is skipped.
ReissueTold(s, id, result) ==
    IF s.issuing # None /\ NextIssue[s.issuing] = id /\ result = "error"
    THEN [s EXCEPT !.issuing = None] ELSE s

\* The release ends: with the records and callbacks it leaves, and whether it
\* asks for a pass.  The submit that waits for it returns; when it fails its
\* callback ends with it.
Done(id, result, rs, pend, asks) ==
    LET fails == id \in submitting /\ result = "error"
        left  == IF fails THEN [pend EXCEPT ![id] = 0] ELSE pend
        told  == ReissueTold(PassTold(scheduler, id, result, left), id, result)
    IN /\ records' = IF fails THEN CallbackEnded(rs, id) ELSE rs
       /\ pending' = left
       /\ release' = [release EXCEPT ![id] = Resting]
       /\ submitting' = submitting \ {id}
       /\ notice' = (notice \/ (mode = "on" /\ submitting = {id} /\ turn = None))
       /\ skipped' = IF told.issuing # scheduler.issuing
                     THEN skipped \cup {scheduler.issuing} ELSE skipped
       /\ scheduler' = IF asks \/ fails THEN QueueRelease(told, TRUE) ELSE told

NoRelease == UNCHANGED <<release, submitting, skipped>>

-----------------------------------------------------------------------------
(* Admission *)

UserPending == \E id \in Active : UserInstruction(id) /\ AwaitingNativeInput(records[id])

\* A continuation follows the earlier ones of its lane.
Earlier(id) == {e \in Active : /\ ~UserInstruction(e) /\ AwaitingNativeInput(records[e])
                               /\ records[e].position < records[id].position
                               /\ records[e].queues = records[id].queues}

\* A pass that began before the last semantic change admits nothing automatic.
HeldForSemantics(id) ==
    /\ scheduler.phase \in {"replaying", "passing"} /\ scheduler.semantic
    /\ ~UserInstruction(id)

Admissible(id) ==
    /\ id \in Active /\ records[id].status = "retained"
    /\ blocked = "no"
    /\ \/ UserInstruction(id)
       \/ paused = "no" /\ ~UserPending /\ turn = None /\ Earlier(id) = {}

\* What the host offers from its queue during a turn.
QueueAdmissible(id) ==
    /\ records[id].input = "queued" /\ records[id].status = "retained"
    /\ blocked = "no"
    /\ \/ UserInstruction(id)
       \/ /\ paused = "no" /\ ~UserPending /\ ~HeldForSemantics(id)
          /\ \A e \in Earlier(id) : records[e].input = "queued"

\* A prompt owns the session's work from before its turn until its call returns.
WorkOwners == {j \in Id : release[j].works}

-----------------------------------------------------------------------------
(* A send arrives *)

\* The user speaking again ends a pause.
Resumed(id) == IF UserInstruction(id) THEN "no" ELSE paused

\* Identities of messages that are not issued again.
First == {id \in Id : \A i \in DOMAIN NextIssue : NextIssue[i] # id}

\* submit: retained with its callback, then released at once.
Submitted(id) ==
    /\ records' = Retained(Archived(records), id, turn # None)
    /\ pending' = [pending EXCEPT ![id] = 1]
    /\ release' = [release EXCEPT ![id] = [Resting EXCEPT !.at = "deciding", !.revision = 1]]
    /\ submitting' = submitting \cup {id}

Submit(id) ==
    /\ mode = "on" /\ ~External(id) /\ records[id] = None /\ id \in First
    /\ Submitted(id)
    /\ paused' = Resumed(id)
    /\ UNCHANGED <<scheduler, replay, notice, mode, turn, blocked, ending, restarts, ran, history>>

\* An adapter's message: retained, or attached again under a new revision.  Its
\* authority is asked before it ends a pause; its release is not awaited.
RetainExternal(id, authority) ==
    /\ mode = "on" /\ External(id) /\ id \notin ending
    /\ records[id] = None \/ (CanReattach(id) /\ pending[id] = 0 /\ ~Released(id))
    /\ LET rs  == IF records[id] = None THEN Retained(records, id, turn # None) ELSE Reattached(id)
           rev == rs[id].revision
       IN /\ rev <= MaxRevision
          /\ IF authority = "allowed"
             THEN /\ records' = rs
                  /\ pending' = [pending EXCEPT ![id] = rev]
                  /\ release' = [release EXCEPT ![id] =
                                    [Resting EXCEPT !.at = "deciding", !.revision = rev]]
                  /\ paused' = "no" /\ silent' = silent
             ELSE /\ records' = [rs EXCEPT ![id].status = "revoked", ![id].revision = @ + 1]
                  /\ silent' = silent \cup {id}
                  /\ UNCHANGED <<pending, release, paused>>
    /\ UNCHANGED <<submitting, scheduler, replay, notice, mode, turn, blocked, ending, restarts,
                   ran, flushed, skipped>>

-----------------------------------------------------------------------------
(* A release, step by step *)

\* Authority was withdrawn: the record is cancelled with it.
Revoke(id) ==
    /\ External(id)
    /\ LET gone == CancellableExternal(id)
       IN Done(id, "no", IF gone THEN Cancelled(id, "revoked") ELSE records,
               IF gone THEN [pending EXCEPT ![id] = 0] ELSE pending, FALSE)
    /\ silent' = silent \cup {id}
    /\ UNCHANGED <<replay, mode, turn, blocked, paused, ending, restarts, ran, flushed>>

Refuse(id, result) ==
    /\ Done(id, result, records, pending, FALSE)
    /\ UNCHANGED <<replay, mode, turn, blocked, paused, ending, restarts, ran, flushed, silent>>

\* admit reads the records and the host,
Decide(id) ==
    /\ release[id].at = "deciding"
    /\ ~(External(id) /\ mode # "on")
    /\ release' = [release EXCEPT ![id].at = "recording", ![id].allowed = Admissible(id)]
    /\ UNCHANGED <<records, pending, submitting, session, ran, history>>

\* and then records what it decided, unless the record has changed meanwhile.
Admitted(id) ==
    /\ release[id].allowed /\ blocked = "no" /\ ~HeldForSemantics(id)

Record(id) ==
    /\ release[id].at = "recording"
    /\ Current(id, release[id].revision) /\ Admitted(id)
    /\ pending[id] = release[id].revision
    /\ release' = [release EXCEPT ![id].at = "preparing"]
    /\ UNCHANGED <<records, pending, submitting, session, ran, history>>

Hold(id) ==
    \/ /\ release[id].at = "deciding" /\ External(id) /\ mode # "on"
       /\ Refuse(id, "no")
    \/ /\ release[id].at = "recording"
       /\ Current(id, release[id].revision) /\ ~Admitted(id)
       /\ Refuse(id, "no")

\* The record or the callback is no longer the one this release began with.
Stale(id) ==
    /\ \/ release[id].at = "recording" /\ ~Current(id, release[id].revision)
       \/ /\ release[id].at \in {"recording", "preparing"}
          /\ pending[id] # release[id].revision
    /\ \/ Refuse(id, "error")
       \/ External(id) /\ release[id].at = "preparing" /\ Refuse(id, "no")

StartsWork(id) == UserInstruction(id) /\ turn = None

\* Bug: the callback is still there while it runs.
Consumed_Kept(id) == pending

\* The callback is taken before it is called.
Consumed(id) == [pending EXCEPT ![id] = 0]

Prepare(id) ==
    /\ release[id].at = "preparing" /\ pending[id] = release[id].revision
    /\ ~(External(id) /\ mode # "on")
    /\ ~(StartsWork(id) /\ WorkOwners \ {id} # {})
    /\ pending' = Consumed(id)
    /\ release' = [release EXCEPT ![id].at = "intent", ![id].works = StartsWork(id)]
    /\ UNCHANGED <<records, submitting, session, ran, history>>

\* The end of j asks for a pass for id: it is being submitted, or a pass that has
\* yet to try id released it.
AsksFor(j, id) ==
    \/ j \in submitting
    \/ scheduler.on = j /\ <<id, pending[id]>> \in scheduler.left

\* Another prompt owns the work, or flow control has been turned off.
Busy(id) ==
    /\ release[id].at = "preparing" /\ pending[id] = release[id].revision
    /\ (External(id) /\ mode # "on") \/ (StartsWork(id) /\ WorkOwners \ {id} # {})
    /\ Done(id, "no", records, pending, FALSE)
    /\ silent' = IF \E j \in WorkOwners \ {id} : ~AsksFor(j, id) THEN silent \cup {id} ELSE silent
    /\ UNCHANGED <<replay, mode, turn, blocked, paused, ending, restarts, ran, flushed>>

\* The intent is retained, and the native call made.
Dispatch(id) ==
    /\ release[id].at = "intent" /\ Dispatchable(id, release[id].revision)
    /\ records' = Dispatched(id)
    /\ release' = [release EXCEPT ![id].at = "running"]
    /\ ran' = [ran EXCEPT ![id] = @ + 1]
    /\ UNCHANGED <<pending, submitting, session, history>>

\* The callback ended first.
NotDispatched(id) ==
    /\ release[id].at = "intent" /\ ~Dispatchable(id, release[id].revision)
    /\ Refuse(id, "no")

-----------------------------------------------------------------------------
(* The host takes the input *)

Running(id) == release[id].at = "running" /\ id \in Active

TakesQueue(id) == id \notin Typed \/ records[id].queues

Observe(id) ==
    /\ Running(id) /\ records[id].input = "none"
    /\ \/ /\ turn = None
          /\ turn' = id
          /\ records' = [records EXCEPT ![id].input = "done"]
       \/ /\ turn # None /\ TakesQueue(id)
          /\ turn' = turn
          /\ records' = [records EXCEPT ![id].input = "queued"]
    /\ UNCHANGED <<pending, release, submitting, scheduler, replay, notice, mode, blocked, paused,
                   ending, restarts, ran, history>>

ClaimQueued(id) ==
    /\ turn # None /\ id \in Active /\ QueueAdmissible(id)
    /\ records' = [records EXCEPT ![id].input = "done"]
    /\ UNCHANGED <<pending, release, submitting, session, ran, history>>

\* What waited in the host's queue is gone with it.
Dropped ==
    [id \in Id |-> IF id \in Active /\ records[id].input = "queued"
                   THEN [records[id] EXCEPT !.input = "lost"] ELSE records[id]]

\* A turn ends by itself once the queue offers nothing, is aborted, which
\* empties the queue, or ends because a request was withheld.
TurnEnds(how) ==
    /\ turn # None
    /\ how = "stop" => \A id \in Active : ~QueueAdmissible(id)
    /\ records' = IF how = "aborted" THEN Dropped ELSE records
    /\ turn' = None
    /\ notice' = (notice \/ (mode = "on" /\ submitting = {}))
    /\ blocked' = IF how = "withheld" /\ blocked = "no" THEN "held" ELSE blocked
    /\ paused' = IF how = "aborted" /\ paused = "no" THEN "aborted"
                 ELSE IF how = "withheld" /\ paused = "no" THEN "admission" ELSE paused
    /\ UNCHANGED <<pending, release, submitting, scheduler, replay, mode, ending, restarts, ran,
                   history>>

\* The native call returns; a prompt may be handled without any input.
Return(id) ==
    /\ Running(id) /\ turn # id
    /\ records[id].input = "none" => UserInstruction(id)
    /\ Done(id, "yes", [records EXCEPT ![id].phase = "returned"], pending, FALSE)
    /\ silent' = IF External(id) /\ records[id].input = "none" /\ scheduler.on # id
                 THEN silent \cup {id} ELSE silent
    /\ UNCHANGED <<replay, mode, turn, blocked, paused, ending, restarts, ran, flushed>>

\* It fails: its outcome is retained, and then its callback ended.
Fail(id) ==
    /\ Running(id) /\ turn # id
    /\ records' = [records EXCEPT ![id].phase = "failed"]
    /\ release' = [release EXCEPT ![id].at = "failing"]
    /\ UNCHANGED <<pending, submitting, session, ran, history>>

EndCallback(id) ==
    /\ release[id].at = "failing"
    /\ Done(id, "error", CallbackEnded(records, id), pending, TRUE)
    /\ UNCHANGED <<replay, mode, turn, blocked, paused, ending, restarts, ran, flushed, silent>>

\* The record was discarded under it: there is no outcome to retain, and a pass
\* that waits for it stops there.
Orphaned(id) ==
    /\ release[id].at = "running" /\ id \notin Active /\ turn # id
    /\ Done(id, "error", records, pending, FALSE)
    /\ silent' = IF scheduler.on = id /\ ~scheduler.requested
                    /\ \E c \in scheduler.left : c[1] # id
                 THEN silent \cup {id} ELSE silent
    /\ UNCHANGED <<replay, mode, turn, blocked, paused, ending, restarts, ran, flushed>>

-----------------------------------------------------------------------------
(* The automatic release *)

\* The host, idle again, tells its listeners.
DeliverNotice ==
    /\ notice
    /\ notice' = FALSE
    /\ scheduler' = IF submitting = {} /\ turn = None THEN QueueRelease(scheduler, TRUE) ELSE scheduler
    /\ NoRelease
    /\ UNCHANGED <<records, pending, replay, mode, turn, blocked, paused, ending, restarts, ran,
                   flushed, silent>>

Reissuable(id) ==
    /\ id \in Active /\ Replayable(id)
    /\ records[id].status = "retained" /\ ~records[id].ended /\ Undispatched(records[id])

\* Requests made so far are served by this run; continuations of an earlier
\* lifetime are issued again before the pass looks at the callbacks.
Begin ==
    /\ scheduler.phase = "scheduled"
    /\ scheduler' = [scheduler EXCEPT !.requested = FALSE, !.semantic = FALSE,
                        !.phase = "replaying", !.todo = {id \in replay : Reissuable(id)}]
    /\ replay' = {}
    /\ NoRelease
    /\ UNCHANGED <<records, pending, notice, mode, turn, blocked, paused, ending, restarts, ran,
                   flushed, silent>>

\* Bound: each identity is for one issue, so that a message is issued again as
\* often as NextIssue allows.
Unused(id) == records[id] = None /\ id \notin flushed

\* In journal order.  With flow control off the host takes it directly.
Reissue(id) ==
    /\ scheduler.phase = "replaying" /\ scheduler.issuing = None
    /\ id \in scheduler.todo
    /\ \A e \in scheduler.todo : records[id].position <= records[e].position
    /\ id \in DOMAIN NextIssue /\ Unused(NextIssue[id])
    /\ scheduler' = [scheduler EXCEPT !.issuing = id, !.todo = @ \ {id}]
    /\ IF mode = "on"
       THEN Submitted(NextIssue[id]) /\ UNCHANGED <<ran, flushed>>
       ELSE /\ ran' = [ran EXCEPT ![NextIssue[id]] = @ + 1]
            /\ flushed' = flushed \cup {NextIssue[id]}
            /\ UNCHANGED <<records, pending, release, submitting>>
    /\ UNCHANGED <<replay, notice, mode, turn, blocked, paused, ending, restarts, skipped, silent>>

\* The superseded record is cancelled once its replacement exists; one that
\* has an intent refuses that, and is left as it is.
Retire ==
    /\ scheduler.issuing # None /\ NextIssue[scheduler.issuing] \notin submitting
    /\ LET old == scheduler.issuing
       IN IF records[old].phase = "none"
          THEN records' = Cancelled(old, "cancelled") /\ skipped' = skipped
          ELSE records' = records /\ skipped' = skipped \cup {old}
    /\ scheduler' = [scheduler EXCEPT !.issuing = None]
    /\ UNCHANGED <<pending, release, submitting, replay, notice, mode, turn, blocked, paused, ending,
                   restarts, ran, flushed, silent>>

PassBegins ==
    /\ scheduler.phase = "replaying" /\ scheduler.todo = {} /\ scheduler.issuing = None
    /\ LET c == {<<id, pending[id]>> : id \in {i \in Id : pending[i] # 0}}
       IN scheduler' = IF mode # "on" THEN PassEnded(scheduler, pending, FALSE)
                       ELSE [scheduler EXCEPT !.phase = "passing", !.cand = c, !.left = c]
    /\ NoRelease
    /\ UNCHANGED <<records, pending, replay, notice, mode, turn, blocked, paused, ending, restarts,
                   ran, flushed, silent>>

\* The user's sends before the others.
Before(a, b) ==
    \/ UserInstruction(a) /\ ~UserInstruction(b)
    \/ /\ UserInstruction(a) = UserInstruction(b)
       /\ records[a].position < records[b].position

\* The pass waits for the next candidate's release, starting it if nobody has.
\* One it joins may have read what was true before the pass was asked for.
PassTries(c) ==
    /\ scheduler.phase = "passing" /\ scheduler.on = None
    /\ c \in scheduler.left /\ \A d \in scheduler.left \ {c} : ~Before(d[1], c[1])
    /\ LET id == c[1]
           joins == Released(id)
       IN IF pending[id] # c[2]
          THEN /\ scheduler' = [scheduler EXCEPT !.left = @ \ {c}]
               /\ UNCHANGED <<release, silent>>
          ELSE /\ scheduler' = [scheduler EXCEPT !.on = id]
               /\ release' = IF joins THEN release
                             ELSE [release EXCEPT ![id] =
                                     [Resting EXCEPT !.at = "deciding", !.revision = c[2]]]
               /\ silent' = IF joins /\ id \notin submitting THEN silent \cup {id} ELSE silent
    /\ UNCHANGED <<records, pending, submitting, replay, notice, mode, turn, blocked, paused, ending,
                   restarts, ran, flushed, skipped>>

PassEnds ==
    /\ scheduler.phase = "passing" /\ scheduler.on = None /\ scheduler.left = {}
    /\ scheduler' = PassEnded(scheduler, pending, FALSE)
    /\ NoRelease
    /\ UNCHANGED <<records, pending, replay, notice, mode, turn, blocked, paused, ending, restarts,
                   ran, flushed, silent>>

-----------------------------------------------------------------------------
(* A reload replaces the runtime of the adapters *)

RuntimeEnds(id) ==
    /\ mode = "on" /\ External(id) /\ pending[id] # 0 /\ id \notin ending
    /\ Current(id, pending[id])
    /\ records' = CallbackEnded(records, id)
    /\ ending' = ending \cup {id}
    /\ UNCHANGED <<pending, release, submitting, scheduler, replay, notice, mode, turn, blocked,
                   paused, restarts, ran, history>>

RuntimeEnded(id) ==
    /\ id \in ending
    /\ pending' = [pending EXCEPT ![id] = 0]
    /\ ending' = ending \ {id}
    /\ scheduler' = QueueRelease(scheduler, TRUE)
    /\ UNCHANGED <<records, release, submitting, replay, notice, mode, turn, blocked, paused,
                   restarts, ran, history>>

-----------------------------------------------------------------------------
(* Flow control is turned off, and on *)

Suspend ==
    /\ mode = "on" /\ ending = {}
    /\ mode' = "cancelling"
    /\ notice' = FALSE
    /\ scheduler' = [scheduler EXCEPT !.requested = FALSE, !.semantic = FALSE,
                                      !.phase = IF @ = "scheduled" THEN "idle" ELSE @]
    /\ NoRelease
    /\ UNCHANGED <<records, pending, replay, turn, blocked, paused, ending, restarts, ran, flushed,
                   silent>>

Cancellable == {id \in Id : External(id) /\ pending[id] # 0 /\ CancellableExternal(id)}

CancelExternal(id) ==
    /\ mode = "cancelling" /\ id \in Cancellable
    /\ records' = Cancelled(id, "suspended")
    /\ pending' = [pending EXCEPT ![id] = 0]
    /\ NoRelease
    /\ UNCHANGED <<session, ran, flushed, silent>>

FlushBegins ==
    /\ mode = "cancelling" /\ Cancellable = {}
    /\ mode' = "flushing"
    /\ NoRelease
    /\ UNCHANGED <<records, pending, scheduler, replay, notice, turn, blocked, paused, ending,
                   restarts, ran, flushed, silent>>

Flushable(id) == pending[id] # 0 /\ ~External(id) /\ ~Released(id)

\* The host's own dispatch, without admission and without a record of it.
Flush(id) ==
    /\ mode = "flushing" /\ Flushable(id)
    /\ pending' = [pending EXCEPT ![id] = 0]
    /\ ran' = [ran EXCEPT ![id] = @ + 1]
    /\ flushed' = flushed \cup {id}
    /\ UNCHANGED <<records, release, submitting, session, skipped, silent>>

\* Off is a reset: it ends a pause as well.
FlushEnds ==
    /\ mode = "flushing" /\ \A id \in Id : pending[id] = 0 \/ External(id)
    /\ mode' = "off" /\ paused' = "no"
    /\ NoRelease
    /\ UNCHANGED <<records, pending, scheduler, replay, notice, turn, blocked, ending, restarts, ran,
                   flushed, silent>>

\* It is scheduled whatever is still running.
Resume ==
    /\ mode = "off"
    /\ mode' = "on"
    /\ scheduler' = [scheduler EXCEPT !.requested = TRUE, !.semantic = TRUE,
                                      !.phase = IF @ = "idle" THEN "scheduled" ELSE @]
    /\ NoRelease
    /\ UNCHANGED <<records, pending, replay, notice, turn, blocked, paused, ending, restarts, ran,
                   flushed, silent>>

-----------------------------------------------------------------------------
(* Recovery *)

\* The user decides about a withheld request.
Repair ==
    /\ mode = "on" /\ blocked = "held"
    /\ blocked' = "no"
    /\ paused' = IF paused = "admission" THEN "no" ELSE paused
    /\ scheduler' = QueueRelease(scheduler, TRUE)
    /\ NoRelease
    /\ UNCHANGED <<records, pending, replay, notice, mode, turn, ending, restarts, ran, flushed,
                   silent>>

\* Clearing the flow gives up what was interrupted.  A call still running is
\* found only after its record is discarded; then the rest does not happen.
Clear ==
    /\ mode = "on" /\ turn = None /\ submitting = {}
    /\ blocked # "no" \/ paused # "no"
    /\ records' = Archived(Discarded(records))
    /\ IF \E id \in Id : release[id].at \in {"running", "failing"}
       THEN UNCHANGED <<blocked, paused, scheduler>>
       ELSE /\ blocked' = "no" /\ paused' = "no"
            /\ scheduler' = QueueRelease(scheduler, TRUE)
    /\ NoRelease
    /\ UNCHANGED <<pending, replay, notice, mode, turn, ending, restarts, ran, flushed, silent>>

\* A crash, and the next attachment: callbacks and the native queue are gone,
\* and so are the callbacks of every record but the continuations.
Reopen ==
    /\ restarts < MaxRestarts
    /\ restarts' = restarts + 1
    /\ LET rs == CallbacksRecovered(Archived(Dropped))
       IN /\ records' = rs
          /\ blocked' = IF Interrupted(rs) = {} THEN "no" ELSE "interrupted"
          /\ replay' = {id \in Id : /\ rs[id] # None /\ ~rs[id].archived /\ Replayable(id)
                                    /\ rs[id].status = "retained" /\ ~rs[id].ended
                                    /\ Undispatched(rs[id])}
    /\ pending' = [id \in Id |-> 0]
    /\ release' = [id \in Id |-> Resting]
    /\ submitting' = {} /\ ending' = {}
    /\ scheduler' = [Idle EXCEPT !.phase = "scheduled", !.requested = TRUE, !.semantic = TRUE]
    /\ notice' = FALSE /\ mode' = "on" /\ turn' = None /\ paused' = "no"
    /\ UNCHANGED <<ran, history>>

-----------------------------------------------------------------------------
Init ==
    /\ records = [id \in Id |-> None]
    /\ pending = [id \in Id |-> 0]
    /\ release = [id \in Id |-> Resting]
    /\ submitting = {} /\ scheduler = Idle /\ replay = {} /\ notice = FALSE
    /\ mode = "on" /\ turn = None /\ blocked = "no" /\ paused = "no" /\ ending = {}
    /\ restarts = 0
    /\ ran = [id \in Id |-> 0]
    /\ flushed = {} /\ skipped = {} /\ silent = {}

ReleaseStep(id) ==
    \/ Decide(id) \/ Record(id) \/ Hold(id) \/ Stale(id) \/ Prepare(id) \/ Busy(id)
    \/ Dispatch(id) \/ NotDispatched(id) \/ Observe(id) \/ Return(id) \/ Fail(id)
    \/ EndCallback(id) \/ Orphaned(id)
    \/ release[id].at \in {"deciding", "preparing"} /\ Revoke(id)

Next ==
    \/ \E id \in Id :
        \/ Submit(id) \/ \E authority \in {"allowed", "revoked"} : RetainExternal(id, authority)
        \/ ReleaseStep(id) \/ ClaimQueued(id) \/ Reissue(id)
        \/ RuntimeEnds(id) \/ RuntimeEnded(id) \/ CancelExternal(id) \/ Flush(id)
    \/ \E how \in {"stop", "aborted", "withheld"} : TurnEnds(how)
    \/ \E c \in scheduler.left : PassTries(c)
    \/ DeliverNotice \/ Begin \/ Retire \/ PassBegins \/ PassEnds
    \/ Suspend \/ FlushBegins \/ FlushEnds \/ Resume \/ Repair \/ Clear \/ Reopen

Spec == Init /\ [][Next]_vars

-----------------------------------------------------------------------------
(* Properties *)

TypeOK ==
    /\ pending \in [Id -> 0..MaxRevision] /\ submitting \subseteq Id
    /\ scheduler.phase \in {"idle", "scheduled", "replaying", "passing"}
    /\ turn \in Id \cup {None} /\ replay \subseteq Id

\* A send runs at most once, whichever of admission, the flush and the replay
\* gets to it, and across restarts: a message is not issued again once the host
\* took its input, unless flow control handed it over without a record.
AtMostOnce ==
    \A id \in Id :
        /\ ran[id] <= 1
        /\ (records[id] # None /\ records[id].input # "none" /\ id \in DOMAIN NextIssue)
              => ran[NextIssue[id]] = 0

\* What the session accepted is accounted for: a record that never ran has a
\* callback, a release that took it, an end the user can see, or another issue
\* of its message on the way; and a continuation is given up only for one.
Accounted ==
    /\ TypeOK
    /\ \A id \in Active :
          LET r == records[id] IN
          /\ (r.status = "retained" /\ ~r.ended /\ Undispatched(r)) =>
                \/ pending[id] # 0
                \/ release[id].at \in {"intent", "failing"}
                \/ id \in replay \cup scheduler.todo \cup {scheduler.issuing} \cup skipped \cup flushed
                \/ External(id) /\ r.phase = "failed"
          /\ (r.status # "retained" /\ Replayable(id) /\ r.phase = "none") =>
                records[NextIssue[id]] # None \/ ran[NextIssue[id]] > 0

\* At rest nothing the session is about to do would release anything.
AtRest ==
    /\ mode = "on" /\ scheduler.phase = "idle" /\ ~notice /\ turn = None
    /\ submitting = {} /\ ending = {} /\ \A id \in Id : ~Released(id)

\* No send is forgotten: at rest nothing that has its callback would be
\* admitted, so whatever made it admissible asked for the pass that took it.
NoLostRelease == AtRest /\ silent = {} => \A id \in Id : pending[id] # 0 => ~Admissible(id)

\* A continuation of an earlier lifetime that nothing in this session delivers.
Stuck(id) == pending[id] = 0 /\ id \notin replay /\ Undispatched(records[id])

\* "The remaining continuations must not stall because one record could not be
\* issued or retired": at rest, with nothing blocked or paused, none waits for
\* such a record.
ContinuationsFlow ==
    AtRest /\ blocked = "no" /\ paused = "no" =>
        \A id \in Id : (pending[id] # 0 /\ ~UserInstruction(id)) => ~\E e \in Earlier(id) : Stuck(e)
=============================================================================
