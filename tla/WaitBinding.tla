------------------------------ MODULE WaitBinding ------------------------------
(***************************************************************************)
(* The subscription of a branch to one execution of a producer             *)
(* (flow-control/wait-producers.ts, ExecutionBinding): a listener that is  *)
(* installed before a snapshot is asked for, a buffer for what arrives     *)
(* before the snapshot, a queue of observations on their way to the store, *)
(* and probes that read the producer again.                                *)
(*                                                                         *)
(* Evidence is a revision and the set of predicates that have ended; a     *)
(* predicate ends once and for all.  The producer publishes in order and   *)
(* synchronously; a snapshot may be older than what was published since it *)
(* was read, and once the producer may deliver an old event again.         *)
(***************************************************************************)
EXTENDS Integers, Sequences, FiniteSets

CONSTANTS
    Predicate,    \* predicates of the execution
    MaxRevision,  \* bound: revisions of the producer
    MaxPending,   \* observations the buffer and the queue hold
    MaxProbes,    \* bound: probes
    MaxReplays,   \* bound: old events delivered again
    MaxCrashes,   \* bound: crashes of the process
    Nil

ASSUME BindingAssumption ==
    /\ {MaxRevision, MaxPending} \subseteq Nat \ {0}
    /\ {MaxProbes, MaxReplays, MaxCrashes} \subseteq Nat
    /\ Nil \notin [revision : Nat, ended : SUBSET Predicate]
    /\ Nil \notin {"stale", "conflict", "reopened", "capacity"}

VARIABLES
    produced,   \* what the producer would answer now
    stored,     \* what the store retains of the execution, or Nil
    binding,    \* where the subscription stands: its await
    snapshot,   \* the snapshot that was read for it, or Nil
    buffer,     \* evidence published before it was ready
    arrived,    \* publications that took a place in the buffer
    accepted,   \* the newest evidence accepted, or Nil
    queue,      \* observations and probe reports on their way to the store
    slot,       \* may the last of the queue still take a merge?
    writing,    \* is the first of the queue being written?
    cause,      \* why the subscription was cut off, or Nil
    probe,      \* the probe: its await and what it read
    probes,     \* probes so far
    replays,    \* old events delivered again so far
    crashes     \* crashes so far

subscription == <<binding, snapshot, buffer, arrived, accepted, queue, slot, writing, cause>>
counts == <<probes, replays, crashes>>
bindingVars == <<produced, stored, subscription, probe, counts>>

Revision == 1..MaxRevision
Evidence == [revision : Revision, ended : SUBSET Predicate]
Causes == {"stale", "conflict", "reopened", "capacity"}
Observation == [kind : {"event", "probe", "dropped"}, evidence : Evidence]
Listening == {"asking", "read", "synchronizing", "ready"}

BindingTypeOK ==
    /\ produced \in Evidence
    /\ stored \in Evidence \cup {Nil}
    /\ binding \in {"off", "due", "failed"} \cup Listening
    /\ snapshot \in Evidence \cup {Nil}
    /\ buffer \in Seq(Evidence) /\ Len(buffer) <= arrived
    /\ arrived \in 0..MaxPending
    /\ accepted \in Evidence \cup {Nil}
    /\ queue \in Seq(Observation)
    /\ slot \in BOOLEAN /\ writing \in BOOLEAN
    /\ cause \in Causes \cup {Nil}
    /\ probe \in [pc : {"off", "asking", "read", "queued"}, evidence : Evidence \cup {Nil}]
    /\ probes \in 0..MaxProbes /\ replays \in 0..MaxReplays /\ crashes \in 0..MaxCrashes

Quiet == [pc |-> "off", evidence |-> Nil]

BindingInit ==
    /\ produced = [revision |-> 1, ended |-> {}]
    /\ stored = Nil
    /\ binding = "off" /\ snapshot = Nil /\ buffer = <<>> /\ arrived = 0
    /\ accepted = Nil /\ queue = <<>> /\ slot = FALSE /\ writing = FALSE
    /\ cause = Nil
    /\ probe = Quiet
    /\ probes = 0 /\ replays = 0 /\ crashes = 0

\* Every predicate has ended: nothing is left to subscribe to.
Settled(evidence) == evidence # Nil /\ evidence.ended = Predicate

\* Why later evidence cannot follow the one before, or Nil
\* (observeAuthorityExecution and publish state the same rules).
Objection(prior, next) ==
    IF next.revision < prior.revision THEN "stale"
    ELSE IF next.revision = prior.revision
         THEN IF next.ended # prior.ended THEN "conflict" ELSE Nil
    ELSE IF ~(prior.ended \subseteq next.ended) THEN "reopened" ELSE Nil

-----------------------------------------------------------------------------
(* Binding: bindForWait, restorePending, initialize *)

\* The listener is installed, then the snapshot is asked for: when a wait on the
\* execution is declared, or once when the branch is attached again.
Bind ==
    /\ binding \in {"off", "due"} /\ ~Settled(stored)
    /\ binding' = "asking"
    /\ UNCHANGED <<produced, stored, snapshot, buffer, arrived, accepted, queue, slot,
                   writing, cause, probe, counts>>

\* The producer reads its state for the answer; the answer arrives later.
ReadSnapshot ==
    /\ binding = "asking"
    /\ binding' = "read"
    /\ snapshot' = produced
    /\ UNCHANGED <<produced, stored, buffer, arrived, accepted, queue, slot, writing,
                   cause, probe, counts>>

\* restorePending
Restore == binding = "due" /\ Bind

\* Back to no subscription at all.  Another declaration may try again; a branch
\* that was attached again holds its automatic work.
Cleared ==
    /\ snapshot' = Nil /\ buffer' = <<>> /\ arrived' = 0
    /\ accepted' = Nil /\ queue' = <<>> /\ slot' = FALSE /\ writing' = FALSE
    /\ cause' = Nil
Dropped == binding' = "off" /\ Cleared

\* Five seconds without an answer.
SnapshotTimesOut ==
    /\ binding \in {"asking", "read"}
    /\ Dropped
    /\ UNCHANGED <<produced, stored, probe, counts>>

\* In the order of their revisions each follows from the one before it; what has
\* ended stays ended, so that each then follows from every one before it.
Consistent(observations) ==
    \A prior, next \in observations :
        prior.revision <= next.revision => Objection(prior, next) = Nil
Newest(observations) ==
    CHOOSE last \in observations : \A o \in observations : o.revision <= last.revision

\* The snapshot and what was buffered are put in order and checked.
Merged(initial) ==
    LET seen == {initial} \cup {buffer[i] : i \in DOMAIN buffer}
    IN IF Consistent(seen)
       THEN /\ binding' = "synchronizing"
            /\ snapshot' = Newest(seen)
            /\ buffer' = <<>>
            /\ UNCHANGED <<arrived, accepted, queue, slot, writing, cause>>
       ELSE Dropped

\* The answer arrives.
Merge ==
    /\ binding = "read"
    /\ Merged(snapshot)
    /\ UNCHANGED <<produced, stored, probe, counts>>

\* synchronizeExecution; then what was buffered meanwhile, or ready.
Refused == stored # Nil /\ Objection(stored, snapshot) # Nil
Ready == binding' = "ready" /\ accepted' = snapshot
         /\ UNCHANGED <<snapshot, buffer, arrived, queue, slot, writing, cause>>
\* Ready after the first snapshot, whatever arrived meanwhile.
Synchronize_Once ==
    /\ binding = "synchronizing"
    /\ stored' = IF Refused THEN stored ELSE snapshot
    /\ IF Refused \/ cause # Nil THEN Dropped ELSE Ready
    /\ UNCHANGED <<produced, probe, counts>>
Synchronize ==
    /\ binding = "synchronizing"
    /\ stored' = IF Refused THEN stored ELSE snapshot
    /\ IF Refused \/ cause # Nil THEN Dropped
       ELSE IF buffer = <<>> THEN Ready
       ELSE Merged(snapshot)
    /\ UNCHANGED <<produced, probe, counts>>

-----------------------------------------------------------------------------
(* Publishing *)

\* fail(): the subscription ends; its record stays and refuses a new one.
CutOff(why) ==
    /\ binding' = "failed" /\ cause' = why
    /\ UNCHANGED <<snapshot, buffer, arrived, accepted, queue, slot, writing>>

\* A full buffer fails the subscription; a write under way is still done.
Buffered(evidence) ==
    IF buffer # <<>> /\ buffer[Len(buffer)] = evidence
    THEN UNCHANGED subscription
    ELSE IF arrived >= MaxPending
    THEN IF binding = "synchronizing"
         THEN cause' = "capacity"
              /\ UNCHANGED <<binding, snapshot, buffer, arrived, accepted, queue, slot,
                             writing>>
         ELSE Dropped
    ELSE /\ buffer' = Append(buffer, evidence) /\ arrived' = arrived + 1
         /\ UNCHANGED <<binding, snapshot, accepted, queue, slot, writing, cause>>

\* A report that waits takes the newer revision whatever has ended since.
Accepted_Coalesced(evidence) ==
    /\ accepted' = evidence
    /\ IF slot
       THEN /\ queue' = [queue EXCEPT ![Len(queue)].evidence.revision = evidence.revision]
            /\ UNCHANGED slot
       ELSE /\ queue' = Append(queue, [kind |-> "event", evidence |-> evidence])
            /\ slot' = TRUE
    /\ UNCHANGED <<binding, snapshot, buffer, arrived, writing, cause>>
\* Unchanged predicates are merged into the last observation that waits.
Mergeable(evidence) == slot /\ queue[Len(queue)].evidence.ended = evidence.ended
Accepted(evidence) ==
    /\ accepted' = evidence
    /\ IF Mergeable(evidence)
       THEN /\ queue' = [queue EXCEPT ![Len(queue)].evidence.revision = evidence.revision]
            /\ UNCHANGED slot
       ELSE /\ queue' = Append(queue, [kind |-> "event", evidence |-> evidence])
            /\ slot' = TRUE
    /\ UNCHANGED <<binding, snapshot, buffer, arrived, writing, cause>>

Events == Cardinality({i \in DOMAIN queue : queue[i].kind = "event"})
Full(evidence) == ~Mergeable(evidence) /\ Events >= MaxPending

\* The listener's callback.
Published(evidence) ==
    IF binding \notin Listening \/ cause # Nil THEN UNCHANGED subscription
    ELSE IF binding # "ready" THEN Buffered(evidence)
    ELSE IF Objection(accepted, evidence) # Nil THEN CutOff(Objection(accepted, evidence))
    ELSE IF evidence = accepted THEN UNCHANGED subscription
    ELSE IF Full(evidence) THEN CutOff("capacity")
    ELSE Accepted(evidence)

\* The producer moves on, ends predicates or just reports, and tells its listener.
Emit(ended) ==
    /\ produced.revision < MaxRevision /\ produced.ended # Predicate
    /\ produced' = [revision |-> produced.revision + 1,
                    ended |-> produced.ended \cup ended]
    /\ Published(produced')
    /\ UNCHANGED <<stored, probe, counts>>

\* The state is reported once more, as a change of health is.
Repeat == Published(produced) /\ UNCHANGED <<produced, stored, probe, counts>>

\* An old event is delivered again.
Replay(evidence) ==
    /\ replays < MaxReplays
    /\ replays' = replays + 1
    /\ evidence.revision < produced.revision /\ evidence.ended \subseteq produced.ended
    /\ Published(evidence)
    /\ UNCHANGED <<produced, stored, probe, probes, crashes>>

-----------------------------------------------------------------------------
(* The queue: one observation at a time goes to the store *)

\* The first is taken from the queue to be written: it takes no merge any more.
Write ==
    /\ binding = "ready" /\ queue # <<>> /\ ~writing /\ Head(queue).kind # "dropped"
    /\ writing' = TRUE
    /\ slot' = (slot /\ Len(queue) > 1)
    /\ UNCHANGED <<produced, stored, binding, snapshot, buffer, arrived, accepted, queue,
                   cause, probe, counts>>

\* A subscription that was cut off writes nothing more and runs empty; a probe that
\* was given up is passed over.
Skip ==
    /\ binding \in {"ready", "failed"} /\ queue # <<>> /\ ~writing
    /\ binding = "failed" \/ Head(queue).kind = "dropped"
    /\ queue' = Tail(queue)
    /\ slot' = (slot /\ Len(queue) > 1)
    /\ probe' = IF Head(queue).kind = "probe" THEN Quiet ELSE probe
    /\ UNCHANGED <<produced, stored, binding, snapshot, buffer, arrived, accepted, writing,
                   cause, counts>>

\* observeExecution commits, even if the subscription was cut off meanwhile.
Written == queue' = Tail(queue) /\ writing' = FALSE
Apply ==
    /\ writing /\ Head(queue).kind = "event"
    /\ LET next == Head(queue).evidence
           why == Objection(stored, next)
       IN IF why = Nil
          THEN stored' = next /\ UNCHANGED <<binding, cause>>
          ELSE /\ UNCHANGED stored
               /\ IF binding = "failed" THEN UNCHANGED <<binding, cause>>
                  ELSE binding' = "failed" /\ cause' = why
    /\ Written
    /\ UNCHANGED <<produced, snapshot, buffer, arrived, accepted, slot, probe, counts>>

\* A report of a probe is dropped when an event has overtaken it, and does not
\* take back what was accepted while it was written.
Overtaken(evidence) == evidence.revision < stored.revision
ReportProbe ==
    /\ writing /\ Head(queue).kind = "probe"
    /\ LET next == Head(queue).evidence
       IN IF Overtaken(next) \/ Objection(stored, next) # Nil
          THEN UNCHANGED <<stored, accepted>>
          ELSE /\ stored' = next
               /\ accepted' = IF next.revision >= accepted.revision THEN next
                              ELSE accepted
    /\ Written
    /\ probe' = Quiet
    /\ UNCHANGED <<produced, binding, snapshot, buffer, arrived, slot, cause, counts>>

\* probe(): ask, then put the answer at the end of the queue.  (The flush before
\* it only shortens what can overtake the answer.)
Probe ==
    /\ probe.pc = "off" /\ binding = "ready" /\ probes < MaxProbes
    /\ probes' = probes + 1
    /\ probe' = [Quiet EXCEPT !.pc = "asking"]
    /\ UNCHANGED <<produced, stored, subscription, replays, crashes>>
ProbeReads ==
    /\ probe.pc = "asking" /\ binding = "ready"
    /\ probe' = [pc |-> "read", evidence |-> produced]
    /\ UNCHANGED <<produced, stored, subscription, counts>>
ProbeAnswers ==
    /\ probe.pc = "read" /\ binding = "ready"
    /\ probe' = [probe EXCEPT !.pc = "queued"]
    /\ queue' = Append(queue, [kind |-> "probe", evidence |-> probe.evidence])
    /\ slot' = FALSE
    /\ UNCHANGED <<produced, stored, binding, snapshot, buffer, arrived, accepted,
                   writing, cause, counts>>
\* The monitor gives a probe a time; the subscription's end aborts it.
ProbeGivenUp ==
    /\ probe.pc \in {"asking", "read"}
    /\ probe' = Quiet
    /\ UNCHANGED <<produced, stored, subscription, counts>>
\* The same of a probe whose answer is in the queue, unless it is being written.
DroppedProbes ==
    [i \in DOMAIN queue |-> [queue[i] EXCEPT !.kind = IF @ = "probe" THEN "dropped" ELSE @]]
ProbeAbandoned ==
    /\ probe.pc = "queued" /\ ~(writing /\ Head(queue).kind = "probe")
    /\ probe' = Quiet
    /\ queue' = DroppedProbes
    /\ UNCHANGED <<produced, stored, binding, snapshot, buffer, arrived, accepted, slot,
                   writing, cause, counts>>

-----------------------------------------------------------------------------
(* Closing and restarting *)

\* closeTerminalSubscriptions, once every predicate has ended; what is being
\* written is waited for.
CloseSettled ==
    /\ binding # "off" /\ Settled(stored) /\ ~writing
    /\ Dropped
    /\ probe' = Quiet
    /\ UNCHANGED <<produced, stored, counts>>

\* The process dies: what the store has remains, the producer goes on.
Crash ==
    /\ crashes < MaxCrashes
    /\ crashes' = crashes + 1
    /\ binding' = IF stored # Nil /\ ~Settled(stored) THEN "due" ELSE "off"
    /\ Cleared
    /\ probe' = Quiet
    /\ UNCHANGED <<produced, stored, probes, replays>>

Subscribe == Bind \/ ReadSnapshot \/ SnapshotTimesOut \/ Merge \/ Synchronize
Produce ==
    \/ \E ended \in SUBSET Predicate : Emit(ended)
    \/ Repeat
    \/ \E evidence \in Evidence : Replay(evidence)
Flush == Write \/ Skip \/ Apply \/ ReportProbe
Reread == Probe \/ ProbeReads \/ ProbeAnswers \/ ProbeGivenUp \/ ProbeAbandoned

BindingNext == Subscribe \/ Produce \/ Flush \/ Reread \/ CloseSettled \/ Crash

\* Continuations run, and the branch binds what it waited for when it is attached.
\* Nothing makes a wait be declared, or a snapshot be answered in time.
BindingFairness ==
    /\ WF_bindingVars(Restore) /\ WF_bindingVars(ReadSnapshot)
    /\ WF_bindingVars(Merge) /\ WF_bindingVars(Synchronize)
    /\ WF_bindingVars(Flush)
    /\ WF_bindingVars(ProbeAnswers) /\ WF_bindingVars(ProbeGivenUp)

BindingSpec == BindingInit /\ [][BindingNext]_bindingVars /\ BindingFairness

-----------------------------------------------------------------------------
(* Properties *)

\* What the store has of an execution is what its producer published, however
\* events, snapshots, probes and a restart overtake one another
\* (ExecutionBinding.publish, initialize, merge, probe): a subscription that is
\* ready and has nothing in its queue has stored the producer's present evidence,
\* and a producer that reports in order and takes nothing back is not cut off: a
\* subscription fails only when an old event came again or more came than it
\* holds.
Faithful ==
    /\ BindingTypeOK
    /\ binding = "ready" /\ queue = <<>> => stored = produced
    /\ binding = "failed" => cause = "capacity" \/ replays > 0

\* An execution that was subscribed to when it ended, or whose subscription was
\* still to be restored, is seen to have ended: no merge, probe or restart loses
\* the end, unless the subscription was cut off or its snapshot never came
\* (which holds the automatic work of the branch).
EndReaches ==
    Settled(produced) /\ binding # "off" ~>
        Settled(stored) \/ binding \in {"off", "failed"}
=============================================================================
