# Jouzu in TLA+

This directory is a verification development for [Jouzu](../src/README.md), a
terminal coding harness built on the Pi agent runtime. It holds TLA+ modules
translated from the TypeScript sources, configurations that model-check them
on small instances with TLC, and theorems about them that the TLA+ proof
system (TLAPS) checks for every value of the constants.

- [What Jouzu is](#what-jouzu-is) and [its parts](#inventory)
- [The modules](#the-modules): how each corresponds to the code
- [The runs](#the-runs), [their bounds](#bounds), [the fairness assumed](#fairness)
- [Disagreements found](#disagreements-between-the-code-and-what-it-says)
- [What is proved](#what-is-proved), [only checked](#what-is-only-model-checked),
  [not modelled](#what-is-not-modelled)
- [The plan](#plan)

`PROJECT.json` maps every definition to the lines it stands for, lists the
hazards with the properties that guard against them, and gives for every
property a plausible bug (a "mutant") that the property catches.

Paths below are relative to `src/packages/cli/src`, and `flow-control/` is
left out where no confusion is possible.

## What Jouzu is

A Jouzu session is one conversation with a model. Besides what the user types,
work may start by itself: a loop continues, a background task reports, a child
agent finishes, a wait ends. *Flow control* (`flow-control/`, 24,000 of the
71,000 lines) decides which of these starts the next turn, sees to it that
the user always goes first, records durably what was sent to the provider, and
guarantees that after a crash nothing is sent twice and nothing that was sent
is forgotten. *Child agents* (`subagents/`) run in processes of their own,
queued, limited in number and kept from writing over one another. The rest of
the repository is a package around these: profiles, model catalogs, sign-in,
updates, a text guard, voice, localisation, terminal widgets, a launcher.

The development concentrates on flow control and child agents: that is where
concurrent actors, durable state and crashes meet.

```text
   producers            user, extensions
  (loops, tasks,              |
   waits, agents)             v
      | changed()      session ingress ----- submission store
      v                       |
  controller  <--- wake ------+
      | choose      (admission.ts)
      | check, select, queue, claim, settle
      v                                         \
  controller host -> native queue -> run         > receipt ledger
      |                  |  claim               /      |
  host boundary (idle) <-+ prepare, handoff, outcome   |
                                                  journal storage
                                                       |
                                                  one file per branch,
                                                  one owner at a time
```

## Inventory

Every component named by the sources or by `docs/architecture.md`, with what
it keeps, what can be done to it, what it talks to, what is hard about it and
what makes it correct. `PROJECT.json` lists them with their files and status.

### Receipt ledger (`receipt-ledger.ts`, `request-retention.ts`, `attempt-retention.ts`, `pi-ledger-store.ts`)

*State.* One record per attempt at an automatic turn: phase, members (what it
carries), native history entries, provider requests with what each included
and how it ended, a summary of the requests that were folded; the one active
attempt; the policy state of admission; what is remembered of retired attempts.
*Operations.* attach, select, queued, claim, history, prepare, withhold,
handoff, requestOutcome, uncertain, resolveUncertain, settle, cancel,
emergencyReset, reset, retire; each one transaction.
*Talks to.* The controller and the host write it; the controller reads it to
decide what may be offered; the journal stores it.
*Hard.* A restart between any two calls; retries and compaction inside one
attempt; folding and retiring records that still count as evidence.
*Correct when.* One attempt at a time is open; no request is handed off twice;
sent work is never taken for unsent; spent work stays fenced whatever is
folded or retired; fairness is charged only for what was really included; no
call sequence reaches a state the ledger's own `validate()` rejects.

### Admission policy (`admission.ts`)

*State.* A round of producers per rank, and the debt of cadence work.
*Operations.* One pure function, `chooseFlowIntent`; its result is stored
later, when a request is known to carry the chosen intent.
*Hard.* Intents appear, disappear and move between the choice and the charge.
*Correct when.* Producers of a rank take turns; cadence work is served after a
bounded number of other turns; a round never names a producer with nothing
to offer; a wait decision is delivered although work is charged for the turn.

### Journal storage (`journal-storage.ts`, `journal-checkpoint.ts`, `scalar-storage.ts`, `ownership.ts`, `process-lock.ts`)

*State.* A file with one transaction per line; in memory its latest values,
the next sequence number, a queue of mutations; a lock per branch.
*Operations.* acquire, open (repair, replay), mutate (append), checkpoint
(write, sync, rename), close, release.
*Hard.* A crash inside an append or a checkpoint; an append that fails after
writing; a close with mutations queued; owners in turn.
*Correct when.* A file that has its header opens again after any append, checkpoint
or change of owner, whatever cut it short; acknowledged transactions
survive, doubtful ones happen as a whole or not at all; numbers are not reused;
what an owner reads is what was acknowledged.

### Flow controller, host and native queue (`controller.ts`, `pi-controller-host.ts`, `pi-queue-receipts.ts`, `pi-host-boundary.ts`, `scripts/pi-flow-control-transform.mjs`)

*State.* The scheduling loop; held and disposed producers; the host's one
pending input, revoked or not; the item in Pi's queue; the idle barrier.
*Operations.* wake, one step of the loop, register, dispose, close; enqueue,
run, invalidate, reconcile, detach; drain and claim; settle at idle.
*Hard.* Every await is a window in which a producer changes, the user types,
a run starts or the session closes. The queue is drained by a run the
controller may not have started.
*Correct when.* What a run takes is what the producers still offer; nothing is
consumed twice; an item in the queue always has its attempt; the loop rests,
reservations end, close completes and no wake is lost.

### Child agents (`subagents/manager.ts`, `worker.ts`)

*State.* A saved record per run; the queue; workers, timers, results, writer
locks; the owner's lock of the session.
*Operations.* open, attach, launch, resume, receive, exited, stop, stopAll,
the pump, settings, dispose.
*Hard.* Stops, time limits, results and exits in any order; a worker that
lives on after its stop; writers of other sessions; several processes that
open the same parent session.
*Correct when.* A writer has its workspace to itself; locks come back;
stopped runs do not end as successes; finished records are final; a
conversation is continued by one worker; every accepted run ends.

### Session ingress (`pi-session-ingress.ts`, `pi-session-service.ts`, `pi-session-registry.ts`, `pi-branch-binding.ts`, `model-input.ts`)

*State.* Pending input, the binding of the current session branch, releases
asked for and under way. *Operations.* admit, release, wakeProducers, suspend,
switch of branch, close. *Hard.* `queueRelease` merges requests into a release
that may already have looked; a branch switches between two awaits.
*Correct when.* Accepted input is released or visible, once; automatic work is
woken after every boundary; nothing runs against a branch that was left.

### Submission store and user input (`submission-store.ts`, `user-input-*.ts`, `user-work.ts`)

*State.* Accepted input with its revision, dispatch intent and receipts.
*Operations.* retain, revise, dispatch, cancel, recover, retire. *Hard.*
callbacks that belong to a dead process. *Correct when.* Input is dispatched at
most once and never lost silently.

### Native requests (`native-request-store.ts`, `pi-native-*.ts`)

*State.* Requests that Pi itself makes, their outcome, holds and
authorisations to retry. *Operations.* begin, finish, hold, authorise, retry,
reconcile, retire. *Hard.* outcome unknown after a crash; retry of something
already answered. *Correct when.* One retry per authorisation; no hold is
released without an outcome or a decision.

### Waits and their evidence (`wait-store.ts`, `wait-state.ts`, `wait-deadlines.ts`, `wait-producers.ts`, `wait-decisions.ts`, `wait-health*.ts`)

*State.* Waits of a piece of work on executions, with observations, deadline,
check time; subscriptions that buffer events until a snapshot has arrived.
*Operations.* register, replace, reconcile, expire, cancel, retire; subscribe,
publish, probe. *Hard.* an event overtakes the snapshot asked for before it;
evidence and deadline in either order; timers of a replaced deadline.
*Correct when.* One live wait per work; evidence only moves forward; a
terminal transition is neither lost nor reported twice; each ended wait
produces its decision.

### Producers (`multiloop-producer.ts`, `task-producer.ts`, `background-adapter.ts`, `automatic-work.ts`)

*State.* Loops, task lists and background results with revisions.
*Operations.* snapshot, changed, build. *Correct when.* a change is announced
and a snapshot agrees with what is later built.

### Results, history and projections (`result-*.ts`, `pi-history-*.ts`, `tool-history.ts`)

Order and paging of results in one envelope, evidence found in a transcript:
data work over payloads, nearly pure.

### Notification inbox (`notifications/inbox.ts`, `subagents/completion.ts`)

*State.* The batch in flight, what is withheld. *Hard.* the receipt of a sent
batch appears in the transcript later, or never. *Correct when.* a completion
reaches the main conversation once.

### State lock (`state-lock.ts`), private files (`private-fs.ts`)

A lock file with the owner's pid, recovered when its owner is dead and the
lock old; atomic replacement of small files. *Hard.* two recoveries at once:
the comment above `acquireStateLock` says they are not excluded. *Correct
when.* one process at a time holds the lock, but for that race.

### Updater (`updater.ts`, `cli-bootstrap.ts`)

*State.* The installed package, which every running process was started from;
a state file with policy, last check and last result; a rollback copy.
*Operations.* check, setPolicy, apply (pack, download, install, verify, put
back), startup. *Hard.* processes that run while the package is replaced under
them, and that die at any step. *Correct when.* One updates at a time, and
between updates the package is whole and the newest that was found to work.

### The rest

Account sign-in (device-code polling), model catalog (refresh of a validated cache), profiles, settings and
keybindings (small files under the state lock), text guard (scanning by a
native library), agent client protocol (message translation), voice, palette,
model picker, localisation, session frame, web tools, launcher, build scripts.
Sequential I/O, parsing, or presentation; `PROJECT.json` gives the reason for
each.

## The modules

| Module | Models | Uses |
| --- | --- | --- |
| `Reservation` | what the ledger promises about turns | |
| `ReceiptLedger` | the ledger, one action per operation | `Reservation`, by a refinement mapping |
| `Admission` | the policy, the controller's boundary, the ledger's charge | |
| `AtomicStore` | what the journal promises its stores | |
| `JournalStorage` | the journal, its checkpoint, its line of mutations, its owner's lock | `AtomicStore`, by a refinement mapping |
| `FlowController` | controller, host, native queue, boundary, user and close | abstracts `Admission` (which intents) and `ReceiptLedger` (phases) |
| `Subagents` | the manager, its workers, other processes and sessions | |
| `SubmissionStore` | the records of what a session accepted, as operators | |
| `SessionIngress` | a send from submission to its one native call, and the scheduler | extends `SubmissionStore` |
| `NativeRequests` | receipts of provider requests: withheld, retried, cancelled | |
| `WaitStore` | waits, their executions, ends and decisions | |
| `WaitScans` | the scanners of deadlines and of health | |
| `WaitBinding` | the subscription to one execution of a producer | |
| `StateLock` | the lock file of a user's processes | |
| `SelfUpdate` | processes that replace the package they run from | extends `StateLock` |
| `SharedFilesProofs` | theorems about `JournalStorage`, `StateLock` and `SelfUpdate` | extends them |
| `FlowStoresProofs` | theorems about `NativeRequests` and `WaitStore` | extends them |
| `WaitEvidenceProofs` | theorems about `WaitScans` and `WaitBinding` | extends them |
| `…Proofs` | theorems about the module they are named for | extend it |
| `MC…` | small instances for TLC | extend it |

`MCReceiptLedger` checks the ledger and the policy (`Admission`);
`MCFlowStores` the stores of native requests and waits; `MCSubmissions` the
session, the journal and the updater; `MCWaitEvidence` the scanners and the
subscription. Modules that share an MC module share no state:
each behaviour picks one of them, and a part of what it can do, as its `scope`
at the start.

### `ReceiptLedger`

`pi-ledger-store.ts` runs every mutation as one serialised transaction, so
every method is one atomic action. `attempts` is the stored list (with
`older` for its order, which retirement follows); a request is its identity,
what it included, whether it was sent and its outcome. `HasHandoff` is
`hasFlowHandoff`, `Consolidated` is `consolidateFlowRequests`, `Fenced` is the
controller's `retainedByReceipt`. Actions carry the method's name: `Attach`
closes what an earlier process left open (sent: uncertain, unsent:
cancelled), `Prepare` records the included content, charges admission and
folds older requests, `Retire` prunes settled attempts and keeps their fences.
A call through the handle of an earlier attachment is refused by the code and
changes nothing, so only calls through the current handle are actions. The
code's own `validate()` is no guard of the model: `Validates` says that it
never refuses. Left out: texts and their hashes, byte limits, the reasons of
an ending.

`Reservation` has two variables, who holds the session and the fate of each
turn. Its mapping (`holder`, `fate`) reads them off the phases.

### `Admission`

`Refreshed`, `Eligible` and `Unique` follow the body of `chooseFlowIntent`
from the filter of the gates to the refreshed rounds; `Choose` is the
controller's call of it, with the decision that rides along and the fillers of
the same selection (`controller.ts` from the idle boundary on); `Include` is
the part of the ledger's `prepare` that installs the chosen rounds and debt.
Producers, waits and gates are an environment that may do what the code of the
producers can. History variables count turns for the fairness properties.
`Ordered` gives each element the place that the number of elements before it
says, so that what is kept of a round needs no recursion and can be reasoned about.

### `JournalStorage`

`journal` is a floor for sequence numbers (the checkpoint's header), complete
lines and what kind of tail follows; `holder` is the owner's lock. `Open`
truncates an unfinished tail and replays; `Start`, `Write`, `Finish`,
`Acknowledge` are the stages of an append, `Compact` and `Rename` those of a
checkpoint; `AppendFails` leaves any part of the line and fences the session.
A crash is possible in every state. `AtomicStore` is a map and one transaction
in doubt; the mapping takes the map from a history variable, `agreed`, and
`ReadsSettled` ties that variable to what the sessions really serve.

### `FlowController`

`pc` is the await at which the loop stands; the order of its values is the
order of `step()`. An attempt is the phase the ledger would show, `slot` and
`revoked` the host's pending input, `queued` the item in Pi's queue, `claim` and
`turn` what a native run is doing. `Changed` is a producer's announcement,
`Wake` the scheduler's call, `Fence` what every wake does at once (revision,
dirty flag, `host.invalidate`). A pass over snapshots is one action per
producer, so that a change may come between two of them. The session's
`wakeProducers` lets one wake finish before the next; so does `Wake`.

### `Subagents`

The manager's methods run without an await until a worker is stopped, so each
is one action together with the pump that ends it. `disk` is what is saved,
`memory` what each process believes: they differ between opening a session and
owning it, and for the time in which a stopped worker has not exited. Runs are
numbered as they are launched, and the queue, which the code keeps as a `Map`
in order of insertion, is a set of them. `Considered` is the pump's body for one
run, with the three conditions of the code (room, no incompatible agent in the
workspace, the cross-session writer lock); the pump is its fold over the
queue, as a recursive function on the numbers. Other sessions are
`ForeignWriter` and its end. `Stop` marks the run and tells the worker;
`Exited` is the process's end, which frees its place and its lock; `StopFails`
restores the status a rejected stop found. `Dispose` and `Disposed` are the two
halves of `dispose()` around its await. `Crash` frees the locks at once
(process-lock.ts: the operating system does), while the workers live until they
notice (`OrphanEnds`, worker.ts).

### `SubmissionStore` and `SessionIngress`

A record is per identity under which a message was submitted; an operator of
`SubmissionStore` is one transaction of the code's store. `pending` is the map
of callbacks with the revision each was registered for, `release` the steps of
one release (`admitted`, `hold`, `prepare`, the native call, what it returned),
`scheduler` the pass with what `queueRelease` has merged into it. `Submit`,
`RetainExternal`, `Admitted`, `Hold`, `Dispatch`, `Return`, `Fail` and
`EndCallback` are the stages of a send at their awaits; `Begin`, `Reissue` and
`Retire` the replay of inherited continuations; `RuntimeEnds` a reload that
takes an adapter's callbacks; `FlushBegins` to `FlushEnds` `/flow off`; `Repair`
and `Clear` what the user does about a blocked session; `Reopen` a crash and the
next attachment. Every issue of a continuation has an identity of its own, and
each identity is for one issue (`Unused`).

Accepted states that look odd but follow the code: an external dispatch that
failed without its input stays awaiting and blocks automatic replies until the
input is repaired, across restarts and clears (docs/flow-control.md, lines
48-49); what was flushed stays undispatched, so a flushed continuation is
issued again after a restart. `NoLostRelease` excludes, by the history variable
`silent`, releases after which the code asks for no pass: of revoked external
input; of an adapter whose running release decided before a repair; of an
adapter's prompt that was handled without input; of a prompt that was refused as
busy while the work belonged to a prompt whose end asks for no pass for it
(`AsksFor`: an adapter's, or one that a pass released which does not have this
one left to try); and of a call whose record was discarded, when its error ends
a pass that has more to try.

### `NativeRequests`

A request's number is its place in the store. `BeforeRequest`, `Execute`,
`Complete`, `Handoff`, `Withhold`, `Answer` and `Lost` follow one provider
request from the checkpoint that demands its input to its outcome;
`AuthorizeRetry`, `CancelSources`, `CancelProjections` and `Clear` are the
user's decisions about a withheld one; `Compact` and `Archive` move the input out
of the context and the store; `RetireHistory` drops settled requests and keeps
the index of cancelled input; `Reattach` is a new owner, or a crash. `Demanded`
is what the store requires of a request, `Superseded` what a retirement may
forget. An input that was archived with its submission can be required again
after its receipt was retired, because the two lists differ
(`consumedSources()` includes archived submissions, `retireUnreferencedRequests`
does not see them); `NeverRequiredAgain` excludes archived input.

### `WaitStore`, `WaitScans` and `WaitBinding`

In `WaitStore` a method is one transaction and one action; times are given by
callers, who may have read the clock before an await, so they come in any
order. `Observe` and `RegisterExecution` reconcile all waits with the new
evidence, `ObserveHealth` ends a wait by a verdict, `DeclareOwned` declares or
replaces, `ExpireDue` ends what is due, `DecisionObserved` and `Retire` follow the
decision of an ended wait to its delivery and its retirement. A retirement is for
any of the executions that have ended, because their producers are asked whether
they let go, and for any work that is finished: what was stopped or completed,
and, in the automatic pass, active work for input of the user whose receipts say that it
was handled (`FinishedWork`). As in the ledger,
the store's validation is a property (`WaitsValidate`) and not a guard.

`WaitScans` has the awaits of the two scanners (`pc`) and `requested`/timers
for what happened meanwhile. `WaitBinding` has those of one subscription:
listener, snapshot, buffer, synchronise, queue, probe. `Write` takes the first of the
queue, which takes no merge from then on, and `Apply` or `ReportProbe` commits it,
even if the subscription was cut off meanwhile; `Skip` passes over what is not
written any more, the answer of a probe that was given up in the queue
(`ProbeAbandoned`) among it. What was buffered is put
in order with the snapshot (`Merged`) once when the answer arrives and again, in
the same step, when a write to the store returns to a buffer that is not empty,
as the code's loop does; only the five seconds for the answer are ever timed.
The order itself is no sequence: its last element is the newest of a set, and
that each follows from the one before it is said of all pairs, which comes to
the same because what has ended stays ended.

### `StateLock` and `SelfUpdate`

Creating, writing, inspecting and removing the lock file are calls of their
own; an inspection is two (the time of the file, its record), which may see
different locks, and so is a release. `at` is where a process stands with the
lock, `stage` where it stands in `check`, `setPolicy`, `apply` (pack, download,
install, verify, revert) or `startup`. Two processes that recover the same
stale lock can overtake one another, as the comment above `acquireStateLock`
says; the history variable `raced` notes it, and `Exclusive` and `Settled`
speak of the other behaviours. An update that died, or that could not put the
old version back, is noted in `damaged`.

## The runs

| Run | Question | Shows |
| --- | --- | --- |
| `ledger_turns` | two attempts, restarts, resets, decisions, prunings in any order; or the policy with a decision, ordinary and cadence work of two producers | `SingleReservation`, `Validates`, `ChargedWasIncluded`, `HandoffsKept`, `EvidenceExact`, `FencesHold`, refinement of `Reservation`; `FairTurns`, `NoLostIntent`, `DecisionDelivered` |
| `flow_turns` | two producers changing at every await, with a user turn or a replaced intent, under fair scheduling | `ItemAccounted`, `ClaimsCurrent`, `ConsumedOnce`, `Rests`, `CloseCompletes`, `WakeHeard` |
| `subagents_runs` | two runs in one workspace, a foreign writer, both settings changing, failing stops, crashes | `WritersAlone`, `LocksFollowWorkers`, `SuccessIsReported`, `TerminalStays`, `LeavesNothing`, `RunsEnd` |
| `submissions_life` | a journal handed over with everything cut short; sessions with two sends; two processes that update | `Openable`, `ReadsSettled`, refinement of `AtomicStore`; `AtMostOnce`, `Accounted`, `NoLostRelease`; `Exclusive`, `Settled` |
| `stores_life` | requests withheld, retried, cancelled, retired; waits declared, replaced, ended, retired | `Validates`, `CancelledStaysOut`, `NeverRequiredAgain`; `WaitsValidate`, `DecisionKept` |
| `waits_ends` | scanners and subscription against changes at every await | `DeadlineNoticed`, `SilenceNoticed`, `ReportWins`; `Faithful`, `EndReaches` |
| `ledger_retry` | what "retry" of an interrupted turn does | a violation of `RetryReleasesWork` |
| `flow_slot` | a run between the last check and the enqueue | a violation of `SlotFree` |
| `subagents_resume` | a resume while the stopped worker lives | a violation of `OneWorkerPerConversation` |
| `subagents_stale` | a second process opens the session early | a violation of `TerminalStays` |
| `native_retry` | a retry whose input is dropped this time | a violation of `RetryUnchanged` |
| `submissions_replay` | a continuation that failed before a crash | a violation of `ContinuationsFlow` |

Each property has a comment in its module that says it in words and names the
code it is about. The type invariants are part of what is proved, or were
checked with the instances and left out of the runs in favour of what depends
on them.

Deadlock is not checked: every instance may stop. Identities are used up,
revisions, turns, lives and time are bounded, a controller is closed, all runs
have ended. That what must go on does go on is said by the liveness
properties.

### Bounds

*Ledger.* Two attempts are the least with which one can end while another
begins, or be retired before another; a third adds an attempt between them and
no new kind of state, since attempts interact only through `active`, the
order of retirement and the fences. `RecentRequests` (4 in the code) is 1, so
that folding happens at the second request; `Keep` (32) is 1, so that
retirement happens at the second attempt. Two attachments give a crash before
and after every call. `Attempt` and `Request` are symmetric; `Member` is not.

*Admission.* Four intents of two producers: a wait decision, ordinary work of
each, and cadence work that drives the same work as the other's. That is the
least in which a producer can be passed by a rival, a decision can ride with
either, cadence work can be starved or collapse into ordinary work, and two
producers drive one work. `CadenceLimit` is the code's 4.

*Journal.* Two processes, because a third owner meets the same file as the
second. Three transactions cover a write of two keys, a deletion, and a write
deleted in the same transaction. `MaxSequence` 7 allows three to four
transactions with checkpoints in between and reaches the refusal at the limit;
one mutation may wait behind the one under way.

*Controller.* Two producers let a change of one hit the pass over the other
and both be in one selection. In scope "user" a user turn can be placed at
every point against intents that come once; in "replaced" one intent is
replaced, so that a selection can be stale and the work consumed twice.

*Child agents.* Two runs in one workspace: any pair of a reader and a writer
beside each other, one waiting for the other, a resume of one by the other. Scope
"one" has one place and a foreign writer, "two" two places and a limit that
changes. One rejected stop. One process opens, closes, crashes and reopens the
session; a second one at the same time is the subject of `subagents_stale`.

*Session.* Five scopes of two sends each, so that any two kinds of send meet:
two continuations over a crash, flow control turned off with a typed send and
a continuation or with an adapter's, an adapter over a reload, two users over
a crash. One crash, two issues of a continuation, two revisions of an
adapter's message. A call that fails after its input was taken is in the first
scope only. Two sends do not reach everything three do (`NothingLeftBehind`
needed it), which is why the properties of this component are all proved too.

*Native requests and waits.* Three requests over one input give retries of
retries; two inputs come with two requests, of which either can show, lose and
cancel either. `Keep` is 1 (64 in the code), so that the index of cancelled
input matters at once. Two waits of one work on two executions, or of two works
on one, one of them watched for its health, three instants and one reset. Beside the
automatic work there is that of a campaign or that for the user's input.

*Scanners and subscription.* Two waits and four instants: a deadline beyond
the longest timer (`MaxDelay` 1), one that is replaced while a scan is under
way, a probe that times out. Four revisions of a producer, a queue of two, one
probe, one repeated event, one restart.

*Updates.* Two processes and three versions. With policies, checks and
failing installs each process starts once; with two lives of each they only
apply one release, to the end of what may happen around the lock.

### Fairness

Only what the scheduling of the code justifies, and only for liveness.

*Controller.* Weak fairness of the loop's own continuation (a promise that was
resolved is continued), of the native run's continuation, of the end of a user
turn, of a scheduled wake (`setImmediate`), of draining by a run the
controller started, of each producer's announcement, and of a turn for input
that has arrived. None of a user's input arriving, of a producer's change, or of closing. Snapshots may throw:
`Rests` and `WakeHeard` make the exception explicit. Wakes do not overlap,
because the session serialises them: with overlapping wakes one could land
between check and enqueue every time, and the loop would never rest.
`WakeHeard` has one more exception, which its instance showed to be needed: a
producer that replaced an intent and is disposed before it announced
the change can spoil a selection that also served others, and `dispose()` does
not wake the loop, so they wait for the next change, boundary or user turn.

*Child agents.* The queue's timer fires, a time limit fires, a worker that was
told to stop exits (it is killed after three seconds), closing continues when
its workers are gone, and agents of other sessions end. Nothing says that a
worker finishes by itself, so `RunsEnd` rests on the time limits.

*Scanners and subscription.* The clock advances, a scan under way continues and
an armed timer fires; the subscription's awaited store operations, its
snapshot and its flush continue, and a probe is answered or given up (both have
time limits). Nothing says that a producer publishes.

*The policy, the stores, the session, the journal and the updater* have safety
properties only; `DecisionDelivered` is an action property.

## Disagreements between the code and what it says

Each is a run that expects a violation, with the quoted line in
`PROJECT.json`.

1. **`ledger_retry`.** `resolveUncertain("retry")` says that the work "becomes
   eligible for a fresh attempt". It cancels the attempt but leaves
   `consumed` set, and the controller's fence holds for any consumed attempt:
   the work is not offered again. The test of that name looks at the phase only.
2. **`flow_slot`.** If a run starts between the controller's last check and
   `continueQueued`, the run drops the item as invalid and cancels the
   attempt, but the host's pending slot is cleared only by a reconciliation of
   that attempt, which no later step asks for. Every later enqueue is refused as busy
   until the session closes.
3. **`subagents_resume`.** A stopped run counts as finished before its worker
   has exited. Resuming it in that time starts a second worker on the same
   conversation, if the writer rules let both run.
4. **`subagents_stale`.** A process that opened the session while another one
   owned it marks that one's finished runs as interrupted when it gets the
   ownership, because it goes by the records it read at the start. The theorem
   `OnlyTakeoversDisturb` says that nothing else does this.
5. **`native_retry`.** A withheld request whose input had reached its
   conversion counts as having received it. Its retry requires nothing: the
   input is dropped this time and the retry is sent without it.
6. **`submissions_replay`.** A continuation whose call failed before a crash is
   issued again at the next open but never retired, because a dispatch exists,
   and holds the rest of its lane at this open and at every later one.

Smaller observations, not runs: the store of native requests stands still when
held input was cancelled and the branch then reset (pi-native-requests.ts:165);
a snapshot that times out at the attachment holds automatic work until the next
one; "Only one update runs at a time." (docs/updates.md) is not so while two
recoveries race; the updater's state file is read, changed and written without
the lock, so that a policy can be lost; a launch refused as busy goes on with
a package that is being replaced; a second process whose `apply` waited for
another's update fails at its own pack and overwrites the result "updated"
with "failed"; and an adapter's prompt that is refused as busy because a typed prompt that a
pass released owns the work (pi-session-ingress.ts:1465, 1488) waits for
somebody's next request, if that typed prompt is then handled without input: the
pass took its candidates before the adapter's prompt had its callback, so that it released
everything it held and asks for no other (lines 777-779). This takes three sends.

## What is proved

TLAPS checks these for every value of the constants that satisfies the named
assumption of the module (`LedgerAssumption`, `JournalAssumption`, ...). The
assumptions say that `None` is nothing else, that bounds are natural numbers, that
finite things are finite, and that a retention bound is positive where the code's
is.

| Theorem | Module | Says |
| --- | --- | --- |
| `TypeCorrect` | `ReceiptLedgerProofs` | `Spec => []TypeOK` |
| `OneReservation` | | `Spec => []SingleReservation` |
| `NeverRefused` | | `Spec => []Validates` |
| `ChargesBacked` | | `Spec => []ChargedWasIncluded` |
| `FoldingIsExact` | | `Spec => EvidenceExact` |
| `HandoffsAreKept` | | `Spec => HandoffsKept` |
| `SpentStaysFenced` | | `Spec => FencesHold` |
| `PromiseKept` | | `Spec => ReservationSpec` |
| `TurnsAreShared` | `AdmissionProofs` | `AdmissionSpec => []FairTurns` |
| `RoundsAreServed` | | `AdmissionSpec => []NoLostIntent` |
| `DecisionsDelivered` | | `AdmissionSpec => DecisionDelivered` |
| `AlwaysOpenable` | `SharedFilesProofs` | `JournalSpec => []Openable` |
| `SettledReads` | | `JournalSpec => []ReadsSettled` |
| `AtomicStoreKept` | | `JournalSpec => AtomicStoreSpec` |
| `NothingUnreceipted` | `FlowControllerProofs` | `Spec => []ItemAccounted` |
| `ClaimedAsOffered` | | `Spec => ClaimsCurrent` |
| `NothingTwice` | | `Spec => ConsumedOnce` |
| `ClosedLetsGo` | | `Spec => LetGo` |
| `SubagentTypes` | `SubagentsProofs` | `Spec => []TypeOK` |
| `OneWriter` | | `Spec => WritersAlone` |
| `LocksEndWithWorkers` | | `Spec => LocksFollowWorkers` |
| `NoEmptySuccess` | | `Spec => SuccessIsReported` |
| `ClosingLeavesNothing` | | `Spec => LeavesNothing` |
| `OnlyTakeoversDisturb` | | a finished record changes only when a process takes the session over |
| `FinishedStays` | | with one process, `Spec => TerminalStays` |
| `NothingLeftWaiting` | | `Spec => QueueServed` |
| `EveryRunAttended` | | `Spec => []Attended` |
| `RunsOnce` | `SessionIngressProofs` | `Spec => []AtMostOnce` |
| `NothingForgotten` | | `Spec => []Accounted` |
| `NothingLeftBehind` | | `Spec => []NoLostRelease` |
| `NativeTypeCorrect` | `FlowStoresProofs` | `Spec => []TypeOK` |
| `CancelledNeverSent` | | `Spec => CancelledStaysOut` |
| `ReceiptsNeverRefused` | | `Spec => []Validates` |
| `DeliveredOnce` | | `Spec => NeverRequiredAgain` |
| `DecisionsKept` | | `WaitSpec => DecisionKept` |
| `WaitsNeverRefused` | | `WaitSpec => []WaitsValidate` |
| `StoreFaithful` | `WaitEvidenceProofs` | `BindingSpec => []Faithful` |
| `NothingLost` | | `BindingSpec => []NewsUnderWay` |
| `SilenceIsWaitedOut` | | `Spec => ReportWins` |
| `NoWaitUnwatched` | | `Spec => []WatchKept` |
| `OneHolder` | `SharedFilesProofs` | `LockSpec => []Exclusive` |
| `OneUpdater` | | `UpdateSpec => []Exclusive` |
| `PackageSettled` | | `UpdateSpec => []Settled` |
| `UpdateTypes` | | `UpdateSpec => []UpdateTypeOK` |

Every proof has the same layers: lemmas about the operators, lemmas about
groups of actions, one step per action, and a temporal step at the end. A
module's comment names the parts of its inductive invariant.

*The ledger.* `IInv` is the types, `SingleReservation`, and for each stored
attempt `Orderly` (its phase agrees with its requests, its handoffs, its
summary and the attachment) and `Honest` (what was charged was included);
`Identified` (a stored identity belongs to one request of one attempt, and was
never folded), `ChoiceCurrent`, and `PrunedApart` (a retired
attempt is not stored). `Orderly` makes `HasHandoff` independent of folding,
which is what the refinement needs: a turn is "sent" before and after.
`validate()` is then a consequence, part by part.

*The policy.* `Ahead` says how many turns the watched producer's rival can still
get before it: one of this round if it precedes it there or if the watched one
joins in the next round only, and one of that next round. Filtering and renewing a
round never raises it (`RenewedAhead`), and a turn of the rival lowers it
(`TailAhead`). `Shared` says that the turns the rival has had and those it can
still get are two at most, with the rounds as charged and as proposed, because a choice
is charged long after it was made. `Counted` says that every turn that overtook
cadence work is in the debt but for the first, and a choice of rank 4 is made
below the limit only. That a round can be put in order is a fact about finite
sets (`PlacesAre`: distinct keys give distinct places), proved without induction.

*The journal.* Nothing in `ReadsSettled` keeps a second process from acting.
`JournalInv` says that whoever is not out holds the lock (`Role`), that the file can be
opened and its replay gives what was agreed, with or without the transaction in
doubt (`Filed`), and that what a process serves once it has replayed the file is
what was agreed, while the file is level with it or one transaction ahead,
depending on the stage of its mutation (`Serves`). Replaying a line is applying
its transaction; a checkpoint is a shorter file with the same replay. What replay needs from
numbers (the highest sequence number, the last write of a key, the order of
lines) are facts about finite sets of naturals, proved first.

*The controller.* `IInv` ties the places where a selection can be to one
another: the queue to the slot and the open attempt (`Queue`), what the idle
boundary may find (`Boundary`), the loop's await to the attempt it is about
(`Attempt`), what a native run is doing to what it took (`Turn`), and closing to the fence
that every later check meets (`Fenced`). `Offered` follows the recheck inside
the claim: the members it has passed are still what their producers offer, or those have
yet to say otherwise, as long as no wake came. `Spared` says that until a selection is
consumed none of its members was. `ClosedLetsGo` is the safety core of
`CloseCompletes`: an attempt that is queued or beyond has the pending input that
close reconciles before it lets the session go (`Backed`), and once it has,
every action of the controller and of the native run is disabled for good
(`Silent`).

*Child agents.* `Fact` is what holds of each run: where it is (queued, with a
worker, ended), what its record says, and who has its lock, told from the side
of the process that owns the session; `Remembered` is what a process that only
looks on still believes. The pump is a recursive function on numbers. That it
is defined, and that what one turn preserves the whole pump preserves, is shown
by the least number for which it would fail. `WritersAlone` needs the lock
because the queue is not enough: the writers of other sessions are not in it.
Two theorems are the safety core of `RunsEnd`. `NothingLeftWaiting`: no step makes
a queued run startable and leaves it there, but for the end of another session's
writer, which tells nobody; after the half second's tick nothing startable is left.
It follows from what a whole pump leaves behind (a run it passed over still has no
room, because a pump only takes room away, `LessRoom`). `EveryRunAttended`: an
unfinished run waits in the queue, is being stopped, or has a worker whose timer
will stop it, unless a stop was rejected (`Timed`).

*The session.* Of each identity, `IInv` says how its record, its callback, its
release and its native calls belong together (`Once`), that one that was issued
again is out of the releases' reach (`Inherited`), that a callback and a release
stand for the revision they began with (`Lasts`), and the two halves of
`Accounted` (`Waiting`, `Superseded`). Most steps concern one identity; what they
leave to the others is said once (`Bystander`). `NothingLeftBehind` needs a
second invariant, `RInv`. While something is under way whose end asks for a pass
(`Coming`) it claims nothing of the callbacks, and whatever ends hands over to
the next until a pass begins (`QuietBefore`). That pass knows of every callback.
From then on what would be admitted is being released, or the pass has yet to
try it (`Hoped`), and the release that a pass waits for has its callback or can
be dispatched (`Followed`). At rest there is no pass, so nothing would be
admitted. The attempt at this proof found two refusals after which no pass is
asked for and which two sends are too few to reach: the last two of `silent`.
They are in the model now; TLC confirmed the first with three sends.

*Native requests.* `Turned` says what the turn under way has captured and
demanded, `Remembered` that cancelled input is in a retained record or in the
index. `Keep >= 1` is used: the request under way is among those kept.
`ReceiptsNeverRefused` adds what is checked of each receipt (`Fine`), that a
retry and what it retries name each other (`Chained`), and that the request
under way has no outcome and is not sent too early (`Pending`). Pruning takes only
receipts that are linked to nothing; retirement takes whole chains (`Closed`).
That the chains of the model, a recursive function over the numbers of requests,
are defined is shown by the least number for which they would not be
(`ChainsAre`). `DeliveredOnce` rests on `Covers`: input that was delivered is in
a receipt, unless it was archived or cleared away. Pruning keeps it because the
newest success that shows an input is superseded by none (`PruningCovers`),
retirement because it takes no receipt of live input (`RetiringCovers`). The proofs
found two assumptions that were missing: `None` is no outcome, and the word
"projection" among a request's evidence is no input.

*Waits.* `DecisionsKept` needs the types only, because every action replaces
a wait as a whole. `WaitsNeverRefused` needs `WaitsInv`: a live wait has seen all
there is to see and belongs to open work (`Waits`, `Knows`), a work has one live
wait at most (`Apart`), an execution belongs to registered work (`Based`), a
campaign has one open identity at most (`OneBound`), what is retired is not
there (`Gone`), and delivered decisions are those of ended waits (`Told`).
`Told` is what keeps `Retire` away from live waits. That times come in any order
is why `Later` is in the model: a wait whose outcome is "waiting" at the later of
two times was waiting at its creation (`OutcomeEarlier`), and that is what
`validate` asks of a live one. The proof found an assumption that was missing:
`Nil` is not an execution's record.

*The subscription.* `Faithful` speaks of a subscription that is ready and has an
empty queue; `BindingInv` says what holds before. What has been learned by
anyone, the store, a snapshot, the buffer, a probe, is the producer's present
evidence or older than it (`Learned`). While the subscription attaches, the
producer's present evidence is in what the store, the snapshot and the buffer
have, once the snapshot was read (`Attached`): that is what installing the
listener first buys. When it is ready, the queue is a chain (`Chained`): each
event is newer than what the store has and than all that is before it, answers
of probes included, and the producer's present evidence is the last event or
what the store has. A probe whose answer an event overtook is
dropped by the store's revision, so that the chain goes on from the store
(`ChainReread`), and a merge into the last event that waits lengthens no chain
(`ChainMerged`). Every objection then comes from an old event (`Blamed`), and what a
subscription still writes when it was cut off is not newer than the producer (`Overdue`).
`NothingLost` says of the same invariant what `EndReaches` needs beside fairness: the
producer's present evidence is always on its way.

*The scanners.* `ReportWins` is about a verdict that was assessed on a copy and is
committed awaits later. `ScanInv` says what that copy is worth: the time at
which a scan assesses is never later than the clock (`ScannerGood`), a wait that
was read is still there with the creation it was read with
(`WaitsGood`), and a verdict that is on its way was due at the time it was
assessed, by the evidence it was assessed on (`HealthGood`). The commit compares
that evidence with the store's, so that the silence it counts is the one since
the last report.
`NoWaitUnwatched` is the safety core of `DeadlineNoticed` and `SilenceNoticed`: a
scanner that rests has a timer for whatever it must notice next, set for that
time at the latest. A pass looks at copies and sets the timer awaits later, so
`WatchInv` says of a pass under way that what it has found covers what the store
has by now, unless somebody asked for another pass meanwhile (`requested`).

*The lock and the updater.* `LockInv` says what the lock file and what
each process has seen of it may be (`Credible`, `Judged`), and that, unless a
recovery overtook another, the lock of a holder is its own (`Owned`). What was seen may
have the age of one lock and the owner of another; if it is what is there now, its
owner is dead. Every
step of the updater is a step of the lock or leaves it alone; `UpdateInv` adds
that who works on the package holds the lock, that an offer is newer than what
its process runs, and what the package is at each stage (`Kept`).

## What is only model-checked

- Liveness: `Rests`, `CloseCompletes`, `WakeHeard`, `RunsEnd`, `DeadlineNoticed`,
  `SilenceNoticed`, `EndReaches`. The proof system has no rule for fairness
  here (`ENABLED`). What they rest on is proved where it is a property of
  states or steps: that nothing is left that nobody will look at. These are
  `NoWaitUnwatched` for `DeadlineNoticed` and `SilenceNoticed`, `NothingLeftWaiting`
  and `EveryRunAttended` for `RunsEnd`, `NothingLost` for `EndReaches`,
  `ClosedLetsGo` for `CloseCompletes`. `Rests` and `WakeHeard` have no such part.
- That a disagreement exists (the six runs above) is a counterexample of TLC.

## What is not modelled

Per component, with reasons, in `PROJECT.json`. In the modelled components:

- *Data.* Texts, hashes, sizes, token counts, wording. Members, requests and
  results are identities.
- *Journal.* Creation of the file: the model starts from a whole header. The code
  writes it exclusively (journal-storage.ts:290); a crash inside that one write leaves a part
  of a header, which every later open refuses (line 316). A failure after a
  checkpoint's rename (journal-checkpoint.ts:75-80): both files say the same. Power loss:
  appends are not synced and the code claims nothing; a rename that is not atomic;
  validation of addresses and values.
- *Controller.* Retained result references, observation projections, result
  envelopes; navigation of the session tree, nested operations, the handoff of
  commands; context quarantine after a failed handoff.
- *Child agents.* Failures of record writes and of lock releases (a record that
  cannot be saved while a run starts leaves it active with its lock held: a
  hazard without a property), failures of stops while closing, steering, usage,
  traces, reviews. A queued writer that is passed by readers for as long as
  readers keep coming is possible in the code and in the model; no document
  promises otherwise.
- *Session.* Wakes of producers, manual releases, wait contexts and work
  claims, faults of the grants file, host admission, destructive reset, queue
  edits and cancellations, changes of branch, commands, the gates of retries and
  compaction, a clean dispose.
- *Native requests.* Hashes, byte limits and pressure, failure diagnostics,
  wait tokens, routes; an aborted request is one that failed.
- *Waits.* Methods without a caller in the program (unowned declare, reconcile
  and cancel), receipts of tool calls, repair of old health records, failures
  of the store, producers that detach.
- *Lock and updater.* Locks that cannot be read, a write of the lock that
  fails, a process that sleeps past the stale threshold between creating and
  writing its lock, a pid used again; installations other than global npm
  packages, a state file that cannot be read or written.

## Plan

Theorems: every safety property of the passing runs is proved, the type
invariants included. What is left to TLC are the seven liveness properties; what
remains to be proved are the invariants of the modules below.

Modules, in order:

1. **`Inbox`** (`notifications/inbox.ts`) on top of `Subagents`: a batch that was
   sent but whose receipt is not in the transcript yet. Completions are delivered
   once. Write failures in `Subagents`.
2. **`Session`**: `SessionIngress` composed with the loop of `FlowController`
   (`wakeProducers`, the host boundary's notices), so that the wakes become
   steps of a component instead of an assumption, for the question that matters
   to a user: work that may run, and is not waiting, runs.
3. **`ResultRound`** (`result-order.ts`): the fair order of results against a
   reference definition, over bounded inputs.
4. The model catalog's refresh under the state lock.
