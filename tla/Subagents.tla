----------------------------- MODULE Subagents -----------------------------
(***************************************************************************)
(* The child agents of one parent session (subagents/manager.ts): a queue, *)
(* a concurrency limit, one writer per workspace, and a saved record per   *)
(* run.  Processes that have the session open read its records when they   *)
(* open it and own it only later, one at a time; they, their workers and   *)
(* the other sessions that write in the same workspaces run concurrently.  *)
(*                                                                         *)
(* The manager's methods are synchronous up to the stop of a worker, so    *)
(* each is one action, the pump of the queue it ends with included.        *)
(* Records and locks never fail here; a stop may.  A saved conversation is *)
(* named by the run that began it.                                         *)
(***************************************************************************)
EXTENDS Integers, FiniteSets

CONSTANTS
    Process,          \* processes that open the parent session
    Workspace,        \* directories agents run in
    MaxRuns,          \* bound: runs launched
    QueueSize,        \* how many runs may be queued
    Limits,           \* values of the concurrency setting
    Policies,         \* values of the workspace-writers setting
    MaxStopFailures,  \* bound: stops the worker's handle rejects
    MaxForeign,       \* bound: writers started by other sessions
    None              \* no process, no conversation

ASSUME SubagentsAssumption ==
    /\ IsFiniteSet(Process)
    /\ MaxRuns \in Nat
    /\ QueueSize \in Nat
    /\ Limits \subseteq Nat \ {0}
    /\ Limits # {}
    /\ Policies \subseteq {"serialize", "parallel"}
    /\ Policies # {}
    /\ MaxStopFailures \in Nat
    /\ MaxForeign \in Nat
    /\ None \notin Process \cup Nat

VARIABLES
    disk,      \* the saved run records
    memory,    \* per process: the records as it knows them
    phase,     \* per process: out, open, closing
    owner,     \* the process that owns the session
    job,       \* per run: its workspace and whether its role can write
    by,        \* per run: the process that launched it
    pending,   \* the owner's queue; runs are numbered as they enter it
    worker,    \* per run: its process; stopping once a stop was sent
    before,    \* per run: the status a rejected stop restores
    result,    \* per run: the result its worker reported
    timers,    \* runs whose time limit has not passed yet
    locks,     \* runs whose workspace writer lock is held
    foreign,   \* workspaces locked by writers of other sessions
    writers,   \* how often other sessions started one
    failures,  \* how many stops were rejected
    limit,     \* the concurrency setting
    policy     \* the workspace-writers setting

records  == <<disk, memory>>
sessions == <<phase, owner>>
runs     == <<job, by>>
queue    == <<pending, worker, timers, locks>>
outside  == <<foreign, writers>>
settings == <<limit, policy>>
vars     == <<records, sessions, runs, queue, before, result, outside, failures, settings>>

Run == 1..MaxRuns
Active == {"queued", "starting", "running"}
Terminal == {"completed", "failed", "cancelled", "interrupted"}
Record == [status : Active \cup Terminal \cup {"none"}, session : Run \cup {None}]
NoRecord == [status |-> "none", session |-> None]

TypeOK ==
    /\ disk \in [Run -> Record]
    /\ memory \in [Process -> [Run -> Record]]
    /\ phase \in [Process -> {"out", "open", "closing"}]
    /\ owner \in Process \cup {None}
    /\ job \in [Run -> [place : Workspace, writes : BOOLEAN]]
    /\ by \in [Run -> Process \cup {None}]
    /\ pending \subseteq Run
    /\ worker \in [Run -> {"none", "live", "stopping", "orphan"}]
    /\ before \in [Run -> Active \cup {"none"}]
    /\ result \in [Run -> {"none", "completed", "failed"}]
    /\ timers \subseteq Run
    /\ locks \subseteq Run
    /\ foreign \subseteq Workspace
    /\ writers \in 0..MaxForeign
    /\ failures \in 0..MaxStopFailures
    /\ limit \in Limits
    /\ policy \in Policies

Init ==
    /\ disk = [r \in Run |-> NoRecord]
    /\ memory = [p \in Process |-> [r \in Run |-> NoRecord]]
    /\ phase = [p \in Process |-> "out"]
    /\ owner = None
    /\ job \in [Run -> [place : Workspace, writes : BOOLEAN]]
    /\ by = [r \in Run |-> None]
    /\ pending = {}
    /\ worker = [r \in Run |-> "none"]
    /\ before = [r \in Run |-> "none"]
    /\ result = [r \in Run |-> "none"]
    /\ timers = {}
    /\ locks = {}
    /\ foreign = {}
    /\ writers = 0
    /\ failures = 0
    /\ limit \in Limits
    /\ policy \in Policies

-----------------------------------------------------------------------------
(* The pump: start what may start, in the order of the queue *)

Workers_Live(state) ==   \* a plausible bug: a worker being stopped no longer counts
    {r \in Run : state.worker[r] = "live"}

Workers(state) == {r \in Run : state.worker[r] \in {"live", "stopping"}}
Beside(state, r) == {o \in Workers(state) : job[o].place = job[r].place}

MayShare(state, r, setting) ==
    setting = "serialize" =>
        /\ \A o \in Beside(state, r) : ~job[o].writes
        /\ job[r].writes => /\ Beside(state, r) = {}
                            /\ job[r].place \notin foreign
                            /\ \A o \in state.locks : job[o].place # job[r].place

Starts(state, r, setting) ==
    [state EXCEPT !.pending = @ \ {r},
                  !.known[r].status = "starting",
                  !.worker[r] = "live",
                  !.timers = @ \cup {r},
                  !.locks = IF setting = "serialize" /\ job[r].writes THEN @ \cup {r} ELSE @]

Considered(state, r, most, setting) ==
    IF r \in state.pending /\ Cardinality(Workers(state)) < most /\ MayShare(state, r, setting)
    THEN Starts(state, r, setting) ELSE state

Pumped(state, most, setting) ==
    LET pump[n \in 0..MaxRuns] ==
          IF n = 0 THEN state ELSE Considered(pump[n - 1], n, most, setting)
    IN  pump[MaxRuns]

\* What a method leaves behind: its own changes, pumped.  The records it saves
\* are its own and those of the runs the pump starts.
Becomes(p, state, saved, most, setting) ==
    LET next == IF phase[p] = "open" THEN Pumped(state, most, setting) ELSE state
    IN  /\ memory' = [memory EXCEPT ![p] = next.known]
        /\ disk' = [r \in Run |-> IF r \in saved \/ next.worker[r] # state.worker[r]
                                  THEN next.known[r] ELSE disk[r]]
        /\ pending' = next.pending
        /\ worker' = next.worker
        /\ timers' = next.timers
        /\ locks' = next.locks

Here(p) == [known |-> memory[p], pending |-> pending, worker |-> worker, timers |-> timers,
            locks |-> locks]

-----------------------------------------------------------------------------
(* Opening and owning the session *)

\* The constructor reads the saved records; nothing is owned yet.
Open(p) ==
    /\ phase[p] = "out"
    /\ phase' = [phase EXCEPT ![p] = "open"]
    /\ memory' = [memory EXCEPT ![p] = disk]
    /\ UNCHANGED <<disk, owner, runs, queue, before, result, outside, failures, settings>>

Unfinished(p) == {r \in Run : memory[p][r].status \in Active}

Interrupted(known) ==
    [r \in Run |-> IF known[r].status \in Active THEN [known[r] EXCEPT !.status = "interrupted"]
                   ELSE known[r]]

\* At once, or with the first operation after another process let go of it.
AcquireOwner(p) ==
    /\ phase[p] = "open"
    /\ owner = None
    /\ owner' = p
    /\ Becomes(p, [Here(p) EXCEPT !.known = Interrupted(@)], Unfinished(p), limit, policy)
    /\ UNCHANGED <<phase, runs, before, result, outside, failures, settings>>

Owns(p) == owner = p /\ phase[p] = "open"

\* A run is saved as queued before it may start.
Queue(p, r, session) ==
    /\ by' = [by EXCEPT ![r] = p]
    /\ Becomes(p, [Here(p) EXCEPT !.known[r] = [status |-> "queued", session |-> session],
                                  !.pending = @ \cup {r}], {r}, limit, policy)

Fresh(r) == by[r] = None /\ \A o \in Run : o < r => by[o] # None

Launch(p, r) ==
    /\ Owns(p)
    /\ Fresh(r)
    /\ Cardinality(pending) < QueueSize
    /\ Queue(p, r, None)
    /\ UNCHANGED <<sessions, job, before, result, outside, failures, settings>>

Engaged(p, session) ==
    \E o \in Run : memory[p][o].status \in Active /\ memory[p][o].session = session

\* Continues the saved conversation of a run that is no longer active.
Resume(p, previous, r) ==
    /\ Owns(p)
    /\ Fresh(r)
    /\ Cardinality(pending) < QueueSize
    /\ memory[p][previous].status \in Terminal
    /\ memory[p][previous].session # None
    /\ ~Engaged(p, memory[p][previous].session)
    /\ job[r] = job[previous]
    /\ Queue(p, r, memory[p][previous].session)
    /\ UNCHANGED <<sessions, job, before, result, outside, failures, settings>>

-----------------------------------------------------------------------------
(* The worker of a run *)

Mapped(p, r) == by[r] = p /\ worker[r] \in {"live", "stopping"}

\* Events of a run that is no longer active are dropped.
Heard(p, r) == Mapped(p, r) /\ memory[p][r].status \in Active

Ready(p, r) ==
    /\ Heard(p, r)
    /\ memory[p][r].status = "starting"
    /\ LET begun == [status |-> "running",
                     session |-> IF memory[p][r].session = None THEN r ELSE memory[p][r].session]
       IN  /\ memory' = [memory EXCEPT ![p][r] = begun]
           /\ disk' = [disk EXCEPT ![r] = begun]
    /\ UNCHANGED <<sessions, runs, queue, before, result, outside, failures, settings>>

Result(p, r) ==
    /\ Heard(p, r)
    /\ memory[p][r].status = "running"
    /\ result[r] = "none"
    /\ \E status \in {"completed", "failed"} : result' = [result EXCEPT ![r] = status]
    /\ disk' = [disk EXCEPT ![r] = memory[p][r]]
    /\ UNCHANGED <<memory, sessions, runs, queue, before, outside, failures, settings>>

Outcome_Reported(p, r, clean) ==   \* a plausible bug: a late result beats the stop
    IF result[r] # "none" THEN result[r]
    ELSE IF memory[p][r].status \in Terminal THEN memory[p][r].status ELSE "failed"

\* Success takes a clean exit and a reported result; a stop has decided before.
Outcome(p, r, clean) ==
    IF memory[p][r].status \in Terminal THEN memory[p][r].status
    ELSE IF clean /\ result[r] # "none" THEN result[r]
    ELSE "failed"

\* The process is gone: its place and its lock are free again.
Exited(p, r, clean) ==
    /\ Mapped(p, r)
    /\ Becomes(p, [Here(p) EXCEPT !.known[r].status = Outcome(p, r, clean),
                                  !.worker[r] = "none",
                                  !.timers = @ \ {r},
                                  !.locks = @ \ {r}], {r}, limit, policy)
    /\ result' = [result EXCEPT ![r] = "none"]
    /\ before' = [before EXCEPT ![r] = "none"]
    /\ UNCHANGED <<sessions, runs, outside, failures, settings>>

\* The worker of a dead process notices and ends itself.
OrphanEnds(r) ==
    /\ worker[r] = "orphan"
    /\ worker' = [worker EXCEPT ![r] = "none"]
    /\ UNCHANGED <<records, sessions, runs, pending, timers, before, result, locks, outside, failures, settings>>

-----------------------------------------------------------------------------
(* Stopping *)

Stops_Free(p, ids, status, armed) ==   \* a plausible bug: the lock returns with the stop, not with the exit
    LET working == {r \in ids : Mapped(p, r)}
    IN  /\ Becomes(p, [Here(p) EXCEPT
                         !.known = [r \in Run |-> IF r \in ids THEN [@[r] EXCEPT !.status = status]
                                                  ELSE @[r]],
                         !.worker = [r \in Run |-> IF r \in working THEN "stopping" ELSE @[r]],
                         !.timers = armed,
                         !.locks = @ \ ids,
                         !.pending = @ \ ids], ids \ working,
                      IF ids \subseteq working THEN 0 ELSE limit, policy)
        /\ before' = [r \in Run |-> IF r \in working THEN memory[p][r].status ELSE before[r]]

\* A queued run ends here, with its record; a worker is told to stop, and its
\* record is saved when it has exited.  Only the end of a queued run pumps: with
\* room for no worker the pump starts nothing.
Stops(p, ids, status, armed) ==
    LET working == {r \in ids : Mapped(p, r)}
    IN  /\ Becomes(p, [Here(p) EXCEPT
                         !.known = [r \in Run |-> IF r \in ids THEN [@[r] EXCEPT !.status = status]
                                                  ELSE @[r]],
                         !.worker = [r \in Run |-> IF r \in working THEN "stopping" ELSE @[r]],
                         !.timers = armed,
                         !.pending = @ \ ids], ids \ working,
                      IF ids \subseteq working THEN 0 ELSE limit, policy)
        /\ before' = [r \in Run |-> IF r \in working THEN memory[p][r].status ELSE before[r]]

Stop(p, r) ==
    /\ Owns(p)
    /\ memory[p][r].status \in Active
    /\ Stops(p, {r}, "cancelled", timers)
    /\ UNCHANGED <<sessions, runs, result, outside, failures, settings>>

\* The run's time is over.  The timer fires once, and finds nothing to do if a
\* stop is already under way.
TimesOut(p, r) ==
    /\ Mapped(p, r)
    /\ r \in timers
    /\ Stops(p, IF memory[p][r].status \in Active THEN {r} ELSE {}, "failed", timers \ {r})
    /\ UNCHANGED <<sessions, runs, result, outside, failures, settings>>

\* The whole queue first: an exit must not start the next one.
StopAll(p) ==
    /\ Owns(p)
    /\ Unfinished(p) # {}
    /\ Stops(p, Unfinished(p), "cancelled", timers)
    /\ UNCHANGED <<sessions, runs, result, outside, failures, settings>>

\* The run goes on as if nobody had asked.
StopFails(p, r) ==
    /\ Owns(p)
    /\ Mapped(p, r)
    /\ worker[r] = "stopping"
    /\ failures < MaxStopFailures
    /\ failures' = failures + 1
    /\ worker' = [worker EXCEPT ![r] = "live"]
    /\ memory' = [memory EXCEPT ![p][r].status = before[r]]
    /\ disk' = [disk EXCEPT ![r] = memory'[p][r]]
    /\ UNCHANGED <<sessions, runs, pending, timers, before, result, locks, outside, settings>>

-----------------------------------------------------------------------------
(* Settings, the queue's timer, closing and crashing *)

SetConcurrency(p, most) ==
    /\ Owns(p)
    /\ most \in Limits \ {limit}
    /\ limit' = most
    /\ Becomes(p, Here(p), {}, most, policy)
    /\ UNCHANGED <<sessions, runs, before, result, outside, failures, policy>>

SetWorkspaceWriters(p, setting) ==
    /\ Owns(p)
    /\ setting \in Policies \ {policy}
    /\ policy' = setting
    /\ Becomes(p, Here(p), {}, limit, setting)
    /\ UNCHANGED <<sessions, runs, before, result, outside, failures, limit>>

Tick_Behind(p) ==   \* a plausible bug: the timer is set only behind a worker
    /\ Owns(p)
    /\ pending # {}
    /\ \E r \in Run : Mapped(p, r)
    /\ Becomes(p, Here(p), {}, limit, policy)
    /\ UNCHANGED <<sessions, runs, before, result, outside, failures, settings>>

\* While something is queued, the pump runs every half second.
Tick(p) ==
    /\ Owns(p)
    /\ pending # {}
    /\ Becomes(p, Here(p), {}, limit, policy)
    /\ UNCHANGED <<sessions, runs, before, result, outside, failures, settings>>

Dispose_All(p) ==   \* a plausible bug: every run of the session is saved as interrupted
    /\ phase[p] = "open"
    /\ phase' = [phase EXCEPT ![p] = "closing"]
    /\ IF owner = p
       THEN /\ memory' = [memory EXCEPT ![p] = [r \in Run |->
                             IF r \in pending \/ Mapped(p, r)
                             THEN [@[r] EXCEPT !.status = "interrupted"] ELSE @[r]]]
            /\ disk' = [r \in Run |-> IF by[r] = p THEN [disk[r] EXCEPT !.status = "interrupted"]
                                      ELSE disk[r]]
            /\ pending' = {}
            /\ worker' = [r \in Run |-> IF Mapped(p, r) THEN "stopping" ELSE worker[r]]
       ELSE UNCHANGED <<records, pending, worker>>
    /\ UNCHANGED <<owner, runs, timers, before, result, locks, outside, failures, settings>>

\* Queued runs are saved as interrupted, those with a worker when it exits.
Dispose(p) ==
    /\ phase[p] = "open"
    /\ phase' = [phase EXCEPT ![p] = "closing"]
    /\ IF owner = p
       THEN /\ memory' = [memory EXCEPT ![p] = [r \in Run |->
                             IF r \in pending \/ Mapped(p, r)
                             THEN [@[r] EXCEPT !.status = "interrupted"] ELSE @[r]]]
            /\ disk' = [r \in Run |-> IF r \in pending THEN memory'[p][r] ELSE disk[r]]
            /\ pending' = {}
            /\ worker' = [r \in Run |-> IF Mapped(p, r) THEN "stopping" ELSE worker[r]]
       ELSE UNCHANGED <<records, pending, worker>>
    /\ UNCHANGED <<owner, runs, timers, before, result, locks, outside, failures, settings>>

Disposed_Early(p) ==   \* a plausible bug: the session is let go before its workers end
    /\ phase[p] = "closing"
    /\ phase' = [phase EXCEPT ![p] = "out"]
    /\ owner' = IF owner = p THEN None ELSE owner
    /\ memory' = [memory EXCEPT ![p] = [r \in Run |-> NoRecord]]
    /\ UNCHANGED <<disk, runs, queue, before, result, outside, failures, settings>>

Disposed(p) ==
    /\ phase[p] = "closing"
    /\ \A r \in Run : ~Mapped(p, r)
    /\ phase' = [phase EXCEPT ![p] = "out"]
    /\ owner' = IF owner = p THEN None ELSE owner
    /\ memory' = [memory EXCEPT ![p] = [r \in Run |-> NoRecord]]
    /\ UNCHANGED <<disk, runs, queue, before, result, outside, failures, settings>>

\* The operating system frees the locks; the workers live a little longer.
Crash(p) ==
    /\ phase[p] # "out"
    /\ phase' = [phase EXCEPT ![p] = "out"]
    /\ owner' = IF owner = p THEN None ELSE owner
    /\ pending' = IF owner = p THEN {} ELSE pending
    /\ worker' = [r \in Run |-> IF Mapped(p, r) THEN "orphan" ELSE worker[r]]
    /\ timers' = {r \in timers : by[r] # p}
    /\ locks' = {r \in locks : by[r] # p}
    /\ result' = [r \in Run |-> IF by[r] = p THEN "none" ELSE result[r]]
    /\ memory' = [memory EXCEPT ![p] = [r \in Run |-> NoRecord]]
    /\ before' = [r \in Run |-> IF by[r] = p THEN "none" ELSE before[r]]
    /\ UNCHANGED <<disk, runs, outside, failures, settings>>

\* A writer of another session starts under the serialize setting, or ends.
ForeignWriter(w) ==
    /\ w \notin foreign
    /\ \A r \in locks : job[r].place # w
    /\ writers < MaxForeign
    /\ writers' = writers + 1
    /\ foreign' = foreign \cup {w}
    /\ UNCHANGED <<records, sessions, runs, queue, before, result, failures, settings>>

ForeignWriterEnds(w) ==
    /\ w \in foreign
    /\ foreign' = foreign \ {w}
    /\ UNCHANGED <<records, sessions, runs, queue, before, result, writers, failures, settings>>

Manages(p) ==
    \/ Open(p) \/ AcquireOwner(p) \/ StopAll(p) \/ Tick(p) \/ Dispose(p) \/ Disposed(p) \/ Crash(p)
    \/ \E r \in Run :
         \/ Launch(p, r) \/ Ready(p, r) \/ Result(p, r)
         \/ Stop(p, r) \/ TimesOut(p, r) \/ StopFails(p, r)
         \/ \E previous \in Run : Resume(p, previous, r)
         \/ \E clean \in BOOLEAN : Exited(p, r, clean)
    \/ \E most \in Limits : SetConcurrency(p, most)
    \/ \E setting \in Policies : SetWorkspaceWriters(p, setting)

Next ==
    \/ \E p \in Process : Manages(p)
    \/ \E r \in Run : OrphanEnds(r)
    \/ \E w \in Workspace : ForeignWriter(w) \/ ForeignWriterEnds(w)

\* Timers fire, a stopped worker is killed if it must be, closing is awaited,
\* and other sessions' agents end as ours do.
Fairness ==
    /\ WF_vars(\E p \in Process : Tick(p))
    /\ WF_vars(\E p \in Process : Disposed(p))
    /\ WF_vars(\E p \in Process, r \in Run : TimesOut(p, r))
    /\ WF_vars(\E p \in Process, r \in Run : worker[r] = "stopping" /\ Exited(p, r, FALSE))
    /\ WF_vars(\E w \in Workspace : ForeignWriterEnds(w))

Spec == Init /\ [][Next]_vars /\ Fairness

-----------------------------------------------------------------------------
(* Properties *)

Meet(r, o) ==
    /\ r # o /\ {worker[r], worker[o]} \subseteq {"live", "stopping"}
    /\ job[r].writes /\ job[r].place = job[o].place
Meetings == {m \in Run \X Run : Meet(m[1], m[2])}

Intrusions ==
    {r \in Run : worker[r] \in {"live", "stopping"} /\ job[r].writes /\ job[r].place \in foreign}

\* While writers are serialized, no agent joins a writer in its workspace,
\* whatever is stopped, fails to stop or is queued meanwhile: no other agent of
\* this session, and the writer of another one only where an agent works that
\* was let in under the other setting (pump, exited, releaseHeld).
WritersAlone ==
    [][policy = "serialize" /\ policy' = "serialize" =>
         /\ Meetings' \subseteq Meetings
         /\ Intrusions' \cap locks' \subseteq Intrusions]_vars

\* A writer lock lasts as long as its worker: it neither comes back with the
\* stop, before the worker has ended, nor stays behind.  And the variables
\* keep their types.
LocksFollowWorkers ==
    /\ []TypeOK
    /\ [][\A r \in locks \cup locks' :
            r \in locks' <=> worker'[r] \in {"live", "stopping"}]_vars

\* A run whose stop was accepted never ends as a success, and a success was
\* reported by the worker before it exited ("failure and timeout never become
\* empty successful results").
SuccessIsReported ==
    [][\A r \in Run : disk'[r].status = "completed" /\ disk[r].status # "completed" =>
         result[r] = "completed" /\ worker[r] = "live"]_vars

\* A finished run's record is final: later stops, exits, attaches and closings
\* leave it alone.
TerminalStays ==
    [][\A r \in Run : disk[r].status \in Terminal => disk'[r].status = disk[r].status]_vars

\* The session is let go of with nothing of it running and every record ended.
LeavesNothing ==
    [][\A p \in Process : owner = p /\ owner' # p /\ Disposed(p) =>
         \A r \in Run : by[r] = p => worker[r] \in {"none", "orphan"} /\ disk[r].status \in Terminal]_vars

\* Two workers never continue one conversation at the same time.
OneWorkerPerConversation ==
    \A p \in Process : \A r, o \in Run :
        /\ Mapped(p, r) /\ Mapped(p, o)
        /\ memory[p][r].session = memory[p][o].session /\ memory[p][r].session # None
        => r = o

\* Every run the owner accepted ends, unless the owner goes away first: the
\* queue is pumped, timers end workers, locks come back.  Only a worker whose
\* stop was rejected after its time limit may go on, and hold up the others.
RunsEnd ==
    \A p \in Process, r \in Run :
        by[r] = p /\ Owns(p) ~>
            \/ disk[r].status \in Terminal
            \/ ~Owns(p)
            \/ \E o \in Run : worker[o] = "live" /\ o \notin timers
=============================================================================
