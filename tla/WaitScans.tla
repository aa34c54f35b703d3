------------------------------- MODULE WaitScans -------------------------------
(***************************************************************************)
(* The two scanners of a branch that watch its waits over time: the one    *)
(* that expires them (flow-control/wait-deadlines.ts) and the one that     *)
(* notices an execution that has fallen silent (wait-health-monitor.ts,    *)
(* wait-health.ts).  Each scan awaits the store several times; a change    *)
(* that is committed meanwhile asks for another scan, and a timer asks for *)
(* one later.  The store itself is WaitStore; here a wait only has a       *)
(* deadline and an end.                                                    *)
(*                                                                         *)
(* One execution is watched.  Its evidence has no revisions: a report is   *)
(* the time it is committed.  Producers that detach, which take their      *)
(* policy with them, and failures of the store are left out.               *)
(***************************************************************************)
EXTENDS Integers, FiniteSets, FiniteSetsExt

CONSTANTS
    Token,      \* wait tokens
    MaxTime,    \* bound: the latest time
    MaxDelay,   \* the longest delay of a timer
    Fresh,      \* freshnessMs: how long evidence proves health
    Cadence,    \* cadenceMs: how often health is checked
    Timeout,    \* probeTimeoutMs: how long a probe may take
    Grace,      \* graceMs: how long after that a wait may go on
    MaxRestarts, \* bound: restarts of the process
    None

WaitState == {"waiting", "ended", "expired", "unhealthy", "health-unknown"}

ASSUME ScanAssumption ==
    /\ {MaxTime, MaxDelay, Grace, MaxRestarts} \subseteq Nat
    /\ {MaxDelay, Fresh, Cadence, Timeout} \subseteq Nat \ {0}
    /\ Cadence <= Fresh
    /\ None \notin Nat
    /\ None \notin [created : Nat, expires : Nat, watched : BOOLEAN, state : WaitState]

VARIABLES
    clock,
    waits,      \* the waits in the store, or None
    execution,  \* the last evidence of the execution in the store
    scan,       \* both scanners
    probed,     \* when the producer was asked for a wait in this stale window
    restarts    \* restarts so far

vars == <<clock, waits, execution, scan, probed, restarts>>
Scanner == {"deadlines", "health"}
Time == 0..MaxTime

\* pc is the await a scanner is at; next is the earliest time it has found.
Idle == [pc |-> "idle", requested |-> FALSE, timer |-> None, now |-> 0, next |-> None,
         todo |-> {}, evidence |-> None, item |-> None]
Start(s) == [s EXCEPT !.pc = "begun", !.requested = FALSE, !.timer = None,
                      !.now = clock, !.next = None]

TypeOK ==
    /\ clock \in Time
    /\ \A t \in Token : waits[t] # None =>
          waits[t] \in [created : Time, expires : Nat, watched : BOOLEAN,
                        state : WaitState]
    /\ execution \in [at : Time, healthy : BOOLEAN]
    /\ \A s \in Scanner :
          /\ scan[s].pc \in {"idle", "begun", "expired", "looked", "assessing",
                             "probing", "deciding", "ending"}
          /\ scan[s].timer # None => scan[s].pc \in {"idle", "ending"}
    /\ probed \in [Token -> Time \cup {None}]

Unasked == [t \in Token |-> None]

Init ==
    /\ clock = 0
    /\ waits = [t \in Token |-> None]
    /\ execution = [at |-> 0, healthy |-> TRUE]
    /\ scan = [s \in Scanner |-> Start(Idle)]
    /\ probed = Unasked
    /\ restarts = 0

Live(t) == waits[t] # None /\ waits[t].state = "waiting"
Later(a, b) == IF a >= b THEN a ELSE b
Sooner(a, b) == IF a = None THEN b ELSE IF b = None \/ a <= b THEN a ELSE b

-----------------------------------------------------------------------------
(* Asking for a scan *)

\* refresh(): the timer is cleared; a scan that runs will run once more.
Refreshed(s) ==
    IF s.pc = "idle" THEN Start(s) ELSE [s EXCEPT !.requested = TRUE, !.timer = None]

\* A scanner that moved on during the same step, and was told of its commit.
Told(s, changed) == IF changed THEN Refreshed(s) ELSE s

\* After a commit both scanners are told.
Notify == scan' = [s \in Scanner |-> Refreshed(scan[s])]

\* The end of a pass: another one when it was asked for.
Arm(s) ==
    IF s.requested THEN Start(s)
    ELSE [s EXCEPT !.pc = "ending",
            !.timer = IF s.next = None THEN None
                      ELSE clock + Min({MaxDelay, Later(0, s.next - clock)})]

\* Nobody looks at what was asked for meanwhile.
Finish_Still(s) ==
    /\ scan[s].pc = "ending"
    /\ scan' = [scan EXCEPT ![s].pc = "idle"]
    /\ UNCHANGED <<clock, waits, execution, probed, restarts>>
\* The scan's promise settles; a change may have come since its last pass.
Finish(s) ==
    /\ scan[s].pc = "ending"
    /\ scan' = [scan EXCEPT ![s] = IF @.requested THEN Start(@) ELSE [@ EXCEPT !.pc = "idle"]]
    /\ UNCHANGED <<clock, waits, execution, probed, restarts>>

TimerFires(s) ==
    /\ scan[s].timer # None /\ clock >= scan[s].timer
    /\ scan' = [scan EXCEPT ![s] = Refreshed(@)]
    /\ UNCHANGED <<clock, waits, execution, probed, restarts>>

-----------------------------------------------------------------------------
(* Deadlines *)

\* Its own commit asks for another pass as well.
ExpireDue ==
    LET due == {t \in Token : Live(t) /\ scan["deadlines"].now >= waits[t].expires}
        on == [scan EXCEPT !["deadlines"].pc = "expired"]
    IN /\ scan["deadlines"].pc = "begun"
       /\ waits' = [t \in Token |-> IF t \in due THEN [waits[t] EXCEPT !.state = "expired"]
                                    ELSE waits[t]]
       /\ scan' = [s \in Scanner |-> Told(on[s], due # {})]
       /\ UNCHANGED <<clock, execution, probed, restarts>>

\* snapshot(): the continuation runs later.
Look ==
    /\ scan["deadlines"].pc = "expired"
    /\ LET deadlines == {waits[t].expires : t \in {u \in Token : Live(u)}}
       IN scan' = [scan EXCEPT !["deadlines"].pc = "looked",
                     !["deadlines"].next = IF deadlines = {} THEN None ELSE Min(deadlines)]
    /\ UNCHANGED <<clock, waits, execution, probed, restarts>>

ArmDeadline ==
    /\ scan["deadlines"].pc = "looked"
    /\ scan' = [scan EXCEPT !["deadlines"] = Arm(@)]
    /\ UNCHANGED <<clock, waits, execution, probed, restarts>>

-----------------------------------------------------------------------------
(* Health *)

Health == scan["health"]
StaleAt(wait, evidence) == Later(wait.created, evidence.at) + Fresh
DecideAt(wait, evidence) == StaleAt(wait, evidence) + Timeout + Grace

\* assessFlowHealth
Verdict(wait, evidence, now) ==
    IF ~evidence.healthy THEN "unhealthy"
    ELSE IF now < DecideAt(wait, evidence) THEN "healthy" ELSE "health-unknown"
NextCheck(wait, evidence, now) ==
    IF now < StaleAt(wait, evidence) THEN Min({StaleAt(wait, evidence), now + Cadence})
    ELSE DecideAt(wait, evidence)

\* The waits and the evidence are read together.
ReadHealth ==
    LET watched == {t \in Token : Live(t) /\ waits[t].watched}
    IN /\ Health.pc = "begun"
       /\ probed' = [t \in Token |-> IF Live(t) THEN probed[t] ELSE None]
       /\ scan' = [scan EXCEPT !["health"] =
                     [@ EXCEPT !.pc = "assessing", !.todo = watched, !.evidence = execution]]
       /\ UNCHANGED <<clock, waits, execution, restarts>>

\* The wait is assessed as it was read; what has become of it since is only
\* looked at when the verdict is committed.
Now(wait) == Later(Health.now, wait.created)
MustAsk(t) ==
    /\ Verdict(waits[t], Health.evidence, Now(waits[t])) # "unhealthy"
    /\ Now(waits[t]) >= StaleAt(waits[t], Health.evidence)
    /\ probed[t] = None

Ask(t) ==
    /\ Health.pc = "assessing" /\ t \in Health.todo /\ MustAsk(t)
    /\ probed' = [probed EXCEPT ![t] = clock]
    /\ scan' = [scan EXCEPT !["health"] =
                  [@ EXCEPT !.pc = "probing", !.todo = Health.todo \ {t}]]
    /\ UNCHANGED <<clock, waits, execution, restarts>>

Assess(t) ==
    LET wait == waits[t]
        verdict == Verdict(wait, Health.evidence, Now(wait))
        check == NextCheck(wait, Health.evidence, Now(wait))
    IN /\ Health.pc = "assessing" /\ t \in Health.todo /\ ~MustAsk(t)
       /\ probed' = IF Now(wait) < StaleAt(wait, Health.evidence) THEN [probed EXCEPT ![t] = None] ELSE probed
       /\ scan' = [scan EXCEPT !["health"] =
                     IF verdict = "healthy"
                     THEN [@ EXCEPT !.todo = Health.todo \ {t},
                             !.next = IF check < wait.expires THEN Sooner(Health.next, check)
                                      ELSE Health.next]
                     ELSE [@ EXCEPT !.pc = "deciding", !.todo = Health.todo \ {t},
                             !.item = [token |-> t, at |-> Now(wait)]]]
       /\ UNCHANGED <<clock, waits, execution, restarts>>

\* Nobody looks again.
AfterProbe_Once ==
    /\ Health.pc = "probing"
    /\ scan' = [scan EXCEPT !["health"].pc = "assessing"]
    /\ UNCHANGED <<clock, waits, execution, probed, restarts>>
\* The producer has answered, with a report or with nothing new, or the
\* probe's time is over.
AfterProbe ==
    /\ Health.pc = "probing"
    /\ scan' = [scan EXCEPT !["health"] =
                  [@ EXCEPT !.pc = "assessing", !.requested = TRUE]]
    /\ UNCHANGED <<clock, waits, execution, probed, restarts>>

\* observeWaitHealth: the evidence must still be the one that was assessed.
\* A wait past its deadline expires.
Unchanged_Any == TRUE
Unchanged == execution = Health.evidence
Decide ==
    LET t == Health.item.token
        verdict == Verdict(waits[t], Health.evidence, Health.item.at)
        decided == Live(t) /\ Unchanged
        on == [scan EXCEPT !["health"] =
                 [@ EXCEPT !.pc = "assessing", !.requested = TRUE, !.item = None]]
    IN /\ Health.pc = "deciding"
       /\ waits' = IF decided
                   THEN [waits EXCEPT ![t].state =
                           IF Health.item.at >= waits[t].expires THEN "expired"
                           ELSE verdict]
                   ELSE waits
       /\ scan' = [s \in Scanner |-> Told(on[s], decided)]
       /\ UNCHANGED <<clock, execution, probed, restarts>>

ArmHealth ==
    /\ Health.pc = "assessing" /\ Health.todo = {}
    /\ scan' = [scan EXCEPT !["health"] = Arm([@ EXCEPT !.evidence = None])]
    /\ UNCHANGED <<clock, waits, execution, probed, restarts>>

-----------------------------------------------------------------------------
(* What the scanners watch *)

Tick == clock < MaxTime /\ clock' = clock + 1
        /\ UNCHANGED <<waits, execution, scan, probed, restarts>>

\* A wait is declared, in the place of another or beside it.
Declare(t, expires, watched, replaced) ==
    /\ waits[t] = None /\ expires > clock
    /\ \A o \in replaced : Live(o)
    /\ waits' = [o \in Token |->
                   IF o = t THEN [created |-> clock, expires |-> expires,
                                  watched |-> watched, state |-> "waiting"]
                   ELSE IF o \in replaced THEN [waits[o] EXCEPT !.state = "ended"]
                   ELSE waits[o]]
    /\ Notify
    /\ UNCHANGED <<clock, execution, probed, restarts>>

\* It gets what it waits for, or is cancelled.
EndWait(t) ==
    /\ Live(t)
    /\ waits' = [waits EXCEPT ![t].state = "ended"]
    /\ Notify
    /\ UNCHANGED <<clock, execution, probed, restarts>>

\* The producer reports or not; once at a time.
Report(healthy) ==
    /\ execution.at < clock
    /\ execution' = [at |-> clock, healthy |-> healthy]
    /\ Notify
    /\ UNCHANGED <<clock, waits, probed, restarts>>

\* Both scanners begin when the branch is attached again.
Restart ==
    /\ restarts < MaxRestarts
    /\ restarts' = restarts + 1
    /\ scan' = [s \in Scanner |-> Start(Idle)]
    /\ probed' = Unasked
    /\ UNCHANGED <<clock, waits, execution>>

Changes ==
    \/ \E t \in Token :
          \/ EndWait(t)
          \/ \E expires \in 1..(MaxTime + 1), watched \in BOOLEAN, replaced \in SUBSET Token :
                Declare(t, expires, watched, replaced)
    \/ \E healthy \in BOOLEAN : Report(healthy)
    \/ Restart

Scheduled(s) == Finish(s) \/ TimerFires(s)
Deadlines == ExpireDue \/ Look \/ ArmDeadline \/ Scheduled("deadlines")
Checks ==
    \/ ReadHealth \/ AfterProbe \/ Decide \/ ArmHealth \/ Scheduled("health")
    \/ \E t \in Token : Ask(t) \/ Assess(t)

Next == Tick \/ Changes \/ Deadlines \/ Checks

\* Time passes, timers fire, the store answers.
Fairness == WF_vars(Tick) /\ WF_vars(Deadlines) /\ WF_vars(Checks)
Spec == Init /\ [][Next]_vars /\ Fairness

-----------------------------------------------------------------------------
(* Properties *)

\* A wait ends when its deadline has passed, whatever was declared, replaced,
\* reported or restarted while a scan was under way or a timer was set, and
\* with deadlines longer than a timer can be (refresh, scan).
DeadlineNoticed ==
    \A t \in Token : Live(t) /\ waits[t].expires < MaxTime ~> ~Live(t)

\* The silence of a watched execution is noticed, although it raises no event:
\* once the evidence, a probe and the grace are over, the wait ends unless the
\* producer reports again (monitor scan).
Silent(t) ==
    /\ Live(t) /\ waits[t].watched
    /\ clock >= DecideAt(waits[t], execution)
    /\ waits[t].expires > DecideAt(waits[t], execution)
SilenceNoticed == \A t \in Token : Silent(t) ~> ~Silent(t)

\* A wait ends for silence only after the whole time its evidence, one probe
\* and the grace allow: a report that is committed while the verdict is on its
\* way wins (observeWaitHealth).
ReportWins ==
    /\ []TypeOK
    /\ [][\A t \in Token : Live(t) /\ waits'[t].state = "health-unknown" =>
             clock >= DecideAt(waits[t], execution)]_vars
=============================================================================
