------------------------------- MODULE WaitStore -------------------------------
(***************************************************************************)
(* Waits of a piece of work on executions of producers, kept by one branch *)
(* (flow-control/wait-store.ts, wait-state.ts, wait-authority.ts).  The    *)
(* scanner that calls ExpireDue and the monitor that calls ObserveHealth   *)
(* are in WaitScans.                                                    *)
(*                                                                         *)
(* A method of the store is one transaction and one action.  The code      *)
(* validates the result of a transaction before it commits it; no action   *)
(* has that check as a guard, so that Validates below says it never fails. *)
(* Every method is given the time by its caller, which may have read the   *)
(* clock before an await, and the clock may be set back: times come in any *)
(* order.  Requests the store refuses change nothing and are left out: a   *)
(* stale revision, a foreign owner, an unknown name, an observation that   *)
(* is older than the retained one.                                         *)
(* Waits of unregistered work (declare, reconcile, cancel) have no caller  *)
(* in the program and are left out too.                                    *)
(***************************************************************************)
EXTENDS Integers, FiniteSets, Functions

CONSTANTS
    Work,         \* identities of work, fresh ones for each campaign
    Automatic,    \* the branch's automatic work, an element of Work
    BindingOf,    \* the campaign an identity is registered for, or Nil
    Execution,    \* executions of producers, each with one predicate
    Monitored,    \* the executions whose waits ask for a health policy
    Token,        \* wait tokens
    MaxTime,      \* bound: the latest time
    MaxResets,    \* bound: resets of the branch's flow state
    Nil

VARIABLES
    work,         \* each work's lifecycle, or "none"
    execution,    \* each registered execution's work and evidence, or Nil
    waits,        \* each declared wait, or Nil
    retired,      \* identities retired in this epoch
    observed,     \* ended waits whose decision the history shows as delivered
    resets        \* resets so far

store == <<work, execution, waits, retired>>
waiting == <<store, observed, resets>>

Time == 0..MaxTime
Open == {"active", "paused"}
Ended == {"stopped", "completed"}
Verdict == {"unhealthy", "health-unknown"}
Progress == {"pending", "satisfied", "failed"}
WaitEnd == {"resolved", "failed", "expired", "cancelled"} \cup Verdict

ExecutionRecord == [work : Work, state : Progress]

\* What the constants must satisfy.
ASSUME WaitAssumption ==
    /\ Automatic \in Work
    /\ Nil \notin Work \cup Execution \cup Token \cup ExecutionRecord
    /\ {MaxTime, MaxResets} \subseteq Nat
    /\ Monitored \subseteq Execution

WaitRecord ==
    [work : Work, on : SUBSET Execution, mode : {"all", "any"}, created : Time,
     expires : Time, seen : UNION {[on -> Progress \cup Verdict] :
                                      on \in SUBSET Execution},
     state : {"waiting"} \cup WaitEnd, ended : Time \cup {Nil}]
Nothing == [work |-> {}, execution |-> {}, token |-> {}]

WaitTypeOK ==
    /\ work \in [Work -> {"none"} \cup Open \cup Ended]
    /\ execution \in [Execution -> ExecutionRecord \cup {Nil}]
    /\ \A t \in Token : waits[t] # Nil => waits[t] \in WaitRecord
    /\ retired \in [work : SUBSET Work, execution : SUBSET Execution,
                    token : SUBSET Token]
    /\ observed \in SUBSET Token

WaitInit ==
    /\ work = [w \in Work |-> IF w = Automatic THEN "active" ELSE "none"]
    /\ execution = [x \in Execution |-> Nil]
    /\ waits = [t \in Token |-> Nil]
    /\ retired = Nothing
    /\ observed = {}
    /\ resets = 0

-----------------------------------------------------------------------------
(* Waits as values: wait-state.ts *)

Later(a, b) == IF a >= b THEN a ELSE b
Live(wait) == wait # Nil /\ wait.state = "waiting"
LiveTokens == {t \in Token : Live(waits[t])}

\* Has the wait what it waits for, and can it still get it?
Met(wait, seen) ==
    LET met == {x \in wait.on : seen[x] = "satisfied"}
    IN IF wait.mode = "all" THEN met = wait.on ELSE met # {}
Over(wait, seen) ==
    IF wait.mode = "all"
    THEN \E x \in wait.on : seen[x] \notin {"pending", "satisfied"}
    ELSE \A x \in wait.on : seen[x] # "pending"
EndOf(seen) ==
    IF "unhealthy" \in Range(seen) THEN "unhealthy"
    ELSE IF "health-unknown" \in Range(seen) THEN "health-unknown" ELSE "failed"

\* reconcileFlowWait: the deadline first, then success, then failure.
WaitOutcome(wait, seen, now) ==
    IF now >= wait.expires THEN "expired"
    ELSE IF Met(wait, seen) THEN "resolved"
    ELSE IF Over(wait, seen) THEN EndOf(seen) ELSE "waiting"

Reconciled(wait, seen, now) ==
    LET at == Later(now, wait.created)
        state == WaitOutcome(wait, seen, at)
    IN IF ~Live(wait) THEN wait
       ELSE [wait EXCEPT !.seen = seen, !.state = state,
                         !.ended = IF state = "waiting" THEN Nil ELSE at]

Expired(wait, now) ==
    IF Live(wait) /\ now >= wait.expires
    THEN [wait EXCEPT !.state = "expired", !.ended = now] ELSE wait

\* Cancelled even when its deadline has passed.
CancelledWait_Always(wait, now) ==
    IF Live(wait) THEN [wait EXCEPT !.state = "cancelled", !.ended = now] ELSE wait

\* cancelFlowWait: at or past its deadline a wait expires instead.
CancelledWait(wait, now) ==
    IF Live(wait) /\ now < wait.expires
    THEN [wait EXCEPT !.state = "cancelled", !.ended = now] ELSE Expired(wait, now)

\* ownedWaitObservations: a health decision stays with its wait, unless the
\* producer has ended the execution since.
Observations(wait, executions) ==
    [x \in wait.on |->
        IF executions[x].state = "pending" /\ x \in DOMAIN wait.seen
           /\ wait.seen[x] \in Verdict
        THEN wait.seen[x] ELSE executions[x].state]

\* authorityChange: every live wait is measured against the new evidence.
AllReconciled(executions, now) ==
    [t \in Token |-> IF Live(waits[t])
                     THEN Reconciled(waits[t], Observations(waits[t], executions), now)
                     ELSE waits[t]]

-----------------------------------------------------------------------------
(* Work and executions: wait-authority.ts *)

Registered(w) == work[w] # "none"
MayRegister(w) == ~Registered(w) /\ w \notin retired.work

\* findLiveBoundWork
LiveBound(binding) == {w \in Work : BindingOf[w] = binding /\ work[w] \in Open}

\* registerWork for input of the user, activateWorkBinding and
\* deriveWorkBinding for a campaign that has no live work.
RegisterWork(w) ==
    /\ MayRegister(w)
    /\ BindingOf[w] # Nil => LiveBound(BindingOf[w]) = {}
    /\ work' = [work EXCEPT ![w] = "active"]
    /\ \E now \in Time : waits' = AllReconciled(execution, now)
    /\ UNCHANGED <<execution, retired, observed, resets>>

\* changeWork, and synchronizeWorkBinding for a campaign.  Ending a work ends
\* its waits; a caller whose time is before a wait's declaration is refused.
ChangeWork(w, status) ==
    /\ work[w] \in Open \ {status}
    /\ \E now \in Time :
        LET ends == {t \in LiveTokens : waits[t].work = w /\ status \in Ended}
            left == [t \in Token |-> IF t \in ends THEN CancelledWait(waits[t], now)
                                     ELSE waits[t]]
        IN /\ \A t \in ends : now >= waits[t].created
           /\ waits' = [t \in Token |->
                          IF Live(left[t])
                          THEN Reconciled(left[t], Observations(left[t], execution), now)
                          ELSE left[t]]
    /\ work' = [work EXCEPT ![w] = status]
    /\ UNCHANGED <<execution, retired, observed, resets>>

\* registerExecution, and synchronizeExecution of one not registered yet.
RegisterExecution(x, w, state) ==
    /\ execution[x] = Nil /\ x \notin retired.execution
    /\ Registered(w)
    /\ \E now \in Time :
        /\ execution' = [execution EXCEPT ![x] =
                           [work |-> w, state |-> state]]
        /\ waits' = AllReconciled(execution', now)
    /\ UNCHANGED <<work, retired, observed, resets>>

\* observeExecution: newer evidence, which never reopens what has ended.
Observe(x, state) ==
    /\ execution[x] # Nil /\ execution[x].state = "pending"
    /\ execution' = [execution EXCEPT ![x].state = state]
    /\ \E now \in Time : waits' = AllReconciled(execution', now)
    /\ UNCHANGED <<work, retired, observed, resets>>

\* observeWaitHealth, when the evidence is still the one that was assessed.
ObserveHealth(t, x, verdict) ==
    /\ Live(waits[t])
    /\ x \in waits[t].on \cap Monitored
    /\ LET seen == Observations(waits[t], execution)
       IN /\ seen[x] = "pending"
          /\ \E now \in Time :
               waits' = [waits EXCEPT ![t] =
                           Reconciled(@, [seen EXCEPT ![x] = verdict], now)]
    /\ UNCHANGED <<work, execution, retired, observed, resets>>

-----------------------------------------------------------------------------
(* Declaring, replacing and cancelling *)

\* Ended work hands its wait to the automatic work.
Attributed(w) == IF work[w] \in Ended /\ Registered(Automatic) THEN Automatic ELSE w

ActiveOf(w) == {t \in LiveTokens : waits[t].work = w}

\* declareInState: replace is a token or Nil; a token that names no wait is
\* tolerated from a tool when the work has no live wait.
MayReplace(active, replace) ==
    IF active # {} THEN replace \in active
    ELSE replace # Nil /\ waits[replace] # Nil => Live(waits[replace])
Replaced(active, replace) ==
    IF active # {} THEN active
    ELSE {t \in {replace} \cap Token : waits[t] # Nil}

Fresh(t) == waits[t] = Nil /\ t \notin retired.token

NewWait(w, on, mode, expires, now) ==
    Reconciled([work |-> w, on |-> on, mode |-> mode, created |-> now,
                expires |-> expires, seen |-> <<>>, state |-> "waiting",
                ended |-> Nil],
               [x \in on |-> execution[x].state], now)

DeclareOwned(t, w, on, mode, expires, replace) ==
    LET owner == Attributed(w)
        active == ActiveOf(owner)
        old == Replaced(active, replace)
    IN /\ Registered(w) /\ work[owner] \in Open
       /\ Fresh(t) /\ replace # t /\ replace \notin retired.token
       /\ on # {} /\ \A x \in on : execution[x] # Nil
       /\ MayReplace(active, replace)
       /\ \E now \in Time :
            /\ expires > now
            /\ \A o \in old : now >= waits[o].created
            /\ waits' = [o \in Token |->
                           IF o = t THEN NewWait(owner, on, mode, expires, now)
                           ELSE IF o \in old THEN CancelledWait(waits[o], now)
                           ELSE waits[o]]
    /\ UNCHANGED <<work, execution, retired, observed, resets>>

CancelOwned(t) ==
    /\ Live(waits[t])
    /\ \E now \in Time :
        /\ now >= waits[t].created
        /\ waits' = [waits EXCEPT ![t] = CancelledWait(@, now)]
    /\ UNCHANGED <<work, execution, retired, observed, resets>>

-----------------------------------------------------------------------------
(* Retiring history, clearing the branch, restarting *)

\* The transcript shows that the decision of an ended wait was delivered.
DecisionObserved(t) ==
    /\ waits[t] # Nil /\ waits[t].state \in WaitEnd \ {"cancelled"}
    /\ t \notin observed
    /\ observed' = observed \cup {t}
    /\ UNCHANGED <<store, resets>>

\* Whatever has ended, its decision delivered or not.
RetirableWait_AnyEnd(t) == waits[t] # Nil /\ waits[t].state \in WaitEnd

\* retireWaitHistory chooses, retire() checks against the stored records.
RetirableWait(t) ==
    waits[t] # Nil /\ (waits[t].state = "cancelled" \/ t \in observed)

\* Executions that have ended; the producer says whether it lets one go.
EndedExecutions == {x \in Execution : execution[x] # Nil /\ execution[x].state # "pending"}

\* Work that has ended, and input of the user that may have been handled.
FinishedWork ==
    {w \in Work : \/ work[w] \in Ended
                  \/ work[w] = "active" /\ BindingOf[w] = Nil /\ w # Automatic}

\* Of the executions that their producers let go, and the work that is finished
\* and not referred to by the controller.
Chosen(candidates, finished) ==
    LET tokens == {t \in Token : RetirableWait(t)}
        kept == {t \in Token \ tokens : waits[t] # Nil}
        free == {x \in candidates : \A t \in kept : x \notin waits[t].on}
        works == {w \in finished : /\ \A t \in kept : waits[t].work # w
                                   /\ \A x \in Execution \ free :
                                         execution[x] # Nil => execution[x].work # w}
    IN [work |-> works, token |-> tokens,
        execution |-> {x \in free : execution[x].work \in works}]

RetireChosen(gone) ==
    /\ gone # Nothing
    /\ work' = [w \in Work |-> IF w \in gone.work THEN "none" ELSE work[w]]
    /\ execution' = [x \in Execution |-> IF x \in gone.execution THEN Nil ELSE execution[x]]
    /\ waits' = [t \in Token |-> IF t \in gone.token THEN Nil ELSE waits[t]]
    /\ retired' = [kind \in DOMAIN retired |-> retired[kind] \cup gone[kind]]
    /\ observed' = observed \ gone.token
    /\ UNCHANGED resets
Retire ==
    \E candidates \in SUBSET EndedExecutions, finished \in SUBSET FinishedWork :
        RetireChosen(Chosen(candidates, finished))

\* reset(): a new epoch, in which the branch's automatic work is registered
\* again and old identities are no longer known.
Reset ==
    /\ resets < MaxResets
    /\ resets' = resets + 1
    /\ work' = [w \in Work |-> IF w = Automatic THEN "active" ELSE "none"]
    /\ execution' = [x \in Execution |-> Nil]
    /\ waits' = [t \in Token |-> Nil]
    /\ retired' = Nothing
    /\ observed' = {}

\* expireDue, called by the deadline scanner.
ExpireDue ==
    \E now \in Time :
        /\ waits' = [t \in Token |-> Expired(waits[t], now)]
        /\ waits' # waits
        /\ UNCHANGED <<work, execution, retired, observed, resets>>

-----------------------------------------------------------------------------
Evidenced ==
    \E x \in Execution :
        \/ \E w \in Work, state \in Progress : RegisterExecution(x, w, state)
        \/ \E state \in Progress : Observe(x, state)
        \/ \E t \in Token, v \in Verdict : ObserveHealth(t, x, v)

\* With one dependency the two modes are the same.
Modes(on) == IF Cardinality(on) = 1 THEN {"all"} ELSE {"all", "any"}

Waited ==
    \E t \in Token :
        \/ \E w \in Work, on \in SUBSET Execution, replace \in Token \cup {Nil} :
              \E mode \in Modes(on), expires \in Time :
                DeclareOwned(t, w, on, mode, expires, replace)
        \/ CancelOwned(t)
        \/ DecisionObserved(t)

WaitNext ==
    \/ \E w \in Work : RegisterWork(w) \/ \E s \in Open \cup Ended : ChangeWork(w, s)
    \/ Evidenced \/ Waited
    \/ ExpireDue \/ Retire \/ Reset

WaitSpec == WaitInit /\ [][WaitNext]_waiting

-----------------------------------------------------------------------------
(* Properties *)

\* validateWait: an ended wait is what its evidence and its deadline make of it.
EndJustified(wait) ==
    IF wait.state = "cancelled"
    THEN /\ WaitOutcome(wait, wait.seen, wait.created) = "waiting"
         /\ wait.created <= wait.ended /\ wait.ended < wait.expires
    ELSE /\ wait.created <= wait.ended
         /\ wait.state = WaitOutcome(wait, wait.seen, wait.ended)
         /\ (wait.state = "expired") = (wait.ended >= wait.expires)

\* A live wait belongs to open work, knows the evidence there is, and is the
\* only live wait of its work.
LiveJustified(t) ==
    LET wait == waits[t]
    IN /\ work[wait.work] \in Open
       /\ \A x \in wait.on : execution[x] # Nil
       /\ wait.seen = Observations(wait, execution)
       /\ WaitOutcome(wait, wait.seen, wait.created) = "waiting"
       /\ ActiveOf(wait.work) = {t}

\* What the store checks before each commit, and refuses to open without
\* (wait-store.ts, validate): no order of declarations, replacements, evidence,
\* verdicts of the health monitor, deadlines, stops and retirements, with
\* times read before an await, leads to records it would not accept.
WaitsValidate ==
    /\ WaitTypeOK
    /\ \A t \in Token : waits[t] # Nil =>
          IF Live(waits[t]) THEN LiveJustified(t) ELSE EndJustified(waits[t])
    /\ \A x \in Execution : execution[x] # Nil => Registered(execution[x].work)
    /\ \A w \in Work : BindingOf[w] # Nil => Cardinality(LiveBound(BindingOf[w])) <= 1
    /\ \A w \in retired.work : ~Registered(w)
    /\ \A x \in retired.execution : execution[x] = Nil
    /\ \A t \in retired.token : waits[t] = Nil

\* An ended wait keeps its end, and is forgotten only when it was cancelled or
\* the decision it asks for has been delivered (retireWaitHistory), or when
\* the user resets the branch: no decision is lost or changed on its way.
DecisionKept ==
    [][\A t \in Token :
         waits[t] # Nil /\ ~Live(waits[t]) /\ resets' = resets =>
            \/ waits'[t] = waits[t]
            \/ waits'[t] = Nil /\ (waits[t].state = "cancelled" \/ t \in observed)
      ]_waiting

=============================================================================
