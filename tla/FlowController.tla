--------------------------- MODULE FlowController ---------------------------
(***************************************************************************)
(* One automatic turn, from a producer's change to the settled attempt:    *)
(* the scheduling loop (controller.ts), the bridge to the native session   *)
(* (pi-controller-host.ts, pi-queue-receipts.ts), the native queue's claim *)
(* (scripts/pi-flow-control-transform.mjs) and the settlement at idle      *)
(* (pi-host-boundary.ts).  The loop, the producers, the user, the native   *)
(* run and the closing of the session are separate actors; each action     *)
(* runs from one await to the next.                                        *)
(*                                                                         *)
(* An attempt is one of the ledger's (ReceiptLedger); only its phase       *)
(* matters here.  Which intents are chosen is the policy's business        *)
(* (Admission): here any of the runnable ones may be.  The ledger's store  *)
(* does not fail.                                                          *)
(***************************************************************************)
EXTENDS Integers, FiniteSets

CONSTANTS
    Producer,      \* registered producer namespaces
    MaxRevision,   \* bound: revisions of each producer's intent
    MaxTurns       \* bound: turns the user starts

ASSUME FlowAssumption ==
    /\ IsFiniteSet(Producer)
    /\ MaxRevision \in [Producer -> Nat \ {0}]
    /\ MaxTurns \in Nat

VARIABLES
    registered,   \* producers not disposed
    offer,        \* what each producer's snapshot would return now
    stale,        \* producers that changed and have not said so yet
    held,         \* producers that failed and wait for their next change
    spent,        \* consumed <<producer, revision>>: the ledger's fences
    pc,           \* where the scheduling loop is
    dirty,        \* a wake arrived during the current step
    fresh,        \* no revision++ since the current selection captured it
    batch,        \* per producer, the selected revision; 0 is none
    todo,         \* producers the current pass over snapshots has to read
    advanced,     \* result of the step: run another one
    failed,       \* the step threw
    active,       \* phase of the ledger's active attempt
    slot,         \* the host's pending input: free, own (active's) or old
    revoked,      \* that pending input is revoked
    queued,       \* its item is in the native queue
    claim,        \* where the native queue's claim is
    turn,         \* native execution
    barrier,      \* the host boundary is held by the loop
    userPending,  \* user input waits or runs
    turns,        \* user turns so far
    wakeDue,      \* the session's scheduler is going to call wake
    closed,       \* the controller is closed
    detached      \* and so is its host

producers == <<registered, offer, stale, held, spent>>
loop      == <<pc, dirty, fresh, batch, todo, advanced, failed>>
input     == <<active, slot, revoked, queued>>
native    == <<claim, turn, userPending, turns>>
lifetime  == <<closed, detached>>
vars      == <<producers, loop, input, native, barrier, wakeDue, lifetime>>

Revision == UNION {0..MaxRevision[p] : p \in Producer}
Place == {"off", "top", "settle", "idle", "gather", "build", "check1", "check2",
          "enqueue", "place", "record", "run", "running", "reconcile", "done"}
Phase == {"none", "selected", "queued", "claimed", "running"}

TypeOK ==
    /\ registered \subseteq Producer
    /\ offer \in [Producer -> [revision : Revision \ {0}, runnable : BOOLEAN]]
    /\ stale \subseteq Producer
    /\ held \subseteq Producer
    /\ spent \subseteq Producer \X Revision
    /\ pc \in Place
    /\ dirty \in BOOLEAN
    /\ fresh \in BOOLEAN
    /\ batch \in [Producer -> Revision]
    /\ todo \subseteq Producer
    /\ advanced \in BOOLEAN
    /\ failed \in BOOLEAN
    /\ active \in Phase
    /\ slot \in {"free", "own", "old"}
    /\ revoked \in BOOLEAN
    /\ queued \in BOOLEAN
    /\ claim \in {"none", "check", "take", "claimed", "dropped"}
    /\ turn \in {"none", "user", "flow"}
    /\ barrier \in BOOLEAN
    /\ userPending \in BOOLEAN
    /\ turns \in 0..MaxTurns
    /\ wakeDue \in BOOLEAN
    /\ closed \in BOOLEAN
    /\ detached \in BOOLEAN

Init ==
    /\ registered = Producer
    /\ offer \in [Producer -> [revision : {1}, runnable : BOOLEAN]]
    /\ stale = Producer
    /\ held = {}
    /\ spent = {}
    /\ pc = "off"
    /\ dirty = FALSE
    /\ fresh = FALSE
    /\ batch = [p \in Producer |-> 0]
    /\ todo = {}
    /\ advanced = FALSE
    /\ failed = FALSE
    /\ active = "none"
    /\ slot = "free"
    /\ revoked = FALSE
    /\ queued = FALSE
    /\ claim = "none"
    /\ turn = "none"
    /\ barrier = FALSE
    /\ userPending = FALSE
    /\ turns = 0
    /\ wakeDue = FALSE
    /\ closed = FALSE
    /\ detached = FALSE

-----------------------------------------------------------------------------
(* Revoking what was prepared from an older view *)

Invalidate_Flag ==   \* a plausible bug: the item stays in the native queue
    /\ revoked' = (slot # "free")
    /\ UNCHANGED queued

\* Takes the pending input back, unless the queue is under maintenance.
Invalidate ==
    /\ revoked' = (slot # "free")
    /\ queued' = (queued /\ barrier)

\* A new revision: earlier snapshots and checks no longer count.
Fence == fresh' = FALSE /\ Invalidate

\* The producer's state changes before it can say so.
Mutate(p) ==
    /\ p \in registered
    /\ offer[p].revision < MaxRevision[p]
    /\ \E runnable \in BOOLEAN :
         offer' = [offer EXCEPT ![p] = [revision |-> @.revision + 1, runnable |-> runnable]]
    /\ stale' = stale \cup {p}
    /\ UNCHANGED <<registered, held, spent, loop, input, native, barrier, wakeDue, lifetime>>

Changed(p) ==
    /\ p \in registered \cap stale
    /\ ~closed
    /\ stale' = stale \ {p}
    /\ held' = held \ {p}
    /\ wakeDue' = TRUE
    /\ Fence
    /\ UNCHANGED <<registered, offer, spent, pc, dirty, batch, todo, advanced, failed,
                   active, slot, native, barrier, lifetime>>

Dispose(p) ==
    /\ p \in registered
    /\ registered' = registered \ {p}
    /\ held' = held \ {p}
    /\ dirty' = (pc # "off")
    /\ Fence
    /\ UNCHANGED <<offer, stale, spent, pc, batch, todo, advanced, failed,
                   active, slot, native, barrier, wakeDue, lifetime>>

\* The session lets one wake finish before the next (wakeProducers); what the
\* loop hears meanwhile is a disposed producer.
Wake ==
    /\ wakeDue
    /\ ~closed
    /\ pc = "off"
    /\ wakeDue' = FALSE
    /\ dirty' = TRUE
    /\ pc' = "top"
    /\ Fence
    /\ UNCHANGED <<producers, batch, todo, advanced, failed, active, slot, native, barrier, lifetime>>

Close ==
    /\ ~closed
    /\ closed' = TRUE
    /\ Fence
    /\ UNCHANGED <<producers, pc, dirty, batch, todo, advanced, failed,
                   active, slot, native, barrier, wakeDue, detached>>

-----------------------------------------------------------------------------
(* Rechecking a selection against its producers: valid() *)

Members == {p \in Producer : batch[p] # 0}
Current(p) == p \in registered /\ offer[p] = [revision |-> batch[p], runnable |-> TRUE]
Checking == pc \in {"check1", "check2"} \/ claim = "check"

\* Reads the snapshot of one more producer; the gate counts at the ends only.
ReadMember(p) ==
    /\ Checking
    /\ p \in todo
    /\ Current(p)
    /\ fresh
    /\ todo = Members => ~userPending
    /\ todo' = todo \ {p}
    /\ UNCHANGED <<producers, pc, dirty, fresh, batch, advanced, failed, input, native,
                   barrier, wakeDue, lifetime>>

Valid == todo = {} /\ fresh /\ ~userPending

Invalid ==
    \/ ~fresh
    \/ todo \in {Members, {}} /\ userPending
    \/ \E p \in todo : ~Current(p)

-----------------------------------------------------------------------------
(* The reconciliation of one attempt by the host, when it is idle *)

Reconcile_LeavesItem ==   \* a plausible bug: the item stays in the native queue
    IF turn # "none" THEN UNCHANGED input
    ELSE /\ active' = "none"
         /\ slot' = IF slot = "own" THEN "free" ELSE slot
         /\ queued' = queued
         /\ revoked' = (slot = "old")

Reconcile ==
    IF turn # "none" THEN UNCHANGED input
    ELSE /\ active' = "none"
         /\ slot' = IF slot = "own" THEN "free" ELSE slot
         /\ queued' = (queued /\ active \notin {"selected", "queued"})
         /\ revoked' = (slot = "old")

-----------------------------------------------------------------------------
(* The scheduling loop *)

Top ==
    /\ pc = "top"
    /\ dirty' = FALSE
    /\ pc' = IF active = "none" THEN "idle" ELSE "settle"
    /\ UNCHANGED <<producers, fresh, batch, todo, advanced, failed, input, native,
                   barrier, wakeDue, lifetime>>

Settle ==
    /\ pc = "settle"
    /\ Reconcile
    /\ pc' = "idle"
    /\ UNCHANGED <<producers, dirty, fresh, batch, todo, advanced, failed, native,
                   barrier, wakeDue, lifetime>>

\* The boundary is busy, or there is nothing the step may do there.
Busy ==
    /\ pc = "idle"
    /\ turn # "none" \/ queued \/ closed \/ active # "none"
    /\ pc' = "done"
    /\ UNCHANGED <<producers, dirty, fresh, batch, todo, advanced, failed, input, native,
                   barrier, wakeDue, lifetime>>

EnterIdle ==
    /\ pc = "idle"
    /\ turn = "none" /\ ~queued /\ ~closed /\ active = "none"
    /\ barrier' = TRUE
    /\ fresh' = TRUE
    /\ batch' = [p \in Producer |-> 0]
    /\ todo' = registered \ held
    /\ pc' = "gather"
    /\ UNCHANGED <<producers, dirty, advanced, failed, input, native, wakeDue, lifetime>>

\* Leaves the boundary without a reservation.
Leave(again) ==
    /\ barrier' = FALSE
    /\ advanced' = again
    /\ pc' = "done"

Describe_Again(p) ==   \* a plausible bug: consumed intents are offered again
    /\ pc = "gather"
    /\ fresh
    /\ p \in todo
    /\ todo' = todo \ {p}
    /\ \/ /\ held' = held \cup {p}
          /\ UNCHANGED batch
       \/ /\ batch' = [batch EXCEPT ![p] =
                         IF offer[p].runnable
                         THEN offer[p].revision ELSE 0]
          /\ UNCHANGED held
    /\ UNCHANGED <<registered, offer, stale, spent, pc, dirty, fresh, advanced, failed,
                   input, native, barrier, wakeDue, lifetime>>

Describe(p) ==
    /\ pc = "gather"
    /\ fresh
    /\ p \in todo
    /\ todo' = todo \ {p}
    /\ \/ /\ held' = held \cup {p}
          /\ UNCHANGED batch
       \/ /\ batch' = [batch EXCEPT ![p] =
                         IF offer[p].runnable /\ <<p, offer[p].revision>> \notin spent
                         THEN offer[p].revision ELSE 0]
          /\ UNCHANGED held
    /\ UNCHANGED <<registered, offer, stale, spent, pc, dirty, fresh, advanced, failed,
                   input, native, barrier, wakeDue, lifetime>>

\* Some of the runnable intents; which ones is decided by Admission!Choose.
Choose ==
    /\ pc = "gather"
    /\ fresh
    /\ todo = {}
    /\ ~userPending
    /\ \E chosen \in SUBSET Members \ {{}} :
         batch' = [p \in Producer |-> IF p \in chosen THEN batch[p] ELSE 0]
    /\ pc' = "build"
    /\ UNCHANGED <<producers, dirty, fresh, todo, advanced, failed, input, native,
                   barrier, wakeDue, lifetime>>

NothingToDo ==
    /\ pc = "gather"
    /\ fresh
    /\ todo = {}
    /\ userPending \/ Members = {}
    /\ Leave(FALSE)
    /\ UNCHANGED <<producers, dirty, fresh, batch, todo, failed, input, native, wakeDue, lifetime>>

\* The signal was aborted, or the selection is no longer what is offered.
Abandon ==
    /\ \/ pc \in {"gather", "build"} /\ ~fresh
       \/ pc = "check1" /\ Invalid
    /\ Leave(FALSE)
    /\ UNCHANGED <<producers, dirty, fresh, batch, todo, failed, input, native, wakeDue, lifetime>>

Build ==
    /\ pc = "build"
    /\ fresh
    /\ todo' = Members
    /\ pc' = "check1"
    /\ UNCHANGED <<producers, dirty, fresh, batch, advanced, failed, input, native,
                   barrier, wakeDue, lifetime>>

BuildFails_Unheld(p) ==   \* a plausible bug: the failing producer is tried again
    /\ pc \in {"build", "check1"}
    /\ fresh
    /\ p \in Members
    /\ Leave(TRUE)
    /\ UNCHANGED <<producers, dirty, fresh, batch, todo, failed, input, native, wakeDue, lifetime>>

\* The producer of the chosen intent fails: held, and the others get a step.
BuildFails(p) ==
    /\ pc \in {"build", "check1"}
    /\ fresh
    /\ p \in Members
    /\ held' = held \cup {p}
    /\ Leave(TRUE)
    /\ UNCHANGED <<registered, offer, stale, spent, dirty, fresh, batch, todo, failed,
                   input, native, wakeDue, lifetime>>

\* The producer of a result that would only travel along fails.
DropResult(p) ==
    /\ pc = "build"
    /\ fresh
    /\ p \in Members
    /\ Members # {p}
    /\ held' = held \cup {p}
    /\ batch' = [batch EXCEPT ![p] = 0]
    /\ UNCHANGED <<registered, offer, stale, spent, pc, dirty, fresh, todo, advanced, failed,
                   input, native, barrier, wakeDue, lifetime>>

Select ==
    /\ pc = "check1"
    /\ Valid
    /\ active' = "selected"
    /\ slot' = IF slot = "free" THEN "free" ELSE "old"
    /\ barrier' = FALSE
    /\ todo' = Members
    /\ pc' = "check2"
    /\ UNCHANGED <<producers, dirty, fresh, batch, advanced, failed, revoked, queued, native,
                   wakeDue, lifetime>>

\* Changed before enqueue; or the check itself throws.
CancelSelected ==
    /\ pc = "check2"
    /\ \/ Invalid /\ active' = "none" /\ UNCHANGED failed
       \/ todo # {} /\ fresh /\ failed' = TRUE /\ UNCHANGED active
    /\ pc' = "reconcile"
    /\ UNCHANGED <<producers, dirty, fresh, batch, todo, advanced, slot, revoked, queued, native,
                   barrier, wakeDue, lifetime>>

Accept ==
    /\ pc = "check2"
    /\ Valid
    /\ pc' = "enqueue"
    /\ UNCHANGED <<producers, dirty, fresh, batch, todo, advanced, failed, input, native,
                   barrier, wakeDue, lifetime>>

\* One pending input at a time.
Enqueue ==
    /\ pc = "enqueue"
    /\ IF slot # "free"
       THEN /\ failed' = TRUE
            /\ pc' = "reconcile"
            /\ UNCHANGED <<slot, revoked>>
       ELSE /\ slot' = "own"
            /\ revoked' = FALSE
            /\ pc' = "place"
            /\ UNCHANGED failed
    /\ UNCHANGED <<producers, dirty, fresh, batch, todo, advanced, active, queued, native,
                   barrier, wakeDue, lifetime>>

\* The item enters the native queue, unless it was revoked meanwhile.
PlaceItem ==
    /\ pc = "place"
    /\ queued' = ~revoked
    /\ failed' = revoked
    /\ pc' = IF revoked THEN "reconcile" ELSE "record"
    /\ UNCHANGED <<producers, dirty, fresh, batch, todo, advanced, active, slot, revoked, native,
                   barrier, wakeDue, lifetime>>

RecordQueued ==
    /\ pc = "record"
    /\ active' = "queued"
    /\ pc' = "run"
    /\ UNCHANGED <<producers, dirty, fresh, batch, todo, advanced, failed, slot, revoked, queued,
                   native, barrier, wakeDue, lifetime>>

\* continueQueued needs an idle session; a closing one starts nothing.
Run ==
    /\ pc = "run"
    /\ IF turn = "none" /\ ~closed
       THEN /\ turn' = "flow"
            /\ pc' = "running"
            /\ UNCHANGED failed
       ELSE /\ failed' = TRUE
            /\ pc' = "reconcile"
            /\ UNCHANGED turn
    /\ UNCHANGED <<producers, dirty, fresh, batch, todo, advanced, input, claim, userPending,
                   turns, barrier, wakeDue, lifetime>>

Finish ==
    /\ pc = "reconcile"
    /\ Reconcile
    /\ advanced' = (turn = "none" /\ active \in {"claimed", "running"})
    /\ pc' = "done"
    /\ UNCHANGED <<producers, dirty, fresh, batch, todo, failed, native, barrier, wakeDue, lifetime>>

\* Another step after progress or a wake; a throw ends the loop first.  What
\* was selected is forgotten, except by an item that is still queued.
Done ==
    /\ pc = "done"
    /\ IF failed /\ dirty /\ ~closed THEN Invalidate ELSE UNCHANGED <<revoked, queued>>
    /\ fresh' = (fresh /\ queued' /\ ~(failed /\ dirty))
    /\ batch' = IF queued' THEN batch ELSE [p \in Producer |-> 0]
    /\ todo' = IF queued' THEN todo ELSE {}
    /\ pc' = IF ~closed /\ (dirty \/ (advanced /\ ~failed)) THEN "top" ELSE "off"
    /\ advanced' = FALSE
    /\ failed' = FALSE
    /\ UNCHANGED <<producers, dirty, active, slot, native, barrier, wakeDue, lifetime>>

\* After the abort and the end of the loop, the host lets go of the session.
Detach_Blind ==   \* a plausible bug: the pending input is not reconciled
    /\ closed
    /\ ~detached
    /\ pc = "off"
    /\ turn = "none"
    /\ detached' = TRUE
    /\ UNCHANGED input
    /\ UNCHANGED <<producers, loop, native, barrier, wakeDue, closed>>

Detach ==
    /\ closed
    /\ ~detached
    /\ pc = "off"
    /\ turn = "none"
    /\ detached' = TRUE
    /\ IF slot = "own" THEN Reconcile ELSE UNCHANGED input
    /\ UNCHANGED <<producers, loop, native, barrier, wakeDue, closed>>

-----------------------------------------------------------------------------
(* The user and the native run *)

UserArrives ==
    /\ ~userPending
    /\ ~closed
    /\ turns < MaxTurns
    /\ userPending' = TRUE
    /\ UNCHANGED <<producers, loop, input, claim, turn, turns, barrier, wakeDue, lifetime>>

UserTurn ==
    /\ userPending
    /\ turns < MaxTurns
    /\ turn = "none"
    /\ ~barrier
    /\ ~closed
    /\ turn' = "user"
    /\ turns' = turns + 1
    /\ UNCHANGED <<producers, loop, input, claim, userPending, barrier, wakeDue, lifetime>>

\* Any run drains the queue; the item's durable record comes first.
Drain ==
    /\ turn # "none"
    /\ claim = "none"
    /\ queued
    /\ active = "queued"
    /\ claim' = "check"
    /\ todo' = Members
    /\ UNCHANGED <<producers, pc, dirty, fresh, batch, advanced, failed, input, turn, userPending,
                   turns, barrier, wakeDue, lifetime>>

ClaimValid ==
    /\ claim = "check"
    /\ Valid
    /\ ~revoked
    /\ claim' = "take"
    /\ UNCHANGED <<producers, loop, input, turn, userPending, turns, barrier, wakeDue, lifetime>>

ClaimInvalid ==
    /\ claim = "check"
    /\ Invalid \/ revoked
    /\ Invalidate
    /\ claim' = "take"
    /\ UNCHANGED <<producers, loop, active, slot, turn, userPending, turns, barrier, wakeDue, lifetime>>

\* The recheck throws: the run ends with its error and nothing is claimed.
ClaimFails ==
    /\ claim = "check"
    /\ todo # {} /\ fresh
    /\ Invalidate
    /\ claim' = "none"
    /\ failed' = (failed \/ turn = "flow")
    /\ UNCHANGED <<producers, pc, dirty, fresh, batch, todo, advanced, active, slot, turn,
                   userPending, turns, barrier, wakeDue, lifetime>>

\* Removal from the queue in one piece with the look at what is still there.
Take ==
    /\ claim = "take"
    /\ claim' = IF queued THEN "claimed" ELSE "dropped"
    /\ queued' = FALSE
    /\ UNCHANGED <<producers, loop, active, slot, revoked, turn, userPending, turns,
                   barrier, wakeDue, lifetime>>

RecordClaim ==
    /\ claim \in {"claimed", "dropped"}
    /\ active' = IF claim = "claimed" THEN "claimed" ELSE "none"
    /\ spent' = IF claim = "claimed" THEN spent \cup {<<p, batch[p]>> : p \in Members} ELSE spent
    /\ claim' = "none"
    /\ UNCHANGED <<registered, offer, stale, held, loop, slot, revoked, queued, turn, userPending,
                   turns, barrier, wakeDue, lifetime>>

Send ==
    /\ active = "claimed"
    /\ turn # "none"
    /\ active' = "running"
    /\ UNCHANGED <<producers, loop, slot, revoked, queued, native, barrier, wakeDue, lifetime>>

\* A flow run first drains the queue, unless it is aborted.  The drained host
\* schedules the next release.
EndTurn_Silent ==   \* a plausible bug: the drained host schedules nothing
    /\ turn # "none"
    /\ claim = "none"
    /\ turn = "flow" => ~queued \/ closed
    /\ turn' = "none"
    /\ userPending' = (userPending /\ turn # "user")
    /\ wakeDue' = wakeDue
    /\ IF turn = "flow"
       THEN /\ pc' = "reconcile"
            /\ failed' \in {failed, TRUE}
       ELSE UNCHANGED <<pc, failed>>
    /\ UNCHANGED <<producers, dirty, fresh, batch, todo, advanced, input, claim, turns,
                   barrier, lifetime>>

EndTurn ==
    /\ turn # "none"
    /\ claim = "none"
    /\ turn = "flow" => ~queued \/ closed
    /\ turn' = "none"
    /\ userPending' = (userPending /\ turn # "user")
    /\ wakeDue' = TRUE
    /\ IF turn = "flow"
       THEN /\ pc' = "reconcile"
            /\ failed' \in {failed, TRUE}
       ELSE UNCHANGED <<pc, failed>>
    /\ UNCHANGED <<producers, dirty, fresh, batch, todo, advanced, input, claim, turns,
                   barrier, lifetime>>

Controller ==
    \/ Top \/ Settle \/ Busy \/ EnterIdle \/ Choose \/ NothingToDo \/ Abandon \/ Build
    \/ Select \/ CancelSelected \/ Accept \/ Enqueue \/ PlaceItem \/ RecordQueued \/ Run
    \/ Finish \/ Done \/ Detach
    \/ \E p \in Producer : Describe(p) \/ BuildFails(p) \/ DropResult(p) \/ ReadMember(p)

Native == ClaimValid \/ ClaimInvalid \/ ClaimFails \/ Take \/ RecordClaim \/ EndTurn

Next ==
    \/ Controller
    \/ Native
    \/ \E p \in Producer : Mutate(p) \/ Changed(p) \/ Dispose(p)
    \/ Wake
    \/ Close
    \/ UserArrives
    \/ UserTurn
    \/ Drain
    \/ Send

\* The event loop runs every await that can go on; calls and turns end; the
\* session's scheduler delivers a wake; a producer says what it changed.
Fairness ==
    /\ WF_vars(Controller)
    /\ WF_vars(Native)
    /\ WF_vars(Wake)
    /\ WF_vars(UserTurn)
    /\ WF_vars(turn = "flow" /\ Drain)
    /\ \A p \in Producer : WF_vars(Changed(p))

Spec == Init /\ [][Next]_vars /\ Fairness

-----------------------------------------------------------------------------
(* Properties *)

\* An item sits in the native queue only while an open attempt and the host's
\* pending input account for it; otherwise a run would consume input without
\* a receipt (enqueue, invalidate and reconcile together); and every variable
\* keeps its type.
ItemAccounted == TypeOK /\ (queued => active \in {"selected", "queued"} /\ slot = "own")

\* The native run takes an automatic item only if no change, disposal, wake or
\* close was announced since the selection's snapshots, and then each member
\* is still what its producer offers, or the producer has yet to say it is
\* not (valid, invalidate and the queue's claim together).
ClaimsCurrent ==
    [][claim' = "claimed" /\ claim # "claimed" =>
         /\ fresh
         /\ ~closed
         /\ slot = "own" /\ ~revoked
         /\ \A p \in Members : Current(p) \/ p \in stale]_vars

\* No revision of an intent is consumed twice (retainedByReceipt).
ConsumedOnce ==
    [][active' = "claimed" /\ active # "claimed" =>
         \A p \in Members : <<p, batch[p]>> \notin spent]_vars

\* The loop comes to rest, unless its producers keep throwing: it goes on only
\* after progress or a wake.
Rests == []<>(pc = "off" \/ failed)

\* A closed controller lets go of the session with nothing queued, claimed or
\* running behind it; a reservation that never reached the queue may stay, and
\* ReceiptLedger!Attach gives it up (close, abortAndJoin, detach).
CloseCompletes ==
    closed ~> [](detached /\ turn = "none" /\ ~queued /\ active \in {"none", "selected"})

Due(p) ==
    /\ p \in registered \ held
    /\ offer[p].runnable
    /\ <<p, offer[p].revision>> \notin spent
    /\ ~closed

\* A change to be announced, a scheduled wake and a wake heard during a step
\* all lead to the runnable intent being consumed, withdrawn or held: no wake is
\* lost, unless the loop throws (the error is reported), the controller closes,
\* its slot is stuck (see SlotFree), or a producer replaced an intent and was
\* disposed before it said so: a selection that spoiled is then not made again.
WakeHeard ==
    \A p \in Producer :
        Due(p) /\ (p \in stale \/ wakeDue \/ dirty) ~>
            (~Due(p) \/ failed \/ slot = "old"
             \/ \E s \in stale \ registered : offer[s].revision > 1)

\* A new input finds the host's pending slot free: the receipt of every
\* revoked one has been reconciled.
SlotFree == pc = "enqueue" => slot = "free"
=============================================================================
