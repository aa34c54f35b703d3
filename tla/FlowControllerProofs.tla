------------------------ MODULE FlowControllerProofs ------------------------
(***************************************************************************)
(* What holds of the flow controller for any number of producers, of       *)
(* revisions of what they offer and of turns of the user: an item in the   *)
(* native queue is accounted for, a run takes nothing that has been        *)
(* withdrawn, nothing is consumed twice, and a controller that has let go  *)
(* of the session leaves nothing in it.                                    *)
(*                                                                         *)
(* A selection travels from the idle boundary through the attempt, the     *)
(* host's pending input and the native queue to a claim, while producers,  *)
(* the user and a close act at every await.  The inductive invariant says  *)
(* where it can be at each of them.  For each conjunct there is a lemma    *)
(* with a step for every action that can disturb it.                       *)
(***************************************************************************)
EXTENDS FlowController, TLAPS

\* Nothing is selected yet, and the loop has the session idle;
Choosing == pc \in {"gather", "build", "check1"}
\* the attempt is selected and on its way to the queue.
Submitting == pc \in {"check2", "enqueue", "place", "record"}

\* A queued item has its attempt and the host's pending input, not revoked.
Queue == queued => active \in {"selected", "queued"} /\ slot = "own" /\ ~revoked

\* While the loop chooses it is alone: no run, no attempt, an empty queue.
Boundary ==
    /\ barrier <=> Choosing
    /\ Choosing => turn = "none" /\ active = "none" /\ ~queued

\* The attempt the loop is submitting is the open one.
Attempt ==
    /\ Submitting => active = "selected"
    /\ pc \in {"check2", "enqueue", "place"} => ~queued
    /\ pc = "place" => slot = "own"

\* A claim is made by a run, of the attempt that is queued.
Turn ==
    /\ turn = "flow" <=> pc = "running"
    /\ claim # "none" => turn # "none" /\ active = "queued"
    /\ claim \in {"claimed", "dropped"} => ~queued

\* Closing overtakes every check that is under way.
Fenced == closed => ~fresh

\* The chosen revision is on offer, or its producer has yet to say it is not.
Holds(p) == Current(p) \/ p \in stale

\* A claim checks the members one after the other; what it has checked still
\* holds unless a wake came, which it sees, or which empties the queue.
Offered ==
    /\ claim = "check" /\ fresh => \A p \in Members \ todo : Holds(p)
    /\ claim = "take" /\ queued => fresh /\ \A p \in Members : Holds(p)

\* What is selected was not consumed before.
Unspent == \A p \in Members : <<p, batch[p]>> \notin spent
Spared == queued \/ claim = "claimed" \/ Choosing \/ Submitting => Unspent

\* The inductive invariant.
IInv == TypeOK /\ Queue /\ Boundary /\ Attempt /\ Turn /\ Fenced /\ Offered /\ Spared

-----------------------------------------------------------------------------
\* Revisions are numbers up to the largest bound of a producer.
LEMMA Revisions ==
  /\ Revision \subseteq Nat
  /\ \A p \in Producer : \A n \in 0..MaxRevision[p] : n \in Revision
  /\ \A p \in Producer : 0 \in Revision
BY FlowAssumption DEF Revision

\* Every step keeps the types.
LEMMA TypeStep ==
  ASSUME TypeOK, [Next]_vars
  PROVE  TypeOK'
<1>1. ASSUME NEW p \in Producer, Mutate(p) PROVE TypeOK'
  <2>1. offer' \in [Producer -> [revision : Revision \ {0}, runnable : BOOLEAN]]
    <3>1. PICK runnable \in BOOLEAN :
            offer' = [offer EXCEPT ![p] = [revision |-> @.revision + 1, runnable |-> runnable]]
      BY <1>1 DEF Mutate
    <3>2. offer[p].revision \in Revision /\ offer[p].revision # 0 /\ offer[p].revision < MaxRevision[p]
      BY <1>1 DEF Mutate, TypeOK
    <3>3. offer[p].revision \in Nat /\ MaxRevision[p] \in Nat
      BY <3>2, Revisions, FlowAssumption
    <3>4. offer[p].revision + 1 \in 0..MaxRevision[p] /\ offer[p].revision + 1 # 0
      BY <3>2, <3>3
    <3>5. offer[p].revision + 1 \in Revision \ {0}
      BY <3>4, Revisions
    <3> QED
      BY <3>1, <3>5 DEF TypeOK
  <2>2. stale' \subseteq Producer
    BY <1>1 DEF Mutate, TypeOK
  <2> QED
    BY <2>1, <2>2, <1>1 DEF Mutate, TypeOK, loop, input, native, lifetime
<1>2. ASSUME NEW p \in Producer, Changed(p) PROVE TypeOK'
  <2>1. stale' \subseteq Producer
    BY <1>2 DEF Changed, Fence, Invalidate, TypeOK
  <2>2. held' \subseteq Producer
    BY <1>2 DEF Changed, Fence, Invalidate, TypeOK
  <2>3. fresh' \in BOOLEAN
    BY <1>2 DEF Changed, Fence, Invalidate
  <2>4. revoked' \in BOOLEAN
    BY <1>2 DEF Changed, Fence, Invalidate
  <2>5. queued' \in BOOLEAN
    BY <1>2 DEF Changed, Fence, Invalidate
  <2>6. wakeDue' \in BOOLEAN
    BY <1>2 DEF Changed, Fence, Invalidate
  <2> QED
    BY <2>1, <2>2, <2>3, <2>4, <2>5, <2>6, <1>2 DEF Changed, Fence, Invalidate,
        TypeOK, native, lifetime
<1>3. ASSUME NEW p \in Producer, Dispose(p) PROVE TypeOK'
  <2>1. registered' \subseteq Producer
    BY <1>3 DEF Dispose, Fence, Invalidate, TypeOK
  <2>2. held' \subseteq Producer
    BY <1>3 DEF Dispose, Fence, Invalidate, TypeOK
  <2>3. dirty' \in BOOLEAN
    BY <1>3 DEF Dispose, Fence, Invalidate
  <2>4. fresh' \in BOOLEAN
    BY <1>3 DEF Dispose, Fence, Invalidate
  <2>5. revoked' \in BOOLEAN
    BY <1>3 DEF Dispose, Fence, Invalidate
  <2>6. queued' \in BOOLEAN
    BY <1>3 DEF Dispose, Fence, Invalidate
  <2> QED
    BY <2>1, <2>2, <2>3, <2>4, <2>5, <2>6, <1>3 DEF Dispose, Fence, Invalidate,
        TypeOK, native, lifetime
<1>4. ASSUME Wake PROVE TypeOK'
  <2>1. pc' \in Place
    BY <1>4 DEF Wake, Fence, Invalidate, Place
  <2>2. dirty' \in BOOLEAN
    BY <1>4 DEF Wake, Fence, Invalidate
  <2>3. fresh' \in BOOLEAN
    BY <1>4 DEF Wake, Fence, Invalidate
  <2>4. revoked' \in BOOLEAN
    BY <1>4 DEF Wake, Fence, Invalidate
  <2>5. queued' \in BOOLEAN
    BY <1>4 DEF Wake, Fence, Invalidate
  <2>6. wakeDue' \in BOOLEAN
    BY <1>4 DEF Wake, Fence, Invalidate
  <2> QED
    BY <2>1, <2>2, <2>3, <2>4, <2>5, <2>6, <1>4 DEF Wake, Fence, Invalidate, TypeOK,
        producers, native, lifetime
<1>5. ASSUME Close PROVE TypeOK'
  <2>1. fresh' \in BOOLEAN
    BY <1>5 DEF Close, Fence, Invalidate
  <2>2. revoked' \in BOOLEAN
    BY <1>5 DEF Close, Fence, Invalidate
  <2>3. queued' \in BOOLEAN
    BY <1>5 DEF Close, Fence, Invalidate
  <2>4. closed' \in BOOLEAN
    BY <1>5 DEF Close, Fence, Invalidate
  <2> QED
    BY <2>1, <2>2, <2>3, <2>4, <1>5 DEF Close, Fence, Invalidate, TypeOK, producers,
        native
<1>6. ASSUME NEW p \in Producer, ReadMember(p) PROVE TypeOK'
  BY <1>6 DEF ReadMember, TypeOK, producers, input, native, lifetime
<1>7. ASSUME Top PROVE TypeOK'
  <2>1. pc' \in Place
    BY <1>7 DEF Top, Place
  <2>2. dirty' \in BOOLEAN
    BY <1>7 DEF Top
  <2> QED
    BY <2>1, <2>2, <1>7 DEF Top, TypeOK, producers, input, native, lifetime
<1>8. ASSUME Settle PROVE TypeOK'
  <2>1. pc' \in Place
    BY <1>8 DEF Settle, Reconcile, Place, input
  <2>2. active' \in Phase
    BY <1>8 DEF Settle, Reconcile, TypeOK, Phase, input
  <2>3. slot' \in {"free", "own", "old"}
    BY <1>8 DEF Settle, Reconcile, TypeOK, input
  <2>4. revoked' \in BOOLEAN
    BY <1>8 DEF Settle, Reconcile, TypeOK, input
  <2>5. queued' \in BOOLEAN
    BY <1>8 DEF Settle, Reconcile, TypeOK, input
  <2> QED
    BY <2>1, <2>2, <2>3, <2>4, <2>5, <1>8 DEF Settle, Reconcile, TypeOK, producers,
        input, native, lifetime
<1>9. ASSUME Busy PROVE TypeOK'
  BY <1>9 DEF Busy, TypeOK, Place, producers, input, native, lifetime
<1>10. ASSUME EnterIdle PROVE TypeOK'
  <2>1. pc' \in Place
    BY <1>10 DEF EnterIdle, Place
  <2>2. fresh' \in BOOLEAN
    BY <1>10 DEF EnterIdle
  <2>3. batch' \in [Producer -> Revision]
    BY <1>10, Revisions DEF EnterIdle
  <2>4. todo' \subseteq Producer
    BY <1>10 DEF EnterIdle, TypeOK
  <2>5. barrier' \in BOOLEAN
    BY <1>10 DEF EnterIdle
  <2> QED
    BY <2>1, <2>2, <2>3, <2>4, <2>5, <1>10 DEF EnterIdle, TypeOK, producers, input,
        native, lifetime
<1>11. ASSUME NEW p \in Producer, Describe(p) PROVE TypeOK'
  <2>1. held' \subseteq Producer
    BY <1>11 DEF Describe, TypeOK
  <2>2. batch' \in [Producer -> Revision]
    BY <1>11, Revisions DEF Describe, TypeOK
  <2>3. todo' \subseteq Producer
    BY <1>11 DEF Describe, TypeOK
  <2> QED
    BY <2>1, <2>2, <2>3, <1>11 DEF Describe, TypeOK, input, native, lifetime
<1>12. ASSUME Choose PROVE TypeOK'
  <2>1. pc' \in Place
    BY <1>12 DEF Choose, Place
  <2>2. batch' \in [Producer -> Revision]
    BY <1>12, Revisions DEF Choose, TypeOK
  <2> QED
    BY <2>1, <2>2, <1>12 DEF Choose, TypeOK, producers, input, native, lifetime
<1>13. ASSUME NothingToDo PROVE TypeOK'
  <2>1. pc' \in Place
    BY <1>13 DEF NothingToDo, Leave, Place
  <2>2. advanced' \in BOOLEAN
    BY <1>13 DEF NothingToDo, Leave
  <2>3. barrier' \in BOOLEAN
    BY <1>13 DEF NothingToDo, Leave
  <2> QED
    BY <2>1, <2>2, <2>3, <1>13 DEF NothingToDo, Leave, TypeOK, producers, input,
        native, lifetime
<1>14. ASSUME Abandon PROVE TypeOK'
  <2>1. pc' \in Place
    BY <1>14 DEF Abandon, Leave, Place
  <2>2. advanced' \in BOOLEAN
    BY <1>14 DEF Abandon, Leave
  <2>3. barrier' \in BOOLEAN
    BY <1>14 DEF Abandon, Leave
  <2> QED
    BY <2>1, <2>2, <2>3, <1>14 DEF Abandon, Leave, TypeOK, producers, input, native,
        lifetime
<1>15. ASSUME Build PROVE TypeOK'
  BY <1>15 DEF Build, TypeOK, Place, Members, producers, input, native, lifetime
<1>16. ASSUME NEW p \in Producer, BuildFails(p) PROVE TypeOK'
  <2>1. held' \subseteq Producer
    BY <1>16 DEF BuildFails, Leave, TypeOK
  <2>2. pc' \in Place
    BY <1>16 DEF BuildFails, Leave, Place
  <2>3. advanced' \in BOOLEAN
    BY <1>16 DEF BuildFails, Leave
  <2>4. barrier' \in BOOLEAN
    BY <1>16 DEF BuildFails, Leave
  <2> QED
    BY <2>1, <2>2, <2>3, <2>4, <1>16 DEF BuildFails, Leave, TypeOK, input, native,
        lifetime
<1>17. ASSUME NEW p \in Producer, DropResult(p) PROVE TypeOK'
  <2>1. held' \subseteq Producer
    BY <1>17 DEF DropResult, TypeOK
  <2>2. batch' \in [Producer -> Revision]
    BY <1>17, Revisions DEF DropResult, TypeOK
  <2> QED
    BY <2>1, <2>2, <1>17 DEF DropResult, TypeOK, input, native, lifetime
<1>18. ASSUME Select PROVE TypeOK'
  <2>1. pc' \in Place
    BY <1>18 DEF Select, Place
  <2>2. todo' \subseteq Producer
    BY <1>18 DEF Select, Members
  <2>3. active' \in Phase
    BY <1>18 DEF Select, Phase
  <2>4. slot' \in {"free", "own", "old"}
    BY <1>18 DEF Select
  <2>5. barrier' \in BOOLEAN
    BY <1>18 DEF Select
  <2> QED
    BY <2>1, <2>2, <2>3, <2>4, <2>5, <1>18 DEF Select, TypeOK, producers, native,
        lifetime
<1>19. ASSUME CancelSelected PROVE TypeOK'
  <2>1. pc' \in Place
    BY <1>19 DEF CancelSelected, Place
  <2>2. failed' \in BOOLEAN
    BY <1>19 DEF CancelSelected, TypeOK
  <2>3. active' \in Phase
    BY <1>19 DEF CancelSelected, TypeOK, Phase
  <2> QED
    BY <2>1, <2>2, <2>3, <1>19 DEF CancelSelected, TypeOK, producers, native,
        lifetime
<1>20. ASSUME Accept PROVE TypeOK'
  BY <1>20 DEF Accept, TypeOK, Place, producers, input, native, lifetime
<1>21. ASSUME Enqueue PROVE TypeOK'
  <2>1. pc' \in Place
    BY <1>21 DEF Enqueue, Place
  <2>2. failed' \in BOOLEAN
    BY <1>21 DEF Enqueue, TypeOK
  <2>3. slot' \in {"free", "own", "old"}
    BY <1>21 DEF Enqueue, TypeOK
  <2>4. revoked' \in BOOLEAN
    BY <1>21 DEF Enqueue, TypeOK
  <2> QED
    BY <2>1, <2>2, <2>3, <2>4, <1>21 DEF Enqueue, TypeOK, producers, native,
        lifetime
<1>22. ASSUME PlaceItem PROVE TypeOK'
  BY <1>22 DEF PlaceItem, TypeOK, Place, producers, native, lifetime
<1>23. ASSUME RecordQueued PROVE TypeOK'
  BY <1>23 DEF RecordQueued, TypeOK, Phase, Place, producers, native, lifetime
<1>24. ASSUME Run PROVE TypeOK'
  <2>1. pc' \in Place
    BY <1>24 DEF Run, Place
  <2>2. failed' \in BOOLEAN
    BY <1>24 DEF Run, TypeOK
  <2>3. turn' \in {"none", "user", "flow"}
    BY <1>24 DEF Run, TypeOK
  <2> QED
    BY <2>1, <2>2, <2>3, <1>24 DEF Run, TypeOK, producers, input, lifetime
<1>25. ASSUME Finish PROVE TypeOK'
  <2>1. pc' \in Place
    BY <1>25 DEF Finish, Reconcile, Place, input
  <2>2. advanced' \in BOOLEAN
    BY <1>25 DEF Finish, Reconcile, input
  <2>3. active' \in Phase
    BY <1>25 DEF Finish, Reconcile, TypeOK, Phase, input
  <2>4. slot' \in {"free", "own", "old"}
    BY <1>25 DEF Finish, Reconcile, TypeOK, input
  <2>5. revoked' \in BOOLEAN
    BY <1>25 DEF Finish, Reconcile, TypeOK, input
  <2>6. queued' \in BOOLEAN
    BY <1>25 DEF Finish, Reconcile, TypeOK, input
  <2> QED
    BY <2>1, <2>2, <2>3, <2>4, <2>5, <2>6, <1>25 DEF Finish, Reconcile, TypeOK,
        producers, input, native, lifetime
<1>26. ASSUME Done PROVE TypeOK'
  <2>1. pc' \in Place
    BY <1>26 DEF Done, Invalidate, Place
  <2>2. fresh' \in BOOLEAN
    BY <1>26 DEF Done, Invalidate
  <2>3. batch' \in [Producer -> Revision]
    BY <1>26, Revisions DEF Done, Invalidate, TypeOK
  <2>4. todo' \subseteq Producer
    BY <1>26 DEF Done, Invalidate, TypeOK
  <2>5. advanced' \in BOOLEAN
    BY <1>26 DEF Done, Invalidate
  <2>6. failed' \in BOOLEAN
    BY <1>26 DEF Done, Invalidate
  <2>7. revoked' \in BOOLEAN
    BY <1>26 DEF Done, Invalidate, TypeOK
  <2>8. queued' \in BOOLEAN
    BY <1>26 DEF Done, Invalidate, TypeOK
  <2> QED
    BY <2>1, <2>2, <2>3, <2>4, <2>5, <2>6, <2>7, <2>8, <1>26 DEF Done, Invalidate,
        TypeOK, producers, native, lifetime
<1>27. ASSUME Detach PROVE TypeOK'
  BY <1>27 DEF Detach, Reconcile, TypeOK, Phase, producers, loop, input, native
<1>28. ASSUME UserArrives PROVE TypeOK'
  BY <1>28 DEF UserArrives, TypeOK, producers, loop, input, lifetime
<1>29. ASSUME UserTurn PROVE TypeOK'
  BY <1>29, FlowAssumption DEF UserTurn, TypeOK, producers, loop, input, lifetime
<1>30. ASSUME Drain PROVE TypeOK'
  BY <1>30 DEF Drain, TypeOK, Members, producers, input, lifetime
<1>31. ASSUME ClaimValid PROVE TypeOK'
  BY <1>31 DEF ClaimValid, TypeOK, producers, loop, input, lifetime
<1>32. ASSUME ClaimInvalid PROVE TypeOK'
  BY <1>32 DEF ClaimInvalid, Invalidate, TypeOK, producers, loop, lifetime
<1>33. ASSUME ClaimFails PROVE TypeOK'
  BY <1>33 DEF ClaimFails, Invalidate, TypeOK, producers, lifetime
<1>34. ASSUME Take PROVE TypeOK'
  <2>1. queued' \in BOOLEAN
    BY <1>34 DEF Take
  <2>2. claim' \in {"none", "check", "take", "claimed", "dropped"}
    BY <1>34 DEF Take
  <2> QED
    BY <2>1, <2>2, <1>34 DEF Take, TypeOK, producers, loop, lifetime
<1>35. ASSUME RecordClaim PROVE TypeOK'
  BY <1>35 DEF RecordClaim, TypeOK, Phase, Members, loop, lifetime
<1>36. ASSUME Send PROVE TypeOK'
  BY <1>36 DEF Send, TypeOK, Phase, producers, loop, native, lifetime
<1>37. ASSUME EndTurn PROVE TypeOK'
  <2>1. pc' \in Place
    BY <1>37 DEF EndTurn, TypeOK, Place
  <2>2. failed' \in BOOLEAN
    BY <1>37 DEF EndTurn, TypeOK
  <2>3. turn' \in {"none", "user", "flow"}
    BY <1>37 DEF EndTurn
  <2>4. userPending' \in BOOLEAN
    BY <1>37 DEF EndTurn
  <2>5. wakeDue' \in BOOLEAN
    BY <1>37 DEF EndTurn
  <2> QED
    BY <2>1, <2>2, <2>3, <2>4, <2>5, <1>37 DEF EndTurn, TypeOK, producers, input,
        lifetime
<1>38. CASE UNCHANGED vars
  BY <1>38 DEF vars, TypeOK, producers, loop, input, native, lifetime
<1> QED
  BY <1>1, <1>2, <1>3, <1>4, <1>5, <1>6, <1>7, <1>8, <1>9, <1>10, <1>11, <1>12,
      <1>13, <1>14, <1>15, <1>16, <1>17, <1>18, <1>19, <1>20, <1>21, <1>22, <1>23,
      <1>24, <1>25, <1>26, <1>27, <1>28, <1>29, <1>30, <1>31, <1>32, <1>33, <1>34,
      <1>35, <1>36, <1>37, <1>38 DEF Next, Controller, Native

\* An item leaves the queue before its attempt ends or its input is revoked.
LEMMA QueueStep ==
  ASSUME IInv, [Next]_vars
  PROVE  Queue'
<1> TypeOK /\ Queue /\ Boundary /\ Attempt /\ Turn /\ Fenced /\ Offered /\ Spared
  BY DEF IInv
<1>1. ASSUME NEW p \in Producer, Changed(p) PROVE Queue'
  BY <1>1 DEF Changed, Fence, Invalidate, Queue, Boundary, native, lifetime
<1>2. ASSUME NEW p \in Producer, Dispose(p) PROVE Queue'
  BY <1>2 DEF Dispose, Fence, Invalidate, Queue, Boundary, native, lifetime
<1>3. ASSUME Wake PROVE Queue'
  BY <1>3 DEF Wake, Fence, Invalidate, Queue, Boundary, producers, native, lifetime
<1>4. ASSUME Close PROVE Queue'
  BY <1>4 DEF Close, Fence, Invalidate, Queue, Boundary, producers, native
<1>5. ASSUME Settle PROVE Queue'
  BY <1>5 DEF Settle, Reconcile, Queue, producers, input, native, lifetime
<1>6. ASSUME Select PROVE Queue'
  BY <1>6 DEF Select, Queue, Boundary, Choosing, producers, native, lifetime
<1>7. ASSUME CancelSelected PROVE Queue'
  BY <1>7 DEF CancelSelected, Queue, Attempt, producers, native, lifetime
<1>8. ASSUME Enqueue PROVE Queue'
  BY <1>8 DEF Enqueue, Queue, producers, native, lifetime
<1>9. ASSUME PlaceItem PROVE Queue'
  BY <1>9 DEF PlaceItem, Queue, Attempt, Submitting, producers, native, lifetime
<1>10. ASSUME RecordQueued PROVE Queue'
  BY <1>10 DEF RecordQueued, Queue, producers, native, lifetime
<1>11. ASSUME Finish PROVE Queue'
  BY <1>11 DEF Finish, Reconcile, Queue, producers, input, native, lifetime
<1>12. ASSUME Done PROVE Queue'
  BY <1>12 DEF Done, Invalidate, Queue, Boundary, producers, native, lifetime
<1>13. ASSUME Detach PROVE Queue'
  BY <1>13 DEF Detach, Reconcile, Queue, producers, loop, input, native
<1>14. ASSUME ClaimInvalid PROVE Queue'
  BY <1>14 DEF ClaimInvalid, Invalidate, Queue, Boundary, producers, loop, lifetime
<1>15. ASSUME ClaimFails PROVE Queue'
  BY <1>15 DEF ClaimFails, Invalidate, Queue, Boundary, producers, lifetime
<1>16. ASSUME Take PROVE Queue'
  BY <1>16 DEF Take, Queue, producers, loop, lifetime
<1>17. ASSUME RecordClaim PROVE Queue'
  BY <1>17 DEF RecordClaim, Queue, Turn, loop, lifetime
<1>18. ASSUME Send PROVE Queue'
  BY <1>18 DEF Send, Queue, producers, loop, native, lifetime
<1>19. ASSUME UNCHANGED <<active, slot, revoked, queued>> PROVE Queue'
  BY <1>19 DEF Queue
<1>20. CASE (\E p \in Producer : Mutate(p)) \/ (\E p \in Producer : ReadMember(p)) \/
    Top \/ Busy \/ EnterIdle \/ (\E p \in Producer : Describe(p)) \/ Choose \/
    NothingToDo \/ Abandon \/ Build \/ (\E p \in Producer : BuildFails(p)) \/ (\E p \in
    Producer : DropResult(p)) \/ Accept \/ Run \/ UserArrives \/ UserTurn \/ Drain \/
    ClaimValid \/ EndTurn \/ UNCHANGED vars
  BY <1>19, <1>20 DEF Mutate, ReadMember, Top, Busy, EnterIdle, Describe, Choose,
      NothingToDo, Leave, Abandon, Build, BuildFails, DropResult, Accept, Run,
      UserArrives, UserTurn, Drain, ClaimValid, EndTurn, vars, producers, loop,
      input, native, lifetime
<1> QED
  BY <1>1, <1>2, <1>3, <1>4, <1>5, <1>6, <1>7, <1>8, <1>9, <1>10, <1>11, <1>12,
      <1>13, <1>14, <1>15, <1>16, <1>17, <1>18, <1>19, <1>20 DEF Next, Controller,
      Native

\* The loop enters the idle boundary alone and leaves it when it selects.
LEMMA BoundaryStep ==
  ASSUME IInv, [Next]_vars
  PROVE  Boundary'
<1> TypeOK /\ Queue /\ Boundary /\ Attempt /\ Turn /\ Fenced /\ Offered /\ Spared
  BY DEF IInv
<1>1. ASSUME NEW p \in Producer, Changed(p) PROVE Boundary'
  BY <1>1 DEF Changed, Fence, Invalidate, Boundary, Choosing, native, lifetime
<1>2. ASSUME NEW p \in Producer, Dispose(p) PROVE Boundary'
  BY <1>2 DEF Dispose, Fence, Invalidate, Boundary, Choosing, native, lifetime
<1>3. ASSUME Wake PROVE Boundary'
  BY <1>3 DEF Wake, Fence, Invalidate, Boundary, Choosing, producers, native,
      lifetime
<1>4. ASSUME Close PROVE Boundary'
  BY <1>4 DEF Close, Fence, Invalidate, Boundary, Choosing, producers, native
<1>5. ASSUME Top PROVE Boundary'
  BY <1>5 DEF Top, Boundary, Choosing, producers, input, native, lifetime
<1>6. ASSUME Settle PROVE Boundary'
  BY <1>6 DEF Settle, Reconcile, Boundary, Choosing, producers, input, native,
      lifetime
<1>7. ASSUME Busy PROVE Boundary'
  BY <1>7 DEF Busy, Boundary, Choosing, producers, input, native, lifetime
<1>8. ASSUME EnterIdle PROVE Boundary'
  BY <1>8 DEF EnterIdle, Boundary, Choosing, producers, input, native, lifetime
<1>9. ASSUME Choose PROVE Boundary'
  BY <1>9 DEF Choose, Boundary, Choosing, producers, input, native, lifetime
<1>10. ASSUME NothingToDo PROVE Boundary'
  BY <1>10 DEF NothingToDo, Leave, Boundary, Choosing, producers, input, native,
      lifetime
<1>11. ASSUME Abandon PROVE Boundary'
  BY <1>11 DEF Abandon, Leave, Boundary, Choosing, producers, input, native,
      lifetime
<1>12. ASSUME Build PROVE Boundary'
  BY <1>12 DEF Build, Boundary, Choosing, producers, input, native, lifetime
<1>13. ASSUME NEW p \in Producer, BuildFails(p) PROVE Boundary'
  BY <1>13 DEF BuildFails, Leave, Boundary, Choosing, input, native, lifetime
<1>14. ASSUME Select PROVE Boundary'
  BY <1>14 DEF Select, Boundary, Choosing, producers, native, lifetime
<1>15. ASSUME CancelSelected PROVE Boundary'
  BY <1>15 DEF CancelSelected, Boundary, Choosing, producers, native, lifetime
<1>16. ASSUME Accept PROVE Boundary'
  BY <1>16 DEF Accept, Boundary, Choosing, producers, input, native, lifetime
<1>17. ASSUME Enqueue PROVE Boundary'
  BY <1>17 DEF Enqueue, Boundary, Choosing, producers, native, lifetime
<1>18. ASSUME PlaceItem PROVE Boundary'
  BY <1>18 DEF PlaceItem, Boundary, Choosing, producers, native, lifetime
<1>19. ASSUME RecordQueued PROVE Boundary'
  BY <1>19 DEF RecordQueued, Boundary, Choosing, producers, native, lifetime
<1>20. ASSUME Run PROVE Boundary'
  BY <1>20 DEF Run, Boundary, Choosing, producers, input, lifetime
<1>21. ASSUME Finish PROVE Boundary'
  BY <1>21 DEF Finish, Reconcile, Boundary, Choosing, producers, input, native,
      lifetime
<1>22. ASSUME Done PROVE Boundary'
  BY <1>22 DEF Done, Invalidate, Boundary, Choosing, producers, native, lifetime
<1>23. ASSUME Detach PROVE Boundary'
  BY <1>23 DEF Detach, Reconcile, Boundary, Choosing, producers, loop, input, native
<1>24. ASSUME UserTurn PROVE Boundary'
  BY <1>24 DEF UserTurn, Boundary, Choosing, producers, loop, input, lifetime
<1>25. ASSUME ClaimInvalid PROVE Boundary'
  BY <1>25 DEF ClaimInvalid, Invalidate, Boundary, Choosing, producers, loop,
      lifetime
<1>26. ASSUME ClaimFails PROVE Boundary'
  BY <1>26 DEF ClaimFails, Invalidate, Boundary, Choosing, producers, lifetime
<1>27. ASSUME Take PROVE Boundary'
  BY <1>27 DEF Take, Boundary, Choosing, producers, loop, lifetime
<1>28. ASSUME RecordClaim PROVE Boundary'
  BY <1>28 DEF RecordClaim, Boundary, Turn, Choosing, loop, lifetime
<1>29. ASSUME Send PROVE Boundary'
  BY <1>29 DEF Send, Boundary, Choosing, producers, loop, native, lifetime
<1>30. ASSUME EndTurn PROVE Boundary'
  BY <1>30 DEF EndTurn, Boundary, Choosing, producers, input, lifetime
<1>31. ASSUME UNCHANGED <<barrier, pc, turn, active, queued>> PROVE Boundary'
  BY <1>31 DEF Boundary, Choosing
<1>32. CASE (\E p \in Producer : Mutate(p)) \/ (\E p \in Producer : ReadMember(p)) \/
    (\E p \in Producer : Describe(p)) \/ (\E p \in Producer : DropResult(p)) \/
    UserArrives \/ Drain \/ ClaimValid \/ UNCHANGED vars
  BY <1>31, <1>32 DEF Mutate, ReadMember, Describe, DropResult, UserArrives, Drain,
      ClaimValid, vars, producers, loop, input, native, lifetime
<1> QED
  BY <1>1, <1>2, <1>3, <1>4, <1>5, <1>6, <1>7, <1>8, <1>9, <1>10, <1>11, <1>12,
      <1>13, <1>14, <1>15, <1>16, <1>17, <1>18, <1>19, <1>20, <1>21, <1>22, <1>23,
      <1>24, <1>25, <1>26, <1>27, <1>28, <1>29, <1>30, <1>31, <1>32 DEF Next,
      Controller, Native

\* No step but the loop's own touches the attempt it is submitting.
LEMMA AttemptStep ==
  ASSUME IInv, [Next]_vars
  PROVE  Attempt'
<1> TypeOK /\ Queue /\ Boundary /\ Attempt /\ Turn /\ Fenced /\ Offered /\ Spared
  BY DEF IInv
<1>1. ASSUME NEW p \in Producer, Changed(p) PROVE Attempt'
  BY <1>1 DEF Changed, Fence, Invalidate, Attempt, Submitting, native, lifetime
<1>2. ASSUME NEW p \in Producer, Dispose(p) PROVE Attempt'
  BY <1>2 DEF Dispose, Fence, Invalidate, Attempt, Submitting, native, lifetime
<1>3. ASSUME Wake PROVE Attempt'
  BY <1>3 DEF Wake, Fence, Invalidate, Attempt, Submitting, producers, native,
      lifetime
<1>4. ASSUME Close PROVE Attempt'
  BY <1>4 DEF Close, Fence, Invalidate, Attempt, Submitting, producers, native
<1>5. ASSUME Top PROVE Attempt'
  BY <1>5 DEF Top, Attempt, Submitting, producers, input, native, lifetime
<1>6. ASSUME Settle PROVE Attempt'
  BY <1>6 DEF Settle, Reconcile, Attempt, Submitting, producers, input, native,
      lifetime
<1>7. ASSUME Busy PROVE Attempt'
  BY <1>7 DEF Busy, Attempt, Submitting, producers, input, native, lifetime
<1>8. ASSUME EnterIdle PROVE Attempt'
  BY <1>8 DEF EnterIdle, Attempt, Submitting, producers, input, native, lifetime
<1>9. ASSUME Choose PROVE Attempt'
  BY <1>9 DEF Choose, Attempt, Submitting, producers, input, native, lifetime
<1>10. ASSUME NothingToDo PROVE Attempt'
  BY <1>10 DEF NothingToDo, Leave, Attempt, Submitting, producers, input, native,
      lifetime
<1>11. ASSUME Abandon PROVE Attempt'
  BY <1>11 DEF Abandon, Leave, Attempt, Submitting, producers, input, native,
      lifetime
<1>12. ASSUME Build PROVE Attempt'
  BY <1>12 DEF Build, Attempt, Submitting, producers, input, native, lifetime
<1>13. ASSUME NEW p \in Producer, BuildFails(p) PROVE Attempt'
  BY <1>13 DEF BuildFails, Leave, Attempt, Submitting, input, native, lifetime
<1>14. ASSUME Select PROVE Attempt'
  BY <1>14 DEF Select, Boundary, Attempt, Choosing, producers, native, lifetime
<1>15. ASSUME CancelSelected PROVE Attempt'
  BY <1>15 DEF CancelSelected, Attempt, Submitting, producers, native, lifetime
<1>16. ASSUME Accept PROVE Attempt'
  BY <1>16 DEF Accept, Attempt, Submitting, producers, input, native, lifetime
<1>17. ASSUME Enqueue PROVE Attempt'
  BY <1>17 DEF Enqueue, Attempt, Submitting, producers, native, lifetime
<1>18. ASSUME PlaceItem PROVE Attempt'
  BY <1>18 DEF PlaceItem, Attempt, Submitting, producers, native, lifetime
<1>19. ASSUME RecordQueued PROVE Attempt'
  BY <1>19 DEF RecordQueued, Attempt, Submitting, producers, native, lifetime
<1>20. ASSUME Run PROVE Attempt'
  BY <1>20 DEF Run, Attempt, Submitting, producers, input, lifetime
<1>21. ASSUME Finish PROVE Attempt'
  BY <1>21 DEF Finish, Reconcile, Attempt, Submitting, producers, input, native,
      lifetime
<1>22. ASSUME Done PROVE Attempt'
  BY <1>22 DEF Done, Invalidate, Attempt, Submitting, producers, native, lifetime
<1>23. ASSUME Detach PROVE Attempt'
  BY <1>23 DEF Detach, Reconcile, Attempt, Submitting, producers, loop, input,
      native
<1>24. ASSUME ClaimInvalid PROVE Attempt'
  BY <1>24 DEF ClaimInvalid, Invalidate, Attempt, Submitting, producers, loop,
      lifetime
<1>25. ASSUME ClaimFails PROVE Attempt'
  BY <1>25 DEF ClaimFails, Invalidate, Attempt, Submitting, producers, lifetime
<1>26. ASSUME Take PROVE Attempt'
  BY <1>26 DEF Take, Attempt, Submitting, producers, loop, lifetime
<1>27. ASSUME RecordClaim PROVE Attempt'
  BY <1>27 DEF RecordClaim, Attempt, Turn, Submitting, loop, lifetime
<1>28. ASSUME Send PROVE Attempt'
  BY <1>28 DEF Send, Attempt, Submitting, producers, loop, native, lifetime
<1>29. ASSUME EndTurn PROVE Attempt'
  BY <1>29 DEF EndTurn, Attempt, Submitting, producers, input, lifetime
<1>30. ASSUME UNCHANGED <<pc, active, queued, slot>> PROVE Attempt'
  BY <1>30 DEF Attempt, Submitting
<1>31. CASE (\E p \in Producer : Mutate(p)) \/ (\E p \in Producer : ReadMember(p)) \/
    (\E p \in Producer : Describe(p)) \/ (\E p \in Producer : DropResult(p)) \/
    UserArrives \/ UserTurn \/ Drain \/ ClaimValid \/ UNCHANGED vars
  BY <1>30, <1>31 DEF Mutate, ReadMember, Describe, DropResult, UserArrives,
      UserTurn, Drain, ClaimValid, vars, producers, loop, input, native, lifetime
<1> QED
  BY <1>1, <1>2, <1>3, <1>4, <1>5, <1>6, <1>7, <1>8, <1>9, <1>10, <1>11, <1>12,
      <1>13, <1>14, <1>15, <1>16, <1>17, <1>18, <1>19, <1>20, <1>21, <1>22, <1>23,
      <1>24, <1>25, <1>26, <1>27, <1>28, <1>29, <1>30, <1>31 DEF Next, Controller,
      Native

\* A claim is over before its run or its attempt ends.
LEMMA TurnStep ==
  ASSUME IInv, [Next]_vars
  PROVE  Turn'
<1> TypeOK /\ Queue /\ Boundary /\ Attempt /\ Turn /\ Fenced /\ Offered /\ Spared
  BY DEF IInv
<1>1. ASSUME NEW p \in Producer, Changed(p) PROVE Turn'
  BY <1>1 DEF Changed, Fence, Invalidate, Turn, native, lifetime
<1>2. ASSUME NEW p \in Producer, Dispose(p) PROVE Turn'
  BY <1>2 DEF Dispose, Fence, Invalidate, Turn, native, lifetime
<1>3. ASSUME Wake PROVE Turn'
  BY <1>3 DEF Wake, Fence, Invalidate, Turn, producers, native, lifetime
<1>4. ASSUME Close PROVE Turn'
  BY <1>4 DEF Close, Fence, Invalidate, Turn, producers, native
<1>5. ASSUME Top PROVE Turn'
  BY <1>5 DEF Top, Turn, producers, input, native, lifetime
<1>6. ASSUME Settle PROVE Turn'
  BY <1>6 DEF Settle, Reconcile, Turn, producers, input, native, lifetime
<1>7. ASSUME Busy PROVE Turn'
  BY <1>7 DEF Busy, Turn, producers, input, native, lifetime
<1>8. ASSUME EnterIdle PROVE Turn'
  BY <1>8 DEF EnterIdle, Turn, producers, input, native, lifetime
<1>9. ASSUME Choose PROVE Turn'
  BY <1>9 DEF Choose, Turn, producers, input, native, lifetime
<1>10. ASSUME NothingToDo PROVE Turn'
  BY <1>10 DEF NothingToDo, Leave, Turn, producers, input, native, lifetime
<1>11. ASSUME Abandon PROVE Turn'
  BY <1>11 DEF Abandon, Leave, Turn, producers, input, native, lifetime
<1>12. ASSUME Build PROVE Turn'
  BY <1>12 DEF Build, Turn, producers, input, native, lifetime
<1>13. ASSUME NEW p \in Producer, BuildFails(p) PROVE Turn'
  BY <1>13 DEF BuildFails, Leave, Turn, input, native, lifetime
<1>14. ASSUME Select PROVE Turn'
  BY <1>14 DEF Select, Boundary, Turn, Choosing, producers, native, lifetime
<1>15. ASSUME CancelSelected PROVE Turn'
  BY <1>15 DEF CancelSelected, Attempt, Turn, Submitting, producers, native,
      lifetime
<1>16. ASSUME Accept PROVE Turn'
  BY <1>16 DEF Accept, Turn, producers, input, native, lifetime
<1>17. ASSUME Enqueue PROVE Turn'
  BY <1>17 DEF Enqueue, Turn, producers, native, lifetime
<1>18. ASSUME PlaceItem PROVE Turn'
  BY <1>18 DEF PlaceItem, Attempt, Turn, Submitting, producers, native, lifetime
<1>19. ASSUME RecordQueued PROVE Turn'
  BY <1>19 DEF RecordQueued, Turn, producers, native, lifetime
<1>20. ASSUME Run PROVE Turn'
  BY <1>20 DEF Run, Turn, producers, input, lifetime
<1>21. ASSUME Finish PROVE Turn'
  BY <1>21 DEF Finish, Reconcile, Turn, producers, input, native, lifetime
<1>22. ASSUME Done PROVE Turn'
  BY <1>22 DEF Done, Invalidate, Turn, producers, native, lifetime
<1>23. ASSUME Detach PROVE Turn'
  BY <1>23 DEF Detach, Reconcile, Turn, producers, loop, input, native
<1>24. ASSUME UserTurn PROVE Turn'
  BY <1>24 DEF UserTurn, Turn, producers, loop, input, lifetime
<1>25. ASSUME Drain PROVE Turn'
  BY <1>25 DEF Drain, Turn, producers, input, lifetime
<1>26. ASSUME ClaimValid PROVE Turn'
  BY <1>26 DEF ClaimValid, Turn, producers, loop, input, lifetime
<1>27. ASSUME ClaimInvalid PROVE Turn'
  BY <1>27 DEF ClaimInvalid, Invalidate, Turn, producers, loop, lifetime
<1>28. ASSUME ClaimFails PROVE Turn'
  BY <1>28 DEF ClaimFails, Invalidate, Turn, producers, lifetime
<1>29. ASSUME Take PROVE Turn'
  BY <1>29 DEF Take, Turn, producers, loop, lifetime
<1>30. ASSUME RecordClaim PROVE Turn'
  BY <1>30 DEF RecordClaim, Turn, loop, lifetime
<1>31. ASSUME Send PROVE Turn'
  BY <1>31 DEF Send, Turn, producers, loop, native, lifetime
<1>32. ASSUME EndTurn PROVE Turn'
  BY <1>32 DEF EndTurn, Turn, producers, input, lifetime
<1>33. ASSUME UNCHANGED <<turn, pc, claim, active, queued>> PROVE Turn'
  BY <1>33 DEF Turn
<1>34. CASE (\E p \in Producer : Mutate(p)) \/ (\E p \in Producer : ReadMember(p)) \/
    (\E p \in Producer : Describe(p)) \/ (\E p \in Producer : DropResult(p)) \/
    UserArrives \/ UNCHANGED vars
  BY <1>33, <1>34 DEF Mutate, ReadMember, Describe, DropResult, UserArrives, vars,
      producers, loop, input, native, lifetime
<1> QED
  BY <1>1, <1>2, <1>3, <1>4, <1>5, <1>6, <1>7, <1>8, <1>9, <1>10, <1>11, <1>12,
      <1>13, <1>14, <1>15, <1>16, <1>17, <1>18, <1>19, <1>20, <1>21, <1>22, <1>23,
      <1>24, <1>25, <1>26, <1>27, <1>28, <1>29, <1>30, <1>31, <1>32, <1>33, <1>34
      DEF Next, Controller, Native

\* Only a new pass makes a selection fresh, and none begins once closed.
LEMMA FencedStep ==
  ASSUME IInv, [Next]_vars
  PROVE  Fenced'
<1> TypeOK /\ Queue /\ Boundary /\ Attempt /\ Turn /\ Fenced /\ Offered /\ Spared
  BY DEF IInv
<1>1. ASSUME NEW p \in Producer, Changed(p) PROVE Fenced'
  BY <1>1 DEF Changed, Fence, Invalidate, Fenced, native, lifetime
<1>2. ASSUME NEW p \in Producer, Dispose(p) PROVE Fenced'
  BY <1>2 DEF Dispose, Fence, Invalidate, Fenced, native, lifetime
<1>3. ASSUME Wake PROVE Fenced'
  BY <1>3 DEF Wake, Fence, Invalidate, Fenced, producers, native, lifetime
<1>4. ASSUME Close PROVE Fenced'
  BY <1>4 DEF Close, Fence, Invalidate, Fenced, producers, native
<1>5. ASSUME EnterIdle PROVE Fenced'
  BY <1>5 DEF EnterIdle, Fenced, producers, input, native, lifetime
<1>6. ASSUME Done PROVE Fenced'
  BY <1>6 DEF Done, Invalidate, Fenced, producers, native, lifetime
<1>7. ASSUME UNCHANGED <<closed, fresh>> PROVE Fenced'
  BY <1>7 DEF Fenced
<1>8. CASE (\E p \in Producer : Mutate(p)) \/ (\E p \in Producer : ReadMember(p)) \/ Top
    \/ Settle \/ Busy \/ (\E p \in Producer : Describe(p)) \/ Choose \/ NothingToDo \/
    Abandon \/ Build \/ (\E p \in Producer : BuildFails(p)) \/ (\E p \in Producer :
    DropResult(p)) \/ Select \/ CancelSelected \/ Accept \/ Enqueue \/ PlaceItem \/
    RecordQueued \/ Run \/ Finish \/ Detach \/ UserArrives \/ UserTurn \/ Drain \/
    ClaimValid \/ ClaimInvalid \/ ClaimFails \/ Take \/ RecordClaim \/ Send \/ EndTurn
    \/ UNCHANGED vars
  BY <1>7, <1>8 DEF Mutate, ReadMember, Top, Settle, Reconcile, Busy, Describe,
      Choose, NothingToDo, Leave, Abandon, Build, BuildFails, DropResult, Select,
      CancelSelected, Accept, Enqueue, PlaceItem, RecordQueued, Run, Finish, Detach,
      UserArrives, UserTurn, Drain, ClaimValid, ClaimInvalid, Invalidate,
      ClaimFails, Take, RecordClaim, Send, EndTurn, vars, producers, loop, input,
      native, lifetime
<1> QED
  BY <1>1, <1>2, <1>3, <1>4, <1>5, <1>6, <1>7, <1>8 DEF Next, Controller, Native

\* A change is announced by a fence, so that what was checked holds without one.
LEMMA OfferedStep ==
  ASSUME IInv, [Next]_vars
  PROVE  Offered'
<1> TypeOK /\ Queue /\ Boundary /\ Attempt /\ Turn /\ Fenced /\ Offered /\ Spared
  BY DEF IInv
<1>1. ASSUME NEW p \in Producer, Mutate(p) PROVE Offered'
  BY <1>1 DEF Mutate, Offered, Holds, Current, Members, loop, input, native,
      lifetime
<1>2. ASSUME NEW p \in Producer, Changed(p) PROVE Offered'
  BY <1>2 DEF Changed, Fence, Invalidate, Boundary, Offered, Holds, native, lifetime
<1>3. ASSUME NEW p \in Producer, Dispose(p) PROVE Offered'
  BY <1>3 DEF Dispose, Fence, Invalidate, Boundary, Offered, Holds, native, lifetime
<1>4. ASSUME Wake PROVE Offered'
  BY <1>4 DEF Wake, Fence, Invalidate, Boundary, Offered, Holds, producers, native,
      lifetime
<1>5. ASSUME Close PROVE Offered'
  BY <1>5 DEF Close, Fence, Invalidate, Boundary, Offered, Holds, producers, native
<1>6. ASSUME NEW p \in Producer, ReadMember(p) PROVE Offered'
  BY <1>6 DEF ReadMember, Current, TypeOK, Offered, Holds, Members, producers,
      input, native, lifetime
<1>7. ASSUME Settle PROVE Offered'
  BY <1>7 DEF Settle, Reconcile, Offered, Holds, Current, Members, producers, input,
      native, lifetime
<1>8. ASSUME EnterIdle PROVE Offered'
  BY <1>8 DEF EnterIdle, Offered, Holds, Members, producers, input, native, lifetime
<1>9. ASSUME NEW p \in Producer, Describe(p) PROVE Offered'
  BY <1>9 DEF Describe, Boundary, Turn, Offered, Holds, Choosing, input, native,
      lifetime
<1>10. ASSUME Choose PROVE Offered'
  BY <1>10 DEF Choose, Offered, Holds, Current, Members, producers, input, native,
      lifetime
<1>11. ASSUME Build PROVE Offered'
  BY <1>11 DEF Build, Offered, Holds, Current, Members, producers, input, native,
      lifetime
<1>12. ASSUME NEW p \in Producer, DropResult(p) PROVE Offered'
  BY <1>12 DEF DropResult, Offered, Holds, Current, Members, input, native, lifetime
<1>13. ASSUME Select PROVE Offered'
  BY <1>13 DEF Select, Offered, Holds, Current, Members, producers, native, lifetime
<1>14. ASSUME PlaceItem PROVE Offered'
  BY <1>14 DEF PlaceItem, Attempt, Turn, Offered, Holds, Submitting, producers,
      native, lifetime
<1>15. ASSUME Finish PROVE Offered'
  BY <1>15 DEF Finish, Reconcile, Offered, Holds, Current, Members, producers,
      input, native, lifetime
<1>16. ASSUME Done PROVE Offered'
  BY <1>16 DEF Done, Invalidate, Boundary, Offered, Fenced, Holds, Current, Members,
      producers, native, lifetime
<1>17. ASSUME Detach PROVE Offered'
  BY <1>17 DEF Detach, Reconcile, Offered, Holds, Current, Members, producers, loop,
      input, native
<1>18. ASSUME Drain PROVE Offered'
  BY <1>18 DEF Drain, Offered, Holds, Members, producers, input, lifetime
<1>19. ASSUME ClaimValid PROVE Offered'
  BY <1>19 DEF ClaimValid, Valid, Offered, Holds, Current, Members, producers, loop,
      input, lifetime
<1>20. ASSUME ClaimInvalid PROVE Offered'
  BY <1>20 DEF ClaimInvalid, Invalidate, Boundary, Offered, Holds, producers, loop,
      lifetime
<1>21. ASSUME ClaimFails PROVE Offered'
  BY <1>21 DEF ClaimFails, Invalidate, Offered, Holds, producers, lifetime
<1>22. ASSUME Take PROVE Offered'
  BY <1>22 DEF Take, Offered, Holds, producers, loop, lifetime
<1>23. ASSUME RecordClaim PROVE Offered'
  BY <1>23 DEF RecordClaim, Offered, Holds, loop, lifetime
<1>24. ASSUME UNCHANGED <<claim, fresh, batch, todo, registered, offer, stale, queued>> PROVE Offered'
  BY <1>24 DEF Offered, Holds, Current, Members
<1>25. CASE Top \/ Busy \/ NothingToDo \/ Abandon \/ (\E p \in Producer : BuildFails(p))
    \/ CancelSelected \/ Accept \/ Enqueue \/ RecordQueued \/ Run \/ UserArrives \/
    UserTurn \/ Send \/ EndTurn \/ UNCHANGED vars
  BY <1>24, <1>25 DEF Top, Busy, NothingToDo, Leave, Abandon, BuildFails,
      CancelSelected, Accept, Enqueue, RecordQueued, Run, UserArrives, UserTurn,
      Send, EndTurn, vars, producers, loop, input, native, lifetime
<1> QED
  BY <1>1, <1>2, <1>3, <1>4, <1>5, <1>6, <1>7, <1>8, <1>9, <1>10, <1>11, <1>12,
      <1>13, <1>14, <1>15, <1>16, <1>17, <1>18, <1>19, <1>20, <1>21, <1>22, <1>23,
      <1>24, <1>25 DEF Next, Controller, Native

\* What is consumed is not chosen again: a choice skips what is spent.
LEMMA SparedStep ==
  ASSUME IInv, [Next]_vars
  PROVE  Spared'
<1> TypeOK /\ Queue /\ Boundary /\ Attempt /\ Turn /\ Fenced /\ Offered /\ Spared
  BY DEF IInv
<1>1. ASSUME NEW p \in Producer, Changed(p) PROVE Spared'
  BY <1>1 DEF Changed, Fence, Invalidate, Spared, Unspent, Members, Choosing,
      Submitting, native, lifetime
<1>2. ASSUME NEW p \in Producer, Dispose(p) PROVE Spared'
  BY <1>2 DEF Dispose, Fence, Invalidate, Spared, Unspent, Members, Choosing,
      Submitting, native, lifetime
<1>3. ASSUME Wake PROVE Spared'
  BY <1>3 DEF Wake, Fence, Invalidate, Spared, Unspent, Members, Choosing,
      Submitting, producers, native, lifetime
<1>4. ASSUME Close PROVE Spared'
  BY <1>4 DEF Close, Fence, Invalidate, Spared, Unspent, Members, Choosing,
      Submitting, producers, native
<1>5. ASSUME Top PROVE Spared'
  BY <1>5 DEF Top, Spared, Unspent, Members, Choosing, Submitting, producers, input,
      native, lifetime
<1>6. ASSUME Settle PROVE Spared'
  BY <1>6 DEF Settle, Reconcile, Spared, Unspent, Members, Choosing, Submitting,
      producers, input, native, lifetime
<1>7. ASSUME Busy PROVE Spared'
  BY <1>7 DEF Busy, Spared, Unspent, Members, Choosing, Submitting, producers,
      input, native, lifetime
<1>8. ASSUME EnterIdle PROVE Spared'
  BY <1>8 DEF EnterIdle, Spared, Unspent, Members, producers, input, native,
      lifetime
<1>9. ASSUME NEW p \in Producer, Describe(p) PROVE Spared'
  BY <1>9 DEF Describe, TypeOK, Spared, Unspent, Members, Choosing, input, native,
      lifetime
<1>10. ASSUME Choose PROVE Spared'
  BY <1>10 DEF Choose, Spared, Unspent, Members, Choosing, producers, input, native,
      lifetime
<1>11. ASSUME NothingToDo PROVE Spared'
  BY <1>11 DEF NothingToDo, Leave, Spared, Unspent, Members, Choosing, producers,
      input, native, lifetime
<1>12. ASSUME Abandon PROVE Spared'
  BY <1>12 DEF Abandon, Leave, Spared, Unspent, Members, Choosing, producers, input,
      native, lifetime
<1>13. ASSUME Build PROVE Spared'
  BY <1>13 DEF Build, Spared, Unspent, Members, Choosing, producers, input, native,
      lifetime
<1>14. ASSUME NEW p \in Producer, BuildFails(p) PROVE Spared'
  BY <1>14 DEF BuildFails, Leave, Spared, Unspent, Members, Choosing, input, native,
      lifetime
<1>15. ASSUME NEW p \in Producer, DropResult(p) PROVE Spared'
  BY <1>15 DEF DropResult, Spared, Unspent, Members, Choosing, input, native,
      lifetime
<1>16. ASSUME Select PROVE Spared'
  BY <1>16 DEF Select, Spared, Unspent, Members, Choosing, producers, native,
      lifetime
<1>17. ASSUME CancelSelected PROVE Spared'
  BY <1>17 DEF CancelSelected, Spared, Unspent, Members, Submitting, producers,
      native, lifetime
<1>18. ASSUME Accept PROVE Spared'
  BY <1>18 DEF Accept, Spared, Unspent, Members, Submitting, producers, input,
      native, lifetime
<1>19. ASSUME Enqueue PROVE Spared'
  BY <1>19 DEF Enqueue, Spared, Unspent, Members, Submitting, producers, native,
      lifetime
<1>20. ASSUME PlaceItem PROVE Spared'
  BY <1>20 DEF PlaceItem, Spared, Unspent, Members, Submitting, producers, native,
      lifetime
<1>21. ASSUME RecordQueued PROVE Spared'
  BY <1>21 DEF RecordQueued, Spared, Unspent, Members, Submitting, producers,
      native, lifetime
<1>22. ASSUME Run PROVE Spared'
  BY <1>22 DEF Run, Spared, Unspent, Members, Choosing, Submitting, producers,
      input, lifetime
<1>23. ASSUME Finish PROVE Spared'
  BY <1>23 DEF Finish, Reconcile, Spared, Unspent, Members, Choosing, Submitting,
      producers, input, native, lifetime
<1>24. ASSUME Done PROVE Spared'
  BY <1>24 DEF Done, Invalidate, Spared, Unspent, Members, producers, native,
      lifetime
<1>25. ASSUME Detach PROVE Spared'
  BY <1>25 DEF Detach, Reconcile, Spared, Unspent, Members, Choosing, Submitting,
      producers, loop, input, native
<1>26. ASSUME Drain PROVE Spared'
  BY <1>26 DEF Drain, Spared, Unspent, Members, producers, input, lifetime
<1>27. ASSUME ClaimValid PROVE Spared'
  BY <1>27 DEF ClaimValid, Spared, Unspent, Members, Choosing, Submitting,
      producers, loop, input, lifetime
<1>28. ASSUME ClaimInvalid PROVE Spared'
  BY <1>28 DEF ClaimInvalid, Invalidate, Spared, Unspent, Members, Choosing,
      Submitting, producers, loop, lifetime
<1>29. ASSUME ClaimFails PROVE Spared'
  BY <1>29 DEF ClaimFails, Invalidate, Spared, Unspent, Members, Choosing,
      Submitting, producers, lifetime
<1>30. ASSUME Take PROVE Spared'
  BY <1>30 DEF Take, Spared, Unspent, Members, Choosing, Submitting, producers,
      loop, lifetime
<1>31. ASSUME RecordClaim PROVE Spared'
  BY <1>31 DEF RecordClaim, Boundary, Attempt, Turn, Spared, Unspent, Choosing,
      Submitting, loop, lifetime
<1>32. ASSUME EndTurn PROVE Spared'
  BY <1>32 DEF EndTurn, Spared, Unspent, Members, Choosing, Submitting, producers,
      input, lifetime
<1>33. ASSUME UNCHANGED <<queued, claim, pc, batch, spent>> PROVE Spared'
  BY <1>33 DEF Spared, Unspent, Members, Choosing, Submitting
<1>34. CASE (\E p \in Producer : Mutate(p)) \/ (\E p \in Producer : ReadMember(p)) \/
    UserArrives \/ UserTurn \/ Send \/ UNCHANGED vars
  BY <1>33, <1>34 DEF Mutate, ReadMember, UserArrives, UserTurn, Send, vars,
      producers, loop, input, native, lifetime
<1> QED
  BY <1>1, <1>2, <1>3, <1>4, <1>5, <1>6, <1>7, <1>8, <1>9, <1>10, <1>11, <1>12,
      <1>13, <1>14, <1>15, <1>16, <1>17, <1>18, <1>19, <1>20, <1>21, <1>22, <1>23,
      <1>24, <1>25, <1>26, <1>27, <1>28, <1>29, <1>30, <1>31, <1>32, <1>33, <1>34
      DEF Next, Controller, Native

\* Initially nothing is selected.
LEMMA InitIInv == Init => IInv
<1> SUFFICES ASSUME Init PROVE IInv
  OBVIOUS
<1>1. TypeOK
  <2>1. offer \in [Producer -> [revision : Revision \ {0}, runnable : BOOLEAN]]
    <3>1. \A p \in Producer : 1 \in 0..MaxRevision[p]
      BY FlowAssumption
    <3>2. \A p \in Producer : 1 \in Revision \ {0}
      BY <3>1, Revisions
    <3> QED
      BY <3>2 DEF Init
  <2>2. batch \in [Producer -> Revision]
    BY Revisions DEF Init
  <2>3. turns \in 0..MaxTurns
    BY FlowAssumption DEF Init
  <2> QED
    BY <2>1, <2>2, <2>3 DEF Init, TypeOK, Place, Phase
<1>2. Members = {}
  BY DEF Init, Members
<1> QED
  BY <1>1, <1>2 DEF Init, IInv, Queue, Boundary, Attempt, Turn, Fenced, Offered,
      Spared, Choosing, Submitting, Unspent

\* Every step keeps the invariant.
LEMMA StepIInv == IInv /\ [Next]_vars => IInv'
<1> SUFFICES ASSUME IInv, [Next]_vars PROVE IInv'
  OBVIOUS
<1> QED
  BY TypeStep, QueueStep, BoundaryStep, AttemptStep, TurnStep, FencedStep,
      OfferedStep, SparedStep DEF IInv

\* Only Take claims the queued item (pi-queue-receipts.ts),
LEMMA OnlyTakeClaims ==
  ASSUME [Next]_vars, claim # "claimed", claim' = "claimed"
  PROVE  Take
<1>1. ASSUME NEW p \in Producer,
             Mutate(p) \/ Changed(p) \/ Dispose(p) \/ ReadMember(p) \/ Describe(p)
               \/ BuildFails(p) \/ DropResult(p)
      PROVE  claim' = claim
  BY <1>1 DEF Mutate, Changed, Dispose, ReadMember, Describe, BuildFails, DropResult,
      Leave, Fence, native
<1>2. ASSUME Top \/ Settle \/ Busy \/ EnterIdle \/ Choose \/ NothingToDo \/ Abandon \/ Build
      PROVE  claim' = claim
  BY <1>2 DEF Top, Settle, Busy, EnterIdle, Choose, NothingToDo, Abandon, Build, Leave, native
<1>3. ASSUME Select \/ CancelSelected \/ Accept \/ Enqueue \/ PlaceItem \/ RecordQueued \/ Run
      PROVE  claim' = claim
  BY <1>3 DEF Select, CancelSelected, Accept, Enqueue, PlaceItem, RecordQueued, Run, native
<1>4. ASSUME Finish \/ Done \/ Detach \/ Wake \/ Close \/ UserArrives \/ UserTurn \/ Send
             \/ EndTurn
      PROVE  claim' = claim
  BY <1>4 DEF Finish, Done, Detach, Wake, Close, UserArrives, UserTurn, Send, EndTurn,
      Fence, input, native
<1>5. ASSUME ClaimValid \/ ClaimInvalid \/ ClaimFails \/ RecordClaim \/ Drain
      PROVE  claim' # "claimed"
  BY <1>5 DEF ClaimValid, ClaimInvalid, ClaimFails, RecordClaim, Drain
<1>6. CASE UNCHANGED vars
  BY <1>6 DEF vars, native
<1> QED
  BY <1>1, <1>2, <1>3, <1>4, <1>5, <1>6 DEF Next, Controller, Native

\* and only what was claimed is recorded as consumed.
LEMMA OnlyRecordConsumes ==
  ASSUME [Next]_vars, active # "claimed", active' = "claimed"
  PROVE  RecordClaim /\ claim = "claimed"
<1>1. ASSUME NEW p \in Producer,
             Mutate(p) \/ Changed(p) \/ Dispose(p) \/ ReadMember(p) \/ Describe(p)
               \/ BuildFails(p) \/ DropResult(p)
      PROVE  active' = active
  BY <1>1 DEF Mutate, Changed, Dispose, ReadMember, Describe, BuildFails, DropResult,
      Leave, Fence, Invalidate, input
<1>2. ASSUME Top \/ Busy \/ EnterIdle \/ Choose \/ NothingToDo \/ Abandon \/ Build \/ Accept
             \/ Enqueue \/ PlaceItem \/ Run
      PROVE  active' = active
  BY <1>2 DEF Top, Busy, EnterIdle, Choose, NothingToDo, Abandon, Build, Accept, Enqueue,
      PlaceItem, Run, Leave, input
<1>3. ASSUME Done \/ Wake \/ Close \/ UserArrives \/ UserTurn \/ EndTurn \/ ClaimValid
             \/ ClaimInvalid \/ ClaimFails \/ Take \/ Drain
      PROVE  active' = active
  BY <1>3 DEF Done, Wake, Close, UserArrives, UserTurn, EndTurn, ClaimValid, ClaimInvalid,
      ClaimFails, Take, Drain, Fence, Invalidate, input
<1>4. ASSUME Settle \/ Select \/ CancelSelected \/ RecordQueued \/ Finish \/ Detach \/ Send
      PROVE  active' = active \/ active' # "claimed"
  BY <1>4 DEF Settle, Select, CancelSelected, RecordQueued, Finish, Detach, Send,
      Reconcile, input
<1>5. CASE RecordClaim
  BY <1>5 DEF RecordClaim
<1>6. CASE UNCHANGED vars
  BY <1>6 DEF vars, input
<1> QED
  BY <1>1, <1>2, <1>3, <1>4, <1>5, <1>6 DEF Next, Controller, Native

\* An item in the native queue always has an open attempt and the host's
\* pending input (enqueue, invalidate and reconcile of pi-controller-host.ts),
\* for any number of producers, revisions and turns of the user.
THEOREM NothingUnreceipted == Spec => []ItemAccounted
<1>1. IInv => ItemAccounted
  BY DEF IInv, Queue, ItemAccounted
<1> QED
  BY InitIInv, StepIInv, <1>1, PTL DEF Spec

\* What a run takes is what its producers offer, or have yet to take back, and
\* no wake, disposal or close came since it was chosen (controller.ts, valid).
THEOREM ClaimedAsOffered == Spec => ClaimsCurrent
<1>1. IInv /\ [Next]_vars =>
        [claim' = "claimed" /\ claim # "claimed" =>
            /\ fresh
            /\ ~closed
            /\ slot = "own" /\ ~revoked
            /\ \A p \in Members : Current(p) \/ p \in stale]_vars
  <2> SUFFICES ASSUME IInv, [Next]_vars, claim' = "claimed", claim # "claimed"
               PROVE  /\ fresh
                      /\ ~closed
                      /\ slot = "own" /\ ~revoked
                      /\ \A p \in Members : Current(p) \/ p \in stale
    OBVIOUS
  <2>1. claim = "take" /\ queued
    BY OnlyTakeClaims DEF Take
  <2> QED
    BY <2>1 DEF IInv, Offered, Holds, Fenced, Queue
<1> QED
  BY InitIInv, StepIInv, <1>1, PTL DEF Spec, ClaimsCurrent

\* No revision of an intent is consumed twice (controller.ts,
\* retainedByReceipt), however often it is offered, chosen and dropped.
THEOREM NothingTwice == Spec => ConsumedOnce
<1>1. IInv /\ [Next]_vars =>
        [active' = "claimed" /\ active # "claimed" =>
            \A p \in Members : <<p, batch[p]>> \notin spent]_vars
  <2> SUFFICES ASSUME IInv, [Next]_vars, active' = "claimed", active # "claimed"
               PROVE  \A p \in Members : <<p, batch[p]>> \notin spent
    OBVIOUS
  <2>1. claim = "claimed"
    BY OnlyRecordConsumes
  <2> QED
    BY <2>1 DEF IInv, Spared, Unspent
<1> QED
  BY InitIInv, StepIInv, <1>1, PTL DEF Spec, ConsumedOnce
-----------------------------------------------------------------------------
(* Letting go of the session *)

\* A controller that has let go of the session stays so, with nothing queued,
\* claimed or running behind it (close, abortAndJoin, detach): CloseCompletes
\* without that it comes to it.
LetGo ==
    /\ [](detached => turn = "none" /\ ~queued /\ active \in {"none", "selected"})
    /\ [][detached => detached']_vars

\* An attempt that is in the queue or beyond has the host's pending input, which
\* is what is reconciled before the session is let go of,
Backed ==
    /\ pc \in {"place", "record"} => slot = "own"
    /\ active \in {"queued", "claimed", "running"} => slot = "own"

\* and nothing moves afterwards.
Silent ==
    detached => /\ closed /\ pc = "off" /\ turn = "none" /\ ~queued
                /\ active \in {"none", "selected"}

LEMMA BackedStep ==
  ASSUME IInv, Backed, [Next]_vars
  PROVE  Backed'
<1> TypeOK /\ Queue /\ Boundary /\ Attempt /\ Turn
  BY DEF IInv
<1>1. CASE UNCHANGED <<pc, active, slot>>
  BY <1>1 DEF Backed
<1>2. ASSUME NEW p \in Producer, Mutate(p) \/ Changed(p) \/ Dispose(p) \/ ReadMember(p) \/ Describe(p)
             \/ DropResult(p)
      PROVE  UNCHANGED <<pc, active, slot>>
  BY <1>2 DEF Mutate, Changed, Dispose, ReadMember, Describe, DropResult, loop, input
<1>3. ASSUME Close \/ UserArrives \/ UserTurn \/ Drain \/ ClaimValid \/ ClaimInvalid
             \/ ClaimFails \/ Take \/ UNCHANGED vars
      PROVE  UNCHANGED <<pc, active, slot>>
  BY <1>3 DEF Close, UserArrives, UserTurn, Drain, ClaimValid, ClaimInvalid, ClaimFails, Take,
      vars, loop, input
<1>4. ASSUME Top \/ Busy \/ EnterIdle \/ Choose \/ NothingToDo \/ Abandon \/ Build \/ Accept
             \/ Run \/ Wake \/ Done \/ EndTurn \/ \E p \in Producer : BuildFails(p)
      PROVE  Backed'
  <2>1. active' = active /\ slot' = slot /\ (pc' \in {"place", "record"} => pc' = pc)
    BY <1>4 DEF Top, Busy, EnterIdle, Choose, NothingToDo, Abandon, Build, Accept, Run, Wake, Done,
        EndTurn, BuildFails, Leave, input
  <2> QED BY <2>1 DEF Backed
<1>5. ASSUME Settle \/ Finish PROVE Backed'
  BY <1>5 DEF Settle, Finish, Reconcile, input, Backed
<1>6. CASE Detach
  BY <1>6 DEF Detach, Reconcile, input, loop, Backed
<1>7. CASE Select \/ CancelSelected
  BY <1>7 DEF Select, CancelSelected, Backed, Attempt, Submitting
<1>8. CASE Enqueue \/ PlaceItem \/ RecordQueued
  BY <1>8 DEF Enqueue, PlaceItem, RecordQueued, Backed, Attempt, Submitting
<1>9. CASE RecordClaim \/ Send
  BY <1>9 DEF RecordClaim, Send, loop, native, Backed, Turn
<1> QED
  BY <1>1, <1>2, <1>3, <1>4, <1>5, <1>6, <1>7, <1>8, <1>9 DEF Next, Controller, Native

LEMMA SilentStep ==
  ASSUME IInv, Backed, Silent, [Next]_vars
  PROVE  Silent' /\ (detached => detached')
<1> TypeOK /\ Queue /\ Boundary /\ Attempt /\ Turn
  BY DEF IInv
<1>1. CASE UNCHANGED <<detached, closed, pc, turn, queued, active>>
  BY <1>1 DEF Silent
<1>2. CASE Detach
  <2>1. ~detached /\ closed' /\ pc' = "off" /\ turn' = "none"
    BY <1>2 DEF Detach, loop, native
  <2>2. ~queued' /\ active' \in {"none", "selected"}
    BY <1>2 DEF Detach, Reconcile, input, Backed, Queue, TypeOK, Phase
  <2> QED BY <2>1, <2>2 DEF Silent
<1>3. ASSUME ~Detach PROVE detached' = detached
  <2>1. ASSUME NEW p \in Producer, Mutate(p) \/ Changed(p) \/ Dispose(p) \/ ReadMember(p)
               \/ Describe(p) \/ DropResult(p) \/ BuildFails(p)
        PROVE  detached' = detached
    BY <2>1 DEF Mutate, Changed, Dispose, ReadMember, Describe, DropResult, BuildFails, lifetime
  <2>2. ASSUME Top \/ Settle \/ Busy \/ EnterIdle \/ Choose \/ NothingToDo \/ Abandon \/ Build
               \/ Select \/ CancelSelected \/ Accept \/ Enqueue \/ PlaceItem \/ RecordQueued
               \/ Run \/ Finish \/ Done
        PROVE  detached' = detached
    BY <2>2 DEF Top, Settle, Busy, EnterIdle, Choose, NothingToDo, Abandon, Build, Select,
        CancelSelected, Accept, Enqueue, PlaceItem, RecordQueued, Run, Finish, Done, lifetime
  <2>3. ASSUME Wake \/ Close \/ UserArrives \/ UserTurn \/ Drain \/ Send \/ ClaimValid
               \/ ClaimInvalid \/ ClaimFails \/ Take \/ RecordClaim \/ EndTurn \/ UNCHANGED vars
        PROVE  detached' = detached
    BY <2>3 DEF Wake, Close, UserArrives, UserTurn, Drain, Send, ClaimValid, ClaimInvalid,
        ClaimFails, Take, RecordClaim, EndTurn, vars, lifetime
  <2> QED BY <1>3, <2>1, <2>2, <2>3 DEF Next, Controller, Native
<1>4. ASSUME detached, ~Detach PROVE Silent'
  <2>1. /\ closed /\ pc = "off" /\ turn = "none" /\ ~queued /\ claim = "none"
        /\ active \in {"none", "selected"}
    BY <1>4 DEF Silent, Turn, TypeOK
  <2>2. ASSUME NEW p \in Producer, Mutate(p) \/ Changed(p) \/ Dispose(p)
        PROVE  Silent'
    BY <2>1, <2>2 DEF Mutate, Changed, Dispose, Fence, Invalidate, Silent, loop, input, native,
        lifetime
  <2>3. CASE UserArrives
    BY <2>1, <2>3 DEF UserArrives
  <2>4. CASE UNCHANGED vars
    BY <1>1, <2>4 DEF vars, loop, input, native, lifetime
  <2>5. ~Controller /\ ~Native /\ ~Wake /\ ~Close /\ ~UserTurn /\ ~Drain /\ ~Send
    <3>1. \A p \in Producer : ~Describe(p) /\ ~BuildFails(p) /\ ~DropResult(p) /\ ~ReadMember(p)
      BY <2>1 DEF Describe, BuildFails, DropResult, ReadMember, Checking
    <3>2. ~Top /\ ~Settle /\ ~Busy /\ ~EnterIdle /\ ~Choose /\ ~NothingToDo /\ ~Abandon /\ ~Build
          /\ ~Select /\ ~CancelSelected /\ ~Accept /\ ~Enqueue /\ ~PlaceItem /\ ~RecordQueued
          /\ ~Run /\ ~Finish /\ ~Done
      BY <2>1 DEF Top, Settle, Busy, EnterIdle, Choose, NothingToDo, Abandon, Build, Select,
          CancelSelected, Accept, Enqueue, PlaceItem, RecordQueued, Run, Finish, Done
    <3>3. ~Native
      BY <2>1 DEF Native, ClaimValid, ClaimInvalid, ClaimFails, Take, RecordClaim, EndTurn
    <3>4. ~Wake /\ ~Close /\ ~UserTurn /\ ~Drain /\ ~Send
      BY <2>1 DEF Wake, Close, UserTurn, Drain, Send
    <3> QED BY <1>4, <3>1, <3>2, <3>3, <3>4 DEF Controller
  <2> QED BY <2>2, <2>3, <2>4, <2>5 DEF Next
<1> QED BY <1>2, <1>3, <1>4 DEF Silent

\* What closes lets go of everything it has offered, for good.
THEOREM ClosedLetsGo == Spec => LetGo
<1>1. Init => Backed /\ Silent
  BY DEF Init, Backed, Silent
<1>2. IInv /\ Backed /\ [Next]_vars => Backed'
  BY BackedStep
<1>3. IInv /\ Backed /\ Silent /\ [Next]_vars => Silent'
  BY SilentStep
<1>4. IInv /\ Backed /\ Silent /\ [Next]_vars => [detached => detached']_vars
  BY SilentStep
<1>5. Silent => (detached => turn = "none" /\ ~queued /\ active \in {"none", "selected"})
  BY DEF Silent
<1> QED BY <1>1, <1>2, <1>3, <1>4, <1>5, InitIInv, StepIInv, PTL DEF Spec, LetGo
=============================================================================
