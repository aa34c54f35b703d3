------------------------- MODULE SessionIngressProofs -------------------------
(***************************************************************************)
(* A session runs what it accepted at most once, can account for all of it *)
(* and leaves none of it behind, whatever its sends, adapters, releases,   *)
(* crashes and reissues.                                                   *)
(*                                                                         *)
(* The inductive invariant says of each identity how its record, its       *)
(* callback, the release of that callback and its native calls belong      *)
(* together (Once), that one that is or was issued again by this lifetime  *)
(* is out of the releases' reach and never had its input taken             *)
(* (Inherited), that a callback and a release stand for the revision they  *)
(* began with while the record is open (Lasts), and the two halves of      *)
(* Accounted (Waiting, Superseded).  Most steps concern one identity; what *)
(* they leave to the others is said once (Bystander).  A second invariant, *)
(* about the passes of the scheduler, is in the last part (RInv).          *)
(***************************************************************************)
EXTENDS SessionIngress, FiniteSetTheorems, TLAPS

\* The states of the scheduler, and of one release.
Phases == {"idle", "scheduled", "replaying", "passing"}

SchedulerOK(s) ==
    /\ s = [phase |-> s.phase, requested |-> s.requested, semantic |-> s.semantic,
            cand |-> s.cand, left |-> s.left, on |-> s.on, todo |-> s.todo,
            issuing |-> s.issuing]
    /\ s.phase \in Phases
    /\ s.left \subseteq Id \X (1..MaxRevision)
    /\ s.todo \subseteq Id
    /\ s.phase # "replaying" => s.todo = {} /\ s.issuing = None
    /\ s.on # None => s.phase = "passing"

ReleaseOK(r) ==
    /\ r = [at |-> r.at, revision |-> r.revision, works |-> r.works, allowed |-> r.allowed]
    /\ r.at \in {"none", "deciding", "recording", "preparing", "intent", "running", "failing"}
    /\ r.revision \in Nat

\* A record is as the store writes it, or nothing is retained.
RecordOK(r) == r = None \/ r \in SubmissionRecord

RecordsOK(rs) == rs = [i \in Id |-> rs[i]] /\ \A i \in Id : RecordOK(rs[i])

\* The types the steps need.
Shaped ==
    /\ RecordsOK(records)
    /\ pending \in [Id -> 0..MaxRevision]
    /\ release = [id \in Id |-> release[id]] /\ \A id \in Id : ReleaseOK(release[id])
    /\ ran \in [Id -> Nat]
    /\ submitting \subseteq Id /\ replay \subseteq Id /\ turn \in Id \cup {None}
    /\ SchedulerOK(scheduler)

\* Something was accepted or handed over under the identity.
Issued(k) == records[k] # None \/ ran[k] > 0

\* What is being issued again already has its new record.
IssuingOK ==
    scheduler.issuing # None =>
        scheduler.issuing \in DOMAIN NextIssue /\ Issued(NextIssue[scheduler.issuing])

\* Continuations of an earlier lifetime on their way to be issued again.
Again == replay \cup scheduler.todo \cup {scheduler.issuing}

Given(j) == j \in Again \/ (j \in DOMAIN NextIssue /\ Issued(NextIssue[j]))

\* A native call is preceded by the intent or by the flush, and each of them
\* takes the callback away.
Once(j) ==
  /\ ran[j] <= 1
  /\ ran[j] > 0 => j \in flushed \/ (records[j] # None /\ records[j].phase # "none")
  /\ pending[j] # 0 => records[j] # None /\ records[j].phase = "none" /\ j \notin flushed
  /\ release[j].at \in {"intent", "running", "failing"} => pending[j] = 0
  /\ release[j].at # "none" => records[j] # None /\ j \notin flushed
  /\ release[j].at \in {"running", "failing"} => records[j].phase # "none"
  /\ release[j].at \in {"deciding", "recording", "preparing", "intent"} =>
        records[j].phase = "none"
  /\ (records[j] # None /\ records[j].phase = "none") => records[j].input = "none"
  /\ j \in flushed => ~External(j) /\ (records[j] = None => j \notin First)

\* A continuation that is issued again has no callback and no release, and the
\* host never took its input.
Inherited(j) ==
    Given(j) => /\ records[j] # None /\ records[j].input = "none" /\ Replayable(j)
                /\ pending[j] = 0 /\ release[j].at = "none"

\* A release and a callback are of the revision the open record has.
Lasts(j) ==
  /\ (release[j].at # "none" /\ ~records[j].archived /\ records[j].status = "retained") =>
        release[j].revision = records[j].revision
  /\ (pending[j] # 0 /\ ~records[j].archived /\ records[j].status = "retained") =>
        pending[j] = records[j].revision
  /\ j \in ending => External(j) /\ records[j] # None /\ records[j].ended

\* The halves of Accounted.
Waiting(j) ==
    (/\ records[j] # None /\ ~records[j].archived
     /\ records[j].status = "retained" /\ ~records[j].ended /\ Undispatched(records[j])) =>
        \/ pending[j] # 0 
        \/ release[j].at \in {"intent", "failing"}
        \/ j \in Again \cup skipped \cup flushed
        \/ External(j) /\ records[j].phase = "failed"

Superseded(j) ==
    (/\ records[j] # None /\ ~records[j].archived
     /\ records[j].status # "retained" /\ Replayable(j) /\ records[j].phase = "none") =>
        j \in DOMAIN NextIssue /\ Issued(NextIssue[j])

Local(j) == Once(j) /\ Inherited(j) /\ Lasts(j) /\ Waiting(j) /\ Superseded(j)

IInv == Shaped /\ IssuingOK /\ \A j \in Id : Local(j)

-----------------------------------------------------------------------------
\* What asking for a pass leaves alone.
Same(s, t) == s.todo = t.todo /\ s.issuing = t.issuing

\* Asking for a pass keeps the scheduler sound and what it issues.
LEMMA Queued ==
  ASSUME NEW s, SchedulerOK(s), NEW semantic
  PROVE  /\ SchedulerOK(QueueRelease(s, semantic)) 
         /\ Same(QueueRelease(s, semantic), s)
<1> DEFINE ph == IF s.phase = "idle" THEN "scheduled" ELSE s.phase
           sem == s.semantic \/ semantic
           q == [s EXCEPT !.requested = TRUE, !.semantic = sem, !.phase = ph]
<1>1. QueueRelease(s, semantic) \in {s, q}
  BY DEF QueueRelease
<1>2. ph \in Phases /\ (ph = "replaying" <=> s.phase = "replaying")
      /\ (ph = "passing" <=> s.phase = "passing")
  BY DEF SchedulerOK, Phases
<1> HIDE DEF ph, sem
<1>00. q = [s EXCEPT !.requested = TRUE, !.semantic = sem, !.phase = ph]
  OBVIOUS
<1> HIDE DEF q
<1>0. s = [phase |-> s.phase, requested |-> s.requested, semantic |-> s.semantic,
             cand |-> s.cand, left |-> s.left, on |-> s.on, todo |-> s.todo,
             issuing |-> s.issuing]
  BY DEF SchedulerOK
<1>3. q = [phase |-> ph, requested |-> TRUE, semantic |-> sem, cand |-> s.cand,
           left |-> s.left, on |-> s.on, todo |-> s.todo, issuing |-> s.issuing]
  BY <1>0, <1>00
<1>4. SchedulerOK(q) /\ Same(q, s)
  BY <1>2, <1>3 DEF SchedulerOK, Phases, Same
<1> QED BY <1>1, <1>4 DEF Same

\* So does the end of a pass,
LEMMA Passed ==
  ASSUME NEW s, SchedulerOK(s), s.phase # "replaying", NEW pend, NEW released
  PROVE  /\ SchedulerOK(PassEnded(s, pend, released)) 
         /\ Same(PassEnded(s, pend, released), s)
<1> DEFINE again == s.requested \/ (released /\ \E c \in s.cand : pend[c[1]] = c[2])
           ph == IF again /\ mode = "on" THEN "scheduled" ELSE "idle"
           q == PassEnded(s, pend, released)
<1>0. ph \in {"scheduled", "idle"}
  OBVIOUS
<1>1. q = [s EXCEPT !.cand = {}, !.left = {}, !.on = None, !.requested = again, !.phase = ph]
  BY DEF PassEnded
<1> HIDE DEF ph, again, q
<1>2. q = [phase |-> ph, requested |-> again,
           semantic |-> s.semantic, cand |-> {}, left |-> {}, on |-> None, todo |-> s.todo, issuing |-> s.issuing]
  BY <1>1 DEF SchedulerOK
<1>3. SchedulerOK(q) /\ Same(q, s)
  BY <1>0, <1>2 DEF SchedulerOK, Phases, Same
<1> QED BY <1>3 DEF q

\* what a pass is told of a release,
LEMMA Told ==
  ASSUME NEW s, SchedulerOK(s), NEW id, NEW result, NEW pend, id # None
  PROVE  /\ SchedulerOK(PassTold(s, id, result, pend)) 
         /\ Same(PassTold(s, id, result, pend), s)
<1>1. CASE s.on # id
  BY <1>1 DEF PassTold, Same
<1>2. CASE s.on = id /\ result # "no"
  <2>1. s.phase # "replaying"
    BY <1>2 DEF SchedulerOK
  <2>2. PassTold(s, id, result, pend) = PassEnded(s, pend, result = "yes")
    BY <1>2 DEF PassTold
  <2> QED BY <2>1, <2>2, Passed
<1>3. CASE s.on = id /\ result = "no"
  <2> DEFINE l == {c \in s.left : c[1] # id}
             q == [s EXCEPT !.on = None, !.left = l]
  <2>1. PassTold(s, id, result, pend) = q
    BY <1>3 DEF PassTold
  <2>2. l \subseteq s.left
    OBVIOUS
  <2> HIDE DEF l
  <2>00. q = [s EXCEPT !.on = None, !.left = l]
    OBVIOUS
  <2> HIDE DEF q
  <2>0. s = [phase |-> s.phase, requested |-> s.requested, semantic |-> s.semantic,
             cand |-> s.cand, left |-> s.left, on |-> s.on, todo |-> s.todo,
             issuing |-> s.issuing]
    BY DEF SchedulerOK
  <2>3. q = [phase |-> s.phase, requested |-> s.requested, semantic |-> s.semantic,
             cand |-> s.cand, left |-> l, on |-> None, todo |-> s.todo, issuing |-> s.issuing]
    BY <2>0, <2>00
  <2>4. SchedulerOK(q) /\ Same(q, s)
    BY <2>2, <2>3 DEF SchedulerOK, Same
  <2> QED BY <2>1, <2>4
<1> QED BY <1>1, <1>2, <1>3

\* and what the reissue is told, except that it may give up on the record.
LEMMA Retold ==
  ASSUME NEW s, SchedulerOK(s), NEW id, NEW result
  PROVE  LET q == ReissueTold(s, id, result)
         IN /\ SchedulerOK(q) /\ q.todo = s.todo
            /\ q.issuing = s.issuing \/ q.issuing = None
<1> DEFINE q == [s EXCEPT !.issuing = None]
<1>1. q = [phase |-> s.phase, requested |-> s.requested,
           semantic |-> s.semantic, cand |-> s.cand, left |-> s.left, on |-> s.on, todo |-> s.todo, issuing |-> None]
  BY DEF SchedulerOK
<1>2. ReissueTold(s, id, result) \in {s, q}
  BY DEF ReissueTold
<1> HIDE DEF q
<1>3. SchedulerOK(q) /\ q.todo = s.todo /\ q.issuing = None
  BY <1>1 DEF SchedulerOK
<1> QED BY <1>2, <1>3

-----------------------------------------------------------------------------
\* CallbackEnded changes nothing but whether the callback of one record ended.
LEMMA EndedIs ==
  ASSUME NEW rs, RecordsOK(rs), NEW id \in Id
  PROVE  LET e == CallbackEnded(rs, id)
         IN /\ RecordsOK(e)
            /\ \A i \in Id : i # id => e[i] = rs[i]
            /\ e[id] = rs[id] \/ (rs[id] # None /\ rs[id].status = "retained" 
                                  /\ ~rs[id].archived /\ EndedCallback(id, rs[id])
                                  /\ e[id] # None /\ e[id] = [rs[id] EXCEPT !.ended = TRUE])
            /\ (rs[id] # None /\ rs[id].status = "retained" /\ ~rs[id].archived /\ EndedCallback(id, rs[id]))
                 => e[id] = [rs[id] EXCEPT !.ended = TRUE]
<1> USE DEF RecordsOK
<1> DEFINE ends == rs[id] # None /\ ~rs[id].archived
                   /\ rs[id].status = "retained" /\ EndedCallback(id, rs[id])
           e == CallbackEnded(rs, id)
<1>1. CASE ~ends
  <2>1. e = rs
    BY <1>1 DEF CallbackEnded
  <2> QED BY <1>1, <2>1
<1>2. CASE ends
  <2>1. e = [rs EXCEPT ![id].ended = TRUE]
    BY <1>2 DEF CallbackEnded
  <2>2. e = [i \in Id |-> IF i = id THEN [rs[id] EXCEPT !.ended = TRUE] ELSE rs[i]]
    BY <2>1
  <2>3. [rs[id] EXCEPT !.ended = TRUE] \in SubmissionRecord
    BY <1>2 DEF RecordOK, SubmissionRecord
  <2>4. [rs[id] EXCEPT !.ended = TRUE] # None
    BY <2>3, SubmissionAssumption
  <2> HIDE DEF e
  <2>5. e[id] = [rs[id] EXCEPT !.ended = TRUE] /\ (\A i \in Id : i # id => e[i] = rs[i])
    BY <2>2
  <2>6. e = [i \in Id |-> e[i]]
    BY <2>2
  <2>7. \A i \in Id : RecordOK(e[i])
    BY <2>5, <2>3 DEF RecordOK
  <2> QED BY <1>2, <2>4, <2>5, <2>6, <2>7 DEF e
<1> QED BY <1>1, <1>2

\* A record as it was, or archived.
Settles(r, s) ==
    s = r \/ (r # None /\ s # None /\ s = [r EXCEPT !.archived = TRUE])

\* A step is not about the identity,
Untouched(j) ==
    /\ Settles(records[j], records'[j]) /\ pending'[j] = pending[j]
    /\ release'[j] = release[j] /\ ran'[j] = ran[j]
    /\ j \in flushed' <=> j \in flushed
    /\ j \in ending' => j \in ending

\* nor about its reissue.
Steady(j) ==
    /\ j \in Again' => j \in Again
    /\ j \in Again \cup skipped => j \in Again' \cup skipped'
    /\ j \in DOMAIN NextIssue =>
          /\ Issued(NextIssue[j]) => Issued(NextIssue[j])'
          /\ Issued(NextIssue[j])' => Given(j)

\* An identity a step is not about keeps all that the invariant says of it.
LEMMA Bystander ==
  ASSUME Shaped, NEW j \in Id, Local(j), Untouched(j), Steady(j)
  PROVE  Local(j)'
<1> USE DEF Local
<1>0. /\ records[j] # None <=> records'[j] # None
      /\ records[j] # None => /\ records'[j].phase = records[j].phase
                              /\ records'[j].input = records[j].input
                              /\ records'[j].ended = records[j].ended
                              /\ records'[j].status = records[j].status
                              /\ records'[j].revision = records[j].revision
                              /\ records[j].archived => records'[j].archived
  <2>1. CASE records'[j] = records[j]
    BY <2>1
  <2>2. CASE records[j] # None /\ records'[j] # None /\ records'[j] = [records[j] EXCEPT !.archived = TRUE]
    <3>1. records[j] \in SubmissionRecord
      BY <2>2 DEF Shaped, RecordsOK, RecordOK
    <3> QED BY <2>2, <3>1 DEF SubmissionRecord
  <2> QED BY <2>1, <2>2 DEF Untouched, Settles
<1>1. Once(j)'
  BY <1>0 DEF Untouched, Once
<1>2. Given(j)' => Given(j)
  BY DEF Steady, Given
<1>3. Inherited(j)'
  BY <1>0, <1>2 DEF Untouched, Inherited
<1>4. Lasts(j)'
  BY <1>0 DEF Untouched, Lasts, Once
<1>5. Waiting(j)'
  BY <1>0 DEF Untouched, Steady, Waiting, Undispatched
<1>6. Superseded(j)'
  BY <1>0 DEF Steady, Superseded, Untouched
<1> QED BY <1>1, <1>3, <1>4, <1>5, <1>6

\* What the end of a release does, whatever the release came to.
LEMMA Completed ==
  ASSUME Shaped, NEW id \in Id, NEW result, NEW rs, NEW pend, NEW asks,
         RecordsOK(rs),
         pend \in [Id -> 0..MaxRevision],
         Done(id, result, rs, pend, asks)
  PROVE  /\ RecordsOK(records')
         /\ pending' \in [Id -> 0..MaxRevision]
         /\ release' = [release EXCEPT ![id] = Resting]
         /\ submitting' \subseteq Id
         /\ SchedulerOK(scheduler')
         /\ \/ records' = rs /\ pending' = pend
            \/ records' = CallbackEnded(rs, id) /\ pending' = [pend EXCEPT ![id] = 0]
         /\ scheduler'.todo = scheduler.todo
         /\ scheduler'.issuing \in {scheduler.issuing, None}
         /\ skipped \subseteq skipped'
         /\ scheduler.issuing \in {scheduler'.issuing} \cup skipped'
<1> DEFINE fails == id \in submitting /\ result = "error"
           left == IF fails THEN [pend EXCEPT ![id] = 0] ELSE pend
           pt == PassTold(scheduler, id, result, left)
           told == ReissueTold(pt, id, result)
<1>1. /\ records' = IF fails THEN CallbackEnded(rs, id) ELSE rs
      /\ pending' = left
      /\ release' = [release EXCEPT ![id] = Resting]
      /\ submitting' = submitting \ {id}
      /\ skipped' = IF told.issuing # scheduler.issuing
                     THEN skipped \cup {scheduler.issuing} ELSE skipped
      /\ scheduler' = IF asks \/ fails THEN QueueRelease(told, TRUE) ELSE told
  BY DEF Done
<1>2. id # None
  BY SubmissionAssumption
<1>3. SchedulerOK(scheduler)
  BY DEF Shaped
<1>4. 0 \in 0..MaxRevision
  BY SessionAssumption
<1>5. left \in [Id -> 0..MaxRevision]
  BY <1>4
<1> HIDE DEF left, told, fails
<1>6. SchedulerOK(pt) /\ Same(pt, scheduler)
  BY <1>2, <1>3, Told
<1> HIDE DEF pt
<1>7. SchedulerOK(told) /\ told.todo = pt.todo /\ told.issuing \in {pt.issuing, None}
  BY <1>6, Retold DEF told
<1>8. SchedulerOK(QueueRelease(told, TRUE)) /\ Same(QueueRelease(told, TRUE), told)
  BY <1>7, Queued
<1>9. SchedulerOK(scheduler') /\ Same(scheduler', told)
  BY <1>1, <1>7, <1>8 DEF Same
<1>10. /\ scheduler'.todo = scheduler.todo
       /\ scheduler'.issuing \in {scheduler.issuing, None}
       /\ skipped \subseteq skipped'
       /\ scheduler.issuing \in {scheduler'.issuing} \cup skipped'
  BY <1>1, <1>6, <1>7, <1>9 DEF Same
<1>11. /\ RecordsOK(records')
  BY <1>1, EndedIs
<1>12. submitting' \subseteq Id
  BY <1>1 DEF Shaped
<1> QED BY <1>1, <1>5, <1>9, <1>10, <1>11, <1>12 DEF left

\* A release at rest.
LEMMA Rested == ReleaseOK(Resting) /\ Resting.at = "none"
BY DEF ReleaseOK, Resting

\* What the end of a release may make of the record and the callback.
Ends(id, rs, pend) ==
    /\ \A i \in Id : i # id => rs[i] = records[i] /\ pend[i] = pending[i]
    /\ records[id] # None /\ rs[id] # None
    /\ pend[id] \in {0, pending[id]}
    /\ rs[id].phase = records[id].phase
          \/ (rs[id].phase # "none" /\ records[id].phase # "none" /\ pend[id] = 0)
    /\ rs[id].input = records[id].input
    /\ rs[id].status = records[id].status \/ External(id)
    /\ rs[id].status = "retained" =>
          records[id].status = "retained" /\ rs[id].revision = records[id].revision
    /\ records[id].ended => rs[id].ended
    /\ (/\ ~rs[id].archived /\ rs[id].status = "retained" /\ ~rs[id].ended
        /\ Undispatched(rs[id])) =>
          \/ pend[id] # 0 \/ id \in skipped \cup flushed
          \/ External(id) /\ rs[id].phase = "failed"

\* A release that ends keeps the invariant, if it loses nothing that never ran.
LEMMA ReleaseEnds ==
  ASSUME IInv, NEW id \in Id, NEW result, NEW rs, NEW pend, NEW asks,
         RecordsOK(rs),
         pend \in [Id -> 0..MaxRevision], Ends(id, rs, pend), release[id].at # "none",
         Done(id, result, rs, pend, asks),
         UNCHANGED <<replay, turn, ending, ran, flushed>>,
         records[id].archived => rs[id].archived, 
         ~Replayable(id) \/ rs[id].status = records[id].status
  PROVE  IInv'
<1> USE DEF IInv
<1>1. /\ RecordsOK(records')
      /\ pending' \in [Id -> 0..MaxRevision]
      /\ release' = [release EXCEPT ![id] = Resting]
      /\ submitting' \subseteq Id
      /\ SchedulerOK(scheduler')
      /\ \/ records' = rs /\ pending' = pend
         \/ records' = CallbackEnded(rs, id) /\ pending' = [pend EXCEPT ![id] = 0]
      /\ scheduler'.todo = scheduler.todo
      /\ scheduler'.issuing \in {scheduler.issuing, None}
      /\ skipped \subseteq skipped'
      /\ scheduler.issuing \in {scheduler'.issuing} \cup skipped'
  BY Completed
<1>2. Shaped'
  <2>1. release' = [i \in Id |-> release'[i]] /\ \A i \in Id : ReleaseOK(release'[i])
    BY <1>1, Rested DEF Shaped
  <2> QED BY <1>1, <2>1 DEF Shaped
<1>e. \/ records' = rs /\ pending' = pend
      \/ /\ pending' = [pend EXCEPT ![id] = 0]
         /\ \A i \in Id : i # id => records'[i] = rs[i]
         /\ records'[id] = rs[id] 
            \/ (rs[id] # None /\ rs[id].status = "retained" 
                                  /\ ~rs[id].archived /\ EndedCallback(id, rs[id])
                                  /\ records'[id] # None /\ records'[id] = [rs[id] EXCEPT !.ended = TRUE])
         /\ (rs[id] # None /\ rs[id].status = "retained" /\ ~rs[id].archived /\ EndedCallback(id, rs[id]))
                 => records'[id] = [rs[id] EXCEPT !.ended = TRUE]
  BY <1>1, EndedIs
<1>n. rs[id] \in SubmissionRecord
  BY DEF Ends, RecordOK, RecordsOK
<1>3. \A i \in Id : i # id => records'[i] = records[i] /\ pending'[i] = pending[i] /\ release'[i] = release[i]
  BY <1>1, <1>e DEF Ends, Shaped
<1>4. /\ records'[id] # None /\ records'[id].phase = rs[id].phase /\ records'[id].input = rs[id].input
      /\ records'[id].status = rs[id].status /\ records'[id].archived = rs[id].archived
      /\ records'[id].revision = rs[id].revision
      /\ rs[id].ended => records'[id].ended
      /\ pending'[id] \in {0, pend[id]}
      /\ release'[id] = Resting
  BY <1>e, <1>n, <1>1 DEF Ends, SubmissionRecord, Shaped
<1>5. \A k \in Id : Issued(k)' <=> Issued(k)
  BY <1>3, <1>4 DEF Ends, Issued
<1>6. IssuingOK'
  BY <1>1, <1>5, SubmissionAssumption DEF IssuingOK
<1>7. \A j \in Id : Steady(j)
  BY <1>1, <1>5, SubmissionAssumption DEF Steady, Again, Given
<1>8. ASSUME NEW j \in Id, j # id PROVE Local(j)'
  <2>1. Untouched(j)
    BY <1>3, <1>8 DEF Untouched, Settles
  <2> QED BY <2>1, <1>7, Bystander
<1>9. Local(id)'
  <2> USE DEF Local
  <2>1. Once(id)'
    BY <1>4, Rested DEF Once, Ends, Shaped
  <2>2. ~Given(id)
    BY DEF Inherited
  <2>3. Inherited(id)'
    <3>1. ~Given(id)'
      BY <2>2, <1>7 DEF Given, Steady
    <3> QED BY <3>1 DEF Inherited
  <2>4. Lasts(id)'
    BY <1>4, Rested DEF Lasts, Ends
  <2>5. Waiting(id)'
    <3>1. CASE records' = rs /\ pending' = pend
      BY <3>1, <1>1 DEF Waiting, Ends
    <3>2. CASE ~(records' = rs /\ pending' = pend)
      <4>1. SUFFICES ASSUME ~rs[id].archived, rs[id].status = "retained", ~records'[id].ended, Undispatched(records'[id]), ~(External(id) /\ rs[id].phase = "failed")
                     PROVE FALSE
        BY <1>4 DEF Waiting
      <4>2. EndedCallback(id, rs[id])
        BY <4>1, <1>4 DEF EndedCallback, Undispatched
      <4>3. records'[id] = [rs[id] EXCEPT !.ended = TRUE]
        BY <4>1, <4>2, <3>2, <1>e DEF Ends
      <4> QED BY <4>1, <4>3, <1>n DEF SubmissionRecord
    <3> QED BY <3>1, <3>2
  <2>6. Superseded(id)'
    <3>1. CASE ~Replayable(id)
      BY <3>1 DEF Superseded
    <3>2. CASE Replayable(id) /\ records'[id].status # "retained" /\ records'[id].phase = "none" /\ ~records'[id].archived
      BY <3>2, <1>4, <1>5, SubmissionAssumption DEF Superseded, Ends
    <3> QED BY <3>1, <3>2 DEF Superseded
  <2> QED BY <2>1, <2>3, <2>4, <2>5, <2>6
<1> QED BY <1>2, <1>6, <1>8, <1>9

ReleasesOK(rel) == rel = [i \in Id |-> rel[i]] /\ \A i \in Id : ReleaseOK(rel[i])

\* One record is replaced.
LEMMA RecordSet ==
  ASSUME Shaped, NEW id \in Id, NEW r, RecordOK(r), records' = [records EXCEPT ![id] = r]
  PROVE  RecordsOK(records') /\ records'[id] = r /\ \A i \in Id : i # id => records'[i] = records[i]
<1>1. records' = [i \in Id |-> IF i = id THEN r ELSE records[i]]
  BY DEF Shaped, RecordsOK
<1>2. records'[id] = r /\ \A i \in Id : i # id => records'[i] = records[i]
  BY <1>1
<1>3. records' = [i \in Id |-> records'[i]]
  BY <1>1
<1>4. \A i \in Id : RecordOK(records'[i])
  BY <1>2 DEF Shaped, RecordsOK
<1> QED BY <1>2, <1>3, <1>4 DEF RecordsOK

\* One release moves on.
LEMMA ReleaseSet ==
  ASSUME Shaped, NEW id \in Id, NEW r, ReleaseOK(r), release' = [release EXCEPT ![id] = r]
  PROVE  /\ release' = [i \in Id |-> release'[i]] /\ \A i \in Id : ReleaseOK(release'[i])
         /\ release'[id] = r /\ \A i \in Id : i # id => release'[i] = release[i]
<1>1. release' = [i \in Id |-> IF i = id THEN r ELSE release[i]]
  BY DEF Shaped
<1>2. release'[id] = r /\ \A i \in Id : i # id => release'[i] = release[i]
  BY <1>1
<1>3. release' = [i \in Id |-> release'[i]]
  BY <1>1
<1>4. \A i \in Id : ReleaseOK(release'[i])
  BY <1>2 DEF Shaped
<1> QED BY <1>2, <1>3, <1>4

\* A step about one accepted identity has that one to answer for.
LEMMA OnlyOne ==
  ASSUME IInv, NEW id \in Id, Shaped', records[id] # None, records'[id] # None,
         \A i \in Id : i # id => Untouched(i),
         replay' = replay, skipped' = skipped, Same(scheduler', scheduler),
         Local(id)'
  PROVE  IInv'
<1> USE DEF IInv
<1>1. \A i \in Id : i # id => (records'[i] # None <=> records[i] # None) /\ ran'[i] = ran[i]
  BY DEF Untouched, Settles
<1>2. \A k \in Id : Issued(k)' <=> Issued(k)
  BY <1>1 DEF Issued
<1>3. IssuingOK'
  BY <1>2, SubmissionAssumption DEF IssuingOK, Same
<1>4. \A j \in Id : Steady(j)
  BY <1>2, SubmissionAssumption DEF Steady, Again, Same, Given
<1>5. \A j \in Id : j # id => Local(j)'
  BY <1>4, Bystander
<1> QED BY <1>3, <1>5

\* The same, where the record itself is left alone.
LEMMA GivenSame ==
  ASSUME NEW id \in Id, Shaped, records[id] # None, records'[id] # None,
         \A i \in Id : i # id => Untouched(i),
         replay' = replay, Same(scheduler', scheduler)
  PROVE  /\ Given(id)' => Given(id)
         /\ id \in DOMAIN NextIssue => (Issued(NextIssue[id])' <=> Issued(NextIssue[id]))
<1>1. \A i \in Id : i # id => (records'[i] # None <=> records[i] # None) /\ ran'[i] = ran[i]
  BY DEF Untouched, Settles
<1>2. \A k \in Id : Issued(k)' <=> Issued(k)
  BY <1>1 DEF Issued
<1> QED BY <1>2, SubmissionAssumption DEF Given, Again, Same

\* The steps of one release.
LEMMA DecideStep ==
  ASSUME IInv, NEW id \in Id, Decide(id)
  PROVE  IInv'
<1> USE DEF IInv
<1> DEFINE al == Admissible(id)
           r == [release[id] EXCEPT !.at = "recording", !.allowed = al]
<1>1. /\ release[id].at = "deciding" /\ release' = [release EXCEPT ![id] = r]
      /\ UNCHANGED <<records, pending, submitting, session, ran, history>>
  BY DEF Decide
<1> HIDE DEF al
<1>r. r = [release[id] EXCEPT !.at = "recording", !.allowed = al]
  OBVIOUS
<1>f. release[id] = [at |-> release[id].at, revision |-> release[id].revision,
                   works |-> release[id].works, allowed |-> release[id].allowed]
  BY DEF Shaped, ReleaseOK
<1> HIDE DEF r
<1>2. r = [at |-> "recording", revision |-> release[id].revision, works |-> release[id].works, allowed |-> al]
  BY <1>r, <1>f
<1>3. ReleaseOK(r) /\ r.at = "recording" /\ r.revision = release[id].revision
  BY <1>2 DEF Shaped, ReleaseOK
<1> HIDE DEF r
<1>4. /\ release' = [i \in Id |-> release'[i]] /\ \A i \in Id : ReleaseOK(release'[i])
      /\ release'[id] = r /\ \A i \in Id : i # id => release'[i] = release[i]
  BY <1>1, <1>3, ReleaseSet
<1>5. Shaped'
  BY <1>1, <1>4 DEF Shaped, session
<1>6. \A i \in Id : i # id => Untouched(i)
  BY <1>1, <1>4 DEF Untouched, Settles, session, history
<1>7. Given(id)' <=> Given(id)
  BY <1>1 DEF Given, Again, Issued, session
<1>8. records[id] # None /\ release[id].at = "deciding"
  BY <1>1 DEF Local, Once
<1>9. Local(id)'
  <2> USE DEF Local
  <2>1. Once(id)'
    BY <1>1, <1>3, <1>4, <1>8 DEF Once, history
  <2>2. Inherited(id)'
    BY <1>1, <1>7, <1>8 DEF Inherited
  <2>3. Lasts(id)'
    BY <1>1, <1>3, <1>4, <1>8 DEF Lasts, session
  <2>4. Waiting(id)'
    BY <1>1, <1>3, <1>4, <1>8 DEF Waiting, session, history, Again
  <2>5. Superseded(id)'
    BY <1>1 DEF Superseded, Issued
  <2> QED BY <2>1, <2>2, <2>3, <2>4, <2>5
<1> QED BY <1>1, <1>5, <1>6, <1>8, <1>9, OnlyOne DEF session, history, Same

LEMMA RecordStep ==
  ASSUME IInv, NEW id \in Id, Record(id)
  PROVE  IInv'
<1> USE DEF IInv
<1> DEFINE r == [release[id] EXCEPT !.at = "preparing"]
<1>1. /\ release[id].at = "recording" /\ release' = [release EXCEPT ![id] = r]
      /\ UNCHANGED <<records, pending, submitting, session, ran, history>>
  BY DEF Record
<1>3. ReleaseOK(r) /\ r.at = "preparing" /\ r.revision = release[id].revision
  BY DEF Shaped, ReleaseOK
<1> HIDE DEF r
<1>4. /\ release' = [i \in Id |-> release'[i]] /\ \A i \in Id : ReleaseOK(release'[i])
      /\ release'[id] = r /\ \A i \in Id : i # id => release'[i] = release[i]
  BY <1>1, <1>3, ReleaseSet
<1>5. Shaped'
  BY <1>1, <1>4 DEF Shaped, session
<1>6. \A i \in Id : i # id => Untouched(i)
  BY <1>1, <1>4 DEF Untouched, Settles, session, history
<1>7. Given(id)' <=> Given(id)
  BY <1>1 DEF Given, Again, Issued, session
<1>8. records[id] # None /\ release[id].at = "recording"
  BY <1>1 DEF Local, Once
<1>9. Local(id)'
  <2> USE DEF Local
  <2>1. Once(id)'
    BY <1>1, <1>3, <1>4, <1>8 DEF Once, history
  <2>2. Inherited(id)'
    BY <1>1, <1>7, <1>8 DEF Inherited
  <2>3. Lasts(id)'
    BY <1>1, <1>3, <1>4, <1>8 DEF Lasts, session
  <2>4. Waiting(id)'
    BY <1>1, <1>3, <1>4, <1>8 DEF Waiting, session, history, Again
  <2>5. Superseded(id)'
    BY <1>1 DEF Superseded, Issued
  <2> QED BY <2>1, <2>2, <2>3, <2>4, <2>5
<1> QED BY <1>1, <1>5, <1>6, <1>8, <1>9, OnlyOne DEF session, history, Same

LEMMA PrepareStep ==
  ASSUME IInv, NEW id \in Id, Prepare(id)
  PROVE  IInv'
<1> USE DEF IInv
<1> DEFINE w == StartsWork(id)
           r == [release[id] EXCEPT !.at = "intent", !.works = w]
<1>1. /\ release[id].at = "preparing" /\ release' = [release EXCEPT ![id] = r]
      /\ pending[id] = release[id].revision /\ pending' = [pending EXCEPT ![id] = 0]
      /\ UNCHANGED <<records, submitting, session, ran, history>>
  BY DEF Prepare, Consumed
<1> HIDE DEF w
<1>r. r = [release[id] EXCEPT !.at = "intent", !.works = w]
  OBVIOUS
<1>f. release[id] = [at |-> release[id].at, revision |-> release[id].revision,
                   works |-> release[id].works, allowed |-> release[id].allowed]
  BY DEF Shaped, ReleaseOK
<1> HIDE DEF r
<1>2. r = [at |-> "intent", revision |-> release[id].revision, works |-> w, allowed |-> release[id].allowed]
  BY <1>r, <1>f
<1>3. ReleaseOK(r) /\ r.at = "intent" /\ r.revision = release[id].revision
  BY <1>2 DEF Shaped, ReleaseOK
<1> HIDE DEF r
<1>4. /\ release' = [i \in Id |-> release'[i]] /\ \A i \in Id : ReleaseOK(release'[i])
      /\ release'[id] = r /\ \A i \in Id : i # id => release'[i] = release[i]
  BY <1>1, <1>3, ReleaseSet
<1>p. pending' \in [Id -> 0..MaxRevision] /\ pending'[id] = 0 /\ \A i \in Id : i # id => pending'[i] = pending[i]
  BY <1>1, SessionAssumption DEF Shaped
<1>5. Shaped'
  BY <1>1, <1>4, <1>p DEF Shaped, session
<1>6. \A i \in Id : i # id => Untouched(i)
  BY <1>1, <1>4, <1>p DEF Untouched, Settles, session, history
<1>7. Given(id)' <=> Given(id)
  BY <1>1 DEF Given, Again, Issued, session
<1>8. records[id] # None /\ release[id].at = "preparing" /\ records[id].phase = "none" /\ id \notin flushed
  BY <1>1 DEF Local, Once
<1>9. Local(id)'
  <2> USE DEF Local
  <2>1. Once(id)'
    BY <1>1, <1>3, <1>4, <1>8, <1>p DEF Once, history
  <2>2. Inherited(id)'
    BY <1>1, <1>7, <1>8 DEF Inherited
  <2>3. Lasts(id)'
    BY <1>1, <1>3, <1>4, <1>8 DEF Lasts, session
  <2>4. Waiting(id)'
    BY <1>1, <1>3, <1>4, <1>8 DEF Waiting, session, history, Again
  <2>5. Superseded(id)'
    BY <1>1 DEF Superseded, Issued
  <2> QED BY <2>1, <2>2, <2>3, <2>4, <2>5
<1> QED BY <1>1, <1>5, <1>6, <1>8, <1>9, OnlyOne DEF session, history, Same

LEMMA DispatchStep ==
  ASSUME IInv, NEW id \in Id, Dispatch(id)
  PROVE  IInv'
<1> USE DEF IInv
<1> DEFINE r == [release[id] EXCEPT !.at = "running"]
           d == [records[id] EXCEPT !.phase = "started"]
<1>1. /\ release[id].at = "intent" /\ release' = [release EXCEPT ![id] = r]
      /\ records' = [records EXCEPT ![id] = d] /\ records[id].phase = "none"
      /\ ran' = [ran EXCEPT ![id] = @ + 1]
      /\ UNCHANGED <<pending, submitting, session, history>>
  BY DEF Dispatch, Dispatchable, Dispatched
<1>3. ReleaseOK(r) /\ r.at = "running" /\ r.revision = release[id].revision
  BY DEF Shaped, ReleaseOK
<1>8. records[id] # None /\ pending[id] = 0 /\ id \notin flushed /\ ran[id] = 0
  BY <1>1 DEF Local, Once, Shaped
<1>d. /\ d \in SubmissionRecord /\ d # None /\ d.phase = "started" /\ d.input = records[id].input
      /\ d.status = records[id].status /\ d.archived = records[id].archived /\ d.ended = records[id].ended
      /\ d.revision = records[id].revision
  BY <1>8, SubmissionAssumption DEF Shaped, RecordsOK, RecordOK, SubmissionRecord
<1> HIDE DEF r, d
<1>4. /\ release' = [i \in Id |-> release'[i]] /\ \A i \in Id : ReleaseOK(release'[i])
      /\ release'[id] = r /\ \A i \in Id : i # id => release'[i] = release[i]
  BY <1>1, <1>3, ReleaseSet
<1>p. RecordsOK(records') /\ records'[id] = d /\ \A i \in Id : i # id => records'[i] = records[i]
  <2>1. RecordOK(d) /\ RecordsOK(records)
    BY <1>d DEF Shaped, RecordOK
  <2> QED BY <1>1, <2>1, RecordSet
<1>r. ran' \in [Id -> Nat] /\ ran'[id] = 1 /\ \A i \in Id : i # id => ran'[i] = ran[i]
  BY <1>1, <1>8 DEF Shaped
<1>5. Shaped'
  BY <1>1, <1>4, <1>p, <1>r DEF Shaped, session
<1>6. \A i \in Id : i # id => Untouched(i)
  BY <1>1, <1>4, <1>p, <1>r DEF Untouched, Settles, session, history
<1>s. replay' = replay /\ skipped' = skipped /\ Same(scheduler', scheduler)
  BY <1>1 DEF session, history, Same
<1>7. Given(id)' => Given(id)
  BY <1>s, <1>5, <1>6, <1>d, <1>p, <1>8, GivenSame
<1>9. Local(id)'
  <2> USE DEF Local
  <2>1. Once(id)'
    BY <1>1, <1>3, <1>4, <1>8, <1>p, <1>r, <1>d DEF Once, history
  <2>2. Inherited(id)'
    BY <1>1, <1>7, <1>8 DEF Inherited
  <2>3. Lasts(id)'
    BY <1>1, <1>3, <1>4, <1>8, <1>p, <1>d DEF Lasts, session
  <2>4. Waiting(id)'
    BY <1>p, <1>d DEF Waiting, Undispatched
  <2>5. Superseded(id)'
    BY <1>p, <1>d DEF Superseded
  <2> QED BY <2>1, <2>2, <2>3, <2>4, <2>5
<1> QED BY <1>s, <1>5, <1>6, <1>8, <1>9, <1>p, <1>d, OnlyOne

\* The native call fails.
LEMMA FailStep ==
  ASSUME IInv, NEW id \in Id, Fail(id)
  PROVE  IInv'
<1> USE DEF IInv
<1> DEFINE r == [release[id] EXCEPT !.at = "failing"]
           d == [records[id] EXCEPT !.phase = "failed"]
<1>1. /\ release[id].at = "running" /\ release' = [release EXCEPT ![id] = r]
      /\ records' = [records EXCEPT ![id] = d]
      /\ UNCHANGED <<pending, submitting, session, ran, history>>
  BY DEF Fail, Running
<1>3. ReleaseOK(r) /\ r.at = "failing" /\ r.revision = release[id].revision
  BY DEF Shaped, ReleaseOK
<1>8. records[id] # None /\ pending[id] = 0 /\ id \notin flushed /\ records[id].phase # "none"
  BY <1>1 DEF Local, Once, Shaped
<1>d. /\ d \in SubmissionRecord /\ d # None /\ d.phase = "failed" /\ d.input = records[id].input
      /\ d.status = records[id].status /\ d.archived = records[id].archived /\ d.ended = records[id].ended
      /\ d.revision = records[id].revision
  BY <1>8, SubmissionAssumption DEF Shaped, RecordsOK, RecordOK, SubmissionRecord
<1> HIDE DEF r, d
<1>4. /\ release' = [i \in Id |-> release'[i]] /\ \A i \in Id : ReleaseOK(release'[i])
      /\ release'[id] = r /\ \A i \in Id : i # id => release'[i] = release[i]
  BY <1>1, <1>3, ReleaseSet
<1>k. RecordOK(d)
  BY <1>d DEF RecordOK
<1>p. RecordsOK(records') /\ records'[id] = d /\ \A i \in Id : i # id => records'[i] = records[i]
  BY <1>1, <1>k, RecordSet
<1>5. Shaped'
  BY <1>1, <1>4, <1>p DEF Shaped, session
<1>6. \A i \in Id : i # id => Untouched(i)
  BY <1>1, <1>4, <1>p DEF Untouched, Settles, session, history
<1>s. replay' = replay /\ skipped' = skipped /\ Same(scheduler', scheduler)
  BY <1>1 DEF session, history, Same
<1>7. Given(id)' => Given(id)
  BY <1>s, <1>5, <1>6, <1>d, <1>p, <1>8, GivenSame
<1>9. Local(id)'
  <2> USE DEF Local
  <2>1. Once(id)'
    BY <1>1, <1>3, <1>4, <1>8, <1>p, <1>d DEF Once, history
  <2>2. Inherited(id)'
    BY <1>1, <1>7, <1>8 DEF Inherited
  <2>3. Lasts(id)'
    BY <1>1, <1>3, <1>4, <1>8, <1>p, <1>d DEF Lasts, session
  <2>4. Waiting(id)'
    BY <1>4, <1>3 DEF Waiting
  <2>5. Superseded(id)'
    BY <1>p, <1>d DEF Superseded
  <2> QED BY <2>1, <2>2, <2>3, <2>4, <2>5
<1> QED BY <1>s, <1>5, <1>6, <1>8, <1>9, <1>p, <1>d, OnlyOne

\* The host takes the input, at once or from its queue.
LEMMA ObserveStep ==
  ASSUME IInv, NEW id \in Id, Observe(id) \/ ClaimQueued(id)
  PROVE  IInv'
<1> USE DEF IInv
<1>1. PICK how \in {"queued", "done"} :
      /\ records' = [records EXCEPT ![id] = [records[id] EXCEPT !.input = how]]
      /\ release[id].at = "running" \/ records[id].input = "queued"
      /\ records[id] # None
      /\ UNCHANGED <<pending, release, submitting, scheduler, replay, ending, ran, history>>
      /\ turn' \in {id, turn}
  BY DEF Observe, ClaimQueued, Running, QueueAdmissible, Active, Existing, session
<1> DEFINE d == [records[id] EXCEPT !.input = how]
<1>8. records[id].phase # "none"
  BY <1>1 DEF Local, Once
<1>d. /\ d \in SubmissionRecord /\ d # None /\ d.phase = records[id].phase /\ d.input # "none"
      /\ d.status = records[id].status /\ d.archived = records[id].archived /\ d.ended = records[id].ended
      /\ d.revision = records[id].revision
  BY <1>1, SubmissionAssumption DEF Shaped, RecordsOK, RecordOK, SubmissionRecord
<1>k. RecordOK(d) /\ records' = [records EXCEPT ![id] = d]
  BY <1>1, <1>d DEF RecordOK
<1> HIDE DEF d
<1>p. RecordsOK(records') /\ records'[id] = d /\ \A i \in Id : i # id => records'[i] = records[i]
  BY <1>k, RecordSet
<1>5. Shaped'
  BY <1>1, <1>p DEF Shaped
<1>6. \A i \in Id : i # id => Untouched(i)
  BY <1>1, <1>p DEF Untouched, Settles, history
<1>s. replay' = replay /\ skipped' = skipped /\ Same(scheduler', scheduler)
  BY <1>1 DEF history, Same
<1>7. Given(id)' => Given(id)
  BY <1>s, <1>5, <1>6, <1>d, <1>p, <1>1, GivenSame
<1>9. Local(id)'
  <2> USE DEF Local
  <2>1. Once(id)'
    BY <1>1, <1>8, <1>p, <1>d DEF Once, history
  <2>2. Inherited(id)'
    BY <1>1, <1>7, <1>8 DEF Inherited
  <2>3. Lasts(id)'
    BY <1>1, <1>p, <1>d DEF Lasts
  <2>4. Waiting(id)'
    BY <1>p, <1>d, <1>8 DEF Waiting, Undispatched
  <2>5. Superseded(id)'
    BY <1>p, <1>d, <1>8 DEF Superseded
  <2> QED BY <2>1, <2>2, <2>3, <2>4, <2>5
<1> QED BY <1>s, <1>5, <1>6, <1>1, <1>9, <1>p, <1>d, OnlyOne

\* A reload ends an adapter's callback, and then drops it.
LEMMA RuntimeEndsStep ==
  ASSUME IInv, NEW id \in Id, RuntimeEnds(id)
  PROVE  IInv'
<1> USE DEF IInv
<1> DEFINE d == [records[id] EXCEPT !.ended = TRUE]
<1>1. /\ External(id) /\ pending[id] # 0 /\ Current(id, pending[id])
      /\ records' = CallbackEnded(records, id) /\ ending' = ending \cup {id}
      /\ UNCHANGED <<pending, release, submitting, scheduler, replay, turn, ran, history>>
  BY DEF RuntimeEnds
<1>8. records[id] # None /\ records[id].phase = "none" /\ ~records[id].archived /\ records[id].status = "retained"
  BY <1>1 DEF Local, Once, Current, Active, Existing
<1>d. /\ d \in SubmissionRecord /\ d # None /\ d.phase = records[id].phase /\ d.input = records[id].input
      /\ d.status = records[id].status /\ d.archived = records[id].archived /\ d.ended
      /\ d.revision = records[id].revision
  BY <1>8, SubmissionAssumption DEF Shaped, RecordsOK, RecordOK, SubmissionRecord
<1>k. RecordOK(d) /\ records' = [records EXCEPT ![id] = d]
  BY <1>1, <1>8, <1>d DEF RecordOK, CallbackEnded, EndedCallback
<1> HIDE DEF d
<1>p. RecordsOK(records') /\ records'[id] = d /\ \A i \in Id : i # id => records'[i] = records[i]
  BY <1>k, RecordSet
<1>5. Shaped'
  BY <1>1, <1>p DEF Shaped
<1>6. \A i \in Id : i # id => Untouched(i)
  BY <1>1, <1>p DEF Untouched, Settles, history
<1>s. replay' = replay /\ skipped' = skipped /\ Same(scheduler', scheduler)
  BY <1>1 DEF history, Same
<1>7. Given(id)' => Given(id)
  BY <1>s, <1>5, <1>6, <1>d, <1>p, <1>8, GivenSame
<1>9. Local(id)'
  <2> USE DEF Local
  <2>1. Once(id)'
    BY <1>1, <1>8, <1>p, <1>d DEF Once, history
  <2>2. Inherited(id)'
    BY <1>1, <1>7, <1>8 DEF Inherited
  <2>3. Lasts(id)'
    BY <1>1, <1>p, <1>d DEF Lasts
  <2>4. Waiting(id)'
    BY <1>p, <1>d, <1>8 DEF Waiting
  <2>5. Superseded(id)'
    BY <1>p, <1>d, <1>8 DEF Superseded
  <2> QED BY <2>1, <2>2, <2>3, <2>4, <2>5
<1> QED BY <1>s, <1>5, <1>6, <1>8, <1>9, <1>p, <1>d, OnlyOne

\* A callback is gone.
LEMMA PendingCleared ==
  ASSUME Shaped, NEW id \in Id, pending' = [pending EXCEPT ![id] = 0]
  PROVE  /\ pending' \in [Id -> 0..MaxRevision]
         /\ pending'[id] = 0 /\ \A i \in Id : i # id => pending'[i] = pending[i]
BY SessionAssumption DEF Shaped

LEMMA RuntimeEndedStep ==
  ASSUME IInv, NEW id \in Id, RuntimeEnded(id)
  PROVE  IInv'
<1> USE DEF IInv
<1>1. /\ id \in ending /\ ending' = ending \ {id}
      /\ pending' = [pending EXCEPT ![id] = 0]
      /\ scheduler' = QueueRelease(scheduler, TRUE)
      /\ UNCHANGED <<records, release, submitting, replay, turn, ran, history>>
  BY DEF RuntimeEnded
<1>8. records[id] # None /\ records[id].ended
  BY <1>1 DEF Local, Lasts
<1>p. /\ pending' \in [Id -> 0..MaxRevision]
      /\ pending'[id] = 0 /\ \A i \in Id : i # id => pending'[i] = pending[i]
  BY <1>1, PendingCleared
<1>q. SchedulerOK(scheduler') /\ Same(scheduler', scheduler)
  BY <1>1, Queued DEF Shaped
<1>5. Shaped'
  BY <1>1, <1>p, <1>q DEF Shaped
<1>6. \A i \in Id : i # id => Untouched(i)
  BY <1>1, <1>p DEF Untouched, Settles, history
<1>s. replay' = replay /\ skipped' = skipped /\ Same(scheduler', scheduler)
  BY <1>1, <1>q DEF history
<1>7. Given(id)' => Given(id)
  BY <1>s, <1>5, <1>6, <1>1, <1>8, GivenSame
<1>9. Local(id)'
  <2> USE DEF Local
  <2>1. Once(id)'
    BY <1>1, <1>8, <1>p DEF Once, history
  <2>2. Inherited(id)'
    BY <1>1, <1>7, <1>8, <1>p DEF Inherited
  <2>3. Lasts(id)'
    BY <1>1 DEF Lasts
  <2>4. Waiting(id)'
    BY <1>1, <1>8 DEF Waiting
  <2>5. Superseded(id)'
    BY <1>1 DEF Superseded, Issued
  <2> QED BY <2>1, <2>2, <2>3, <2>4, <2>5
<1> QED BY <1>s, <1>5, <1>6, <1>8, <1>9, <1>1, OnlyOne

\* Turning flow control off cancels an adapter's message.
LEMMA CancelExternalStep ==
  ASSUME IInv, NEW id \in Id, CancelExternal(id)
  PROVE  IInv'
<1> USE DEF IInv
<1> DEFINE d == [records[id] EXCEPT !.status = "suspended", !.revision = @ + 1]
<1>1. /\ External(id) /\ pending[id] # 0 /\ CancellableExternal(id)
      /\ records' = [records EXCEPT ![id] = d]
      /\ pending' = [pending EXCEPT ![id] = 0]
      /\ UNCHANGED <<release, submitting, skipped, session, ran, flushed>>
  BY DEF CancelExternal, Cancellable, NoRelease, Cancelled
<1>8. records[id] # None /\ records[id].phase = "none"
  BY <1>1 DEF Local, Once, CancellableExternal, Active, Existing
<1>r. records[id].revision + 1 \in Nat
  BY <1>8 DEF Shaped, RecordsOK, RecordOK, SubmissionRecord
<1>d. /\ d \in SubmissionRecord /\ d # None /\ d.phase = records[id].phase /\ d.input = records[id].input
      /\ d.status = "suspended" /\ d.archived = records[id].archived /\ d.ended = records[id].ended
  BY <1>8, <1>r, SubmissionAssumption DEF Shaped, RecordsOK, RecordOK, SubmissionRecord
<1>k. RecordOK(d)
  BY <1>d DEF RecordOK
<1> HIDE DEF d
<1>p. RecordsOK(records') /\ records'[id] = d /\ \A i \in Id : i # id => records'[i] = records[i]
  BY <1>1, <1>k, RecordSet
<1>q. /\ pending' \in [Id -> 0..MaxRevision]
      /\ pending'[id] = 0 /\ \A i \in Id : i # id => pending'[i] = pending[i]
  BY <1>1, PendingCleared
<1>5. Shaped'
  BY <1>1, <1>p, <1>q DEF Shaped, session
<1>6. \A i \in Id : i # id => Untouched(i)
  BY <1>1, <1>p, <1>q DEF Untouched, Settles, session
<1>s. replay' = replay /\ skipped' = skipped /\ Same(scheduler', scheduler)
  BY <1>1 DEF session, Same
<1>7. Given(id)' => Given(id)
  BY <1>s, <1>5, <1>6, <1>d, <1>p, <1>8, GivenSame
<1>n. ~Replayable(id)
  BY <1>1 DEF Replayable, UserInstruction, External
<1>9. Local(id)'
  <2> USE DEF Local
  <2>1. Once(id)'
    BY <1>1, <1>8, <1>p, <1>q, <1>d DEF Once, session
  <2>2. Inherited(id)'
    BY <1>1, <1>7, <1>8, <1>n DEF Inherited
  <2>3. Lasts(id)'
    BY <1>1, <1>p, <1>d DEF Lasts, session
  <2>4. Waiting(id)'
    BY <1>p, <1>d, <1>8 DEF Waiting
  <2>5. Superseded(id)'
    BY <1>n DEF Superseded
  <2> QED BY <2>1, <2>2, <2>3, <2>4, <2>5
<1> QED BY <1>s, <1>5, <1>6, <1>8, <1>9, <1>p, <1>d, OnlyOne

\* The flush hands over what has its callback and never had an intent.
LEMMA FlushStep ==
  ASSUME IInv, NEW id \in Id, Flush(id)
  PROVE  IInv'
<1> USE DEF IInv
<1>1. /\ pending[id] # 0 /\ ~External(id) /\ release[id].at = "none"
      /\ pending' = [pending EXCEPT ![id] = 0] /\ ran' = [ran EXCEPT ![id] = @ + 1]
      /\ flushed' = flushed \cup {id}
      /\ UNCHANGED <<records, release, submitting, session, skipped>>
  BY DEF Flush, Flushable, Released
<1>8. records[id] # None /\ records[id].phase = "none" /\ ran[id] = 0
  BY <1>1 DEF Local, Once, Shaped
<1>q. /\ pending' \in [Id -> 0..MaxRevision]
      /\ pending'[id] = 0 /\ \A i \in Id : i # id => pending'[i] = pending[i]
  BY <1>1, PendingCleared
<1>r. ran' \in [Id -> Nat] /\ ran'[id] = 1 /\ \A i \in Id : i # id => ran'[i] = ran[i]
  BY <1>1, <1>8 DEF Shaped
<1>5. Shaped'
  BY <1>1, <1>r, <1>q DEF Shaped, session
<1>6. \A i \in Id : i # id => Untouched(i)
  BY <1>1, <1>r, <1>q DEF Untouched, Settles, session
<1>s. replay' = replay /\ skipped' = skipped /\ Same(scheduler', scheduler)
  BY <1>1 DEF session, Same
<1>7. Given(id)' => Given(id)
  BY <1>s, <1>5, <1>6, <1>1, <1>8, GivenSame
<1>9. Local(id)'
  <2> USE DEF Local
  <2>1. Once(id)'
    BY <1>1, <1>8, <1>r, <1>q DEF Once
  <2>2. Inherited(id)'
    BY <1>1, <1>7, <1>8 DEF Inherited
  <2>3. Lasts(id)'
    BY <1>1 DEF Lasts, session
  <2>4. Waiting(id)'
    BY <1>1 DEF Waiting
  <2>5. Superseded(id)'
    <3>1. \A i \in Id : Issued(i) => Issued(i)'
      BY <1>1, <1>r, <1>8 DEF Issued, Shaped
    <3> QED
      BY <1>1, <3>1, SubmissionAssumption DEF Superseded
  <2> QED BY <2>1, <2>2, <2>3, <2>4, <2>5
<1> QED BY <1>s, <1>5, <1>6, <1>8, <1>9, <1>1, OnlyOne
-----------------------------------------------------------------------------

\* A release that changes nothing but itself.
LEMMA RefuseStep ==
  ASSUME IInv, NEW id \in Id, NEW result, Refuse(id, result), release[id].at # "none",
         Ends(id, records, pending)
  PROVE  IInv'
<1>1. /\ Done(id, result, records, pending, FALSE)
      /\ UNCHANGED <<replay, turn, ending, ran, flushed>>
  BY DEF Refuse
<1>2. RecordsOK(records) /\ pending \in [Id -> 0..MaxRevision]
  BY DEF IInv, Shaped
<1> QED BY <1>1, <1>2, ReleaseEnds

\* Nothing is lost where the release has not begun to run.
LEMMA KeptWaiting ==
  ASSUME IInv, NEW id \in Id, release[id].at \in {"deciding", "recording", "preparing"}
  PROVE  Ends(id, records, pending)
<1>1. Local(id)
  BY DEF IInv
<1>2. records[id] # None /\ ~(id \in Again)
  BY <1>1 DEF Local, Once, Inherited, Given
<1> QED BY <1>1, <1>2 DEF Local, Waiting, Ends

\* The ends of a release.
LEMMA HoldStep ==
  ASSUME IInv, NEW id \in Id, Hold(id) \/ Stale(id)
  PROVE  IInv'
<1>1. release[id].at \in {"deciding", "recording", "preparing"}
      /\ (Refuse(id, "no") \/ Refuse(id, "error"))
  BY DEF Hold, Stale
<1> QED BY <1>1, KeptWaiting, RefuseStep

LEMMA BusyStep ==
  ASSUME IInv, NEW id \in Id, Busy(id)
  PROVE  IInv'
<1>1. release[id].at = "preparing" /\ Done(id, "no", records, pending, FALSE)
      /\ UNCHANGED <<replay, turn, ending, ran, flushed>>
  BY DEF Busy
<1>2. RecordsOK(records) /\ pending \in [Id -> 0..MaxRevision]
  BY DEF IInv, Shaped
<1> QED BY <1>1, <1>2, KeptWaiting, ReleaseEnds

LEMMA NotDispatchedStep ==
  ASSUME IInv, NEW id \in Id, NotDispatched(id)
  PROVE  IInv'
<1>1. release[id].at = "intent" /\ ~Dispatchable(id, release[id].revision) /\ Refuse(id, "no")
  BY DEF NotDispatched
<1>2. Local(id)
  BY DEF IInv
<1>3. records[id] # None /\ pending[id] = 0 /\ records[id].phase = "none"
  BY <1>1, <1>2 DEF Local, Once
<1>4. ~records[id].archived /\ records[id].status = "retained" => records[id].ended
  BY <1>1, <1>2, <1>3 DEF Dispatchable, Current, Active, Existing, Local, Lasts
<1>5. Ends(id, records, pending)
  BY <1>3, <1>4 DEF Ends
<1> QED BY <1>1, <1>5, RefuseStep

LEMMA OrphanedStep ==
  ASSUME IInv, NEW id \in Id, Orphaned(id)
  PROVE  IInv'
<1>1. release[id].at = "running" /\ id \notin Active /\ Done(id, "error", records, pending, FALSE)
      /\ UNCHANGED <<replay, turn, ending, ran, flushed>>
  BY DEF Orphaned
<1>2. Local(id) /\ RecordsOK(records) /\ pending \in [Id -> 0..MaxRevision]
  BY DEF IInv, Shaped
<1>3. records[id] # None /\ records[id].archived
  BY <1>1, <1>2 DEF Local, Once, Active, Existing
<1>5. Ends(id, records, pending)
  BY <1>3 DEF Ends
<1> QED BY <1>1, <1>2, <1>5, ReleaseEnds

LEMMA ReturnStep ==
  ASSUME IInv, NEW id \in Id, Return(id)
  PROVE  IInv'
<1> DEFINE d == [records[id] EXCEPT !.phase = "returned"]
           rs == [records EXCEPT ![id] = d]
<1>1. /\ release[id].at = "running" /\ Done(id, "yes", rs, pending, FALSE)
      /\ UNCHANGED <<replay, turn, ending, ran, flushed>>
  BY DEF Return, Running
<1>2. RecordsOK(records) /\ pending \in [Id -> 0..MaxRevision]
  BY DEF IInv, Shaped
<1>3. records[id] # None /\ pending[id] = 0 /\ records[id].phase # "none"
  BY <1>1 DEF IInv, Local, Once
<1>d. /\ d \in SubmissionRecord /\ d # None /\ d.phase = "returned" /\ d.input = records[id].input
      /\ d.status = records[id].status /\ d.archived = records[id].archived /\ d.ended = records[id].ended
      /\ d.revision = records[id].revision
  BY <1>2, <1>3, SubmissionAssumption DEF RecordsOK, RecordOK, SubmissionRecord
<1> HIDE DEF d
<1>4. rs = [i \in Id |-> IF i = id THEN d ELSE records[i]]
  BY <1>2 DEF RecordsOK
<1> HIDE DEF rs
<1>5. rs[id] = d /\ \A i \in Id : i # id => rs[i] = records[i]
  BY <1>4
<1>6. rs = [i \in Id |-> rs[i]]
  BY <1>4
<1>7. RecordsOK(rs)
  BY <1>2, <1>5, <1>6, <1>d DEF RecordsOK, RecordOK
<1>8. Ends(id, rs, pending)
  BY <1>3, <1>5, <1>d DEF Ends, Undispatched
<1> QED BY <1>1, <1>2, <1>5, <1>7, <1>8, <1>d, ReleaseEnds

LEMMA EndCallbackStep ==
  ASSUME IInv, NEW id \in Id, EndCallback(id)
  PROVE  IInv'
<1> DEFINE rs == CallbackEnded(records, id)
<1>1. /\ release[id].at = "failing" /\ Done(id, "error", rs, pending, TRUE)
      /\ UNCHANGED <<replay, turn, ending, ran, flushed>>
  BY DEF EndCallback
<1>2. RecordsOK(records) /\ pending \in [Id -> 0..MaxRevision]
  BY DEF IInv, Shaped
<1>3. records[id] # None /\ pending[id] = 0 /\ records[id].phase # "none"
  BY <1>1 DEF IInv, Local, Once
<1>r. records[id] \in SubmissionRecord
  BY <1>2, <1>3 DEF RecordsOK, RecordOK
<1>4. /\ RecordsOK(rs)
      /\ \A i \in Id : i # id => rs[i] = records[i]
      /\ rs[id] = records[id] \/ (rs[id] # None /\ rs[id] = [records[id] EXCEPT !.ended = TRUE])
      /\ (records[id] # None /\ records[id].status = "retained" /\ ~records[id].archived /\ EndedCallback(id, records[id]))
            => rs[id] = [records[id] EXCEPT !.ended = TRUE]
  BY <1>2, EndedIs
<1> HIDE DEF rs
<1>5. /\ rs[id] # None /\ rs[id].phase = records[id].phase /\ rs[id].input = records[id].input
      /\ rs[id].status = records[id].status /\ rs[id].archived = records[id].archived
      /\ rs[id].revision = records[id].revision
      /\ records[id].ended => rs[id].ended
      /\ (records[id].status = "retained" /\ ~records[id].archived /\ EndedCallback(id, records[id]))
            => rs[id].ended
  BY <1>4, <1>r, <1>3 DEF SubmissionRecord
<1>8. Ends(id, rs, pending)
  BY <1>3, <1>4, <1>5 DEF Ends, Undispatched, EndedCallback
<1> QED BY <1>1, <1>2, <1>4, <1>5, <1>8, ReleaseEnds

LEMMA RevokeStep ==
  ASSUME IInv, NEW id \in Id, release[id].at \in {"deciding", "preparing"}, Revoke(id)
  PROVE  IInv'
<1> DEFINE d == [records[id] EXCEPT !.status = "revoked", !.revision = @ + 1]
           cs == [records EXCEPT ![id] = d]
           cp == [pending EXCEPT ![id] = 0]
           gone == CancellableExternal(id)
<1>1. /\ External(id) /\ Done(id, "no", IF gone THEN cs ELSE records, IF gone THEN cp ELSE pending, FALSE)
      /\ UNCHANGED <<replay, turn, ending, ran, flushed>>
  BY DEF Revoke, Cancelled
<1>2. RecordsOK(records) /\ pending \in [Id -> 0..MaxRevision]
  BY DEF IInv, Shaped
<1>k. ~Replayable(id)
  BY <1>1 DEF Replayable, UserInstruction, External
<1>3. CASE ~gone
  BY <1>1, <1>2, <1>3, KeptWaiting, ReleaseEnds
<1>4. CASE gone
  <2>1. records[id] # None
    BY <1>4 DEF CancellableExternal, Active, Existing
  <2>r. records[id].revision + 1 \in Nat
    BY <1>2, <2>1 DEF RecordsOK, RecordOK, SubmissionRecord
  <2>d. /\ d \in SubmissionRecord /\ d # None /\ d.phase = records[id].phase /\ d.input = records[id].input
        /\ d.status = "revoked" /\ d.archived = records[id].archived /\ d.ended = records[id].ended
    BY <1>2, <2>1, <2>r, SubmissionAssumption DEF RecordsOK, RecordOK, SubmissionRecord
  <2> HIDE DEF d
  <2>4. cs = [i \in Id |-> IF i = id THEN d ELSE records[i]]
    BY <1>2 DEF RecordsOK
  <2>p. cp \in [Id -> 0..MaxRevision] /\ cp[id] = 0 /\ \A i \in Id : i # id => cp[i] = pending[i]
    BY <1>2, SessionAssumption
  <2>x. Done(id, "no", cs, cp, FALSE)
    BY <1>1, <1>4
  <2> HIDE DEF cs, cp
  <2>5. cs[id] = d /\ \A i \in Id : i # id => cs[i] = records[i]
    BY <2>4
  <2>6. cs = [i \in Id |-> cs[i]]
    BY <2>4
  <2>7. RecordsOK(cs)
    BY <1>2, <2>5, <2>6, <2>d DEF RecordsOK, RecordOK
  <2>8. Ends(id, cs, cp)
    BY <1>1, <2>1, <2>5, <2>d, <2>p DEF Ends
  <2> QED BY <1>1, <1>k, <2>x, <2>5, <2>7, <2>8, <2>d, <2>p, ReleaseEnds
<1> QED BY <1>3, <1>4

\* A new record.
LEMMA NewIs ==
  ASSUME NEW rs, NEW queues \in BOOLEAN
  PROVE  LET r == NewRecord(Cardinality({i \in Id : rs[i] # None}) + 1, queues)
         IN /\ r \in SubmissionRecord /\ r # None
            /\ r.revision = 1 /\ r.status = "retained" /\ r.phase = "none" /\ r.input = "none"
            /\ ~r.ended /\ ~r.archived
<1> DEFINE S == {i \in Id : rs[i] # None}
           n == Cardinality(S) + 1
           r == NewRecord(n, queues)
<1>1. IsFiniteSet(S)
  BY SubmissionAssumption, FS_Subset
<1>2. n \in Nat
  BY <1>1, FS_CardinalityType
<1> HIDE DEF n
<1>3. r \in SubmissionRecord
  BY <1>2 DEF NewRecord, SubmissionRecord
<1>4. r # None
  BY <1>3, SubmissionAssumption
<1>5. /\ r.revision = 1 /\ r.status = "retained" /\ r.phase = "none" /\ r.input = "none"
      /\ ~r.ended /\ ~r.archived
  BY DEF NewRecord
<1> QED BY <1>3, <1>4, <1>5 DEF n

\* Archiving settles records and does nothing else.
LEMMA ArchivedIs ==
  ASSUME NEW rs, RecordsOK(rs)
  PROVE  /\ RecordsOK(Archived(rs))
         /\ \A i \in Id : Settles(rs[i], Archived(rs)[i])
<1> DEFINE e == Archived(rs)
           old(i) == rs[i] # None /\ (FullyConsumed(rs[i]) \/ CancellationSettled(rs[i]))
<1>1. e = [i \in Id |-> IF old(i) THEN [rs[i] EXCEPT !.archived = TRUE] ELSE rs[i]]
  BY DEF Archived
<1> HIDE DEF e
<1>2. e = [i \in Id |-> e[i]]
  BY <1>1
<1>3. ASSUME NEW i \in Id PROVE RecordOK(e[i]) /\ Settles(rs[i], e[i])
  <2> DEFINE d == [rs[i] EXCEPT !.archived = TRUE]
  <2>1. CASE old(i)
    <3>1. rs[i] # None /\ rs[i] \in SubmissionRecord
      BY <2>1 DEF RecordsOK, RecordOK
    <3>2. d \in SubmissionRecord
      BY <3>1 DEF SubmissionRecord
    <3>3. d # None /\ e[i] = d
      BY <3>2, <2>1, <1>1, SubmissionAssumption
    <3> QED BY <3>1, <3>2, <3>3 DEF RecordOK, Settles
  <2>2. CASE ~old(i)
    <3>1. e[i] = rs[i]
      BY <2>2, <1>1
    <3> QED BY <3>1 DEF RecordsOK, Settles
  <2> QED BY <2>1, <2>2
<1> QED BY <1>2, <1>3 DEF e, RecordsOK

\* A step that accepts something under a new identity.
LEMMA Fresh ==
  ASSUME IInv, NEW id \in Id, Shaped', records[id] = None, IssuingOK',
         \A i \in Id : i # id => Untouched(i),
         skipped' = skipped, \A j \in Id : j \in Again' <=> j \in Again,
         \A k \in DOMAIN NextIssue : NextIssue[k] = id => Given(k),
         Once(id)', Lasts(id)', Waiting(id)', Superseded(id)', 
         Issued(id)'
  PROVE  IInv'
<1> USE DEF IInv
<1>1. \A i \in Id : i # id => (records'[i] # None <=> records[i] # None) /\ ran'[i] = ran[i]
  BY DEF Untouched, Settles
<1>2. \A k \in Id : k # id => (Issued(k)' <=> Issued(k))
  BY <1>1 DEF Issued
<1>4. \A j \in Id : Steady(j)
  <2> SUFFICES ASSUME NEW j \in Id PROVE Steady(j)
    OBVIOUS
  <2>1. CASE j \in DOMAIN NextIssue /\ NextIssue[j] = id
    BY <2>1 DEF Steady
  <2>2. CASE j \notin DOMAIN NextIssue \/ NextIssue[j] # id
    BY <2>2, <1>2, SubmissionAssumption DEF Steady, Given
  <2> QED BY <2>1, <2>2
<1>5. \A j \in Id : j # id => Local(j)'
  BY <1>4, Bystander
<1>6. ~Given(id)
  BY DEF Local, Inherited
<1>7. ~Given(id)'
  BY <1>4, <1>6 DEF Given, Steady
<1>8. Local(id)'
  BY <1>7 DEF Local, Inherited
<1> QED BY <1>5, <1>8

\* An identity under which nothing was accepted yet.
LEMMA Untaken ==
  ASSUME IInv, NEW id \in Id, records[id] = None
  PROVE  /\ pending[id] = 0 /\ release[id].at = "none" /\ ~Given(id) /\ id \notin ending
         /\ id \notin flushed => ran[id] = 0
<1>1. Local(id) /\ ran[id] \in Nat
  BY DEF IInv, Shaped
<1> QED BY <1>1 DEF Local, Once, Inherited, Lasts

\* A callback is registered.
LEMMA PendingSet ==
  ASSUME Shaped, NEW id \in Id, NEW n \in 0..MaxRevision, pending' = [pending EXCEPT ![id] = n]
  PROVE  /\ pending' \in [Id -> 0..MaxRevision]
         /\ pending'[id] = n /\ \A i \in Id : i # id => pending'[i] = pending[i]
BY DEF Shaped

\* A release begins.
LEMMA Deciding ==
  ASSUME NEW n \in Nat
  PROVE  LET r == [Resting EXCEPT !.at = "deciding", !.revision = n]
         IN ReleaseOK(r) /\ r.at = "deciding" /\ r.revision = n
<1> DEFINE r == [Resting EXCEPT !.at = "deciding", !.revision = n]
<1> DEFINE f == FALSE
<1>0. Resting = [at |-> "none", revision |-> 0, works |-> f, allowed |-> f]
  BY DEF Resting
<1>r. r = [Resting EXCEPT !.at = "deciding", !.revision = n]
  OBVIOUS
<1> HIDE DEF r, f
<1>1. r = [at |-> "deciding", revision |-> n, works |-> f, allowed |-> f]
  BY <1>0, <1>r
<1>2. ReleaseOK(r) /\ r.at = "deciding" /\ r.revision = n
  BY <1>1 DEF ReleaseOK
<1> QED BY <1>2 DEF r

\* A message is retained with its callback and its release begins.
LEMMA SubmittedStep ==
  ASSUME IInv, NEW id \in Id, Submitted(id), records[id] = None, id \notin flushed,
         UNCHANGED <<replay, turn, ending, ran, flushed, skipped>>,
         SchedulerOK(scheduler'), IssuingOK',
         \A j \in Id : j \in Again' <=> j \in Again,
         \A k \in DOMAIN NextIssue : NextIssue[k] = id => Given(k)
  PROVE  IInv'
<1> DEFINE ar == Archived(records)
           q == turn # None
           n == NewRecord(Cardinality({i \in Id : ar[i] # None}) + 1, q)
           r == [Resting EXCEPT !.at = "deciding", !.revision = 1]
<1>1. /\ records' = [ar EXCEPT ![id] = n] /\ pending' = [pending EXCEPT ![id] = 1]
      /\ release' = [release EXCEPT ![id] = r] /\ submitting' = submitting \cup {id}
  BY DEF Submitted, Retained
<1>a. RecordsOK(ar) /\ \A i \in Id : Settles(records[i], ar[i])
  BY ArchivedIs DEF IInv, Shaped
<1>b. q \in BOOLEAN
  OBVIOUS
<1> HIDE DEF q, ar
<1>n. /\ n \in SubmissionRecord /\ n # None
      /\ n.revision = 1 /\ n.status = "retained" /\ n.phase = "none" /\ n.input = "none"
      /\ ~n.ended /\ ~n.archived
  BY <1>b, NewIs
<1> HIDE DEF n
<1>2. records' = [i \in Id |-> IF i = id THEN n ELSE ar[i]]
  BY <1>1, <1>a DEF RecordsOK
<1>3. records'[id] = n /\ \A i \in Id : i # id => records'[i] = ar[i]
  BY <1>2
<1>4. records' = [i \in Id |-> records'[i]]
  BY <1>2
<1>5. RecordsOK(records')
  BY <1>3, <1>4, <1>a, <1>n DEF RecordsOK, RecordOK
<1>6. ReleaseOK(r) /\ r.at = "deciding" /\ r.revision = 1
  BY Deciding
<1> HIDE DEF r
<1>7. Shaped
  BY DEF IInv
<1>8. /\ release' = [i \in Id |-> release'[i]] /\ \A i \in Id : ReleaseOK(release'[i])
      /\ release'[id] = r /\ \A i \in Id : i # id => release'[i] = release[i]
  BY <1>1, <1>6, <1>7, ReleaseSet
<1>9. 1 \in 0..MaxRevision
  BY SessionAssumption
<1>10. /\ pending' \in [Id -> 0..MaxRevision]
       /\ pending'[id] = 1 /\ \A i \in Id : i # id => pending'[i] = pending[i]
  BY <1>1, <1>7, <1>9, PendingSet
<1>11. Shaped'
  BY <1>1, <1>5, <1>7, <1>8, <1>10 DEF Shaped
<1>12. \A i \in Id : i # id => Untouched(i)
  BY <1>3, <1>a, <1>8, <1>10 DEF Untouched
<1>13. ran[id] = 0 /\ id \notin ending
  BY Untaken
<1>14. Once(id)' /\ Lasts(id)' /\ Waiting(id)' /\ Superseded(id)' /\ Issued(id)'
  BY <1>3, <1>n, <1>6, <1>8, <1>10, <1>13 DEF Once, Lasts, Waiting, Superseded, Issued
<1> QED BY <1>11, <1>12, <1>14, Fresh

LEMMA SubmitStep ==
  ASSUME IInv, NEW id \in Id, Submit(id)
  PROVE  IInv'
<1>1. /\ Submitted(id) /\ records[id] = None /\ id \in First /\ ~External(id)
      /\ UNCHANGED <<scheduler, replay, turn, ending, ran, flushed, skipped>>
  BY DEF Submit, history
<1>2. id \notin flushed
  BY <1>1 DEF IInv, Local, Once
<1>3. SchedulerOK(scheduler') /\ \A j \in Id : j \in Again' <=> j \in Again
  BY <1>1 DEF IInv, Shaped, Again
<1>4. IssuingOK'
  <2>1. \A k \in Id : Issued(k) => Issued(k)'
    <3>0. RecordsOK(Archived(records)) /\ \A i \in Id : Settles(records[i], Archived(records)[i])
      BY ArchivedIs DEF IInv, Shaped
    <3>1. \A k \in Id : k # id => records'[k] = Archived(records)[k]
      BY <1>1, <3>0 DEF Submitted, Retained, RecordsOK
    <3> QED BY <1>1, <3>0, <3>1 DEF Issued, Settles
  <2> QED BY <1>1, <2>1, SubmissionAssumption DEF IInv, IssuingOK
<1>5. \A k \in DOMAIN NextIssue : NextIssue[k] = id => Given(k)
  BY <1>1 DEF First
<1> QED BY <1>1, <1>2, <1>3, <1>4, <1>5, SubmittedStep

\* Only a continuation is issued under an identity of its own.
LEMMA NotReissued ==
  ASSUME NEW id \in Id, External(id)
  PROVE  ~Replayable(id) /\ \A k \in DOMAIN NextIssue : NextIssue[k] # id
BY SubmissionAssumption DEF Replayable, UserInstruction, External

\* An adapter's message is retained,
LEMMA RetainNewStep ==
  ASSUME IInv, NEW id \in Id, NEW authority, RetainExternal(id, authority), records[id] = None
  PROVE  IInv'
<1> DEFINE q == turn # None
           n == NewRecord(Cardinality({i \in Id : records[i] # None}) + 1, q)
           rs == [records EXCEPT ![id] = n]
           r == [Resting EXCEPT !.at = "deciding", !.revision = rs[id].revision]
           g == [rs EXCEPT ![id].status = "revoked", ![id].revision = @ + 1]
<1>1. /\ External(id)
      /\ \/ /\ records' = rs /\ pending' = [pending EXCEPT ![id] = rs[id].revision]
            /\ release' = [release EXCEPT ![id] = r]
         \/ records' = g /\ UNCHANGED <<pending, release>>
      /\ UNCHANGED <<submitting, scheduler, replay, turn, ending, ran, flushed, skipped>>
  BY DEF RetainExternal, Retained
<1>7. Shaped
  BY DEF IInv
<1>b. q \in BOOLEAN
  OBVIOUS
<1> HIDE DEF q
<1>n. /\ n \in SubmissionRecord /\ n # None
      /\ n.revision = 1 /\ n.status = "retained" /\ n.phase = "none" /\ n.input = "none"
      /\ ~n.ended /\ ~n.archived
  BY <1>b, NewIs
<1> HIDE DEF n
<1>2. rs[id] = n
  BY <1>7 DEF Shaped, RecordsOK
<1>g. g = [rs EXCEPT ![id] = [rs[id] EXCEPT !.status = "revoked", !.revision = rs[id].revision + 1]]
  OBVIOUS
<1>rs. rs = [records EXCEPT ![id] = n]
  OBVIOUS
<1> HIDE DEF rs, g
<1>m. /\ pending[id] = 0 /\ release[id].at = "none" /\ id \notin ending
      /\ id \notin flushed /\ ran[id] = 0
  BY <1>1, Untaken DEF IInv, Local, Once
<1>k. ~Replayable(id) /\ \A k \in DOMAIN NextIssue : NextIssue[k] # id
  BY <1>1, NotReissued
<1>s. \A j \in Id : j \in Again' <=> j \in Again
  BY <1>1 DEF Again
<1>i. ASSUME \A i \in Id : i # id => records'[i] = records[i] PROVE IssuingOK'
  BY <1>1, <1>i, <1>k, SubmissionAssumption DEF IInv, IssuingOK, Issued
<1>3. CASE records' = rs /\ pending' = [pending EXCEPT ![id] = rs[id].revision]
            /\ release' = [release EXCEPT ![id] = r]
  <2>1. RecordOK(n) /\ records' = [records EXCEPT ![id] = n]
    BY <1>3, <1>n, <1>rs DEF RecordOK
  <2>p. RecordsOK(records') /\ records'[id] = n /\ \A i \in Id : i # id => records'[i] = records[i]
    BY <2>1, <1>7, RecordSet
  <2>v. rs[id].revision = 1 /\ rs[id].revision \in Nat
    BY <1>2, <1>n
  <2>6. ReleaseOK(r) /\ r.at = "deciding" /\ r.revision = 1
    BY <2>v, Deciding
  <2> HIDE DEF r
  <2>8. /\ release' = [i \in Id |-> release'[i]] /\ \A i \in Id : ReleaseOK(release'[i])
        /\ release'[id] = r /\ \A i \in Id : i # id => release'[i] = release[i]
    BY <1>3, <2>6, <1>7, ReleaseSet
  <2>9. 1 \in 0..MaxRevision /\ pending' = [pending EXCEPT ![id] = 1]
    BY SessionAssumption, <1>3, <1>2, <1>n
  <2>10. /\ pending' \in [Id -> 0..MaxRevision]
         /\ pending'[id] = 1 /\ \A i \in Id : i # id => pending'[i] = pending[i]
    BY <1>7, <2>9, PendingSet
  <2>11. Shaped'
    BY <1>1, <1>7, <2>p, <2>8, <2>10 DEF Shaped
  <2>12. \A i \in Id : i # id => Untouched(i)
    BY <1>1, <2>p, <2>8, <2>10 DEF Untouched, Settles
  <2>14. Once(id)' /\ Lasts(id)' /\ Waiting(id)' /\ Superseded(id)' /\ Issued(id)'
    BY <1>1, <2>p, <1>n, <2>6, <2>8, <2>10, <1>m, <1>k DEF Once, Lasts, Waiting, Superseded, Issued
  <2> QED BY <1>1, <1>k, <1>s, <1>i, <2>p, <2>11, <2>12, <2>14, Fresh
<1>4. CASE records' = g /\ UNCHANGED <<pending, release>>
  <2> DEFINE d == [n EXCEPT !.status = "revoked", !.revision = n.revision + 1]
  <2>0. records' = [records EXCEPT ![id] = d]
    <3>2. [rs[id] EXCEPT !.status = "revoked", !.revision = rs[id].revision + 1] = d
      BY <1>2
    <3> HIDE DEF d
    <3> QED BY <1>g, <1>rs, <3>2, <1>4, <1>7 DEF Shaped, RecordsOK
  <2>r. n.revision + 1 \in Nat
    BY <1>n
  <2>1. d \in SubmissionRecord /\ d # None /\ d.status = "revoked" /\ d.phase = "none" /\ d.input = "none"
    BY <1>n, <2>r, SubmissionAssumption DEF SubmissionRecord
  <2>2. RecordOK(d)
    BY <2>1 DEF RecordOK
  <2> HIDE DEF d
  <2>p. RecordsOK(records') /\ records'[id] = d /\ \A i \in Id : i # id => records'[i] = records[i]
    BY <2>0, <2>2, <1>7, RecordSet
  <2>11. Shaped'
    BY <1>1, <1>4, <1>7, <2>p DEF Shaped
  <2>12. \A i \in Id : i # id => Untouched(i)
    BY <1>1, <1>4, <2>p DEF Untouched, Settles
  <2>14. Once(id)' /\ Lasts(id)' /\ Waiting(id)' /\ Superseded(id)' /\ Issued(id)'
    BY <1>1, <1>4, <2>p, <2>1, <1>m, <1>k DEF Once, Lasts, Waiting, Superseded, Issued
  <2> QED BY <1>1, <1>k, <1>s, <1>i, <2>p, <2>11, <2>12, <2>14, Fresh
<1> QED BY <1>1, <1>3, <1>4

\* or attached again under the next revision.
LEMMA ReattachStep ==
  ASSUME IInv, NEW id \in Id, NEW authority, RetainExternal(id, authority), records[id] # None
  PROVE  IInv'
<1> DEFINE d == [records[id] EXCEPT !.revision = @ + 1, !.ended = FALSE]
           rs == [records EXCEPT ![id] = d]
           r == [Resting EXCEPT !.at = "deciding", !.revision = rs[id].revision]
           g == [rs EXCEPT ![id].status = "revoked", ![id].revision = @ + 1]
<1>1. /\ External(id) /\ id \notin ending /\ CanReattach(id) /\ pending[id] = 0 /\ release[id].at = "none"
      /\ rs[id].revision <= MaxRevision
      /\ \/ /\ records' = rs /\ pending' = [pending EXCEPT ![id] = rs[id].revision]
            /\ release' = [release EXCEPT ![id] = r]
         \/ records' = g /\ UNCHANGED <<pending, release>>
      /\ UNCHANGED <<submitting, scheduler, replay, turn, ending, ran, flushed, skipped>>
  BY DEF RetainExternal, Reattached, Released
<1>7. Shaped
  BY DEF IInv
<1>c. records[id].phase = "none" /\ records[id].input = "none" /\ id \notin flushed /\ ran[id] <= 1
  BY <1>1 DEF CanReattach, IInv, Local, Once
<1>m. ran[id] = 0
  BY <1>c, <1>7 DEF IInv, Local, Once, Shaped
<1>o. records[id] \in SubmissionRecord
  BY <1>7 DEF Shaped, RecordsOK, RecordOK
<1>v. records[id].revision + 1 \in Nat /\ records[id].revision + 2 \in Nat
  BY <1>o DEF SubmissionRecord
<1>n. /\ d \in SubmissionRecord /\ d # None
      /\ d.revision = records[id].revision + 1 /\ d.phase = "none" /\ d.input = "none"
  BY <1>o, <1>c, <1>v, SubmissionAssumption DEF SubmissionRecord
<1> HIDE DEF d
<1>2. rs[id] = d
  BY <1>7 DEF Shaped, RecordsOK
<1>g. g = [rs EXCEPT ![id] = [rs[id] EXCEPT !.status = "revoked", !.revision = rs[id].revision + 1]]
  OBVIOUS
<1>rs. rs = [records EXCEPT ![id] = d]
  OBVIOUS
<1> HIDE DEF rs, g
<1>k. ~Replayable(id) /\ \A k \in DOMAIN NextIssue : NextIssue[k] # id
  BY <1>1, NotReissued
<1>s. replay' = replay /\ skipped' = skipped /\ Same(scheduler', scheduler)
  BY <1>1 DEF Same
<1>3. CASE records' = rs /\ pending' = [pending EXCEPT ![id] = rs[id].revision]
            /\ release' = [release EXCEPT ![id] = r]
  <2>1. RecordOK(d) /\ records' = [records EXCEPT ![id] = d]
    BY <1>3, <1>n, <1>rs DEF RecordOK
  <2>p. RecordsOK(records') /\ records'[id] = d /\ \A i \in Id : i # id => records'[i] = records[i]
    BY <2>1, <1>7, RecordSet
  <2>v. d.revision \in 0..MaxRevision /\ d.revision # 0 /\ d.revision \in Nat
    BY <1>1, <1>2, <1>n, <1>o, SessionAssumption DEF SubmissionRecord
  <2>6. ReleaseOK(r) /\ r.at = "deciding" /\ r.revision = d.revision
    BY <1>2, <2>v, Deciding
  <2> HIDE DEF r
  <2>8. /\ release' = [i \in Id |-> release'[i]] /\ \A i \in Id : ReleaseOK(release'[i])
        /\ release'[id] = r /\ \A i \in Id : i # id => release'[i] = release[i]
    BY <1>3, <2>6, <1>7, ReleaseSet
  <2>9. pending' = [pending EXCEPT ![id] = d.revision]
    BY <1>3, <1>2
  <2>10. /\ pending' \in [Id -> 0..MaxRevision]
         /\ pending'[id] = d.revision /\ \A i \in Id : i # id => pending'[i] = pending[i]
    BY <1>7, <2>9, <2>v, PendingSet
  <2>11. Shaped'
    BY <1>1, <1>7, <2>p, <2>8, <2>10 DEF Shaped
  <2>12. \A i \in Id : i # id => Untouched(i)
    BY <1>1, <2>p, <2>8, <2>10 DEF Untouched, Settles
  <2>13. Once(id)'
    BY <1>1, <2>p, <1>n, <2>6, <2>8, <2>10, <1>m, <1>c DEF Once
  <2>14. Lasts(id)'
    BY <1>1, <2>p, <1>n, <2>6, <2>8, <2>10 DEF Lasts
  <2>15. Waiting(id)' /\ Superseded(id)'
    BY <2>10, <2>v, <1>k DEF Waiting, Superseded
  <2>16. Inherited(id)'
    <3>1. Given(id)' => Given(id)
      BY <1>7, <1>s, <1>n, <2>p, <2>12, GivenSame
    <3> QED BY <3>1, <1>k DEF IInv, Local, Inherited
  <2>17. Local(id)'
    BY <2>13, <2>14, <2>15, <2>16 DEF Local
  <2> QED BY <1>s, <1>n, <2>p, <2>11, <2>12, <2>17, OnlyOne
<1>4. CASE records' = g /\ UNCHANGED <<pending, release>>
  <2> DEFINE f == [d EXCEPT !.status = "revoked", !.revision = d.revision + 1]
  <2>0. records' = [records EXCEPT ![id] = f]
    <3>2. [rs[id] EXCEPT !.status = "revoked", !.revision = rs[id].revision + 1] = f
      BY <1>2
    <3> HIDE DEF f
    <3> QED BY <1>g, <1>rs, <3>2, <1>4, <1>7 DEF Shaped, RecordsOK
  <2>r. d.revision + 1 \in Nat
    BY <1>n, <1>v DEF SubmissionRecord
  <2>1. f \in SubmissionRecord /\ f # None /\ f.status = "revoked" /\ f.phase = "none" /\ f.input = "none"
    BY <1>n, <2>r, SubmissionAssumption DEF SubmissionRecord
  <2>2. RecordOK(f)
    BY <2>1 DEF RecordOK
  <2> HIDE DEF f
  <2>p. RecordsOK(records') /\ records'[id] = f /\ \A i \in Id : i # id => records'[i] = records[i]
    BY <2>0, <2>2, <1>7, RecordSet
  <2>11. Shaped'
    BY <1>1, <1>4, <1>7, <2>p DEF Shaped
  <2>12. \A i \in Id : i # id => Untouched(i)
    BY <1>1, <1>4, <2>p DEF Untouched, Settles
  <2>13. Once(id)'
    BY <1>1, <1>4, <2>p, <2>1, <1>m, <1>c DEF Once
  <2>14. Lasts(id)' /\ Waiting(id)' /\ Superseded(id)'
    BY <1>1, <1>4, <2>p, <2>1, <1>k DEF Lasts, Waiting, Superseded
  <2>16. Inherited(id)'
    <3>1. Given(id)' => Given(id)
      BY <1>7, <1>s, <2>1, <2>p, <2>12, GivenSame
    <3> QED BY <3>1, <1>k DEF IInv, Local, Inherited
  <2>17. Local(id)'
    BY <2>13, <2>14, <2>16 DEF Local
  <2> QED BY <1>s, <2>1, <2>p, <2>11, <2>12, <2>17, OnlyOne
<1> QED BY <1>1, <1>3, <1>4

\* A continuation is issued again, through admission or past it.
LEMMA ReissueStep ==
  ASSUME IInv, NEW id \in Id, Reissue(id)
  PROVE  IInv'
<1> DEFINE new == NextIssue[id]
           t == scheduler.todo \ {id}
<1>1. /\ scheduler.phase = "replaying" /\ scheduler.issuing = None /\ id \in scheduler.todo
      /\ id \in DOMAIN NextIssue /\ records[new] = None /\ new \notin flushed
      /\ scheduler' = [scheduler EXCEPT !.issuing = id, !.todo = t]
      /\ \/ Submitted(new) /\ UNCHANGED <<ran, flushed>>
         \/ /\ ran' = [ran EXCEPT ![new] = @ + 1] /\ flushed' = flushed \cup {new}
            /\ UNCHANGED <<records, pending, release, submitting>>
      /\ UNCHANGED <<replay, turn, ending, skipped>>
  BY DEF Reissue, Unused
<1>2. Shaped /\ new \in Id /\ Replayable(new) /\ id # None
  BY <1>1, SubmissionAssumption DEF IInv
<1>3. t \subseteq Id
  BY <1>2 DEF Shaped, SchedulerOK
<1> HIDE DEF t
<1>4. scheduler' = [phase |-> scheduler.phase, requested |-> scheduler.requested, semantic |-> scheduler.semantic,
             cand |-> scheduler.cand, left |-> scheduler.left, on |-> scheduler.on, todo |-> t,
             issuing |-> id]
  <2>1. scheduler = [phase |-> scheduler.phase, requested |-> scheduler.requested, semantic |-> scheduler.semantic,
             cand |-> scheduler.cand, left |-> scheduler.left, on |-> scheduler.on, todo |-> scheduler.todo,
             issuing |-> scheduler.issuing]
    BY <1>2 DEF Shaped, SchedulerOK
  <2> QED BY <2>1, <1>1
<1>5. SchedulerOK(scheduler') /\ scheduler'.todo = t /\ scheduler'.issuing = id
  BY <1>1, <1>2, <1>3, <1>4 DEF Shaped, SchedulerOK, Phases
<1>6. \A j \in Id : j \in Again' <=> j \in Again
  BY <1>1, <1>5, SubmissionAssumption DEF Again, t
<1>7. \A k \in DOMAIN NextIssue : NextIssue[k] = new => Given(k)
  BY <1>1, SubmissionAssumption DEF Given, Again
<1>8. CASE Submitted(new) /\ UNCHANGED <<ran, flushed>>
  <2>1. Issued(new)'
    BY <1>2, <1>8, <1>1, NewIs DEF Submitted, Issued, Retained, Archived
  <2>2. IssuingOK'
    BY <1>1, <1>5, <2>1 DEF IssuingOK
  <2> QED BY <1>1, <1>2, <1>5, <1>6, <1>7, <1>8, <2>2, SubmittedStep
<1>9. CASE /\ ran' = [ran EXCEPT ![new] = @ + 1] /\ flushed' = flushed \cup {new}
           /\ UNCHANGED <<records, pending, release, submitting>>
  <2>1. /\ pending[new] = 0 /\ release[new].at = "none" /\ ~Given(new) /\ new \notin ending
        /\ ran[new] = 0
    BY <1>1, <1>2, Untaken
  <2>2. ran' \in [Id -> Nat] /\ ran'[new] = 1 /\ \A i \in Id : i # new => ran'[i] = ran[i]
    BY <1>9, <1>2, <2>1 DEF Shaped
  <2>3. Shaped'
    BY <1>1, <1>2, <1>5, <1>9, <2>2 DEF Shaped
  <2>4. \A i \in Id : i # new => Untouched(i)
    BY <1>1, <1>9, <2>2 DEF Untouched, Settles
  <2>5. Issued(new)'
    BY <2>2 DEF Issued
  <2>6. IssuingOK'
    BY <1>1, <1>5, <2>5 DEF IssuingOK
  <2>7. ~External(new) /\ new \notin First
    BY <1>1, <1>2 DEF Replayable, UserInstruction, External, First
  <2>8. Once(new)' /\ Lasts(new)' /\ Waiting(new)' /\ Superseded(new)'
    BY <1>1, <1>9, <2>1, <2>2, <2>7 DEF Once, Lasts, Waiting, Superseded
  <2> HIDE DEF new
  <2> QED BY <1>1, <1>2, <1>6, <1>7, <2>3, <2>4, <2>5, <2>6, <2>8, Fresh
<1> QED BY <1>1, <1>8, <1>9

\* Steps that leave the sends alone.
LEMMA Unconcerned ==
  ASSUME IInv, UNCHANGED <<records, pending, release, ran, submitting, replay, ending, flushed, skipped>>,
         turn' \in Id \cup {None},
         SchedulerOK(scheduler'), Same(scheduler', scheduler)
  PROVE  IInv'
<1>1. Shaped'
  BY DEF IInv, Shaped
<1>2. \A k \in Id : Issued(k)' <=> Issued(k)
  BY DEF Issued
<1>3. IssuingOK'
  BY <1>2, SubmissionAssumption DEF IInv, IssuingOK, Same
<1>4. \A j \in Id : Untouched(j) /\ Steady(j)
  BY <1>2, SubmissionAssumption DEF Untouched, Settles, Steady, Again, Same, Given
<1>5. \A j \in Id : Local(j)'
  BY <1>4, Bystander DEF IInv
<1> QED BY <1>1, <1>3, <1>5 DEF IInv

\* The scheduler's and the recovery's steps that touch no send.
LEMMA QuietStep ==
  ASSUME IInv, DeliverNotice \/ PassBegins \/ PassEnds \/ Suspend \/ FlushBegins \/ FlushEnds
               \/ Resume \/ Repair
  PROVE  IInv'
<1>0. SchedulerOK(scheduler) /\ turn \in Id \cup {None} /\ pending \in [Id -> 0..MaxRevision]
  BY DEF IInv, Shaped
<1>1. UNCHANGED <<records, pending, release, ran, submitting, replay, ending, flushed, skipped>> /\ turn' = turn
  BY DEF DeliverNotice, PassBegins, PassEnds, Suspend, FlushBegins, FlushEnds, Resume, Repair, NoRelease
<1>f. scheduler = [phase |-> scheduler.phase, requested |-> scheduler.requested, semantic |-> scheduler.semantic,
             cand |-> scheduler.cand, left |-> scheduler.left, on |-> scheduler.on, todo |-> scheduler.todo,
             issuing |-> scheduler.issuing]
  BY <1>0 DEF SchedulerOK
<1>2. SchedulerOK(scheduler') /\ Same(scheduler', scheduler)
  <2>1. CASE scheduler' = scheduler \/ scheduler' = QueueRelease(scheduler, TRUE)
    BY <2>1, <1>0, Queued DEF Same
  <2>2. CASE DeliverNotice
    BY <2>1, <2>2 DEF DeliverNotice
  <2>3. CASE PassBegins
    <3> DEFINE c == {<<id, pending[id]>> : id \in {i \in Id : pending[i] # 0}}
    <3>0. scheduler.phase = "replaying" /\ scheduler.todo = {} /\ scheduler.issuing = None 
          /\ (scheduler' = PassEnded(scheduler, pending, FALSE)
               \/ scheduler' = [scheduler EXCEPT !.phase = "passing", !.cand = c, !.left = c])
      BY <2>3 DEF PassBegins
    <3>1. CASE scheduler' = PassEnded(scheduler, pending, FALSE)
      <4> DEFINE again == scheduler.requested \/ (FALSE /\ \E cc \in scheduler.cand : pending[cc[1]] = cc[2])
                 ph == IF again /\ mode = "on" THEN "scheduled" ELSE "idle"
      <4>1. scheduler' = [scheduler EXCEPT !.cand = {}, !.left = {}, !.on = None, !.requested = again, !.phase = ph]
        BY <3>1 DEF PassEnded
      <4>2. ph \in {"scheduled", "idle"}
        OBVIOUS
      <4> HIDE DEF ph, again
      <4>3. scheduler' = [phase |-> ph, requested |-> again, semantic |-> scheduler.semantic,
             cand |-> {}, left |-> {}, on |-> None, todo |-> scheduler.todo,
             issuing |-> scheduler.issuing]
        BY <1>f, <4>1
      <4> QED BY <4>2, <4>3, <3>0, <1>0 DEF SchedulerOK, Same, Phases
    <3>2. CASE scheduler' = [scheduler EXCEPT !.phase = "passing", !.cand = c, !.left = c]
      <4>1. c \subseteq Id \X (1..MaxRevision)
        BY <1>0, SessionAssumption
      <4> HIDE DEF c
      <4>2. scheduler' = [phase |-> "passing", requested |-> scheduler.requested, semantic |-> scheduler.semantic,
             cand |-> c, left |-> c, on |-> scheduler.on, todo |-> scheduler.todo,
             issuing |-> scheduler.issuing]
        BY <1>f, <3>2
      <4> QED BY <4>1, <4>2, <3>0, <1>0 DEF SchedulerOK, Same, Phases
    <3> QED BY <3>0, <3>1, <3>2
  <2>4. CASE PassEnds
    <3>1. scheduler.phase # "replaying" /\ scheduler' = PassEnded(scheduler, pending, FALSE)
      BY <2>4 DEF PassEnds
    <3> QED BY <3>1, <1>0, Passed
  <2>5. CASE Suspend
    <3> DEFINE ph == IF scheduler.phase = "scheduled" THEN "idle" ELSE scheduler.phase
               f == FALSE
    <3>1. scheduler' = [scheduler EXCEPT !.requested = f, !.semantic = f, !.phase = ph]
      BY <2>5 DEF Suspend
    <3>2. ph \in Phases /\ (ph = "replaying" <=> scheduler.phase = "replaying")
          /\ (ph = "passing" <=> scheduler.phase = "passing")
      BY <1>0 DEF SchedulerOK, Phases
    <3> HIDE DEF ph, f
    <3>3. scheduler' = [phase |-> ph, requested |-> f, semantic |-> f,
             cand |-> scheduler.cand, left |-> scheduler.left, on |-> scheduler.on, todo |-> scheduler.todo,
             issuing |-> scheduler.issuing]
      BY <1>f, <3>1
    <3> QED BY <3>2, <3>3, <1>0 DEF SchedulerOK, Same, Phases
  <2>6. CASE Resume
    <3> DEFINE ph == IF scheduler.phase = "idle" THEN "scheduled" ELSE scheduler.phase
               f == TRUE
    <3>1. scheduler' = [scheduler EXCEPT !.requested = f, !.semantic = f, !.phase = ph]
      BY <2>6 DEF Resume
    <3>2. ph \in Phases /\ (ph = "replaying" <=> scheduler.phase = "replaying")
          /\ (ph = "passing" <=> scheduler.phase = "passing")
      BY <1>0 DEF SchedulerOK, Phases
    <3> HIDE DEF ph, f
    <3>3. scheduler' = [phase |-> ph, requested |-> f, semantic |-> f,
             cand |-> scheduler.cand, left |-> scheduler.left, on |-> scheduler.on, todo |-> scheduler.todo,
             issuing |-> scheduler.issuing]
      BY <1>f, <3>1
    <3> QED BY <3>2, <3>3, <1>0 DEF SchedulerOK, Same, Phases
  <2>7. CASE FlushBegins \/ FlushEnds \/ Repair
    BY <2>1, <2>7 DEF FlushBegins, FlushEnds, Repair
  <2> QED BY <2>2, <2>3, <2>4, <2>5, <2>6, <2>7
<1> QED BY <1>0, <1>1, <1>2, Unconcerned

\* The pass tries a candidate.
LEMMA PassTriesStep ==
  ASSUME IInv, NEW c \in scheduler.left, PassTries(c)
  PROVE  IInv'
<1>0. SchedulerOK(scheduler) /\ Shaped
  BY DEF IInv, Shaped
<1>f. scheduler = [phase |-> scheduler.phase, requested |-> scheduler.requested, semantic |-> scheduler.semantic,
             cand |-> scheduler.cand, left |-> scheduler.left, on |-> scheduler.on, todo |-> scheduler.todo,
             issuing |-> scheduler.issuing]
  BY <1>0 DEF SchedulerOK
<1> DEFINE id == c[1]
           r == [Resting EXCEPT !.at = "deciding", !.revision = c[2]]
<1>1. id \in Id /\ c[2] \in 1..MaxRevision /\ c[2] \in Nat
  BY <1>0, SessionAssumption DEF SchedulerOK
<1>2. /\ scheduler.phase = "passing" /\ scheduler.on = None
      /\ UNCHANGED <<records, pending, submitting, replay, turn, ending, ran, flushed, skipped>>
      /\ \/ scheduler' = [scheduler EXCEPT !.left = scheduler.left \ {c}] /\ release' = release
         \/ /\ pending[id] = c[2] /\ scheduler' = [scheduler EXCEPT !.on = id]
            /\ \/ release' = release
               \/ release[id].at = "none" /\ release' = [release EXCEPT ![id] = r]
  BY DEF PassTries, Released
<1>3. SchedulerOK(scheduler') /\ Same(scheduler', scheduler)
  <2>1. CASE scheduler' = [scheduler EXCEPT !.left = scheduler.left \ {c}]
    <3> DEFINE l == scheduler.left \ {c}
    <3>0. l \subseteq scheduler.left
      OBVIOUS
    <3> HIDE DEF l
    <3>1. scheduler' = [phase |-> scheduler.phase, requested |-> scheduler.requested, semantic |-> scheduler.semantic,
             cand |-> scheduler.cand, left |-> l, on |-> scheduler.on, todo |-> scheduler.todo,
             issuing |-> scheduler.issuing]
      BY <1>f, <2>1 DEF l
    <3> QED BY <3>0, <3>1, <1>0 DEF SchedulerOK, Same
  <2>2. CASE scheduler' = [scheduler EXCEPT !.on = id]
    <3> HIDE DEF id
    <3>1. scheduler' = [phase |-> scheduler.phase, requested |-> scheduler.requested, semantic |-> scheduler.semantic,
             cand |-> scheduler.cand, left |-> scheduler.left, on |-> id, todo |-> scheduler.todo,
             issuing |-> scheduler.issuing]
      BY <1>f, <2>2
    <3> QED BY <3>1, <1>0, <1>2 DEF SchedulerOK, Same
  <2> QED BY <1>2, <2>1, <2>2
<1>4. CASE release' = release
  BY <1>0, <1>2, <1>3, <1>4, Unconcerned DEF Shaped
<1>5. CASE pending[id] = c[2] /\ release[id].at = "none" /\ release' = [release EXCEPT ![id] = r]
  <2>1. ReleaseOK(r) /\ r.at = "deciding" /\ r.revision = c[2]
    BY <1>1, Deciding
  <2> HIDE DEF r, id
  <2>2. /\ release' = [i \in Id |-> release'[i]] /\ \A i \in Id : ReleaseOK(release'[i])
        /\ release'[id] = r /\ \A i \in Id : i # id => release'[i] = release[i]
    BY <1>0, <1>1, <1>5, <2>1, ReleaseSet
  <2>3. Shaped'
    BY <1>0, <1>2, <1>3, <2>2 DEF Shaped
  <2>4. \A i \in Id : i # id => Untouched(i)
    BY <1>2, <2>2 DEF Untouched, Settles
  <2>5. pending[id] # 0 /\ Local(id)
    BY <1>1, <1>5, SessionAssumption DEF IInv
  <2>6. records[id] # None /\ records[id].phase = "none" /\ id \notin flushed /\ ~Given(id)
    BY <2>5 DEF Local, Once, Inherited
  <2>7. Once(id)'
    BY <1>2, <2>1, <2>2, <2>5, <2>6 DEF Local, Once
  <2>8. Inherited(id)'
    <3>1. Given(id)' => Given(id)
      BY <1>0, <1>1, <1>2, <1>3, <2>4, <2>6, GivenSame
    <3> QED BY <3>1, <2>6 DEF Inherited
  <2>9. Lasts(id)'
    BY <1>2, <1>5, <2>1, <2>2, <2>5 DEF Local, Lasts
  <2>10. Waiting(id)' /\ Superseded(id)'
    BY <1>2, <2>5, <2>6 DEF Waiting, Superseded, Local, Issued
  <2>11. Local(id)'
    BY <2>7, <2>8, <2>9, <2>10 DEF Local
  <2> QED BY <1>1, <1>2, <1>3, <2>3, <2>4, <2>6, <2>11, OnlyOne
<1> QED BY <1>2, <1>4, <1>5

\* The continuations to be issued again are read once more when a run begins.
LEMMA BeginStep ==
  ASSUME IInv, Begin
  PROVE  IInv'
<1> DEFINE t == {id \in replay : Reissuable(id)}
           f == FALSE
<1>1. /\ scheduler.phase = "scheduled" /\ replay' = {}
      /\ scheduler' = [scheduler EXCEPT !.requested = f, !.semantic = f, !.phase = "replaying", !.todo = t]
      /\ UNCHANGED <<records, pending, release, submitting, skipped, turn, ending, ran, flushed>>
  BY DEF Begin, NoRelease
<1>2. Shaped /\ t \subseteq replay /\ t \subseteq Id
  BY DEF IInv, Shaped
<1> HIDE DEF t, f
<1>3. scheduler' = [phase |-> "replaying", requested |-> f, semantic |-> f,
             cand |-> scheduler.cand, left |-> scheduler.left, on |-> scheduler.on, todo |-> t,
             issuing |-> scheduler.issuing]
  <2>1. scheduler = [phase |-> scheduler.phase, requested |-> scheduler.requested, semantic |-> scheduler.semantic,
             cand |-> scheduler.cand, left |-> scheduler.left, on |-> scheduler.on, todo |-> scheduler.todo,
             issuing |-> scheduler.issuing]
    BY <1>2 DEF Shaped, SchedulerOK
  <2> QED BY <2>1, <1>1
<1>4. SchedulerOK(scheduler') /\ scheduler'.todo = t /\ scheduler'.issuing = None /\ scheduler.issuing = None
      /\ scheduler.todo = {}
  BY <1>1, <1>2, <1>3 DEF Shaped, SchedulerOK, Phases
<1>5. Shaped'
  BY <1>1, <1>2, <1>4 DEF Shaped
<1>6. IssuingOK'
  BY <1>4 DEF IssuingOK
<1>7. ASSUME NEW j \in Id PROVE Local(j)'
  <2>0. Local(j) /\ j # None
    BY SubmissionAssumption DEF IInv
  <2>1. Once(j)'
    BY <1>1, <2>0 DEF Local, Once
  <2>2. Given(j)' => Given(j)
    BY <1>1, <1>2, <1>4, <2>0 DEF Given, Again, Issued
  <2>3. Inherited(j)'
    BY <1>1, <2>0, <2>2 DEF Local, Inherited
  <2>4. Lasts(j)'
    BY <1>1, <2>0 DEF Local, Lasts
  <2>5. Waiting(j)'
    <3>1. CASE j \in replay
      <4>1. Replayable(j)
        BY <2>0, <3>1 DEF Local, Inherited, Given, Again
      <4>2. (/\ records[j] # None /\ ~records[j].archived
             /\ records[j].status = "retained" /\ ~records[j].ended /\ Undispatched(records[j])) => j \in t
        BY <3>1, <4>1 DEF t, Reissuable, Active, Existing
      <4> QED BY <1>1, <1>4, <4>2 DEF Waiting, Again
    <3>2. CASE j \notin replay
      <4>1. j \notin Again
        BY <3>2, <1>4, <2>0 DEF Again
      <4> QED BY <1>1, <2>0, <4>1 DEF Waiting, Local
    <3> QED BY <3>1, <3>2
  <2>6. Superseded(j)'
    BY <1>1, <2>0 DEF Local, Superseded, Issued
  <2> QED BY <2>1, <2>3, <2>4, <2>5, <2>6 DEF Local
<1> QED BY <1>5, <1>6, <1>7 DEF IInv

\* The superseded record is retired, or left and skipped.
LEMMA RetireOf ==
  ASSUME IInv, NEW old \in Id, old = scheduler.issuing, Retire
  PROVE  IInv'
<1> DEFINE d == [records[old] EXCEPT !.status = "cancelled", !.revision = @ + 1]
<1>1. /\ old # None
      /\ \/ records[old].phase = "none" /\ records' = [records EXCEPT ![old] = d] /\ skipped' = skipped
         \/ records' = records /\ skipped' = skipped \cup {old}
      /\ scheduler' = [scheduler EXCEPT !.issuing = None]
      /\ UNCHANGED <<pending, release, submitting, replay, turn, ending, ran, flushed>>
  BY DEF Retire, Cancelled
<1>2. Shaped /\ old \in DOMAIN NextIssue /\ old \in Id /\ Issued(NextIssue[old])
  BY <1>1, SubmissionAssumption DEF IInv, IssuingOK
<1>3. Local(old) /\ Given(old)
  BY <1>2 DEF IInv, Given, Again
<1>o. /\ records[old] # None /\ records[old].input = "none" /\ Replayable(old)
      /\ pending[old] = 0 /\ release[old].at = "none"
  BY <1>3 DEF Local, Inherited
<1>r. records[old] \in SubmissionRecord /\ records[old].revision + 1 \in Nat
  BY <1>2, <1>o DEF Shaped, RecordsOK, RecordOK, SubmissionRecord
<1>d. /\ d \in SubmissionRecord /\ d # None /\ d.phase = records[old].phase /\ d.input = records[old].input
      /\ d.status = "cancelled" /\ d.archived = records[old].archived /\ d.ended = records[old].ended
  BY <1>r, SubmissionAssumption DEF SubmissionRecord
<1>k. RecordOK(d)
  BY <1>d DEF RecordOK
<1> HIDE DEF d
<1>4. SchedulerOK(scheduler') /\ scheduler'.todo = scheduler.todo /\ scheduler'.issuing = None
  <2>1. scheduler = [phase |-> scheduler.phase, requested |-> scheduler.requested, semantic |-> scheduler.semantic,
             cand |-> scheduler.cand, left |-> scheduler.left, on |-> scheduler.on, todo |-> scheduler.todo,
             issuing |-> scheduler.issuing]
    BY <1>2 DEF Shaped, SchedulerOK
  <2>2. scheduler' = [phase |-> scheduler.phase, requested |-> scheduler.requested, semantic |-> scheduler.semantic,
             cand |-> scheduler.cand, left |-> scheduler.left, on |-> scheduler.on, todo |-> scheduler.todo,
             issuing |-> None]
    BY <2>1, <1>1
  <2> QED BY <2>2, <1>2 DEF Shaped, SchedulerOK
<1>5. /\ RecordsOK(records') /\ \A i \in Id : i # old => records'[i] = records[i]
      /\ \/ records'[old] = d
         \/ records'[old] = records[old] /\ skipped' = skipped \cup {old}
      /\ skipped \subseteq skipped'
  <2>1. CASE records' = records /\ skipped' = skipped \cup {old}
    BY <2>1, <1>2 DEF Shaped
  <2>2. CASE records' = [records EXCEPT ![old] = d] /\ skipped' = skipped
    <3>1. RecordsOK(records') /\ records'[old] = d /\ \A i \in Id : i # old => records'[i] = records[i]
      BY <2>2, <1>2, <1>k, RecordSet
    <3> QED BY <2>2, <3>1
  <2> QED BY <1>1, <2>1, <2>2
<1>6. Shaped'
  BY <1>1, <1>2, <1>4, <1>5 DEF Shaped
<1>7. IssuingOK'
  BY <1>4 DEF IssuingOK
<1>8. \A k \in Id : Issued(k)' <=> Issued(k)
  BY <1>1, <1>5, <1>d, <1>o DEF Issued
<1>9. ASSUME NEW j \in Id, j # old PROVE Local(j)'
  <2>1. Untouched(j)
    BY <1>1, <1>5, <1>9 DEF Untouched, Settles
  <2>2. Steady(j)
    BY <1>1, <1>4, <1>5, <1>8, <1>9, SubmissionAssumption DEF Steady, Again, Given
  <2> QED BY <1>2, <2>1, <2>2, Bystander DEF IInv
<1>10. Local(old)'
  <2>0. records'[old] # None /\ records'[old].phase = records[old].phase /\ records'[old].input = "none"
        /\ records'[old].ended = records[old].ended
    BY <1>5, <1>d, <1>o
  <2>1. Once(old)'
    BY <1>1, <1>3, <1>o, <2>0 DEF Local, Once
  <2>2. Inherited(old)'
    BY <1>1, <1>o, <2>0 DEF Inherited
  <2>3. Lasts(old)'
    BY <1>1, <1>3, <1>o, <2>0 DEF Local, Lasts
  <2>4. Waiting(old)'
    BY <1>5, <1>d DEF Waiting
  <2>5. Superseded(old)'
    BY <1>2, <1>8, SubmissionAssumption DEF Superseded
  <2> QED BY <2>1, <2>2, <2>3, <2>4, <2>5 DEF Local
<1> QED BY <1>6, <1>7, <1>9, <1>10 DEF IInv

LEMMA RetireStep ==
  ASSUME IInv, Retire
  PROVE  IInv'
<1>1. scheduler.issuing # None
  BY DEF Retire
<1>2. scheduler.issuing \in Id
  BY <1>1, SubmissionAssumption DEF IInv, IssuingOK
<1> QED BY <1>2, RetireOf

-----------------------------------------------------------------------------
\* What a step does that may touch every record.
Lives(r, s) ==
    \/ r = None /\ s = None
    \/ /\ r # None /\ s # None /\ s.phase = r.phase
       /\ s.input = r.input \/ (r.input # "none" /\ s.input # "none")
       /\ r.ended => s.ended
       /\ s.archived \/ (~r.archived /\ s.status = r.status /\ s.revision = r.revision)

\* A step that touches every record, and none of them where it matters.
LEMMA AllMove ==
  ASSUME IInv, RecordsOK(records'), \A j \in Id : Lives(records[j], records'[j]),
         UNCHANGED <<pending, release, ran, submitting, replay, ending, flushed, skipped>>,
         turn' \in Id \cup {None},
         SchedulerOK(scheduler'), Same(scheduler', scheduler)
  PROVE  IInv'
<1>1. Shaped'
  BY DEF IInv, Shaped
<1>2. \A k \in Id : Issued(k)' <=> Issued(k)
  BY DEF Issued, Lives
<1>3. IssuingOK'
  BY <1>2, SubmissionAssumption DEF IInv, IssuingOK, Same
<1>4. ASSUME NEW j \in Id PROVE Local(j)'
  <2>0. Local(j) /\ Lives(records[j], records'[j])
    BY DEF IInv
  <2>1. Once(j)'
    BY <2>0 DEF Local, Once, Lives
  <2>2. Given(j)' <=> Given(j)
    BY <1>2, SubmissionAssumption DEF Given, Again, Same
  <2>3. Inherited(j)'
    BY <2>0, <2>2 DEF Local, Inherited, Lives
  <2>4. Lasts(j)'
    BY <2>0 DEF Local, Lasts, Lives, Once
  <2>5. Waiting(j)'
    <3>1. j \in Again' <=> j \in Again
      BY DEF Again, Same
    <3> QED BY <2>0, <3>1 DEF Local, Waiting, Lives, Undispatched, Once
  <2>6. Superseded(j)'
    BY <2>0, <1>2, SubmissionAssumption DEF Local, Superseded, Lives
  <2> QED BY <2>1, <2>3, <2>4, <2>5, <2>6 DEF Local
<1> QED BY <1>1, <1>3, <1>4 DEF IInv

\* The steps that touch every record.
LEMMA DroppedIs ==
  ASSUME Shaped
  PROVE  RecordsOK(Dropped) /\ \A j \in Id : Lives(records[j], Dropped[j])
<1> DEFINE q(i) == i \in Active /\ records[i].input = "queued"
<1>1. Dropped = [i \in Id |-> IF q(i) THEN [records[i] EXCEPT !.input = "lost"] ELSE records[i]]
  BY DEF Dropped
<1>2. Dropped = [i \in Id |-> Dropped[i]]
  BY <1>1
<1>3. ASSUME NEW j \in Id PROVE RecordOK(Dropped[j]) /\ Lives(records[j], Dropped[j])
  <2> DEFINE d == [records[j] EXCEPT !.input = "lost"]
  <2>1. CASE q(j)
    <3>1. records[j] # None /\ records[j] \in SubmissionRecord
      BY <2>1 DEF Shaped, RecordsOK, RecordOK, Active, Existing
    <3>2. d \in SubmissionRecord /\ Dropped[j] = d
      BY <2>1, <1>1, <3>1 DEF SubmissionRecord
    <3>3. d # None /\ d.phase = records[j].phase /\ d.input = "lost" /\ d.ended = records[j].ended
          /\ d.archived = records[j].archived /\ d.status = records[j].status /\ d.revision = records[j].revision
      BY <3>1, <3>2, SubmissionAssumption DEF SubmissionRecord
    <3> HIDE DEF d
    <3>4. ~records[j].archived
      BY <2>1 DEF Active
    <3> QED BY <2>1, <3>1, <3>2, <3>3, <3>4 DEF RecordOK, Lives
  <2>2. CASE ~q(j)
    <3>1. Dropped[j] = records[j]
      BY <2>2, <1>1
    <3> QED BY <3>1 DEF Shaped, RecordsOK, RecordOK, Lives, SubmissionRecord
  <2> QED BY <2>1, <2>2
<1> QED BY <1>2, <1>3 DEF RecordsOK

LEMMA DiscardedIs ==
  ASSUME Shaped
  PROVE  RecordsOK(Discarded(records)) /\ \A j \in Id : Lives(records[j], Discarded(records)[j])
<1> DEFINE e == Discarded(records)
           q(i) == i \in Interrupted(records)
           d(i) == [records[i] EXCEPT !.archived = TRUE, !.revision = @ + 1, !.status = "cancelled"]
<1>1. e = [i \in Id |-> IF q(i) THEN d(i) ELSE records[i]]
  BY DEF Discarded
<1>i. \A i \in Id : q(i) => records[i] # None
  BY DEF Interrupted
<1> HIDE DEF q, e, d
<1>2. e = [i \in Id |-> e[i]]
  BY <1>1
<1>3. ASSUME NEW j \in Id PROVE RecordOK(e[j]) /\ Lives(records[j], e[j])
  <2>1. CASE q(j)
    <3>1. records[j] # None /\ records[j] \in SubmissionRecord
      BY <2>1, <1>i DEF Shaped, RecordsOK, RecordOK
    <3>0. records[j].revision + 1 \in Nat
      BY <3>1 DEF SubmissionRecord
    <3>2. d(j) \in SubmissionRecord /\ e[j] = d(j)
      BY <2>1, <1>1, <3>1, <3>0 DEF SubmissionRecord, d
    <3>3. d(j) # None /\ d(j).phase = records[j].phase /\ d(j).input = records[j].input
          /\ d(j).ended = records[j].ended /\ d(j).archived
      BY <3>1, <3>2, SubmissionAssumption DEF SubmissionRecord, d
    <3> QED BY <3>1, <3>2, <3>3 DEF RecordOK, Lives
  <2>2. CASE ~q(j)
    <3>1. e[j] = records[j]
      BY <2>2, <1>1
    <3> QED BY <3>1 DEF Shaped, RecordsOK, RecordOK, Lives, SubmissionRecord
  <2> QED BY <2>1, <2>2
<1> QED BY <1>2, <1>3 DEF RecordsOK, e

LEMMA ArchivedLives ==
  ASSUME NEW rs, RecordsOK(rs), \A j \in Id : Lives(records[j], rs[j])
  PROVE  RecordsOK(Archived(rs)) /\ \A j \in Id : Lives(records[j], Archived(rs)[j])
<1>1. RecordsOK(Archived(rs)) /\ \A i \in Id : Settles(rs[i], Archived(rs)[i])
  BY ArchivedIs
<1>2. ASSUME NEW j \in Id PROVE Lives(records[j], Archived(rs)[j])
  <2> DEFINE s == Archived(rs)[j]
  <2>0. Settles(rs[j], s) /\ Lives(records[j], rs[j])
    BY <1>1
  <2> HIDE DEF s
  <2>1. CASE s = rs[j]
    BY <2>0, <2>1 DEF s
  <2>2. CASE rs[j] # None /\ s # None /\ s = [rs[j] EXCEPT !.archived = TRUE]
    <3>1. rs[j] \in SubmissionRecord
      BY <2>2 DEF RecordsOK, RecordOK
    <3>2. s.phase = rs[j].phase /\ s.input = rs[j].input /\ s.ended = rs[j].ended /\ s.archived
      BY <2>2, <3>1 DEF SubmissionRecord
    <3>3. Lives(records[j], s)
      BY <2>0, <2>2, <3>2 DEF Lives
    <3> QED BY <3>3 DEF s
  <2> QED BY <2>0, <2>1, <2>2 DEF Settles
<1> QED BY <1>1, <1>2

LEMMA TurnEndsStep ==
  ASSUME IInv, NEW how, TurnEnds(how)
  PROVE  IInv'
<1>1. /\ records' \in {records, Dropped} /\ turn' = None
      /\ UNCHANGED <<pending, release, submitting, scheduler, replay, ending, ran, flushed, skipped>>
  BY DEF TurnEnds, history
<1>2. RecordsOK(records') /\ \A j \in Id : Lives(records[j], records'[j])
  <2>1. CASE records' = records
    BY <2>1 DEF IInv, Shaped, Lives, RecordsOK, RecordOK, SubmissionRecord
  <2>2. CASE records' = Dropped
    BY <2>2, DroppedIs DEF IInv
  <2> QED BY <1>1, <2>1, <2>2
<1>3. SchedulerOK(scheduler') /\ Same(scheduler', scheduler)
  BY <1>1 DEF IInv, Shaped, Same
<1> QED BY <1>1, <1>2, <1>3, AllMove

LEMMA ClearStep ==
  ASSUME IInv, Clear
  PROVE  IInv'
<1>1. /\ records' = Archived(Discarded(records))
      /\ scheduler' = scheduler \/ scheduler' = QueueRelease(scheduler, TRUE)
      /\ UNCHANGED <<pending, release, submitting, replay, turn, ending, ran, flushed, skipped>>
  BY DEF Clear, NoRelease
<1>0. Shaped
  BY DEF IInv
<1>2. RecordsOK(records') /\ \A j \in Id : Lives(records[j], records'[j])
  <2>1. RecordsOK(Discarded(records)) /\ \A j \in Id : Lives(records[j], Discarded(records)[j])
    BY <1>0, DiscardedIs
  <2> QED BY <1>1, <2>1, ArchivedLives
<1>3. SchedulerOK(scheduler') /\ Same(scheduler', scheduler)
  BY <1>0, <1>1, Queued DEF Shaped, Same
<1> QED BY <1>0, <1>1, <1>2, <1>3, AllMove DEF Shaped

\* At an attachment callbacks that did not survive are ended,
LEMMA RecoveredIs ==
  ASSUME NEW rs, RecordsOK(rs), \A j \in Id : Lives(records[j], rs[j])
  PROVE  LET e == CallbacksRecovered(rs)
         IN /\ RecordsOK(e) /\ \A j \in Id : Lives(records[j], e[j])
            /\ \A j \in Id : (/\ e[j] # None /\ ~e[j].archived /\ e[j].status = "retained"
                              /\ ~Replayable(j) /\ EndedCallback(j, e[j])) => e[j].ended
<1> DEFINE e == CallbacksRecovered(rs)
           q(i) == /\ rs[i] # None /\ ~rs[i].archived /\ rs[i].status = "retained"
                   /\ ~Replayable(i) /\ EndedCallback(i, rs[i])
<1>1. e = [i \in Id |-> IF q(i) THEN [rs[i] EXCEPT !.ended = TRUE] ELSE rs[i]]
  BY DEF CallbacksRecovered
<1> HIDE DEF e
<1>2. e = [i \in Id |-> e[i]]
  BY <1>1
<1>3. ASSUME NEW j \in Id 
      PROVE /\ RecordOK(e[j]) /\ Lives(records[j], e[j])
            /\ (/\ e[j] # None /\ ~e[j].archived /\ e[j].status = "retained"
                /\ ~Replayable(j) /\ EndedCallback(j, e[j])) => e[j].ended
  <2> DEFINE d == [rs[j] EXCEPT !.ended = TRUE]
  <2>0. Lives(records[j], rs[j])
    OBVIOUS
  <2>1. CASE q(j)
    <3>1. rs[j] # None /\ rs[j] \in SubmissionRecord
      BY <2>1 DEF RecordsOK, RecordOK
    <3>2. d \in SubmissionRecord /\ e[j] = d
      BY <2>1, <1>1, <3>1 DEF SubmissionRecord
    <3>3. d # None /\ d.phase = rs[j].phase /\ d.input = rs[j].input /\ d.ended
          /\ d.archived = rs[j].archived /\ d.status = rs[j].status /\ d.revision = rs[j].revision
      BY <3>1, <3>2, SubmissionAssumption DEF SubmissionRecord
    <3> HIDE DEF d
    <3>4. RecordOK(d)
      BY <3>2 DEF RecordOK
    <3>5. Lives(records[j], d)
      BY <2>0, <3>1, <3>3 DEF Lives
    <3> QED BY <3>2, <3>3, <3>4, <3>5
  <2>2. CASE ~q(j)
    <3>1. e[j] = rs[j]
      BY <2>2, <1>1
    <3> QED BY <2>0, <2>2, <3>1 DEF RecordsOK
  <2> QED BY <2>1, <2>2
<1> QED BY <1>2, <1>3 DEF RecordsOK, e

\* and what is left open is inherited.
LEMMA ReopenStep ==
  ASSUME IInv, Reopen
  PROVE  IInv'
<1> DEFINE t == TRUE
           f == FALSE
<1>0. Shaped /\ None \notin Id
  BY SubmissionAssumption DEF IInv
<1>1. /\ records' = CallbacksRecovered(Archived(Dropped))
      /\ replay' = {id \in Id : /\ records'[id] # None /\ ~records'[id].archived /\ Replayable(id)
                                /\ records'[id].status = "retained" /\ ~records'[id].ended
                                /\ Undispatched(records'[id])}
      /\ pending' = [id \in Id |-> 0] /\ release' = [id \in Id |-> Resting]
      /\ submitting' = {} /\ ending' = {} /\ turn' = None
      /\ scheduler' = [Idle EXCEPT !.phase = "scheduled", !.requested = t, !.semantic = t]
      /\ UNCHANGED <<ran, flushed, skipped>>
  BY DEF Reopen, history
<1>2. /\ RecordsOK(records') /\ \A j \in Id : Lives(records[j], records'[j])
      /\ \A j \in Id : (/\ records'[j] # None /\ ~records'[j].archived /\ records'[j].status = "retained"
                        /\ ~Replayable(j) /\ EndedCallback(j, records'[j])) => records'[j].ended
  <2>1. RecordsOK(Dropped) /\ \A j \in Id : Lives(records[j], Dropped[j])
    BY <1>0, DroppedIs
  <2>2. RecordsOK(Archived(Dropped)) /\ \A j \in Id : Lives(records[j], Archived(Dropped)[j])
    BY <2>1, ArchivedLives
  <2> DEFINE rs == Archived(Dropped)
  <2> HIDE DEF rs
  <2>3. RecordsOK(rs) /\ (\A j \in Id : Lives(records[j], rs[j])) /\ records' = CallbacksRecovered(rs)
    BY <1>1, <2>2 DEF rs
  <2> QED BY <2>3, RecoveredIs
<1>3. SchedulerOK(scheduler') /\ scheduler'.todo = {} /\ scheduler'.issuing = None
  <2>1. Idle = [phase |-> "idle", requested |-> f, semantic |-> f, cand |-> {},
                left |-> {}, on |-> None, todo |-> {}, issuing |-> None]
    BY DEF Idle
  <2> HIDE DEF t, f
  <2>2. scheduler' = [phase |-> "scheduled", requested |-> t, semantic |-> t, cand |-> {},
                      left |-> {}, on |-> None, todo |-> {}, issuing |-> None]
    BY <1>1, <2>1
  <2> QED BY <2>2 DEF SchedulerOK, Phases
<1>4. pending' \in [Id -> 0..MaxRevision]
  BY <1>1, SessionAssumption
<1>5. release' = [i \in Id |-> release'[i]] /\ \A i \in Id : ReleaseOK(release'[i])
  BY <1>1, Rested
<1>6. Shaped'
  BY <1>0, <1>1, <1>2, <1>3, <1>4, <1>5 DEF Shaped
<1>7. IssuingOK'
  BY <1>3 DEF IssuingOK
<1>8. \A k \in Id : Issued(k)' <=> Issued(k)
  BY <1>1, <1>2 DEF Issued, Lives
<1>9. ASSUME NEW j \in Id PROVE Local(j)'
  <2>0. Local(j) /\ Lives(records[j], records'[j]) /\ pending'[j] = 0 /\ release'[j].at = "none" 
        /\ (j \in Again' <=> j \in replay')
    BY <1>0, <1>1, <1>2, <1>3, Rested DEF IInv, Again
  <2>1. Once(j)'
    BY <1>1, <2>0 DEF Local, Once, Lives
  <2>2. Inherited(j)'
    <3>1. CASE j \in replay'
      <4>1. records'[j] # None /\ Replayable(j) /\ Undispatched(records'[j])
        BY <3>1, <1>1
      <4>2. records'[j].input = "none"
        BY <4>1, <2>1 DEF Undispatched, Once
      <4> QED BY <4>1, <4>2, <2>0 DEF Inherited
    <3>2. CASE j \in DOMAIN NextIssue /\ Issued(NextIssue[j])'
      <4>1. Given(j)
        BY <3>2, <1>8, SubmissionAssumption DEF Given
      <4>2. records[j] # None /\ records[j].input = "none" /\ Replayable(j)
        BY <4>1, <2>0 DEF Local, Inherited
      <4>3. records'[j] # None /\ records'[j].input = "none"
        BY <4>2, <2>0 DEF Lives
      <4> QED BY <4>2, <4>3, <2>0 DEF Inherited
    <3> QED BY <3>1, <3>2, <2>0 DEF Inherited, Given
  <2>4. Lasts(j)'
    BY <1>1, <2>0 DEF Lasts
  <2>5. Waiting(j)'
    <3>1. SUFFICES ASSUME records'[j] # None, ~records'[j].archived, records'[j].status = "retained",
                          ~records'[j].ended, Undispatched(records'[j])
                   PROVE  j \in replay' \/ (External(j) /\ records'[j].phase = "failed")
      BY <2>0 DEF Waiting
    <3>2. CASE Replayable(j)
      BY <3>1, <3>2, <1>1
    <3>3. CASE ~Replayable(j)
      <4>1. ~EndedCallback(j, records'[j])
        BY <1>2, <3>1, <3>3
      <4> QED BY <3>1, <4>1 DEF EndedCallback, Undispatched
    <3> QED BY <3>2, <3>3
  <2>6. Superseded(j)'
    BY <2>0, <1>8, SubmissionAssumption DEF Local, Superseded, Lives
  <2> QED BY <2>1, <2>2, <2>4, <2>5, <2>6 DEF Local
<1> QED BY <1>6, <1>7, <1>9 DEF IInv

-----------------------------------------------------------------------------

\* The invariant holds initially, and every step keeps it.
LEMMA InitIInv == Init => IInv
<1> SUFFICES ASSUME Init PROVE IInv
  OBVIOUS
<1>0. None \notin Id
  BY SubmissionAssumption
<1>1. SchedulerOK(scheduler) /\ scheduler.todo = {} /\ scheduler.issuing = None
  BY DEF Init, Idle, SchedulerOK, Phases
<1>2. release = [i \in Id |-> release[i]] /\ \A i \in Id : ReleaseOK(release[i]) /\ release[i].at = "none"
  BY Rested DEF Init
<1>3. Shaped
  BY <1>1, <1>2, SessionAssumption DEF Init, Shaped, RecordsOK, RecordOK
<1>4. IssuingOK
  BY <1>1 DEF IssuingOK
<1>5. \A k \in Id : ~Issued(k)
  BY DEF Init, Issued
<1>6. ASSUME NEW j \in Id PROVE Local(j)
  <2>1. ~Given(j)
    BY <1>0, <1>1, <1>5, SubmissionAssumption DEF Given, Again, Init
  <2>2. records[j] = None /\ pending[j] = 0 /\ ran[j] = 0 /\ flushed = {} /\ ending = {}
    BY DEF Init
  <2> QED BY <2>1, <2>2, <1>2 DEF Local, Once, Inherited, Lasts, Waiting, Superseded
<1> QED BY <1>3, <1>4, <1>6 DEF IInv

LEMMA StepIInv == IInv /\ [Next]_vars => IInv'
<1> SUFFICES ASSUME IInv, [Next]_vars PROVE IInv'
  OBVIOUS
<1>1. CASE UNCHANGED vars
  <2>1. Shaped'
    BY <1>1 DEF vars, session, history, IInv, Shaped
  <2>2. SchedulerOK(scheduler') /\ Same(scheduler', scheduler) /\ turn' \in Id \cup {None}
    BY <1>1 DEF vars, session, IInv, Shaped, Same
  <2> QED BY <1>1, <2>2, Unconcerned DEF vars, session, history
<1>2. ASSUME NEW id \in Id, Submit(id) \/ (\E authority \in {"allowed", "revoked"} : RetainExternal(id, authority)) PROVE IInv'
  BY <1>2, SubmitStep, RetainNewStep, ReattachStep
<1>3. ASSUME NEW id \in Id, ReleaseStep(id) PROVE IInv'
  BY <1>3, DecideStep, RecordStep, HoldStep, PrepareStep, BusyStep, DispatchStep, NotDispatchedStep,
     ObserveStep, ReturnStep, FailStep, EndCallbackStep, OrphanedStep, RevokeStep DEF ReleaseStep
<1>4. ASSUME NEW id \in Id, \/ ClaimQueued(id) \/ Reissue(id) \/ RuntimeEnds(id) \/ RuntimeEnded(id)
                            \/ CancelExternal(id) \/ Flush(id)
      PROVE IInv'
  BY <1>4, ObserveStep, ReissueStep, RuntimeEndsStep, RuntimeEndedStep, CancelExternalStep, FlushStep
<1>5. ASSUME \/ \E how \in {"stop", "aborted", "withheld"} : TurnEnds(how)
             \/ \E c \in scheduler.left : PassTries(c)
             \/ Begin \/ Retire \/ Clear \/ Reopen
      PROVE IInv'
  BY <1>5, TurnEndsStep, PassTriesStep, BeginStep, RetireStep, ClearStep, ReopenStep
<1> QED BY <1>1, <1>2, <1>3, <1>4, <1>5, QuietStep DEF Next

\* A send runs at most once, whichever of admission, the flush and the reissue
\* gets to it and however often the process crashes, and a message whose input
\* the host took is not issued again.
THEOREM RunsOnce == Spec => []AtMostOnce
<1>1. IInv => AtMostOnce
  <2> SUFFICES ASSUME IInv, NEW id \in Id 
               PROVE  /\ ran[id] <= 1
                      /\ (records[id] # None /\ records[id].input # "none" /\ id \in DOMAIN NextIssue)
                            => ran[NextIssue[id]] = 0
    BY DEF AtMostOnce
  <2>1. Local(id)
    BY DEF IInv
  <2>2. ran[id] <= 1
    BY <2>1 DEF Local, Once
  <2>3. ASSUME id \in DOMAIN NextIssue, records[id].input # "none"
        PROVE  ran[NextIssue[id]] = 0
    <3>1. ~Issued(NextIssue[id])
      BY <2>1, <2>3 DEF Local, Inherited, Given
    <3>2. ran[NextIssue[id]] \in Nat
      BY <2>3, SubmissionAssumption DEF IInv, Shaped
    <3> QED BY <3>1, <3>2 DEF Issued
  <2> QED BY <2>2, <2>3
<1> QED BY InitIInv, StepIInv, <1>1, PTL DEF Spec

\* What a session accepted and never ran has a callback, a release, a reissue on
\* its way or an end the user can see; a continuation is given up only for one.
THEOREM NothingForgotten == Spec => []Accounted
<1>1. IInv => Accounted
  <2> SUFFICES ASSUME IInv PROVE Accounted
    OBVIOUS
  <2>1. TypeOK
    BY DEF IInv, Shaped, SchedulerOK, Phases, TypeOK
  <2>2. ASSUME NEW id \in Active PROVE
          LET r == records[id] IN
          /\ (r.status = "retained" /\ ~r.ended /\ Undispatched(r)) =>
                \/ pending[id] # 0
                \/ release[id].at \in {"intent", "failing"}
                \/ id \in replay \cup scheduler.todo \cup {scheduler.issuing} \cup skipped \cup flushed
                \/ External(id) /\ r.phase = "failed"
          /\ (r.status # "retained" /\ Replayable(id) /\ r.phase = "none") =>
                records[NextIssue[id]] # None \/ ran[NextIssue[id]] > 0
    <3>1. id \in Id /\ records[id] # None /\ ~records[id].archived
      BY DEF Active, Existing
    <3>2. Waiting(id) /\ Superseded(id)
      BY <3>1 DEF IInv, Local
    <3> QED BY <3>1, <3>2 DEF Waiting, Superseded, Issued, Again
  <2> QED BY <2>1, <2>2 DEF Accounted
<1> QED BY InitIInv, StepIInv, <1>1, PTL DEF Spec

-----------------------------------------------------------------------------
(* No send is left behind.  While something is under way that asks for a pass  *)
(* (Coming) there is nothing to show; each thing that ends hands over to the   *)
(* next, until a pass begins, which knows of every callback.  From then on     *)
(* what would be admitted is being released, or the pass has yet to try it.    *)

\* Something is under way that asks for a pass, or is the beginning of one.
Coming ==
    \/ mode # "on" \/ turn # None \/ submitting # {} \/ ending # {} \/ notice = TRUE
    \/ scheduler.requested = TRUE \/ scheduler.phase \in {"scheduled", "replaying"}

Quiet == silent = {} /\ ~Coming

\* What holds of the scheduler's state s in mode m at any time.
Sane(s, m) ==
    /\ s.left \subseteq s.cand
    /\ s.phase # "passing" => s.left = {}
    /\ s.requested \in BOOLEAN /\ s.semantic \in BOOLEAN
    /\ s.semantic = TRUE => s.requested = TRUE
    /\ m = "on" /\ s.phase = "idle" => s.requested = FALSE

\* A callback is of an open record; what is released without an adapter's
\* message or a submit is released by a pass.
Kept(id) ==
    /\ pending[id] # 0 =>
          /\ records[id] # None /\ ~records[id].archived /\ records[id].status = "retained"
          /\ records[id].ended => id \in ending
    /\ (~External(id) /\ release[id].at # "none" /\ id \notin submitting) => scheduler.on = id

\* The release is going to take the callback.
Good(id) ==
    \/ release[id].at \in {"deciding", "preparing"}
    \/ release[id].at = "recording" /\ release[id].allowed

\* What would be admitted is being released, or a pass has yet to try it.
Hoped(id) ==
    (pending[id] # 0 /\ Admissible(id)) =>
        \/ Good(id)
        \/ <<id, pending[id]>> \in scheduler.left /\ scheduler.on # id

\* The release a pass waits for has its callback, or can be dispatched; and a
\* pass knows of every callback that is not an adapter's.
Followed(id) ==
    /\ scheduler.on = id =>
          /\ release[id].at \in {"deciding", "recording", "preparing"} => pending[id] # 0
          /\ release[id].at = "intent" => Dispatchable(id, release[id].revision)
    /\ (scheduler.phase = "passing" /\ pending[id] # 0 /\ ~External(id)) =>
          <<id, pending[id]>> \in scheduler.cand

Steadfast ==
    /\ notice \in BOOLEAN
    /\ Sane(scheduler, mode)
    /\ scheduler.on # None => scheduler.on \in Id /\ release[scheduler.on].at # "none"
    /\ \A id \in Id : Kept(id)

Expected == \A id \in Id : Hoped(id) /\ Followed(id)

RInv == Steadfast /\ (Quiet => Expected)

-----------------------------------------------------------------------------
\* What asking for a pass sets,
LEMMA QueuedIs ==
  ASSUME NEW s, SchedulerOK(s)
  PROVE  LET q == QueueRelease(s, TRUE)
         IN /\ mode # "on" => q = s
            /\ mode = "on" =>
                 /\ q.requested = TRUE /\ q.semantic = TRUE
                 /\ q.phase = IF s.phase = "idle" THEN "scheduled" ELSE s.phase
                 /\ q.cand = s.cand /\ q.left = s.left /\ q.on = s.on
                 /\ q.issuing = s.issuing
<1> DEFINE ph == IF s.phase = "idle" THEN "scheduled" ELSE s.phase
           sem == s.semantic \/ TRUE
           q == [s EXCEPT !.requested = TRUE, !.semantic = sem, !.phase = ph]
<1>1. /\ mode # "on" => QueueRelease(s, TRUE) = s 
      /\ mode = "on" => QueueRelease(s, TRUE) = q
  BY DEF QueueRelease
<1>2. sem = TRUE
  OBVIOUS
<1> HIDE DEF ph, sem
<1>00. q = [s EXCEPT !.requested = TRUE, !.semantic = sem, !.phase = ph]
  OBVIOUS
<1> HIDE DEF q
<1>0. s = [phase |-> s.phase, requested |-> s.requested, semantic |-> s.semantic,
             cand |-> s.cand, left |-> s.left, on |-> s.on, todo |-> s.todo,
             issuing |-> s.issuing]
  BY DEF SchedulerOK
<1>3. q = [phase |-> ph, requested |-> TRUE, semantic |-> sem, cand |-> s.cand,
           left |-> s.left, on |-> s.on, todo |-> s.todo, issuing |-> s.issuing]
  BY <1>0, <1>00
<1>4. /\ q.requested = TRUE /\ q.semantic = sem /\ q.phase = ph
      /\ q.cand = s.cand /\ q.left = s.left /\ q.on = s.on /\ q.issuing = s.issuing
  BY <1>3
<1>5. CASE mode = "on"
  <2>1. QueueRelease(s, TRUE) = q
    BY <1>1, <1>5
  <2> QED BY <1>2, <1>4, <1>5, <2>1 DEF ph
<1>6. CASE mode # "on"
  BY <1>1, <1>6
<1> QED BY <1>5, <1>6

\* and what the end of a pass does.
LEMMA PassedIs ==
  ASSUME NEW s, SchedulerOK(s), Sane(s, mode), NEW pend, NEW released \in BOOLEAN
  PROVE  LET q == PassEnded(s, pend, released)
         IN /\ q.left = {} /\ q.on = None /\ q.semantic = s.semantic
            /\ q.issuing = s.issuing
            /\ q.requested \in BOOLEAN
            /\ s.requested = TRUE => q.requested = TRUE
            /\ released = TRUE => \A c \in s.cand : pend[c[1]] = c[2] => q.requested = TRUE
            /\ q.phase \in {"idle", "scheduled"}
            /\ Sane(q, mode)
<1> DEFINE again == s.requested \/ (released /\ \E c \in s.cand : pend[c[1]] = c[2])
           ph == IF again /\ mode = "on" THEN "scheduled" ELSE "idle"
           q == PassEnded(s, pend, released)
<1>0. s.requested \in BOOLEAN /\ s.semantic \in BOOLEAN /\ (s.semantic = TRUE => s.requested = TRUE)
  BY DEF Sane
<1>4. again \in BOOLEAN /\ ((again = TRUE) <=> s.requested = TRUE \/ (released /\ \E c \in s.cand : pend[c[1]] = c[2]))
  BY <1>0
<1>5. ph = IF again = TRUE /\ mode = "on" THEN "scheduled" ELSE "idle"
  BY <1>4
<1>1. q = [s EXCEPT !.cand = {}, !.left = {}, !.on = None, !.requested = again, !.phase = ph]
  BY DEF PassEnded
<1> HIDE DEF ph, again, q
<1>2. q = [phase |-> ph, requested |-> again,
           semantic |-> s.semantic, cand |-> {}, left |-> {}, on |-> None, todo |-> s.todo, issuing |-> s.issuing]
  BY <1>1 DEF SchedulerOK
<1>3. q.left = {} /\ q.cand = {} /\ q.on = None /\ q.semantic = s.semantic /\ q.requested = again /\ q.phase = ph
      /\ q.issuing = s.issuing
  BY <1>2
<1>6. Sane(q, mode)
  BY <1>0, <1>3, <1>4, <1>5 DEF Sane
<1> QED BY <1>3, <1>4, <1>5, <1>6 DEF q

\* What the end of a release tells the scheduler.
LEMMA EndTold ==
  ASSUME Shaped, Sane(scheduler, mode), NEW id \in Id, NEW result, NEW rs, NEW pend, NEW asks,
         Done(id, result, rs, pend, asks)
  PROVE  /\ Sane(scheduler', mode)
         /\ scheduler'.on = IF scheduler.on = id THEN None ELSE scheduler.on
         /\ scheduler.requested = TRUE => scheduler'.requested = TRUE
         /\ scheduler.phase \in {"scheduled", "replaying"} => scheduler'.phase = scheduler.phase
         /\ asks /\ mode = "on" => scheduler'.requested = TRUE
<1> DEFINE fails == id \in submitting /\ result = "error"
           left == IF fails THEN [pend EXCEPT ![id] = 0] ELSE pend
           pt == PassTold(scheduler, id, result, left)
           told == ReissueTold(pt, id, result)
<1>1. scheduler' = IF asks \/ fails THEN QueueRelease(told, TRUE) ELSE told
  BY DEF Done
<1>2. SchedulerOK(scheduler) /\ id # None
  BY SubmissionAssumption DEF Shaped
<1> HIDE DEF left, fails
<1>3. SchedulerOK(pt) /\ pt.issuing = scheduler.issuing
  BY <1>2, Told DEF Same
<1>4. SchedulerOK(told)
  BY <1>3, Retold
<1>5. /\ Sane(pt, mode) /\ pt.on = (IF scheduler.on = id THEN None ELSE scheduler.on)
      /\ scheduler.requested = TRUE => pt.requested = TRUE
      /\ scheduler.phase \in {"scheduled", "replaying"} => pt.phase = scheduler.phase
  <2>1. CASE scheduler.on # id
    BY <2>1, <1>2 DEF PassTold
  <2>2. CASE scheduler.on = id /\ result = "no"
    <3> DEFINE l == {c \in scheduler.left : c[1] # id}
    <3>1. pt = [scheduler EXCEPT !.on = None, !.left = l]
      BY <2>2 DEF PassTold
    <3>2. l \subseteq scheduler.left
      OBVIOUS
    <3> HIDE DEF l, pt
    <3>3. pt = [phase |-> scheduler.phase, requested |-> scheduler.requested,
                semantic |-> scheduler.semantic, cand |-> scheduler.cand, left |-> l, on |-> None,
                todo |-> scheduler.todo, issuing |-> scheduler.issuing]
      BY <3>1, <1>2 DEF SchedulerOK
    <3>4. /\ pt.phase = scheduler.phase /\ pt.requested = scheduler.requested /\ pt.on = None
          /\ pt.left = l /\ pt.cand = scheduler.cand /\ pt.semantic = scheduler.semantic
      BY <3>3
    <3>5. Sane(pt, mode)
      BY <3>2, <3>4 DEF Sane
    <3> QED BY <2>2, <3>4, <3>5
  <2>3. CASE scheduler.on = id /\ result # "no"
    <3> DEFINE through == result = "yes"
    <3>1. pt = PassEnded(scheduler, left, through)
      BY <2>3 DEF PassTold
    <3>2. scheduler.phase = "passing"
      BY <2>3, <1>2 DEF SchedulerOK
    <3>3. through \in BOOLEAN
      OBVIOUS
    <3> HIDE DEF pt, through
    <3>4. /\ pt.on = None /\ Sane(pt, mode)
          /\ scheduler.requested = TRUE => pt.requested = TRUE
      BY <3>1, <3>3, <1>2, PassedIs
    <3>5. scheduler.phase \notin {"scheduled", "replaying"}
      BY <3>2
    <3> QED BY <2>3, <3>4, <3>5
  <2> QED BY <2>1, <2>2, <2>3
<1>6. /\ Sane(told, mode) /\ told.on = pt.on /\ told.requested = pt.requested
      /\ told.phase = pt.phase
  <2>1. told \in {pt, [pt EXCEPT !.issuing = None]}
    BY DEF ReissueTold
  <2> HIDE DEF pt, told
  <2>2. CASE told = [pt EXCEPT !.issuing = None]
    <3>1. told = [phase |-> pt.phase, requested |-> pt.requested, semantic |-> pt.semantic,
                  cand |-> pt.cand, left |-> pt.left, on |-> pt.on, todo |-> pt.todo, issuing |-> None]
      BY <1>3, <2>2 DEF SchedulerOK
    <3> QED BY <3>1, <1>5 DEF Sane
  <2> QED BY <2>1, <2>2, <1>5
<1> HIDE DEF pt, told
<1>7. CASE scheduler' = told
  <2>1. ~(asks /\ mode = "on") \/ scheduler'.requested = TRUE
    BY <1>1, <1>4, <1>7, QueuedIs
  <2> QED BY <1>5, <1>6, <1>7, <2>1
<1>8. CASE scheduler' = QueueRelease(told, TRUE)
  <2>1. CASE mode = "on"
    <3>1. /\ scheduler'.requested = TRUE /\ scheduler'.semantic = TRUE
          /\ scheduler'.phase = IF told.phase = "idle" THEN "scheduled" ELSE told.phase
          /\ scheduler'.cand = told.cand /\ scheduler'.left = told.left /\ scheduler'.on = told.on
      BY <1>4, <1>8, <2>1, QueuedIs
    <3>2. Sane(scheduler', mode)
      BY <1>6, <3>1, <2>1 DEF Sane
    <3> QED BY <1>5, <1>6, <3>1, <3>2
  <2>2. CASE mode # "on"
    BY <1>4, <1>5, <1>6, <1>8, <2>2, QueuedIs
  <2> QED BY <2>1, <2>2
<1> QED BY <1>1, <1>7, <1>8

LEMMA QueuedSane ==
  ASSUME NEW s, SchedulerOK(s), Sane(s, mode)
  PROVE  Sane(QueueRelease(s, TRUE), mode) /\ QueueRelease(s, TRUE).on = s.on
<1> DEFINE q == QueueRelease(s, TRUE)
<1>1. CASE mode = "on"
  <2>1. /\ q.requested = TRUE /\ q.semantic = TRUE
        /\ q.phase = IF s.phase = "idle" THEN "scheduled" ELSE s.phase
        /\ q.cand = s.cand /\ q.left = s.left /\ q.on = s.on
    BY <1>1, QueuedIs
  <2> HIDE DEF q
  <2>2. Sane(q, mode)
    BY <1>1, <2>1 DEF Sane
  <2> QED BY <2>1, <2>2 DEF q
<1>2. CASE mode # "on"
  BY <1>2, QueuedIs
<1> QED BY <1>1, <1>2

\* A record whose callback is still there is nobody's to settle or drop.
LEMMA OpenStays ==
  ASSUME IInv, Steadfast, NEW i \in Id, pending[i] # 0
  PROVE  /\ records[i] # None /\ ~records[i].archived /\ records[i].status = "retained"
         /\ records[i].phase = "none" /\ records[i].input = "none"
         /\ records[i].revision = pending[i]
         /\ Archived(records)[i] = records[i] /\ Dropped[i] = records[i]
         /\ Archived(Discarded(records))[i] = records[i]
<1>1. Local(i) /\ Kept(i)
  BY DEF IInv, Steadfast
<1>2. /\ records[i] # None /\ ~records[i].archived /\ records[i].status = "retained"
      /\ records[i].phase = "none" /\ records[i].input = "none"
      /\ records[i].revision = pending[i]
  BY <1>1 DEF Local, Once, Lasts, Kept
<1>3. Discarded(records)[i] = records[i]
  BY <1>2 DEF Discarded, Interrupted
<1>4. Archived(records)[i] = records[i] /\ Dropped[i] = records[i]
  BY <1>2 DEF Archived, FullyConsumed, CancellationSettled, Dropped
<1>5. Archived(Discarded(records))[i] = records[i]
  BY <1>2, <1>3 DEF Archived, FullyConsumed, CancellationSettled
<1> QED BY <1>2, <1>4, <1>5

\* The end of a release.
LEMMA EndKeeps ==
  ASSUME IInv, Steadfast, NEW id \in Id, NEW result, NEW rs, NEW pend, NEW asks,
         RecordsOK(rs), pend \in [Id -> 0..MaxRevision],
         Done(id, result, rs, pend, asks), UNCHANGED <<mode, ending>>,
         \A i \in Id : i # id => rs[i] = records[i] /\ pend[i] = pending[i],
         pend[id] # 0 => rs[id] = records[id] /\ pend[id] = pending[id]
  PROVE  Steadfast'
<1>0. Shaped /\ Sane(scheduler, mode) /\ notice \in BOOLEAN
  BY DEF IInv, Steadfast
<1>1. /\ Sane(scheduler', mode)
      /\ scheduler'.on = IF scheduler.on = id THEN None ELSE scheduler.on
  BY <1>0, EndTold
<1>2. /\ release' = [release EXCEPT ![id] = Resting]
      /\ \/ records' = rs /\ pending' = pend
         \/ records' = CallbackEnded(rs, id) /\ pending' = [pend EXCEPT ![id] = 0]
  BY <1>0, Completed
<1>3. submitting' = submitting \ {id} /\ notice' \in BOOLEAN
  BY <1>0 DEF Done
<1>4. release'[id].at = "none" /\ \A i \in Id : i # id => release'[i] = release[i]
  BY <1>0, <1>2, Rested DEF Shaped
<1>e. \A i \in Id : i # id => CallbackEnded(rs, id)[i] = rs[i]
  <2> DEFINE ends == CallbackEnded(rs, id)
  <2>1. ends = rs \/ ends = [rs EXCEPT ![id].ended = TRUE]
    BY DEF CallbackEnded
  <2>2. rs = [i \in Id |-> rs[i]]
    BY DEF RecordsOK
  <2> HIDE DEF ends
  <2>3. \A i \in Id : i # id => ends[i] = rs[i]
    BY <2>1, <2>2
  <2> QED BY <2>3 DEF ends
<1>5. /\ \A i \in Id : i # id => records'[i] = records[i] /\ pending'[i] = pending[i]
      /\ pending'[id] # 0 => records'[id] = records[id] /\ pending'[id] = pending[id]
  <2>1. CASE records' = rs /\ pending' = pend
    BY <2>1
  <2>2. CASE records' = CallbackEnded(rs, id) /\ pending' = [pend EXCEPT ![id] = 0]
    <3>1. \A i \in Id : i # id => records'[i] = rs[i]
      BY <2>2, <1>e
    <3>2. pending'[id] = 0 /\ \A i \in Id : i # id => pending'[i] = pend[i]
      BY <2>2
    <3> QED BY <3>1, <3>2
  <2> QED BY <1>2, <2>1, <2>2
<1>6. scheduler'.on # None => scheduler'.on \in Id /\ release'[scheduler'.on].at # "none"
  BY <1>1, <1>4 DEF Steadfast
<1>7. ASSUME NEW i \in Id PROVE Kept(i)'
  <2>1. Kept(i)
    BY DEF Steadfast
  <2>2. CASE i = id
    BY <2>1, <2>2, <1>4, <1>5 DEF Kept
  <2>3. CASE i # id
    BY <2>1, <2>3, <1>1, <1>3, <1>4, <1>5 DEF Kept
  <2> QED BY <2>2, <2>3
<1>8. Sane(scheduler', mode')
  BY <1>1
<1> QED BY <1>3, <1>6, <1>7, <1>8 DEF Steadfast

\* A step about one identity that the scheduler is not told of.
LEMMA AloneKeeps ==
  ASSUME IInv, Steadfast, NEW id \in Id, UNCHANGED <<scheduler, mode, ending, notice, submitting>>,
         \A i \in Id : i # id => /\ records'[i] = records[i] /\ pending'[i] = pending[i]
                                 /\ release'[i] = release[i],
         release[id].at # "none" => release'[id].at # "none",
         release[id].at = "none" /\ ~External(id) => release'[id].at = "none",
         pending'[id] # 0 => 
            /\ records'[id] # None /\ ~records'[id].archived /\ records'[id].status = "retained"
            /\ records'[id].ended => id \in ending
  PROVE  Steadfast'
<1>1. scheduler'.on # None => scheduler'.on \in Id /\ release'[scheduler'.on].at # "none"
  <2> SUFFICES ASSUME scheduler.on # None PROVE scheduler.on \in Id /\ release'[scheduler.on].at # "none"
    OBVIOUS
  <2>1. scheduler.on \in Id /\ release[scheduler.on].at # "none"
    BY DEF Steadfast
  <2> QED BY <2>1
<1>2. ASSUME NEW i \in Id PROVE Kept(i)'
  <2>1. Kept(i)
    BY DEF Steadfast
  <2>2. CASE i = id
    BY <2>1, <2>2 DEF Kept
  <2>3. CASE i # id
    BY <2>1, <2>3 DEF Kept
  <2> QED BY <2>2, <2>3
<1>3. Sane(scheduler', mode') /\ notice' \in BOOLEAN
  BY DEF Steadfast
<1> QED BY <1>1, <1>2, <1>3 DEF Steadfast

LEMMA ReleaseKeeps ==
  ASSUME IInv, Steadfast, NEW id \in Id, ReleaseStep(id)
  PROVE  Steadfast'
<1>0. /\ Shaped /\ Local(id) /\ Kept(id) /\ RecordsOK(records) /\ pending \in [Id -> 0..MaxRevision]
  BY DEF IInv, Shaped, Steadfast
<1>1. CASE Decide(id) \/ Record(id)
  <2>1. /\ \/ release' = [release EXCEPT ![id].at = "recording", ![id].allowed = Admissible(id)]
           \/ release' = [release EXCEPT ![id].at = "preparing"]
        /\ UNCHANGED <<records, pending, submitting, session>>
        /\ release[id].at # "none"
    BY <1>1 DEF Decide, Record
  <2>2. release'[id].at # "none" /\ \A i \in Id : i # id => release'[i] = release[i]
    BY <1>0, <2>1 DEF Shaped, ReleaseOK
  <2> QED BY <1>0, <2>1, <2>2, AloneKeeps DEF session, Kept
<1>2. CASE Prepare(id)
  <2>1. /\ release' = [release EXCEPT ![id].at = "intent", ![id].works = StartsWork(id)]
        /\ pending' = [pending EXCEPT ![id] = 0]
        /\ UNCHANGED <<records, submitting, session>>
        /\ release[id].at # "none"
    BY <1>2 DEF Prepare, Consumed
  <2>2. release'[id].at # "none" /\ \A i \in Id : i # id => release'[i] = release[i]
    BY <1>0, <2>1 DEF Shaped, ReleaseOK
  <2>3. pending'[id] = 0 /\ \A i \in Id : i # id => pending'[i] = pending[i]
    BY <1>0, <2>1
  <2> QED BY <1>0, <2>1, <2>2, <2>3, AloneKeeps DEF session
<1>3. CASE Dispatch(id) \/ Fail(id)
  <2>1. /\ release[id].at \in {"intent", "running"}
        /\ \/ release' = [release EXCEPT ![id].at = "running"]
           \/ release' = [release EXCEPT ![id].at = "failing"]
        /\ \/ records' = [records EXCEPT ![id].phase = "started"]
           \/ records' = [records EXCEPT ![id].phase = "failed"]
        /\ UNCHANGED <<pending, submitting, session>>
    BY <1>3 DEF Dispatch, Fail, Dispatched, Running
  <2>2. release'[id].at # "none" /\ \A i \in Id : i # id => release'[i] = release[i]
    BY <1>0, <2>1 DEF Shaped, ReleaseOK
  <2>3. pending'[id] = 0 /\ \A i \in Id : i # id => records'[i] = records[i]
    BY <1>0, <2>1 DEF RecordsOK, Local, Once
  <2> QED BY <1>0, <2>1, <2>2, <2>3, AloneKeeps DEF session
<1>4. CASE Observe(id)
  <2>1. /\ release[id].at = "running"
        /\ \/ records' = [records EXCEPT ![id].input = "done"]
           \/ records' = [records EXCEPT ![id].input = "queued"]
        /\ UNCHANGED <<pending, release, submitting, scheduler, notice, mode, ending>>
    BY <1>4 DEF Observe, Running
  <2>3. pending'[id] = 0 /\ \A i \in Id : i # id => records'[i] = records[i]
    BY <1>0, <2>1 DEF RecordsOK, Local, Once
  <2> QED BY <1>0, <2>1, <2>3, AloneKeeps
<1>5. CASE Hold(id) \/ Stale(id) \/ Busy(id) \/ NotDispatched(id) \/ Orphaned(id)
  <2>1. /\ UNCHANGED <<mode, ending>>
        /\ \/ Done(id, "no", records, pending, FALSE)
           \/ Done(id, "error", records, pending, FALSE)
    BY <1>5 DEF Hold, Stale, Busy, NotDispatched, Orphaned, Refuse
  <2> QED BY <1>0, <2>1, EndKeeps
<1>6. CASE Return(id)
  <2> DEFINE rs == [records EXCEPT ![id].phase = "returned"]
  <2>1. release[id].at = "running" /\ UNCHANGED <<mode, ending>> /\ Done(id, "yes", rs, pending, FALSE)
    BY <1>6 DEF Return, Running
  <2>2. records[id] \in SubmissionRecord
    BY <1>0, <2>1 DEF Local, Once, RecordsOK, RecordOK
  <2>3. [records[id] EXCEPT !.phase = "returned"] \in SubmissionRecord
    BY <2>2 DEF SubmissionRecord
  <2>4. RecordsOK(rs)
    BY <1>0, <2>3 DEF RecordsOK, RecordOK
  <2>5. pending[id] = 0 /\ \A i \in Id : i # id => rs[i] = records[i]
    BY <1>0, <2>1 DEF Local, Once, RecordsOK
  <2> HIDE DEF rs
  <2> QED BY <1>0, <2>1, <2>4, <2>5, EndKeeps
<1>7. CASE EndCallback(id)
  <2>1. /\ release[id].at = "failing" /\ UNCHANGED <<mode, ending>>
        /\ Done(id, "error", CallbackEnded(records, id), pending, TRUE)
    BY <1>7 DEF EndCallback
  <2>2. pending[id] = 0
    BY <1>0, <2>1 DEF Local, Once
  <2>3. RecordsOK(CallbackEnded(records, id)) 
        /\ \A i \in Id : i # id => CallbackEnded(records, id)[i] = records[i]
    BY <1>0, EndedIs
  <2> QED BY <1>0, <2>1, <2>2, <2>3, EndKeeps
<1>8. CASE release[id].at \in {"deciding", "preparing"} /\ Revoke(id)
  <2> DEFINE d == [records[id] EXCEPT !.status = "revoked", !.revision = @ + 1]
             cs == [records EXCEPT ![id] = d]
             cp == [pending EXCEPT ![id] = 0]
             gone == CancellableExternal(id)
  <2>1. UNCHANGED <<mode, ending>>
        /\ Done(id, "no", IF gone THEN cs ELSE records, IF gone THEN cp ELSE pending, FALSE)
    BY <1>8 DEF Revoke, Cancelled
  <2>2. CASE ~gone
    BY <1>0, <2>1, <2>2, EndKeeps
  <2>3. CASE gone
    <3>1. records[id] # None
      BY <2>3 DEF CancellableExternal, Active, Existing
    <3>2. records[id].revision + 1 \in Nat
      BY <1>0, <3>1 DEF RecordsOK, RecordOK, SubmissionRecord
    <3>3. d \in SubmissionRecord
      BY <1>0, <3>1, <3>2 DEF RecordsOK, RecordOK, SubmissionRecord
    <3> HIDE DEF d
    <3>4. RecordsOK(cs) /\ \A i \in Id : i # id => cs[i] = records[i]
      BY <1>0, <3>3 DEF RecordsOK, RecordOK
    <3>5. cp \in [Id -> 0..MaxRevision] /\ cp[id] = 0 /\ \A i \in Id : i # id => cp[i] = pending[i]
      BY <1>0, SessionAssumption
    <3>6. Done(id, "no", cs, cp, FALSE)
      BY <2>1, <2>3
    <3> HIDE DEF cs, cp
    <3> QED BY <2>1, <3>4, <3>5, <3>6, EndKeeps
  <2> QED BY <2>2, <2>3
<1> QED BY <1>1, <1>2, <1>3, <1>4, <1>5, <1>6, <1>7, <1>8 DEF ReleaseStep

\* A step after which callbacks are of open records, and the scheduler waits
\* for the same release.
LEMMA AllKeep ==
  ASSUME Steadfast, Sane(scheduler', mode'), scheduler'.on = scheduler.on, notice' \in BOOLEAN, 
         submitting' = submitting,
         \A i \in Id : release[i].at # "none" => release'[i].at # "none",
         \A i \in Id : release[i].at = "none" /\ ~External(i) => release'[i].at = "none",
         \A i \in Id : pending'[i] # 0 =>
            /\ records'[i] # None /\ ~records'[i].archived /\ records'[i].status = "retained"
            /\ records'[i].ended => i \in ending'
  PROVE  Steadfast'
<1>1. scheduler'.on # None => scheduler'.on \in Id /\ release'[scheduler'.on].at # "none"
  BY DEF Steadfast
<1>2. ASSUME NEW i \in Id PROVE Kept(i)'
  BY DEF Steadfast, Kept
<1> QED BY <1>1, <1>2 DEF Steadfast

\* An identity is taken by a submit.
LEMMA SubmittedKeeps ==
  ASSUME IInv, Steadfast, NEW id \in Id, Submitted(id), records[id] = None, 
         UNCHANGED <<mode, ending, notice>>, Sane(scheduler', mode), scheduler'.on = scheduler.on
  PROVE  Steadfast'
<1> DEFINE r == NewRecord(Cardinality({i \in Id : Archived(records)[i] # None}) + 1, turn # None)
           q == [Resting EXCEPT !.at = "deciding", !.revision = 1]
<1>0. Shaped /\ release[id].at = "none"
  BY Untaken DEF IInv
<1>1. r # None /\ r.status = "retained" /\ ~r.archived /\ ~r.ended
  <2>1. (turn # None) \in BOOLEAN
    OBVIOUS
  <2> QED BY <2>1, NewIs
<1>2. q.at = "deciding"
  BY Deciding
<1> HIDE DEF r, q
<1>3. /\ records' = [Archived(records) EXCEPT ![id] = r]
      /\ pending' = [pending EXCEPT ![id] = 1]
      /\ release' = [release EXCEPT ![id] = q]
      /\ submitting' = submitting \cup {id}
  BY DEF Submitted, Retained, r, q
<1>4. \A i \in Id : i # id => records'[i] = Archived(records)[i] /\ pending'[i] = pending[i]
                              /\ release'[i] = release[i]
  BY <1>0, <1>3 DEF Shaped, Archived
<1>5. records'[id] = r /\ release'[id].at = "deciding"
  BY <1>0, <1>2, <1>3 DEF Shaped, Archived
<1>6. scheduler'.on # None => scheduler'.on \in Id /\ release'[scheduler'.on].at # "none"
  BY <1>0, <1>4, <1>5 DEF Steadfast
<1>7. ASSUME NEW i \in Id PROVE Kept(i)'
  <2>1. CASE i = id
    BY <2>1, <1>1, <1>3, <1>5 DEF Kept
  <2>2. CASE i # id
    <3>1. Kept(i) /\ (pending[i] # 0 => Archived(records)[i] = records[i])
      BY OpenStays DEF Steadfast
    <3> QED BY <2>2, <3>1, <1>3, <1>4 DEF Kept
  <2> QED BY <2>1, <2>2
<1>8. Sane(scheduler', mode') /\ notice' \in BOOLEAN
  BY DEF Steadfast
<1> QED BY <1>6, <1>7, <1>8 DEF Steadfast

\* Steps that leave records, callbacks and releases alone.
LEMMA SchedulerKeeps ==
  ASSUME IInv, Steadfast, DeliverNotice \/ Begin \/ PassBegins \/ PassEnds \/ Suspend \/ FlushBegins
                          \/ FlushEnds \/ Resume \/ Repair
  PROVE  Steadfast'
<1> DEFINE t == TRUE
           f == FALSE
<1>0. SchedulerOK(scheduler) /\ Sane(scheduler, mode) /\ notice \in BOOLEAN
  BY DEF IInv, Shaped, Steadfast
<1> DEFINE sc == scheduler
<1>s. sc = [phase |-> sc.phase, requested |-> sc.requested, semantic |-> sc.semantic,
           cand |-> sc.cand, left |-> sc.left, on |-> sc.on, todo |-> sc.todo,
           issuing |-> sc.issuing]
  BY <1>0 DEF SchedulerOK
<1>1. UNCHANGED <<records, pending, release, submitting, ending>> /\ notice' \in BOOLEAN
  BY <1>0 DEF DeliverNotice, Begin, PassBegins, PassEnds, Suspend, FlushBegins, FlushEnds, Resume,
              Repair, NoRelease
<1>2. Sane(scheduler', mode') /\ scheduler'.on = scheduler.on
  <2>1. CASE DeliverNotice \/ Repair
    <3>1. mode' = mode /\ (scheduler' = scheduler \/ scheduler' = QueueRelease(scheduler, TRUE))
      BY <2>1 DEF DeliverNotice, Repair
    <3> QED BY <3>1, <1>0, QueuedSane
  <2>2. CASE Begin
    <3> DEFINE td == {id \in replay : Reissuable(id)}
    <3>1. /\ sc.phase = "scheduled" /\ mode' = mode
          /\ scheduler' = [sc EXCEPT !.requested = f, !.semantic = f, !.phase = "replaying", !.todo = td]
      BY <2>2 DEF Begin
    <3> HIDE DEF td, sc, f
    <3>2. scheduler' = [phase |-> "replaying", requested |-> f, semantic |-> f, cand |-> sc.cand,
                        left |-> sc.left, on |-> sc.on, todo |-> td, issuing |-> sc.issuing]
      BY <1>s, <3>1
    <3>3. /\ scheduler'.phase = "replaying" /\ scheduler'.requested = f /\ scheduler'.semantic = f
          /\ scheduler'.cand = sc.cand /\ scheduler'.left = sc.left /\ scheduler'.on = sc.on
      BY <3>2
    <3> QED BY <3>1, <3>3, <1>0 DEF Sane, sc, f
  <2>3. CASE (PassBegins /\ mode # "on") \/ PassEnds
    <3>1. scheduler' = PassEnded(scheduler, pending, f) /\ mode' = mode
      BY <2>3 DEF PassBegins, PassEnds
    <3>2. scheduler.on = None
      BY <2>3, <1>0 DEF PassBegins, PassEnds, SchedulerOK
    <3>3. f \in BOOLEAN
      OBVIOUS
    <3> HIDE DEF f
    <3>4. scheduler'.on = None /\ Sane(scheduler', mode)
      BY <1>0, <3>1, <3>3, PassedIs
    <3> QED BY <3>1, <3>2, <3>4
  <2>4. CASE PassBegins /\ mode = "on"
    <3> DEFINE c == {<<id, pending[id]>> : id \in {i \in Id : pending[i] # 0}}
    <3>1. /\ scheduler' = [sc EXCEPT !.phase = "passing", !.cand = c, !.left = c]
          /\ mode' = mode
      BY <2>4 DEF PassBegins
    <3> HIDE DEF c, sc
    <3>2. scheduler' = [phase |-> "passing", requested |-> sc.requested, semantic |-> sc.semantic,
                        cand |-> c, left |-> c, on |-> sc.on, todo |-> sc.todo, issuing |-> sc.issuing]
      BY <1>s, <3>1
    <3>3. /\ scheduler'.phase = "passing" /\ scheduler'.requested = sc.requested
          /\ scheduler'.semantic = sc.semantic
          /\ scheduler'.cand = c /\ scheduler'.left = c /\ scheduler'.on = sc.on
      BY <3>2
    <3> QED BY <3>1, <3>3, <1>0 DEF Sane, sc
  <2>5. CASE Suspend
    <3> DEFINE ph == IF sc.phase = "scheduled" THEN "idle" ELSE sc.phase
    <3>1. /\ scheduler' = [sc EXCEPT !.requested = f, !.semantic = f, !.phase = ph]
          /\ mode' # "on"
      BY <2>5 DEF Suspend
    <3>p. ph = "passing" <=> sc.phase = "passing"
      OBVIOUS
    <3> HIDE DEF ph, sc, f
    <3>2. scheduler' = [phase |-> ph, requested |-> f, semantic |-> f, cand |-> sc.cand,
                        left |-> sc.left, on |-> sc.on, todo |-> sc.todo, issuing |-> sc.issuing]
      BY <1>s, <3>1
    <3>3. /\ scheduler'.phase = ph /\ scheduler'.requested = f /\ scheduler'.semantic = f
          /\ scheduler'.cand = sc.cand /\ scheduler'.left = sc.left /\ scheduler'.on = sc.on
      BY <3>2
    <3> QED BY <3>1, <3>3, <3>p, <1>0 DEF Sane, sc, f
  <2>6. CASE FlushBegins \/ FlushEnds
    BY <2>6, <1>0 DEF FlushBegins, FlushEnds, Sane
  <2>7. CASE Resume
    <3> DEFINE ph == IF sc.phase = "idle" THEN "scheduled" ELSE sc.phase
    <3>1. scheduler' = [sc EXCEPT !.requested = t, !.semantic = t, !.phase = ph]
      BY <2>7 DEF Resume
    <3>p. ph # "idle" /\ (ph = "passing" <=> sc.phase = "passing")
      OBVIOUS
    <3> HIDE DEF ph, sc, t
    <3>2. scheduler' = [phase |-> ph, requested |-> t, semantic |-> t, cand |-> sc.cand,
                        left |-> sc.left, on |-> sc.on, todo |-> sc.todo, issuing |-> sc.issuing]
      BY <1>s, <3>1
    <3>3. /\ scheduler'.phase = ph /\ scheduler'.requested = t /\ scheduler'.semantic = t
          /\ scheduler'.cand = sc.cand /\ scheduler'.left = sc.left /\ scheduler'.on = sc.on
      BY <3>2
    <3> QED BY <3>3, <3>p, <1>0 DEF Sane, sc, t
  <2> QED BY <2>1, <2>2, <2>3, <2>4, <2>5, <2>6, <2>7
<1>3. ASSUME NEW i \in Id, pending'[i] # 0
      PROVE  /\ records'[i] # None /\ ~records'[i].archived /\ records'[i].status = "retained"
             /\ records'[i].ended => i \in ending'
  BY <1>1, <1>3 DEF Steadfast, Kept
<1> QED BY <1>1, <1>2, <1>3, AllKeep

\* Another identity is issued, or its replacement.
LEMMA IssueSane ==
  ASSUME Shaped, Sane(scheduler, mode), NEW td, NEW is,
         \/ scheduler' = [scheduler EXCEPT !.issuing = is, !.todo = td]
         \/ scheduler' = [scheduler EXCEPT !.issuing = is]
  PROVE  /\ Sane(scheduler', mode) /\ scheduler'.on = scheduler.on
         /\ scheduler'.phase = scheduler.phase
<1> DEFINE sc == scheduler
<1>0. sc = [phase |-> sc.phase, requested |-> sc.requested, semantic |-> sc.semantic,
           cand |-> sc.cand, left |-> sc.left, on |-> sc.on, todo |-> sc.todo,
           issuing |-> sc.issuing]
  BY DEF Shaped, SchedulerOK
<1>a. \/ scheduler' = [sc EXCEPT !.issuing = is, !.todo = td]
      \/ scheduler' = [sc EXCEPT !.issuing = is]
  OBVIOUS
<1> HIDE DEF sc
<1>1. /\ scheduler'.phase = sc.phase /\ scheduler'.requested = sc.requested
      /\ scheduler'.semantic = sc.semantic
      /\ scheduler'.cand = sc.cand /\ scheduler'.left = sc.left /\ scheduler'.on = sc.on
  BY <1>0, <1>a
<1> QED BY <1>1 DEF Sane, sc

LEMMA TakenKeeps ==
  ASSUME IInv, Steadfast, NEW id \in Id, Submit(id) \/ Reissue(id) \/ ClaimQueued(id)
  PROVE  Steadfast'
<1>0. /\ Shaped /\ Local(id) /\ Kept(id) /\ Sane(scheduler, mode) /\ notice \in BOOLEAN
      /\ RecordsOK(records)
  BY DEF IInv, Shaped, Steadfast
<1>1. CASE Submit(id)
  BY <1>0, <1>1, SubmittedKeeps DEF Submit
<1>2. CASE Reissue(id)
  <2> DEFINE td == scheduler.todo \ {id}
             nx == NextIssue[id]
  <2>1. /\ scheduler' = [scheduler EXCEPT !.issuing = id, !.todo = td]
        /\ nx \in Id /\ records[nx] = None
        /\ UNCHANGED <<mode, ending, notice>>
        /\ IF mode = "on" THEN Submitted(nx)
           ELSE UNCHANGED <<records, pending, release, submitting>>
    BY <1>2, SubmissionAssumption DEF Reissue, Unused
  <2> HIDE DEF td, nx
  <2>2. Sane(scheduler', mode) /\ scheduler'.on = scheduler.on
    BY <1>0, <2>1, IssueSane
  <2>3. CASE mode = "on"
    BY <1>0, <2>1, <2>2, <2>3, SubmittedKeeps
  <2>4. CASE mode # "on"
    <3>1. ASSUME NEW i \in Id, pending'[i] # 0
          PROVE  /\ records'[i] # None /\ ~records'[i].archived /\ records'[i].status = "retained"
                 /\ records'[i].ended => i \in ending'
      BY <2>1, <2>4, <3>1 DEF Steadfast, Kept
    <3> QED BY <1>0, <2>1, <2>2, <2>4, <3>1, AllKeep
  <2> QED BY <2>3, <2>4
<1>3. CASE ClaimQueued(id)
  <2>1. /\ records' = [records EXCEPT ![id].input = "done"]
        /\ UNCHANGED <<pending, release, submitting, scheduler, mode, ending, notice>>
        /\ id \in Active /\ records[id].input = "queued"
    BY <1>3 DEF ClaimQueued, QueueAdmissible, session
  <2>2. pending'[id] = 0 /\ \A i \in Id : i # id => records'[i] = records[i]
    BY <1>0, <2>1 DEF Local, Once, RecordsOK, Active, Existing
  <2> QED BY <1>0, <2>1, <2>2, AloneKeeps
<1> QED BY <1>1, <1>2, <1>3

LEMMA RetainKeeps ==
  ASSUME IInv, Steadfast, NEW id \in Id, NEW authority, RetainExternal(id, authority)
  PROVE  Steadfast'
<1> DEFINE rs == IF records[id] = None THEN Retained(records, id, turn # None) ELSE Reattached(id)
           n == rs[id]
           q == [Resting EXCEPT !.at = "deciding", !.revision = n.revision]
<1>0. /\ Shaped /\ Local(id) /\ Kept(id) /\ RecordsOK(records) /\ pending \in [Id -> 0..MaxRevision]
  BY DEF IInv, Shaped, Steadfast
<1>1. /\ External(id) /\ UNCHANGED <<submitting, scheduler, mode, ending, notice>>
      /\ \/ records[id] = None
         \/ CanReattach(id) /\ pending[id] = 0 /\ ~Released(id)
      /\ n.revision <= MaxRevision
      /\ \/ /\ records' = rs /\ pending' = [pending EXCEPT ![id] = n.revision]
            /\ release' = [release EXCEPT ![id] = q]
         \/ /\ records' = [rs EXCEPT ![id].status = "revoked", ![id].revision = @ + 1]
            /\ UNCHANGED <<pending, release>>
  BY DEF RetainExternal
<1>2. /\ n # None /\ ~n.archived /\ n.status = "retained" /\ ~n.ended
      /\ rs = [i \in Id |-> rs[i]] /\ \A i \in Id : i # id => rs[i] = records[i]
  <2>1. CASE records[id] = None
    <3> DEFINE r == NewRecord(Cardinality({i \in Id : records[i] # None}) + 1, turn # None)
    <3>1. (turn # None) \in BOOLEAN
      OBVIOUS
    <3>2. r # None /\ ~r.archived /\ r.status = "retained" /\ ~r.ended
      BY <3>1, NewIs
    <3> HIDE DEF r
    <3>3. rs = [records EXCEPT ![id] = r]
      BY <2>1 DEF Retained, r
    <3> HIDE DEF rs
    <3> QED BY <1>0, <3>2, <3>3 DEF RecordsOK
  <2>2. CASE records[id] # None
    <3> DEFINE r == [records[id] EXCEPT !.revision = @ + 1, !.ended = FALSE]
    <3>1. CanReattach(id) /\ records[id] \in SubmissionRecord
      BY <1>0, <1>1, <2>2 DEF RecordsOK, RecordOK
    <3>2. records[id].revision + 1 \in Nat
      BY <3>1 DEF SubmissionRecord
    <3>3. r \in SubmissionRecord /\ ~r.archived /\ r.status = "retained" /\ ~r.ended
      BY <3>1, <3>2 DEF SubmissionRecord, CanReattach, Active, Existing
    <3>4. r # None
      BY <3>3, SubmissionAssumption
    <3>5. rs = [records EXCEPT ![id] = r]
      BY <1>0, <2>2 DEF Reattached, RecordsOK
    <3> HIDE DEF r, rs
    <3> QED BY <1>0, <3>3, <3>4, <3>5 DEF RecordsOK
  <2> QED BY <2>1, <2>2
<1>3. pending[id] = 0 /\ release[id].at = "none"
  BY <1>1, Untaken DEF Released
<1>4. CASE /\ records' = rs /\ pending' = [pending EXCEPT ![id] = n.revision]
           /\ release' = [release EXCEPT ![id] = q]
  <2>1. q.at = "deciding"
    BY DEF Resting
  <2> HIDE DEF rs, q, n
  <2>2. release'[id].at = "deciding" /\ \A i \in Id : i # id => release'[i] = release[i]
    BY <1>0, <1>4, <2>1 DEF Shaped
  <2>3. records'[id] = n /\ \A i \in Id : i # id => records'[i] = records[i] /\ pending'[i] = pending[i]
    BY <1>0, <1>2, <1>4 DEF n
  <2> QED BY <1>1, <1>2, <2>2, <2>3, AloneKeeps
<1>5. CASE /\ records' = [rs EXCEPT ![id].status = "revoked", ![id].revision = @ + 1]
           /\ UNCHANGED <<pending, release>>
  <2> HIDE DEF rs, q, n
  <2>1. \A i \in Id : i # id => records'[i] = records[i]
    BY <1>2, <1>5
  <2> QED BY <1>1, <1>3, <1>5, <2>1, AloneKeeps
<1> QED BY <1>1, <1>4, <1>5

LEMMA RuntimeKeeps ==
  ASSUME IInv, Steadfast, NEW id \in Id, 
         RuntimeEnds(id) \/ RuntimeEnded(id) \/ CancelExternal(id) \/ Flush(id)
  PROVE  Steadfast'
<1>0. /\ Shaped /\ Sane(scheduler, mode) /\ notice \in BOOLEAN
      /\ RecordsOK(records) /\ pending \in [Id -> 0..MaxRevision]
      /\ SchedulerOK(scheduler)
  BY DEF IInv, Shaped, Steadfast
<1>k. \A i \in Id : pending[i] # 0 =>
            /\ records[i] # None /\ ~records[i].archived /\ records[i].status = "retained"
            /\ records[i].ended => i \in ending
  BY DEF Steadfast, Kept
<1>1. CASE RuntimeEnds(id)
  <2>1. /\ records' = CallbackEnded(records, id) /\ ending' = ending \cup {id}
        /\ UNCHANGED <<pending, release, submitting, scheduler, mode, notice>>
    BY <1>1 DEF RuntimeEnds
  <2>2. records' = records \/ records' = [records EXCEPT ![id].ended = TRUE]
    BY <2>1 DEF CallbackEnded
  <2>3. ASSUME NEW i \in Id, pending'[i] # 0 
        PROVE /\ records'[i] # None /\ ~records'[i].archived /\ records'[i].status = "retained"
              /\ records'[i].ended => i \in ending'
    <3>1. pending[i] # 0 /\ records[i] \in SubmissionRecord
      BY <1>0, <1>k, <2>1, <2>3 DEF RecordsOK, RecordOK
    <3>2. CASE i # id \/ records' = records
      <4>1. records'[i] = records[i]
        BY <1>0, <2>2, <3>2 DEF RecordsOK
      <4> QED BY <1>k, <2>1, <3>1, <4>1
    <3>3. CASE i = id /\ records' = [records EXCEPT ![id].ended = TRUE]
      <4> DEFINE r == [records[id] EXCEPT !.ended = TRUE]
      <4>1. records'[i] = r
        BY <1>0, <3>3 DEF RecordsOK
      <4>2. r \in SubmissionRecord /\ r.archived = records[id].archived /\ r.status = records[id].status
        BY <3>1, <3>3 DEF SubmissionRecord
      <4> QED BY <1>k, <2>1, <3>1, <3>3, <4>1, <4>2, SubmissionAssumption
    <3> QED BY <2>2, <3>2, <3>3
  <2> QED BY <1>0, <2>1, <2>3, AllKeep
<1>2. CASE RuntimeEnded(id)
  <2>1. /\ pending' = [pending EXCEPT ![id] = 0] /\ ending' = ending \ {id}
        /\ scheduler' = QueueRelease(scheduler, TRUE)
        /\ UNCHANGED <<records, release, submitting, mode, notice>>
    BY <1>2 DEF RuntimeEnded
  <2>2. pending'[id] = 0 /\ \A i \in Id : i # id => pending'[i] = pending[i]
    BY <1>0, <2>1, PendingCleared
  <2>3. Sane(scheduler', mode') /\ scheduler'.on = scheduler.on
    BY <1>0, <2>1, QueuedSane
  <2>4. ASSUME NEW i \in Id, pending'[i] # 0 
        PROVE /\ records'[i] # None /\ ~records'[i].archived /\ records'[i].status = "retained"
              /\ records'[i].ended => i \in ending'
    BY <1>k, <2>1, <2>2, <2>4
  <2> QED BY <1>0, <2>1, <2>3, <2>4, AllKeep
<1>3. CASE CancelExternal(id) \/ Flush(id)
  <2>1. /\ pending' = [pending EXCEPT ![id] = 0] 
        /\ records' = records \/ records' = [records EXCEPT ![id].status = "suspended", ![id].revision = @ + 1]
        /\ UNCHANGED <<release, submitting, mode, notice, scheduler, ending>>
    BY <1>3 DEF CancelExternal, Flush, session, NoRelease, Cancelled
  <2>2. pending'[id] = 0 /\ \A i \in Id : i # id => pending'[i] = pending[i]
    BY <1>0, <2>1, PendingCleared
  <2>3. \A i \in Id : i # id => records'[i] = records[i]
    BY <1>0, <2>1 DEF RecordsOK
  <2> QED BY <2>1, <2>2, <2>3, AloneKeeps
<1> QED BY <1>1, <1>2, <1>3

LEMMA BroadKeeps ==
  ASSUME IInv, Steadfast, (\E how \in {"stop", "aborted", "withheld"} : TurnEnds(how)) \/ Clear \/ Retire
  PROVE  Steadfast'
<1>0. /\ Shaped /\ Sane(scheduler, mode) /\ notice \in BOOLEAN /\ SchedulerOK(scheduler) /\ RecordsOK(records)
  BY DEF IInv, Shaped, Steadfast
<1>k. \A i \in Id : pending[i] # 0 =>
            /\ records[i] # None /\ ~records[i].archived /\ records[i].status = "retained"
            /\ records[i].ended => i \in ending
  BY DEF Steadfast, Kept
<1>1. /\ UNCHANGED <<pending, release, submitting, mode, ending>> /\ notice' \in BOOLEAN
      /\ Sane(scheduler', mode') /\ scheduler'.on = scheduler.on
  <2>1. CASE \E how \in {"stop", "aborted", "withheld"} : TurnEnds(how)
    BY <1>0, <2>1 DEF TurnEnds
  <2>2. CASE Clear
    <3>1. /\ UNCHANGED <<pending, release, submitting, mode, ending, notice>>
          /\ scheduler' = scheduler \/ scheduler' = QueueRelease(scheduler, TRUE)
      BY <2>2 DEF Clear, NoRelease
    <3> QED BY <1>0, <3>1, QueuedSane
  <2>3. CASE Retire
    <3>1. /\ UNCHANGED <<pending, release, submitting, mode, ending, notice>>
          /\ scheduler' = [scheduler EXCEPT !.issuing = None]
      BY <2>3 DEF Retire
    <3> QED BY <1>0, <3>1, IssueSane
  <2> QED BY <2>1, <2>2, <2>3
<1>2. ASSUME NEW i \in Id, pending[i] # 0 PROVE records'[i] = records[i]
  <2>1. Archived(records)[i] = records[i] /\ Dropped[i] = records[i]
         /\ Archived(Discarded(records))[i] = records[i]
    BY <1>2, OpenStays
  <2>2. CASE \E how \in {"stop", "aborted", "withheld"} : TurnEnds(how)
    BY <2>1, <2>2 DEF TurnEnds
  <2>3. CASE Clear
    BY <2>1, <2>3 DEF Clear
  <2>4. CASE Retire
    <3> DEFINE old == scheduler.issuing
    <3>1. /\ old # None
          /\ records' = records \/ records' = [records EXCEPT ![old].status = "cancelled", ![old].revision = @ + 1]
      BY <2>4 DEF Retire, Cancelled
    <3>2. old \in Id /\ Given(old)
      BY <3>1, SubmissionAssumption DEF IInv, IssuingOK, Given
    <3>3. old # i
      BY <1>2, <3>2 DEF IInv, Local, Inherited
    <3> QED BY <1>0, <3>1, <3>3 DEF RecordsOK
  <2> QED BY <2>2, <2>3, <2>4
<1> QED BY <1>1, <1>2, <1>k, AllKeep

LEMMA PassTriesKeeps ==
  ASSUME IInv, Steadfast, NEW c \in scheduler.left, PassTries(c)
  PROVE  Steadfast'
<1> DEFINE id == c[1]
           l == scheduler.left \ {c}
           q == [Resting EXCEPT !.at = "deciding", !.revision = c[2]]
           sc == scheduler
<1>0. /\ Shaped /\ Sane(scheduler, mode) /\ notice \in BOOLEAN /\ SchedulerOK(scheduler) /\ id \in Id
  BY DEF IInv, Shaped, Steadfast, SchedulerOK
<1>s. sc = [phase |-> sc.phase, requested |-> sc.requested, semantic |-> sc.semantic,
           cand |-> sc.cand, left |-> sc.left, on |-> sc.on, todo |-> sc.todo,
           issuing |-> sc.issuing]
  BY <1>0 DEF SchedulerOK
<1>1. /\ scheduler.phase = "passing" /\ scheduler.on = None
      /\ UNCHANGED <<records, pending, submitting, mode, ending, notice>>
      /\ \/ scheduler' = [sc EXCEPT !.left = l] /\ UNCHANGED release
         \/ /\ scheduler' = [sc EXCEPT !.on = id]
            /\ \/ release' = release /\ Released(id)
               \/ release' = [release EXCEPT ![id] = q]
  BY DEF PassTries
<1>q. q.at = "deciding"
  BY DEF Resting
<1>c. l \subseteq scheduler.left
  OBVIOUS
<1> HIDE DEF id, l, q, sc
<1>2. CASE scheduler' = [sc EXCEPT !.left = l] /\ UNCHANGED release
  <2>1. /\ scheduler'.phase = sc.phase /\ scheduler'.requested = sc.requested
        /\ scheduler'.semantic = sc.semantic
        /\ scheduler'.cand = sc.cand /\ scheduler'.left = l /\ scheduler'.on = sc.on
    BY <1>s, <1>2
  <2>2. Sane(scheduler', mode') /\ scheduler'.on = scheduler.on
    BY <1>0, <1>1, <1>c, <2>1 DEF Sane, sc
  <2>3. \A i \in Id : pending'[i] # 0 => 
            /\ records'[i] # None /\ ~records'[i].archived /\ records'[i].status = "retained"
            /\ records'[i].ended => i \in ending'
    BY <1>1 DEF Steadfast, Kept
  <2> QED BY <1>0, <1>1, <1>2, <2>2, <2>3, AllKeep
<1>3. CASE /\ scheduler' = [sc EXCEPT !.on = id]
           /\ \/ release' = release /\ Released(id)
              \/ release' = [release EXCEPT ![id] = q]
  <2>1. /\ scheduler'.phase = sc.phase /\ scheduler'.requested = sc.requested
        /\ scheduler'.semantic = sc.semantic
        /\ scheduler'.cand = sc.cand /\ scheduler'.left = sc.left /\ scheduler'.on = id
    BY <1>s, <1>3
  <2>2. Sane(scheduler', mode')
    BY <1>0, <1>1, <2>1 DEF Sane, sc
  <2>3. release'[id].at # "none" /\ \A i \in Id : i # id => release'[i] = release[i]
    BY <1>0, <1>3, <1>q DEF Shaped, Released
  <2>4. ASSUME NEW i \in Id PROVE Kept(i)'
    <3>1. Kept(i) /\ None \notin Id
      BY SubmissionAssumption DEF Steadfast
    <3> QED BY <1>1, <2>1, <2>3, <3>1 DEF Kept
  <2> QED BY <1>0, <1>1, <2>1, <2>2, <2>3, <2>4 DEF Steadfast
<1> QED BY <1>1, <1>2, <1>3

LEMMA ReopenKeeps ==
  ASSUME Reopen
  PROVE  Steadfast'
<1> DEFINE t == TRUE
           f == FALSE
<1>1. /\ pending' = [id \in Id |-> 0] /\ release' = [id \in Id |-> Resting]
      /\ scheduler' = [Idle EXCEPT !.phase = "scheduled", !.requested = t, !.semantic = t]
      /\ notice' = FALSE
  BY DEF Reopen
<1>2. Idle = [phase |-> "idle", requested |-> f, semantic |-> f, cand |-> {},
                left |-> {}, on |-> None, todo |-> {}, issuing |-> None]
  BY DEF Idle
<1> HIDE DEF t, f
<1>3. /\ scheduler'.phase = "scheduled" /\ scheduler'.requested = t /\ scheduler'.semantic = t
      /\ scheduler'.cand = {} /\ scheduler'.left = {} /\ scheduler'.on = None
  BY <1>1, <1>2
<1>4. Sane(scheduler', mode')
  BY <1>3 DEF Sane, t
<1>5. \A i \in Id : Kept(i)'
  BY <1>1, Rested DEF Kept
<1> QED BY <1>1, <1>3, <1>4, <1>5 DEF Steadfast

LEMMA InitSteadfast == Init => Steadfast
<1> SUFFICES ASSUME Init PROVE Steadfast
  OBVIOUS
<1>1. Sane(scheduler, mode) /\ scheduler.on = None
  BY DEF Init, Idle, Sane
<1>2. \A i \in Id : Kept(i)
  BY Rested DEF Init, Kept
<1> QED BY <1>1, <1>2 DEF Init, Steadfast

LEMMA StepSteadfast == IInv /\ Steadfast /\ [Next]_vars => Steadfast'
<1> SUFFICES ASSUME IInv, Steadfast, [Next]_vars PROVE Steadfast'
  OBVIOUS
<1>1. CASE UNCHANGED vars
  <2>1. UNCHANGED <<records, pending, release, submitting, scheduler, mode, ending, notice>>
    BY <1>1 DEF vars, session
  <2>2. \A i \in Id : Kept(i)'
    BY <2>1 DEF Steadfast, Kept
  <2> QED BY <2>1, <2>2 DEF Steadfast
<1>2. ASSUME NEW id \in Id, \E authority \in {"allowed", "revoked"} : RetainExternal(id, authority) PROVE Steadfast'
  BY <1>2, RetainKeeps
<1>3. ASSUME NEW id \in Id, ReleaseStep(id) PROVE Steadfast'
  BY <1>3, ReleaseKeeps
<1>4. ASSUME NEW id \in Id, \/ Submit(id) \/ ClaimQueued(id) \/ Reissue(id) \/ RuntimeEnds(id) \/ RuntimeEnded(id)
                            \/ CancelExternal(id) \/ Flush(id)
      PROVE Steadfast'
  BY <1>4, TakenKeeps, RuntimeKeeps
<1>5. ASSUME \/ \E how \in {"stop", "aborted", "withheld"} : TurnEnds(how)
             \/ \E c \in scheduler.left : PassTries(c)
             \/ Retire \/ Clear \/ Reopen
      PROVE Steadfast'
  BY <1>5, BroadKeeps, PassTriesKeeps, ReopenKeeps
<1> QED BY <1>1, <1>2, <1>3, <1>4, <1>5, SchedulerKeeps DEF Next

-----------------------------------------------------------------------------
\* What is under way stays so until a pass begins: each thing that ends hands
\* over to the next.
LEMMA EndComing ==
  ASSUME IInv, Steadfast, Coming, NEW id \in Id, NEW result, NEW rs, NEW pend, NEW asks,
         Done(id, result, rs, pend, asks), UNCHANGED <<mode, turn, ending>>
  PROVE  Coming'
<1>1. /\ submitting' = submitting \ {id}
      /\ notice' = (notice \/ (mode = "on" /\ submitting = {id} /\ turn = None))
  BY DEF Done
<1>2. /\ scheduler.requested = TRUE => scheduler'.requested = TRUE
      /\ scheduler.phase \in {"scheduled", "replaying"} => scheduler'.phase = scheduler.phase
  BY EndTold DEF IInv, Steadfast
<1>3. notice \in BOOLEAN
  BY DEF Steadfast
<1>4. CASE submitting # {} /\ mode = "on" /\ turn = None
  BY <1>1, <1>3, <1>4 DEF Coming
<1>5. CASE mode # "on" \/ turn # None \/ ending # {}
  BY <1>5 DEF Coming
<1>6. CASE notice = TRUE
  BY <1>1, <1>6 DEF Coming
<1>7. CASE scheduler.requested = TRUE \/ scheduler.phase \in {"scheduled", "replaying"}
  BY <1>2, <1>7 DEF Coming
<1> QED BY <1>4, <1>5, <1>6, <1>7 DEF Coming

LEMMA ReleaseComing ==
  ASSUME IInv, Steadfast, Coming, NEW id \in Id, ReleaseStep(id)
  PROVE  Coming'
<1>1. CASE Decide(id) \/ Record(id) \/ Prepare(id) \/ Dispatch(id) \/ Fail(id)
  <2>1. UNCHANGED <<submitting, mode, turn, ending, notice, scheduler>>
    BY <1>1 DEF Decide, Record, Prepare, Dispatch, Fail, session
  <2> QED BY <2>1 DEF Coming
<1>2. CASE Observe(id)
  <2>1. UNCHANGED <<submitting, mode, ending, notice, scheduler>> /\ (turn' = turn \/ turn' = id)
    BY <1>2 DEF Observe
  <2> QED BY <2>1, SubmissionAssumption DEF Coming
<1>3. ASSUME NEW result, NEW rs, NEW pend, NEW asks, Done(id, result, rs, pend, asks),
             UNCHANGED <<mode, turn, ending>>
      PROVE Coming'
  BY <1>3, EndComing
<1>4. CASE Hold(id) \/ Stale(id) \/ NotDispatched(id)
  BY <1>3, <1>4 DEF Hold, Stale, NotDispatched, Refuse
<1>5. CASE Busy(id) \/ Return(id) \/ EndCallback(id) \/ Orphaned(id)
  BY <1>3, <1>5 DEF Busy, Return, EndCallback, Orphaned
<1>6. CASE Revoke(id)
  BY <1>3, <1>6 DEF Revoke
<1> QED BY <1>1, <1>2, <1>4, <1>5, <1>6 DEF ReleaseStep

LEMMA OtherComing ==
  ASSUME IInv, Steadfast, Coming, NEW id \in Id, 
         \/ Submit(id) \/ \E authority \in {"allowed", "revoked"} : RetainExternal(id, authority)
         \/ ClaimQueued(id) \/ Reissue(id)
         \/ RuntimeEnds(id) \/ RuntimeEnded(id) \/ CancelExternal(id) \/ Flush(id)
  PROVE  Coming'
<1>0. Shaped /\ SchedulerOK(scheduler) /\ Sane(scheduler, mode)
  BY DEF IInv, Shaped, Steadfast
<1>1. CASE Submit(id)
  BY <1>1 DEF Submit, Submitted, Coming
<1>2. CASE \E authority \in {"allowed", "revoked"} : RetainExternal(id, authority)
  <2>1. UNCHANGED <<submitting, mode, turn, ending, notice, scheduler>>
    BY <1>2 DEF RetainExternal
  <2> QED BY <2>1 DEF Coming
<1>3. CASE ClaimQueued(id) \/ CancelExternal(id) \/ Flush(id)
  <2>1. UNCHANGED <<submitting, mode, turn, ending, notice, scheduler>>
    BY <1>3 DEF ClaimQueued, CancelExternal, Flush, session, NoRelease
  <2> QED BY <2>1 DEF Coming
<1>4. CASE Reissue(id)
  BY <1>4 DEF Reissue, Submitted, Coming
<1>5. CASE RuntimeEnds(id)
  BY <1>5 DEF RuntimeEnds, Coming
<1>6. CASE RuntimeEnded(id)
  <2>1. scheduler' = QueueRelease(scheduler, TRUE) /\ mode' = mode
    BY <1>6 DEF RuntimeEnded
  <2>2. mode = "on" => scheduler'.requested = TRUE
    BY <1>0, <2>1, QueuedIs
  <2> QED BY <2>1, <2>2 DEF Coming
<1> QED BY <1>1, <1>2, <1>3, <1>4, <1>5, <1>6

LEMMA SchedulerComing ==
  ASSUME IInv, Steadfast, Coming,
         \/ \E how \in {"stop", "aborted", "withheld"} : TurnEnds(how)
         \/ \E c \in scheduler.left : PassTries(c)
         \/ DeliverNotice \/ Begin \/ Retire \/ PassEnds
         \/ Suspend \/ FlushBegins \/ FlushEnds \/ Resume \/ Repair \/ Clear \/ Reopen
  PROVE  Coming'
<1> DEFINE sc == scheduler
           t == TRUE
           f == FALSE
<1>0. Shaped /\ SchedulerOK(scheduler) /\ Sane(scheduler, mode) /\ notice \in BOOLEAN
  BY DEF IInv, Shaped, Steadfast
<1>s. sc = [phase |-> sc.phase, requested |-> sc.requested, semantic |-> sc.semantic,
           cand |-> sc.cand, left |-> sc.left, on |-> sc.on, todo |-> sc.todo,
           issuing |-> sc.issuing]
  BY <1>0 DEF SchedulerOK
<1>1. CASE \E how \in {"stop", "aborted", "withheld"} : TurnEnds(how)
  <2>1. /\ UNCHANGED <<submitting, mode, ending, scheduler>>
        /\ notice' = (notice \/ (mode = "on" /\ submitting = {}))
    BY <1>1 DEF TurnEnds
  <2> QED BY <1>0, <2>1 DEF Coming
<1>2. ASSUME NEW c \in scheduler.left, PassTries(c) PROVE Coming'
  <2> DEFINE id == c[1]
             l == scheduler.left \ {c}
  <2>1. /\ UNCHANGED <<submitting, mode, turn, ending, notice>>
        /\ \/ scheduler' = [sc EXCEPT !.left = l]
           \/ scheduler' = [sc EXCEPT !.on = id]
    BY <1>2 DEF PassTries
  <2> HIDE DEF id, l, sc
  <2>2. scheduler'.phase = sc.phase /\ scheduler'.requested = sc.requested
    BY <1>s, <2>1
  <2> QED BY <2>1, <2>2 DEF Coming, sc
<1>3. CASE DeliverNotice \/ Repair \/ Clear
  <2>1. UNCHANGED <<submitting, mode, turn, ending>>
    BY <1>3 DEF DeliverNotice, Repair, Clear, NoRelease
  <2>2. /\ QueueRelease(sc, TRUE).requested = TRUE \/ mode # "on"
    BY <1>0, QueuedIs
  <2>3. \/ scheduler' = QueueRelease(sc, TRUE)
        \/ scheduler' = sc /\ (notice' = notice \/ submitting # {} \/ turn # None)
    BY <1>3 DEF DeliverNotice, Repair, Clear
  <2> HIDE DEF sc
  <2>4. CASE scheduler' = QueueRelease(sc, TRUE)
    BY <2>1, <2>2, <2>4 DEF Coming
  <2>5. CASE scheduler' = sc /\ (notice' = notice \/ submitting # {} \/ turn # None)
    BY <2>1, <2>5 DEF Coming, sc
  <2> QED BY <2>3, <2>4, <2>5
<1>4. CASE Begin
  <2> DEFINE td == {id \in replay : Reissuable(id)}
  <2>1. scheduler' = [sc EXCEPT !.requested = f, !.semantic = f, !.phase = "replaying", !.todo = td]
    BY <1>4 DEF Begin
  <2> HIDE DEF td, sc, f
  <2>2. scheduler'.phase = "replaying"
    BY <1>s, <2>1
  <2> QED BY <2>2 DEF Coming
<1>5. CASE Retire
  <2>1. /\ UNCHANGED <<submitting, mode, turn, ending, notice>>
        /\ scheduler' = [sc EXCEPT !.issuing = None]
    BY <1>5 DEF Retire
  <2> HIDE DEF sc
  <2>2. scheduler'.phase = sc.phase /\ scheduler'.requested = sc.requested
    BY <1>s, <2>1
  <2> QED BY <2>1, <2>2 DEF Coming, sc
<1>6. CASE PassEnds
  <2>1. /\ UNCHANGED <<submitting, mode, turn, ending, notice>>
        /\ scheduler' = PassEnded(scheduler, pending, f)
        /\ scheduler.phase = "passing"
    BY <1>6 DEF PassEnds, NoRelease
  <2>2. f \in BOOLEAN
    OBVIOUS
  <2> HIDE DEF f
  <2>3. scheduler.requested = TRUE => scheduler'.requested = TRUE
    BY <1>0, <2>1, <2>2, PassedIs
  <2> QED BY <2>1, <2>3 DEF Coming
<1>7. CASE Suspend \/ FlushBegins \/ FlushEnds
  BY <1>7 DEF Suspend, FlushBegins, FlushEnds, Coming
<1>8. CASE Resume
  <2> DEFINE ph == IF sc.phase = "idle" THEN "scheduled" ELSE sc.phase
  <2>1. scheduler' = [sc EXCEPT !.requested = t, !.semantic = t, !.phase = ph]
    BY <1>8 DEF Resume
  <2> HIDE DEF ph, sc, t
  <2>2. scheduler'.requested = t
    BY <1>s, <2>1
  <2> QED BY <2>2 DEF Coming, t
<1>9. CASE Reopen
  <2>1. scheduler' = [Idle EXCEPT !.phase = "scheduled", !.requested = t, !.semantic = t]
    BY <1>9 DEF Reopen
  <2>2. Idle = [phase |-> "idle", requested |-> f, semantic |-> f, cand |-> {},
                left |-> {}, on |-> None, todo |-> {}, issuing |-> None]
    BY DEF Idle
  <2> HIDE DEF t, f
  <2>3. scheduler'.phase = "scheduled"
    BY <2>1, <2>2
  <2> QED BY <2>3 DEF Coming
<1> QED BY <1>1, <1>2, <1>3, <1>4, <1>5, <1>6, <1>7, <1>8, <1>9

\* So a quiet session was quiet before, or has just begun a pass.
LEMMA QuietBefore ==
  ASSUME IInv, Steadfast, Next, ~PassBegins, Quiet'
  PROVE  Quiet
<1>1. silent \subseteq silent'
  <2>1. ASSUME NEW id \in Id, ReleaseStep(id) PROVE silent \subseteq silent'
    BY <2>1 DEF ReleaseStep, Decide, Record, Hold, Stale, Prepare, Busy, Dispatch, NotDispatched, Observe,
                Return, Fail, EndCallback, Orphaned, Revoke, Refuse, history
  <2>2. ASSUME NEW id \in Id, \/ Submit(id) \/ ClaimQueued(id) \/ Reissue(id)
                              \/ RuntimeEnds(id) \/ RuntimeEnded(id) \/ CancelExternal(id) \/ Flush(id)
                              \/ \E authority \in {"allowed", "revoked"} : RetainExternal(id, authority)
        PROVE silent \subseteq silent'
    BY <2>2 DEF Submit, ClaimQueued, Reissue, RuntimeEnds, RuntimeEnded, CancelExternal, Flush,
                RetainExternal, history
  <2>3. ASSUME \/ \E how \in {"stop", "aborted", "withheld"} : TurnEnds(how)
               \/ \E c \in scheduler.left : PassTries(c)
               \/ DeliverNotice \/ Begin \/ Retire \/ PassBegins \/ PassEnds
        PROVE silent \subseteq silent'
    BY <2>3 DEF TurnEnds, PassTries, DeliverNotice, Begin, Retire, PassBegins, PassEnds, history
  <2>4. ASSUME Suspend \/ FlushBegins \/ FlushEnds \/ Resume \/ Repair \/ Clear \/ Reopen
        PROVE silent \subseteq silent'
    BY <2>4 DEF Suspend, FlushBegins, FlushEnds, Resume, Repair, Clear, Reopen, history
  <2> QED BY <2>1, <2>2, <2>3, <2>4 DEF Next
<1>2. Coming => Coming'
  BY ReleaseComing, OtherComing, SchedulerComing DEF Next
<1> QED BY <1>1, <1>2 DEF Quiet

-----------------------------------------------------------------------------
\* A session in which nothing is coming.
LEMMA QuietIs ==
  ASSUME IInv, Steadfast, Quiet
  PROVE  /\ Shaped /\ SchedulerOK(scheduler) /\ Sane(scheduler, mode)
         /\ silent = {} /\ mode = "on" /\ turn = None /\ submitting = {} /\ ending = {}
         /\ notice = FALSE /\ scheduler.requested = FALSE /\ scheduler.semantic = FALSE
         /\ scheduler.phase \in {"idle", "passing"} /\ scheduler.issuing = None
BY DEF IInv, Shaped, Steadfast, Sane, Quiet, Coming, SchedulerOK, Phases

\* The host has yet to take the input of id.
Awaits(id) ==
    records[id] # None /\ ~records[id].archived /\ AwaitingNativeInput(records[id])

\* What others wait for keeps holding a send back.
LEMMA HeldBack ==
  ASSUME NEW i \in Id, records'[i] = records[i], UNCHANGED <<blocked, paused, turn>>,
         \A k \in Id : Awaits(k) => /\ Awaits(k)' /\ records'[k].position = records[k].position
                                    /\ records'[k].queues = records[k].queues,
         Admissible(i)'
  PROVE  Admissible(i)
<1>1. i \in Active /\ records[i].status = "retained" /\ blocked = "no"
  BY DEF Admissible, Active, Existing
<1>2. CASE UserInstruction(i)
  BY <1>1, <1>2 DEF Admissible
<1>3. CASE ~UserInstruction(i)
  <2>1. paused = "no" /\ turn = None /\ ~UserPending' /\ Earlier(i)' = {}
    BY <1>3 DEF Admissible
  <2>2. ~UserPending
    BY <2>1 DEF UserPending, Active, Existing, Awaits
  <2>3. Earlier(i) = {}
    BY <2>1 DEF Earlier, Active, Existing, Awaits
  <2> QED BY <1>1, <2>1, <2>2, <2>3 DEF Admissible
<1> QED BY <1>2, <1>3

\* An identity that a step does not concern.
LEMMA Elsewhere ==
  ASSUME NEW i \in Id, Hoped(i), Followed(i), 
         records'[i] = records[i], pending'[i] = pending[i], release'[i] = release[i],
         Admissible(i)' => Admissible(i),
         scheduler'.on = i => scheduler.on = i,
         <<i, pending[i]>> \in scheduler.left /\ scheduler.on # i =>
            <<i, pending[i]>> \in scheduler'.left /\ scheduler'.on # i,
         scheduler'.phase = "passing" => scheduler.phase = "passing" /\ scheduler'.cand = scheduler.cand
  PROVE  Hoped(i)' /\ Followed(i)'
<1>1. Hoped(i)'
  BY DEF Hoped, Good
<1>2. Dispatchable(i, release[i].revision)' <=> Dispatchable(i, release[i].revision)
  BY DEF Dispatchable, Current, Active, Existing
<1>3. Followed(i)'
  BY <1>2 DEF Followed
<1> QED BY <1>1, <1>3

\* The end of a release in a quiet session.
LEMMA QuietEnd ==
  ASSUME IInv, Steadfast, Quiet, NEW id \in Id, NEW result, NEW rs, NEW pend,
         Done(id, result, rs, pend, FALSE)
  PROVE  /\ records' = rs /\ pending' = pend
         /\ release' = [release EXCEPT ![id] = Resting] /\ submitting' = {}
         /\ scheduler' = PassTold(scheduler, id, result, pend)
         /\ scheduler.on # id => scheduler' = scheduler
         /\ (scheduler.on = id /\ result = "no") =>
               /\ scheduler'.on = None /\ scheduler'.phase = scheduler.phase
               /\ scheduler'.cand = scheduler.cand
               /\ scheduler'.left = {c \in scheduler.left : c[1] # id}
<1> DEFINE pt == PassTold(scheduler, id, result, pend)
           told == ReissueTold(pt, id, result)
<1>0. Shaped /\ SchedulerOK(scheduler) /\ submitting = {} /\ scheduler.issuing = None /\ id # None
  BY QuietIs, SubmissionAssumption
<1>1. /\ records' = rs /\ pending' = pend
      /\ release' = [release EXCEPT ![id] = Resting] /\ submitting' = {}
      /\ scheduler' = told
  BY <1>0 DEF Done
<1>2. SchedulerOK(pt) /\ pt.issuing = None
  BY <1>0, Told DEF Same
<1>3. told = pt
  BY <1>2 DEF ReissueTold
<1>4. scheduler.on # id => pt = scheduler
  BY DEF PassTold
<1>5. ASSUME scheduler.on = id, result = "no"
      PROVE  /\ pt.on = None /\ pt.phase = scheduler.phase /\ pt.cand = scheduler.cand
             /\ pt.left = {c \in scheduler.left : c[1] # id}
  <2> DEFINE l == {c \in scheduler.left : c[1] # id}
  <2>1. pt = [scheduler EXCEPT !.on = None, !.left = l]
    BY <1>5 DEF PassTold
  <2> HIDE DEF l, pt
  <2>2. pt = [phase |-> scheduler.phase, requested |-> scheduler.requested,
              semantic |-> scheduler.semantic, cand |-> scheduler.cand, left |-> l, on |-> None,
              todo |-> scheduler.todo, issuing |-> scheduler.issuing]
    BY <2>1, <1>0 DEF SchedulerOK
  <2>3. pt.on = None /\ pt.phase = scheduler.phase /\ pt.cand = scheduler.cand /\ pt.left = l
    BY <2>2
  <2> QED BY <2>3 DEF l
<1> QED BY <1>1, <1>3, <1>4, <1>5

\* A refusal of what a pass will still try, or would not be admitted.
LEMMA RefusalExpected ==
  ASSUME IInv, Steadfast, Quiet, Expected, NEW id \in Id, NEW result,
         result = "no" \/ scheduler.on # id,
         Done(id, result, records, pending, FALSE), UNCHANGED <<blocked, paused, turn>>,
         pending[id] # 0 /\ Admissible(id) =>
            <<id, pending[id]>> \in scheduler.left /\ scheduler.on # id
  PROVE  Expected'
<1>0. Shaped /\ id # None
  BY QuietIs, SubmissionAssumption
<1>1. /\ records' = records /\ pending' = pending
      /\ release' = [release EXCEPT ![id] = Resting]
      /\ scheduler.on # id => scheduler' = scheduler
      /\ scheduler.on = id =>
               /\ scheduler'.on = None /\ scheduler'.phase = scheduler.phase
               /\ scheduler'.cand = scheduler.cand
               /\ scheduler'.left = {c \in scheduler.left : c[1] # id}
  BY QuietEnd
<1>2. \A i \in Id : i # id => release'[i] = release[i]
  BY <1>0, <1>1 DEF Shaped
<1>3. \A k \in Id : Awaits(k) => Awaits(k)'
  BY <1>1 DEF Awaits
<1>4. \A i \in Id : Admissible(i)' => Admissible(i)
  BY <1>1, <1>3, HeldBack
<1>5. ASSUME NEW i \in Id PROVE Hoped(i)' /\ Followed(i)'
  <2>0. Hoped(i) /\ Followed(i) /\ None \notin Id
    BY SubmissionAssumption DEF Expected
  <2>1. CASE i = id
    <3>1. Hoped(i)'
      BY <2>1, <1>1, <1>4 DEF Hoped
    <3>2. Followed(i)'
      BY <2>0, <2>1, <1>1 DEF Followed
    <3> QED BY <3>1, <3>2
  <2>2. CASE i # id
    <3>1. CASE scheduler.on # id
      BY <2>0, <2>2, <3>1, <1>1, <1>2, <1>4, Elsewhere
    <3>2. CASE scheduler.on = id
      <4>1. <<i, pending[i]>> \in scheduler.left => <<i, pending[i]>> \in scheduler'.left
        BY <2>2, <3>2, <1>1
      <4> QED BY <2>0, <2>2, <3>2, <4>1, <1>1, <1>2, <1>4, Elsewhere
    <3> QED BY <3>1, <3>2
  <2> QED BY <2>1, <2>2
<1> QED BY <1>5 DEF Expected

LEMMA HoldExpected ==
  ASSUME IInv, Steadfast, Quiet, Expected, NEW id \in Id, Hold(id)
  PROVE  Expected'
<1>1. /\ release[id].at = "recording" /\ ~Admitted(id)
      /\ Done(id, "no", records, pending, FALSE) /\ UNCHANGED <<blocked, paused, turn>>
  BY QuietIs DEF Hold, Refuse
<1>2. ~HeldForSemantics(id)
  BY QuietIs DEF HeldForSemantics
<1>3. ~release[id].allowed \/ blocked # "no"
  BY <1>1, <1>2 DEF Admitted
<1>4. pending[id] # 0 /\ Admissible(id) =>
            <<id, pending[id]>> \in scheduler.left /\ scheduler.on # id
  <2>1. Hoped(id)
    BY DEF Expected
  <2> QED BY <2>1, <1>1, <1>3 DEF Hoped, Good, Admissible
<1> QED BY <1>1, <1>4, RefusalExpected

LEMMA StaleExpected ==
  ASSUME IInv, Steadfast, Quiet, Expected, NEW id \in Id, Stale(id)
  PROVE  Expected'
<1>1. /\ release[id].at \in {"recording", "preparing"}
      /\ ~Current(id, release[id].revision) \/ pending[id] # release[id].revision
      /\ Done(id, "no", records, pending, FALSE) \/ Done(id, "error", records, pending, FALSE)
      /\ UNCHANGED <<blocked, paused, turn>>
  BY DEF Stale, Refuse
<1>2. pending[id] = 0
  <2> SUFFICES ASSUME pending[id] # 0 PROVE FALSE
    OBVIOUS
  <2>1. /\ records[id] # None /\ ~records[id].archived /\ records[id].status = "retained"
        /\ records[id].revision = pending[id]
    BY OpenStays
  <2>2. release[id].revision = records[id].revision
    BY <1>1, <2>1 DEF IInv, Local, Lasts
  <2> QED BY <1>1, <2>1, <2>2 DEF Current, Active, Existing
<1>3. scheduler.on # id
  BY <1>1, <1>2 DEF Expected, Followed
<1> QED BY <1>1, <1>2, <1>3, RefusalExpected

LEMMA BusyExpected ==
  ASSUME IInv, Steadfast, Quiet, Expected, NEW id \in Id, Busy(id), silent' = {}
  PROVE  Expected'
<1>1. /\ WorkOwners \ {id} # {} 
      /\ \A j \in WorkOwners \ {id} : AsksFor(j, id)
      /\ Done(id, "no", records, pending, FALSE) /\ UNCHANGED <<blocked, paused, turn>>
  BY QuietIs DEF Busy
<1>2. <<id, pending[id]>> \in scheduler.left /\ scheduler.on # id
  BY <1>1, QuietIs DEF AsksFor
<1> QED BY <1>1, <1>2, RefusalExpected

LEMMA NotDispatchedExpected ==
  ASSUME IInv, Steadfast, Quiet, Expected, NEW id \in Id, NotDispatched(id)
  PROVE  Expected'
<1>1. /\ release[id].at = "intent" 
      /\ Done(id, "no", records, pending, FALSE) /\ UNCHANGED <<blocked, paused, turn>>
  BY DEF NotDispatched, Refuse
<1>2. pending[id] = 0
  BY <1>1 DEF IInv, Local, Once
<1> QED BY <1>1, <1>2, RefusalExpected

LEMMA OrphanedExpected ==
  ASSUME IInv, Steadfast, Quiet, Expected, NEW id \in Id, Orphaned(id), silent' = {}
  PROVE  Expected'
<1> DEFINE f == "error" = "yes"
<1>0. Shaped /\ SchedulerOK(scheduler) /\ Sane(scheduler, mode) /\ scheduler.requested = FALSE /\ None \notin Id
  BY QuietIs, SubmissionAssumption
<1>1. /\ release[id].at = "running" 
      /\ Done(id, "error", records, pending, FALSE) /\ UNCHANGED <<blocked, paused, turn>>
  BY DEF Orphaned
<1>d. Done(id, "error", records, pending, FALSE)
  BY <1>1
<1>s. SchedulerOK(scheduler) /\ Sane(scheduler, mode)
  BY <1>0
<1>l. scheduler.on = id => \A c \in scheduler.left : c[1] = id
  BY <1>0 DEF Orphaned
<1>2. pending[id] = 0
  BY <1>1 DEF IInv, Local, Once
<1>3. CASE scheduler.on # id
  BY <1>1, <1>2, <1>3, RefusalExpected
<1>4. CASE scheduler.on = id
  <2>1. /\ records' = records /\ pending' = pending /\ release' = [release EXCEPT ![id] = Resting]
        /\ scheduler' = PassEnded(scheduler, pending, f)
    <3> DEFINE r == "error"
    <3>0. Done(id, r, records, pending, FALSE)
      BY <1>d
    <3> HIDE DEF r
    <3>a. records' = records /\ pending' = pending
      BY <3>0, QuietEnd
    <3>b. release' = [release EXCEPT ![id] = Resting]
      BY <3>0, QuietEnd
    <3>c. scheduler' = PassTold(scheduler, id, r, pending)
      BY <3>0, QuietEnd
    <3>1. /\ records' = records /\ pending' = pending /\ release' = [release EXCEPT ![id] = Resting]
          /\ scheduler' = PassTold(scheduler, id, "error", pending)
      BY <3>a, <3>b, <3>c DEF r
    <3>2. PassTold(scheduler, id, "error", pending) = PassEnded(scheduler, pending, f)
      BY <1>4 DEF PassTold
    <3> QED BY <3>1, <3>2
  <2>2. f \in BOOLEAN
    OBVIOUS
  <2>3. scheduler'.left = {} /\ scheduler'.on = None /\ scheduler'.phase \in {"idle", "scheduled"}
    <3> HIDE DEF f
    <3> DEFINE q == PassEnded(scheduler, pending, f)
    <3>1. q.left = {} /\ q.on = None 
      BY <1>s, <2>2, PassedIs
    <3>2. q.phase \in {"idle", "scheduled"}
      BY <1>s, <2>2, PassedIs
    <3>3. scheduler' = q
      BY <2>1
    <3> HIDE DEF q
    <3> QED BY <3>1, <3>2, <3>3
  <2>4. \A k \in Id : Awaits(k) => Awaits(k)'
    BY <2>1 DEF Awaits
  <2>5. \A i \in Id : Admissible(i)' => Admissible(i)
    BY <1>1, <2>1, <2>4, HeldBack
  <2>6. \A i \in Id : i # id => release'[i] = release[i]
    BY <1>0, <2>1 DEF Shaped
  <2>7. \A i \in Id : i # id => <<i, pending[i]>> \notin scheduler.left
    BY <1>l, <1>4
  <2>8. ASSUME NEW i \in Id PROVE Hoped(i)' /\ Followed(i)'
    <3>0. Hoped(i) /\ Followed(i)
      BY DEF Expected
    <3>1. CASE i = id
      BY <1>0, <1>2, <2>1, <2>3, <3>1 DEF Hoped, Followed
    <3>2. CASE i # id
      BY <1>0, <2>1, <2>3, <2>5, <2>6, <2>7, <3>0, <3>2, Elsewhere
    <3> QED BY <3>1, <3>2
  <2> QED BY <2>8 DEF Expected
<1> QED BY <1>3, <1>4

\* A step of one release that the pass is not told of.
LEMMA MoveExpected ==
  ASSUME Expected, NEW id \in Id, UNCHANGED <<scheduler, blocked, paused, turn>>,
         \A i \in Id : i # id => /\ records'[i] = records[i] /\ pending'[i] = pending[i]
                                 /\ release'[i] = release[i],
         Awaits(id) => /\ Awaits(id)' /\ records'[id].position = records[id].position
                       /\ records'[id].queues = records[id].queues,
         Hoped(id)', Followed(id)'
  PROVE  Expected'
<1>1. \A k \in Id : Awaits(k) => /\ Awaits(k)' /\ records'[k].position = records[k].position
                                 /\ records'[k].queues = records[k].queues
  BY DEF Awaits
<1>2. ASSUME NEW i \in Id, i # id PROVE Hoped(i)' /\ Followed(i)'
  <2>1. Admissible(i)' => Admissible(i)
    BY <1>1, <1>2, HeldBack
  <2>2. Hoped(i) /\ Followed(i)
    BY DEF Expected
  <2> QED BY <1>2, <2>1, <2>2, Elsewhere
<1> QED BY <1>2 DEF Expected

LEMMA DecideExpected ==
  ASSUME IInv, Steadfast, Quiet, Expected, NEW id \in Id, Decide(id) \/ Record(id)
  PROVE  Expected'
<1>0. Shaped /\ Hoped(id) /\ Followed(id)
  BY QuietIs DEF Expected
<1> DEFINE a == Admissible(id)
<1>1. /\ UNCHANGED <<records, pending, scheduler, blocked, paused, turn>>
      /\ \/ /\ release[id].at = "deciding"
            /\ release' = [release EXCEPT ![id].at = "recording", ![id].allowed = a]
         \/ /\ release[id].at = "recording"
            /\ release' = [release EXCEPT ![id].at = "preparing"]
  BY DEF Decide, Record, session
<1>2. Admissible(id)' => a
  <2>1. \A k \in Id : Awaits(k) => Awaits(k)'
    BY <1>1 DEF Awaits
  <2> QED BY <1>1, <2>1, HeldBack
<1> HIDE DEF a
<1>3. /\ \A i \in Id : i # id => release'[i] = release[i]
      /\ \/ release'[id].at = "recording" /\ release'[id].allowed = a
         \/ release'[id].at = "preparing"
      /\ release[id].at \in {"deciding", "recording"}
  <2> DEFINE d == [release[id] EXCEPT !.at = "recording", !.allowed = a]
             e == [release[id] EXCEPT !.at = "preparing"]
  <2>1. d.at = "recording" /\ d.allowed = a /\ e.at = "preparing"
    BY <1>0 DEF Shaped, ReleaseOK
  <2>2. release' = [release EXCEPT ![id] = d] \/ release' = [release EXCEPT ![id] = e]
    BY <1>1
  <2> HIDE DEF d, e
  <2>3. /\ \A i \in Id : i # id => release'[i] = release[i]
        /\ release'[id] = d \/ release'[id] = e
    BY <1>0, <2>2 DEF Shaped
  <2> QED BY <1>1, <2>1, <2>3
<1>4. Hoped(id)'
  BY <1>2, <1>3 DEF Hoped, Good
<1>5. Followed(id)'
  BY <1>0, <1>1, <1>3 DEF Followed
<1>6. Awaits(id) => Awaits(id)'
  BY <1>1 DEF Awaits
<1> QED BY <1>1, <1>3, <1>4, <1>5, <1>6, MoveExpected

LEMMA PrepareExpected ==
  ASSUME IInv, Steadfast, Quiet, Expected, NEW id \in Id, Prepare(id)
  PROVE  Expected'
<1>0. Shaped /\ Hoped(id) /\ Followed(id) /\ ending = {}
  BY QuietIs DEF Expected
<1> DEFINE w == StartsWork(id)
<1>1. /\ UNCHANGED <<records, scheduler, blocked, paused, turn>>
      /\ release[id].at = "preparing" /\ pending[id] = release[id].revision
      /\ release' = [release EXCEPT ![id].at = "intent", ![id].works = w]
      /\ pending' = [pending EXCEPT ![id] = 0]
  BY DEF Prepare, session, Consumed
<1> HIDE DEF w
<1>3. /\ \A i \in Id : i # id => release'[i] = release[i]
      /\ release'[id].at = "intent" /\ release'[id].revision = release[id].revision
  BY <1>0, <1>1 DEF Shaped, ReleaseOK
<1>2. pending'[id] = 0 /\ \A i \in Id : i # id => pending'[i] = pending[i]
  BY <1>0, <1>1, PendingCleared
<1>4. Hoped(id)'
  BY <1>2 DEF Hoped
<1>5. Followed(id)'
  <2>1. ASSUME scheduler.on = id PROVE Dispatchable(id, release[id].revision)
    <3>1. pending[id] # 0
      BY <1>0, <1>1, <2>1 DEF Followed
    <3>2. /\ records[id] # None /\ ~records[id].archived /\ records[id].status = "retained"
          /\ records[id].phase = "none" /\ records[id].revision = pending[id]
      BY <3>1, OpenStays
    <3>3. ~records[id].ended
      BY <1>0, <3>1 DEF Steadfast, Kept
    <3> QED BY <1>1, <3>2, <3>3 DEF Dispatchable, Current, Active, Existing
  <2>2. Dispatchable(id, release[id].revision)' <=> Dispatchable(id, release[id].revision)
    BY <1>1, <1>3 DEF Dispatchable, Current, Active, Existing
  <2> QED BY <1>1, <1>2, <1>3, <2>1, <2>2 DEF Followed
<1>6. Awaits(id) => Awaits(id)'
  BY <1>1 DEF Awaits
<1> QED BY <1>1, <1>2, <1>3, <1>4, <1>5, <1>6, MoveExpected

\* A call that began, or failed, holds back what it held back.
LEMMA CallExpected ==
  ASSUME IInv, Steadfast, Quiet, Expected, NEW id \in Id, Dispatch(id) \/ Fail(id)
  PROVE  Expected'
<1>0. Shaped /\ Hoped(id) /\ Followed(id) /\ RecordsOK(records)
  BY QuietIs DEF Expected, Shaped
<1>1. PICK s \in {"started", "failed"}, at \in {"running", "failing"} :
          /\ release[id].at \in {"intent", "running"}
          /\ records' = [records EXCEPT ![id].phase = s]
          /\ release' = [release EXCEPT ![id].at = at]
          /\ UNCHANGED <<pending, scheduler, blocked, paused, turn>>
  BY DEF Dispatch, Fail, Dispatched, Running, session
<1>2. pending[id] = 0 /\ records[id] # None
  BY <1>1 DEF IInv, Local, Once
<1>3. /\ \A i \in Id : i # id => release'[i] = release[i]
      /\ release'[id].at \in {"running", "failing"}
  BY <1>0, <1>1 DEF Shaped, ReleaseOK
<1> DEFINE r == [records[id] EXCEPT !.phase = s]
<1>4. /\ \A i \in Id : i # id => records'[i] = records[i]
      /\ records'[id] = r
  BY <1>0, <1>1 DEF RecordsOK
<1>5. /\ r \in SubmissionRecord /\ r.status = records[id].status /\ r.ended = records[id].ended
      /\ r.input = records[id].input /\ r.phase = s /\ r.archived = records[id].archived
      /\ r.position = records[id].position /\ r.queues = records[id].queues
  BY <1>0, <1>2 DEF RecordsOK, RecordOK, SubmissionRecord
<1>6. r # None
  BY <1>5, SubmissionAssumption
<1> HIDE DEF r
<1>7. Awaits(id) => /\ Awaits(id)' /\ records'[id].position = records[id].position
                    /\ records'[id].queues = records[id].queues
  BY <1>4, <1>5, <1>6 DEF Awaits, AwaitingNativeInput, CompletedWithoutInput
<1>8. Hoped(id)' /\ Followed(id)'
  BY <1>0, <1>1, <1>2, <1>3 DEF Hoped, Followed
<1> QED BY <1>1, <1>3, <1>4, <1>7, <1>8, MoveExpected

\* A pass that is told of a call that went through asks for the next, unless
\* nothing it knew of is left.
LEMMA ReturnExpected ==
  ASSUME IInv, Steadfast, Quiet, Expected, NEW id \in Id, Return(id), Quiet'
  PROVE  Expected'
<1> DEFINE rs == [records EXCEPT ![id].phase = "returned"]
           yes == "yes"
           f == yes = "yes"
<1>0. Shaped /\ RecordsOK(records) /\ submitting = {} /\ None \notin Id
  BY QuietIs, SubmissionAssumption DEF Shaped
<1>s. SchedulerOK(scheduler) /\ Sane(scheduler, mode)
  BY QuietIs
<1>1. /\ release[id].at = "running" /\ UNCHANGED <<blocked, paused, turn>>
      /\ silent' = IF External(id) /\ records[id].input = "none" /\ scheduler.on # id
                   THEN silent \cup {id} ELSE silent
  BY DEF Return, Running
<1>d. Done(id, yes, rs, pending, FALSE)
  BY DEF Return
<1>2. pending[id] = 0 /\ records[id] # None
  BY <1>1 DEF IInv, Local, Once
<1> DEFINE r == [records[id] EXCEPT !.phase = "returned"]
<1>4. /\ \A i \in Id : i # id => rs[i] = records[i]
      /\ rs[id] = r
  BY <1>0 DEF RecordsOK
<1>5. /\ r \in SubmissionRecord /\ r.status = records[id].status /\ r.ended = records[id].ended
      /\ r.input = records[id].input /\ r.phase = "returned" /\ r.archived = records[id].archived
      /\ r.position = records[id].position /\ r.queues = records[id].queues
  BY <1>0, <1>2 DEF RecordsOK, RecordOK, SubmissionRecord
<1>6. r # None
  BY <1>5, SubmissionAssumption
<1> HIDE DEF r, rs, yes, f
<1>7. /\ records' = rs /\ pending' = pending
  BY <1>d, QuietEnd
<1>8. release' = [release EXCEPT ![id] = Resting]
  BY <1>d, QuietEnd
<1>9. scheduler' = PassTold(scheduler, id, yes, pending) /\ (scheduler.on # id => scheduler' = scheduler)
  BY <1>d, QuietEnd
<1>10. release'[id].at = "none" /\ \A i \in Id : i # id => release'[i] = release[i]
  BY <1>0, <1>8, Rested DEF Shaped
<1>11. CASE scheduler.on # id
  <2>1. External(id)
    BY <1>0, <1>1, <1>11 DEF Steadfast, Kept
  <2>2. records[id].input # "none"
    BY <1>1, <1>11, <2>1 DEF Quiet
  <2>3. Awaits(id) => /\ Awaits(id)' /\ records'[id].position = records[id].position
                      /\ records'[id].queues = records[id].queues
    BY <1>4, <1>5, <1>6, <1>7, <2>2 DEF Awaits, AwaitingNativeInput, CompletedWithoutInput
  <2>4. Hoped(id)' /\ Followed(id)'
    BY <1>2, <1>7, <1>9, <1>11 DEF Hoped, Followed
  <2> QED BY <1>1, <1>4, <1>7, <1>9, <1>10, <1>11, <2>3, <2>4, MoveExpected
<1>12. CASE scheduler.on = id
  <2> DEFINE q == PassEnded(scheduler, pending, f)
  <2>1. scheduler' = q
    <3>1. yes # "no" /\ f = (yes = "yes")
      BY DEF yes, f
    <3>2. PassTold(scheduler, id, yes, pending) = q
      BY <1>12, <3>1 DEF PassTold, yes, f
    <3> QED BY <1>9, <3>2
  <2>2. f \in BOOLEAN /\ f = TRUE
    BY DEF f, yes
  <2>3. q.left = {} /\ q.on = None
    BY <1>s, <2>2, PassedIs
  <2>4. q.phase \in {"idle", "scheduled"}
    BY <1>s, <2>2, PassedIs
  <2>5. \A c \in scheduler.cand : pending[c[1]] = c[2] => q.requested = TRUE
    <3> SUFFICES ASSUME NEW c \in scheduler.cand, pending[c[1]] = c[2] PROVE q.requested = TRUE
      OBVIOUS
    <3> DEFINE again == scheduler.requested \/ (f /\ \E d \in scheduler.cand : pending[d[1]] = d[2])
    <3>1. q.requested = again
      BY <1>s DEF PassEnded, SchedulerOK
    <3>2. again = TRUE
      BY <2>2
    <3> QED BY <3>1, <3>2
  <2> HIDE DEF q
  <2>6. \A c \in scheduler.cand : pending[c[1]] # c[2]
    BY <2>1, <2>2, <2>5 DEF Quiet, Coming
  <2>7. ASSUME NEW i \in Id, pending[i] # 0 
        PROVE  External(i) /\ <<i, pending[i]>> \notin scheduler.left
    <3>1. <<i, pending[i]>> \notin scheduler.cand
      BY <2>6
    <3>2. scheduler.phase = "passing"
      BY <1>0, <1>12, <1>s DEF SchedulerOK
    <3> QED BY <1>s, <2>7, <3>1, <3>2 DEF Expected, Followed, Sane
  <2>8. ASSUME NEW i \in Id PROVE Hoped(i)' /\ Followed(i)'
    <3>1. Followed(i)'
      BY <1>0, <2>1, <2>3, <2>4 DEF Followed
    <3>2. CASE pending[i] = 0
      BY <1>7, <3>1, <3>2 DEF Hoped
    <3>3. CASE pending[i] # 0
      <4>1. External(i) /\ <<i, pending[i]>> \notin scheduler.left /\ i # id
        BY <1>2, <2>7, <3>3
      <4>2. Admissible(i)' => Admissible(i)
        BY <1>1, <1>4, <1>7, <4>1 DEF Admissible, Active, Existing, UserInstruction, External
      <4>3. Hoped(i)
        BY DEF Expected
      <4> QED BY <1>7, <1>10, <3>1, <4>1, <4>2, <4>3 DEF Hoped, Good
    <3> QED BY <3>1, <3>2, <3>3
  <2> QED BY <2>8 DEF Expected
<1> QED BY <1>11, <1>12

\* An adapter's message is released as it is retained, and holds back what is
\* not the user's.
LEMMA RetainExpected ==
  ASSUME IInv, Steadfast, Quiet, Expected, NEW id \in Id, NEW authority, 
         RetainExternal(id, authority), silent' = {}
  PROVE  Expected'
<1> DEFINE rs == IF records[id] = None THEN Retained(records, id, turn # None) ELSE Reattached(id)
           n == rs[id]
           q == [Resting EXCEPT !.at = "deciding", !.revision = n.revision]
<1>0. /\ Shaped /\ RecordsOK(records) /\ turn = None
  BY QuietIs DEF Shaped
<1>1. /\ External(id) /\ UNCHANGED <<scheduler, blocked, turn>>
      /\ \/ records[id] = None
         \/ CanReattach(id) /\ pending[id] = 0 /\ ~Released(id)
      /\ records' = rs /\ pending' = [pending EXCEPT ![id] = n.revision]
      /\ release' = [release EXCEPT ![id] = q]
  BY DEF RetainExternal
<1>2. /\ n # None /\ ~n.archived /\ n.status = "retained" /\ ~n.ended /\ n.input = "none"
      /\ n.phase = "none"
      /\ rs = [i \in Id |-> rs[i]] /\ \A i \in Id : i # id => rs[i] = records[i]
  <2>1. CASE records[id] = None
    <3> DEFINE r == NewRecord(Cardinality({i \in Id : records[i] # None}) + 1, turn # None)
    <3>1. (turn # None) \in BOOLEAN
      OBVIOUS
    <3>2. r # None /\ ~r.archived /\ r.status = "retained" /\ ~r.ended /\ r.input = "none" /\ r.phase = "none"
      BY <3>1, NewIs
    <3> HIDE DEF r
    <3>3. rs = [records EXCEPT ![id] = r]
      BY <2>1 DEF Retained, r
    <3> HIDE DEF rs
    <3> QED BY <1>0, <3>2, <3>3 DEF RecordsOK
  <2>2. CASE records[id] # None
    <3> DEFINE r == [records[id] EXCEPT !.revision = @ + 1, !.ended = FALSE]
    <3>1. CanReattach(id) /\ records[id] \in SubmissionRecord
      BY <1>0, <1>1, <2>2 DEF RecordsOK, RecordOK
    <3>2. records[id].revision + 1 \in Nat
      BY <3>1 DEF SubmissionRecord
    <3>i. records[id].input = "none"
      BY <3>1, <2>2 DEF IInv, Local, Once, CanReattach
    <3>3. r \in SubmissionRecord /\ ~r.archived /\ r.status = "retained" /\ ~r.ended
          /\ r.input = "none" /\ r.phase = "none"
      BY <3>1, <3>2, <3>i DEF SubmissionRecord, CanReattach, Active, Existing
    <3>4. r # None
      BY <3>3, SubmissionAssumption
    <3>5. rs = [records EXCEPT ![id] = r]
      BY <1>0, <2>2 DEF Reattached, RecordsOK
    <3> HIDE DEF r, rs
    <3> QED BY <1>0, <3>3, <3>4, <3>5 DEF RecordsOK
  <2> QED BY <2>1, <2>2
<1>3. release[id].at = "none" /\ scheduler.on # id
  <2>1. release[id].at = "none"
    BY <1>1, Untaken DEF Released
  <2> QED BY <2>1, SubmissionAssumption DEF Steadfast
<1>4. q.at = "deciding"
  BY DEF Resting
<1> HIDE DEF rs, q, n
<1>5. release'[id].at = "deciding" /\ \A i \in Id : i # id => release'[i] = release[i]
  BY <1>0, <1>1, <1>4 DEF Shaped
<1>6. records'[id] = n /\ \A i \in Id : i # id => records'[i] = records[i] /\ pending'[i] = pending[i]
  BY <1>0, <1>1, <1>2 DEF n, Shaped
<1>7. Hoped(id)' /\ Followed(id)'
  BY <1>1, <1>3, <1>5 DEF Hoped, Good, Followed
<1>8. UserPending'
  BY <1>1, <1>2, <1>6 DEF UserPending, Active, Existing, UserInstruction, External,
                          AwaitingNativeInput, CompletedWithoutInput
<1>9. ASSUME NEW i \in Id, i # id PROVE Hoped(i)' /\ Followed(i)'
  <2>1. Admissible(i)' => Admissible(i)
    BY <1>1, <1>6, <1>8, <1>9 DEF Admissible, Active, Existing
  <2>2. Hoped(i) /\ Followed(i)
    BY DEF Expected
  <2> QED BY <1>1, <1>5, <1>6, <1>9, <2>1, <2>2, Elsewhere
<1> QED BY <1>7, <1>9 DEF Expected

\* The pass starts the release it waits for.
LEMMA PassTriesExpected ==
  ASSUME IInv, Steadfast, Quiet, Expected, NEW c \in scheduler.left, PassTries(c), silent' = {}
  PROVE  Expected'
<1> DEFINE id == c[1]
           l == scheduler.left \ {c}
           q == [Resting EXCEPT !.at = "deciding", !.revision = c[2]]
           sc == scheduler
<1>0. /\ Shaped /\ SchedulerOK(scheduler) /\ submitting = {} /\ None \notin Id
  BY QuietIs, SubmissionAssumption
<1>i. id \in Id /\ c[2] \in 1..MaxRevision /\ c = <<c[1], c[2]>>
  BY <1>0 DEF SchedulerOK
<1>s. sc = [phase |-> sc.phase, requested |-> sc.requested, semantic |-> sc.semantic,
           cand |-> sc.cand, left |-> sc.left, on |-> sc.on, todo |-> sc.todo,
           issuing |-> sc.issuing]
  BY <1>0 DEF SchedulerOK
<1>1. /\ scheduler.phase = "passing" /\ scheduler.on = None
      /\ UNCHANGED <<records, pending, blocked, paused, turn>>
      /\ \/ scheduler' = [sc EXCEPT !.left = l] /\ UNCHANGED release /\ pending[id] # c[2]
         \/ /\ scheduler' = [sc EXCEPT !.on = id] /\ pending[id] = c[2]
            /\ release' = [release EXCEPT ![id] = q]
  BY <1>0 DEF PassTries
<1>q. q.at = "deciding"
  BY DEF Resting
<1>2. \A k \in Id : Awaits(k) => Awaits(k)'
  BY <1>1 DEF Awaits
<1>3. \A i \in Id : Admissible(i)' => Admissible(i)
  BY <1>1, <1>2, HeldBack
<1>4. CASE scheduler' = [sc EXCEPT !.left = l] /\ UNCHANGED release /\ pending[id] # c[2]
  <2>0. \A i \in Id : <<i, pending[i]>> \in scheduler.left => <<i, pending[i]>> \in l
    BY <1>4
  <2> HIDE DEF l, sc
  <2>1. /\ scheduler'.phase = sc.phase /\ scheduler'.cand = sc.cand 
        /\ scheduler'.left = l /\ scheduler'.on = sc.on
    BY <1>s, <1>4
  <2>2. ASSUME NEW i \in Id PROVE Hoped(i)' /\ Followed(i)'
    <3>1. Hoped(i) /\ Followed(i)
      BY DEF Expected
    <3> QED BY <1>1, <1>3, <1>4, <2>0, <2>1, <3>1, Elsewhere DEF sc
  <2> QED BY <2>2 DEF Expected
<1>5. CASE /\ scheduler' = [sc EXCEPT !.on = id] /\ pending[id] = c[2]
           /\ release' = [release EXCEPT ![id] = q]
  <2> HIDE DEF id, q, sc
  <2>1. /\ scheduler'.phase = sc.phase /\ scheduler'.cand = sc.cand 
        /\ scheduler'.left = sc.left /\ scheduler'.on = id
    BY <1>s, <1>5
  <2>2. release'[id].at = "deciding" /\ \A i \in Id : i # id => release'[i] = release[i]
    BY <1>0, <1>i, <1>5, <1>q DEF Shaped
  <2>3. ASSUME NEW i \in Id PROVE Hoped(i)' /\ Followed(i)'
    <3>1. Hoped(i) /\ Followed(i)
      BY DEF Expected
    <3>2. CASE i = id
      <4>1. Hoped(i)'
        BY <2>2, <3>2 DEF Hoped, Good
      <4>2. Followed(i)'
        BY <1>1, <1>i, <1>5, <2>1, <2>2, <3>1, <3>2 DEF Followed, sc
      <4> QED BY <4>1, <4>2
    <3>3. CASE i # id
      BY <1>0, <1>1, <1>3, <2>1, <2>2, <3>1, <3>3, Elsewhere DEF sc
    <3> QED BY <3>2, <3>3
  <2> QED BY <2>3 DEF Expected
<1> QED BY <1>1, <1>4, <1>5

\* A pass that ends has tried all there was.
LEMMA PassEndsExpected ==
  ASSUME IInv, Steadfast, Quiet, Expected, PassEnds
  PROVE  Expected'
<1> DEFINE f == FALSE
           q == PassEnded(scheduler, pending, f)
<1>0. SchedulerOK(scheduler) /\ Sane(scheduler, mode)
  BY QuietIs
<1>1. /\ UNCHANGED <<records, pending, release, blocked, paused, turn>>
      /\ scheduler.left = {} /\ scheduler' = q /\ None \notin Id
  BY SubmissionAssumption DEF PassEnds, NoRelease
<1>2. f \in BOOLEAN
  OBVIOUS
<1> HIDE DEF f
<1>3. q.left = {} /\ q.on = None
  BY <1>0, <1>2, PassedIs
<1>4. q.phase \in {"idle", "scheduled"}
  BY <1>0, <1>2, PassedIs
<1> HIDE DEF q
<1>5. \A k \in Id : Awaits(k) => Awaits(k)'
  BY <1>1 DEF Awaits
<1>6. \A i \in Id : Admissible(i)' => Admissible(i)
  BY <1>1, <1>5, HeldBack
<1>7. ASSUME NEW i \in Id PROVE Hoped(i)' /\ Followed(i)'
  <2>1. Hoped(i) /\ Followed(i)
    BY DEF Expected
  <2> QED BY <1>1, <1>3, <1>4, <1>6, <2>1, Elsewhere
<1> QED BY <1>7 DEF Expected

\* A clear that finds a call running discards records no callback is of, while
\* what is blocked or paused stays so.
LEMMA ClearExpected ==
  ASSUME IInv, Steadfast, Quiet, Expected, Clear, Quiet'
  PROVE  Expected'
<1>0. Shaped /\ SchedulerOK(scheduler) /\ mode = "on"
  BY QuietIs
<1>1. /\ UNCHANGED <<pending, release, turn>> /\ records' = Archived(Discarded(records))
      /\ blocked # "no" \/ paused # "no"
      /\ \/ UNCHANGED <<blocked, paused, scheduler>>
         \/ scheduler' = QueueRelease(scheduler, TRUE)
  BY DEF Clear, NoRelease
<1>2. UNCHANGED <<blocked, paused, scheduler>>
  <2>1. QueueRelease(scheduler, TRUE).requested = TRUE
    BY <1>0, QueuedIs
  <2> QED BY <1>1, <2>1 DEF Quiet, Coming
<1>3. ASSUME NEW i \in Id PROVE Hoped(i)' /\ Followed(i)'
  <2>0. Hoped(i) /\ Followed(i)
    BY DEF Expected
  <2>1. CASE pending[i] # 0
    <3>1. records'[i] = records[i]
      BY <1>1, <2>1, OpenStays
    <3>2. Admissible(i)' => Admissible(i)
      BY <1>1, <1>2, <3>1 DEF Admissible, Active, Existing
    <3> QED BY <1>1, <1>2, <2>0, <3>1, <3>2, Elsewhere
  <2>2. CASE pending[i] = 0
    <3>1. Hoped(i)'
      BY <1>1, <2>2 DEF Hoped
    <3>2. ASSUME scheduler.on = i, release[i].at = "intent"
          PROVE  Dispatchable(i, release[i].revision)'
      <4>1. Dispatchable(i, release[i].revision)
        BY <2>0, <3>2 DEF Followed
      <4>2. /\ records[i] # None /\ ~records[i].archived /\ records[i].status = "retained"
            /\ records[i].phase = "none"
        BY <4>1 DEF Dispatchable, Current, Active, Existing
      <4>3. Discarded(records)[i] = records[i]
        BY <4>2 DEF Discarded, Interrupted
      <4>4. records'[i] = records[i]
        BY <1>1, <4>2, <4>3 DEF Archived, FullyConsumed, CancellationSettled
      <4> QED BY <1>1, <4>1, <4>4 DEF Dispatchable, Current, Active, Existing
    <3>3. Followed(i)'
      BY <1>1, <1>2, <2>0, <2>2, <3>2 DEF Followed
    <3> QED BY <3>1, <3>3
  <2> QED BY <2>1, <2>2
<1> QED BY <1>3 DEF Expected

\* A pass begins with every callback there is.
LEMMA PassBeginsExpected ==
  ASSUME IInv, Steadfast, PassBegins, Quiet'
  PROVE  Expected'
<1> DEFINE c == {<<id, pending[id]>> : id \in {i \in Id : pending[i] # 0}}
           sc == scheduler
<1>0. SchedulerOK(scheduler) /\ mode = "on" /\ None \notin Id
  BY SubmissionAssumption DEF IInv, Shaped, Quiet, Coming, PassBegins
<1>s. sc = [phase |-> sc.phase, requested |-> sc.requested, semantic |-> sc.semantic,
           cand |-> sc.cand, left |-> sc.left, on |-> sc.on, todo |-> sc.todo,
           issuing |-> sc.issuing]
  BY <1>0 DEF SchedulerOK
<1>1. /\ scheduler' = [sc EXCEPT !.phase = "passing", !.cand = c, !.left = c]
      /\ pending' = pending /\ sc.phase = "replaying"
  BY <1>0 DEF PassBegins
<1>2. \A i \in Id : pending[i] # 0 => <<i, pending[i]>> \in c
  OBVIOUS
<1> HIDE DEF c, sc
<1>3. /\ scheduler'.phase = "passing" /\ scheduler'.cand = c /\ scheduler'.left = c
      /\ scheduler'.on = sc.on
  BY <1>s, <1>1
<1>4. scheduler'.on = None
  BY <1>0, <1>1, <1>3 DEF SchedulerOK, sc
<1>5. ASSUME NEW i \in Id PROVE Hoped(i)' /\ Followed(i)'
  BY <1>0, <1>1, <1>2, <1>3, <1>4 DEF Hoped, Followed
<1> QED BY <1>5 DEF Expected

LEMMA StepExpected ==
  ASSUME IInv, Steadfast, Quiet => Expected, Next, Quiet'
  PROVE  Expected'
<1>1. CASE PassBegins
  BY <1>1, PassBeginsExpected
<1>2. CASE ~PassBegins
  <2>1. Quiet /\ Expected
    BY <1>2, QuietBefore
  <2>2. /\ silent' = {} /\ mode = "on" /\ turn = None /\ submitting = {} /\ ending = {}
        /\ notice = FALSE /\ scheduler.phase \in {"idle", "passing"} /\ scheduler.issuing = None
        /\ SchedulerOK(scheduler) /\ Shaped
    BY <2>1, QuietIs DEF Quiet
  <2>3. /\ mode' = "on" /\ turn' = None /\ submitting' = {} /\ ending' = {}
        /\ scheduler'.requested # TRUE /\ scheduler'.phase \notin {"scheduled", "replaying"}
    BY DEF Quiet, Coming
  <2>4. QueueRelease(scheduler, TRUE).requested = TRUE
    BY <2>2, QueuedIs
  <2>5. ASSUME NEW id \in Id, ReleaseStep(id) PROVE Expected'
    <3>1. ~Observe(id)
      BY <2>2, <2>3, SubmissionAssumption DEF Observe
    <3>2. ~EndCallback(id)
      BY <2>1, <2>2, <2>3, EndTold DEF EndCallback, Steadfast
    <3>3. ~Revoke(id)
      BY <2>2 DEF Revoke
    <3> QED BY <2>1, <2>2, <2>5, <3>1, <3>2, <3>3, DecideExpected, HoldExpected, StaleExpected, PrepareExpected,
               BusyExpected, CallExpected, NotDispatchedExpected, ReturnExpected, OrphanedExpected
         DEF ReleaseStep
  <2>6. ASSUME NEW id \in Id, \E authority \in {"allowed", "revoked"} : RetainExternal(id, authority)
        PROVE Expected'
    BY <2>1, <2>2, <2>6, RetainExpected
  <2>7. ASSUME NEW id \in Id, \/ Submit(id) \/ ClaimQueued(id) \/ Reissue(id)
                              \/ RuntimeEnds(id) \/ RuntimeEnded(id) \/ CancelExternal(id) \/ Flush(id)
        PROVE FALSE
    BY <2>2, <2>3, <2>7 DEF Submit, Submitted, ClaimQueued, Reissue, RuntimeEnds, RuntimeEnded,
                            CancelExternal, Flush
  <2>8. ASSUME NEW c \in scheduler.left, PassTries(c) PROVE Expected'
    BY <2>1, <2>2, <2>8, PassTriesExpected
  <2>9. ASSUME \/ \E how \in {"stop", "aborted", "withheld"} : TurnEnds(how)
               \/ DeliverNotice \/ Begin \/ Retire \/ Suspend \/ FlushBegins \/ FlushEnds \/ Resume
        PROVE FALSE
    BY <2>2, <2>3, <2>9 DEF TurnEnds, DeliverNotice, Begin, Retire, Suspend, FlushBegins, FlushEnds, Resume
  <2>10. ~Repair
    BY <2>3, <2>4 DEF Repair
  <2>11. ASSUME Reopen PROVE FALSE
    <3> DEFINE t == TRUE
               f == FALSE
    <3>1. scheduler' = [Idle EXCEPT !.phase = "scheduled", !.requested = t, !.semantic = t]
      BY <2>11 DEF Reopen
    <3>2. Idle = [phase |-> "idle", requested |-> f, semantic |-> f, cand |-> {},
                  left |-> {}, on |-> None, todo |-> {}, issuing |-> None]
      BY DEF Idle
    <3> HIDE DEF t, f
    <3>3. scheduler'.phase = "scheduled"
      BY <3>1, <3>2
    <3> QED BY <2>3, <3>3
  <2>12. CASE PassEnds \/ Clear
    BY <2>1, <2>12, PassEndsExpected, ClearExpected
  <2> QED BY <1>2, <2>5, <2>6, <2>7, <2>8, <2>9, <2>10, <2>11, <2>12 DEF Next
<1> QED BY <1>1, <1>2

\* The two halves together.
LEMMA InitRInv == Init => RInv
<1>1. ASSUME Init PROVE Quiet => Expected
  <2>1. scheduler.on = None /\ scheduler.phase = "idle" /\ (\A i \in Id : pending[i] = 0) /\ None \notin Id
    BY <1>1, SubmissionAssumption DEF Init, Idle
  <2> QED BY <2>1 DEF Expected, Hoped, Followed
<1> QED BY <1>1, InitSteadfast DEF RInv, Expected

LEMMA StepRInv == IInv /\ RInv /\ [Next]_vars => RInv'
<1> SUFFICES ASSUME IInv, RInv, [Next]_vars PROVE RInv'
  OBVIOUS
<1>1. Steadfast /\ (Quiet => Expected)
  BY DEF RInv, Expected
<1>2. Steadfast'
  BY <1>1, StepSteadfast
<1>3. Quiet' => Expected'
  <2>1. CASE Next
    BY <1>1, <2>1, StepExpected
  <2>2. CASE UNCHANGED vars
    <3>1. UNCHANGED <<records, pending, release, submitting, scheduler, mode, turn, ending, notice, silent,
                      blocked, paused>>
      BY <2>2 DEF vars, session, history
    <3>2. Quiet' => Quiet
      BY <3>1 DEF Quiet, Coming
    <3>3. \A k \in Id : Awaits(k) => Awaits(k)'
      BY <3>1 DEF Awaits
    <3>4. ASSUME NEW i \in Id, Expected PROVE Hoped(i)' /\ Followed(i)'
      <4>1. Admissible(i)' => Admissible(i)
        BY <3>1, <3>3, HeldBack
      <4>2. Hoped(i) /\ Followed(i)
        BY <3>4 DEF Expected
      <4> QED BY <3>1, <4>1, <4>2, Elsewhere
    <3> QED BY <1>1, <3>2, <3>4 DEF Expected
  <2> QED BY <2>1, <2>2
<1> QED BY <1>2, <1>3 DEF RInv, Expected

\* No send is left behind: in a session at rest in which nothing was refused
\* without asking for a pass, nothing that has its callback would be admitted.
THEOREM NothingLeftBehind == Spec => []NoLostRelease
<1>1. IInv /\ RInv => NoLostRelease
  <2> SUFFICES ASSUME IInv, RInv, AtRest, silent = {}, NEW id \in Id, pending[id] # 0
               PROVE  ~Admissible(id)
    BY DEF NoLostRelease
  <2>1. Steadfast /\ (Quiet => Expected)
    BY DEF RInv, Expected
  <2>2. Sane(scheduler, mode) /\ mode = "on" /\ scheduler.phase = "idle"
    BY <2>1 DEF Steadfast, AtRest
  <2>3. Quiet
    BY <2>2 DEF Quiet, Coming, AtRest, Sane
  <2>4. Hoped(id) /\ scheduler.left = {} /\ release[id].at = "none"
    BY <2>1, <2>2, <2>3 DEF Expected, Sane, AtRest, Released
  <2> QED BY <2>4 DEF Hoped, Good
<1>2. Init => IInv /\ RInv
  BY InitIInv, InitRInv
<1>3. IInv /\ RInv /\ [Next]_vars => (IInv /\ RInv)'
  BY StepIInv, StepRInv
<1> QED BY <1>1, <1>2, <1>3, PTL DEF Spec
=============================================================================
