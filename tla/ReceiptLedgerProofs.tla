------------------------ MODULE ReceiptLedgerProofs ------------------------
(* Theorems about the receipt ledger, for every value of its constants. *)
EXTENDS ReceiptLedger, FiniteSetTheorems, SequenceTheorems, TLAPS

-----------------------------------------------------------------------------
(* Folding old requests *)

\* What consolidateFlowRequests takes out is a finite set of request records.
LEMMA FoldableType ==
    ASSUME NEW s \in Seq(RequestRecord)
    PROVE  /\ Foldable(s) \in SUBSET RequestRecord
           /\ IsFiniteSet(Foldable(s))
<1> DEFINE D == {j \in 1..Cutoff(s) : Finished(s[j])}
<1>1. Cutoff(s) \in Nat /\ Cutoff(s) <= Len(s)
  BY LedgerAssumption DEF Cutoff, LedgerAssumption
<1>2. IsFiniteSet(D)
  <2>1. IsFiniteSet(1..Cutoff(s)) /\ D \in SUBSET (1..Cutoff(s))
    BY <1>1, FS_Interval
  <2>2. QED
    BY <2>1, FS_Subset
<1>3. \A j \in D : s[j] \in RequestRecord
  BY <1>1
<1>4. Foldable(s) = {s[j] : j \in D}
  BY DEF Foldable
<1>5. [j \in D |-> s[j]] \in Surjection(D, Foldable(s))
  BY <1>4 DEF Surjection
<1>6. QED
  BY <1>2, <1>3, <1>4, <1>5, FS_Surjection

\* What is left is a sequence of the attempt's own records.
LEMMA WithoutType ==
    ASSUME NEW s \in Seq(RequestRecord), NEW F
    PROVE  Without(s, F) \in Seq(RequestRecord)
<1>1. Cutoff(s) \in Nat /\ Cutoff(s) <= Len(s)
  BY LedgerAssumption DEF Cutoff, LedgerAssumption
<1>2. SubSeq(s, Cutoff(s) + 1, Len(s)) \in Seq(RequestRecord)
  BY <1>1
<1>3. QED
  BY <1>2 DEF Without

\* Replacing one record of a sequence, if it is there.
LEMMA ReplacedType ==
    ASSUME NEW S, NEW s \in Seq(S), NEW n, NEW x, n \in 1..Len(s) => x \in S
    PROVE  [s EXCEPT ![n] = x] \in Seq(S)
<1>1. s \in [1..Len(s) -> S] /\ Len(s) \in Nat
  BY ElementOfSeq, LenProperties
<1>2. [s EXCEPT ![n] = x] \in [1..Len(s) -> S]
  BY <1>1
<1>3. QED
  BY <1>1, <1>2, SeqDef

LEMMA FoldedType ==
    ASSUME NEW S \in Summary, NEW F \in SUBSET RequestRecord, IsFiniteSet(F)
    PROVE  Folded(S, F) \in Summary
<1>1. Cardinality(F) \in Nat
  BY FS_CardinalityType
<1>2. Carried(F) \subseteq Member /\ Carried(Successes(F)) \subseteq Member
  BY DEF Carried, Successes, RequestRecord
<1>3. QED
  BY <1>1, <1>2 DEF Folded, Summary

\* Folding changes an attempt's requests and summary, and nothing else of it.
LEMMA ConsolidatedType ==
    ASSUME NEW A \in AttemptRecord
    PROVE  /\ Consolidated(A) \in AttemptRecord
           /\ Consolidated(A).phase = A.phase
           /\ Consolidated(A).owner = A.owner
<1>1. /\ A.requests \in Seq(RequestRecord)
      /\ A.summary \in Summary
  BY DEF AttemptRecord
<1>2. Without(A.requests, Foldable(A.requests)) \in Seq(RequestRecord)
  BY <1>1, WithoutType
<1>3. Folded(A.summary, Foldable(A.requests)) \in Summary
  BY <1>1, FoldableType, FoldedType
<1>4. QED
  BY <1>2, <1>3 DEF Consolidated, AttemptRecord

-----------------------------------------------------------------------------
(* The two ways a transaction stores an attempt *)

LEMMA BecomesType ==
    ASSUME TypeOK, NEW a \in Attempt, NEW A \in AttemptRecord, Becomes(a, A)
    PROVE  /\ attempts' \in [Attempt -> AttemptRecord]
           /\ attempts'[a] = A
           /\ \A b \in Attempt \ {a} : attempts'[b] = attempts[b]
           /\ archive' \in [Request -> {"none", "unsent", "sent"}]
BY DEF TypeOK, Becomes

LEMMA PutType ==
    ASSUME TypeOK, NEW a \in Attempt, NEW A \in AttemptRecord, Put(a, A)
    PROVE  /\ attempts' \in [Attempt -> AttemptRecord]
           /\ attempts'[a].phase = A.phase /\ attempts'[a].owner = A.owner
           /\ \A b \in Attempt \ {a} : attempts'[b] = attempts[b]
           /\ archive' \in [Request -> {"none", "unsent", "sent"}]
<1>1. attempts' = [attempts EXCEPT ![a] = Consolidated(A)]
  BY DEF Put
<1>2. archive' \in [Request -> {"none", "unsent", "sent"}]
  BY DEF Put, Archived, TypeOK
<1>3. QED
  BY <1>1, <1>2, ConsolidatedType DEF TypeOK

\* An attempt stored with this phase keeps the reservation or gives it up.
Reserves(a, phase) ==
    \/ active' = active /\ (Live(a) <=> phase \in Open)
    \/ phase \notin Open /\ active' = (IF active = a THEN None ELSE active)
    \/ Live(a) /\ phase \notin Open /\ active' = None

\* A transaction that stores one attempt leaves the rest of the state typed,
\* and keeps the single reservation.
LEMMA OneAttemptStored ==
    ASSUME TypeOK, SingleReservation,
           UNCHANGED <<generation, older, retired>>, admission' \in Nat,
           NEW a \in Attempt, attempts[a].phase # "absent",
           attempts' \in [Attempt -> AttemptRecord],
           attempts'[a].phase # "absent",
           attempts'[a].owner = attempts[a].owner,
           \A b \in Attempt \ {a} : attempts'[b] = attempts[b],
           archive' \in [Request -> {"none", "unsent", "sent"}],
           Reserves(a, attempts'[a].phase)
    PROVE  TypeOK' /\ SingleReservation'
<1>1. Stored' = Stored
  BY DEF Stored
<1>2. active' \in Attempt \cup {None}
  BY DEF Reserves, TypeOK
<1>3. TypeOK'
  BY <1>1, <1>2 DEF TypeOK
<1>4. None \notin Attempt
  BY LedgerAssumption DEF LedgerAssumption
<1>5. SingleReservation'
  BY <1>4 DEF SingleReservation, Live, TypeOK, Reserves
<1>6. QED
  BY <1>3, <1>5

LEMMA BecomesStep ==
    ASSUME TypeOK, SingleReservation,
           UNCHANGED <<generation, older, retired>>, admission' = admission,
           NEW a \in Attempt, attempts[a].phase # "absent",
           NEW B \in AttemptRecord, B.phase # "absent", B.owner = attempts[a].owner,
           Becomes(a, B), Reserves(a, B.phase)
    PROVE  TypeOK' /\ SingleReservation'
<1>1. admission' \in Nat
  BY DEF TypeOK
<1>2. QED
  BY <1>1, BecomesType, OneAttemptStored

LEMMA PutStep ==
    ASSUME TypeOK, SingleReservation,
           UNCHANGED <<generation, older, retired>>, admission' \in Nat,
           NEW a \in Attempt, attempts[a].phase # "absent",
           NEW B \in AttemptRecord, B.phase # "absent", B.owner = attempts[a].owner,
           Put(a, B), Reserves(a, B.phase)
    PROVE  TypeOK' /\ SingleReservation'
BY PutType, OneAttemptStored

-----------------------------------------------------------------------------
(* Every step keeps the types and the single reservation *)

LEMMA AbsentType == Absent \in AttemptRecord
BY DEF Absent, AttemptRecord, RequestRecord, Summary, Terminal, Open

LEMMA InitInvariant == Init => TypeOK /\ SingleReservation
<1> SUFFICES ASSUME Init PROVE TypeOK /\ SingleReservation
  OBVIOUS
<1>1. \A a \in Attempt : attempts[a] = Absent
  BY DEF Init
<1>2. Stored = {}
  BY <1>1 DEF Stored, Absent
<1>3. TypeOK
  BY <1>2, AbsentType, FS_EmptySet, LedgerAssumption
     DEF Init, TypeOK, NothingRetired, LedgerAssumption
<1>4. SingleReservation
  BY <1>1 DEF Init, SingleReservation, Live, Absent, Open
<1>5. QED
  BY <1>3, <1>4

\* The folds of retirement keep their types.
LEMMA FoldRetiredType ==
    ASSUME TypeOK, NEW gone \in SUBSET Stored
    PROVE  FoldRetired(gone) \in
             [attempts : SUBSET Attempt, members : SUBSET Member,
              work : SUBSET Work, settled : [Member -> Nat]]
<1>1. \A a \in gone : attempts[a].members \subseteq Member
  BY DEF TypeOK, Stored, AttemptRecord
<1>2. FoldedMembers(gone) \subseteq Member
  BY <1>1 DEF FoldedMembers
<1>3. \A a \in gone : SelectedWork(attempts[a]) \in Work \cup {None}
  <2> TAKE a \in gone
  <2>1. attempts[a] \in AttemptRecord
    BY DEF TypeOK, Stored
  <2>2. attempts[a].choice = None \/ attempts[a].choice.intent \in Member
    BY <2>1 DEF AttemptRecord, Choice
  <2>3. QED
    BY <2>2, LedgerAssumption DEF SelectedWork, LedgerAssumption
<1>4. FoldedWork(gone) \subseteq Work
  BY <1>3 DEF FoldedWork
<1>5. \A m \in Member : Cardinality({a \in gone : Won(a, m)}) \in Nat
  <2> TAKE m \in Member
  <2>1. IsFiniteSet(Stored) /\ {a \in gone : Won(a, m)} \in SUBSET Stored
    BY DEF TypeOK
  <2>2. QED
    BY <2>1, FS_Subset, FS_CardinalityType
<1>6. QED
  BY <1>2, <1>4, <1>5 DEF FoldRetired, TypeOK, Stored

LEMMA AttachStep ==
    ASSUME TypeOK, SingleReservation, Attach
    PROVE  TypeOK' /\ SingleReservation'
<1>1. \A a \in Attempt :
        /\ attempts'[a] \in AttemptRecord
        /\ attempts'[a].phase \notin Open
        /\ attempts'[a].phase = "absent" <=> attempts[a].phase = "absent"
  <2> TAKE a \in Attempt
  <2>1. attempts[a] \in AttemptRecord
    BY DEF TypeOK
  <2>2. CASE ~Live(a)
    BY <2>1, <2>2 DEF Attach, Live
  <2>3. CASE Live(a)
    <3>1. attempts'[a] = [attempts[a] EXCEPT !.phase = ClosedPhase(attempts[a]), !.held = TRUE]
      BY <2>3 DEF Attach
    <3>2. ClosedPhase(attempts[a]) \in Terminal
      BY DEF ClosedPhase, Terminal
    <3>3. attempts'[a].phase = ClosedPhase(attempts[a])
      BY <2>1, <3>1 DEF AttemptRecord
    <3>4. attempts'[a] \in AttemptRecord
      BY <2>1, <3>1, <3>2 DEF AttemptRecord
    <3>5. QED
      BY <2>3, <3>2, <3>3, <3>4 DEF Live, Terminal, Open
  <2>4. QED
    BY <2>2, <2>3
<1>2. Stored' = Stored
  BY <1>1 DEF Stored
<1>3. attempts' \in [Attempt -> AttemptRecord]
  BY <1>1 DEF Attach
<1>4. generation' \in 1..MaxGeneration
  <2>1. generation \in 1..MaxGeneration /\ generation < MaxGeneration
    BY DEF Attach, TypeOK
  <2>2. MaxGeneration \in Nat /\ generation' = generation + 1
    BY LedgerAssumption DEF Attach, LedgerAssumption
  <2>3. QED
    BY <2>1, <2>2
<1>5. TypeOK'
  BY <1>2, <1>3, <1>4 DEF Attach, TypeOK
<1>6. SingleReservation'
  BY <1>1 DEF Attach, SingleReservation, Live
<1>7. QED
  BY <1>5, <1>6

LEMMA ResetStep ==
    ASSUME TypeOK, Reset
    PROVE  TypeOK' /\ SingleReservation'
<1>1. \A a \in Attempt : attempts'[a] = Absent
  BY DEF Reset
<1>2. Stored' = {}
  BY <1>1 DEF Stored, Absent
<1>3. attempts' \in [Attempt -> AttemptRecord]
  BY AbsentType DEF Reset
<1>4. archive' \in [Request -> {"none", "unsent", "sent"}]
  BY DEF Reset, ArchiveOf, TypeOK
<1>5. TypeOK'
  BY <1>2, <1>3, <1>4, FS_EmptySet DEF Reset, TypeOK, NothingRetired
<1>6. SingleReservation'
  BY <1>1 DEF Reset, SingleReservation, Live, Absent, Open
<1>7. QED
  BY <1>5, <1>6

LEMMA RetireStep ==
    ASSUME TypeOK, SingleReservation, NEW protected \in SUBSET Member, Retire(protected)
    PROVE  TypeOK' /\ SingleReservation'
<1> DEFINE gone == Retiring(protected)
<1>1. gone \in SUBSET Stored /\ \A a \in gone : ~Live(a)
  BY DEF Retiring, Retirable, Live, Open
<1>2. attempts' = [a \in Attempt |-> IF a \in gone THEN Absent ELSE attempts[a]]
  BY DEF Retire
<1>3. Stored' = Stored \ gone
  BY <1>1, <1>2 DEF Stored, Absent
<1>4. IsFiniteSet(Stored')
  BY <1>3, FS_Subset DEF TypeOK
<1>5. attempts' \in [Attempt -> AttemptRecord]
  BY <1>2, AbsentType DEF TypeOK
<1>6. archive' \in [Request -> {"none", "unsent", "sent"}]
  BY DEF Retire, ArchiveOf, TypeOK
<1>7. retired' \in [attempts : SUBSET Attempt, members : SUBSET Member,
                   work : SUBSET Work, settled : [Member -> Nat]]
  BY <1>1, FoldRetiredType DEF Retire
<1>8. older' \subseteq Stored' \X Stored'
  BY <1>3 DEF Retire, TypeOK, Stored
<1>9. TypeOK'
  BY <1>4, <1>5, <1>6, <1>7, <1>8 DEF Retire, TypeOK
<1>10. SingleReservation'
  BY <1>1, <1>2 DEF Retire, SingleReservation, Live, Absent, Open, TypeOK
<1>11. QED
  BY <1>9, <1>10

LEMMA SelectStep ==
    ASSUME TypeOK, SingleReservation,
           NEW a \in Attempt, NEW members \in SUBSET Member, NEW choice \in Choices,
           Select(a, members, choice)
    PROVE  TypeOK' /\ SingleReservation'
<1> DEFINE A == [Absent EXCEPT !.phase = "selected", !.owner = generation,
                              !.members = members, !.choice = choice]
<1>1. choice \in Choice \cup {None} /\ generation \in Nat
  BY DEF Choices, Choice, TypeOK
<1>2. A \in AttemptRecord /\ A.phase = "selected" /\ A.owner = generation
  BY <1>1, AbsentType DEF AttemptRecord, Absent, Open
<1>3. /\ attempts' \in [Attempt -> AttemptRecord]
      /\ attempts'[a] = A
      /\ \A b \in Attempt \ {a} : attempts'[b] = attempts[b]
      /\ archive' \in [Request -> {"none", "unsent", "sent"}]
  BY <1>2, BecomesType DEF Select
<1>4. Stored' = Stored \cup {a}
  BY <1>2, <1>3 DEF Stored, Select
<1>5. IsFiniteSet(Stored')
  BY <1>4, FS_AddElement DEF TypeOK
<1>6. older' \subseteq Stored' \X Stored'
  BY <1>4 DEF Select, TypeOK
<1>7. TypeOK'
  BY <1>3, <1>5, <1>6 DEF Select, TypeOK
<1>8. SingleReservation'
  <2>1. \A b \in Attempt : ~Live(b)
    BY LedgerAssumption DEF SingleReservation, Select, LedgerAssumption
  <2>2. Live(a)' /\ \A b \in Attempt \ {a} : ~Live(b)'
    BY <1>2, <1>3, <2>1 DEF Live, Open
  <2>3. active' = a /\ generation' = generation
    BY DEF Select
  <2>4. QED
    BY <1>2, <1>3, <2>2, <2>3 DEF SingleReservation
<1>9. QED
  BY <1>7, <1>8

LEMMA StepInvariant ==
    ASSUME TypeOK, SingleReservation, NEW a \in Attempt, Step(a)
    PROVE  TypeOK' /\ SingleReservation'
<1> DEFINE A == attempts[a]
<1>1. A \in AttemptRecord /\ generation \in Nat
  BY DEF TypeOK
<1>2. ASSUME NEW members \in SUBSET Member, NEW choice \in Choices,
             Select(a, members, choice)
      PROVE  TypeOK' /\ SingleReservation'
  BY <1>2, SelectStep
<1>3. CASE Queued(a)
  <2> DEFINE B == [A EXCEPT !.phase = "queued"]
  <2>1. B \in AttemptRecord /\ B.phase = "queued" /\ B.owner = A.owner
    BY <1>1 DEF AttemptRecord, Open
  <2>2. Becomes(a, B) /\ A.phase = "selected" /\ Reserves(a, B.phase)
    BY <1>3, <2>1 DEF Queued, Owned, Reserves, Live, Open
  <2>3. QED
    BY <1>3, <2>1, <2>2, BecomesStep DEF Queued
<1>4. CASE Claim(a)
  <2> DEFINE B == [A EXCEPT !.phase = "claimed", !.consumed = TRUE]
  <2>1. B \in AttemptRecord /\ B.phase = "claimed" /\ B.owner = A.owner
    BY <1>1 DEF AttemptRecord, Open
  <2>2. Becomes(a, B) /\ A.phase = "queued" /\ Reserves(a, B.phase)
    BY <1>4, <2>1 DEF Claim, Owned, Reserves, Live, Open
  <2>3. QED
    BY <1>4, <2>1, <2>2, BecomesStep DEF Claim
<1>5. ASSUME NEW m \in Member, NEW e \in Entry,
             History(a, {<<m, e>>}) \/ RecoverHistory(a, {<<m, e>>})
      PROVE  TypeOK' /\ SingleReservation'
  <2> DEFINE B == [A EXCEPT !.history = @ \cup {<<m, e>>}]
  <2>1. B \in AttemptRecord /\ B.phase = A.phase /\ B.owner = A.owner
    BY <1>1 DEF AttemptRecord
  <2>2. Becomes(a, B) /\ A.phase # "absent"
        /\ UNCHANGED <<generation, active, admission, older, retired>>
    BY <1>5 DEF History, RecoverHistory, Owned, Terminal
  <2>3. Reserves(a, B.phase)
    BY <2>1, <2>2 DEF Reserves, Live
  <2>4. QED
    BY <2>1, <2>2, <2>3, BecomesStep
<1>6. ASSUME NEW r \in Request, NEW i \in SUBSET Member, NEW c \in SUBSET Member,
             NEW x \in SUBSET Member, Prepare(a, r, i, c, x)
      PROVE  TypeOK' /\ SingleReservation'
  <2> DEFINE open == A.choice # None /\ ~A.charged
             pays == open /\ A.choice.intent \in i
             B == [A EXCEPT !.phase = "prepared",
                            !.requests = Append(@, NewRequest(r, i)),
                            !.charged = @ \/ pays]
  <2>1. NewRequest(r, i) \in RequestRecord
    BY DEF NewRequest, RequestRecord
  <2>2. Append(A.requests, NewRequest(r, i)) \in Seq(RequestRecord)
    BY <1>1, <2>1 DEF AttemptRecord
  <2>3. B \in AttemptRecord /\ B.phase = "prepared" /\ B.owner = A.owner
    BY <1>1, <2>2 DEF AttemptRecord, Open
  <2>4. Put(a, B) /\ A.phase \in {"claimed", "running"}
        /\ admission' = (IF pays THEN A.choice.revision + 1 ELSE admission)
        /\ UNCHANGED <<generation, active, older, retired>>
    BY <1>6 DEF Prepare, MayPrepare, Owned
  <2>5. pays => A.choice.revision \in Nat
    BY <1>1 DEF AttemptRecord, Choice
  <2>6. admission' \in Nat
    BY <2>4, <2>5 DEF TypeOK
  <2>7. Reserves(a, B.phase)
    BY <2>3, <2>4 DEF Reserves, Live, Open
  <2>8. QED
    BY <2>3, <2>4, <2>6, <2>7, PutStep
<1>7. ASSUME NEW r \in Request, NEW i \in SUBSET Member, NEW c \in SUBSET Member,
             NEW x \in SUBSET Member, PrepareWithheld(a, r, i, c, x)
      PROVE  TypeOK' /\ SingleReservation'
  <2> DEFINE owns == HasHandoff(A)
             B == [A EXCEPT !.phase = IF owns THEN "running" ELSE "withheld",
                            !.requests = Append(@, NewRequest(r, i)),
                            !.held = TRUE]
  <2>1. NewRequest(r, i) \in RequestRecord
    BY DEF NewRequest, RequestRecord
  <2>2. Append(A.requests, NewRequest(r, i)) \in Seq(RequestRecord)
    BY <1>1, <2>1 DEF AttemptRecord
  <2>3. B \in AttemptRecord /\ B.phase = (IF owns THEN "running" ELSE "withheld")
        /\ B.owner = A.owner
    BY <1>1, <2>2 DEF AttemptRecord, Open, Terminal
  <2>4. Put(a, B) /\ A.phase \in {"claimed", "running"}
        /\ active' = (IF owns THEN active ELSE None)
        /\ UNCHANGED <<generation, admission, older, retired>>
    BY <1>7 DEF PrepareWithheld, MayPrepare, Owned
  <2>5. admission' \in Nat
    BY <2>4 DEF TypeOK
  <2>6. Reserves(a, B.phase)
    BY <2>3, <2>4 DEF Reserves, Live, Open
  <2>7. B.phase # "absent" /\ A.phase # "absent"
    BY <2>3, <2>4
  <2> HIDE DEF B
  <2>8. QED
    BY <2>3, <2>4, <2>5, <2>6, <2>7, PutStep
<1>8. CASE WithholdRequest(a)
  <2> DEFINE B == [A EXCEPT !.phase = IF HasHandoff(A) THEN "running" ELSE "withheld",
                            !.held = TRUE]
  <2>1. B \in AttemptRecord /\ B.owner = A.owner
        /\ B.phase = (IF HasHandoff(A) THEN "running" ELSE "withheld")
    BY <1>1 DEF AttemptRecord, Open, Terminal
  <2>2. Becomes(a, B) /\ A.phase = "prepared"
        /\ active' = (IF HasHandoff(A) THEN active ELSE None)
        /\ UNCHANGED <<generation, admission, older, retired>>
    BY <1>8 DEF WithholdRequest, Owned
  <2>3. B.phase # "absent" /\ Reserves(a, B.phase)
    BY <2>1, <2>2 DEF Reserves, Live, Open
  <2> HIDE DEF B
  <2>4. QED
    BY <2>1, <2>2, <2>3, BecomesStep
<1>9. CASE Handoff(a)
  <2> DEFINE n == Len(A.requests)
             B == [A EXCEPT !.phase = "handed-off", !.requests[n].sent = TRUE]
  <2>1. [A.requests EXCEPT ![n].sent = TRUE] \in Seq(RequestRecord)
    <3>1. A.requests \in Seq(RequestRecord)
      BY <1>1 DEF AttemptRecord
    <3>2. ASSUME n \in 1..Len(A.requests)
          PROVE  [A.requests[n] EXCEPT !.sent = TRUE] \in RequestRecord
      <4>1. A.requests[n] \in RequestRecord
        BY <3>1, <3>2, ElementOfSeq
      <4>2. QED
        BY <4>1 DEF RequestRecord
    <3>3. QED
      BY <3>1, <3>2, ReplacedType
  <2>2. B \in AttemptRecord /\ B.phase = "handed-off" /\ B.owner = A.owner
    BY <1>1, <2>1 DEF AttemptRecord, Open
  <2>3. Put(a, B) /\ A.phase = "prepared"
        /\ UNCHANGED <<generation, active, admission, older, retired>>
    BY <1>9 DEF Handoff, Owned
  <2>4. admission' \in Nat /\ Reserves(a, B.phase)
    BY <2>2, <2>3 DEF TypeOK, Reserves, Live, Open
  <2> HIDE DEF B
  <2>5. QED
    BY <2>2, <2>3, <2>4, PutStep
<1>10. ASSUME NEW o \in Outcome, RequestOutcome(a, o)
       PROVE  TypeOK' /\ SingleReservation'
  <2> DEFINE n == Len(A.requests)
             B == [A EXCEPT !.phase = "running", !.requests[n].outcome = o]
  <2>1. [A.requests EXCEPT ![n].outcome = o] \in Seq(RequestRecord)
    <3>1. A.requests \in Seq(RequestRecord)
      BY <1>1 DEF AttemptRecord
    <3>2. ASSUME n \in 1..Len(A.requests)
          PROVE  [A.requests[n] EXCEPT !.outcome = o] \in RequestRecord
      <4>1. A.requests[n] \in RequestRecord
        BY <3>1, <3>2, ElementOfSeq
      <4>2. QED
        BY <4>1 DEF RequestRecord
    <3>3. QED
      BY <3>1, <3>2, ReplacedType
  <2>2. B \in AttemptRecord /\ B.phase = "running" /\ B.owner = A.owner
    BY <1>1, <2>1 DEF AttemptRecord, Open
  <2>3. Put(a, B) /\ A.phase = "handed-off"
        /\ UNCHANGED <<generation, active, admission, older, retired>>
    BY <1>10 DEF RequestOutcome, Owned
  <2>4. admission' \in Nat /\ Reserves(a, B.phase)
    BY <2>2, <2>3 DEF TypeOK, Reserves, Live, Open
  <2> HIDE DEF B
  <2>5. QED
    BY <2>2, <2>3, <2>4, PutStep
<1>11. ASSUME NEW o \in Outcome, Settle(a, o)
       PROVE  TypeOK' /\ SingleReservation'
  <2> DEFINE B == [A EXCEPT !.phase = "settled", !.outcome = o]
  <2>1. B \in AttemptRecord /\ B.phase = "settled" /\ B.owner = A.owner
    BY <1>1 DEF AttemptRecord, Terminal
  <2>2. Becomes(a, B) /\ A.phase # "absent" /\ Reserves(a, B.phase)
    BY <1>11, <2>1 DEF Settle, Owned, Reserves, Live, Open
  <2> HIDE DEF B
  <2>3. QED
    BY <1>11, <2>1, <2>2, BecomesStep DEF Settle
<1>12. CASE Uncertain(a)
  <2> DEFINE B == [A EXCEPT !.phase = "uncertain", !.held = TRUE]
  <2>1. B \in AttemptRecord /\ B.phase \in {"uncertain"} /\ B.owner = A.owner
    BY <1>1 DEF AttemptRecord, Open, Terminal
  <2>2. Becomes(a, B) /\ A.phase # "absent" /\ Reserves(a, B.phase)
    BY <1>12, <2>1 DEF Uncertain, Owned, Reserves, Live, Open
  <2> HIDE DEF B
  <2>3. QED
    BY <1>12, <2>1, <2>2, BecomesStep DEF Uncertain
<1>13. ASSUME NEW d \in {"retry", "discard"}, ResolveUncertain(a, d)
       PROVE  TypeOK' /\ SingleReservation'
  <2> DEFINE B == Resolved(A, d)
  <2>1. B \in AttemptRecord /\ B.phase \in {"settled", "cancelled"} /\ B.owner = A.owner
    BY <1>1 DEF Resolved, AttemptRecord, Outcome, Terminal
  <2>2. Becomes(a, B) /\ A.phase = "uncertain" /\ Reserves(a, B.phase)
    BY <1>13, <2>1 DEF ResolveUncertain, Reserves, Live, Open
  <2> HIDE DEF B
  <2>3. QED
    BY <1>13, <2>1, <2>2, BecomesStep DEF ResolveUncertain
<1>14. CASE EmergencyReset(a)
  <2> DEFINE B == IF ~HasHandoff(A)
                  THEN [A EXCEPT !.phase = "cancelled", !.held = TRUE]
                  ELSE IF A.phase = "prepared" /\ ~LastRequest(A).sent
                  THEN [A EXCEPT !.phase = "settled", !.outcome = "failure", !.held = TRUE]
                  ELSE [A EXCEPT !.phase = "uncertain", !.held = TRUE]
  <2>1. B \in AttemptRecord /\ B.phase \in Terminal /\ B.owner = A.owner
    BY <1>1 DEF AttemptRecord, Terminal, Outcome
  <2>2. Becomes(a, B) /\ Live(a) /\ active' = None
        /\ UNCHANGED <<generation, admission, older, retired>>
    BY <1>14 DEF EmergencyReset, Owned, Live
  <2>3. A.phase # "absent" /\ B.phase # "absent" /\ Reserves(a, B.phase)
    BY <2>1, <2>2 DEF Reserves, Live, Open, Terminal
  <2> HIDE DEF B
  <2>4. QED
    BY <2>1, <2>2, <2>3, BecomesStep
<1>15. CASE Cancel(a)
  <2> DEFINE B == [A EXCEPT !.phase = "cancelled", !.held = TRUE]
  <2>1. B \in AttemptRecord /\ B.phase \in {"cancelled"} /\ B.owner = A.owner
    BY <1>1 DEF AttemptRecord, Open, Terminal
  <2>2. Becomes(a, B) /\ A.phase # "absent" /\ Reserves(a, B.phase)
    BY <1>15, <2>1 DEF Cancel, Owned, Reserves, Live, Open
  <2> HIDE DEF B
  <2>3. QED
    BY <1>15, <2>1, <2>2, BecomesStep DEF Cancel
<1>16. QED
  BY <1>2, <1>3, <1>4, <1>5, <1>6, <1>7, <1>8, <1>9, <1>10, <1>11, <1>12,
     <1>13, <1>14, <1>15
  DEF Step, Judge

-----------------------------------------------------------------------------
(* The requests of an attempt: at most one is unanswered, the last *)

\* Every request of the list was answered.
Answered(s) == \A i \in 1..Len(s) : Finished(s[i])

\* Every request but the last was answered.
Settling(s) == \A i \in 1..(Len(s) - 1) : Finished(s[i])

\* Did a request of the attempt carry m, as far as the ledger remembers?
Included(A, m) ==
    m \in A.summary.included \/ \E i \in 1..Len(A.requests) : m \in A.requests[i].included

\* While the recent requests are not exceeded, storing an attempt folds nothing.
LEMMA ConsolidatedShort ==
    ASSUME TypeOK, NEW A \in AttemptRecord, Len(A.requests) <= RecentRequests
    PROVE  Consolidated(A) = A /\ Archived(A) = archive
<1>1. A.requests \in Seq(RequestRecord) /\ A.summary \in Summary
  BY DEF AttemptRecord
<1>2. Cutoff(A.requests) = 0
  BY <1>1, LedgerAssumption DEF Cutoff, LedgerAssumption
<1>3. Foldable(A.requests) = {}
  BY <1>2 DEF Foldable
<1>4. Folded(A.summary, {}) = A.summary
  <2>1. Cardinality({}) = 0 /\ Carried({}) = {} /\ Carried(Successes({})) = {}
    BY FS_EmptySet DEF Carried, Successes
  <2>2. A.summary.count + 0 = A.summary.count
    BY <1>1 DEF Summary
  <2>3. A.summary = [count |-> A.summary.count, included |-> A.summary.included,
                     succeeded |-> A.summary.succeeded]
    BY <1>1 DEF Summary
  <2>4. QED
    BY <2>1, <2>2, <2>3 DEF Folded
<1>5. Consolidated(A) = A
  BY <1>3, <1>4 DEF Consolidated, Without, AttemptRecord
<1>6. Archived(A) = archive
  BY <1>3 DEF Archived, TypeOK
<1>7. QED
  BY <1>5, <1>6

\* With one request too many, the first one is folded, if it was answered.
LEMMA ConsolidatedLong ==
    ASSUME NEW A \in AttemptRecord, Len(A.requests) = RecentRequests + 1,
           Finished(A.requests[1])
    PROVE  /\ Consolidated(A) =
                [A EXCEPT !.requests = SubSeq(A.requests, 2, Len(A.requests)),
                          !.summary = Folded(A.summary, {A.requests[1]})]
           /\ Archived(A) = [r \in Request |-> IF r = A.requests[1].id THEN "sent" ELSE archive[r]]
<1>1. A.requests \in Seq(RequestRecord) /\ RecentRequests \in Nat \ {0}
  BY LedgerAssumption DEF AttemptRecord, LedgerAssumption
<1>2. Cutoff(A.requests) = 1
  BY <1>1 DEF Cutoff
<1>3. Foldable(A.requests) = {A.requests[1]}
  BY <1>2 DEF Foldable
<1>4. Without(A.requests, {A.requests[1]}) = SubSeq(A.requests, 2, Len(A.requests))
  <2>1. {A.requests[1]} # {} /\ Cutoff(A.requests) + 1 = 2
    BY <1>2
  <2>2. QED
    BY <2>1 DEF Without
<1>5. QED
  BY <1>3, <1>4 DEF Consolidated, Archived

\* B stores A with request x added: d records (none or one) were folded.
Slid(A, B, x, d) ==
    /\ d \in {0, 1}
    /\ d = 1 => Len(A.requests) >= 1
    /\ Len(B.requests) = Len(A.requests) + 1 - d
    /\ \A j \in 1..(Len(A.requests) - d) : B.requests[j] = A.requests[j + d]
    /\ B.requests[Len(A.requests) + 1 - d] = x
    /\ B.summary = IF d = 0 THEN A.summary ELSE Folded(A.summary, {A.requests[1]})

\* Everything of an attempt but its requests and their summary.
SameElse(A, B) ==
    /\ A.phase = B.phase /\ A.owner = B.owner /\ A.consumed = B.consumed
    /\ A.members = B.members /\ A.choice = B.choice /\ A.charged = B.charged
    /\ A.held = B.held /\ A.outcome = B.outcome /\ A.history = B.history

\* Storing an attempt with one more request.
LEMMA PutAppended ==
    ASSUME TypeOK, NEW a \in Attempt, NEW B \in AttemptRecord, NEW x \in RequestRecord,
           Len(attempts[a].requests) <= RecentRequests, Answered(attempts[a].requests),
           B.requests = Append(attempts[a].requests, x), B.summary = attempts[a].summary,
           Put(a, B)
    PROVE  /\ SameElse(B, attempts'[a])
           /\ \E d \in {0, 1} :
                /\ Slid(attempts[a], attempts'[a], x, d)
                /\ Len(attempts[a].requests) + 1 - d <= RecentRequests
                /\ archive' = IF d = 0 THEN archive
                              ELSE [r \in Request |-> IF r = attempts[a].requests[1].id
                                                      THEN "sent" ELSE archive[r]]
<1> DEFINE s == attempts[a].requests
           n == Len(s)
<1>1. /\ s \in Seq(RequestRecord) /\ n \in Nat /\ RecentRequests \in Nat \ {0}
      /\ attempts[a] \in AttemptRecord
  BY LedgerAssumption DEF TypeOK, AttemptRecord, LedgerAssumption
<1>2. attempts'[a] = Consolidated(B) /\ archive' = Archived(B)
  BY DEF Put, TypeOK
<1>3. /\ B.requests \in Seq(RequestRecord) /\ Len(B.requests) = n + 1
      /\ B.requests[n + 1] = x /\ \A j \in 1..n : B.requests[j] = s[j]
  BY <1>1
<1>4. CASE n + 1 <= RecentRequests
  <2>1. attempts'[a] = B /\ archive' = archive
    BY <1>2, <1>3, <1>4, ConsolidatedShort
  <2>2. SameElse(B, attempts'[a])
    BY <2>1 DEF SameElse
  <2>3. Slid(attempts[a], attempts'[a], x, 0)
    <3>1. n + 1 - 0 = n + 1 /\ n - 0 = n /\ \A j \in 1..n : j + 0 = j
      BY <1>1
    <3>2. QED
      BY <1>3, <2>1, <3>1 DEF Slid
  <2>4. QED
    BY <1>1, <1>4, <2>1, <2>2, <2>3
<1>5. CASE n = RecentRequests
  <2> DEFINE C == attempts'[a]
  <2>1. B.requests[1] = s[1] /\ Finished(B.requests[1])
    BY <1>1, <1>3, <1>5 DEF Answered
  <2>2. /\ C = [B EXCEPT !.requests = SubSeq(B.requests, 2, Len(B.requests)),
                         !.summary = Folded(B.summary, {s[1]})]
        /\ archive' = [r \in Request |-> IF r = s[1].id THEN "sent" ELSE archive[r]]
    <3>1. Len(B.requests) = RecentRequests + 1
      BY <1>3, <1>5
    <3>2. /\ Consolidated(B) = [B EXCEPT !.requests = SubSeq(B.requests, 2, Len(B.requests)),
                                         !.summary = Folded(B.summary, {B.requests[1]})]
          /\ Archived(B) = [r \in Request |-> IF r = B.requests[1].id THEN "sent" ELSE archive[r]]
      BY <2>1, <3>1, ConsolidatedLong
    <3>3. QED
      BY <1>2, <2>1, <3>2
  <2>3. SameElse(B, C)
    BY <2>2 DEF SameElse, AttemptRecord
  <2>4. C.requests = SubSeq(B.requests, 2, n + 1) /\ C.summary = Folded(attempts[a].summary, {s[1]})
    BY <1>3, <2>2 DEF AttemptRecord
  <2>5. Len(C.requests) = n /\ \A j \in 1..n : C.requests[j] = B.requests[j + 1]
    BY <1>1, <1>3, <2>4
  <2>6. Slid(attempts[a], C, x, 1)
    BY <1>1, <1>3, <1>5, <2>4, <2>5 DEF Slid
  <2>7. QED
    BY <1>1, <1>5, <2>2, <2>3, <2>6
<1>6. QED
  BY <1>1, <1>4, <1>5

\* Folding one request into the summary.
LEMMA FoldedOne ==
    ASSUME NEW S \in Summary, NEW q \in RequestRecord
    PROVE  /\ Folded(S, {q}).count = S.count + 1
           /\ Folded(S, {q}).included = S.included \cup q.included
           /\ Folded(S, {q}).succeeded =
                S.succeeded \cup (IF q.outcome = "success" THEN q.included ELSE {})
<1>1. Cardinality({q}) = 1
  BY FS_Singleton
<1>2. Carried({q}) = q.included
  BY DEF Carried
<1>3. Carried(Successes({q})) = IF q.outcome = "success" THEN q.included ELSE {}
  <2>1. CASE q.outcome = "success"
    <3>1. Successes({q}) = {q}
      BY <2>1 DEF Successes
    <3>2. QED
      BY <1>2, <2>1, <3>1
  <2>2. CASE q.outcome # "success"
    <3>1. Successes({q}) = {}
      BY <2>2 DEF Successes
    <3>2. QED
      BY <2>2, <3>1 DEF Carried
  <2>3. QED
    BY <2>1, <2>2
<1>4. QED
  BY <1>1, <1>2, <1>3 DEF Folded

LEMMA UpTo == ASSUME NEW n \in Nat PROVE Cardinality(1..n) = n
<1>1. 1 \in Int /\ n \in Int
  OBVIOUS
<1>2. Cardinality(1..n) = IF 1 > n THEN 0 ELSE n - 1 + 1
  BY <1>1, FS_Interval, Zenon
<1>3. QED
  BY <1>2

\* With every request but the last answered, the handoffs can be counted: all
\* the requests, or all but the last.
LEMMA HandoffCountIs ==
    ASSUME NEW A \in AttemptRecord, Settling(A.requests)
    PROVE  /\ HandoffCount(A) =
                A.summary.count + (IF Len(A.requests) = 0 \/ LastRequest(A).sent
                                   THEN Len(A.requests) ELSE Len(A.requests) - 1)
           /\ HandoffCount(A) \in Nat
           /\ HandoffCount(A) > 0 <=> HasHandoff(A)
<1> DEFINE s == A.requests
           n == Len(s)
           D == {i \in 1..n : s[i].sent}
<1>1. s \in Seq(RequestRecord) /\ n \in Nat /\ A.summary.count \in Nat
  BY DEF AttemptRecord, Summary
<1>2. \A i \in 1..(n - 1) : s[i].sent
  BY DEF Settling, Finished
<1>3. CASE n = 0 \/ LastRequest(A).sent
  <2>1. D = 1..n
    BY <1>1, <1>2, <1>3 DEF LastRequest
  <2>2. Cardinality(D) = n
    BY <1>1, <2>1, UpTo
  <2>3. HandoffCount(A) = A.summary.count + n
    BY <2>2 DEF HandoffCount
  <2>4. HasHandoff(A) <=> A.summary.count > 0 \/ D # {}
    BY DEF HasHandoff
  <2>5. D # {} <=> n > 0
    BY <1>1, <2>1
  <2>6. QED
    BY <1>1, <1>3, <2>3, <2>4, <2>5
<1>4. CASE n # 0 /\ ~LastRequest(A).sent
  <2>1. D = 1..(n - 1)
    BY <1>1, <1>2, <1>4 DEF LastRequest
  <2>2. Cardinality(D) = n - 1
    <3>1. n - 1 \in Nat
      BY <1>1, <1>4
    <3>2. QED
      BY <2>1, <3>1, UpTo
  <2>3. HandoffCount(A) = A.summary.count + (n - 1)
    BY <2>2 DEF HandoffCount
  <2>4. HasHandoff(A) <=> A.summary.count > 0 \/ D # {}
    BY DEF HasHandoff
  <2>5. D # {} <=> n - 1 > 0
    BY <1>1, <2>1
  <2>6. QED
    BY <1>1, <1>4, <2>3, <2>4, <2>5
<1>5. QED
  BY <1>3, <1>4

\* Adding an unsent request, whatever it folds, keeps the evidence exact.
LEMMA SlidEvidence ==
    ASSUME NEW A \in AttemptRecord, NEW B \in AttemptRecord, NEW x \in RequestRecord,
           ~x.sent, x.outcome = None, NEW d \in {0, 1}, Slid(A, B, x, d),
           Answered(A.requests)
    PROVE  /\ Settling(B.requests)
           /\ Len(B.requests) > 0 /\ LastRequest(B) = x
           /\ \A i \in 1..Len(B.requests) : B.requests[i].outcome # None => B.requests[i].sent
           /\ HandoffCount(B) = HandoffCount(A)
           /\ HasHandoff(B) <=> HasHandoff(A)
           /\ Delivered(B) = Delivered(A)
           /\ \A m \in Member : Included(B, m) <=> Included(A, m) \/ m \in x.included
           /\ A.summary.succeeded \subseteq A.summary.included
                => B.summary.succeeded \subseteq B.summary.included
<1> DEFINE n == Len(A.requests)
<1>1. /\ A.requests \in Seq(RequestRecord) /\ B.requests \in Seq(RequestRecord)
      /\ n \in Nat /\ A.summary \in Summary /\ A.summary.count \in Nat
      /\ \A j \in 1..n : A.requests[j] \in RequestRecord /\ Finished(A.requests[j])
  BY DEF AttemptRecord, Summary, Answered
<1>2. Settling(A.requests)
  BY <1>1 DEF Settling
<1>3. "success" # None
  BY LedgerAssumption DEF LedgerAssumption
<1>4. CASE d = 0
  <2>1. /\ Len(B.requests) = n + 1 /\ B.requests[n + 1] = x
        /\ \A j \in 1..n : B.requests[j] = A.requests[j]
        /\ B.summary = A.summary
    BY <1>1, <1>4 DEF Slid
  <2>2. /\ Settling(B.requests) /\ LastRequest(B) = x
        /\ \A i \in 1..Len(B.requests) : B.requests[i].outcome # None => B.requests[i].sent
    <3>1. \A i \in 1..n : Finished(B.requests[i])
      BY <1>1, <2>1
    <3>2. Settling(B.requests)
      BY <1>1, <2>1, <3>1 DEF Settling
    <3>3. LastRequest(B) = x
      BY <2>1 DEF LastRequest
    <3>4. \A i \in 1..(n + 1) : i = n + 1 \/ i \in 1..n
      BY <1>1
    <3>5. QED
      BY <2>1, <3>1, <3>2, <3>3, <3>4 DEF Finished
  <2>3. HandoffCount(B) = HandoffCount(A)
    <3>1. n = 0 \/ LastRequest(A).sent
      BY <1>1 DEF LastRequest, Finished
    <3>2. HandoffCount(A) = A.summary.count + n
      BY <1>2, <3>1, HandoffCountIs
    <3>3. HandoffCount(B) = A.summary.count + (n + 1 - 1)
      BY <1>1, <2>1, <2>2, HandoffCountIs
    <3>4. QED
      BY <1>1, <3>2, <3>3
  <2>4. HasHandoff(B) <=> HasHandoff(A)
    BY <1>2, <2>2, <2>3, HandoffCountIs
  <2>5. Delivered(B) = Delivered(A)
    <3> DEFINE Success(s) == {i \in 1..Len(s) : s[i].sent /\ s[i].outcome = "success"}
    <3>1. \A j \in Success(B.requests) : j \in Success(A.requests)
                                         /\ B.requests[j] = A.requests[j]
      BY <1>1, <1>3, <2>1
    <3>2. \A j \in Success(A.requests) : j \in Success(B.requests)
                                         /\ B.requests[j] = A.requests[j]
      BY <1>1, <2>1
    <3>3. /\ Delivered(A) = A.summary.succeeded \cup UNION {A.requests[i].included : i \in Success(A.requests)}
          /\ Delivered(B) = B.summary.succeeded \cup UNION {B.requests[i].included : i \in Success(B.requests)}
      BY DEF Delivered
    <3> HIDE DEF Success
    <3>4. QED
      BY <2>1, <3>1, <3>2, <3>3
  <2>6. \A m \in Member : Included(B, m) <=> Included(A, m) \/ m \in x.included
    <3>1. 1..(n + 1) = 1..n \cup {n + 1}
      BY <1>1
    <3>2. QED
      BY <2>1, <3>1 DEF Included
  <2>7. QED
    BY <1>1, <2>1, <2>2, <2>3, <2>4, <2>5, <2>6
<1>5. CASE d = 1
  <2> DEFINE q == A.requests[1]
  <2>1. /\ n >= 1 /\ Len(B.requests) = n /\ B.requests[n] = x
        /\ \A j \in 1..(n - 1) : B.requests[j] = A.requests[j + 1]
        /\ B.summary = Folded(A.summary, {q})
    BY <1>1, <1>5 DEF Slid
  <2>2. q \in RequestRecord /\ Finished(q)
    BY <1>1, <2>1
  <2>3. /\ B.summary.count = A.summary.count + 1
        /\ B.summary.included = A.summary.included \cup q.included
        /\ B.summary.succeeded =
             A.summary.succeeded \cup (IF q.outcome = "success" THEN q.included ELSE {})
    <3>1. /\ Folded(A.summary, {q}).count = A.summary.count + 1
          /\ Folded(A.summary, {q}).included = A.summary.included \cup q.included
          /\ Folded(A.summary, {q}).succeeded =
               A.summary.succeeded \cup (IF q.outcome = "success" THEN q.included ELSE {})
      BY <1>1, <2>2, FoldedOne
    <3>2. QED
      BY <2>1, <3>1
  <2>4. /\ Settling(B.requests) /\ LastRequest(B) = x
        /\ \A i \in 1..Len(B.requests) : B.requests[i].outcome # None => B.requests[i].sent
    <3>1. \A i \in 1..(n - 1) : Finished(B.requests[i])
      <4> TAKE i \in 1..(n - 1)
      <4>1. i + 1 \in 1..n
        BY <1>1, <2>1
      <4>2. QED
        BY <1>1, <2>1, <4>1
    <3>2. Settling(B.requests)
      BY <2>1, <3>1 DEF Settling
    <3>3. LastRequest(B) = x
      BY <2>1 DEF LastRequest
    <3>4. \A i \in 1..n : i = n \/ i \in 1..(n - 1)
      BY <1>1
    <3>5. QED
      BY <2>1, <3>1, <3>2, <3>3, <3>4 DEF Finished
  <2>5. HandoffCount(B) = HandoffCount(A)
    <3>1. LastRequest(A).sent
      BY <1>1, <2>1 DEF LastRequest, Finished
    <3>2. HandoffCount(A) = A.summary.count + n
      BY <1>2, <3>1, HandoffCountIs
    <3>3. Len(B.requests) # 0 /\ ~LastRequest(B).sent
      BY <1>1, <2>1, <2>4
    <3>4. HandoffCount(B) = B.summary.count + (Len(B.requests) - 1)
      BY <2>4, <3>3, HandoffCountIs
    <3>5. A.summary.count + 1 + (n - 1) = A.summary.count + n
      <4>1. n \in Nat /\ A.summary.count \in Nat
        BY <1>1 DEF AttemptRecord
      <4>2. \A c, m \in Nat : c + 1 + (m - 1) = c + m
        OBVIOUS
      <4> QED  BY <4>1, <4>2
    <3>6. QED
      BY <2>1, <2>3, <3>2, <3>4, <3>5
  <2>6. HasHandoff(B) <=> HasHandoff(A)
    BY <1>2, <2>4, <2>5, HandoffCountIs
  <2>7. \A i \in 1..n : i = 1 \/ i - 1 \in 1..(n - 1)
    BY <1>1, <2>1
  <2>8. \A i \in 2..n : A.requests[i] = B.requests[i - 1] /\ i - 1 \in 1..(n - 1)
    BY <1>1, <2>1
  <2>9. Delivered(B) = Delivered(A)
    <3> DEFINE Success(s) == {i \in 1..Len(s) : s[i].sent /\ s[i].outcome = "success"}
    <3>1. \A j \in Success(B.requests) : j \in 1..(n - 1) /\ j + 1 \in Success(A.requests)
                                         /\ B.requests[j] = A.requests[j + 1]
      BY <1>1, <1>3, <2>1
    <3>2. \A i \in Success(A.requests) :
            \/ i = 1 /\ q.outcome = "success"
            \/ i - 1 \in Success(B.requests) /\ A.requests[i] = B.requests[i - 1]
      BY <1>1, <2>1, <2>8
    <3>3. q.outcome = "success" => 1 \in Success(A.requests)
      BY <1>1, <2>1, <2>2 DEF Finished
    <3>4. /\ Delivered(A) = A.summary.succeeded \cup UNION {A.requests[i].included : i \in Success(A.requests)}
          /\ Delivered(B) = B.summary.succeeded \cup UNION {B.requests[i].included : i \in Success(B.requests)}
      BY DEF Delivered
    <3> HIDE DEF Success
    <3>5. Delivered(B) \subseteq Delivered(A)
      BY <2>3, <3>1, <3>3, <3>4
    <3>6. Delivered(A) \subseteq Delivered(B)
      BY <2>3, <3>2, <3>4
    <3>7. QED
      BY <3>5, <3>6
  <2>10. \A m \in Member : Included(B, m) <=> Included(A, m) \/ m \in x.included
    <3> TAKE m \in Member
    <3>1. ASSUME Included(B, m) PROVE Included(A, m) \/ m \in x.included
      <4>1. ASSUME NEW j \in 1..n, m \in B.requests[j].included
            PROVE  Included(A, m) \/ m \in x.included
        <5>1. CASE j = n
          BY <2>1, <4>1, <5>1
        <5>2. CASE j # n
          <6>1. j + 1 \in 1..n /\ B.requests[j] = A.requests[j + 1]
            BY <1>1, <2>1, <5>2
          <6>2. QED
            BY <4>1, <6>1 DEF Included
        <5>3. QED
          BY <5>1, <5>2
      <4>2. CASE m \in B.summary.included
        <5>1. 1 \in 1..n
          BY <1>1, <2>1
        <5>2. QED
          BY <2>3, <4>2, <5>1 DEF Included
      <4>3. QED
        BY <2>1, <3>1, <4>1, <4>2 DEF Included
    <3>2. ASSUME Included(A, m) PROVE Included(B, m)
      <4>1. ASSUME NEW i \in 1..n, m \in A.requests[i].included
            PROVE  Included(B, m)
        <5>1. CASE i = 1
          BY <2>3, <4>1, <5>1 DEF Included
        <5>2. CASE i # 1
          <6>1. i - 1 \in 1..n /\ A.requests[i] = B.requests[i - 1]
            BY <1>1, <2>1, <5>2
          <6>2. QED
            BY <2>1, <4>1, <6>1 DEF Included
        <5>3. QED
          BY <5>1, <5>2
      <4>2. QED
        BY <2>3, <3>2, <4>1 DEF Included
    <3>3. m \in x.included => Included(B, m)
      BY <1>1, <2>1 DEF Included
    <3>4. QED
      BY <3>1, <3>2, <3>3
  <2>11. A.summary.succeeded \subseteq A.summary.included
           => B.summary.succeeded \subseteq B.summary.included
    BY <2>3
  <2>12. Len(B.requests) > 0
    BY <1>1, <2>1
  <2>13. QED
    BY <2>4, <2>5, <2>6, <2>9, <2>10, <2>11, <2>12
<1>6. QED
  BY <1>4, <1>5

-----------------------------------------------------------------------------
(* The invariant of types and reservation *)

\* Types and the single reservation are inductive together: the owner of an
\* open attempt is compared with the generation that only Attach moves.
LEMMA NextInvariant ==
    TypeOK /\ SingleReservation /\ [Next]_vars => (TypeOK /\ SingleReservation)'
<1> SUFFICES ASSUME TypeOK, SingleReservation, [Next]_vars
             PROVE  TypeOK' /\ SingleReservation'
  OBVIOUS
<1>1. CASE \E a \in Attempt : Step(a)
  BY <1>1, StepInvariant
<1>2. CASE Attach
  BY <1>2, AttachStep
<1>3. CASE Reset
  BY <1>3, ResetStep
<1>4. CASE \E protected \in SUBSET Member : Retire(protected)
  BY <1>4, RetireStep
<1>5. CASE UNCHANGED vars
  BY <1>5 DEF vars, TypeOK, SingleReservation, Stored, Live
<1>6. QED
  BY <1>1, <1>2, <1>3, <1>4, <1>5 DEF Next

LEMMA LedgerInvariant == Spec => [](TypeOK /\ SingleReservation)
<1>1. Init => TypeOK /\ SingleReservation
  BY InitInvariant
<1>2. TypeOK /\ SingleReservation /\ [Next]_vars => (TypeOK /\ SingleReservation)'
  BY NextInvariant
<1>3. QED
  BY <1>1, <1>2, PTL DEF Spec

-----------------------------------------------------------------------------
(* The inductive invariant *)

\* One request at a time: only the last record may be unanswered, and what was
\* answered was sent; no more than the recent ones are kept in full.
Orderly(A) ==
    LET n == Len(A.requests)
    IN  /\ n <= RecentRequests
        /\ Settling(A.requests)
        /\ \A i \in 1..n : A.requests[i].outcome # None => A.requests[i].sent
        /\ A.phase = "prepared" => n > 0 /\ ~LastRequest(A).sent
        /\ A.phase = "handed-off" => n > 0 /\ LastRequest(A).sent /\ LastRequest(A).outcome = None
        /\ A.phase = "running" /\ ~A.held => Answered(A.requests)

OneEntryEach(history) == \A p, q \in history : p[1] = q[1] => p = q

\* What the phase of an attempt says about what it consumed and sent.
Honest(A) ==
    /\ A.phase = "absent" => A = Absent
    /\ A.phase \in {"selected", "queued", "claimed"} =>
         Len(A.requests) = 0 /\ A.summary.count = 0
    /\ A.phase \in {"handed-off", "running"} => HasHandoff(A)
    /\ A.phase = "withheld" => ~HasHandoff(A)
    /\ ~A.consumed =>
         /\ Len(A.requests) = 0 /\ A.summary.count = 0 /\ A.history = {}
         /\ A.phase \in {"absent", "selected", "queued", "cancelled"}
    /\ A.phase = "settled" => A.outcome # None
    /\ A.summary.succeeded \subseteq A.summary.included
    /\ OneEntryEach(A.history)
    /\ A.charged => A.choice # None /\ Included(A, A.choice.intent)

\* A request identity is stored once, or archived.
Identified ==
    /\ \A a, b \in Attempt : \A i \in 1..Len(attempts[a].requests) :
         \A j \in 1..Len(attempts[b].requests) :
           attempts[a].requests[i].id = attempts[b].requests[j].id => a = b /\ i = j
    /\ \A a \in Attempt : \A i \in 1..Len(attempts[a].requests) :
         archive[attempts[a].requests[i].id] = "none"

\* The policy stands still while a choice is open.
ChoiceCurrent ==
    \A a \in Attempt :
      Live(a) /\ attempts[a].choice # None /\ ~attempts[a].charged
        => attempts[a].choice.revision = admission

\* What was pruned is not stored.
PrunedApart == \A a \in retired.attempts : attempts[a].phase = "absent"

IInv ==
    /\ TypeOK /\ SingleReservation
    /\ \A a \in Attempt : Orderly(attempts[a]) /\ Honest(attempts[a])
    /\ Identified
    /\ ChoiceCurrent
    /\ PrunedApart

-----------------------------------------------------------------------------
(* What one transaction on a stored attempt does: it keeps its requests, adds *)
(* one, hands the last one off or records its answer.                         *)

\* The phases a transaction that keeps the requests may lead through.
Moves(A, B) ==
    \/ B.phase = A.phase
    \/ A.phase = "selected" /\ B.phase = "queued"
    \/ A.phase = "queued" /\ B.phase = "claimed"
    \/ A.phase = "prepared" /\ HasHandoff(A) /\ B.phase = "running"
    \/ A.phase \in Open /\ HasHandoff(A) /\ B.phase \in {"settled", "uncertain"}
    \/ A.phase \in Open /\ ~HasHandoff(A) /\ B.phase = "cancelled"
    \/ A.phase = "prepared" /\ ~HasHandoff(A) /\ B.phase = "withheld"
    \/ A.phase = "uncertain" /\ active = None /\ B.phase \in {"settled", "cancelled"}

\* What every transaction on attempt a respects.
Stores(a) ==
    /\ \A b \in Attempt \ {a} : attempts'[b] = attempts[b]
    /\ UNCHANGED <<generation, older, retired>>
    /\ attempts[a].phase # "absent" /\ attempts'[a].phase # "absent"
    /\ attempts'[a].members = attempts[a].members
    /\ attempts'[a].choice = attempts[a].choice
    /\ attempts[a].consumed => attempts'[a].consumed
    /\ ~attempts'[a].consumed =>
         attempts'[a].phase \in {"selected", "queued", "cancelled"} /\ attempts'[a].history = {}
    /\ attempts'[a].phase = "settled" => attempts'[a].outcome # None
    /\ OneEntryEach(attempts'[a].history)

\* The reservation goes with the phase.
Frees(a) == active' = IF attempts'[a].phase \in Open THEN active
                      ELSE IF active = a THEN None ELSE active

Keeps(a) ==
    /\ Stores(a) /\ Frees(a)
    /\ Moves(attempts[a], attempts'[a])
    /\ attempts'[a].requests = attempts[a].requests
    /\ attempts'[a].summary = attempts[a].summary
    /\ attempts'[a].charged = attempts[a].charged
    /\ attempts'[a].phase = "running" /\ ~attempts'[a].held
         => attempts[a].phase = "running" /\ ~attempts[a].held
    /\ archive' = archive /\ admission' = admission

Adds(a) ==
    LET A == attempts[a]
        B == attempts'[a]
    IN  /\ Stores(a) /\ Frees(a)
        /\ A.phase \in {"claimed", "running"} /\ ~A.held
        /\ B.phase \in IF HasHandoff(A) THEN {"prepared", "running"} ELSE {"prepared", "withheld"}
        /\ B.phase = "running" => B.held
        /\ \E x \in RequestRecord, d \in {0, 1} :
             /\ ~x.sent /\ x.outcome = None
             /\ x.id \notin StoredRequests /\ archive[x.id] = "none"
             /\ Slid(A, B, x, d)
             /\ Len(B.requests) <= RecentRequests
             /\ archive' = IF d = 0 THEN archive
                           ELSE [r \in Request |-> IF r = A.requests[1].id
                                                   THEN "sent" ELSE archive[r]]
             /\ \/ B.charged = A.charged /\ admission' = admission
                \/ /\ B.charged /\ A.choice # None /\ A.choice.intent \in x.included

Sends(a) ==
    LET A == attempts[a]
        B == attempts'[a]
    IN  /\ Stores(a)
        /\ A.phase = "prepared" /\ B.phase = "handed-off"
        /\ B.requests = [A.requests EXCEPT ![Len(A.requests)].sent = TRUE]
        /\ B.summary = A.summary /\ B.charged = A.charged
        /\ active' = active /\ archive' = archive /\ admission' = admission

Answers(a, outcome) ==
    LET A == attempts[a]
        B == attempts'[a]
    IN  /\ Stores(a)
        /\ A.phase = "handed-off" /\ B.phase = "running"
        /\ B.requests = [A.requests EXCEPT ![Len(A.requests)].outcome = outcome]
        /\ B.summary = A.summary /\ B.charged = A.charged
        /\ active' = active /\ archive' = archive /\ admission' = admission

LEMMA BecomesIs ==
    ASSUME TypeOK, NEW a \in Attempt, NEW B, Becomes(a, B)
    PROVE  /\ attempts'[a] = B /\ archive' = archive
           /\ \A b \in Attempt \ {a} : attempts'[b] = attempts[b]
BY DEF TypeOK, Becomes

LEMMA StepEffect ==
    ASSUME IInv, NEW a \in Attempt, Step(a)
    PROVE  \/ \E members \in SUBSET Member, choice \in Choices : Select(a, members, choice)
           \/ Keeps(a) \/ Adds(a) \/ Sends(a)
           \/ \E outcome \in Outcome : Answers(a, outcome)
<1> DEFINE A == attempts[a]
           B == attempts'[a]
<1>1. /\ TypeOK /\ SingleReservation /\ TypeOK' /\ Orderly(A) /\ Honest(A)
      /\ A \in AttemptRecord /\ B \in AttemptRecord
  BY StepInvariant DEF IInv, TypeOK
<1>2. None \notin Attempt /\ "failure" # None /\ "success" # None
  BY LedgerAssumption DEF LedgerAssumption
<1>3. CASE Queued(a)
  <2>1. B = [A EXCEPT !.phase = "queued"] /\ archive' = archive /\ A.phase = "selected"
        /\ \A b \in Attempt \ {a} : attempts'[b] = attempts[b]
    BY <1>1, <1>3, BecomesIs DEF Queued, Owned
  <2>2. B.phase = "queued" /\ B.requests = A.requests /\ B.summary = A.summary
        /\ B.members = A.members /\ B.choice = A.choice /\ B.consumed = A.consumed
        /\ B.charged = A.charged /\ B.history = A.history
    BY <1>1, <2>1 DEF AttemptRecord
  <2>3. Stores(a)
    BY <1>1, <1>3, <2>1, <2>2 DEF Stores, Queued, Honest
  <2>4. Keeps(a)
    BY <1>3, <2>1, <2>2, <2>3 DEF Keeps, Frees, Moves, Queued, Open
  <2>5. QED
    BY <2>4
<1>4. CASE Claim(a)
  <2>1. B = [A EXCEPT !.phase = "claimed", !.consumed = TRUE] /\ archive' = archive
        /\ A.phase = "queued" /\ \A b \in Attempt \ {a} : attempts'[b] = attempts[b]
    BY <1>1, <1>4, BecomesIs DEF Claim, Owned
  <2>2. B.phase = "claimed" /\ B.requests = A.requests /\ B.summary = A.summary
        /\ B.members = A.members /\ B.choice = A.choice /\ B.consumed
        /\ B.charged = A.charged /\ B.history = A.history
    BY <1>1, <2>1 DEF AttemptRecord
  <2>3. Stores(a)
    BY <1>1, <1>4, <2>1, <2>2 DEF Stores, Claim, Honest
  <2>4. Keeps(a)
    BY <1>4, <2>1, <2>2, <2>3 DEF Keeps, Frees, Moves, Claim, Open
  <2>5. QED
    BY <2>4
<1>5. ASSUME NEW m \in Member, NEW e \in Entry,
             History(a, {<<m, e>>}) \/ RecoverHistory(a, {<<m, e>>})
      PROVE  Keeps(a)
  <2>1. B = [A EXCEPT !.history = @ \cup {<<m, e>>}] /\ archive' = archive
        /\ \A b \in Attempt \ {a} : attempts'[b] = attempts[b]
    BY <1>1, <1>5, BecomesIs DEF History, RecoverHistory
  <2>2. B.phase = A.phase /\ B.requests = A.requests /\ B.summary = A.summary
        /\ B.members = A.members /\ B.choice = A.choice /\ B.consumed = A.consumed
        /\ B.charged = A.charged /\ B.history = A.history \cup {<<m, e>>}
        /\ B.held = A.held /\ B.outcome = A.outcome
    BY <1>1, <2>1 DEF AttemptRecord
  <2>3. OneEntryEach(B.history)
    BY <1>5, <2>2 DEF History, RecoverHistory, HistoryFits, OneEntryEach
  <2>4. A.consumed /\ A.phase # "absent"
    BY <1>1, <1>5 DEF History, RecoverHistory, Owned, Honest, Terminal
  <2>5. UNCHANGED <<generation, active, admission, older, retired>>
    BY <1>5 DEF History, RecoverHistory
  <2>6. Stores(a)
    BY <1>1, <2>1, <2>2, <2>3, <2>4, <2>5 DEF Stores, Honest
  <2>7. Frees(a)
    BY <1>2, <1>1, <2>2, <2>5 DEF Frees, SingleReservation, Live
  <2>8. QED
    BY <2>1, <2>2, <2>5, <2>6, <2>7 DEF Keeps, Moves
<1>6. CASE WithholdRequest(a)
  <2>1. B = [A EXCEPT !.phase = IF HasHandoff(A) THEN "running" ELSE "withheld", !.held = TRUE]
        /\ archive' = archive /\ A.phase = "prepared"
        /\ active' = (IF HasHandoff(A) THEN active ELSE None)
        /\ UNCHANGED <<generation, admission, older, retired>>
        /\ \A b \in Attempt \ {a} : attempts'[b] = attempts[b]
    BY <1>1, <1>6, BecomesIs DEF WithholdRequest, Owned
  <2>2. B.phase = (IF HasHandoff(A) THEN "running" ELSE "withheld")
        /\ B.requests = A.requests /\ B.summary = A.summary
        /\ B.members = A.members /\ B.choice = A.choice /\ B.consumed = A.consumed
        /\ B.charged = A.charged /\ B.history = A.history
        /\ B.held = TRUE /\ B.outcome = A.outcome
    BY <1>1, <2>1 DEF AttemptRecord
  <2>3. Stores(a)
    BY <1>1, <2>1, <2>2 DEF Stores, Honest
  <2>4. active = a
    BY <1>1, <2>1 DEF SingleReservation, Live, Open
  <2>5. Frees(a)
    BY <2>1, <2>2, <2>4 DEF Frees, Open
  <2>6. Moves(A, B)
    BY <2>1, <2>2 DEF Moves
  <2>7. QED
    BY <2>1, <2>2, <2>3, <2>5, <2>6 DEF Keeps
<1>7. ASSUME NEW o \in Outcome, Settle(a, o) PROVE Keeps(a)
  <2>1. B = [A EXCEPT !.phase = "settled", !.outcome = o]
        /\ archive' = archive /\ A.phase = "running" /\ active' = None
        /\ UNCHANGED <<generation, admission, older, retired>>
        /\ \A b \in Attempt \ {a} : attempts'[b] = attempts[b]
    BY <1>1, <1>7, BecomesIs DEF Settle, Owned
  <2>2. B.phase = "settled" /\ B.requests = A.requests /\ B.summary = A.summary
        /\ B.members = A.members /\ B.choice = A.choice /\ B.consumed = A.consumed
        /\ B.charged = A.charged /\ B.history = A.history
        /\ B.held = A.held /\ B.outcome = o
    BY <1>1, <2>1 DEF AttemptRecord
  <2>3. o # None
    BY <1>2 DEF Outcome
  <2>4. Stores(a)
    BY <1>1, <2>1, <2>2, <2>3 DEF Stores, Honest
  <2>5. active = a
    BY <1>1, <2>1 DEF SingleReservation, Live, Open
  <2>6. Frees(a)
    BY <2>1, <2>2, <2>5 DEF Frees, Open
  <2>7. Moves(A, B)
    BY <1>1, <2>1, <2>2 DEF Moves, Honest, Open
  <2>8. QED
    BY <2>1, <2>2, <2>4, <2>6, <2>7 DEF Keeps
<1>8. CASE Uncertain(a)
  <2>1. B = [A EXCEPT !.phase = "uncertain", !.held = TRUE]
        /\ archive' = archive /\ A.phase = "handed-off" /\ active' = None
        /\ UNCHANGED <<generation, admission, older, retired>>
        /\ \A b \in Attempt \ {a} : attempts'[b] = attempts[b]
    BY <1>1, <1>8, BecomesIs DEF Uncertain, Owned
  <2>2. B.phase = "uncertain" /\ B.requests = A.requests /\ B.summary = A.summary
        /\ B.members = A.members /\ B.choice = A.choice /\ B.consumed = A.consumed
        /\ B.charged = A.charged /\ B.history = A.history
        /\ B.held = TRUE /\ B.outcome = A.outcome
    BY <1>1, <2>1 DEF AttemptRecord
  <2>3. Stores(a)
    BY <1>1, <2>1, <2>2 DEF Stores, Honest
  <2>4. active = a
    BY <1>1, <2>1 DEF SingleReservation, Live, Open
  <2>5. Frees(a)
    BY <2>1, <2>2, <2>4 DEF Frees, Open
  <2>6. Moves(A, B)
    BY <1>1, <2>1, <2>2 DEF Moves, Honest, Open
  <2>7. QED
    BY <2>1, <2>2, <2>3, <2>5, <2>6 DEF Keeps
<1>9. ASSUME NEW d \in {"retry", "discard"}, ResolveUncertain(a, d) PROVE Keeps(a)
  <2>1. B = Resolved(A, d) /\ archive' = archive /\ A.phase = "uncertain" /\ active = None
        /\ UNCHANGED <<generation, active, admission, older, retired>>
        /\ \A b \in Attempt \ {a} : attempts'[b] = attempts[b]
    BY <1>1, <1>9, BecomesIs DEF ResolveUncertain
  <2>2. B.phase \in {"settled", "cancelled"} /\ B.requests = A.requests /\ B.summary = A.summary
        /\ B.members = A.members /\ B.choice = A.choice /\ B.consumed = A.consumed
        /\ B.charged = A.charged /\ B.history = A.history
        /\ (B.phase = "settled" => B.outcome = "failure")
    BY <1>1, <2>1 DEF AttemptRecord, Resolved
  <2>3. Stores(a)
    BY <1>1, <1>2, <2>1, <2>2 DEF Stores, Honest
  <2>4. Frees(a)
    BY <1>2, <2>1, <2>2 DEF Frees, Open
  <2>5. Moves(A, B)
    BY <2>1, <2>2 DEF Moves
  <2>6. QED
    BY <2>1, <2>2, <2>3, <2>4, <2>5 DEF Keeps
<1>10. CASE EmergencyReset(a)
  <2>1. B = (IF ~HasHandoff(A)
             THEN [A EXCEPT !.phase = "cancelled", !.held = TRUE]
             ELSE IF A.phase = "prepared" /\ ~LastRequest(A).sent
             THEN [A EXCEPT !.phase = "settled", !.outcome = "failure", !.held = TRUE]
             ELSE [A EXCEPT !.phase = "uncertain", !.held = TRUE])
        /\ archive' = archive /\ A.phase \in Open /\ active = a /\ active' = None
        /\ UNCHANGED <<generation, admission, older, retired>>
        /\ \A b \in Attempt \ {a} : attempts'[b] = attempts[b]
    BY <1>1, <1>10, BecomesIs DEF EmergencyReset, Owned
  <2>2. (IF HasHandoff(A) THEN B.phase \in {"settled", "uncertain"} ELSE B.phase = "cancelled")
        /\ B.requests = A.requests /\ B.summary = A.summary
        /\ B.members = A.members /\ B.choice = A.choice /\ B.consumed = A.consumed
        /\ B.charged = A.charged /\ B.history = A.history
        /\ (B.phase = "settled" => B.outcome = "failure")
    <3>1. CASE ~HasHandoff(A)
      BY <1>1, <2>1, <3>1 DEF AttemptRecord
    <3>2. CASE HasHandoff(A) /\ A.phase = "prepared" /\ ~LastRequest(A).sent
      BY <1>1, <2>1, <3>2 DEF AttemptRecord
    <3>3. CASE HasHandoff(A) /\ ~(A.phase = "prepared" /\ ~LastRequest(A).sent)
      BY <1>1, <2>1, <3>3 DEF AttemptRecord
    <3>4. QED
      BY <3>1, <3>2, <3>3
  <2>3. A.consumed \/ ~HasHandoff(A)
    <3>1. A.requests \in Seq(RequestRecord)
      BY <1>1 DEF AttemptRecord
    <3>2. QED
      BY <1>1, <3>1 DEF Honest, HasHandoff
  <2>4. Stores(a)
    BY <1>1, <1>2, <2>1, <2>2, <2>3 DEF Stores, Honest, Open
  <2>5. Frees(a)
    BY <2>1, <2>2 DEF Frees, Open
  <2>6. Moves(A, B)
    BY <2>1, <2>2 DEF Moves
  <2>7. QED
    BY <2>1, <2>2, <2>4, <2>5, <2>6 DEF Keeps
<1>11. CASE Cancel(a)
  <2>1. B = [A EXCEPT !.phase = "cancelled", !.held = TRUE]
        /\ archive' = archive /\ ~HasHandoff(A)
        /\ A.phase \in {"selected", "queued", "claimed", "prepared", "cancelled"}
        /\ active' = (IF active = a THEN None ELSE active)
        /\ UNCHANGED <<generation, admission, older, retired>>
        /\ \A b \in Attempt \ {a} : attempts'[b] = attempts[b]
    BY <1>1, <1>11, BecomesIs DEF Cancel, Owned
  <2>2. B.phase = "cancelled" /\ B.requests = A.requests /\ B.summary = A.summary
        /\ B.members = A.members /\ B.choice = A.choice /\ B.consumed = A.consumed
        /\ B.charged = A.charged /\ B.history = A.history
        /\ B.held = TRUE /\ B.outcome = A.outcome
    BY <1>1, <2>1 DEF AttemptRecord
  <2>3. Stores(a)
    BY <1>1, <2>1, <2>2 DEF Stores, Honest
  <2>4. Frees(a)
    BY <2>1, <2>2 DEF Frees, Open
  <2>5. Moves(A, B)
    BY <2>1, <2>2 DEF Moves, Open
  <2>6. QED
    BY <2>1, <2>2, <2>3, <2>4, <2>5 DEF Keeps
<1>12. ASSUME NEW r \in Request, NEW i \in SUBSET Member, NEW c \in SUBSET Member,
              NEW x \in SUBSET Member, Prepare(a, r, i, c, x)
       PROVE  Adds(a)
  <2> DEFINE pays == (A.choice # None /\ ~A.charged) /\ A.choice.intent \in i
             q == NewRequest(r, i)
             P == [A EXCEPT !.phase = "prepared",
                            !.requests = Append(@, q), !.charged = @ \/ pays]
  <2>1. /\ A.phase \in {"claimed", "running"} /\ ~A.held
        /\ r \notin StoredRequests /\ archive[r] = "none" /\ Put(a, P)
        /\ admission' = (IF pays THEN A.choice.revision + 1 ELSE admission)
        /\ UNCHANGED <<generation, active, older, retired>>
    BY <1>12 DEF Prepare, MayPrepare, Owned
  <2>2. q \in RequestRecord /\ q.id = r /\ q.included = i /\ ~q.sent /\ q.outcome = None
    BY DEF NewRequest, RequestRecord
  <2>3. A.requests \in Seq(RequestRecord) /\ Append(A.requests, q) \in Seq(RequestRecord)
    BY <1>1, <2>2 DEF AttemptRecord
  <2>4. /\ P \in AttemptRecord /\ P.requests = Append(A.requests, q) /\ P.summary = A.summary
        /\ P.phase = "prepared" /\ P.members = A.members /\ P.choice = A.choice
        /\ P.consumed = A.consumed /\ P.charged = (A.charged \/ pays) /\ P.history = A.history
    BY <1>1, <2>3 DEF AttemptRecord, Open
  <2> HIDE DEF P
  <2>5. Len(A.requests) <= RecentRequests /\ Answered(A.requests)
    BY <1>1, <2>1, <2>3 DEF Orderly, Honest, Answered
  <2>6. /\ SameElse(P, B)
        /\ \E d \in {0, 1} :
             /\ Slid(A, B, q, d)
             /\ Len(A.requests) + 1 - d <= RecentRequests
             /\ archive' = IF d = 0 THEN archive
                           ELSE [z \in Request |-> IF z = A.requests[1].id
                                                   THEN "sent" ELSE archive[z]]
    BY <1>1, <2>1, <2>2, <2>4, <2>5, PutAppended
  <2>7. \A b \in Attempt \ {a} : attempts'[b] = attempts[b]
    BY <1>1, <2>1 DEF Put, TypeOK
  <2>8. A.consumed
    BY <1>1, <2>1 DEF Honest
  <2>9. Stores(a)
    BY <1>1, <2>1, <2>4, <2>6, <2>7, <2>8 DEF Stores, SameElse, Honest
  <2>10. Frees(a)
    BY <2>1, <2>4, <2>6 DEF Frees, SameElse, Open
  <2>11. \/ B.charged = A.charged /\ admission' = admission
         \/ B.charged /\ A.choice # None /\ A.choice.intent \in q.included
    BY <1>1, <2>1, <2>2, <2>4, <2>6 DEF SameElse, AttemptRecord
  <2>12. B.phase = "prepared"
    BY <2>4, <2>6 DEF SameElse
  <2>13. \E d \in {0, 1} :
             /\ Slid(A, B, q, d)
             /\ Len(B.requests) <= RecentRequests
             /\ archive' = IF d = 0 THEN archive
                           ELSE [z \in Request |-> IF z = A.requests[1].id
                                                   THEN "sent" ELSE archive[z]]
    BY <2>6 DEF Slid
  <2> HIDE DEF q, pays
  <2>14. QED
    BY <2>1, <2>2, <2>9, <2>10, <2>11, <2>12, <2>13 DEF Adds
<1>13. ASSUME NEW r \in Request, NEW i \in SUBSET Member, NEW c \in SUBSET Member,
              NEW x \in SUBSET Member, PrepareWithheld(a, r, i, c, x)
       PROVE  Adds(a)
  <2> DEFINE q == NewRequest(r, i)
             P == [A EXCEPT !.phase = IF HasHandoff(A) THEN "running" ELSE "withheld",
                            !.requests = Append(@, q), !.held = TRUE]
  <2>1. /\ A.phase \in {"claimed", "running"} /\ ~A.held
        /\ r \notin StoredRequests /\ archive[r] = "none" /\ Put(a, P)
        /\ active' = (IF HasHandoff(A) THEN active ELSE None)
        /\ UNCHANGED <<generation, admission, older, retired>>
    BY <1>13 DEF PrepareWithheld, MayPrepare, Owned
  <2>2. q \in RequestRecord /\ q.id = r /\ q.included = i /\ ~q.sent /\ q.outcome = None
    BY DEF NewRequest, RequestRecord
  <2>3. A.requests \in Seq(RequestRecord) /\ Append(A.requests, q) \in Seq(RequestRecord)
    BY <1>1, <2>2 DEF AttemptRecord
  <2>4. /\ P \in AttemptRecord /\ P.requests = Append(A.requests, q) /\ P.summary = A.summary
        /\ P.phase = (IF HasHandoff(A) THEN "running" ELSE "withheld")
        /\ P.members = A.members /\ P.choice = A.choice
        /\ P.consumed = A.consumed /\ P.charged = A.charged /\ P.history = A.history
        /\ P.held = TRUE
    BY <1>1, <2>3 DEF AttemptRecord, Open, Terminal
  <2> HIDE DEF P
  <2>5. Len(A.requests) <= RecentRequests /\ Answered(A.requests)
    BY <1>1, <2>1, <2>3 DEF Orderly, Honest, Answered
  <2>6. /\ SameElse(P, B)
        /\ \E d \in {0, 1} :
             /\ Slid(A, B, q, d)
             /\ Len(A.requests) + 1 - d <= RecentRequests
             /\ archive' = IF d = 0 THEN archive
                           ELSE [z \in Request |-> IF z = A.requests[1].id
                                                   THEN "sent" ELSE archive[z]]
    BY <1>1, <2>1, <2>2, <2>4, <2>5, PutAppended
  <2>7. \A b \in Attempt \ {a} : attempts'[b] = attempts[b]
    BY <1>1, <2>1 DEF Put, TypeOK
  <2>8. A.consumed
    BY <1>1, <2>1 DEF Honest
  <2>9. B.phase = (IF HasHandoff(A) THEN "running" ELSE "withheld") /\ B.held
        /\ B.charged = A.charged
    BY <2>4, <2>6 DEF SameElse
  <2>10. Stores(a)
    BY <1>1, <2>1, <2>4, <2>6, <2>7, <2>8, <2>9 DEF Stores, SameElse, Honest
  <2>11. active = a
    BY <1>1, <2>1 DEF SingleReservation, Live, Open
  <2>12. Frees(a)
    BY <2>1, <2>9, <2>11 DEF Frees, Open
  <2>13. \E d \in {0, 1} :
             /\ Slid(A, B, q, d)
             /\ Len(B.requests) <= RecentRequests
             /\ archive' = IF d = 0 THEN archive
                           ELSE [z \in Request |-> IF z = A.requests[1].id
                                                   THEN "sent" ELSE archive[z]]
    BY <2>6 DEF Slid
  <2> HIDE DEF q
  <2>14. QED
    BY <2>1, <2>2, <2>9, <2>10, <2>12, <2>13 DEF Adds
<1>14. CASE Handoff(a)
  <2> DEFINE n == Len(A.requests)
             P == [A EXCEPT !.phase = "handed-off", !.requests[n].sent = TRUE]
  <2>1. /\ Put(a, P) /\ A.phase = "prepared"
        /\ UNCHANGED <<generation, active, admission, older, retired>>
    BY <1>14 DEF Handoff, Owned
  <2>2. /\ A.requests \in Seq(RequestRecord) /\ n \in Nat /\ n <= RecentRequests /\ n \in 1..n
    BY <1>1, <2>1 DEF AttemptRecord, Orderly
  <2>3. [A.requests EXCEPT ![n].sent = TRUE] \in Seq(RequestRecord)
    <3>1. [A.requests[n] EXCEPT !.sent = TRUE] \in RequestRecord
      <4>1. A.requests[n] \in RequestRecord
        BY <2>2, ElementOfSeq
      <4>2. QED
        BY <4>1 DEF RequestRecord
    <3>2. QED
      BY <2>2, <3>1, ReplacedType
  <2>4. /\ P \in AttemptRecord /\ P.requests = [A.requests EXCEPT ![n].sent = TRUE]
        /\ P.summary = A.summary /\ P.phase = "handed-off" /\ P.members = A.members
        /\ P.choice = A.choice /\ P.consumed = A.consumed /\ P.charged = A.charged
        /\ P.history = A.history
    BY <1>1, <2>3 DEF AttemptRecord, Open
  <2>5. Len(P.requests) = n
    BY <2>2, <2>4
  <2> HIDE DEF P
  <2>6. B = P /\ archive' = archive /\ \A b \in Attempt \ {a} : attempts'[b] = attempts[b]
    <3>1. Consolidated(P) = P /\ Archived(P) = archive
      BY <1>1, <2>2, <2>4, <2>5, ConsolidatedShort
    <3>2. QED
      BY <1>1, <2>1, <3>1 DEF Put, TypeOK
  <2>7. Stores(a)
    BY <1>1, <2>1, <2>4, <2>6 DEF Stores, Honest
  <2>8. Sends(a)
    BY <2>1, <2>4, <2>6, <2>7 DEF Sends
  <2>9. QED
    BY <2>8
<1>15. ASSUME NEW o \in Outcome, RequestOutcome(a, o) PROVE Answers(a, o)
  <2> DEFINE n == Len(A.requests)
             P == [A EXCEPT !.phase = "running", !.requests[n].outcome = o]
  <2>1. /\ Put(a, P) /\ A.phase = "handed-off"
        /\ UNCHANGED <<generation, active, admission, older, retired>>
    BY <1>15 DEF RequestOutcome, Owned
  <2>2. /\ A.requests \in Seq(RequestRecord) /\ n \in Nat /\ n <= RecentRequests /\ n \in 1..n
    BY <1>1, <2>1 DEF AttemptRecord, Orderly
  <2>3. [A.requests EXCEPT ![n].outcome = o] \in Seq(RequestRecord)
    <3>1. [A.requests[n] EXCEPT !.outcome = o] \in RequestRecord
      <4>1. A.requests[n] \in RequestRecord
        BY <2>2, ElementOfSeq
      <4>2. QED
        BY <4>1 DEF RequestRecord
    <3>2. QED
      BY <2>2, <3>1, ReplacedType
  <2>4. /\ P \in AttemptRecord /\ P.requests = [A.requests EXCEPT ![n].outcome = o]
        /\ P.summary = A.summary /\ P.phase = "running" /\ P.members = A.members
        /\ P.choice = A.choice /\ P.consumed = A.consumed /\ P.charged = A.charged
        /\ P.history = A.history
    BY <1>1, <2>3 DEF AttemptRecord, Open
  <2>5. Len(P.requests) = n
    BY <2>2, <2>4
  <2> HIDE DEF P
  <2>6. B = P /\ archive' = archive /\ \A b \in Attempt \ {a} : attempts'[b] = attempts[b]
    <3>1. Consolidated(P) = P /\ Archived(P) = archive
      BY <1>1, <2>2, <2>4, <2>5, ConsolidatedShort
    <3>2. QED
      BY <1>1, <2>1, <3>1 DEF Put, TypeOK
  <2>7. Stores(a)
    BY <1>1, <2>1, <2>4, <2>6 DEF Stores, Honest
  <2>8. QED
    BY <2>1, <2>4, <2>6, <2>7 DEF Answers
<1>16. QED
  BY <1>3, <1>4, <1>5, <1>6, <1>7, <1>8, <1>9, <1>10, <1>11, <1>12, <1>13, <1>14, <1>15
  DEF Step, Judge

-----------------------------------------------------------------------------
(* The invariant is inductive *)

LEMMA AbsentSound == Orderly(Absent) /\ Honest(Absent)
<1>1. /\ Absent.requests = <<>> /\ Absent.phase = "absent" /\ Absent.summary.count = 0
      /\ Absent.history = {} /\ Absent.summary.succeeded = {} /\ ~Absent.charged
      /\ Absent.outcome = None
  BY DEF Absent
<1>2. Len(<<>>) = 0 /\ 1..0 = {} /\ 1..(0 - 1) = {}
  OBVIOUS
<1>3. Orderly(Absent)
  BY <1>1, <1>2, LedgerAssumption DEF Orderly, Settling, LedgerAssumption
<1>4. Honest(Absent)
  BY <1>1, <1>2 DEF Honest, OneEntryEach
<1>5. QED
  BY <1>3, <1>4

\* Transactions that leave the identities of the stored requests alone.
LEMMA SameIdentities ==
    ASSUME Identified, archive' = archive,
           \A a \in Attempt :
             /\ Len(attempts'[a].requests) = Len(attempts[a].requests)
             /\ \A i \in 1..Len(attempts[a].requests) :
                  attempts'[a].requests[i].id = attempts[a].requests[i].id
    PROVE  Identified'
<1>1. \A a, b \in Attempt : \A i \in 1..Len(attempts'[a].requests) :
        \A j \in 1..Len(attempts'[b].requests) :
          attempts'[a].requests[i].id = attempts'[b].requests[j].id => a = b /\ i = j
  <2> TAKE a, b \in Attempt
  <2> TAKE i \in 1..Len(attempts'[a].requests)
  <2> TAKE j \in 1..Len(attempts'[b].requests)
  <2>1. i \in 1..Len(attempts[a].requests) /\ j \in 1..Len(attempts[b].requests)
    OBVIOUS
  <2>2. QED
    BY <2>1 DEF Identified
<1>2. \A a \in Attempt : \A i \in 1..Len(attempts'[a].requests) :
        archive'[attempts'[a].requests[i].id] = "none"
  BY DEF Identified
<1>3. QED
  BY <1>1, <1>2 DEF Identified

\* Nothing pruned comes back with a transaction on a stored attempt.
LEMMA StillPruned ==
    ASSUME IInv, NEW a \in Attempt, attempts[a].phase # "absent", retired' = retired,
           \A b \in Attempt \ {a} : attempts'[b] = attempts[b]
    PROVE  PrunedApart'
<1>1. retired.attempts \subseteq Attempt
  BY DEF IInv, TypeOK
<1>2. QED
  BY <1>1 DEF IInv, PrunedApart

LEMMA KeepsInvariant ==
    ASSUME IInv, TypeOK', SingleReservation', NEW a \in Attempt, Keeps(a)
    PROVE  IInv'
<1> DEFINE A == attempts[a]
           B == attempts'[a]
<1>1. Orderly(A) /\ Honest(A) /\ A \in AttemptRecord /\ B \in AttemptRecord
  BY DEF IInv, TypeOK
<1>2. /\ B.requests = A.requests /\ B.summary = A.summary /\ B.charged = A.charged
      /\ B.choice = A.choice /\ B.phase # "absent" /\ Moves(A, B) /\ archive' = archive
      /\ (B.phase = "running" /\ ~B.held => A.phase = "running" /\ ~A.held)
      /\ (A.consumed => B.consumed) /\ OneEntryEach(B.history)
      /\ (~B.consumed => B.phase \in {"selected", "queued", "cancelled"} /\ B.history = {})
      /\ (B.phase = "settled" => B.outcome # None)
      /\ \A b \in Attempt \ {a} : attempts'[b] = attempts[b]
      /\ UNCHANGED <<admission, retired>>
  BY DEF Keeps, Stores
<1>3. Orderly(B)
  <2>1. B.phase = "prepared" => A.phase = "prepared"
    BY <1>2 DEF Moves
  <2>2. B.phase = "handed-off" => A.phase = "handed-off"
    BY <1>2 DEF Moves
  <2>3. QED
    BY <1>1, <1>2, <2>1, <2>2 DEF Orderly, LastRequest
<1>4. Honest(B)
  <2>1. HasHandoff(B) <=> HasHandoff(A)
    BY <1>2 DEF HasHandoff
  <2>2. B.charged => B.choice # None /\ Included(B, B.choice.intent)
    BY <1>1, <1>2 DEF Honest, Included
  <2>3. B.phase \in {"selected", "queued", "claimed"} => A.phase \in {"selected", "queued", "claimed"}
    BY <1>2 DEF Moves
  <2>4. B.phase \in {"handed-off", "running"} => HasHandoff(A)
    BY <1>1, <1>2 DEF Moves, Honest
  <2>5. B.phase = "withheld" => ~HasHandoff(A)
    BY <1>1, <1>2 DEF Moves, Honest
  <2>6. QED
    BY <1>1, <1>2, <2>1, <2>2, <2>3, <2>4, <2>5 DEF Honest
<1>5. Identified'
  BY <1>2, SameIdentities DEF IInv
<1>6. ChoiceCurrent'
  <2>1. Live(a)' => Live(a)
    BY <1>2 DEF Moves, Live, Open
  <2>2. QED
    BY <1>2, <2>1 DEF IInv, ChoiceCurrent, Live
<1>7. PrunedApart'
  <2>1. A.phase # "absent"
    BY DEF Keeps, Stores
  <2>2. QED
    BY <1>2, <2>1, StillPruned
<1>8. QED
  BY <1>2, <1>3, <1>4, <1>5, <1>6, <1>7 DEF IInv

\* The last request changes, as it is handed off or answered.
LEMMA LastChanged ==
    ASSUME NEW A \in AttemptRecord, NEW B \in AttemptRecord,
           NEW q \in RequestRecord, Len(A.requests) > 0,
           B.requests = [A.requests EXCEPT ![Len(A.requests)] = q]
    PROVE  /\ Len(B.requests) = Len(A.requests) /\ LastRequest(B) = q
           /\ B.requests[Len(A.requests)] = q
           /\ \A i \in 1..(Len(A.requests) - 1) : B.requests[i] = A.requests[i]
<1>1. A.requests \in Seq(RequestRecord)
  BY DEF AttemptRecord
<1>2. QED
  BY <1>1 DEF LastRequest

LEMMA SendsInvariant ==
    ASSUME IInv, TypeOK', SingleReservation', NEW a \in Attempt, Sends(a)
    PROVE  IInv'
<1> DEFINE A == attempts[a]
           B == attempts'[a]
           n == Len(A.requests)
           q == [A.requests[n] EXCEPT !.sent = TRUE]
<1>1. Orderly(A) /\ Honest(A) /\ A \in AttemptRecord /\ B \in AttemptRecord
  BY DEF IInv, TypeOK
<1>2. /\ A.phase = "prepared" /\ B.phase = "handed-off"
      /\ B.requests = [A.requests EXCEPT ![n] = q]
      /\ B.summary = A.summary /\ B.charged = A.charged /\ B.choice = A.choice
      /\ archive' = archive /\ UNCHANGED <<admission, retired>>
      /\ (A.consumed => B.consumed) /\ OneEntryEach(B.history)
      /\ \A b \in Attempt \ {a} : attempts'[b] = attempts[b]
  BY DEF Sends, Stores
<1>3. n \in Nat /\ n > 0 /\ ~LastRequest(A).sent /\ A.requests[n] \in RequestRecord
  BY <1>1, <1>2 DEF AttemptRecord, Orderly
<1>4. /\ q.id = A.requests[n].id /\ q.included = A.requests[n].included
      /\ q.sent = TRUE /\ q.outcome = None /\ q \in RequestRecord
  <2>1. A.requests[n].outcome = None
    BY <1>1, <1>3 DEF Orderly, LastRequest
  <2>2. QED
    BY <1>3, <2>1 DEF RequestRecord
<1> HIDE DEF q
<1>5. /\ Len(B.requests) = n /\ LastRequest(B) = q /\ B.requests[n] = q
      /\ \A i \in 1..(n - 1) : B.requests[i] = A.requests[i]
  <2>1. Len(A.requests) > 0 /\ B.requests = [A.requests EXCEPT ![Len(A.requests)] = q]
    BY <1>2, <1>3
  <2> HIDE DEF n
  <2>2. QED
    BY <1>1, <1>4, <2>1, LastChanged DEF n
<1>6. \A i \in 1..n : i = n \/ i \in 1..(n - 1)
  BY <1>3
<1>7. Orderly(B)
  BY <1>1, <1>2, <1>3, <1>4, <1>5, <1>6 DEF Orderly, Settling
<1>8. Honest(B)
  <2>1. HasHandoff(B)
    BY <1>3, <1>4, <1>5 DEF HasHandoff
  <2>2. A.consumed
    BY <1>1, <1>2 DEF Honest
  <2>3. \A m : Included(B, m) <=> Included(A, m)
    BY <1>2, <1>4, <1>5, <1>6 DEF Included
  <2>4. QED
    BY <1>1, <1>2, <2>1, <2>2, <2>3 DEF Honest
<1>9. Identified'
  BY <1>2, <1>4, <1>5, <1>6, SameIdentities DEF IInv
<1>10. ChoiceCurrent'
  <2>1. Live(a)
    BY <1>2 DEF Live, Open
  <2>2. QED
    BY <1>2, <2>1 DEF IInv, ChoiceCurrent, Live
<1>11. PrunedApart'
  <2>1. A.phase # "absent"
    BY <1>2
  <2>2. QED
    BY <1>2, <2>1, StillPruned
<1>12. QED
  BY <1>2, <1>7, <1>8, <1>9, <1>10, <1>11 DEF IInv

LEMMA AnswersInvariant ==
    ASSUME IInv, TypeOK', SingleReservation', NEW a \in Attempt, NEW o \in Outcome, Answers(a, o)
    PROVE  IInv'
<1> DEFINE A == attempts[a]
           B == attempts'[a]
           n == Len(A.requests)
           q == [A.requests[n] EXCEPT !.outcome = o]
<1>1. Orderly(A) /\ Honest(A) /\ A \in AttemptRecord /\ B \in AttemptRecord
  BY DEF IInv, TypeOK
<1>2. /\ A.phase = "handed-off" /\ B.phase = "running"
      /\ B.requests = [A.requests EXCEPT ![n] = q]
      /\ B.summary = A.summary /\ B.charged = A.charged /\ B.choice = A.choice
      /\ archive' = archive /\ UNCHANGED <<admission, retired>>
      /\ (A.consumed => B.consumed) /\ OneEntryEach(B.history)
      /\ \A b \in Attempt \ {a} : attempts'[b] = attempts[b]
  BY DEF Answers, Stores
<1>3. n \in Nat /\ n > 0 /\ LastRequest(A).sent /\ A.requests[n] \in RequestRecord
  BY <1>1, <1>2 DEF AttemptRecord, Orderly
<1>4. /\ q.id = A.requests[n].id /\ q.included = A.requests[n].included
      /\ q.sent /\ q.outcome = o /\ o # None /\ q \in RequestRecord
  BY <1>3, LedgerAssumption DEF RequestRecord, LastRequest, Outcome, LedgerAssumption
<1> HIDE DEF q
<1>5. /\ Len(B.requests) = n /\ LastRequest(B) = q /\ B.requests[n] = q
      /\ \A i \in 1..(n - 1) : B.requests[i] = A.requests[i]
  <2>1. Len(A.requests) > 0 /\ B.requests = [A.requests EXCEPT ![Len(A.requests)] = q]
    BY <1>2, <1>3
  <2> HIDE DEF n
  <2>2. QED
    BY <1>1, <1>4, <2>1, LastChanged DEF n
<1>6. \A i \in 1..n : i = n \/ i \in 1..(n - 1)
  BY <1>3
<1>7. Orderly(B)
  <2>1. \A i \in 1..n : Finished(B.requests[i])
    BY <1>1, <1>4, <1>5, <1>6 DEF Orderly, Settling, Finished
  <2>2. QED
    BY <1>1, <1>2, <1>3, <1>5, <2>1 DEF Orderly, Settling, Answered, Finished
<1>8. Honest(B)
  <2>1. HasHandoff(B)
    BY <1>3, <1>4, <1>5 DEF HasHandoff
  <2>2. A.consumed
    BY <1>1, <1>2 DEF Honest
  <2>3. \A m : Included(B, m) <=> Included(A, m)
    BY <1>2, <1>4, <1>5, <1>6 DEF Included
  <2>4. QED
    BY <1>1, <1>2, <2>1, <2>2, <2>3 DEF Honest
<1>9. Identified'
  BY <1>2, <1>4, <1>5, <1>6, SameIdentities DEF IInv
<1>10. ChoiceCurrent'
  <2>1. Live(a)
    BY <1>2 DEF Live, Open
  <2>2. QED
    BY <1>2, <2>1 DEF IInv, ChoiceCurrent, Live
<1>11. PrunedApart'
  <2>1. A.phase # "absent"
    BY <1>2
  <2>2. QED
    BY <1>2, <2>1, StillPruned
<1>12. QED
  BY <1>2, <1>7, <1>8, <1>9, <1>10, <1>11 DEF IInv

LEMMA AddsInvariant ==
    ASSUME IInv, TypeOK', SingleReservation', NEW a \in Attempt, Adds(a)
    PROVE  IInv'
<1> DEFINE A == attempts[a]
           B == attempts'[a]
           n == Len(A.requests)
<1>1. Orderly(A) /\ Honest(A) /\ A \in AttemptRecord /\ B \in AttemptRecord
  BY DEF IInv, TypeOK
<1>2. /\ A.phase \in {"claimed", "running"} /\ ~A.held
      /\ B.phase \in (IF HasHandoff(A) THEN {"prepared", "running"} ELSE {"prepared", "withheld"})
      /\ (B.phase = "running" => B.held)
      /\ B.choice = A.choice /\ UNCHANGED retired
      /\ (A.consumed => B.consumed) /\ OneEntryEach(B.history)
      /\ \A b \in Attempt \ {a} : attempts'[b] = attempts[b]
  BY DEF Adds, Stores
<1>3. PICK x \in RequestRecord, d \in {0, 1} :
        /\ ~x.sent /\ x.outcome = None
        /\ x.id \notin StoredRequests /\ archive[x.id] = "none"
        /\ Slid(A, B, x, d)
        /\ Len(B.requests) <= RecentRequests
        /\ archive' = IF d = 0 THEN archive
                      ELSE [r \in Request |-> IF r = A.requests[1].id
                                              THEN "sent" ELSE archive[r]]
        /\ \/ B.charged = A.charged /\ admission' = admission
           \/ /\ B.charged /\ A.choice # None /\ A.choice.intent \in x.included
  BY DEF Adds
<1>4. n \in Nat /\ A.requests \in Seq(RequestRecord) /\ Answered(A.requests)
  BY <1>1, <1>2 DEF AttemptRecord, Orderly, Honest, Answered
<1>5. /\ Settling(B.requests) /\ Len(B.requests) > 0 /\ LastRequest(B) = x
      /\ \A i \in 1..Len(B.requests) : B.requests[i].outcome # None => B.requests[i].sent
      /\ HasHandoff(B) <=> HasHandoff(A)
      /\ \A m \in Member : Included(B, m) <=> Included(A, m) \/ m \in x.included
      /\ A.summary.succeeded \subseteq A.summary.included
           => B.summary.succeeded \subseteq B.summary.included
  BY <1>1, <1>3, <1>4, SlidEvidence
<1>6. Orderly(B)
  BY <1>2, <1>3, <1>5 DEF Orderly
<1>7. Honest(B)
  <2>1. A.consumed
    BY <1>1, <1>2 DEF Honest
  <2>2. B.charged => B.choice # None /\ Included(B, B.choice.intent)
    <3>1. A.choice # None => A.choice.intent \in Member
      BY <1>1 DEF AttemptRecord, Choice
    <3>2. QED
      BY <1>1, <1>2, <1>3, <1>5, <3>1 DEF Honest
  <2>3. QED
    BY <1>1, <1>2, <1>5, <2>1, <2>2 DEF Honest
<1>8. Identified'
  <2>1. /\ Len(B.requests) = n + 1 - d /\ B.requests[n + 1 - d] = x
        /\ \A j \in 1..(n - d) : B.requests[j] = A.requests[j + d]
        /\ d = 1 => n >= 1
    BY <1>3 DEF Slid
  <2>2. \A j \in 1..Len(B.requests) : j = n + 1 - d \/ (j \in 1..(n - d) /\ j + d \in 1..n)
    BY <1>4, <2>1
  \* The identity of a record of B: the new one, or one of A's that was not folded.
  <2>3. \A j \in 1..Len(B.requests) :
          \/ j = n + 1 - d /\ B.requests[j].id = x.id
          \/ j # n + 1 - d /\ j + d \in 1..n /\ B.requests[j].id = A.requests[j + d].id
    BY <1>4, <2>1, <2>2
  <2>4. \A b \in Attempt : \A i \in 1..Len(attempts[b].requests) :
          attempts[b].requests[i].id # x.id
    BY <1>3 DEF StoredRequests
  <2>5. \A b, c \in Attempt : \A i \in 1..Len(attempts[b].requests) :
          \A j \in 1..Len(attempts[c].requests) :
            attempts[b].requests[i].id = attempts[c].requests[j].id => b = c /\ i = j
    BY DEF IInv, Identified
  <2>6. \A b \in Attempt : \A i \in 1..Len(attempts[b].requests) :
          archive[attempts[b].requests[i].id] = "none"
    BY DEF IInv, Identified
  <2>7. \A i, j \in 1..Len(B.requests) : B.requests[i].id = B.requests[j].id => i = j
    <3> TAKE i, j \in 1..Len(B.requests)
    <3> HAVE B.requests[i].id = B.requests[j].id
    <3>1. CASE i = n + 1 - d \/ j = n + 1 - d
      BY <2>3, <2>4, <3>1
    <3>2. CASE i # n + 1 - d /\ j # n + 1 - d
      <4>1. i + d = j + d
        BY <2>3, <2>5, <3>2
      <4>2. i \in Nat /\ j \in Nat /\ d \in Nat
        BY <1>4, <2>1
      <4>3. QED
        BY <4>1, <4>2
    <3>3. QED
      BY <3>1, <3>2
  <2>8. \A b \in Attempt \ {a} : \A i \in 1..Len(B.requests) :
          \A j \in 1..Len(attempts[b].requests) :
            B.requests[i].id # attempts[b].requests[j].id
    BY <2>3, <2>4, <2>5
  <2>9. \A b, c \in Attempt : \A i \in 1..Len(attempts'[b].requests) :
          \A j \in 1..Len(attempts'[c].requests) :
            attempts'[b].requests[i].id = attempts'[c].requests[j].id => b = c /\ i = j
    <3> TAKE b, c \in Attempt
    <3>1. CASE b = a /\ c = a
      BY <2>7, <3>1
    <3>2. CASE b = a /\ c # a
      BY <1>2, <2>8, <3>2
    <3>3. CASE b # a /\ c = a
      BY <1>2, <2>8, <3>3
    <3>4. CASE b # a /\ c # a
      BY <1>2, <2>5, <3>4
    <3>5. QED
      BY <3>1, <3>2, <3>3, <3>4
  <2>10. \A r \in Request : (d = 0 \/ r # A.requests[1].id) => archive'[r] = archive[r]
    BY <1>3
  <2>11. \A b \in Attempt : \A i \in 1..Len(attempts[b].requests) :
           attempts[b].requests[i].id \in Request
    <3> TAKE b \in Attempt
    <3>1. attempts[b].requests \in Seq(RequestRecord)
      BY DEF IInv, TypeOK, AttemptRecord
    <3>2. \A i \in 1..Len(attempts[b].requests) : attempts[b].requests[i] \in RequestRecord
      BY <3>1, ElementOfSeq
    <3>3. QED
      BY <3>2 DEF RequestRecord
  <2>12. \A i \in 1..Len(B.requests) : archive'[B.requests[i].id] = "none"
    <3> TAKE i \in 1..Len(B.requests)
    <3>1. CASE i = n + 1 - d
      <4>1. B.requests[i].id = x.id /\ x.id \in Request
        BY <2>1, <3>1 DEF RequestRecord
      <4>2. d = 1 => 1 \in 1..n
        BY <1>4, <2>1
      <4>3. d = 0 \/ x.id # A.requests[1].id
        BY <2>4, <4>2
      <4>4. QED
        BY <1>3, <2>10, <4>1, <4>3
    <3>2. CASE i # n + 1 - d
      <4>1. i + d \in 1..n /\ B.requests[i].id = A.requests[i + d].id
        BY <2>3, <3>2
      <4>2. d = 1 => 1 \in 1..n /\ i + d # 1
        BY <1>4, <2>1, <2>2, <3>2
      <4>3. d = 0 \/ A.requests[i + d].id # A.requests[1].id
        BY <2>5, <4>1, <4>2
      <4>4. QED
        BY <2>6, <2>10, <2>11, <4>1, <4>3
    <3>3. QED
      BY <3>1, <3>2
  <2>13. \A b \in Attempt \ {a} : \A i \in 1..Len(attempts[b].requests) :
           archive'[attempts[b].requests[i].id] = "none"
    <3> TAKE b \in Attempt \ {a}
    <3> TAKE i \in 1..Len(attempts[b].requests)
    <3>1. d = 1 => 1 \in 1..n
      BY <1>4, <2>1
    <3>2. d = 0 \/ attempts[b].requests[i].id # A.requests[1].id
      BY <2>5, <3>1
    <3>3. QED
      BY <2>6, <2>10, <2>11, <3>2
  <2>14. \A b \in Attempt : \A i \in 1..Len(attempts'[b].requests) :
           archive'[attempts'[b].requests[i].id] = "none"
    <3> TAKE b \in Attempt
    <3>1. CASE b = a
      BY <2>12, <3>1
    <3>2. CASE b # a
      BY <1>2, <2>13, <3>2
    <3>3. QED
      BY <3>1, <3>2
  <2>15. QED
    BY <2>9, <2>14 DEF Identified
<1>9. ChoiceCurrent'
  <2>1. Live(a)
    BY <1>2 DEF Live, Open
  <2>2. \A b \in Attempt \ {a} : ~Live(b)
    BY <2>1 DEF IInv, SingleReservation
  <2>3. \A b \in Attempt \ {a} : ~Live(b)'
    BY <1>2, <2>2 DEF Live
  <2>4. Live(a)' /\ B.choice # None /\ ~B.charged => B.choice.revision = admission'
    BY <1>2, <1>3, <2>1 DEF IInv, ChoiceCurrent
  <2>5. QED
    BY <2>3, <2>4 DEF ChoiceCurrent
<1>10. PrunedApart'
  <2>1. A.phase # "absent"
    BY <1>2
  <2>2. QED
    BY <1>2, <2>1, StillPruned
<1>11. QED
  BY <1>2, <1>6, <1>7, <1>8, <1>9, <1>10 DEF IInv

\* A request that an attempt in gone held is archived; others stay as they were.
LEMMA ArchiveOfOthers ==
    ASSUME IInv, NEW gone \in SUBSET Attempt, NEW b \in Attempt \ gone,
           NEW i \in 1..Len(attempts[b].requests)
    PROVE  ArchiveOf(gone)[attempts[b].requests[i].id] = "none"
<1> DEFINE r == attempts[b].requests[i].id
<1>1. r \in Request /\ archive[r] = "none"
  <2>1. attempts[b].requests \in Seq(RequestRecord)
    BY DEF IInv, TypeOK, AttemptRecord
  <2>2. attempts[b].requests[i] \in RequestRecord
    BY <2>1, ElementOfSeq
  <2>3. QED
    BY <2>2 DEF RequestRecord, IInv, Identified
<1>2. \A a \in gone : ~Holds(a, r, TRUE) /\ ~Holds(a, r, FALSE)
  BY DEF IInv, Identified, Holds
<1>3. QED
  BY <1>1, <1>2 DEF ArchiveOf

\* Attempts that go take their requests to the archive.
LEMMA GoneIdentified ==
    ASSUME IInv, NEW gone \in SUBSET Attempt, archive' = ArchiveOf(gone),
           \A a \in gone : attempts'[a] = Absent,
           \A a \in Attempt \ gone : attempts'[a] = attempts[a]
    PROVE  Identified'
<1>1. \A a \in gone : Len(attempts'[a].requests) = 0
  BY DEF Absent
<1>2. \A a \in Attempt : \A i \in 1..Len(attempts'[a].requests) :
        a \notin gone /\ i \in 1..Len(attempts[a].requests)
        /\ attempts'[a].requests[i].id = attempts[a].requests[i].id
  <2> TAKE a \in Attempt
  <2>1. CASE a \in gone
    BY <1>1, <2>1
  <2>2. CASE a \notin gone
    BY <2>2
  <2>3. QED
    BY <2>1, <2>2
<1>3. \A a, b \in Attempt : \A i \in 1..Len(attempts'[a].requests) :
        \A j \in 1..Len(attempts'[b].requests) :
          attempts'[a].requests[i].id = attempts'[b].requests[j].id => a = b /\ i = j
  BY <1>2 DEF IInv, Identified
<1>4. \A a \in Attempt : \A i \in 1..Len(attempts'[a].requests) :
        archive'[attempts'[a].requests[i].id] = "none"
  <2> TAKE a \in Attempt
  <2> TAKE i \in 1..Len(attempts'[a].requests)
  <2>1. a \in Attempt \ gone /\ i \in 1..Len(attempts[a].requests)
        /\ attempts'[a].requests[i].id = attempts[a].requests[i].id
    BY <1>2
  <2>2. ArchiveOf(gone)[attempts[a].requests[i].id] = "none"
    BY <2>1, ArchiveOfOthers
  <2>3. QED
    BY <2>1, <2>2
<1>5. QED
  BY <1>3, <1>4 DEF Identified

LEMMA InitIInv == Init => IInv
<1> SUFFICES ASSUME Init PROVE IInv
  OBVIOUS
<1>1. TypeOK /\ SingleReservation
  BY InitInvariant
<1>2. \A a \in Attempt : attempts[a] = Absent
  BY DEF Init
<1>3. Absent.phase = "absent" /\ Len(Absent.requests) = 0
  BY DEF Absent
<1>4. Identified
  BY <1>2, <1>3 DEF Identified
<1>5. ChoiceCurrent /\ PrunedApart
  BY <1>2, <1>3 DEF Init, ChoiceCurrent, PrunedApart, Live, Open, NothingRetired
<1>6. QED
  BY <1>1, <1>2, <1>4, <1>5, AbsentSound DEF IInv

LEMMA SelectInvariant ==
    ASSUME IInv, TypeOK', SingleReservation', NEW a \in Attempt,
           NEW members \in SUBSET Member, NEW choice \in Choices,
           Select(a, members, choice)
    PROVE  IInv'
<1> DEFINE B == attempts'[a]
<1>1. /\ B = [Absent EXCEPT !.phase = "selected", !.owner = generation,
                            !.members = members, !.choice = choice]
      /\ archive' = archive /\ \A b \in Attempt \ {a} : attempts'[b] = attempts[b]
      /\ UNCHANGED <<admission, retired>> /\ attempts[a].phase = "absent"
      /\ a \notin retired.attempts /\ ChoiceFits(members, choice) /\ active = None
  BY BecomesIs DEF IInv, Select
<1>2. /\ B.phase = "selected" /\ B.requests = <<>> /\ B.summary.count = 0 /\ B.history = {}
      /\ B.summary.succeeded = {} /\ ~B.charged /\ B.choice = choice /\ ~B.consumed
  BY <1>1 DEF Absent
<1>3. Len(<<>>) = 0 /\ 1..0 = {} /\ 1..(0 - 1) = {}
  OBVIOUS
<1>4. Orderly(B)
  BY <1>2, <1>3, LedgerAssumption DEF Orderly, Settling, LedgerAssumption
<1>5. Honest(B)
  BY <1>2, <1>3 DEF Honest, OneEntryEach
<1>6. Identified'
  <2>1. attempts[a] = Absent
    BY <1>1 DEF IInv, Honest
  <2>2. Len(attempts[a].requests) = 0
    BY <2>1 DEF Absent
  <2>3. \A b \in Attempt :
          /\ Len(attempts'[b].requests) = Len(attempts[b].requests)
          /\ \A i \in 1..Len(attempts[b].requests) :
               attempts'[b].requests[i].id = attempts[b].requests[i].id
    BY <1>1, <1>2, <1>3, <2>2
  <2>4. QED
    BY <1>1, <2>3, SameIdentities DEF IInv
<1>7. ChoiceCurrent'
  <2>1. \A b \in Attempt \ {a} : ~Live(b)'
    <3>1. None \notin Attempt
      BY LedgerAssumption DEF LedgerAssumption
    <3>2. \A b \in Attempt : ~Live(b)
      BY <1>1, <3>1 DEF IInv, SingleReservation
    <3>3. QED
      BY <1>1, <3>2 DEF Live
  <2>2. QED
    BY <1>1, <1>2, <2>1 DEF ChoiceCurrent, ChoiceFits
<1>8. PrunedApart'
  <2>1. retired.attempts \subseteq Attempt
    BY DEF IInv, TypeOK
  <2>2. QED
    BY <1>1, <2>1 DEF IInv, PrunedApart
<1>9. QED
  BY <1>1, <1>4, <1>5, <1>6, <1>7, <1>8 DEF IInv

\* What an attachment leaves of an attempt: its requests and books.
LEMMA AttachEffect ==
    ASSUME IInv, Attach, NEW a \in Attempt
    PROVE  LET A == attempts[a]
               B == attempts'[a]
           IN  /\ ~Live(a) => B = A
               /\ Live(a) => B = [A EXCEPT !.phase = ClosedPhase(A), !.held = TRUE]
               /\ B.requests = A.requests /\ B.summary = A.summary /\ B.members = A.members
               /\ B.choice = A.choice /\ B.charged = A.charged /\ B.consumed = A.consumed
               /\ B.history = A.history /\ B.outcome = A.outcome
               /\ Live(a) => B.phase = ClosedPhase(A)
<1>1. attempts[a] \in AttemptRecord
  BY DEF IInv, TypeOK
<1>2. CASE ~Live(a)
  <2>1. attempts'[a] = attempts[a]
    BY <1>2 DEF Attach
  <2>2. QED
    BY <1>2, <2>1
<1>3. CASE Live(a)
  <2>1. attempts'[a] = [attempts[a] EXCEPT !.phase = ClosedPhase(attempts[a]), !.held = TRUE]
    BY <1>3 DEF Attach
  <2>2. QED
    BY <1>1, <1>3, <2>1 DEF AttemptRecord
<1>4. QED
  BY <1>2, <1>3

LEMMA AttachInvariant ==
    ASSUME IInv, TypeOK', SingleReservation', Attach
    PROVE  IInv'
<1>1. \A a \in Attempt : Orderly(attempts'[a]) /\ Honest(attempts'[a]) /\ ~Live(a)'
                         /\ (attempts[a].phase = "absent" => attempts'[a].phase = "absent")
  <2> TAKE a \in Attempt
  <2> DEFINE A == attempts[a]
             B == attempts'[a]
  <2>1. Orderly(A) /\ Honest(A)
    BY DEF IInv
  <2>2. CASE ~Live(a)
    BY <2>1, <2>2, AttachEffect DEF Live
  <2>3. CASE Live(a)
    <3>1. /\ B.requests = A.requests /\ B.summary = A.summary /\ B.choice = A.choice
          /\ B.charged = A.charged /\ B.consumed = A.consumed
          /\ B.history = A.history /\ B.phase = ClosedPhase(A)
      BY <2>3, AttachEffect
    <3>2. HasHandoff(B) <=> HasHandoff(A)
      BY <3>1 DEF HasHandoff
    <3>3. B.phase = (IF HasHandoff(A) THEN "uncertain" ELSE "cancelled")
      BY <3>1 DEF ClosedPhase
    <3>4. Orderly(B)
      BY <2>1, <3>1, <3>3 DEF Orderly
    <3>5. A.consumed \/ ~HasHandoff(A)
      <4>1. A.requests \in Seq(RequestRecord)
        BY DEF IInv, TypeOK, AttemptRecord
      <4>2. QED
        BY <2>1, <4>1 DEF Honest, HasHandoff
    <3>6. Honest(B)
      BY <2>1, <3>1, <3>3, <3>5 DEF Honest, Included
    <3>7. QED
      BY <2>3, <3>3, <3>4, <3>6 DEF Live, Open
  <2>4. QED
    BY <2>2, <2>3
<1>2. Identified'
  <2>1. archive' = archive
    BY DEF Attach
  <2>2. QED
    BY <2>1, AttachEffect, SameIdentities DEF IInv
<1>3. ChoiceCurrent'
  BY <1>1 DEF ChoiceCurrent
<1>4. PrunedApart'
  <2>1. retired.attempts \subseteq Attempt /\ retired' = retired
    BY DEF IInv, TypeOK, Attach
  <2>2. QED
    BY <1>1, <2>1 DEF IInv, PrunedApart
<1>5. QED
  BY <1>1, <1>2, <1>3, <1>4 DEF IInv

LEMMA ResetInvariant ==
    ASSUME IInv, TypeOK', SingleReservation', Reset
    PROVE  IInv'
<1>1. \A a \in Attempt : attempts'[a] = Absent
  BY DEF Reset
<1>2. Identified'
  <2>1. archive' = ArchiveOf(Attempt)
    BY DEF Reset
  <2>2. QED
    BY <1>1, <2>1, GoneIdentified
<1>3. ChoiceCurrent' /\ PrunedApart'
  BY <1>1 DEF Reset, ChoiceCurrent, PrunedApart, Live, Absent, Open, NothingRetired
<1>4. QED
  BY <1>1, <1>2, <1>3, AbsentSound DEF IInv

LEMMA RetireInvariant ==
    ASSUME IInv, TypeOK', SingleReservation', NEW protected \in SUBSET Member,
           Retire(protected)
    PROVE  IInv'
<1> DEFINE gone == Retiring(protected)
<1>1. /\ gone \in SUBSET Attempt
      /\ \A a \in gone : attempts'[a] = Absent
      /\ \A a \in Attempt \ gone : attempts'[a] = attempts[a]
      /\ archive' = ArchiveOf(gone) /\ retired'.attempts = retired.attempts \cup gone
      /\ UNCHANGED admission
  BY DEF Retire, Retiring, Stored, FoldRetired
<1> HIDE DEF gone
<1>2. Identified'
  BY <1>1, GoneIdentified
<1>3. ChoiceCurrent'
  <2>1. \A a \in gone : ~Live(a)'
    BY <1>1 DEF Live, Absent, Open
  <2>2. QED
    BY <1>1, <2>1 DEF IInv, ChoiceCurrent, Live
<1>4. PrunedApart'
  <2>1. retired.attempts \subseteq Attempt
    BY DEF IInv, TypeOK
  <2>2. Absent.phase = "absent"
    BY DEF Absent
  <2>3. QED
    BY <1>1, <2>1, <2>2 DEF IInv, PrunedApart
<1>5. QED
  BY <1>1, <1>2, <1>3, <1>4, AbsentSound DEF IInv

LEMMA NextIInv == IInv /\ [Next]_vars => IInv'
<1> SUFFICES ASSUME IInv, [Next]_vars PROVE IInv'
  OBVIOUS
<1>1. TypeOK' /\ SingleReservation'
  BY NextInvariant DEF IInv
<1>2. ASSUME NEW a \in Attempt, Step(a) PROVE IInv'
  BY <1>1, <1>2, StepEffect, SelectInvariant, KeepsInvariant, AddsInvariant,
     SendsInvariant, AnswersInvariant
<1>3. CASE Attach
  BY <1>1, <1>3, AttachInvariant
<1>4. CASE Reset
  BY <1>1, <1>4, ResetInvariant
<1>5. CASE \E protected \in SUBSET Member : Retire(protected)
  BY <1>1, <1>5, RetireInvariant
<1>6. CASE UNCHANGED vars
  BY <1>1, <1>6 DEF vars, IInv, Identified, ChoiceCurrent, PrunedApart, Live
<1>7. QED
  BY <1>2, <1>3, <1>4, <1>5, <1>6 DEF Next

LEMMA InductiveInvariant == Spec => []IInv
<1>1. Init => IInv
  BY InitIInv
<1>2. IInv /\ [Next]_vars => IInv'
  BY NextIInv
<1>3. QED
  BY <1>1, <1>2, PTL DEF Spec

-----------------------------------------------------------------------------
(* What a step does to the evidence *)

LEMMA EvidenceStep ==
    ASSUME IInv, [Next]_vars, NEW a \in Attempt
    PROVE  EvidenceFollows(attempts[a], attempts'[a])
<1> DEFINE A == attempts[a]
           B == attempts'[a]
           n == Len(A.requests)
<1>1. /\ A \in AttemptRecord /\ B \in AttemptRecord
      /\ Orderly(A) /\ Honest(A) /\ Orderly(B) /\ Honest(B) /\ Settling(A.requests)
      /\ HandoffCount(A) \in Nat /\ HandoffCount(B) \in Nat
  BY NextIInv, HandoffCountIs DEF IInv, TypeOK, Orderly
<1>2. ASSUME B.requests = A.requests, B.summary = A.summary,
             ~(A.phase = "prepared" /\ B.phase = "handed-off")
      PROVE  EvidenceFollows(A, B)
  BY <1>1, <1>2 DEF EvidenceFollows, HandoffCount, Delivered
<1>3. CASE UNCHANGED attempts
  BY <1>2, <1>3
<1>4. ASSUME NEW b \in Attempt, Step(b) PROVE EvidenceFollows(A, B)
  <2>1. CASE b # a
    <3>1. B = A
      <4>1. ASSUME NEW members \in SUBSET Member, NEW choice \in Choices,
                   Select(b, members, choice)
            PROVE  B = A
        BY <2>1, <4>1, BecomesIs DEF Select, IInv
      <4>2. Stores(b) => B = A
        BY <2>1 DEF Stores
      <4>3. QED
        BY <1>4, <4>1, <4>2, StepEffect DEF Keeps, Adds, Sends, Answers
    <3>2. QED
      BY <1>2, <3>1
  <2>2. CASE b = a
    <3>1. ASSUME NEW members \in SUBSET Member, NEW choice \in Choices,
                 Select(a, members, choice)
          PROVE  EvidenceFollows(A, B)
      BY <3>1 DEF Select, EvidenceFollows
    <3>2. CASE Keeps(a)
      BY <1>2, <3>2 DEF Keeps, Moves
    <3>3. CASE Adds(a)
      <4>1. PICK x \in RequestRecord, d \in {0, 1} :
              ~x.sent /\ x.outcome = None /\ Slid(A, B, x, d)
        BY <3>3 DEF Adds
      <4>2. Answered(A.requests) /\ A.phase # "prepared"
        <5>1. A.requests \in Seq(RequestRecord)
          BY <1>1 DEF AttemptRecord
        <5>2. QED
          BY <1>1, <3>3, <5>1 DEF Adds, Orderly, Honest, Answered
      <4>3. HandoffCount(B) = HandoffCount(A) /\ Delivered(B) = Delivered(A)
        BY <1>1, <4>1, <4>2, SlidEvidence
      <4>4. QED
        BY <1>1, <4>2, <4>3 DEF EvidenceFollows
    <3>4. CASE Sends(a)
      <4> DEFINE q == [A.requests[n] EXCEPT !.sent = TRUE]
      <4>1. /\ A.phase = "prepared" /\ B.phase = "handed-off" /\ B.summary = A.summary
            /\ B.requests = [A.requests EXCEPT ![n] = q]
        BY <3>4 DEF Sends
      <4>2. n \in Nat /\ n > 0 /\ ~LastRequest(A).sent /\ A.requests[n] \in RequestRecord
        BY <1>1, <4>1 DEF AttemptRecord, Orderly
      <4>3. A.requests[n].outcome = None
        BY <1>1, <4>2 DEF Orderly, LastRequest
      <4>4. q.sent = TRUE /\ q.outcome = None /\ q \in RequestRecord
        BY <4>2, <4>3 DEF RequestRecord
      <4> HIDE DEF q
      <4>5. /\ Len(B.requests) = n /\ LastRequest(B) = q /\ B.requests[n] = q
            /\ \A i \in 1..(n - 1) : B.requests[i] = A.requests[i]
        <5>1. Len(A.requests) > 0 /\ B.requests = [A.requests EXCEPT ![Len(A.requests)] = q]
          BY <4>1, <4>2
        <5> HIDE DEF n
        <5>2. QED
          BY <1>1, <4>4, <5>1, LastChanged DEF n
      <4>6. HandoffCount(B) = HandoffCount(A) + 1
        <5>1. HandoffCount(A) = A.summary.count + (n - 1)
          BY <1>1, <4>2, HandoffCountIs
        <5>2. HandoffCount(B) = A.summary.count + n
          <6>1. Settling(B.requests) /\ LastRequest(B).sent
            BY <1>1, <4>4, <4>5 DEF Orderly
          <6>2. QED
            BY <1>1, <4>1, <4>5, <6>1, HandoffCountIs
        <5>3. A.summary.count \in Nat
          BY <1>1 DEF AttemptRecord, Summary
        <5>4. QED
          BY <4>2, <5>1, <5>2, <5>3
      <4>7. Delivered(B) = Delivered(A)
        <5> DEFINE Success(s) == {i \in 1..Len(s) : s[i].sent /\ s[i].outcome = "success"}
        <5>1. "success" # None /\ \A i \in 1..n : i = n \/ i \in 1..(n - 1)
          BY <4>2, LedgerAssumption DEF LedgerAssumption
        <5>2. \A i \in Success(B.requests) : i \in Success(A.requests) /\ B.requests[i] = A.requests[i]
          BY <4>4, <4>5, <5>1
        <5>3. \A i \in Success(A.requests) : i \in Success(B.requests) /\ B.requests[i] = A.requests[i]
          BY <4>3, <4>5, <5>1
        <5>4. /\ Delivered(A) = A.summary.succeeded \cup UNION {A.requests[i].included : i \in Success(A.requests)}
              /\ Delivered(B) = B.summary.succeeded \cup UNION {B.requests[i].included : i \in Success(B.requests)}
          BY DEF Delivered
        <5> HIDE DEF Success
        <5>5. QED
          BY <4>1, <5>2, <5>3, <5>4
      <4>8. QED
        BY <4>1, <4>6, <4>7 DEF EvidenceFollows
    <3>5. ASSUME NEW o \in Outcome, Answers(a, o) PROVE EvidenceFollows(A, B)
      <4> DEFINE q == [A.requests[n] EXCEPT !.outcome = o]
      <4>1. /\ A.phase = "handed-off" /\ B.phase = "running" /\ B.summary = A.summary
            /\ B.requests = [A.requests EXCEPT ![n] = q]
        BY <3>5 DEF Answers
      <4>2. /\ n \in Nat /\ n > 0 /\ A.requests[n].sent /\ A.requests[n].outcome = None
            /\ A.requests[n] \in RequestRecord
        BY <1>1, <4>1 DEF AttemptRecord, Orderly, LastRequest
      <4>3. q.sent /\ q.outcome = o /\ q.included = A.requests[n].included /\ q \in RequestRecord
        BY <4>2 DEF RequestRecord
      <4> HIDE DEF q
      <4>4. /\ Len(B.requests) = n /\ LastRequest(B) = q /\ B.requests[n] = q
            /\ \A i \in 1..(n - 1) : B.requests[i] = A.requests[i]
        <5>1. Len(A.requests) > 0 /\ B.requests = [A.requests EXCEPT ![Len(A.requests)] = q]
          BY <4>1, <4>2
        <5> HIDE DEF n
        <5>2. QED
          BY <1>1, <4>3, <5>1, LastChanged DEF n
      <4>5. HandoffCount(B) = HandoffCount(A)
        <5>1. HandoffCount(A) = A.summary.count + n
          <6>1. LastRequest(A).sent
            BY <4>2 DEF LastRequest
          <6>2. QED
            BY <1>1, <6>1, HandoffCountIs
        <5>2. HandoffCount(B) = A.summary.count + n
          <6>1. Settling(B.requests) /\ LastRequest(B).sent
            BY <1>1, <4>3, <4>4 DEF Orderly
          <6>2. QED
            BY <1>1, <4>1, <4>4, <6>1, HandoffCountIs
        <5>3. QED
          BY <5>1, <5>2
      <4>6. Delivered(B) = Delivered(A) \/ Delivered(B) = Delivered(A) \cup LastRequest(A).included
        <5> DEFINE Success(s) == {i \in 1..Len(s) : s[i].sent /\ s[i].outcome = "success"}
        <5>1. "success" # None /\ \A i \in 1..n : i = n \/ i \in 1..(n - 1)
          BY <4>2, LedgerAssumption DEF LedgerAssumption
        <5>2. \A i \in Success(B.requests) :
                \/ i \in Success(A.requests) /\ B.requests[i] = A.requests[i]
                \/ i = n /\ o = "success"
          BY <4>3, <4>4, <5>1
        <5>3. \A i \in Success(A.requests) : i \in Success(B.requests) /\ B.requests[i] = A.requests[i]
          BY <4>2, <4>4, <5>1
        <5>4. o = "success" => n \in Success(B.requests)
          BY <4>2, <4>3, <4>4
        <5>5. /\ Delivered(A) = A.summary.succeeded \cup UNION {A.requests[i].included : i \in Success(A.requests)}
              /\ Delivered(B) = B.summary.succeeded \cup UNION {B.requests[i].included : i \in Success(B.requests)}
          BY DEF Delivered
        <5>6. B.requests[n].included = LastRequest(A).included
          BY <4>3, <4>4 DEF LastRequest
        <5> HIDE DEF Success
        <5>7. CASE o = "success"
          <6>1. Delivered(B) = Delivered(A) \cup LastRequest(A).included
            BY <4>1, <5>2, <5>3, <5>4, <5>5, <5>6, <5>7
          <6>2. QED
            BY <6>1
        <5>8. CASE o # "success"
          <6>1. Delivered(B) = Delivered(A)
            BY <4>1, <5>2, <5>3, <5>5, <5>8
          <6>2. QED
            BY <6>1
        <5>9. QED
          BY <5>7, <5>8
      <4>7. QED
        BY <1>1, <4>1, <4>5, <4>6 DEF EvidenceFollows
    <3>6. QED
      BY <1>4, <2>2, <3>1, <3>2, <3>3, <3>4, <3>5, StepEffect
  <2>3. QED
    BY <2>1, <2>2
<1>5. CASE Attach
  <2>1. \/ B.requests = A.requests /\ B.summary = A.summary /\ B.phase # "handed-off"
        \/ B = A
    BY <1>5, AttachEffect DEF ClosedPhase
  <2>2. QED
    BY <1>2, <2>1
<1>6. CASE Reset
  BY <1>6 DEF Reset, Absent, EvidenceFollows
<1>7. CASE \E protected \in SUBSET Member : Retire(protected)
  <2>1. B = Absent \/ B = A
    BY <1>7 DEF Retire
  <2>2. CASE B = Absent
    BY <2>2 DEF EvidenceFollows, Absent
  <2>3. QED
    BY <1>2, <2>1, <2>2
<1>8. QED
  BY <1>3, <1>4, <1>5, <1>6, <1>7 DEF Next, vars

-----------------------------------------------------------------------------
(* What was sent stays sent *)

\* A request that stays with its attempt, or goes to the archive as sent, is
\* still known to have been sent.
LEMMA EverSentStays ==
    ASSUME \A r \in Request : archive[r] = "sent" => archive'[r] = "sent",
           \A a \in Attempt : \A i \in 1..Len(attempts[a].requests) :
             attempts[a].requests[i].sent =>
               \/ archive'[attempts[a].requests[i].id] = "sent"
               \/ \E j \in 1..Len(attempts'[a].requests) :
                    /\ attempts'[a].requests[j].id = attempts[a].requests[i].id
                    /\ attempts'[a].requests[j].sent = TRUE,
           \A a \in Attempt : attempts[a].requests \in Seq(RequestRecord)
    PROVE  \A r \in Request : EverSent(r) => EverSent(r)'
<1> SUFFICES ASSUME NEW r \in Request, EverSent(r) PROVE EverSent(r)'
  OBVIOUS
<1>1. CASE archive[r] = "sent"
  BY <1>1 DEF EverSent
<1>2. CASE \E a \in Attempt : Holds(a, r, TRUE)
  <2>1. PICK a \in Attempt : Holds(a, r, TRUE)
    BY <1>2
  <2>2. PICK i \in 1..Len(attempts[a].requests) :
          attempts[a].requests[i].id = r /\ attempts[a].requests[i].sent = TRUE
    BY <2>1 DEF Holds
  <2>3. QED
    BY <2>2 DEF EverSent, Holds
<1>3. QED
  BY <1>1, <1>2 DEF EverSent

LEMMA EverSentStep ==
    ASSUME IInv, [Next]_vars
    PROVE  \A r \in Request : EverSent(r) => EverSent(r)'
<1>1. \A a \in Attempt : attempts[a] \in AttemptRecord /\ attempts[a].requests \in Seq(RequestRecord)
  BY DEF IInv, TypeOK, AttemptRecord
<1>2. \A a \in Attempt : \A i \in 1..Len(attempts[a].requests) :
        attempts[a].requests[i] \in RequestRecord /\ attempts[a].requests[i].id \in Request
        /\ attempts[a].requests[i].sent \in BOOLEAN
  <2> TAKE a \in Attempt
  <2>1. \A i \in 1..Len(attempts[a].requests) : attempts[a].requests[i] \in RequestRecord
    BY <1>1, ElementOfSeq
  <2>2. QED
    BY <2>1 DEF RequestRecord
<1>3. CASE UNCHANGED vars
  BY <1>3 DEF vars, EverSent, Holds
<1>4. ASSUME NEW a \in Attempt, Step(a)
      PROVE  \A r \in Request : EverSent(r) => EverSent(r)'
  <2> DEFINE A == attempts[a]
             B == attempts'[a]
             n == Len(A.requests)
  <2>1. A \in AttemptRecord /\ B \in AttemptRecord /\ Orderly(A) /\ Honest(A)
    BY <1>4, StepInvariant DEF IInv, TypeOK
  <2>2. ASSUME NEW members \in SUBSET Member, NEW choice \in Choices, Select(a, members, choice)
        PROVE  \A r \in Request : EverSent(r) => EverSent(r)'
    <3>1. archive' = archive /\ \A b \in Attempt \ {a} : attempts'[b] = attempts[b]
      BY <2>2, BecomesIs DEF Select, IInv
    <3>2. n = 0
      BY <2>1, <2>2 DEF Select, Honest, Absent
    <3>3. \A b \in Attempt : \A i \in 1..Len(attempts[b].requests) :
            b # a /\ attempts'[b] = attempts[b]
      <4>1. 1..0 = {}
        OBVIOUS
      <4>2. QED
        BY <3>1, <3>2, <4>1
    <3>4. QED
      BY <1>1, <1>2, <3>1, <3>3, EverSentStays
  <2>3. ASSUME archive' = archive, \A b \in Attempt \ {a} : attempts'[b] = attempts[b],
               Len(B.requests) = n,
               \A i \in 1..n : /\ B.requests[i].id = A.requests[i].id
                               /\ A.requests[i].sent = TRUE => B.requests[i].sent = TRUE
        PROVE  \A r \in Request : EverSent(r) => EverSent(r)'
    BY <1>1, <1>2, <2>3, EverSentStays
  <2>4. CASE Keeps(a)
    BY <2>3, <2>4 DEF Keeps, Stores
  <2>5. CASE Sends(a)
    <3> DEFINE q == [A.requests[n] EXCEPT !.sent = TRUE]
    <3>1. /\ A.phase = "prepared" /\ B.requests = [A.requests EXCEPT ![n] = q]
          /\ archive' = archive /\ \A b \in Attempt \ {a} : attempts'[b] = attempts[b]
      BY <2>5 DEF Sends, Stores
    <3>2. n \in Nat /\ n > 0 /\ A.requests[n] \in RequestRecord
      BY <1>1, <1>2, <2>1, <3>1 DEF Orderly
    <3>3. q \in RequestRecord /\ q.id = A.requests[n].id /\ q.sent = TRUE
      BY <3>2 DEF RequestRecord
    <3> HIDE DEF q
    <3>4. /\ Len(B.requests) = n /\ B.requests[n] = q
          /\ \A i \in 1..(n - 1) : B.requests[i] = A.requests[i]
      <4>1. Len(A.requests) > 0 /\ B.requests = [A.requests EXCEPT ![Len(A.requests)] = q]
        BY <3>1, <3>2
      <4> HIDE DEF n
      <4>2. QED
        BY <2>1, <3>3, <4>1, LastChanged DEF n
    <3>5. \A i \in 1..n : i = n \/ i \in 1..(n - 1)
      BY <3>2
    <3>6. QED
      BY <2>3, <3>1, <3>3, <3>4, <3>5
  <2>6. ASSUME NEW o \in Outcome, Answers(a, o)
        PROVE  \A r \in Request : EverSent(r) => EverSent(r)'
    <3> DEFINE q == [A.requests[n] EXCEPT !.outcome = o]
    <3>1. /\ A.phase = "handed-off" /\ B.requests = [A.requests EXCEPT ![n] = q]
          /\ archive' = archive /\ \A b \in Attempt \ {a} : attempts'[b] = attempts[b]
      BY <2>6 DEF Answers, Stores
    <3>2. n \in Nat /\ n > 0 /\ A.requests[n] \in RequestRecord
      BY <1>1, <1>2, <2>1, <3>1 DEF Orderly
    <3>3. q \in RequestRecord /\ q.id = A.requests[n].id /\ q.sent = A.requests[n].sent
      BY <3>2 DEF RequestRecord
    <3> HIDE DEF q
    <3>4. /\ Len(B.requests) = n /\ B.requests[n] = q
          /\ \A i \in 1..(n - 1) : B.requests[i] = A.requests[i]
      <4>1. Len(A.requests) > 0 /\ B.requests = [A.requests EXCEPT ![Len(A.requests)] = q]
        BY <3>1, <3>2
      <4> HIDE DEF n
      <4>2. QED
        BY <2>1, <3>3, <4>1, LastChanged DEF n
    <3>5. \A i \in 1..n : i = n \/ i \in 1..(n - 1)
      BY <3>2
    <3>6. QED
      BY <2>3, <3>1, <3>3, <3>4, <3>5
  <2>7. CASE Adds(a)
    <3>1. PICK x \in RequestRecord, d \in {0, 1} :
            /\ Slid(A, B, x, d)
            /\ archive' = IF d = 0 THEN archive
                          ELSE [r \in Request |-> IF r = A.requests[1].id
                                                  THEN "sent" ELSE archive[r]]
      BY <2>7 DEF Adds
    <3>2. /\ Len(B.requests) = n + 1 - d /\ n \in Nat
          /\ \A j \in 1..(n - d) : B.requests[j] = A.requests[j + d]
          /\ \A b \in Attempt \ {a} : attempts'[b] = attempts[b]
      BY <1>1, <2>7, <3>1 DEF Slid, Adds, Stores
    <3>3. \A r \in Request : archive[r] = "sent" => archive'[r] = "sent"
      BY <3>1
    <3>4. \A i \in 1..n : A.requests[i].sent =>
            \/ archive'[A.requests[i].id] = "sent"
            \/ \E j \in 1..Len(B.requests) :
                 B.requests[j].id = A.requests[i].id /\ B.requests[j].sent = TRUE
      <4> TAKE i \in 1..n
      <4> HAVE A.requests[i].sent
      <4>1. CASE d = 1 /\ i = 1
        BY <1>2, <3>1, <4>1
      <4>2. CASE ~(d = 1 /\ i = 1)
        <5>1. /\ i - d \in 1..Len(B.requests) /\ B.requests[i - d] = A.requests[i]
              /\ A.requests[i].sent = TRUE
          BY <1>2, <3>2, <4>2
        <5>2. QED
          BY <5>1
      <4>3. QED
        BY <4>1, <4>2
    <3>5. \A b \in Attempt : \A i \in 1..Len(attempts[b].requests) :
            attempts[b].requests[i].sent =>
               \/ archive'[attempts[b].requests[i].id] = "sent"
               \/ \E j \in 1..Len(attempts'[b].requests) :
                    /\ attempts'[b].requests[j].id = attempts[b].requests[i].id
                    /\ attempts'[b].requests[j].sent = TRUE
      <4> TAKE b \in Attempt
      <4>1. CASE b = a
        BY <3>4, <4>1
      <4>2. CASE b # a
        BY <1>2, <3>2, <4>2
      <4>3. QED
        BY <4>1, <4>2
    <3>6. QED
      BY <1>1, <3>3, <3>5, EverSentStays
  <2>8. QED
    BY <1>4, <2>2, <2>4, <2>5, <2>6, <2>7, StepEffect
<1>5. CASE Attach
  <2>1. archive' = archive /\ \A a \in Attempt : attempts'[a].requests = attempts[a].requests
    BY <1>5, AttachEffect DEF Attach
  <2>2. QED
    BY <2>1 DEF EverSent, Holds
<1>6. ASSUME NEW gone \in SUBSET Attempt, archive' = ArchiveOf(gone),
             \A a \in Attempt \ gone : attempts'[a] = attempts[a]
      PROVE  \A r \in Request : EverSent(r) => EverSent(r)'
  <2>1. ASSUME NEW r \in Request, archive[r] = "sent" PROVE archive'[r] = "sent"
    <3>1. \A a \in Attempt : ~Holds(a, r, FALSE)
      BY <2>1 DEF IInv, Identified, Holds
    <3>2. QED
      BY <1>6, <2>1, <3>1 DEF ArchiveOf
  <2>2. ASSUME NEW a \in gone, NEW i \in 1..Len(attempts[a].requests), attempts[a].requests[i].sent
        PROVE  archive'[attempts[a].requests[i].id] = "sent"
    <3>1. Holds(a, attempts[a].requests[i].id, TRUE) /\ attempts[a].requests[i].id \in Request
      BY <1>2, <2>2 DEF Holds
    <3>2. QED
      BY <1>6, <3>1 DEF ArchiveOf
  <2>3. \A b \in Attempt : \A i \in 1..Len(attempts[b].requests) :
            attempts[b].requests[i].sent =>
               \/ archive'[attempts[b].requests[i].id] = "sent"
               \/ \E j \in 1..Len(attempts'[b].requests) :
                    /\ attempts'[b].requests[j].id = attempts[b].requests[i].id
                    /\ attempts'[b].requests[j].sent = TRUE
    <3> TAKE b \in Attempt
    <3>1. CASE b \in gone
      BY <2>2, <3>1
    <3>2. CASE b \notin gone
      BY <1>2, <1>6, <3>2
    <3>3. QED
      BY <3>1, <3>2
  <2>4. QED
    BY <1>1, <2>1, <2>3, EverSentStays
<1>7. CASE Reset
  BY <1>6, <1>7 DEF Reset
<1>8. ASSUME NEW protected \in SUBSET Member, Retire(protected)
      PROVE  \A r \in Request : EverSent(r) => EverSent(r)'
  <2>1. Retiring(protected) \in SUBSET Attempt
    BY DEF Retiring, Stored
  <2>2. QED
    BY <1>6, <1>8, <2>1 DEF Retire
<1>9. QED
  BY <1>3, <1>4, <1>5, <1>7, <1>8 DEF Next

\* A request that is prepared was never sent.
LEMMA SentOnceStep == ASSUME IInv, NEW a \in Attempt PROVE SentOnce(a)
<1> DEFINE A == attempts[a]
           n == Len(A.requests)
<1> SUFFICES ASSUME A.phase = "prepared" PROVE ~EverSent(LastRequest(A).id)
  BY DEF SentOnce
<1>1. n \in 1..n /\ ~A.requests[n].sent
  <2>1. A.requests \in Seq(RequestRecord) /\ Orderly(A)
    BY DEF IInv, TypeOK, AttemptRecord
  <2>2. QED
    BY <2>1 DEF Orderly, LastRequest
<1>2. archive[A.requests[n].id] = "none"
  BY <1>1 DEF IInv, Identified
<1>3. \A b \in Attempt : ~Holds(b, A.requests[n].id, TRUE)
  BY <1>1 DEF IInv, Identified, Holds
<1>4. QED
  BY <1>2, <1>3 DEF EverSent, LastRequest

LEMMA EndsAsSentStep == ASSUME IInv, [Next]_vars, NEW a \in Attempt PROVE EndsAsSent(a)
<1> DEFINE A == attempts[a]
           B == attempts'[a]
<1>1. /\ A \in AttemptRecord /\ Orderly(A) /\ Honest(A)
      /\ HandoffCount(A) > 0 <=> HasHandoff(A)
  BY HandoffCountIs DEF IInv, TypeOK, Orderly
<1> SUFFICES ASSUME HandoffCount(A) > 0, HasHandoff(A)
             PROVE  /\ B.phase \in {"cancelled", "withheld"} => A.phase \in {"uncertain", "cancelled"}
                    /\ B.phase = "absent" => retired' = NothingRetired \/ ~Unanswered(A)
  BY <1>1 DEF EndsAsSent
<1>2. A.phase \notin {"withheld", "absent"}
  <2>1. ~HasHandoff(Absent)
    BY DEF HasHandoff, Absent
  <2>2. QED
    BY <1>1, <2>1 DEF Honest
<1>3. CASE B = A
  BY <1>2, <1>3
<1>4. ASSUME NEW b \in Attempt, Step(b)
      PROVE  /\ B.phase \in {"cancelled", "withheld"} => A.phase \in {"uncertain", "cancelled"}
             /\ B.phase # "absent"
  <2>1. ASSUME NEW members \in SUBSET Member, NEW choice \in Choices, Select(b, members, choice)
        PROVE  B = A
    <3>1. a # b
      BY <1>2, <2>1 DEF Select
    <3>2. QED
      BY <2>1, <3>1, BecomesIs DEF Select, IInv
  <2>2. CASE b # a /\ Stores(b)
    BY <1>2, <2>2 DEF Stores
  <2>3. CASE Keeps(a)
    BY <1>2, <2>3 DEF Keeps, Moves, Stores
  <2>4. CASE Adds(a)
    BY <2>4 DEF Adds
  <2>5. CASE Sends(a)
    BY <2>5 DEF Sends
  <2>6. ASSUME NEW o \in Outcome, Answers(a, o)
        PROVE  B.phase = "running"
    BY <2>6 DEF Answers
  <2>7. (Keeps(b) \/ Adds(b) \/ Sends(b) \/ \E o \in Outcome : Answers(b, o)) => Stores(b)
    BY DEF Keeps, Adds, Sends, Answers
  <2>8. QED
    BY <1>2, <1>4, <2>1, <2>2, <2>3, <2>4, <2>5, <2>6, <2>7, StepEffect
<1>5. CASE Attach
  <2>1. B = A \/ B.phase = "uncertain"
    BY <1>5, AttachEffect DEF ClosedPhase
  <2>2. QED
    BY <1>3, <2>1
<1>6. CASE Reset
  BY <1>6 DEF Reset, Absent
<1>7. ASSUME NEW protected \in SUBSET Member, Retire(protected)
      PROVE  B = A \/ (B.phase = "absent" /\ ~Unanswered(A))
  BY <1>7 DEF Retire, Retiring, Retirable, Absent
<1>8. QED
  BY <1>3, <1>4, <1>5, <1>6, <1>7 DEF Next, vars

-----------------------------------------------------------------------------
(* What was spent stays fenced *)

\* An attempt that consumed its members fences them.
LEMMA ConsumedFences ==
    ASSUME NEW A, NEW m, A.consumed, A.phase # "absent", m \in A.members
    PROVE  Fences(A) /\ FencedBy(A, m)
BY DEF Fences, FencedBy

\* A transaction that keeps, or adds to, the stored attempts keeps what they fence.
LEMMA SpentStays ==
    ASSUME NEW m \in Member, retired' = retired, Spent(m),
           \A a \in Attempt : attempts[a].phase # "absent" /\ attempts[a].consumed =>
             /\ attempts'[a].phase # "absent" /\ attempts'[a].consumed
             /\ attempts'[a].members = attempts[a].members
    PROVE  Fenced(m)'
<1>1. CASE m \in retired.members
  BY <1>1 DEF Fenced
<1>2. CASE \E a \in Stored : attempts[a].consumed /\ m \in attempts[a].members
  <2>1. PICK a \in Stored : attempts[a].consumed /\ m \in attempts[a].members
    BY <1>2
  <2>2. a \in Attempt /\ attempts'[a].phase # "absent" /\ attempts'[a].consumed
        /\ m \in attempts'[a].members
    BY <2>1 DEF Stored
  <2>3. FencedBy(attempts'[a], m)
    BY <2>2, ConsumedFences
  <2>4. QED
    BY <2>2, <2>3 DEF Fenced
<1>3. QED
  BY <1>1, <1>2 DEF Spent

\* What the pruned attempts fenced is carried forward, and nothing else.
LEMMA RetireFences ==
    ASSUME IInv, NEW m \in Member, NEW gone \in SUBSET Attempt,
           attempts' = [a \in Attempt |-> IF a \in gone THEN Absent ELSE attempts[a]],
           retired' = FoldRetired(gone)
    PROVE  Fenced(m)' <=> Fenced(m)
<1>1. /\ retired'.members = retired.members \cup FoldedMembers(gone)
      /\ retired'.work = retired.work \cup FoldedWork(gone)
  BY DEF FoldRetired
<1>2. /\ \A a \in gone : ~FencedBy(attempts'[a], m)
      /\ \A a \in Attempt \ gone : attempts'[a] = attempts[a]
  BY DEF Absent, FencedBy, Fences
<1>3. (m \in FoldedMembers(gone) \/ (WorkOf[m] # None /\ WorkOf[m] \in FoldedWork(gone)))
        <=> \E a \in gone : FencedBy(attempts[a], m)
  <2>1. m \in FoldedMembers(gone) <=>
          \E a \in gone : Fences(attempts[a]) /\ m \in attempts[a].members
    BY DEF FoldedMembers
  <2>2. WorkOf[m] # None =>
          (WorkOf[m] \in FoldedWork(gone) <=>
             \E a \in gone : Fences(attempts[a]) /\ SelectedWork(attempts[a]) = WorkOf[m])
    BY DEF FoldedWork
  <2>3. QED
    BY <2>1, <2>2 DEF FencedBy
<1>4. Fenced(m)' <=>
        \/ m \in retired.members \/ (WorkOf[m] # None /\ WorkOf[m] \in retired.work)
        \/ m \in FoldedMembers(gone) \/ (WorkOf[m] # None /\ WorkOf[m] \in FoldedWork(gone))
        \/ \E a \in Attempt \ gone : FencedBy(attempts[a], m)
  BY <1>1, <1>2 DEF Fenced
<1>5. QED
  BY <1>3, <1>4 DEF Fenced

\* The turns won by the pruned attempts are counted on.
LEMMA RetireCounts ==
    ASSUME IInv, NEW m \in Member, NEW gone \in SUBSET Stored,
           attempts' = [a \in Attempt |-> IF a \in gone THEN Absent ELSE attempts[a]],
           retired' = FoldRetired(gone)
    PROVE  Iterations(m)' = Iterations(m)
<1> DEFINE W == {a \in Attempt : Won(a, m)}
           G == {a \in gone : Won(a, m)}
<1>1. W \subseteq Stored
  <2>1. \A a \in Attempt : attempts[a].phase = "absent" => attempts[a] = Absent
    BY DEF IInv, Honest
  <2>2. QED
    BY <2>1 DEF Won, Stored, Absent
<1>2. IsFiniteSet(W) /\ IsFiniteSet(G) /\ IsFiniteSet(W \ G)
  <2>1. IsFiniteSet(Stored) /\ G \subseteq Stored /\ W \ G \subseteq Stored
    BY <1>1 DEF IInv, TypeOK
  <2>2. QED
    BY <1>1, <2>1, FS_Subset
<1>3. W = G \cup (W \ G) /\ G \cap (W \ G) = {}
  BY DEF Stored
<1>4. Cardinality(W) = Cardinality(G) + Cardinality(W \ G)
  <2>1. Cardinality(G \cup (W \ G)) =
          Cardinality(G) + Cardinality(W \ G) - Cardinality(G \cap (W \ G))
    BY <1>2, FS_Union
  <2>2. Cardinality(G) \in Nat /\ Cardinality(W \ G) \in Nat /\ Cardinality({}) = 0
    BY <1>2, FS_CardinalityType, FS_EmptySet
  <2> HIDE DEF W, G
  <2>3. Cardinality(G \cup (W \ G)) = Cardinality(W) /\ Cardinality(G \cap (W \ G)) = 0
    BY <1>3, <2>2, Zenon
  <2> DEFINE w == Cardinality(W) g == Cardinality(G) h == Cardinality(W \ G)
  <2>4. w = g + h - 0 /\ g \in Nat /\ h \in Nat
    BY <2>1, <2>2, <2>3
  <2> HIDE DEF w, g, h
  <2>5. w = g + h
    BY <2>4
  <2>6. QED
    BY <2>5 DEF w, g, h
<1>5. {a \in Attempt : Won(a, m)'} = W \ G
  <2>1. \A a \in gone : ~Won(a, m)'
    <3>1. \A a \in gone : attempts'[a] = Absent
      BY DEF Stored
    <3>2. Absent.phase # "settled"
      BY DEF Absent
    <3>3. QED
      BY <3>1, <3>2 DEF Won
  <2>2. \A a \in Attempt \ gone : Won(a, m)' <=> Won(a, m)
    BY DEF Won
  <2>3. QED
    BY <2>1, <2>2 DEF Stored
<1>6. retired'.settled[m] = retired.settled[m] + Cardinality(G)
  BY DEF FoldRetired
<1>7. retired.settled[m] \in Nat /\ Cardinality(G) \in Nat /\ Cardinality(W \ G) \in Nat
  BY <1>2, FS_CardinalityType DEF IInv, TypeOK
<1>8. Iterations(m)' = retired'.settled[m] + Cardinality(W \ G)
  BY <1>5 DEF Iterations
<1>9. Iterations(m) = retired.settled[m] + Cardinality(W)
  BY DEF Iterations
<1> HIDE DEF W, G
<1>10. QED
  BY <1>4, <1>6, <1>7, <1>8, <1>9

LEMMA FencesStep ==
    ASSUME IInv, [Next]_vars
    PROVE  Wiped \/ \A m \in Member : (Spent(m) => Fenced(m)') /\ PrunedUnseen(m)
<1>1. ASSUME retired' = retired,
             \A a \in Attempt : attempts[a].phase # "absent" /\ attempts[a].consumed =>
               /\ attempts'[a].phase # "absent" /\ attempts'[a].consumed
               /\ attempts'[a].members = attempts[a].members
      PROVE  \A m \in Member : (Spent(m) => Fenced(m)') /\ PrunedUnseen(m)
  BY <1>1, SpentStays DEF PrunedUnseen
<1>2. CASE UNCHANGED vars
  BY <1>1, <1>2 DEF vars
<1>3. ASSUME NEW a \in Attempt, Step(a)
      PROVE  \A m \in Member : (Spent(m) => Fenced(m)') /\ PrunedUnseen(m)
  <2>1. CASE Stores(a)
    BY <1>1, <2>1 DEF Stores
  <2>2. ASSUME NEW members \in SUBSET Member, NEW choice \in Choices, Select(a, members, choice)
        PROVE  \A m \in Member : (Spent(m) => Fenced(m)') /\ PrunedUnseen(m)
    <3>1. /\ retired' = retired /\ attempts[a].phase = "absent"
          /\ \A b \in Attempt \ {a} : attempts'[b] = attempts[b]
      BY <2>2, BecomesIs DEF Select, IInv
    <3>2. QED
      BY <1>1, <3>1
  <2>3. QED
    BY <1>3, <2>1, <2>2, StepEffect DEF Keeps, Adds, Sends, Answers
<1>4. CASE Attach
  <2>1. \A a \in Attempt : attempts[a].phase # "absent" /\ attempts[a].consumed =>
          /\ attempts'[a].phase # "absent" /\ attempts'[a].consumed
          /\ attempts'[a].members = attempts[a].members
    <3> TAKE a \in Attempt
    <3>1. attempts'[a].consumed = attempts[a].consumed /\ attempts'[a].members = attempts[a].members
      BY <1>4, AttachEffect
    <3>2. attempts[a].phase # "absent" => attempts'[a].phase # "absent"
      BY <1>4, AttachEffect DEF ClosedPhase
    <3>3. QED
      BY <3>1, <3>2
  <2>2. QED
    BY <1>1, <1>4, <2>1 DEF Attach
<1>5. CASE Reset
  <2>1. Stored' = {}
    BY <1>5 DEF Reset, Stored, Absent
  <2>2. QED
    BY <1>5, <2>1 DEF Reset, Wiped
<1>6. ASSUME NEW protected \in SUBSET Member, Retire(protected), NEW m \in Member
      PROVE  (Spent(m) => Fenced(m)') /\ PrunedUnseen(m)
  <2> DEFINE gone == Retiring(protected)
  <2>1. gone \in SUBSET Stored /\ gone \in SUBSET Attempt
    BY DEF Retiring, Stored
  <2>2. /\ attempts' = [a \in Attempt |-> IF a \in gone THEN Absent ELSE attempts[a]]
        /\ retired' = FoldRetired(gone)
    BY <1>6 DEF Retire
  <2> HIDE DEF gone
  <2>3. Fenced(m)' <=> Fenced(m)
    BY <2>1, <2>2, RetireFences
  <2>4. Iterations(m)' = Iterations(m)
    BY <2>1, <2>2, RetireCounts
  <2>5. Spent(m) => Fenced(m)
    BY ConsumedFences DEF Spent, Fenced, Stored
  <2>6. QED
    BY <2>3, <2>4, <2>5 DEF PrunedUnseen, Fenced
<1>7. QED
  BY <1>2, <1>3, <1>4, <1>5, <1>6 DEF Next

-----------------------------------------------------------------------------
(* The ledger keeps its promise: each step is one of Reservation, or none *)

\* Of a stored attempt, the phase and the handoffs decide the fate.
LEMMA FateStored ==
    ASSUME IInv, NEW a \in Attempt, attempts[a].phase # "absent"
    PROVE  /\ a \notin retired.attempts
           /\ attempts[a].phase \in Open =>
                Fate(a) = IF HasHandoff(attempts[a]) THEN "sent" ELSE "held"
           /\ attempts[a].phase = "uncertain" => Fate(a) = "unknown"
           /\ attempts[a].phase = "settled" => Fate(a) = "done"
           /\ attempts[a].phase \in {"cancelled", "withheld"} => Fate(a) = "dropped"
<1>1. a \notin retired.attempts
  BY DEF IInv, PrunedApart
<1>2. QED
  BY <1>1 DEF Fate, Open

\* A step that changes the fate of one attempt only.
LEMMA FateMoved ==
    ASSUME NEW a \in Attempt, \A b \in Attempt \ {a} : Fate(b)' = Fate(b)
    PROVE  [b \in Attempt |-> Fate(b)'] =
             [[b \in Attempt |-> Fate(b)] EXCEPT ![a] = Fate(a)']
OBVIOUS

LEMMA Stutters ==
    ASSUME active' = active, \A b \in Attempt : Fate(b)' = Fate(b)
    PROVE  UNCHANGED Promise!vars
BY DEF Promise!vars

\* An open attempt is the holder, and ends as what it sent says.
LEMMA Releases ==
    ASSUME IInv, NEW a \in Attempt, Live(a), active' = None,
           NEW end, Fate(a)' = end,
           IF HasHandoff(attempts[a]) THEN end \in {"done", "unknown"} ELSE end = "dropped",
           \A b \in Attempt \ {a} : Fate(b)' = Fate(b)
    PROVE  Promise!Next
<1>1. active = a
  BY DEF IInv, SingleReservation
<1>2. Fate(a) = IF HasHandoff(attempts[a]) THEN "sent" ELSE "held"
  BY FateStored DEF Live, Open
<1>3. end \in Promise!Fates
  BY DEF Promise!Fates
<1>4. Promise!Release(a, end)
  BY <1>1, <1>2, FateMoved DEF Promise!Release
<1>5. QED
  BY <1>3, <1>4 DEF Promise!Next

LEMMA KeepsPromise ==
    ASSUME IInv, IInv', NEW a \in Attempt, Keeps(a)
    PROVE  Promise!Next \/ UNCHANGED Promise!vars
<1> DEFINE A == attempts[a]
           B == attempts'[a]
<1>1. /\ B.requests = A.requests /\ B.summary = A.summary /\ Moves(A, B)
      /\ A.phase # "absent" /\ B.phase # "absent" /\ retired' = retired
      /\ \A b \in Attempt \ {a} : attempts'[b] = attempts[b]
      /\ active' = IF B.phase \in Open THEN active ELSE IF active = a THEN None ELSE active
  BY DEF Keeps, Stores, Frees
<1>2. HasHandoff(B) <=> HasHandoff(A)
  BY <1>1 DEF HasHandoff
<1>3. \A b \in Attempt \ {a} : Fate(b)' = Fate(b)
  BY <1>1 DEF Fate
<1>4. /\ B.phase \in Open => Fate(a)' = IF HasHandoff(B) THEN "sent" ELSE "held"
      /\ B.phase = "uncertain" => Fate(a)' = "unknown"
      /\ B.phase = "settled" => Fate(a)' = "done"
      /\ B.phase \in {"cancelled", "withheld"} => Fate(a)' = "dropped"
  <2>1. a \notin retired'.attempts
    BY <1>1, FateStored
  <2>2. QED
    BY <2>1 DEF Fate, Open
<1>5. /\ A.phase \in Open => Fate(a) = IF HasHandoff(A) THEN "sent" ELSE "held"
      /\ A.phase = "uncertain" => Fate(a) = "unknown"
  BY <1>1, FateStored
<1>6. A.phase \in Open <=> active = a
  <2>1. None \notin Attempt
    BY LedgerAssumption DEF LedgerAssumption
  <2>2. QED
    BY <2>1 DEF IInv, SingleReservation, Live
<1>7. CASE B.phase = A.phase
  <2>1. Fate(a)' = Fate(a)
    BY <1>1, <1>2, <1>7 DEF Fate
  <2>2. active' = active
    BY <1>1, <1>6, <1>7
  <2>3. QED
    BY <1>3, <2>1, <2>2, Stutters
<1>8. CASE A.phase \in Open /\ B.phase \in Open
  <2>1. Fate(a)' = Fate(a)
    BY <1>2, <1>4, <1>5, <1>8
  <2>2. active' = active
    BY <1>1, <1>8
  <2>3. QED
    BY <1>3, <2>1, <2>2, Stutters
<1>9. CASE A.phase \in Open /\ HasHandoff(A) /\ B.phase \in {"settled", "uncertain"}
  <2>1. Fate(a)' \in {"done", "unknown"} /\ active' = None
    BY <1>1, <1>4, <1>6, <1>9 DEF Open
  <2>2. Live(a)
    BY <1>9 DEF Live
  <2>3. QED
    BY <1>3, <1>9, <2>1, <2>2, Releases
<1>10. CASE A.phase \in Open /\ ~HasHandoff(A) /\ B.phase \in {"cancelled", "withheld"}
  <2>1. Fate(a)' = "dropped" /\ active' = None
    BY <1>1, <1>4, <1>6, <1>10 DEF Open
  <2>2. Live(a)
    BY <1>10 DEF Live
  <2>3. QED
    BY <1>3, <1>10, <2>1, <2>2, Releases
<1>11. CASE A.phase = "uncertain" /\ active = None /\ B.phase \in {"settled", "cancelled"}
  <2>1. Fate(a) = "unknown" /\ Fate(a)' \in {"done", "dropped"} /\ active' = None
    BY <1>1, <1>4, <1>5, <1>11 DEF Open
  <2>2. Promise!Decide(a, Fate(a)')
    BY <1>3, <1>11, <2>1, FateMoved DEF Promise!Decide
  <2>3. Fate(a)' \in Promise!Fates
    BY <2>1 DEF Promise!Fates
  <2>4. QED
    BY <2>2, <2>3 DEF Promise!Next
<1>12. QED
  BY <1>1, <1>7, <1>8, <1>9, <1>10, <1>11 DEF Moves, Open

LEMMA StepPromise ==
    ASSUME IInv, IInv', NEW a \in Attempt, Step(a)
    PROVE  Promise!Next \/ UNCHANGED Promise!vars
<1> DEFINE A == attempts[a]
           B == attempts'[a]
<1>1. /\ A \in AttemptRecord /\ B \in AttemptRecord
      /\ Orderly(A) /\ Honest(A) /\ Orderly(B) /\ Honest(B)
  BY DEF IInv, TypeOK
<1>2. ASSUME NEW members \in SUBSET Member, NEW choice \in Choices, Select(a, members, choice)
      PROVE  Promise!Next
  <2>1. /\ B = [Absent EXCEPT !.phase = "selected", !.owner = generation,
                              !.members = members, !.choice = choice]
        /\ \A b \in Attempt \ {a} : attempts'[b] = attempts[b]
        /\ A.phase = "absent" /\ a \notin retired.attempts /\ retired' = retired
        /\ active = None /\ active' = a
    BY <1>2, BecomesIs DEF Select, IInv
  <2>2. Fate(a) = "free"
    BY <2>1 DEF Fate, Open
  <2>3. Fate(a)' = "held"
    <3>1. B.phase = "selected" /\ ~HasHandoff(B)
      BY <2>1 DEF Absent, HasHandoff
    <3>2. QED
      BY <2>1, <3>1 DEF Fate, Open
  <2>4. \A b \in Attempt \ {a} : Fate(b)' = Fate(b)
    BY <2>1 DEF Fate
  <2>5. Promise!Reserve(a)
    BY <2>1, <2>2, <2>3, <2>4, FateMoved DEF Promise!Reserve
  <2>6. QED
    BY <2>5 DEF Promise!Next
<1>3. CASE Keeps(a)
  BY <1>3, KeepsPromise
<1>4. ASSUME Stores(a), A.phase \in Open
      PROVE  /\ \A b \in Attempt \ {a} : Fate(b)' = Fate(b)
             /\ B.phase \in Open => Fate(a)' = IF HasHandoff(B) THEN "sent" ELSE "held"
             /\ B.phase = "withheld" => Fate(a)' = "dropped"
             /\ Fate(a) = IF HasHandoff(A) THEN "sent" ELSE "held"
             /\ active = a /\ Live(a)
  <2>1. \A b \in Attempt \ {a} : Fate(b)' = Fate(b)
    BY <1>4 DEF Stores, Fate
  <2>2. a \notin retired'.attempts /\ A.phase # "absent"
    BY <1>4, FateStored DEF Stores
  <2>3. /\ B.phase \in Open => Fate(a)' = IF HasHandoff(B) THEN "sent" ELSE "held"
        /\ B.phase = "withheld" => Fate(a)' = "dropped"
    BY <2>2 DEF Fate, Open
  <2>4. Fate(a) = IF HasHandoff(A) THEN "sent" ELSE "held"
    BY <1>4, <2>2, FateStored
  <2>5. active = a /\ Live(a)
    BY <1>4 DEF IInv, SingleReservation, Live
  <2>6. QED
    BY <2>1, <2>3, <2>4, <2>5
<1>5. CASE Adds(a)
  <2>1. PICK x \in RequestRecord, d \in {0, 1} :
          ~x.sent /\ x.outcome = None /\ Slid(A, B, x, d)
    BY <1>5 DEF Adds
  <2>2. /\ A.phase \in {"claimed", "running"} /\ ~A.held /\ Stores(a)
        /\ B.phase \in (IF HasHandoff(A) THEN {"prepared", "running"} ELSE {"prepared", "withheld"})
        /\ active' = IF B.phase \in Open THEN active ELSE IF active = a THEN None ELSE active
    BY <1>5 DEF Adds, Frees
  <2>3. HasHandoff(B) <=> HasHandoff(A)
    <3>1. Answered(A.requests)
      <4>1. A.requests \in Seq(RequestRecord)
        BY <1>1 DEF AttemptRecord
      <4>2. QED
        BY <1>1, <2>2, <4>1 DEF Orderly, Honest, Answered
    <3>2. QED
      BY <1>1, <2>1, <3>1, SlidEvidence
  <2>4. A.phase \in Open
    BY <2>2 DEF Open
  <2>5. CASE B.phase \in Open
    <3>1. Fate(a)' = Fate(a) /\ active' = active /\ \A b \in Attempt \ {a} : Fate(b)' = Fate(b)
      BY <1>4, <2>2, <2>3, <2>4, <2>5
    <3>2. QED
      BY <3>1, Stutters
  <2>6. CASE B.phase = "withheld"
    <3>1. ~HasHandoff(A) /\ Fate(a)' = "dropped" /\ active' = None /\ Live(a)
          /\ \A b \in Attempt \ {a} : Fate(b)' = Fate(b)
      BY <1>4, <2>2, <2>4, <2>6 DEF Open
    <3>2. QED
      BY <3>1, Releases
  <2>7. QED
    BY <2>2, <2>5, <2>6 DEF Open
<1>6. CASE Sends(a)
  <2>1. Stores(a) /\ A.phase \in Open /\ B.phase = "handed-off" /\ active' = active
    BY <1>6 DEF Sends, Open
  <2>2. HasHandoff(B) /\ B.phase \in Open
    BY <1>1, <2>1 DEF Honest, Open
  <2>3. Fate(a)' = "sent" /\ active = a /\ \A b \in Attempt \ {a} : Fate(b)' = Fate(b)
    BY <1>4, <2>1, <2>2
  <2>4. CASE HasHandoff(A)
    <3>1. Fate(a) = "sent"
      BY <1>4, <2>1, <2>4
    <3>2. QED
      BY <2>1, <2>3, <3>1, Stutters
  <2>5. CASE ~HasHandoff(A)
    <3>1. Fate(a) = "held"
      BY <1>4, <2>1, <2>5
    <3>2. Promise!Send(a)
      BY <2>1, <2>3, <3>1, FateMoved DEF Promise!Send
    <3>3. QED
      BY <3>2 DEF Promise!Next
  <2>6. QED
    BY <2>4, <2>5
<1>7. ASSUME NEW o \in Outcome, Answers(a, o)
      PROVE  UNCHANGED Promise!vars
  <2>1. Stores(a) /\ A.phase \in Open /\ B.phase \in Open /\ active' = active
        /\ HasHandoff(A) /\ HasHandoff(B)
    BY <1>1, <1>7 DEF Answers, Open, Honest
  <2>2. Fate(a)' = Fate(a) /\ \A b \in Attempt \ {a} : Fate(b)' = Fate(b)
    BY <1>4, <2>1
  <2>3. QED
    BY <2>1, <2>2, Stutters
<1>8. QED
  BY <1>2, <1>3, <1>5, <1>6, <1>7, StepEffect

LEMMA AttachPromise ==
    ASSUME IInv, Attach
    PROVE  Promise!Next \/ UNCHANGED Promise!vars
<1>1. active' = None /\ retired' = retired
  BY DEF Attach
<1>2. ASSUME NEW b \in Attempt, ~Live(b) PROVE Fate(b)' = Fate(b)
  <2>1. attempts'[b] = attempts[b]
    BY <1>2, AttachEffect
  <2>2. QED
    BY <1>1, <2>1 DEF Fate
<1>3. CASE active = None
  <2>1. None \notin Attempt
    BY LedgerAssumption DEF LedgerAssumption
  <2>2. \A b \in Attempt : ~Live(b)
    BY <1>3, <2>1 DEF IInv, SingleReservation
  <2>3. QED
    BY <1>1, <1>2, <1>3, <2>2, Stutters
<1>4. ASSUME NEW a \in Attempt, active = a PROVE Promise!Next
  <2>1. Live(a)
    BY <1>4, LedgerAssumption DEF IInv, SingleReservation, LedgerAssumption
  <2>2. \A b \in Attempt \ {a} : Fate(b)' = Fate(b)
    <3>1. \A b \in Attempt \ {a} : ~Live(b)
      BY <1>4 DEF IInv, SingleReservation
    <3>2. QED
      BY <1>2, <3>1
  <2>3. attempts'[a].phase = IF HasHandoff(attempts[a]) THEN "uncertain" ELSE "cancelled"
    BY <2>1, AttachEffect DEF ClosedPhase
  <2>4. a \notin retired'.attempts
    BY <1>1, <2>1, FateStored DEF Live, Open
  <2>5. Fate(a)' = IF HasHandoff(attempts[a]) THEN "unknown" ELSE "dropped"
    BY <2>3, <2>4 DEF Fate, Open
  <2>6. QED
    BY <1>1, <2>1, <2>2, <2>5, Releases
<1>5. QED
  BY <1>3, <1>4 DEF IInv, TypeOK

LEMMA RetirePromise ==
    ASSUME IInv, NEW protected \in SUBSET Member, Retire(protected)
    PROVE  Promise!Next
<1> DEFINE gone == Retiring(protected)
<1>1. /\ gone \in SUBSET Attempt
      /\ \A a \in gone : attempts[a].phase \in {"settled", "cancelled", "withheld"}
      /\ \A a \in Attempt \ gone : attempts'[a] = attempts[a]
      /\ retired'.attempts = retired.attempts \cup gone /\ active' = active
  BY DEF Retire, Retiring, Retirable, Stored, FoldRetired
<1> HIDE DEF gone
<1>2. \A a \in gone : Fate(a) \in {"done", "dropped"} /\ Fate(a)' = "forgotten"
  <2> TAKE a \in gone
  <2>1. Fate(a) \in {"done", "dropped"}
    BY <1>1, FateStored
  <2>2. Fate(a)' = "forgotten"
    BY <1>1 DEF Fate
  <2>3. QED
    BY <2>1, <2>2
<1>3. \A a \in Attempt \ gone : Fate(a)' = Fate(a)
  BY <1>1 DEF Fate
<1>4. Promise!Forget(gone)
  <2>1. \A a \in gone : [b \in Attempt |-> Fate(b)][a] \in {"done", "dropped"}
    BY <1>1, <1>2
  <2>2. [b \in Attempt |-> Fate(b)'] =
          [t \in Attempt |-> IF t \in gone THEN "forgotten" ELSE [b \in Attempt |-> Fate(b)][t]]
    BY <1>2, <1>3
  <2>3. QED
    BY <1>1, <2>1, <2>2 DEF Promise!Forget
<1>5. QED
  BY <1>1, <1>4 DEF Promise!Next

LEMMA ResetPromise == ASSUME Reset PROVE Promise!Next
<1>1. active' = None /\ \A a \in Attempt : Fate(a)' = "free"
  BY DEF Reset, Fate, Absent, NothingRetired, Open
<1>2. [a \in Attempt |-> Fate(a)'] = [a \in Attempt |-> "free"]
  BY <1>1
<1>3. Promise!Wipe
  BY <1>1, <1>2 DEF Promise!Wipe
<1>4. QED
  BY <1>3 DEF Promise!Next

LEMMA InitPromise == Init => Promise!Init
<1> SUFFICES ASSUME Init PROVE Promise!Init
  OBVIOUS
<1>1. \A a \in Attempt : Fate(a) = "free"
  BY DEF Init, Fate, Absent, NothingRetired, Open
<1>2. QED
  BY <1>1 DEF Init, Promise!Init

LEMMA NextPromise ==
    ASSUME IInv, [Next]_vars
    PROVE  Promise!Next \/ UNCHANGED Promise!vars
<1>1. IInv'
  BY NextIInv
<1>2. ASSUME NEW a \in Attempt, Step(a) PROVE Promise!Next \/ UNCHANGED Promise!vars
  BY <1>1, <1>2, StepPromise
<1>3. CASE UNCHANGED vars
  <2>1. active' = active /\ \A b \in Attempt : Fate(b)' = Fate(b)
    BY <1>3 DEF vars, Fate, HasHandoff
  <2>2. QED
    BY <2>1, Stutters
<1>4. QED
  BY <1>2, <1>3, AttachPromise, ResetPromise, RetirePromise DEF Next

-----------------------------------------------------------------------------
(* Theorems *)

\* The stored ledger keeps its types, for any sets of identities and bounds.
THEOREM TypeCorrect == Spec => []TypeOK
BY LedgerInvariant, PTL

\* However attachments, decisions, resets and pruning interleave, at most one
\* attempt is open: the one the ledger names, owned by the current attachment.
THEOREM OneReservation == Spec => []SingleReservation
BY LedgerInvariant, PTL

\* No sequence of calls makes the stored ledger one that validate() refuses.
THEOREM NeverRefused == Spec => []Validates
<1>1. IInv => Validates
  <2> SUFFICES ASSUME IInv PROVE Validates
    OBVIOUS
  <2>1. \A a \in Stored :
         LET A == attempts[a]
             n == Len(A.requests)
         IN  /\ ~A.consumed =>
                  /\ n = 0 /\ A.summary.count = 0 /\ A.history = {}
                  /\ A.phase \notin {"claimed", "prepared", "handed-off", "running", "settled"}
             /\ A.phase = "handed-off" => n > 0 /\ LastRequest(A).sent /\ LastRequest(A).outcome = None
             /\ A.phase = "prepared" => n > 0 /\ ~LastRequest(A).sent
             /\ A.phase = "settled" => A.outcome # None
             /\ A.summary.succeeded \subseteq A.summary.included
             /\ \A p, q \in A.history : p[1] = q[1] => p = q
             /\ \A i \in 1..n : A.requests[i].outcome # None => A.requests[i].sent
    <3> TAKE a \in Stored
    <3>1. Orderly(attempts[a]) /\ Honest(attempts[a])
      BY DEF IInv, Stored
    <3>2. QED
      BY <3>1 DEF Orderly, Honest, OneEntryEach
  <2>2. \A a, b \in Stored : \A i \in 1..Len(attempts[a].requests) :
          \A j \in 1..Len(attempts[b].requests) :
            attempts[a].requests[i].id = attempts[b].requests[j].id => a = b /\ i = j
    BY DEF IInv, Identified, Stored
  <2>3. ChoiceCurrent
    BY DEF IInv
  <2>4. QED
    BY <2>1, <2>2, <2>3 DEF Validates, ChoiceCurrent
<1>2. QED
  BY <1>1, InductiveInvariant, PTL

\* Fairness is charged only for work that a request carried, however old.
THEOREM ChargesBacked == Spec => []ChargedWasIncluded
<1>1. IInv => ChargedWasIncluded
  BY DEF IInv, Honest, Included, ChargedWasIncluded
<1>2. QED
  BY <1>1, InductiveInvariant, PTL

\* Handoffs are counted and deliveries known exactly, however requests are folded.
THEOREM FoldingIsExact == Spec => EvidenceExact
<1>1. IInv /\ [Next]_vars => \A a \in Attempt : EvidenceFollows(attempts[a], attempts'[a])
  BY EvidenceStep
<1>2. QED
  BY <1>1, InductiveInvariant, PTL DEF Spec, EvidenceExact

\* A handoff is never forgotten, nor sent twice, nor closed as if not sent.
THEOREM HandoffsAreKept == Spec => HandoffsKept
<1>1. IInv /\ [Next]_vars =>
        /\ \A r \in Request : EverSent(r) => EverSent(r)'
        /\ \A a \in Attempt : SentOnce(a) /\ EndsAsSent(a)
  BY EverSentStep, SentOnceStep, EndsAsSentStep
<1>2. QED
  BY <1>1, InductiveInvariant, PTL DEF Spec, HandoffsKept

\* Until a reset, consumed input stays fenced, and pruning is invisible.
THEOREM SpentStaysFenced == Spec => FencesHold
<1>1. IInv /\ [Next]_vars =>
        Wiped \/ \A m \in Member : (Spent(m) => Fenced(m)') /\ PrunedUnseen(m)
  BY FencesStep
<1>2. QED
  BY <1>1, InductiveInvariant, PTL DEF Spec, FencesHold

\* The ledger implements the reservation it promises: one turn at a time, and a
\* turn that was sent is done, or unknown until the user decides.
THEOREM PromiseKept == Spec => ReservationSpec
<1>1. Init => Promise!Init
  BY InitPromise
<1>2. IInv /\ [Next]_vars => [Promise!Next]_Promise!vars
  BY NextPromise
<1>3. QED
  BY <1>1, <1>2, InductiveInvariant, PTL DEF Spec, ReservationSpec, Promise!Spec

=============================================================================
