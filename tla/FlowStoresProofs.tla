----------------------------- MODULE FlowStoresProofs -----------------------------
(***************************************************************************)
(* What is proved about two stores of a branch.                            *)
(*                                                                         *)
(* The receipts of requests (NativeRequests), for any inputs, number of    *)
(* requests and retention bound: the records keep their types, input the   *)
(* user has cancelled never goes to a provider again, the validation of    *)
(* the store never refuses what one of its own operations made, and        *)
(* delivered input is not required of a later request.                     *)
(*                                                                         *)
(* The waits (WaitStore), for any work, executions, tokens and times: an   *)
(* ended wait keeps its decision until it is delivered, and the validation *)
(* of the store never refuses what one of its own transactions has made.   *)
(***************************************************************************)
EXTENDS NativeRequests, WaitStore, FiniteSetTheorems, TLAPS

-----------------------------------------------------------------------------
(* The receipts of requests *)

\* Receipts are numbered as they are begun, and the request under way is the
\* newest one and still retained, so that retirement never takes it.
Newest(recs) == begun \in Request /\ recs[begun] # None
Turned ==
    /\ \A r \in Retained(records) : r <= begun
    /\ turn.id # None => turn.id = begun /\ Newest(records)
    /\ turn.pc \in {"ready", "failed", "executing"} => turn.id # None
    /\ turn.pc = "captured" => turn.capture \in Capture

\* What the user has cancelled is remembered: by a receipt, or by the index
\* once the receipt has been retired.
Remembered == dropped \subseteq Cancelled(records)

RequestsInv == TypeOK /\ Turned /\ Remembered

Receipts == [Request -> Receipt \cup {None}]

\* recs comes from the records by decisions and removals: no receipt appears
\* or loses a cancellation, and the newest one is not removed;
Kept(recs) ==
    /\ recs \in Receipts
    /\ \A r \in Request : recs[r] # None =>
          records[r] # None /\ records[r].cancelled \subseteq recs[r].cancelled
    /\ Newest(records) => Newest(recs)

\* and none is sent.
Derived(recs) ==
    /\ Kept(recs)
    /\ \A r \in Request : recs[r] # None => recs[r].sent = records[r].sent

-----------------------------------------------------------------------------
(* Operators *)

LEMMA OldestSparesNewest ==
    ASSUME NEW S, S \subseteq Request, NEW keep \in Nat \ {0},
           NEW r \in Request, \A o \in S : o <= r
    PROVE  r \notin Oldest(S, keep)
<1>1. {o \in S : o > r} = {}
  <2>1. ASSUME NEW o \in S PROVE ~(o > r)
    <3>1. o \in Int /\ r \in Int /\ o <= r
      BY NativeAssumption DEF Request
    <3> QED
      BY <3>1
  <2> QED
    BY <2>1
<1>2. Cardinality({o \in S : o > r}) = 0
  BY <1>1, FS_EmptySet
<1> QED
  BY <1>2 DEF Oldest

LEMMA SupersededSparesNewest ==
    ASSUME NEW recs, NEW r \in Request, \A o \in Retained(recs) : o <= r
    PROVE  r \notin Superseded(recs)
<1>1. {p \in Retained(recs) : p > r} = {}
  BY NativeAssumption DEF Request, Retained
<1> QED
  BY <1>1 DEF Superseded

\* Removing receipts, but not the newest.
LEMMA WithoutDerived ==
    ASSUME NEW recs, Derived(recs), NEW gone, Newest(records) => begun \notin gone
    PROVE  Derived(Without(recs, gone))
BY DEF Derived, Kept, Without, Newest, Receipts

LEMMA RecordsDerived == ASSUME TypeOK PROVE Derived(records)
BY DEF Derived, Kept, TypeOK, Receipts, Newest

LEMMA KeptRetained ==
    ASSUME NEW recs, Kept(recs), Turned
    PROVE  Retained(recs) \subseteq Retained(records) /\ \A o \in Retained(recs) : o <= begun
BY DEF Kept, Retained, Turned

LEMMA PrunedDerived ==
    ASSUME NEW recs, Derived(recs), Turned PROVE Derived(Pruned(recs))
<1>1. Newest(records) => begun \notin Superseded(recs)
  BY SupersededSparesNewest, KeptRetained DEF Newest, Derived
<1> QED
  BY <1>1, WithoutDerived DEF Pruned

LEMMA PrunedBeforeDerived ==
    ASSUME NEW recs, Derived(recs), Turned PROVE Derived(PrunedBefore(recs))
<1>1. Newest(records) => begun \notin Superseded(recs)
  BY SupersededSparesNewest, KeptRetained DEF Newest, Derived
<1>2. Empty(recs) \subseteq Request /\ Empty(recs) \subseteq Retained(recs)
  BY DEF Empty, Retained
<1>3. Newest(records) => begun \notin Oldest(Empty(recs), Keep)
  BY <1>2, OldestSparesNewest, KeptRetained, NativeAssumption DEF Newest, Derived
<1> QED
  BY <1>1, <1>3, WithoutDerived DEF PrunedBefore

\* A decision about one receipt.
LEMMA FinishedDerived ==
    ASSUME NEW recs, Derived(recs), NEW r \in Request, recs[r] # None,
           NEW outcome \in Outcome
    PROVE  Derived(Finished(recs, r, outcome))
<1>1. recs[r] \in Receipt /\ recs \in Receipts
  BY DEF Derived, Kept, Receipts
<1>2. [recs[r] EXCEPT !.outcome = outcome] \in Receipt
  BY <1>1 DEF Receipt
<1>3. Finished(recs, r, outcome) =
          [recs EXCEPT ![r] = [recs[r] EXCEPT !.outcome = outcome]]
  BY <1>1 DEF Finished, Receipts
<1>4. /\ [recs[r] EXCEPT !.outcome = outcome].cancelled = recs[r].cancelled
      /\ [recs[r] EXCEPT !.outcome = outcome].sent = recs[r].sent
  BY <1>1 DEF Receipt
<1>5. None \notin Receipt
  BY NothingAssumption
<1> QED
  BY <1>1, <1>2, <1>3, <1>4, <1>5 DEF Derived, Kept, Receipts, Newest

LEMMA SettledDerived ==
    ASSUME TypeOK, Turned PROVE Derived(Settled)
<1>1. CASE turn.id = None
  BY <1>1, RecordsDerived DEF Settled
<1>2. CASE turn.id # None
  <2>1. turn.id \in Request /\ records[turn.id] # None
    BY <1>2 DEF Turned, Newest
  <2> QED
    BY <1>2, <2>1, RecordsDerived, FinishedDerived DEF Settled, Outcome
<1> QED
  BY <1>1, <1>2

LEMMA RetiringSparesNewest ==
    ASSUME NEW recs, Derived(recs), Turned, NEW protected, NEW keep \in Nat \ {0},
           Newest(records)
    PROVE  begun \notin Retiring(recs, protected, keep)
<1> DEFINE S == UNION Retirable(recs, protected)
<1>1. S \subseteq Retained(recs) /\ S \subseteq Request
  BY DEF Retirable, Chains, Retained
<1>2. begun \notin Oldest(S, keep)
  BY <1>1, OldestSparesNewest, KeptRetained DEF Newest, Derived
<1> HIDE DEF S
<1>3. Retiring(recs, protected, keep) \subseteq Oldest(S, keep)
  BY DEF Retiring, S
<1> QED
  BY <1>2, <1>3

\* A commit keeps every cancellation: in the receipts, or in the index when it
\* removes some of them.
LEMMA StoredRemembers ==
    ASSUME TypeOK, NEW recs, Stored(recs),
           \A r \in Request : recs[r] # None /\ records[r] # None =>
              records[r].cancelled \subseteq recs[r].cancelled
    PROVE  Cancelled(records) \subseteq Cancelled(records)'
<1> SUFFICES ASSUME NEW s \in Cancelled(records) PROVE s \in Cancelled(records)'
  BY DEF Cancelled, CancelledBy, Retained
<1>1. CASE s \in cancelled
  BY <1>1 DEF Stored, Indexed, Cancelled
<1>2. ASSUME NEW r \in Retained(records), s \in records[r].cancelled
      PROVE  s \in Cancelled(records)'
  <2>1. CASE recs[r] = None
    BY <1>2, <2>1 DEF Stored, Indexed, Cancelled, Retained
  <2>2. CASE recs[r] # None
    BY <1>2, <2>2 DEF Stored, Cancelled, CancelledBy, Retained
  <2> QED
    BY <2>1, <2>2
<1> QED
  BY <1>1, <1>2 DEF Cancelled, CancelledBy

\* A commit of receipts that come from the records.
LEMMA StoredKept ==
    ASSUME RequestsInv, NEW recs, Kept(recs), Stored(recs), begun' = begun, dropped' = dropped
    PROVE  /\ records' \in Receipts /\ cancelled' \subseteq Source
           /\ \A r \in Retained(records)' : r <= begun'
           /\ Newest(records) => Newest(records)'
           /\ Remembered'
<1>1. records' = recs
  BY DEF Stored
<1>2. records' \in Receipts
  BY <1>1 DEF Kept
<1>3. cancelled' \subseteq Source
  BY DEF Stored, Indexed, RequestsInv, TypeOK, Retained, Receipt
<1>4. \A r \in Retained(records)' : r <= begun'
  BY <1>1, KeptRetained DEF RequestsInv, Retained
<1>5. Newest(records) => Newest(records)'
  BY <1>1 DEF Kept, Newest
<1>6. Remembered'
  BY StoredRemembers DEF Kept, RequestsInv, Remembered
<1> QED
  BY <1>2, <1>3, <1>4, <1>5, <1>6

-----------------------------------------------------------------------------
(* The invariant *)

LEMMA Initially == Init => RequestsInv
BY NativeAssumption
DEF Init, RequestsInv, TypeOK, Turned, Remembered, Turn, Idle, Request, Retained

\* A commit that neither begins a request nor cancels input, and leaves the
\* turn as it is or ends it.
LEMMA CommitKeepsInv ==
    ASSUME RequestsInv, NEW recs, Kept(recs), Stored(recs),
           UNCHANGED <<begun, dropped, reached>>,
           archived' = archived, reconciled' \subseteq Source, owner' \in 1..MaxOwners,
           place' \in [Source -> {"new", "context", "compacted", "forgotten"}],
           turn' = turn \/ turn' = Idle
    PROVE  RequestsInv'
<1>1. /\ records' \in Receipts /\ cancelled' \subseteq Source
      /\ \A r \in Retained(records)' : r <= begun'
      /\ Newest(records) => Newest(records)'
      /\ Remembered'
  BY StoredKept
<1>2. TypeOK'
  BY <1>1 DEF RequestsInv, TypeOK, Receipts, Turn, Idle
<1>3. Turned'
  BY <1>1 DEF RequestsInv, Turned, Idle
<1> QED
  BY <1>1, <1>2, <1>3 DEF RequestsInv

\* A step that only reads the receipts.
LEMMA ReadKeepsInv ==
    ASSUME RequestsInv, UNCHANGED <<records, begun, cancelled, history>>, TypeOK',
           turn' = turn \/ turn' = Idle
    PROVE  RequestsInv'
BY DEF RequestsInv, Turned, Remembered, Idle, history, Retained, Newest, Cancelled, CancelledBy

\* A request that is begun.
LEMMA BegunKeepsInv ==
    ASSUME RequestsInv, NEW recs, Derived(recs), begun + 1 \in Request,
           NEW record \in Receipt, record.retryOf \in Retained(recs) \cup {None},
           Stored(Appended(recs, begun + 1, record)),
           begun' = begun + 1, UNCHANGED <<sources, reconciled, owner, dropped>>,
           turn' \in Turn, turn'.id = begun', turn'.pc # "captured",
           reached' \subseteq Source
    PROVE  /\ RequestsInv'
           /\ \A r \in Request : ~(Sends(r) /\ r # begun + 1)
           /\ records[begun + 1] = None
<1> DEFINE b == begun + 1
           new == Appended(recs, b, record)
<1>1. /\ recs \in Receipts /\ None \notin Receipt
      /\ b \in Request /\ begun \in Int /\ b \in Int
  BY NothingAssumption, NativeAssumption DEF Derived, Kept, RequestsInv, TypeOK, Request
<1>2. records[b] = None /\ recs[b] = None
  BY <1>1 DEF RequestsInv, Turned, Retained, Derived, Kept
<1>3. ASSUME NEW o \in Request, o # b
      PROVE  /\ new[o] \in Receipt \cup {None}
             /\ recs[o] # None =>
                  new[o] # None /\ new[o].cancelled = recs[o].cancelled /\ new[o].sent = recs[o].sent
             /\ new[o] # None => recs[o] # None
  <2>1. o # None
    BY NativeAssumption DEF Request
  <2>2. CASE o = record.retryOf
    <3>1. recs[o] \in Receipt
      BY <1>1, <2>1, <2>2 DEF Retained, Receipts
    <3>2. [owner |-> owner, request |-> b] \in Authorization
      BY <1>1 DEF RequestsInv, TypeOK, Authorization
    <3> DEFINE retried == [recs[o] EXCEPT !.retry = [owner |-> owner, request |-> b]]
    <3>3. /\ retried \in Receipt /\ retried.cancelled = recs[o].cancelled
          /\ retried.sent = recs[o].sent
      BY <3>1, <3>2 DEF Receipt
    <3>4. new[o] = retried
      BY <1>3, <2>2 DEF Appended
    <3> QED
      BY <1>1, <3>1, <3>3, <3>4
  <2>3. CASE o # record.retryOf
    <3>1. new[o] = recs[o]
      BY <1>3, <2>3 DEF Appended
    <3> QED
      BY <1>1, <3>1 DEF Receipts
  <2> QED
    BY <2>2, <2>3
<1>4. new[b] = record /\ new = [o \in Request |-> new[o]]
  BY <1>1 DEF Appended
<1>5. records' = new /\ cancelled' = Indexed(new)
  BY DEF Stored
<1> HIDE DEF new
<1>6. records' \in Receipts /\ Newest(records)'
  BY <1>1, <1>3, <1>4, <1>5 DEF Receipts, Newest
<1>7. cancelled' \subseteq Source
  BY <1>5 DEF Indexed, RequestsInv, TypeOK, Retained, Receipt
<1>8. TypeOK'
  BY <1>6, <1>7 DEF RequestsInv, TypeOK, Receipts, Request, sources
<1>9. \A r \in Retained(records)' : r <= begun'
  <2>1. ASSUME NEW r \in Request, new[r] # None, r # b PROVE r <= begun
    BY <1>3, <2>1 DEF RequestsInv, Turned, Retained, Derived, Kept
  <2> QED
    BY <1>1, <1>5, <2>1, NativeAssumption DEF Retained, Request
<1>10. Turned'
  <2>1. begun' # None
    BY NativeAssumption DEF Request
  <2> QED
    BY <1>6, <1>9, <2>1 DEF Turned
<1>11. Remembered'
  <2>1. \A r \in Request : new[r] # None /\ records[r] # None =>
           records[r].cancelled \subseteq new[r].cancelled
    BY <1>2, <1>3 DEF Derived, Kept
  <2>2. Stored(new)
    BY <1>5 DEF Stored
  <2> QED
    BY <2>1, <2>2, StoredRemembers DEF RequestsInv, Remembered
<1>12. \A r \in Request : ~(Sends(r) /\ r # b)
  BY <1>3, <1>5 DEF Sends, Derived
<1> QED
  BY <1>2, <1>8, <1>10, <1>11, <1>12 DEF RequestsInv

-----------------------------------------------------------------------------
(* Its actions *)

LEMMA CapturedKeepsInv ==
    ASSUME RequestsInv, NEW delivered \in SUBSET Source, NEW projection \in Projection,
           Captured(delivered, projection)
    PROVE  RequestsInv'
<1> DEFINE capture == [captured |-> Shown \ Cancelled(records), delivered |-> delivered,
                       projection |-> projection]
<1>1. capture \in Capture
  BY DEF Capture, Shown
<1>2. turn' = turn \/ turn' = [turn EXCEPT !.pc = "captured", !.capture = capture]
  BY DEF Captured
<1> HIDE DEF capture
<1>3. TypeOK'
  <2>1. turn' \in Turn
    BY <1>1, <1>2 DEF RequestsInv, TypeOK, Turn
  <2>2. reconciled' \subseteq Source
    BY DEF Captured, RequestsInv, TypeOK, Claimed
  <2> QED
    BY <2>1, <2>2 DEF Captured, RequestsInv, TypeOK, sources, history
<1>4. /\ turn'.id = turn.id
      /\ turn'.pc \in {"ready", "failed", "executing"} => turn' = turn
      /\ turn'.pc = "captured" => turn'.capture \in Capture
  BY <1>1, <1>2 DEF RequestsInv, TypeOK, Turned, Turn
<1>5. Turned' /\ Remembered'
  BY <1>4
  DEF Captured, RequestsInv, Turned, Remembered, Retained, Newest, Cancelled, CancelledBy,
      history
<1> QED
  BY <1>3, <1>5 DEF RequestsInv

LEMMA BeforeRequestKeepsInv ==
    ASSUME RequestsInv, NEW enforced \in BOOLEAN, NEW fails \in BOOLEAN,
           BeforeRequest(enforced, fails)
    PROVE  RequestsInv' /\ \A r \in Request : ~Sends(r)
<1> DEFINE recs == PrunedBefore(Settled)
<1>1. Derived(recs)
  BY SettledDerived, PrunedBeforeDerived DEF RequestsInv
<1>2. CASE Admissible(recs, enforced)
  <2>1. PICK retryOf \in RetryOf(recs) :
           Stored(Appended(recs, begun + 1,
                  NewRecord(turn.capture, Demanded(recs, enforced), retryOf)))
    BY <1>2 DEF BeforeRequest
  <2> DEFINE record == NewRecord(turn.capture, Demanded(recs, enforced), retryOf)
  <2>2. retryOf \in Retained(recs) \cup {None}
    BY DEF RetryOf, Waiting
  <2>3. turn.capture \in Capture
    BY DEF BeforeRequest, RequestsInv, Turned
  <2>4. Demanded(recs, enforced) \subseteq Source
    BY <2>3 DEF Demanded, Capture
  <2>5. record \in Receipt /\ record.retryOf = retryOf /\ ~record.sent
    BY <2>2, <2>3, <2>4 DEF NewRecord, Receipt, RequestsInv, TypeOK, Retained
  <2>6. /\ begun + 1 \in Request /\ begun' = begun + 1
        /\ turn' = [Idle EXCEPT !.pc = IF fails THEN "failed" ELSE "ready", !.id = begun + 1]
        /\ reached' = reached \cup turn.capture.delivered
        /\ UNCHANGED <<sources, reconciled, owner, dropped>>
    BY <1>2 DEF BeforeRequest
  <2>7. /\ turn' \in Turn /\ turn'.id = begun' /\ turn'.pc # "captured"
        /\ reached' \subseteq Source
    BY <2>3, <2>6 DEF Turn, Idle, RequestsInv, TypeOK, Capture
  <2> HIDE DEF record, recs
  <2>8. Stored(Appended(recs, begun + 1, record))
    BY <2>1 DEF record
  <2>9. /\ RequestsInv' /\ (\A r \in Request : ~(Sends(r) /\ r # begun + 1))
        /\ records[begun + 1] = None
    BY <1>1, <2>2, <2>5, <2>6, <2>7, <2>8, BegunKeepsInv
  <2> QED
    BY <2>9 DEF Sends
<1>3. CASE ~Admissible(recs, enforced)
  <2>1. /\ Stored(recs) /\ turn' = Idle
        /\ UNCHANGED <<begun, reached, sources, reconciled, owner, dropped>>
    BY <1>3 DEF BeforeRequest
  <2> HIDE DEF recs
  <2>2. RequestsInv'
    BY <1>1, <2>1, CommitKeepsInv DEF Derived, sources, RequestsInv, TypeOK
  <2>3. \A r \in Request : ~Sends(r)
    BY <1>1, <2>1 DEF Sends, Stored, Derived
  <2> QED
    BY <2>2, <2>3
<1> QED
  BY <1>2, <1>3

LEMMA MaintainKeepsInv ==
    ASSUME RequestsInv, Maintain PROVE RequestsInv' /\ \A r \in Request : ~Sends(r)
<1> DEFINE capture == [captured |-> {}, delivered |-> {}, projection |-> "none"]
           record == NewRecord(capture, {}, None)
<1>1. Derived(records)
  BY RecordsDerived DEF RequestsInv
<1>2. record \in Receipt /\ record.retryOf = None /\ ~record.sent
  BY DEF NewRecord, Receipt, Capture, Projection, RequestsInv, TypeOK
<1>3. begun + 1 \in Request /\ begun' = begun + 1
  BY NativeAssumption DEF Maintain, RequestsInv, TypeOK, Request
<1>4. /\ Stored(Appended(records, begun + 1, record))
      /\ UNCHANGED <<sources, reconciled, owner, history>>
      /\ turn' = [Idle EXCEPT !.pc = "executing", !.id = begun']
  BY <1>3 DEF Maintain
<1>5. /\ turn' \in Turn /\ turn'.id = begun' /\ turn'.pc # "captured"
      /\ reached' \subseteq Source
  BY <1>3, <1>4 DEF Turn, Idle, RequestsInv, TypeOK, history
<1> HIDE DEF record
<1>6. /\ RequestsInv' /\ (\A r \in Request : ~(Sends(r) /\ r # begun + 1))
      /\ records[begun + 1] = None
  BY <1>1, <1>2, <1>3, <1>4, <1>5, BegunKeepsInv DEF history
<1> QED
  BY <1>6 DEF Sends

\* A decision about one receipt that leaves sent as it is and takes no
\* cancellation back.
LEMMA UpdatedDerived ==
    ASSUME TypeOK, NEW r \in Request, NEW record \in Receipt, records[r] # None,
           records[r].cancelled \subseteq record.cancelled
    PROVE  /\ Kept([records EXCEPT ![r] = record])
           /\ record.sent = records[r].sent => Derived([records EXCEPT ![r] = record])
BY NothingAssumption DEF Kept, Derived, TypeOK, Receipts, Newest

LEMMA HandoffKeepsInv ==
    ASSUME RequestsInv, Handoff
    PROVE  /\ RequestsInv'
           /\ \A r \in Request : Sends(r) =>
                /\ records[r].capture.delivered \cap dropped = {}
                /\ records[r].required \subseteq records[r].capture.delivered
<1> DEFINE id == turn.id
<1>1. id \in Request /\ records[id] # None /\ records[id] \in Receipt
  BY DEF Handoff, RequestsInv, Turned, Newest, TypeOK
<1>2. CASE /\ records[id].capture.delivered \cap Cancelled(records) = {}
           /\ Complete(records[id])
  <2> DEFINE record == [records[id] EXCEPT !.sent = TRUE]
             recs == [records EXCEPT ![id] = record]
  <2>1. record \in Receipt /\ record.cancelled = records[id].cancelled
    BY <1>1 DEF Receipt
  <2>2. Stored(recs) /\ turn' = turn
    BY <1>1, <1>2 DEF Handoff, RequestsInv, TypeOK
  <2>3. Kept(recs)
    BY <1>1, <2>1, UpdatedDerived DEF RequestsInv
  <2>4. \A r \in Request : Sends(r) => r = id
    BY <2>2 DEF Sends, Stored, RequestsInv, TypeOK
  <2> HIDE DEF record, recs
  <2>5. RequestsInv'
    BY <2>2, <2>3, CommitKeepsInv DEF Handoff, sources, history, RequestsInv, TypeOK
  <2>6. /\ records[id].capture.delivered \cap dropped = {}
        /\ records[id].required \subseteq records[id].capture.delivered
    BY <1>2 DEF RequestsInv, Remembered, Complete
  <2> QED
    BY <2>4, <2>5, <2>6
<1>3. CASE ~(/\ records[id].capture.delivered \cap Cancelled(records) = {}
             /\ Complete(records[id]))
  <2> DEFINE recs == Finished(records, id, "withheld")
  <2>1. Stored(recs) /\ turn' = Idle
    BY <1>3 DEF Handoff
  <2>2. Derived(recs)
    BY <1>1, FinishedDerived, RecordsDerived DEF RequestsInv, Outcome
  <2> HIDE DEF recs
  <2>3. RequestsInv'
    BY <2>1, <2>2, CommitKeepsInv DEF Handoff, sources, history, RequestsInv, TypeOK, Derived
  <2>4. \A r \in Request : ~Sends(r)
    BY <2>1, <2>2 DEF Sends, Stored, Derived
  <2> QED
    BY <2>3, <2>4
<1> QED
  BY <1>2, <1>3

\* Withhold and Answer.
LEMMA OutcomeKeepsInv ==
    ASSUME RequestsInv, NEW outcome \in Outcome, turn.pc = "executing",
           Stored(Finished(records, turn.id, outcome)), turn' = Idle,
           UNCHANGED <<begun, sources, reconciled, owner, history>>
    PROVE  RequestsInv' /\ \A r \in Request : ~Sends(r)
<1> DEFINE recs == Finished(records, turn.id, outcome)
<1>1. turn.id \in Request /\ records[turn.id] # None
  BY DEF RequestsInv, Turned, Newest
<1>2. Derived(recs)
  BY <1>1, FinishedDerived, RecordsDerived DEF RequestsInv
<1> HIDE DEF recs
<1>3. Stored(recs)
  BY DEF recs
<1>4. RequestsInv'
  BY <1>2, <1>3, CommitKeepsInv DEF sources, history, RequestsInv, TypeOK, Derived
<1>5. \A r \in Request : ~Sends(r)
  BY <1>2, <1>3 DEF Sends, Stored, Derived
<1> QED
  BY <1>4, <1>5

\* The user's decisions about one withheld request.
LEMMA DecisionKeepsInv ==
    ASSUME RequestsInv, NEW r \in Request,
           AuthorizeRetry(r) \/ CancelProjections(r)
    PROVE  RequestsInv' /\ \A o \in Request : ~Sends(o)
<1>1. PICK record \in Receipt :
         /\ Stored([records EXCEPT ![r] = record])
         /\ record.cancelled = records[r].cancelled /\ record.sent = records[r].sent
  <2>1. records[r] \in Receipt
    BY DEF AuthorizeRetry, CancelProjections, Undecided, Retained, RequestsInv, TypeOK
  <2>2. CASE AuthorizeRetry(r)
    <3> DEFINE authorization == [owner |-> owner, request |-> None]
               record == [records[r] EXCEPT !.retry = authorization]
    <3>1. authorization \in Authorization
      BY DEF Authorization, RequestsInv, TypeOK
    <3>2. /\ record \in Receipt /\ record.cancelled = records[r].cancelled
          /\ record.sent = records[r].sent
      BY <2>1, <3>1 DEF Receipt
    <3>3. Stored([records EXCEPT ![r] = record])
      BY <2>2 DEF AuthorizeRetry, RequestsInv, TypeOK
    <3> QED
      BY <3>2, <3>3
  <2>3. CASE CancelProjections(r)
    <3>0. PICK all \in BOOLEAN :
             Stored([records EXCEPT ![r].unprojected = all, ![r].retry = None])
      BY <2>3 DEF CancelProjections
    <3> DEFINE record == [records[r] EXCEPT !.unprojected = all, !.retry = None]
    <3>1. /\ record \in Receipt /\ record.cancelled = records[r].cancelled
          /\ record.sent = records[r].sent
      BY <2>1 DEF Receipt
    <3>2. [records EXCEPT ![r].unprojected = all, ![r].retry = None] =
              [records EXCEPT ![r] = record]
      BY <2>1 DEF RequestsInv, TypeOK, Receipt
    <3>3. Stored([records EXCEPT ![r] = record])
      BY <3>0, <3>2
    <3> QED
      BY <3>1, <3>3
  <2> QED
    BY <2>2, <2>3
<1> DEFINE recs == [records EXCEPT ![r] = record]
<1>2. Derived(recs)
  BY <1>1, UpdatedDerived
  DEF RequestsInv, AuthorizeRetry, CancelProjections, Undecided, Retained
<1> HIDE DEF recs
<1>3. Stored(recs) /\ UNCHANGED <<begun, sources, reconciled, owner, turn, history>>
  BY <1>1 DEF recs, AuthorizeRetry, CancelProjections
<1>4. RequestsInv'
  BY <1>2, <1>3, CommitKeepsInv DEF sources, history, RequestsInv, TypeOK, Derived
<1> QED
  BY <1>2, <1>3, <1>4 DEF Sends, Stored, Derived

LEMMA CancelSourcesKeepsInv ==
    ASSUME RequestsInv, NEW r \in Request, NEW gone \in SUBSET Source, CancelSources(r, gone)
    PROVE  RequestsInv' /\ \A o \in Request : ~Sends(o)
<1> DEFINE record == [records[r] EXCEPT !.cancelled = records[r].cancelled \cup gone, !.retry = None]
           recs == [records EXCEPT ![r] = record]
<1>1. records[r] # None /\ records[r] \in Receipt
  BY DEF CancelSources, Undecided, Retained, RequestsInv, TypeOK
<1>2. /\ record \in Receipt /\ record.sent = records[r].sent
      /\ record.cancelled = records[r].cancelled \cup gone
  BY <1>1 DEF Receipt
<1>3. [records EXCEPT ![r].cancelled = @ \cup gone, ![r].retry = None] = recs
  BY <1>1 DEF RequestsInv, TypeOK, Receipt
<1>4. Derived(recs) /\ Stored(recs) /\ recs[r] = record
  BY <1>1, <1>2, <1>3, UpdatedDerived DEF RequestsInv, TypeOK, CancelSources
<1> HIDE DEF record, recs
<1>5. Cancelled(records) \subseteq Cancelled(records)'
  BY <1>4, StoredRemembers DEF RequestsInv, Derived, Kept
<1>6. records' \in Receipts /\ cancelled' \subseteq Source
      /\ (\A o \in Retained(records)' : o <= begun) /\ (Newest(records) => Newest(recs))
  <2>1. \A o \in Retained(recs) : o <= begun
    BY <1>4, KeptRetained DEF Derived, RequestsInv
  <2> QED
    BY <1>4, <2>1 DEF Stored, Indexed, Derived, Kept, RequestsInv, TypeOK, Retained, Receipt
<1>7. gone \subseteq Cancelled(records)'
  <2>1. r \in Retained(records)' /\ gone \subseteq records'[r].cancelled
    BY <1>2, <1>4, NothingAssumption DEF Stored, Retained
  <2> QED
    BY <2>1 DEF Cancelled, CancelledBy
<1>8. /\ dropped' = dropped \cup gone
      /\ UNCHANGED <<begun, sources, reconciled, owner, turn, reached>>
  BY DEF CancelSources
<1>9. TypeOK'
  BY <1>6, <1>8 DEF RequestsInv, TypeOK, Receipts, sources
<1>10. Turned' /\ Remembered'
  BY <1>4, <1>5, <1>6, <1>7, <1>8 DEF RequestsInv, Turned, Remembered, Newest, Stored
<1>11. \A o \in Request : ~Sends(o)
  BY <1>4 DEF Sends, Stored, Derived
<1> QED
  BY <1>9, <1>10, <1>11 DEF RequestsInv

LEMMA ReleasedDerived ==
    ASSUME TypeOK PROVE Derived(Released(records))
<1>1. ASSUME NEW r \in Request, records[r] # None
      PROVE  /\ Released(records)[r] \in Receipt
             /\ Released(records)[r].cancelled = records[r].cancelled
             /\ Released(records)[r].sent = records[r].sent
  <2>1. records[r] \in Receipt
    BY <1>1 DEF TypeOK
  <2>2. \A retry \in {records[r].retry, None} :
           LET released == [records[r] EXCEPT !.reset = TRUE, !.retry = retry]
           IN  /\ released \in Receipt
               /\ released.cancelled = records[r].cancelled
               /\ released.sent = records[r].sent
    BY <2>1 DEF Receipt
  <2> QED
    BY <1>1, <2>1, <2>2 DEF Released
<1>2. \A r \in Request : records[r] = None => Released(records)[r] = None
  BY DEF Released
<1>3. Released(records) \in Receipts
  <2>1. Released(records) = [r \in Request |-> Released(records)[r]]
    BY DEF Released
  <2>2. \A r \in Request : Released(records)[r] \in Receipt \cup {None}
    BY <1>1, <1>2
  <2> QED
    BY <2>1, <2>2 DEF Receipts
<1> QED
  BY <1>1, <1>2, <1>3, NothingAssumption DEF Derived, Kept, Newest

LEMMA ClearKeepsInv ==
    ASSUME RequestsInv, NEW destructive \in BOOLEAN, Clear(destructive)
    PROVE  RequestsInv' /\ \A r \in Request : ~Sends(r)
<1> DEFINE recs == Pruned(Released(records))
<1>1. Derived(recs)
  BY ReleasedDerived, PrunedDerived DEF RequestsInv
<1> HIDE DEF recs
<1>2. Stored(recs) /\ UNCHANGED <<begun, archived, owner, turn, history>>
  BY DEF Clear, recs
<1>3. place' \in [Source -> {"new", "context", "compacted", "forgotten"}]
  BY DEF Clear, RequestsInv, TypeOK
<1>4. reconciled' \subseteq Source
  BY DEF Clear, Claimed, RequestsInv, TypeOK
<1>5. RequestsInv'
  BY <1>1, <1>2, <1>3, <1>4, CommitKeepsInv DEF history, RequestsInv, TypeOK, Derived
<1> QED
  BY <1>1, <1>2, <1>5 DEF Sends, Stored, Derived

LEMMA RetireHistoryKeepsInv ==
    ASSUME RequestsInv, NEW protected \in SUBSET Request, NEW keep \in 1..Keep,
           RetireHistory(protected, keep)
    PROVE  RequestsInv' /\ \A r \in Request : ~Sends(r)
<1> DEFINE pruned == Pruned(records)
           recs == Without(pruned, Retiring(pruned, protected, keep))
<1>1. Derived(pruned)
  BY RecordsDerived, PrunedDerived DEF RequestsInv
<1>2. keep \in Nat \ {0}
  BY NativeAssumption
<1>3. Derived(recs)
  BY <1>1, <1>2, RetiringSparesNewest, WithoutDerived DEF RequestsInv
<1>4. Stored(recs) /\ UNCHANGED <<begun, sources, reconciled, owner, turn, history>>
  BY DEF RetireHistory
<1> HIDE DEF recs
<1>5. RequestsInv'
  BY <1>3, <1>4, CommitKeepsInv DEF sources, history, RequestsInv, TypeOK, Derived
<1> QED
  BY <1>3, <1>4, <1>5 DEF Sends, Stored, Derived

LEMMA ReattachKeepsInv ==
    ASSUME RequestsInv, NEW crash \in BOOLEAN, Reattach(crash)
    PROVE  RequestsInv' /\ \A r \in Request : ~Sends(r)
<1> DEFINE recs == IF crash THEN records ELSE Settled
<1>1. Derived(recs)
  BY SettledDerived, RecordsDerived DEF RequestsInv
<1>2. /\ Stored(recs) /\ turn' = Idle /\ owner' = owner + 1 /\ owner < MaxOwners
      /\ UNCHANGED <<begun, sources, reconciled, history>>
  BY DEF Reattach
<1> HIDE DEF recs
<1>3. owner' \in 1..MaxOwners
  BY <1>2, NativeAssumption DEF RequestsInv, TypeOK
<1>4. RequestsInv'
  BY <1>1, <1>2, <1>3, CommitKeepsInv DEF sources, history, RequestsInv, TypeOK, Derived
<1> QED
  BY <1>1, <1>2, <1>4 DEF Sends, Stored, Derived

\* The steps that only read the receipts.
LEMMA OthersKeepInv ==
    ASSUME RequestsInv,
           \/ \E s \in Source : Consume(s) \/ Archive(s)
           \/ \E gone \in SUBSET Source : Compact(gone)
           \/ Execute \/ Lost \/ UNCHANGED vars
    PROVE  RequestsInv'
<1>1. ASSUME NEW s \in Source, Consume(s) PROVE RequestsInv'
  BY <1>1, ReadKeepsInv DEF Consume, RequestsInv, TypeOK, history
<1>2. ASSUME NEW s \in Source, Archive(s) PROVE RequestsInv'
  BY <1>2, ReadKeepsInv DEF Archive, RequestsInv, TypeOK, history
<1>3. ASSUME NEW gone \in SUBSET Source, Compact(gone) PROVE RequestsInv'
  BY <1>3, ReadKeepsInv DEF Compact, RequestsInv, TypeOK, history
<1>4. CASE Execute
  <2>1. /\ turn' \in Turn /\ turn'.id = turn.id /\ turn'.pc = "executing"
        /\ turn.pc = "ready"
    BY <1>4 DEF Execute, RequestsInv, TypeOK, Turn
  <2>2. UNCHANGED <<records, begun, place, archived, reconciled, cancelled, owner, reached, dropped>>
    BY <1>4 DEF Execute, sources, history
  <2>3. TypeOK' /\ Remembered'
    BY <2>1, <2>2 DEF RequestsInv, TypeOK, Remembered, Cancelled, CancelledBy, Retained
  <2>4. Turned'
    BY <2>1, <2>2 DEF RequestsInv, Turned, Newest, Retained
  <2> QED
    BY <2>3, <2>4 DEF RequestsInv
<1>5. CASE Lost
  BY <1>5, ReadKeepsInv DEF Lost, RequestsInv, TypeOK, Turn, Idle, sources, history
<1>6. CASE UNCHANGED vars
  BY <1>6, ReadKeepsInv DEF vars, sources, history, RequestsInv, TypeOK
<1> QED
  BY <1>1, <1>2, <1>3, <1>4, <1>5, <1>6

-----------------------------------------------------------------------------
(* The theorems *)

\* What a request that is sent carries.
Clean(r) ==
    /\ records[r].capture.delivered \cap dropped = {}
    /\ records[r].required \subseteq records[r].capture.delivered

LEMMA StepKeepsInv ==
    ASSUME RequestsInv, [Next]_vars
    PROVE  RequestsInv' /\ \A r \in Request : Sends(r) => Clean(r)
<1>1. ASSUME \/ \E s \in Source : Consume(s) \/ Archive(s)
             \/ \E gone \in SUBSET Source : Compact(gone)
             \/ Execute \/ Lost \/ UNCHANGED vars
      PROVE  RequestsInv' /\ \A r \in Request : ~Sends(r)
  <2>1. records' = records
    BY <1>1 DEF Consume, Archive, Compact, Execute, Lost, vars
  <2> QED
    BY <1>1, <2>1, OthersKeepInv DEF Sends
<1>2. ASSUME NEW delivered \in SUBSET Source, NEW projection \in Projection,
             Captured(delivered, projection)
      PROVE  RequestsInv' /\ \A r \in Request : ~Sends(r)
  <2>1. records' = records
    BY <1>2 DEF Captured
  <2> QED
    BY <1>2, <2>1, CapturedKeepsInv DEF Sends
<1>3. ASSUME NEW enforced \in BOOLEAN, NEW fails \in BOOLEAN,
             BeforeRequest(enforced, fails)
      PROVE  RequestsInv' /\ \A r \in Request : ~Sends(r)
  BY <1>3, BeforeRequestKeepsInv
<1>4. CASE Maintain
  BY <1>4, MaintainKeepsInv
<1>5. CASE Handoff
  BY <1>5, HandoffKeepsInv DEF Clean
<1>6. CASE Withhold
  BY <1>6, OutcomeKeepsInv DEF Withhold, Outcome
<1>7. ASSUME NEW outcome \in Outcome, Answer(outcome)
      PROVE  RequestsInv' /\ \A r \in Request : ~Sends(r)
  BY <1>7, OutcomeKeepsInv DEF Answer
<1>8. ASSUME NEW r \in Request, AuthorizeRetry(r) \/ CancelProjections(r)
      PROVE  RequestsInv' /\ \A o \in Request : ~Sends(o)
  BY <1>8, DecisionKeepsInv
<1>9. ASSUME NEW r \in Request, NEW gone \in SUBSET Source, CancelSources(r, gone)
      PROVE  RequestsInv' /\ \A o \in Request : ~Sends(o)
  BY <1>9, CancelSourcesKeepsInv
<1>10. ASSUME NEW destructive \in BOOLEAN, Clear(destructive)
       PROVE  RequestsInv' /\ \A r \in Request : ~Sends(r)
  BY <1>10, ClearKeepsInv
<1>11. ASSUME NEW protected \in SUBSET Request, NEW keep \in 1..Keep,
              RetireHistory(protected, keep)
       PROVE  RequestsInv' /\ \A r \in Request : ~Sends(r)
  BY <1>11, RetireHistoryKeepsInv
<1>12. ASSUME NEW crash \in BOOLEAN, Reattach(crash)
       PROVE  RequestsInv' /\ \A r \in Request : ~Sends(r)
  BY <1>12, ReattachKeepsInv
<1> QED
  BY <1>1, <1>2, <1>3, <1>4, <1>5, <1>6, <1>7, <1>8, <1>9, <1>10, <1>11, <1>12
  DEF Next, Steps, Decide, Around

\* The receipts, the index of cancelled input and the turn keep their types,
\* through retries, cancellations, releases, retirements and restarts.
THEOREM NativeTypeCorrect == Spec => []TypeOK
<1>1. RequestsInv => TypeOK
  BY DEF RequestsInv
<1> QED
  BY <1>1, Initially, StepKeepsInv, PTL DEF Spec

\* A request that goes to the provider carries no input the user has cancelled,
\* however long ago and in whatever request that has been retired since, and
\* all it was required to carry (native-request-store.ts, handoff).
THEOREM CancelledNeverSent == Spec => CancelledStaysOut
<1>1. RequestsInv /\ [Next]_vars =>
        [\A r \in Request : Sends(r) =>
           /\ records[r].capture.delivered \cap dropped = {}
           /\ records[r].required \subseteq records[r].capture.delivered]_vars
  BY StepKeepsInv DEF Clean
<1> QED
  BY <1>1, Initially, StepKeepsInv, PTL DEF Spec, CancelledStaysOut

-----------------------------------------------------------------------------
(* Chains of retries *)

\* A set of numbers up to N has a least one.
Least ==
    \A N \in Nat : \A B \in SUBSET (0..N) : B # {} => \E n \in B : \A m \in B : n <= m

\* The order of the naturals is well founded, restricted to what is bounded.
LEMMA LeastOf == Least
<1> SUFFICES ASSUME NEW N \in Nat, NEW B \in SUBSET (0..N), B # {}
             PROVE  \E n \in B : \A m \in B : n <= m
  BY DEF Least
<1> DEFINE C == {T \in SUBSET (0..N) : T # {} /\ \A n \in T : \E m \in T : m < n}
<1>1. IsFiniteSet(0..N)
  BY FS_Interval
<1> SUFFICES ASSUME ~\E n \in B : \A m \in B : n <= m PROVE FALSE
  OBVIOUS
<1>2. B \in C
  OBVIOUS
<1>3. C \subseteq FiniteSubsetsOf(0..N)
  BY <1>1, FS_Subset DEF FiniteSubsetsOf
<1>4. PICK T \in C : \A U \in C : <<U, T>> \notin StrictSubsetOrdering(0..N)
  <2> HIDE DEF C
  <2> QED BY <1>1, <1>2, <1>3, FS_StrictSubsetOrderingWellFounded, WFMin
<1>5. PICK x \in T : TRUE
  BY <1>4
<1>6. PICK y \in T : y < x
  BY <1>4, <1>5
<1>7. T \subseteq 0..N /\ x \in Int /\ y \in Int
  BY <1>4, <1>5, <1>6
<1>8. T \ {x} \in SUBSET (0..N) /\ T \ {x} # {}
  BY <1>6, <1>7
<1>9. ASSUME NEW n \in T \ {x} PROVE \E m \in T \ {x} : m < n
  <2>1. PICK m \in T : m < n
    BY <1>4, <1>9
  <2>2. CASE m = x
    BY <2>1, <2>2, <1>6, <1>7, <1>9
  <2> QED BY <2>1, <2>2
<1>10. T \ {x} \in C
  BY <1>8, <1>9
<1>11. <<T \ {x}, T>> \in StrictSubsetOrdering(0..N)
  BY <1>4, <1>5, <1>7, <1>8 DEF StrictSubsetOrdering
<1> QED BY <1>4, <1>10, <1>11

\* A retry is younger than what it retries.
Ordered(recs) ==
    \A r \in Retained(recs) :
        recs[r].retryOf # None => recs[r].retryOf \in Request /\ recs[r].retryOf < r

\* f names the first request of the chain that a request belongs to, up to N.
FirstOf(recs, N, f) ==
    f = [r \in 1..N |->
              IF recs[r] = None \/ recs[r].retryOf = None THEN r
              ELSE f[recs[r].retryOf]]

\* There is such an f: otherwise take the least N that has none, and extend the
\* one before.
LEMMA FirstExists ==
    ASSUME NEW recs, Ordered(recs)
    PROVE  \E f : FirstOf(recs, MaxRequests, f)
<1> DEFINE B == {N \in 0..MaxRequests : ~\E f : FirstOf(recs, N, f)}
<1>0. MaxRequests \in Nat
  BY NativeAssumption
<1> SUFFICES ASSUME B # {} PROVE FALSE
  BY <1>0
<1>1. PICK N \in B : \A m \in B : N <= m
  <2> HIDE DEF B
  <2>1. B \in SUBSET (0..MaxRequests)
    BY DEF B
  <2> QED BY <1>0, <2>1, LeastOf DEF Least
<1>2. N \in Nat /\ N <= MaxRequests
  BY <1>0, <1>1
<1>3. CASE N = 0
  <2> DEFINE f == [n \in 1..0 |-> None]
  <2>1. 1..0 = {}
    OBVIOUS
  <2>2. f = [r \in 1..0 |->
            IF recs[r] = None \/ recs[r].retryOf = None THEN r
            ELSE f[recs[r].retryOf]]
    BY <2>1
  <2>3. FirstOf(recs, 0, f)
    <3> HIDE DEF f
    <3> QED BY <2>2 DEF FirstOf
  <2> QED BY <1>1, <1>3, <2>3
<1>4. CASE N # 0
  <2>1. N - 1 \in 0..MaxRequests /\ ~(N <= N - 1)
    BY <1>0, <1>2, <1>4
  <2>2. N - 1 \notin B
    BY <1>1, <2>1
  <2>3. PICK g : FirstOf(recs, N - 1, g)
    BY <2>1, <2>2
  <2> DEFINE f == [r \in 1..N |-> IF r # N THEN g[r]
                                  ELSE IF recs[N] = None \/ recs[N].retryOf = None
                                          THEN N
                                  ELSE g[recs[N].retryOf]]
  <2>4. \A r \in 1..N : r \in Request /\ (r # N => r \in 1..(N - 1))
    BY <1>0, <1>2 DEF Request
  <2>5. \A r \in 1..N : recs[r] # None /\ recs[r].retryOf # None =>
            /\ recs[r].retryOf \in 1..N /\ recs[r].retryOf # N
            /\ recs[r].retryOf \in 1..(N - 1)
    <3> TAKE r \in 1..N
    <3> HAVE recs[r] # None /\ recs[r].retryOf # None
    <3>1. recs[r].retryOf \in 1..MaxRequests /\ recs[r].retryOf < r
      BY <2>4 DEF Ordered, Retained, Request
    <3> QED BY <3>1, <1>2
  <2>6. \A r \in 1..(N - 1) :
           g[r] =
               IF recs[r] = None \/ recs[r].retryOf = None THEN r
               ELSE g[recs[r].retryOf]
    BY <2>3 DEF FirstOf
  <2>7. ASSUME NEW r \in 1..N
        PROVE  f[r] =
               IF recs[r] = None \/ recs[r].retryOf = None THEN r
               ELSE f[recs[r].retryOf]
    <3>1. recs[r] # None /\ recs[r].retryOf # None =>
              f[recs[r].retryOf] = g[recs[r].retryOf]
      BY <2>5
    <3>2. CASE r = N
      BY <3>1, <3>2
    <3>3. CASE r # N
      BY <2>4, <2>6, <3>1, <3>3
    <3> QED BY <3>2, <3>3
  <2>8. FirstOf(recs, N, f)
    <3>1. f = [r \in 1..N |-> f[r]]
      OBVIOUS
    <3> HIDE DEF f
    <3> QED BY <2>7, <3>1 DEF FirstOf
  <2> QED BY <1>1, <2>8
<1> QED BY <1>3, <1>4

\* The chains of retirement are what one f tells apart.
LEMMA ChainsAre ==
    ASSUME NEW recs, Ordered(recs)
    PROVE  \E f :
             /\ \A r \in Retained(recs) :
                    recs[r].retryOf # None => f[r] = f[recs[r].retryOf]
             /\ Chains(recs) =
                    {{o \in Retained(recs) : f[o] = f[r]} : r \in Retained(recs)}
<1> DEFINE f == CHOOSE f : FirstOf(recs, MaxRequests, f)
<1>1. FirstOf(recs, MaxRequests, f)
  BY FirstExists
<1>2. Chains(recs) = {{o \in Retained(recs) : f[o] = f[r]} : r \in Retained(recs)}
  BY DEF Chains, FirstOf, Request
<1> HIDE DEF f
<1>3. \A r \in 1..MaxRequests :
           f[r] =
               IF recs[r] = None \/ recs[r].retryOf = None THEN r
               ELSE f[recs[r].retryOf]
  BY <1>1 DEF FirstOf
<1>4. \A r \in Retained(recs) : recs[r].retryOf # None => f[r] = f[recs[r].retryOf]
  BY <1>3 DEF Retained, Request
<1> QED BY <1>2, <1>4

-----------------------------------------------------------------------------
(* The validation never refuses *)

\* What is checked of one receipt (validate): what was decided about it goes
\* with a withheld request, and what was sent was complete.
Fine(record) ==
    /\ record.retry # None => Withheld(record) /\ (record.reset => Retried(record))
    /\ record.cancelled # {} =>
           Withheld(record) /\ record.cancelled \subseteq record.required
    /\ record.unprojected => Withheld(record) /\ record.required = {}
    /\ record.outcome = "withheld" => ~record.sent
    /\ record.outcome \in {"success", "failure"} => record.sent
    /\ record.sent => Complete(record)

\* What is checked of a retry and of what it retries: each names the other.
Chained(recs) ==
    \A r \in Retained(recs) :
        /\ Retried(recs[r]) =>
             /\ recs[r].retry.request \in Retained(recs)
             /\ recs[r].retry.request > r
             /\ recs[recs[r].retry.request].retryOf = r
        /\ recs[r].retryOf # None =>
             /\ recs[r].retryOf \in Retained(recs) /\ recs[r].retryOf < r
             /\ recs[recs[r].retryOf].retry = [owner |-> recs[r].owner, request |-> r]

\* The records pass the validation.
Sound(recs) ==
    /\ recs \in Receipts
    /\ \A r \in Retained(recs) : Fine(recs[r])
    /\ Chained(recs)

\* The request under way has no outcome yet, and is not sent before it executes.
Pending ==
    turn.id # None =>
        /\ records[turn.id].outcome = None
        /\ turn.pc # "executing" => ~records[turn.id].sent

\* What no step breaks.
NInv == RequestsInv /\ Sound(records) /\ Pending

\* Removing receipts takes what they are linked to along.
Closed(recs, gone) ==
    \A r \in Retained(recs) \cap gone :
        /\ recs[r].retryOf # None => recs[r].retryOf \in gone
        /\ Retried(recs[r]) => recs[r].retry.request \in gone

\* A request is a number.
LEMMA RequestNotNone == \A r \in Request : r # None /\ r \in Int
BY NativeAssumption DEF Request

\* Such a removal leaves sound records.
LEMMA SoundWithout ==
    ASSUME NEW recs, Sound(recs), NEW gone, Closed(recs, gone)
    PROVE  Sound(Without(recs, gone))
<1> DEFINE new == Without(recs, gone)
<1>1. new \in Receipts
  BY DEF Sound, Receipts, Without
<1>2. \A r \in Request : new[r] = IF r \in gone THEN None ELSE recs[r]
  BY DEF Without
<1> HIDE DEF new
<1>3. \A r \in Retained(new) :
         r \in Retained(recs) /\ r \in Request /\ r \notin gone /\ new[r] = recs[r]
  BY <1>2 DEF Retained
<1>4. \A r \in Retained(recs) : r \notin gone => r \in Retained(new) /\ new[r] = recs[r]
  BY <1>2 DEF Retained
<1>5. \A r \in Retained(new) : Fine(new[r])
  BY <1>3 DEF Sound
<1>6. Chained(new)
  <2> SUFFICES ASSUME NEW r \in Retained(new)
               PROVE  /\ Retried(new[r]) =>
                           /\ new[r].retry.request \in Retained(new)
                           /\ new[r].retry.request > r
                           /\ new[new[r].retry.request].retryOf = r
                      /\ new[r].retryOf # None =>
                           /\ new[r].retryOf \in Retained(new) /\ new[r].retryOf < r
                           /\ new[new[r].retryOf].retry =
                                  [owner |-> new[r].owner, request |-> r]
    BY DEF Chained
  <2>1. /\ r \in Retained(recs) /\ r \in Request /\ r \notin gone
        /\ new[r] = recs[r] /\ r # None
    BY <1>3, RequestNotNone
  <2>2. ASSUME Retried(recs[r])
        PROVE  /\ recs[r].retry.request \in Retained(new)
               /\ recs[r].retry.request > r
               /\ new[recs[r].retry.request].retryOf = r
    <3> DEFINE q == recs[r].retry.request
    <3>1. q \in Retained(recs) /\ q > r /\ recs[q].retryOf = r
      BY <2>1, <2>2 DEF Sound, Chained
    <3>2. q \notin gone
      BY <2>1, <3>1 DEF Closed
    <3> QED BY <3>1, <3>2, <1>4
  <2>3. ASSUME recs[r].retryOf # None
        PROVE  /\ recs[r].retryOf \in Retained(new) /\ recs[r].retryOf < r
               /\ new[recs[r].retryOf].retry = [owner |-> recs[r].owner, request |-> r]
    <3> DEFINE q == recs[r].retryOf
    <3>1. /\ q \in Retained(recs) /\ q < r
          /\ recs[q].retry = [owner |-> recs[r].owner, request |-> r]
      BY <2>1, <2>3 DEF Sound, Chained
    <3>2. recs[q].retry # None /\ recs[q].retry.request = r
      <4>1. recs[q] \in Receipt
        BY <3>1 DEF Sound, Receipts, Retained
      <4>2. [owner |-> recs[r].owner, request |-> r] \in Authorization
        <5>1. recs[r] \in Receipt
          BY <2>1 DEF Sound, Receipts, Retained
        <5> QED BY <5>1, <2>1 DEF Receipt, Authorization
      <4> QED BY <3>1, <4>2, NothingAssumption
    <3>3. q \notin gone
      BY <2>1, <3>1, <3>2 DEF Closed, Retried
    <3> QED BY <3>1, <3>3, <1>4
  <2> QED BY <2>1, <2>2, <2>3
<1> QED BY <1>1, <1>5, <1>6 DEF Sound, new

\* Pruning takes no receipt that is linked,
LEMMA SoundPruned ==
    ASSUME NEW recs, Sound(recs)
    PROVE  Sound(Pruned(recs))
<1>1. Closed(recs, Superseded(recs))
  BY DEF Closed, Superseded, Linked, Retried
<1> QED BY <1>1, SoundWithout DEF Pruned

\* nor does pruning before a request,
LEMMA SoundPrunedBefore ==
    ASSUME NEW recs, Sound(recs)
    PROVE  Sound(PrunedBefore(recs))
<1>1. Closed(recs, Superseded(recs) \cup Oldest(Empty(recs), Keep))
  <2>1. \A r \in Superseded(recs) \cup Oldest(Empty(recs), Keep) : ~Linked(recs[r])
    BY DEF Superseded, Oldest, Empty
  <2> QED BY <2>1 DEF Closed, Linked, Retried
<1> QED BY <1>1, SoundWithout DEF PrunedBefore

\* and retirement takes whole chains.
LEMMA SoundRetired ==
    ASSUME NEW recs, Sound(recs), NEW protected, NEW keep
    PROVE  Sound(Without(recs, Retiring(recs, protected, keep)))
<1> DEFINE gone == Retiring(recs, protected, keep)
<1>1. Ordered(recs)
  BY DEF Ordered, Sound, Chained, Retained
<1>2. PICK f : /\ \A r \in Retained(recs) :
                      recs[r].retryOf # None => f[r] = f[recs[r].retryOf]
               /\ Chains(recs) =
                    {{o \in Retained(recs) : f[o] = f[r]} : r \in Retained(recs)}
  BY <1>1, ChainsAre
<1>3. \A r \in gone : \E chain \in Chains(recs) : r \in chain /\ chain \subseteq gone
  BY DEF Retiring, Retirable
<1> HIDE DEF gone
<1>4. \A r, o \in Retained(recs) : r \in gone /\ f[o] = f[r] => o \in gone
  <2> SUFFICES ASSUME NEW r \in Retained(recs), NEW o \in Retained(recs), r \in gone,
                      f[o] = f[r]
               PROVE  o \in gone
    OBVIOUS
  <2>1. PICK chain \in Chains(recs) : r \in chain /\ chain \subseteq gone
    BY <1>3
  <2>2. PICK q \in Retained(recs) : chain = {p \in Retained(recs) : f[p] = f[q]}
    BY <1>2
  <2> QED BY <2>1, <2>2
<1>5. Closed(recs, gone)
  <2> SUFFICES ASSUME NEW r \in Retained(recs), r \in gone
               PROVE  /\ recs[r].retryOf # None => recs[r].retryOf \in gone
                      /\ Retried(recs[r]) => recs[r].retry.request \in gone
    BY DEF Closed
  <2>1. recs[r].retryOf # None => recs[r].retryOf \in gone
    BY <1>2, <1>4 DEF Sound, Chained
  <2>2. ASSUME Retried(recs[r]) PROVE recs[r].retry.request \in gone
    <3> DEFINE q == recs[r].retry.request
    <3>1. q \in Retained(recs) /\ recs[q].retryOf = r
      BY <2>2 DEF Sound, Chained
    <3>2. r # None
      BY RequestNotNone DEF Retained
    <3>3. f[q] = f[r]
      BY <1>2, <3>1, <3>2
    <3> QED BY <1>4, <3>1, <3>3
  <2> QED BY <2>1, <2>2
<1> QED BY <1>5, SoundWithout DEF gone

\* A decision about a receipt, or an outcome: what it is linked to stays.
Revised(a, b) ==
    /\ b \in Receipt /\ Fine(b) /\ b.owner = a.owner /\ b.retryOf = a.retryOf
    /\ b.retry = a.retry \/ (~Retried(a) /\ ~Retried(b))

\* Decisions leave sound records.
LEMMA SoundRevised ==
    ASSUME NEW recs, Sound(recs), NEW new, new = [r \in Request |-> new[r]],
           \A r \in Request : recs[r] = None => new[r] = None,
           \A r \in Request : recs[r] # None => Revised(recs[r], new[r])
    PROVE  Sound(new)
<1>1. new \in Receipts
  BY DEF Receipts, Revised
<1>2. \A r \in Retained(new) :
         r \in Retained(recs) /\ r \in Request /\ Revised(recs[r], new[r])
  BY DEF Retained
<1>3. \A r \in Retained(recs) : r \in Retained(new) /\ Revised(recs[r], new[r])
  BY NothingAssumption DEF Retained, Revised
<1>4. \A r \in Retained(new) : Fine(new[r])
  BY <1>2 DEF Revised
<1>5. Chained(new)
  <2> SUFFICES ASSUME NEW r \in Retained(new)
               PROVE  /\ Retried(new[r]) =>
                           /\ new[r].retry.request \in Retained(new)
                           /\ new[r].retry.request > r
                           /\ new[new[r].retry.request].retryOf = r
                      /\ new[r].retryOf # None =>
                           /\ new[r].retryOf \in Retained(new) /\ new[r].retryOf < r
                           /\ new[new[r].retryOf].retry =
                                  [owner |-> new[r].owner, request |-> r]
    BY DEF Chained
  <2>1. r \in Retained(recs) /\ r \in Request /\ Revised(recs[r], new[r]) /\ r # None
    BY <1>2, RequestNotNone
  <2>2. ASSUME Retried(new[r])
        PROVE  /\ new[r].retry.request \in Retained(new)
               /\ new[r].retry.request > r
               /\ new[new[r].retry.request].retryOf = r
    <3>1. new[r].retry = recs[r].retry /\ Retried(recs[r])
      BY <2>1, <2>2 DEF Revised, Retried
    <3>2. recs[r].retry.request \in Retained(recs) /\ recs[r].retry.request > r
          /\ recs[recs[r].retry.request].retryOf = r
      BY <2>1, <3>1 DEF Sound, Chained
    <3> QED BY <3>1, <3>2, <1>3 DEF Revised
  <2>3. ASSUME new[r].retryOf # None
        PROVE  /\ new[r].retryOf \in Retained(new) /\ new[r].retryOf < r
               /\ new[new[r].retryOf].retry = [owner |-> new[r].owner, request |-> r]
    <3> DEFINE q == recs[r].retryOf
               a == [owner |-> recs[r].owner, request |-> r]
    <3>1. new[r].retryOf = q /\ new[r].owner = recs[r].owner
      BY <2>1 DEF Revised
    <3>2. q \in Retained(recs) /\ q < r /\ recs[q].retry = a
      BY <2>1, <2>3, <3>1 DEF Sound, Chained
    <3>3. Retried(recs[q])
      <4>1. a \in Authorization
        <5>1. recs[r] \in Receipt
          BY <2>1 DEF Sound, Receipts, Retained
        <5> QED BY <5>1, <2>1 DEF Receipt, Authorization
      <4>2. a # None /\ a.request # None
        BY <2>1, <4>1, NothingAssumption
      <4> QED BY <3>2, <4>2 DEF Retried
    <3>4. new[q].retry = recs[q].retry /\ q \in Retained(new)
      BY <3>2, <3>3, <1>3 DEF Revised
    <3> QED BY <3>1, <3>2, <3>4
  <2> QED BY <2>2, <2>3
<1> QED BY <1>1, <1>4, <1>5 DEF Sound

\* A receipt about which nothing was decided.
LEMMA Unrevised ==
    ASSUME NEW recs, Sound(recs), NEW r \in Request, recs[r] # None
    PROVE  Revised(recs[r], recs[r])
<1>1. recs[r] \in Receipt
  BY DEF Sound, Receipts
<1>2. Fine(recs[r])
  BY DEF Sound, Retained
<1> QED BY <1>1, <1>2 DEF Revised

\* One decision.
LEMMA SoundUpdated ==
    ASSUME NEW recs, Sound(recs), NEW r \in Request, recs[r] # None, NEW record,
           Revised(recs[r], record)
    PROVE  Sound([recs EXCEPT ![r] = record])
<1> DEFINE new == [recs EXCEPT ![r] = record]
<1>1. /\ new = [o \in Request |-> new[o]]
      /\ \A o \in Request : new[o] = IF o = r THEN record ELSE recs[o]
  BY DEF Sound, Receipts
<1> HIDE DEF new
<1>2. \A o \in Request : recs[o] = None => new[o] = None
  BY <1>1
<1>3. \A o \in Request : recs[o] # None => Revised(recs[o], new[o])
  BY <1>1, Unrevised
<1>4. Sound(new)
  BY <1>1, <1>2, <1>3, SoundRevised
<1> QED BY <1>4 DEF new

\* A pending request gets its outcome.
LEMMA FinishedFine ==
    ASSUME NEW record \in Receipt, Fine(record), record.outcome = None,
           NEW outcome \in Outcome,
           (outcome = "withheld") <=> ~record.sent
    PROVE  Revised(record, [record EXCEPT !.outcome = outcome])
<1> DEFINE new == [record EXCEPT !.outcome = outcome]
<1>1. new \in Receipt
  BY DEF Receipt
<1>2. /\ new.outcome = outcome /\ new.owner = record.owner
      /\ new.retryOf = record.retryOf
      /\ new.retry = record.retry /\ new.cancelled = record.cancelled
      /\ new.sent = record.sent
      /\ new.unprojected = record.unprojected /\ new.required = record.required
      /\ new.capture = record.capture
  BY DEF Receipt
<1>3. None # "withheld" =>
         record.retry = None /\ record.cancelled = {} /\ ~record.unprojected
  BY DEF Fine, Withheld
<1>4. "withheld" # None
  BY NothingAssumption DEF Outcome
<1> HIDE DEF new
<1>5. Fine(new)
  BY <1>2, <1>3, <1>4 DEF Fine, Complete, Outcome
<1>6. Revised(record, new)
  BY <1>1, <1>2, <1>5 DEF Revised
<1> QED BY <1>6 DEF new

\* A request begins without outcome or decisions.
FreshReceipt(record) ==
    /\ record.owner = owner /\ record.retry = None /\ record.cancelled = {}
    /\ ~record.unprojected
    /\ record.outcome = None /\ ~record.sent

\* A retry that begins takes the authorization of what it retries.
LEMMA SoundAppended ==
    ASSUME TypeOK, NEW recs, Sound(recs), NEW r \in Request, recs[r] = None,
           \A o \in Retained(recs) : o < r,
           NEW record \in Receipt, FreshReceipt(record),
           record.retryOf \in Waiting(recs) \cup {None}
    PROVE  Sound(Appended(recs, r, record))
<1> DEFINE new == Appended(recs, r, record)
           of == record.retryOf
           used == [owner |-> owner, request |-> r]
           held == [recs[of] EXCEPT !.retry = used]
<1>1. \A o \in Request :
         new[o] = IF o = r THEN record ELSE IF o = of THEN held ELSE recs[o]
  BY DEF Appended
<1>2. new = [o \in Request |-> new[o]]
  BY DEF Appended
<1>3. /\ used \in Authorization /\ used # None /\ r # None /\ used.request = r
      /\ None \notin Receipt
  BY RequestNotNone, NothingAssumption DEF TypeOK, Authorization
<1>4. ASSUME of # None
      PROVE  /\ of \in Retained(recs) /\ of \in Request /\ of < r /\ of # r
             /\ held \in Receipt /\ Fine(held)
             /\ held.owner = recs[of].owner /\ held.retryOf = recs[of].retryOf
             /\ held.retry = used /\ ~Retried(recs[of])
  <2>1. of \in Retained(recs) /\ HoldPending(recs[of]) /\ Authorized(recs[of])
    BY <1>4 DEF Waiting
  <2>2. of \in Request /\ of < r /\ of # r
    BY <2>1, RequestNotNone DEF Retained
  <2>3. recs[of] \in Receipt /\ Fine(recs[of])
    BY <2>1 DEF Sound, Receipts, Retained
  <2>4. held \in Receipt
    BY <2>3, <1>3 DEF Receipt
  <2>5. /\ held.retry = used /\ held.owner = recs[of].owner
        /\ held.retryOf = recs[of].retryOf
        /\ held.outcome = recs[of].outcome /\ held.required = recs[of].required
        /\ held.capture = recs[of].capture /\ held.cancelled = recs[of].cancelled
        /\ held.unprojected = recs[of].unprojected /\ held.sent = recs[of].sent
    BY <2>3 DEF Receipt
  <2> HIDE DEF held, used, of
  <2>6. Withheld(held) /\ Retried(held)
    BY <2>1, <2>5, <1>3 DEF HoldPending, Held, Withheld, Retried
  <2>7. Fine(held)
    BY <2>3, <2>5, <2>6 DEF Fine, Withheld, Complete
  <2> QED BY <2>1, <2>2, <2>4, <2>5, <2>7 DEF Authorized, Retried
<1>5. Fine(record) /\ ~Retried(record)
  BY NothingAssumption DEF FreshReceipt, Fine, Retried, Outcome
<1> HIDE DEF new, held, used, of
<1>11. \A o \in Request : o = of => of # None
  BY RequestNotNone
<1>6. \A o \in Request : new[o] # None <=> (o = r \/ recs[o] # None)
  BY <1>1, <1>3, <1>4, <1>11 DEF Retained
<1>7. new \in Receipts
  BY <1>1, <1>2, <1>4, <1>11 DEF Receipts, Sound
<1>8. ASSUME NEW o \in Retained(new) PROVE Fine(new[o])
  BY <1>1, <1>4, <1>5, <1>6, <1>11 DEF Retained, Sound
<1>9. ASSUME NEW o \in Retained(recs)
      PROVE  /\ o \in Retained(new) /\ o # r /\ new[o].owner = recs[o].owner
             /\ new[o].retryOf = recs[o].retryOf
             /\ o # of => new[o] = recs[o]
             /\ Retried(recs[o]) => new[o].retry = recs[o].retry
  BY <1>1, <1>4, <1>6, <1>11 DEF Retained
<1>10. Chained(new)
  <2> SUFFICES ASSUME NEW o \in Retained(new)
               PROVE  /\ Retried(new[o]) =>
                           /\ new[o].retry.request \in Retained(new)
                           /\ new[o].retry.request > o
                           /\ new[new[o].retry.request].retryOf = o
                      /\ new[o].retryOf # None =>
                           /\ new[o].retryOf \in Retained(new) /\ new[o].retryOf < o
                           /\ new[new[o].retryOf].retry =
                                  [owner |-> new[o].owner, request |-> o]
    BY DEF Chained
  <2>1. r \in Retained(new) /\ new[r] = record
    BY <1>1, <1>6 DEF Retained
  <2>2. CASE o = r
    <3>1. ~Retried(new[o]) /\ new[o].retryOf = of /\ new[o].owner = owner
      BY <1>5, <2>1, <2>2 DEF of, FreshReceipt
    <3>2. of # None => of \in Retained(new) /\ of < o /\ new[of].retry = used
      BY <1>1, <1>4, <1>9, <2>2
    <3> QED BY <2>2, <3>1, <3>2 DEF used
  <2>3. CASE o # r
    <3>1. o \in Retained(recs) /\ o \in Request /\ o # None
      BY <2>3, <1>6, RequestNotNone DEF Retained
    <3>2. ASSUME Retried(new[o])
          PROVE  /\ new[o].retry.request \in Retained(new)
                 /\ new[o].retry.request > o
                 /\ new[new[o].retry.request].retryOf = o
      <4>1. CASE o = of
        <5>1. new[o].retry.request = r
          BY <4>1, <1>1, <1>3, <1>4, <2>3, <3>1
        <5>2. o < r /\ o \in Int /\ r \in Int
          BY <3>1, RequestNotNone
        <5>3. record.retryOf = o
          BY <4>1 DEF of
        <5> QED BY <5>1, <5>2, <5>3, <2>1
      <4>2. CASE o # of
        <5>1. new[o] = recs[o]
          BY <3>1, <4>2, <1>9
        <5>2. /\ recs[o].retry.request \in Retained(recs) /\ recs[o].retry.request > o
              /\ recs[recs[o].retry.request].retryOf = o
          BY <5>1, <3>1, <3>2 DEF Sound, Chained
        <5> QED BY <5>1, <5>2, <1>9
      <4> QED BY <4>1, <4>2
    <3>3. ASSUME new[o].retryOf # None
          PROVE  /\ new[o].retryOf \in Retained(new) /\ new[o].retryOf < o
                 /\ new[new[o].retryOf].retry = [owner |-> new[o].owner, request |-> o]
      <4> DEFINE q == recs[o].retryOf
                 a == [owner |-> recs[o].owner, request |-> o]
      <4>1. new[o].retryOf = q /\ new[o].owner = recs[o].owner
        BY <3>1, <1>9
      <4>2. q \in Retained(recs) /\ q < o /\ recs[q].retry = a
        BY <3>1, <3>3, <4>1 DEF Sound, Chained
      <4>3. Retried(recs[q])
        <5>1. recs[o] \in Receipt
          BY <3>1 DEF Sound, Receipts, Retained
        <5>2. a \in Authorization /\ a.request = o
          BY <5>1, <3>1 DEF Receipt, Authorization
        <5> QED BY <4>2, <5>2, <3>1, NothingAssumption DEF Retried
      <4> QED BY <4>1, <4>2, <4>3, <1>9
    <3> QED BY <3>2, <3>3
  <2> QED BY <2>2, <2>3
<1> QED BY <1>7, <1>8, <1>10 DEF Sound, new

\* A request that is not executing ends withheld.
LEMMA SoundSettled ==
    ASSUME NInv, turn.pc # "executing" PROVE Sound(Settled)
<1>1. CASE turn.id = None
  BY <1>1 DEF Settled, NInv
<1>2. CASE turn.id # None
  <2> DEFINE r == turn.id
  <2>1. /\ r \in Request /\ records[r] # None /\ r \in Retained(records)
        /\ records[r] \in Receipt
    BY <1>2 DEF NInv, RequestsInv, Turned, Newest, TypeOK, Retained
  <2>2. /\ records[r].outcome = None /\ ~records[r].sent /\ Fine(records[r])
        /\ Sound(records)
    BY <1>2, <2>1 DEF NInv, Pending, Sound
  <2>3. Revised(records[r], [records[r] EXCEPT !.outcome = "withheld"])
    BY <2>1, <2>2, FinishedFine DEF Outcome
  <2>4. Finished(records, r, "withheld") =
            [records EXCEPT ![r] = [records[r] EXCEPT !.outcome = "withheld"]]
    BY <2>1, <2>2 DEF Finished, Sound, Receipts
  <2> QED BY <1>2, <2>1, <2>2, <2>3, <2>4, SoundUpdated DEF Settled
<1> QED BY <1>1, <1>2

\* recs leaves the outcomes of what it retains.
Steady(recs) ==
    \A r \in Request : recs[r] # None =>
        recs[r].outcome = records[r].outcome /\ recs[r].sent = records[r].sent

\* A step that stores sound records keeps the invariant if it leaves the request
\* under way alone or ends it.
LEMMA CommitKeepsNInv ==
    ASSUME NInv, RequestsInv', NEW recs, Stored(recs), Sound(recs),
           turn' = Idle \/ (turn' = turn /\ Steady(recs))
    PROVE  NInv'
<1>1. Sound(records)'
  BY DEF Stored, Sound, Receipts, Chained, Retained
<1>2. Pending'
  <2>1. CASE turn' = Idle
    BY <2>1 DEF Pending, Idle
  <2>2. CASE turn' = turn /\ Steady(recs)
    <3>1. turn'.id # None => turn'.id \in Request /\ records'[turn'.id] # None
      BY DEF RequestsInv, Turned, Newest
    <3> QED BY <2>2, <3>1 DEF Pending, NInv, Stored, Steady
  <2> QED BY <2>1, <2>2
<1> QED BY <1>1, <1>2 DEF NInv

\* A step that stores nothing keeps it.
LEMMA ReadKeepsNInv ==
    ASSUME NInv, RequestsInv', records' = records,
           turn' = Idle \/ (turn'.id = turn.id
                            /\ (turn.pc = "executing" => turn'.pc = "executing"))
    PROVE  NInv'
<1>1. Sound(records)'
  BY DEF NInv, Sound, Receipts, Chained, Retained
<1>2. Pending'
  BY DEF NInv, Pending, Idle
<1> QED BY <1>1, <1>2 DEF NInv

\* So does a step that begins a request.
LEMMA BegunKeepsNInv ==
    ASSUME NInv, RequestsInv', NEW recs, Sound(recs), begun + 1 \in Request,
           recs[begun + 1] = None,
           \A o \in Retained(recs) : o <= begun,
           NEW record \in Receipt, FreshReceipt(record),
           record.retryOf \in Waiting(recs) \cup {None},
           Stored(Appended(recs, begun + 1, record)), turn'.id = begun + 1
    PROVE  NInv'
<1> DEFINE r == begun + 1
           new == Appended(recs, r, record)
<1>1. begun \in Int
  BY DEF NInv, RequestsInv, TypeOK
<1>2. \A o \in Retained(recs) : o < r
  BY <1>1, RequestNotNone DEF Retained
<1>3. TypeOK
  BY DEF NInv, RequestsInv
<1>4. Sound(new)
  BY <1>2, <1>3, SoundAppended
<1>5. new[r] = record
  BY DEF Appended
<1> HIDE DEF new
<1>6. records' = new
  BY DEF Stored, new
<1>7. Sound(records)'
  BY <1>4, <1>6 DEF Sound, Receipts, Chained, Retained
<1>8. Pending'
  BY <1>5, <1>6 DEF Pending, FreshReceipt
<1> QED BY <1>7, <1>8 DEF NInv

\* One lemma per action: the handler before a request,
LEMMA BeforeRequestKeepsNInv ==
    ASSUME NInv, RequestsInv', NEW enforced \in BOOLEAN, NEW fails \in BOOLEAN,
           BeforeRequest(enforced, fails)
    PROVE  NInv'
<1> DEFINE recs == PrunedBefore(Settled)
<1>1. Sound(recs)
  BY SoundSettled, SoundPrunedBefore DEF BeforeRequest
<1>2. Derived(recs)
  BY SettledDerived, PrunedBeforeDerived DEF NInv, RequestsInv
<1>3. CASE Admissible(recs, enforced)
  <2>1. PICK retryOf \in RetryOf(recs) :
           Stored(Appended(recs, begun + 1,
                  NewRecord(turn.capture, Demanded(recs, enforced), retryOf)))
    BY <1>3 DEF BeforeRequest
  <2> DEFINE record == NewRecord(turn.capture, Demanded(recs, enforced), retryOf)
  <2>2. retryOf \in Waiting(recs) \cup {None}
    BY DEF RetryOf
  <2>3. turn.capture \in Capture
    BY DEF BeforeRequest, NInv, RequestsInv, Turned
  <2>4. Demanded(recs, enforced) \subseteq Source
    BY <2>3 DEF Demanded, Capture
  <2>5. retryOf \in Request \cup {None}
    BY <2>2 DEF Waiting, Retained
  <2>6. record \in Receipt /\ record.retryOf = retryOf
    BY <2>3, <2>4, <2>5 DEF NewRecord, Receipt, NInv, RequestsInv, TypeOK
  <2>7. FreshReceipt(record)
    BY DEF NewRecord, FreshReceipt
  <2>8. begun + 1 \in Request /\ turn'.id = begun + 1
    BY <1>3 DEF BeforeRequest, Idle
  <2> HIDE DEF record, recs
  <2>9. Stored(Appended(recs, begun + 1, record))
    BY <2>1 DEF record
  <2>10. \A o \in Retained(recs) : o <= begun
    BY <1>2, KeptRetained DEF Derived, NInv, RequestsInv
  <2>11. recs[begun + 1] = None
    BY <2>8, <2>10 DEF Retained, NInv, RequestsInv, TypeOK
  <2> QED BY <1>1, <2>2, <2>6, <2>7, <2>8, <2>9, <2>10, <2>11, BegunKeepsNInv
<1>4. CASE ~Admissible(recs, enforced)
  <2>1. Stored(recs) /\ turn' = Idle
    BY <1>4 DEF BeforeRequest
  <2> HIDE DEF recs
  <2> QED BY <1>1, <2>1, CommitKeepsNInv
<1> QED BY <1>3, <1>4

\* a request of the host itself,
LEMMA MaintainKeepsNInv ==
    ASSUME NInv, RequestsInv', Maintain PROVE NInv'
<1> DEFINE record == NewRecord([captured |-> {}, delivered |-> {}, projection |-> "none"],
                              {}, None)
<1>1. record \in Receipt /\ record.retryOf = None /\ FreshReceipt(record)
  BY DEF NewRecord, Receipt, Capture, Projection, FreshReceipt, NInv, RequestsInv, TypeOK
<1>2. begun + 1 \in Request /\ begun' = begun + 1
  BY NativeAssumption DEF Maintain, NInv, RequestsInv, TypeOK, Request
<1>3. Stored(Appended(records, begun + 1, record)) /\ turn'.id = begun + 1
  BY <1>2 DEF Maintain, Idle
<1> HIDE DEF record
<1>4. \A o \in Retained(records) : o <= begun
  BY DEF NInv, RequestsInv, Turned
<1>5. records[begun + 1] = None
  BY <1>2, <1>4 DEF Retained, NInv, RequestsInv, TypeOK
<1>6. Sound(records)
  BY DEF NInv
<1> QED BY <1>1, <1>2, <1>3, <1>4, <1>5, <1>6, BegunKeepsNInv

\* (the receipt of the request under way)
LEMMA UnderWay ==
    ASSUME NInv, turn.pc = "executing"
    PROVE  /\ turn.id \in Request /\ records[turn.id] # None
           /\ records[turn.id] \in Receipt
           /\ Fine(records[turn.id]) /\ records[turn.id].outcome = None
           /\ Sound(records) /\ turn.id # None
BY DEF NInv, RequestsInv, Turned, Newest, TypeOK, Sound, Retained, Pending

\* the end of a request,
LEMMA OutcomeKeepsNInv ==
    ASSUME NInv, RequestsInv', NEW outcome \in Outcome, turn.pc = "executing",
           (outcome = "withheld") <=> ~records[turn.id].sent,
           Stored(Finished(records, turn.id, outcome)), turn' = Idle
    PROVE  NInv'
<1> DEFINE r == turn.id
           record == [records[r] EXCEPT !.outcome = outcome]
<1>1. /\ r \in Request /\ records[r] # None /\ records[r] \in Receipt
      /\ Fine(records[r]) /\ records[r].outcome = None /\ Sound(records)
  BY UnderWay
<1>2. Revised(records[r], record)
  BY <1>1, FinishedFine
<1>3. Finished(records, r, outcome) = [records EXCEPT ![r] = record]
  BY <1>1 DEF Finished, Sound, Receipts
<1> HIDE DEF record
<1>4. Sound([records EXCEPT ![r] = record])
  BY <1>1, <1>2, SoundUpdated
<1> QED BY <1>3, <1>4, CommitKeepsNInv

\* and its hand-over to the provider.
LEMMA HandoffKeepsNInv ==
    ASSUME NInv, RequestsInv', Handoff PROVE NInv'
<1> DEFINE r == turn.id
           clean == /\ records[r].capture.delivered \cap Cancelled(records) = {}
                    /\ Complete(records[r])
<1>1. /\ r \in Request /\ records[r] # None /\ records[r] \in Receipt /\ r # None
      /\ Fine(records[r]) /\ records[r].outcome = None /\ Sound(records)
      /\ ~records[r].sent
  BY UnderWay DEF Handoff
<1>2. CASE clean
  <2> DEFINE record == [records[r] EXCEPT !.sent = TRUE]
             new == [records EXCEPT ![r] = record]
  <2>1. /\ record \in Receipt /\ record.sent = TRUE
        /\ record.outcome = records[r].outcome /\ record.owner = records[r].owner
        /\ record.retryOf = records[r].retryOf /\ record.retry = records[r].retry
        /\ record.cancelled = records[r].cancelled
        /\ record.unprojected = records[r].unprojected
        /\ record.required = records[r].required /\ record.capture = records[r].capture
        /\ record.reset = records[r].reset
    BY <1>1 DEF Receipt
  <2>2. Stored(new) /\ turn' = turn
    <3>1. new = [records EXCEPT ![r].sent = TRUE]
      BY <1>1 DEF Sound, Receipts
    <3> QED BY <3>1, <1>2 DEF Handoff
  <2> HIDE DEF record
  <2>3. Fine(record)
    BY <1>1, <1>2, <2>1, NothingAssumption
    DEF Fine, Withheld, Retried, Complete, Outcome
  <2>4. Revised(records[r], record)
    BY <2>1, <2>3 DEF Revised
  <2>5. Sound(new)
    BY <1>1, <2>4, SoundUpdated
  <2>6. new[r] = record
    BY <1>1 DEF Sound, Receipts
  <2> HIDE DEF new
  <2>7. records' = new
    BY <2>2 DEF Stored
  <2>8. Sound(records)'
    BY <2>5, <2>7 DEF Sound, Receipts, Chained, Retained
  <2>9. Pending'
    BY <1>1, <2>1, <2>2, <2>6, <2>7 DEF Pending, Handoff
  <2> QED BY <2>8, <2>9 DEF NInv
<1>3. CASE ~clean
  <2>1. /\ Stored(Finished(records, r, "withheld")) /\ turn' = Idle
        /\ turn.pc = "executing"
    BY <1>3 DEF Handoff
  <2> QED BY <1>1, <2>1, OutcomeKeepsNInv DEF Outcome
<1> QED BY <1>2, <1>3

\* A decision of the user about one withheld request.
LEMMA DecidedKeepsNInv ==
    ASSUME NInv, RequestsInv', NEW r \in Request, records[r] # None, NEW record,
           Revised(records[r], record), record.outcome = records[r].outcome,
           record.sent = records[r].sent,
           Stored([records EXCEPT ![r] = record]), turn' = turn
    PROVE  NInv'
<1> DEFINE new == [records EXCEPT ![r] = record]
<1>1. Sound(new)
  BY SoundUpdated DEF NInv
<1>2. Steady(new)
  BY DEF Steady, NInv, Sound, Receipts
<1> HIDE DEF new
<1>3. Stored(new)
  BY DEF new
<1> QED BY <1>1, <1>2, <1>3, CommitKeepsNInv

\* Each of the three decisions is one.
LEMMA DecisionsKeepNInv ==
    ASSUME NInv, RequestsInv', NEW r \in Request,
           \/ AuthorizeRetry(r) \/ CancelProjections(r)
           \/ \E gone \in SUBSET Source : CancelSources(r, gone)
    PROVE  NInv'
<1> DEFINE old == records[r]
<1>1. /\ old \in Receipt /\ Fine(old) /\ old # None /\ ~Retried(old)
      /\ Sound(records) /\ TypeOK
  BY DEF AuthorizeRetry, CancelProjections, CancelSources, Undecided, NInv, Sound,
     Retained, RequestsInv, TypeOK
<1>2. Held(old) /\ turn' = turn
  BY DEF AuthorizeRetry, CancelProjections, CancelSources, HoldPending
<1>3. CASE AuthorizeRetry(r)
  <2> DEFINE allowed == [owner |-> owner, request |-> None]
             record == [old EXCEPT !.retry = allowed]
  <2>1. allowed \in Authorization /\ allowed.request = None
    BY <1>1 DEF Authorization, TypeOK
  <2> HIDE DEF allowed, old
  <2>2. /\ record \in Receipt /\ record.retry = allowed
        /\ record.outcome = old.outcome /\ record.owner = old.owner
        /\ record.sent = old.sent
        /\ record.retryOf = old.retryOf /\ record.reset = old.reset
        /\ record.cancelled = old.cancelled /\ record.unprojected = old.unprojected
        /\ record.required = old.required /\ record.capture = old.capture
    BY <1>1, <2>1 DEF Receipt
  <2>3. Stored([records EXCEPT ![r] = record])
    BY <1>1, <1>3 DEF AuthorizeRetry, TypeOK, allowed, old
  <2> HIDE DEF record
  <2>4. Fine(record) /\ ~Retried(record)
    BY <1>1, <1>2, <2>1, <2>2 DEF Fine, Held, Withheld, Retried, Complete
  <2>5. Revised(old, record)
    BY <1>1, <2>2, <2>4 DEF Revised
  <2> QED BY <1>1, <1>2, <2>2, <2>3, <2>5, DecidedKeepsNInv DEF old
<1>4. CASE CancelProjections(r)
  <2>0. PICK all \in BOOLEAN :
           Stored([records EXCEPT ![r].unprojected = all, ![r].retry = None])
    BY <1>4 DEF CancelProjections
  <2> DEFINE record == [old EXCEPT !.unprojected = all, !.retry = None]
  <2>1. old.required = {}
    BY <1>4 DEF CancelProjections
  <2>2. Stored([records EXCEPT ![r] = record])
    <3>1. [records EXCEPT ![r].unprojected = all, ![r].retry = None] =
              [records EXCEPT ![r] = record]
      BY <1>1 DEF TypeOK, Receipt
    <3> QED BY <2>0, <3>1
  <2> HIDE DEF old
  <2>3. /\ record \in Receipt /\ record.retry = None /\ record.unprojected = all
        /\ record.outcome = old.outcome /\ record.owner = old.owner
        /\ record.sent = old.sent
        /\ record.retryOf = old.retryOf /\ record.reset = old.reset
        /\ record.cancelled = old.cancelled
        /\ record.required = old.required /\ record.capture = old.capture
    BY <1>1 DEF Receipt
  <2> HIDE DEF record
  <2>4. Fine(record) /\ ~Retried(record)
    BY <1>1, <1>2, <2>1, <2>3 DEF Fine, Held, Withheld, Retried, Complete
  <2>5. Revised(old, record)
    BY <1>1, <2>3, <2>4 DEF Revised
  <2> QED BY <1>1, <1>2, <2>2, <2>3, <2>5, DecidedKeepsNInv DEF old
<1>5. ASSUME NEW gone \in SUBSET Source, CancelSources(r, gone) PROVE NInv'
  <2> DEFINE record == [old EXCEPT
                     !.cancelled = old.cancelled \cup gone, !.retry = None]
  <2>1. gone \subseteq old.required
    BY <1>5 DEF CancelSources
  <2>2. Stored([records EXCEPT ![r] = record])
    <3>1. [records EXCEPT ![r].cancelled = @ \cup gone, ![r].retry = None] =
              [records EXCEPT ![r] = record]
      BY <1>1 DEF TypeOK, Receipt
    <3> QED BY <1>5, <3>1 DEF CancelSources
  <2> HIDE DEF old
  <2>3. /\ record \in Receipt /\ record.retry = None
        /\ record.unprojected = old.unprojected
        /\ record.outcome = old.outcome /\ record.owner = old.owner
        /\ record.sent = old.sent
        /\ record.retryOf = old.retryOf /\ record.reset = old.reset
        /\ record.cancelled = old.cancelled \cup gone
        /\ record.required = old.required /\ record.capture = old.capture
    BY <1>1 DEF Receipt
  <2> HIDE DEF record
  <2>4. Fine(record) /\ ~Retried(record)
    BY <1>1, <1>2, <2>1, <2>3 DEF Fine, Held, Withheld, Retried, Complete
  <2>5. Revised(old, record)
    BY <1>1, <2>3, <2>4 DEF Revised
  <2> QED BY <1>1, <1>2, <2>2, <2>3, <2>5, DecidedKeepsNInv DEF old
<1> QED BY <1>3, <1>4, <1>5

\* Releasing takes back what nobody has used.
LEMMA SoundReleased ==
    ASSUME NInv
    PROVE  Sound(Released(records)) /\ Steady(Released(records))
<1> DEFINE new == Released(records)
<1>1. new = [r \in Request |-> new[r]]
  BY DEF Released
<1>2. \A r \in Request : records[r] = None => new[r] = None
  BY DEF Released
<1>3. ASSUME NEW r \in Request, records[r] # None
      PROVE  /\ Revised(records[r], new[r])
             /\ new[r].outcome = records[r].outcome /\ new[r].sent = records[r].sent
  <2> DEFINE old == records[r]
             retry == IF Retried(old) THEN old.retry ELSE None
             record == [old EXCEPT !.reset = TRUE, !.retry = retry]
  <2>1. old \in Receipt /\ Fine(old)
    BY <1>3 DEF NInv, Sound, Receipts, Retained
  <2>2. CASE Unresolved(old) \/ HoldPending(old)
    <3>1. new[r] = record
      BY <1>3, <2>1, <2>2 DEF Released, Receipt
    <3> HIDE DEF old
    <3>2. retry = IF Retried(old) THEN old.retry ELSE None
      OBVIOUS
    <3>3. retry \in Authorization \cup {None}
      BY <2>1 DEF Receipt
    <3> HIDE DEF retry
    <3>4. /\ record \in Receipt /\ record.retry = retry
          /\ record.outcome = old.outcome /\ record.owner = old.owner
          /\ record.sent = old.sent
          /\ record.retryOf = old.retryOf
          /\ record.cancelled = old.cancelled /\ record.unprojected = old.unprojected
          /\ record.required = old.required /\ record.capture = old.capture
      BY <2>1, <3>3 DEF Receipt
    <3> HIDE DEF record
    <3>5. retry = old.retry \/ (~Retried(old) /\ ~Retried(record) /\ retry = None)
      BY <3>2, <3>4 DEF Retried
    <3>6. retry # None => Retried(old) /\ Retried(record)
      BY <3>2, <3>4 DEF Retried
    <3>7. Fine(record)
      BY <2>1, <3>4, <3>6, <3>2 DEF Fine, Withheld, Complete, Retried
    <3>8. Revised(old, record)
      BY <3>4, <3>5, <3>7 DEF Revised
    <3> QED BY <3>1, <3>4, <3>8 DEF old
  <2>3. CASE ~(Unresolved(old) \/ HoldPending(old))
    <3>1. new[r] = records[r]
      BY <1>3, <2>3 DEF Released
    <3> QED BY <1>3, <3>1, Unrevised DEF NInv
  <2> QED BY <2>2, <2>3
<1> HIDE DEF new
<1>4. Sound(new)
  BY <1>1, <1>2, <1>3, SoundRevised DEF NInv
<1>5. Steady(new)
  BY <1>2, <1>3 DEF Steady
<1> QED BY <1>4, <1>5 DEF new

\* A removal leaves the outcomes of what stays.
LEMMA SteadyWithout ==
    ASSUME NEW recs, Steady(recs), NEW gone PROVE Steady(Without(recs, gone))
BY DEF Steady, Without

\* The branch is cleared,
LEMMA ClearKeepsNInv ==
    ASSUME NInv, RequestsInv', NEW destructive \in BOOLEAN, Clear(destructive) PROVE NInv'
<1> DEFINE recs == Pruned(Released(records))
<1>1. Sound(recs)
  BY SoundReleased, SoundPruned
<1>2. Steady(recs)
  BY SoundReleased, SteadyWithout DEF Pruned
<1>3. Stored(recs) /\ turn' = turn
  BY DEF Clear
<1> HIDE DEF recs
<1> QED BY <1>1, <1>2, <1>3, CommitKeepsNInv

\* history is retired,
LEMMA RetireHistoryKeepsNInv ==
    ASSUME NInv, RequestsInv', NEW protected \in SUBSET Request, NEW keep \in 1..Keep,
           RetireHistory(protected, keep)
    PROVE  NInv'
<1> DEFINE pruned == Pruned(records)
           recs == Without(pruned, Retiring(pruned, protected, keep))
<1>1. Sound(recs)
  <2>1. Sound(pruned)
    BY SoundPruned DEF NInv
  <2> HIDE DEF pruned
  <2> QED BY <2>1, SoundRetired
<1>2. Steady(recs)
  <2>1. Steady(records)
    BY DEF Steady
  <2> QED BY <2>1, SteadyWithout DEF Pruned
<1>3. Stored(recs) /\ turn' = turn
  BY DEF RetireHistory
<1> HIDE DEF recs
<1> QED BY <1>1, <1>2, <1>3, CommitKeepsNInv

\* and the host comes back, after a crash or not.
LEMMA ReattachKeepsNInv ==
    ASSUME NInv, RequestsInv', NEW crash \in BOOLEAN, Reattach(crash) PROVE NInv'
<1> DEFINE recs == IF crash THEN records ELSE Settled
<1>1. Sound(recs)
  BY SoundSettled DEF Reattach, NInv
<1>2. Stored(recs) /\ turn' = Idle
  BY DEF Reattach
<1> HIDE DEF recs
<1> QED BY <1>1, <1>2, CommitKeepsNInv

\* Every step keeps the invariant.
LEMMA StepKeepsNInv == NInv /\ [Next]_vars => NInv'
<1> SUFFICES ASSUME NInv, [Next]_vars PROVE NInv'
  OBVIOUS
<1>1. RequestsInv'
  BY StepKeepsInv DEF NInv
<1>2. CASE \/ \E s \in Source : Consume(s) \/ Archive(s)
           \/ \E gone \in SUBSET Source : Compact(gone)
           \/ UNCHANGED vars
  BY <1>1, <1>2, ReadKeepsNInv DEF Consume, Archive, Compact, vars
<1>3. CASE Execute \/ Lost
  <2>1. turn \in Turn
    BY DEF NInv, RequestsInv, TypeOK
  <2> QED BY <1>1, <1>3, <2>1, ReadKeepsNInv DEF Execute, Lost, Turn
<1>4. ASSUME NEW delivered \in SUBSET Source, NEW projection \in Projection,
             Captured(delivered, projection)
      PROVE  NInv'
  <2>1. turn \in Turn
    BY DEF NInv, RequestsInv, TypeOK
  <2>2. turn'.id = turn.id /\ turn.pc # "executing" /\ records' = records
    BY <1>4, <2>1 DEF Captured, Turn
  <2> QED BY <1>1, <2>2, ReadKeepsNInv
<1>5. ASSUME NEW enforced \in BOOLEAN, NEW fails \in BOOLEAN,
             BeforeRequest(enforced, fails)
      PROVE  NInv'
  BY <1>1, <1>5, BeforeRequestKeepsNInv
<1>6. CASE Maintain
  BY <1>1, <1>6, MaintainKeepsNInv
<1>7. CASE Handoff
  BY <1>1, <1>7, HandoffKeepsNInv
<1>8. CASE Withhold
  BY <1>1, <1>8, OutcomeKeepsNInv DEF Withhold, Outcome
<1>9. ASSUME NEW outcome \in Outcome, Answer(outcome) PROVE NInv'
  BY <1>1, <1>9, OutcomeKeepsNInv DEF Answer
<1>10. ASSUME NEW r \in Request,
              \/ AuthorizeRetry(r) \/ CancelProjections(r)
              \/ \E gone \in SUBSET Source : CancelSources(r, gone)
       PROVE  NInv'
  BY <1>1, <1>10, DecisionsKeepNInv
<1>11. ASSUME NEW destructive \in BOOLEAN, Clear(destructive) PROVE NInv'
  BY <1>1, <1>11, ClearKeepsNInv
<1>12. ASSUME NEW protected \in SUBSET Request, NEW keep \in 1..Keep,
              RetireHistory(protected, keep)
       PROVE  NInv'
  BY <1>1, <1>12, RetireHistoryKeepsNInv
<1>13. ASSUME NEW crash \in BOOLEAN, Reattach(crash) PROVE NInv'
  BY <1>1, <1>13, ReattachKeepsNInv
<1> QED
  BY <1>2, <1>3, <1>4, <1>5, <1>6, <1>7, <1>8, <1>9, <1>10, <1>11, <1>12, <1>13
  DEF Next, Steps, Decide, Around

\* The validation that the store runs over its state (native-request-store.ts,
\* validate) never refuses what one of its own operations has made: what was
\* decided about a receipt goes with a withheld request, what was sent was
\* complete, and a retry and what it retries name each other, through
\* retirement, releases and restarts.
THEOREM ReceiptsNeverRefused == Spec => []Validates
<1>1. Init => NInv
  <2> SUFFICES ASSUME Init PROVE NInv
    OBVIOUS
  <2>1. RequestsInv
    BY Initially
  <2>2. Retained(records) = {} /\ records \in Receipts
    BY DEF Init, Retained, Receipts
  <2> QED BY <2>1, <2>2 DEF NInv, Sound, Chained, Pending, Init, Idle
<1>2. NInv => Validates
  BY DEF NInv, RequestsInv, Sound, Fine, Chained, Validates
<1> QED
  BY <1>1, <1>2, StepKeepsNInv, PTL DEF Spec

-----------------------------------------------------------------------------
(* Delivered input is not required again *)

\* What a request delivers it has captured.
Whole(recs) ==
    /\ recs \in Receipts
    /\ \A r \in Retained(recs) :
           recs[r].capture.delivered \subseteq recs[r].capture.captured

\* Input that was delivered is in a receipt, unless archived or cleared away.
Covers(recs) ==
    \A s \in reached : s \in archived \/ place[s] = "forgotten" \/ s \in Received(recs)

\* What the handler has captured is what the context shows.
Showing ==
    turn.pc = "captured" => /\ turn.capture.captured \subseteq Shown
                            /\ turn.capture.delivered \subseteq turn.capture.captured

\* What no step breaks: delivered input stays received.
CInv ==
    /\ RequestsInv
    /\ Whole(records) /\ Covers(records)
    /\ Showing
    /\ \A s \in reached : place[s] # "new"

\* A set of requests has a newest one.
LEMMA NewestOf ==
    ASSUME NEW B \in SUBSET Request, B # {}
    PROVE  \E n \in B : \A m \in B : m <= n
<1>1. MaxRequests \in Nat /\ \A n \in Request : n \in Nat /\ n <= MaxRequests
  BY NativeAssumption DEF Request
<1> DEFINE C == {MaxRequests - n : n \in B}
<1>2. C \in SUBSET (0..MaxRequests) /\ C # {}
  BY <1>1
<1>3. PICK c \in C : \A d \in C : c <= d
  <2> HIDE DEF C
  <2> QED BY <1>1, <1>2, LeastOf DEF Least
<1>4. PICK n \in B : c = MaxRequests - n
  BY <1>3
<1>5. \A m \in B : MaxRequests - n <= MaxRequests - m
  BY <1>3, <1>4
<1>6. \A m \in B : m <= n
  BY <1>1, <1>5
<1> QED BY <1>6

\* The evidence of a success is what it delivered,
LEMMA EvidenceDelivered ==
    ASSUME NEW record, NEW s \in Source, s \in Evidence(record)
    PROVE  s \in record.capture.captured /\ s \in record.capture.delivered
BY NativeAssumption DEF Evidence

\* all of it.
LEMMA EvidenceWhole ==
    ASSUME NEW record, Evidence(record) # {}, NEW s, s \in record.capture.delivered
    PROVE  s \in Evidence(record)
BY DEF Evidence

\* A removal changes no capture.
LEMMA WithoutWhole ==
    ASSUME NEW recs, Whole(recs), NEW gone PROVE Whole(Without(recs, gone))
BY DEF Whole, Without, Receipts, Retained

\* Input is received by the receipt that delivers it.
LEMMA ReceivedBy ==
    ASSUME NEW recs, NEW r \in Retained(recs), NEW s \in recs[r].capture.delivered
    PROVE  s \in Received(recs)
BY DEF Received

\* Pruning: what a superseded request has delivered is in the newest success
\* that shows it, which nothing supersedes.
LEMMA PruningCovers ==
    ASSUME TypeOK, NEW recs, Whole(recs), Covers(recs), NEW others,
           \A r \in Retained(recs) \cap others : recs[r].capture.captured = {}
    PROVE  Covers(Without(recs, Superseded(recs) \cup others))
<1> DEFINE gone == Superseded(recs) \cup others
           new == Without(recs, gone)
<1> SUFFICES ASSUME NEW s \in Source, s \in Received(recs) PROVE s \in Received(new)
  BY DEF Covers, TypeOK
<1>1. PICK r \in Retained(recs) : s \in recs[r].capture.delivered
  BY DEF Received
<1>2. \A p \in Retained(recs) : p \notin gone => p \in Retained(new) /\ new[p] = recs[p]
  BY DEF Retained, Without
<1>3. ASSUME NEW p \in Retained(recs), s \in recs[p].capture.delivered,
             p \notin Superseded(recs)
      PROVE  s \in Received(new)
  <2>1. p \notin others
    BY <1>3 DEF Whole
  <2>2. p \in Retained(new) /\ new[p] = recs[p]
    BY <1>2, <1>3, <2>1
  <2> HIDE DEF new
  <2> QED BY <1>3, <2>2, ReceivedBy
<1>4. CASE r \notin Superseded(recs)
  BY <1>1, <1>3, <1>4
<1>5. CASE r \in Superseded(recs)
  <2> DEFINE B == {p \in Retained(recs) : s \in Evidence(recs[p])}
  <2>1. r \in B
    BY <1>1, <1>5, EvidenceWhole DEF Superseded
  <2>2. PICK p \in B : \A q \in B : q <= p
    <3>1. B \in SUBSET Request /\ B # {}
      BY <2>1 DEF Retained
    <3> HIDE DEF B
    <3> QED BY <3>1, NewestOf
  <2>3. p \notin Superseded(recs)
    <3> SUFFICES ASSUME p \in Superseded(recs) PROVE FALSE
      OBVIOUS
    <3>1. PICK q \in Retained(recs) : q > p /\ s \in Evidence(recs[q])
      BY <2>2 DEF Superseded
    <3>2. q <= p /\ q \in Int /\ p \in Int
      BY <2>2, <3>1, RequestNotNone DEF Retained
    <3> QED BY <3>1, <3>2
  <2>4. s \in recs[p].capture.delivered
    BY <2>2, EvidenceDelivered
  <2> QED BY <1>3, <2>2, <2>3, <2>4
<1> QED BY <1>4, <1>5

\* Retirement: a request whose input is live stays (liveOperations).
LEMMA RetiringCovers ==
    ASSUME TypeOK, NEW recs, Covers(recs), Whole(recs), NEW gone,
           \A r \in Retained(recs) \cap gone :
               recs[r].capture.captured \cap LiveSources = {},
           \A s \in reached : place[s] # "new"
    PROVE  Covers(Without(recs, gone))
<1> DEFINE new == Without(recs, gone)
<1> SUFFICES ASSUME NEW s \in reached, s \notin archived, place[s] # "forgotten"
             PROVE  s \in Received(new)
  BY DEF Covers
<1>1. PICK r \in Retained(recs) : s \in recs[r].capture.delivered
  BY DEF Covers, Received
<1>2. s \in LiveSources
  BY DEF TypeOK, LiveSources, Claimed
<1>3. r \notin gone
  BY <1>1, <1>2 DEF Whole
<1>4. r \in Retained(new) /\ new[r] = recs[r]
  BY <1>3 DEF Retained, Without
<1> HIDE DEF new
<1> QED BY <1>1, <1>4, ReceivedBy

\* A change that keeps the captures.
Alike(a, b) ==
    /\ b \in Receipts
    /\ \A r \in Request :
           /\ (a[r] = None <=> b[r] = None)
           /\ (a[r] # None => b[r].capture = a[r].capture)

\* It keeps what is received.
LEMMA AlikeCovers ==
    ASSUME NEW a, NEW b, Alike(a, b), Whole(a), Covers(a)
    PROVE  Whole(b) /\ Covers(b)
<1>1. Retained(a) = Retained(b) /\ \A r \in Retained(a) : b[r].capture = a[r].capture
  BY DEF Alike, Retained
<1>2. Received(a) = Received(b)
  BY <1>1 DEF Received
<1> QED BY <1>1, <1>2 DEF Whole, Covers, Alike

\* Such are decisions about one receipt,
LEMMA UpdatedAlike ==
    ASSUME NEW recs \in Receipts, NEW r \in Request, recs[r] # None,
           NEW record \in Receipt,
           record.capture = recs[r].capture
    PROVE  Alike(recs, [recs EXCEPT ![r] = record])
BY NothingAssumption DEF Alike, Receipts

\* outcomes,
LEMMA FinishedAlike ==
    ASSUME NEW recs \in Receipts, NEW r \in Request, recs[r] # None,
           NEW outcome \in Outcome
    PROVE  Alike(recs, Finished(recs, r, outcome))
<1> DEFINE record == [recs[r] EXCEPT !.outcome = outcome]
<1>1. recs[r] \in Receipt
  BY DEF Receipts
<1>2. record \in Receipt /\ record.capture = recs[r].capture
  BY <1>1 DEF Receipt
<1>3. Finished(recs, r, outcome) = [recs EXCEPT ![r] = record]
  BY DEF Finished, Receipts
<1> HIDE DEF record
<1> QED BY <1>2, <1>3, UpdatedAlike

\* the end of the request under way,
LEMMA SettledAlike ==
    ASSUME RequestsInv PROVE Alike(records, Settled)
<1>1. records \in Receipts
  BY DEF RequestsInv, TypeOK, Receipts
<1>2. CASE turn.id = None
  BY <1>1, <1>2 DEF Settled, Alike
<1>3. CASE turn.id # None
  BY <1>1, <1>3, FinishedAlike DEF Settled, Outcome, RequestsInv, Turned, Newest
<1> QED BY <1>2, <1>3

\* and releases.
LEMMA ReleasedAlike ==
    ASSUME TypeOK PROVE Alike(records, Released(records))
<1> DEFINE new == Released(records)
<1>1. new \in Receipts
  BY ReleasedDerived DEF Derived, Kept
<1>2. ASSUME NEW r \in Request
      PROVE  /\ (records[r] = None <=> new[r] = None)
             /\ (records[r] # None => new[r].capture = records[r].capture)
  <2>1. CASE records[r] = None
    BY <2>1 DEF Released
  <2>2. CASE records[r] # None
    <3>1. records[r] \in Receipt
      BY <2>2 DEF TypeOK
    <3>2. \A retry \in {records[r].retry, None} :
             LET released == [records[r] EXCEPT !.reset = TRUE, !.retry = retry]
             IN  released \in Receipt /\ released.capture = records[r].capture
      BY <3>1 DEF Receipt
    <3>3. new[r] \in Receipt /\ new[r].capture = records[r].capture
      BY <2>2, <3>1, <3>2 DEF Released
    <3> QED BY <2>2, <3>3, NothingAssumption
  <2> QED BY <2>1, <2>2
<1> HIDE DEF new
<1> QED BY <1>1, <1>2 DEF Alike, new

\* A request begins: what was received stays so, and what it delivers is.
LEMMA AppendedCovers ==
    ASSUME TypeOK, NEW recs, Whole(recs), Covers(recs), NEW r \in Request,
           recs[r] = None,
           NEW record \in Receipt,
           record.capture.delivered \subseteq record.capture.captured,
           record.retryOf \in Retained(recs) \cup {None}
    PROVE  LET new == Appended(recs, r, record)
           IN  /\ Whole(new) /\ new[r] = record
               /\ Received(recs) \cup record.capture.delivered \subseteq Received(new)
               /\ \A o \in Request : new[o] # None => o = r \/ recs[o] # None
<1> DEFINE new == Appended(recs, r, record)
           of == record.retryOf
           used == [owner |-> owner, request |-> r]
           held == [recs[of] EXCEPT !.retry = used]
<1>1. \A o \in Request :
         new[o] = IF o = r THEN record ELSE IF o = of THEN held ELSE recs[o]
  BY DEF Appended
<1>2. new = [o \in Request |-> new[o]]
  BY DEF Appended
<1>3. used \in Authorization /\ None \notin Receipt
  BY NothingAssumption DEF TypeOK, Authorization
<1>4. of # None => /\ of \in Retained(recs) /\ recs[of] \in Receipt /\ held \in Receipt
                   /\ held.capture = recs[of].capture
  BY <1>3 DEF Whole, Receipts, Receipt, Retained
<1>5. \A o \in Request : o = of => of # None
  BY RequestNotNone
<1> HIDE DEF new, held, used, of
<1>6. \A o \in Request : new[o] # None <=> (o = r \/ recs[o] # None)
  BY <1>1, <1>3, <1>4, <1>5 DEF Retained
<1>7. new \in Receipts
  BY <1>1, <1>2, <1>4, <1>5 DEF Receipts, Whole
<1>8. \A o \in Retained(recs) : o \in Retained(new) /\ new[o].capture = recs[o].capture
  BY <1>1, <1>4, <1>5, <1>6 DEF Retained
<1>9. r \in Retained(new) /\ new[r] = record
  BY <1>1, <1>6 DEF Retained
<1>10. /\ Received(recs) \subseteq Received(new)
       /\ record.capture.delivered \subseteq Received(new)
  BY <1>8, <1>9 DEF Received
<1>11. Whole(new)
  <2> SUFFICES ASSUME NEW o \in Retained(new)
               PROVE  new[o].capture.delivered \subseteq new[o].capture.captured
    BY <1>7 DEF Whole
  <2>1. CASE o = r
    BY <2>1, <1>9
  <2>2. CASE o # r
    BY <2>2, <1>6, <1>8 DEF Retained, Whole
  <2> QED BY <2>1, <2>2
<1> QED BY <1>6, <1>9, <1>10, <1>11 DEF new

\* A request that begins is not required to carry what was delivered before.
Requires ==
    \A r \in Request : records[r] = None /\ records'[r] # None =>
        records'[r].required \cap reached \subseteq archived

\* recs has no request that the records have not.
NoneBegun(recs) == \A r \in Request : recs[r] # None => records[r] # None

\* A step that stores records in which delivered input is received keeps the
\* invariant,
LEMMA CommitKeepsCInv ==
    ASSUME CInv, RequestsInv', NEW recs, Stored(recs), Whole(recs), Covers(recs),
           NoneBegun(recs),
           reached' = reached, archived' = archived,
           \A s \in Source : place'[s] = place[s] \/ place'[s] = "forgotten",
           place' = place \/ turn.pc # "captured",
           turn' = Idle \/ turn' = turn
    PROVE  CInv' /\ Requires
<1>1. records' = recs
  BY DEF Stored
<1>2. Whole(records)'
  BY <1>1 DEF Whole, Receipts, Retained
<1>3. Covers(records)'
  <2>1. Received(records)' = Received(recs)
    BY <1>1 DEF Received, Retained
  <2>2. reached \subseteq Source
    BY DEF CInv, RequestsInv, TypeOK
  <2> QED BY <2>1, <2>2 DEF Covers
<1>4. Showing'
  <2>1. CASE place' = place
    BY <2>1 DEF CInv, Showing, Shown, Idle
  <2>2. CASE turn.pc # "captured"
    BY <2>2 DEF Showing, Idle
  <2> QED BY <2>1, <2>2
<1>5. \A s \in reached' : place'[s] # "new"
  BY DEF CInv, RequestsInv, TypeOK
<1>6. Requires
  BY <1>1 DEF Requires, NoneBegun
<1> QED BY <1>2, <1>3, <1>4, <1>5, <1>6 DEF CInv

\* as does one that keeps the captures.
LEMMA AlikeKeepsCInv ==
    ASSUME CInv, RequestsInv', NEW recs, Stored(recs), Alike(records, recs),
           UNCHANGED <<place, archived, reached>>, turn' = Idle \/ turn' = turn
    PROVE  CInv' /\ Requires
<1>1. Whole(recs) /\ Covers(recs)
  BY AlikeCovers DEF CInv
<1>2. NoneBegun(recs)
  BY DEF Alike, NoneBegun
<1> QED BY <1>1, <1>2, CommitKeepsCInv

\* Pruning before a request keeps what is received,
LEMMA PrunedBeforeCovers ==
    ASSUME TypeOK, NEW recs, Whole(recs), Covers(recs)
    PROVE  Whole(PrunedBefore(recs)) /\ Covers(PrunedBefore(recs))
<1>1. \A r \in Retained(recs) \cap Oldest(Empty(recs), Keep) :
         recs[r].capture.captured = {}
  BY DEF Oldest, Empty
<1>2. Covers(Without(recs, Superseded(recs) \cup Oldest(Empty(recs), Keep)))
  BY <1>1, PruningCovers
<1> QED BY <1>2, WithoutWhole DEF PrunedBefore

\* and so does pruning.
LEMMA PrunedCovers ==
    ASSUME TypeOK, NEW recs, Whole(recs), Covers(recs)
    PROVE  Whole(Pruned(recs)) /\ Covers(Pruned(recs))
<1>1. Covers(Without(recs, Superseded(recs) \cup {}))
  BY PruningCovers
<1>2. Superseded(recs) \cup {} = Superseded(recs)
  OBVIOUS
<1> QED BY <1>1, <1>2, WithoutWhole DEF Pruned

\* What a request is required to carry is shown and not received, so that, by
\* the invariant, it was never delivered.
LEMMA BegunKeepsCInv ==
    ASSUME CInv, RequestsInv', NEW recs, Whole(recs), Covers(recs), NoneBegun(recs),
           NEW r \in Request, recs[r] = None,
           NEW record \in Receipt,
           record.capture.delivered \subseteq record.capture.captured,
           record.capture.captured \subseteq Shown,
           record.required \subseteq record.capture.captured \ Received(recs),
           record.retryOf \in Retained(recs) \cup {None},
           Stored(Appended(recs, r, record)), UNCHANGED <<place, archived>>,
           reached' = reached \cup record.capture.delivered, turn'.pc # "captured"
    PROVE  CInv' /\ Requires
<1> DEFINE new == Appended(recs, r, record)
<1>1. /\ Whole(new) /\ new[r] = record
      /\ Received(recs) \cup record.capture.delivered \subseteq Received(new)
      /\ \A o \in Request : new[o] # None => o = r \/ recs[o] # None
  BY AppendedCovers DEF CInv, RequestsInv
<1>2. records' = new
  BY DEF Stored
<1> HIDE DEF new
<1>3. Whole(records)'
  BY <1>1, <1>2 DEF Whole, Receipts, Retained
<1>4. Covers(records)'
  <2>1. Received(records)' = Received(new)
    BY <1>2 DEF Received, Retained
  <2> QED BY <1>1, <2>1 DEF Covers
<1>5. \A s \in Shown : place[s] = "context"
  BY DEF Shown
<1>6. \A s \in reached' : place'[s] # "new"
  BY <1>5 DEF CInv
<1>7. Requires
  <2> SUFFICES ASSUME NEW o \in Request, records[o] = None, records'[o] # None,
                      NEW s \in records'[o].required, s \in reached
               PROVE  s \in archived
    BY DEF Requires
  <2>1. o = r /\ records'[o] = record
    BY <1>1, <1>2 DEF NoneBegun
  <2>2. s \notin Received(recs) /\ place[s] = "context"
    BY <2>1, <1>5
  <2> QED BY <2>2 DEF Covers
<1> QED BY <1>3, <1>4, <1>6, <1>7 DEF CInv, Showing

\* One lemma per action: the handler before a request,
LEMMA BeforeRequestKeepsCInv ==
    ASSUME CInv, RequestsInv', NEW enforced \in BOOLEAN, NEW fails \in BOOLEAN,
           BeforeRequest(enforced, fails)
    PROVE  CInv' /\ Requires
<1> DEFINE recs == PrunedBefore(Settled)
<1>1. Whole(recs) /\ Covers(recs)
  <2>1. Whole(Settled) /\ Covers(Settled)
    BY SettledAlike, AlikeCovers DEF CInv
  <2> QED BY <2>1, PrunedBeforeCovers DEF CInv, RequestsInv
<1>2. Derived(recs)
  BY SettledDerived, PrunedBeforeDerived DEF CInv, RequestsInv
<1>3. NoneBegun(recs)
  BY <1>2 DEF Derived, Kept, NoneBegun
<1>4. UNCHANGED <<place, archived>>
  BY DEF BeforeRequest, sources
<1>5. CASE Admissible(recs, enforced)
  <2>1. PICK retryOf \in RetryOf(recs) :
           Stored(Appended(recs, begun + 1,
                  NewRecord(turn.capture, Demanded(recs, enforced), retryOf)))
    BY <1>5 DEF BeforeRequest
  <2> DEFINE required == Demanded(recs, enforced)
             record == NewRecord(turn.capture, required, retryOf)
  <2>2. retryOf \in Retained(recs) \cup {None}
    BY DEF RetryOf, Waiting
  <2>3. /\ turn.capture \in Capture /\ turn.capture.captured \subseteq Shown
        /\ turn.capture.delivered \subseteq turn.capture.captured
    BY DEF BeforeRequest, CInv, RequestsInv, Turned, Showing
  <2>4. required \subseteq turn.capture.captured \ Received(recs)
    BY DEF Demanded
  <2>5. required \subseteq Source
    BY <2>3, <2>4 DEF Capture
  <2> HIDE DEF required, recs
  <2>6. record \in Receipt /\ record.retryOf = retryOf /\ record.capture = turn.capture
        /\ record.required = required
    BY <2>2, <2>3, <2>5 DEF NewRecord, Receipt, CInv, RequestsInv, TypeOK, Retained
  <2>7. /\ begun + 1 \in Request /\ reached' = reached \cup turn.capture.delivered
        /\ turn'.pc # "captured"
    BY <1>5 DEF BeforeRequest, Idle, recs
  <2> HIDE DEF record
  <2>8. Stored(Appended(recs, begun + 1, record))
    BY <2>1 DEF record, required
  <2>9. \A o \in Retained(recs) : o <= begun
    BY <1>2, KeptRetained DEF Derived, CInv, RequestsInv
  <2>10. recs[begun + 1] = None
    BY <2>7, <2>9 DEF Retained, CInv, RequestsInv, TypeOK
  <2> QED BY <1>1, <1>3, <1>4, <2>2, <2>3, <2>4, <2>6, <2>7, <2>8, <2>10, BegunKeepsCInv
<1>6. CASE ~Admissible(recs, enforced)
  <2>1. Stored(recs) /\ turn' = Idle /\ reached' = reached
    BY <1>6 DEF BeforeRequest
  <2> HIDE DEF recs
  <2> QED BY <1>1, <1>3, <1>4, <2>1, CommitKeepsCInv
<1> QED BY <1>5, <1>6

\* a request of the host itself,
LEMMA MaintainKeepsCInv ==
    ASSUME CInv, RequestsInv', Maintain PROVE CInv' /\ Requires
<1> DEFINE record == NewRecord([captured |-> {}, delivered |-> {}, projection |-> "none"],
                              {}, None)
<1>1. /\ record \in Receipt /\ record.retryOf = None /\ record.required = {}
      /\ record.capture.captured = {} /\ record.capture.delivered = {}
  BY DEF NewRecord, Receipt, Capture, Projection, CInv, RequestsInv, TypeOK
<1>2. begun + 1 \in Request /\ begun' = begun + 1
  BY NativeAssumption DEF Maintain, CInv, RequestsInv, TypeOK, Request
<1>3. /\ Stored(Appended(records, begun + 1, record)) /\ turn'.pc # "captured"
      /\ UNCHANGED <<place, archived>> /\ reached' = reached
  BY <1>2 DEF Maintain, Idle, sources, history
<1> HIDE DEF record
<1>4. records[begun + 1] = None
  BY <1>2 DEF Retained, CInv, RequestsInv, TypeOK, Turned
<1>5. Whole(records) /\ Covers(records) /\ NoneBegun(records)
  BY DEF CInv, NoneBegun
<1> QED BY <1>1, <1>2, <1>3, <1>4, <1>5, BegunKeepsCInv

\* retirement,
LEMMA RetireHistoryKeepsCInv ==
    ASSUME CInv, RequestsInv', NEW protected \in SUBSET Request, NEW keep \in 1..Keep,
           RetireHistory(protected, keep)
    PROVE  CInv' /\ Requires
<1> DEFINE pruned == Pruned(records)
           gone == Retiring(pruned, protected, keep)
           recs == Without(pruned, gone)
<1>1. Whole(pruned) /\ Covers(pruned)
  BY PrunedCovers DEF CInv, RequestsInv
<1>2. \A r \in Retained(pruned) \cap gone :
         pruned[r].capture.captured \cap LiveSources = {}
  <2> HIDE DEF pruned
  <2> QED BY DEF Retiring, Retirable
<1>3. NoneBegun(recs)
  BY DEF NoneBegun, Without, Pruned
<1>4. /\ Stored(recs) /\ turn' = turn /\ UNCHANGED <<place, archived>>
      /\ reached' = reached
  BY DEF RetireHistory, sources, history
<1> HIDE DEF pruned, gone
<1>5. Whole(recs) /\ Covers(recs)
  BY <1>1, <1>2, WithoutWhole, RetiringCovers DEF CInv, RequestsInv
<1> HIDE DEF recs
<1> QED BY <1>3, <1>4, <1>5, CommitKeepsCInv

\* a branch that is cleared,
LEMMA ClearKeepsCInv ==
    ASSUME CInv, RequestsInv', NEW destructive \in BOOLEAN, Clear(destructive)
    PROVE  CInv' /\ Requires
<1> DEFINE recs == Pruned(Released(records))
<1>1. Alike(records, Released(records))
  BY ReleasedAlike DEF CInv, RequestsInv
<1>2. Whole(recs) /\ Covers(recs)
  <2>1. Whole(Released(records)) /\ Covers(Released(records))
    BY <1>1, AlikeCovers DEF CInv
  <2> QED BY <2>1, PrunedCovers DEF CInv, RequestsInv
<1>3. NoneBegun(recs)
  BY <1>1 DEF Alike, NoneBegun, Without, Pruned
<1>4. /\ Stored(recs) /\ turn' = turn /\ archived' = archived /\ reached' = reached
      /\ turn.pc # "captured"
  BY DEF Clear, history
<1>5. \A s \in Source : place'[s] = place[s] \/ place'[s] = "forgotten"
  BY DEF Clear, CInv, RequestsInv, TypeOK
<1> HIDE DEF recs
<1> QED BY <1>2, <1>3, <1>4, <1>5, CommitKeepsCInv

\* (a decision keeps the captures)
LEMMA DecisionAlike ==
    ASSUME CInv, NEW r \in Request,
           \/ AuthorizeRetry(r) \/ CancelProjections(r)
           \/ \E gone \in SUBSET Source : CancelSources(r, gone)
    PROVE  \E recs : Stored(recs) /\ Alike(records, recs)
<1>1. records \in Receipts /\ records[r] \in Receipt /\ records[r] # None /\ TypeOK
  BY DEF AuthorizeRetry, CancelProjections, CancelSources, Undecided, Retained, CInv,
     RequestsInv, TypeOK, Receipts
<1> DEFINE old == records[r]
<1>2. CASE AuthorizeRetry(r)
  <2> DEFINE allowed == [owner |-> owner, request |-> None]
             record == [old EXCEPT !.retry = allowed]
  <2>1. allowed \in Authorization
    BY <1>1 DEF Authorization, TypeOK
  <2>2. Stored([records EXCEPT ![r] = record])
    BY <1>1, <1>2 DEF AuthorizeRetry, Receipts
  <2> HIDE DEF allowed
  <2>3. record \in Receipt /\ record.capture = old.capture
    BY <1>1, <2>1 DEF Receipt
  <2> QED BY <1>1, <2>2, <2>3, UpdatedAlike
<1>3. CASE CancelProjections(r)
  <2>0. PICK all \in BOOLEAN :
           Stored([records EXCEPT ![r].unprojected = all, ![r].retry = None])
    BY <1>3 DEF CancelProjections
  <2> DEFINE record == [old EXCEPT !.unprojected = all, !.retry = None]
  <2>1. record \in Receipt /\ record.capture = old.capture
    BY <1>1 DEF Receipt
  <2>2. [records EXCEPT ![r].unprojected = all, ![r].retry = None] =
            [records EXCEPT ![r] = record]
    BY <1>1 DEF Receipts, Receipt
  <2>3. Stored([records EXCEPT ![r] = record])
    BY <2>0, <2>2
  <2> QED BY <1>1, <2>1, <2>3, UpdatedAlike
<1>4. ASSUME NEW gone \in SUBSET Source, CancelSources(r, gone)
      PROVE  \E recs : Stored(recs) /\ Alike(records, recs)
  <2> DEFINE record == [old EXCEPT
                     !.cancelled = old.cancelled \cup gone, !.retry = None]
  <2>1. record \in Receipt /\ record.capture = old.capture
    BY <1>1 DEF Receipt
  <2>2. [records EXCEPT ![r].cancelled = @ \cup gone, ![r].retry = None] =
            [records EXCEPT ![r] = record]
    BY <1>1 DEF Receipts, Receipt
  <2>3. Stored([records EXCEPT ![r] = record])
    BY <1>4, <2>2 DEF CancelSources
  <2> QED BY <1>1, <2>1, <2>3, UpdatedAlike
<1> QED BY <1>2, <1>3, <1>4

\* the end of a request,
LEMMA OutcomeKeepsCInv ==
    ASSUME CInv, RequestsInv', NEW outcome \in Outcome, turn.pc = "executing",
           Stored(Finished(records, turn.id, outcome)), turn' = Idle,
           UNCHANGED <<place, archived, reached>>
    PROVE  CInv' /\ Requires
<1>1. turn.id \in Request /\ records[turn.id] # None /\ records \in Receipts
  BY DEF CInv, RequestsInv, Turned, Newest, TypeOK, Receipts
<1>2. Alike(records, Finished(records, turn.id, outcome))
  BY <1>1, FinishedAlike
<1> QED BY <1>2, AlikeKeepsCInv

\* its hand-over,
LEMMA HandoffKeepsCInv ==
    ASSUME CInv, RequestsInv', Handoff PROVE CInv' /\ Requires
<1> DEFINE r == turn.id
           record == [records[r] EXCEPT !.sent = TRUE]
<1>1. /\ r \in Request /\ records[r] # None /\ records[r] \in Receipt
      /\ records \in Receipts
  BY DEF Handoff, CInv, RequestsInv, Turned, Newest, TypeOK, Receipts
<1>2. record \in Receipt /\ record.capture = records[r].capture
  BY <1>1 DEF Receipt
<1>3. [records EXCEPT ![r].sent = TRUE] = [records EXCEPT ![r] = record]
  BY <1>1 DEF Receipts
<1>4. Alike(records, [records EXCEPT ![r] = record])
  BY <1>1, <1>2, UpdatedAlike
<1>5. UNCHANGED <<place, archived, reached>> /\ turn.pc = "executing"
  BY DEF Handoff, sources, history
<1>6. CASE Stored([records EXCEPT ![r].sent = TRUE]) /\ turn' = turn
  BY <1>3, <1>4, <1>5, <1>6, AlikeKeepsCInv
<1>7. CASE Stored(Finished(records, r, "withheld")) /\ turn' = Idle
  BY <1>5, <1>7, OutcomeKeepsCInv DEF Outcome
<1> QED BY <1>6, <1>7 DEF Handoff

\* and the steps that leave the receipts alone.
LEMMA OthersKeepCInv ==
    ASSUME CInv, RequestsInv', records' = records, reached' = reached,
           archived \subseteq archived',
           \A s \in Source :
               place'[s] = place[s] \/ place[s] = "new" \/ place[s] = "context",
           \A s \in Source : place'[s] # "new" \/ place[s] = "new",
           Showing'
    PROVE  CInv' /\ Requires
<1>1. Whole(records)'
  BY DEF CInv, Whole, Receipts, Retained
<1>2. reached \subseteq Source
  BY DEF CInv, RequestsInv, TypeOK
<1>3. Received(records)' = Received(records)
  BY DEF Received, Retained
<1>4. Covers(records)'
  BY <1>2, <1>3 DEF CInv, Covers
<1>5. \A s \in reached' : place'[s] # "new"
  BY <1>2 DEF CInv
<1> QED BY <1>1, <1>4, <1>5 DEF CInv, Requires

\* Every step keeps the invariant and requires nothing twice.
LEMMA StepKeepsCInv ==
    ASSUME CInv, [Next]_vars PROVE CInv' /\ Requires
<1>1. RequestsInv'
  BY StepKeepsInv DEF CInv
<1>2. ASSUME NEW s \in Source, Consume(s) PROVE CInv' /\ Requires
  BY <1>1, <1>2, OthersKeepCInv DEF Consume, Showing, history, CInv, RequestsInv, TypeOK
<1>3. ASSUME NEW s \in Source, Archive(s) PROVE CInv' /\ Requires
  BY <1>1, <1>3, OthersKeepCInv DEF Archive, Showing, history, CInv, RequestsInv, TypeOK
<1>4. ASSUME NEW gone \in SUBSET Source, Compact(gone) PROVE CInv' /\ Requires
  BY <1>1, <1>4, OthersKeepCInv DEF Compact, Shown, Showing, history, CInv, RequestsInv, TypeOK
<1>5. CASE Execute \/ Lost
  <2>1. turn'.pc # "captured"
    BY <1>5 DEF Execute, Lost, Idle, CInv, RequestsInv, TypeOK, Turn
  <2>2. /\ records' = records /\ reached' = reached /\ archived' = archived
        /\ place' = place
    BY <1>5 DEF Execute, Lost, sources, history
  <2> QED BY <1>1, <2>1, <2>2, OthersKeepCInv DEF Showing
<1>6. CASE UNCHANGED vars
  <2>1. /\ records' = records /\ reached' = reached /\ archived' = archived
        /\ place' = place /\ turn' = turn
    BY <1>6 DEF vars, sources, history
  <2> QED BY <1>1, <2>1, OthersKeepCInv DEF Showing, CInv, Shown
<1>7. ASSUME NEW delivered \in SUBSET Source, NEW projection \in Projection,
             Captured(delivered, projection)
      PROVE  CInv' /\ Requires
  <2> DEFINE members == Shown \ Cancelled(records)
             capture == [captured |-> members,
                         delivered |-> delivered, projection |-> projection]
  <2>1. /\ records' = records /\ reached' = reached /\ archived' = archived
        /\ place' = place
    BY <1>7 DEF Captured, sources, history
  <2>2. delivered \subseteq members /\ members \subseteq Shown /\ turn.pc # "captured"
    BY <1>7 DEF Captured
  <2>3. turn' = turn \/ turn' = [turn EXCEPT !.pc = "captured", !.capture = capture]
    BY <1>7 DEF Captured
  <2>4. turn \in Turn
    BY DEF CInv, RequestsInv, TypeOK
  <2>5. capture.captured = members /\ capture.delivered = delivered
    OBVIOUS
  <2> HIDE DEF members, capture
  <2>6. turn'.pc = "captured" => turn'.capture = capture
    BY <2>2, <2>3, <2>4 DEF Turn
  <2>7. Showing'
    BY <2>1, <2>2, <2>5, <2>6 DEF Showing, Shown
  <2> QED BY <1>1, <2>1, <2>7, OthersKeepCInv
<1>8. ASSUME NEW enforced \in BOOLEAN, NEW fails \in BOOLEAN,
             BeforeRequest(enforced, fails)
      PROVE  CInv' /\ Requires
  BY <1>1, <1>8, BeforeRequestKeepsCInv
<1>9. CASE Maintain
  BY <1>1, <1>9, MaintainKeepsCInv
<1>10. CASE Handoff
  BY <1>1, <1>10, HandoffKeepsCInv
<1>11. CASE Withhold
  BY <1>1, <1>11, OutcomeKeepsCInv DEF Withhold, Outcome, sources, history
<1>12. ASSUME NEW outcome \in Outcome, Answer(outcome) PROVE CInv' /\ Requires
  BY <1>1, <1>12, OutcomeKeepsCInv DEF Answer, sources, history
<1>13. ASSUME NEW r \in Request,
              \/ AuthorizeRetry(r) \/ CancelProjections(r)
              \/ \E gone \in SUBSET Source : CancelSources(r, gone)
       PROVE  CInv' /\ Requires
  <2>1. PICK recs : Stored(recs) /\ Alike(records, recs)
    BY <1>13, DecisionAlike
  <2>2. UNCHANGED <<place, archived, reached>> /\ turn' = turn
    BY <1>13 DEF AuthorizeRetry, CancelProjections, CancelSources, sources, history
  <2> QED BY <1>1, <2>1, <2>2, AlikeKeepsCInv
<1>14. ASSUME NEW destructive \in BOOLEAN, Clear(destructive) PROVE CInv' /\ Requires
  BY <1>1, <1>14, ClearKeepsCInv
<1>15. ASSUME NEW protected \in SUBSET Request, NEW keep \in 1..Keep,
              RetireHistory(protected, keep)
       PROVE  CInv' /\ Requires
  BY <1>1, <1>15, RetireHistoryKeepsCInv
<1>16. ASSUME NEW crash \in BOOLEAN, Reattach(crash) PROVE CInv' /\ Requires
  <2> DEFINE recs == IF crash THEN records ELSE Settled
  <2>1. Alike(records, recs)
    BY SettledAlike DEF CInv, RequestsInv, TypeOK, Receipts, Alike
  <2>2. Stored(recs) /\ UNCHANGED <<place, archived, reached>> /\ turn' = Idle
    BY <1>16 DEF Reattach, sources, history
  <2> HIDE DEF recs
  <2> QED BY <1>1, <2>1, <2>2, AlikeKeepsCInv
<1> QED
  BY <1>2, <1>3, <1>4, <1>5, <1>6, <1>7, <1>8, <1>9, <1>10, <1>11, <1>12, <1>13, <1>14,
     <1>15, <1>16
  DEF Next, Steps, Decide, Around

\* Input that a provider has received is not required of a later request,
\* whatever has been pruned or retired since, unless its request was archived
\* (native-request-store.ts, prune and retire; pi-native-requests.ts, the
\* handler before a request).
THEOREM DeliveredOnce == Spec => NeverRequiredAgain
<1>1. Init => CInv
  <2> SUFFICES ASSUME Init PROVE CInv
    OBVIOUS
  <2>1. RequestsInv
    BY Initially
  <2>2. Retained(records) = {} /\ records \in Receipts
    BY DEF Init, Retained, Receipts
  <2> QED BY <2>1, <2>2 DEF CInv, Whole, Covers, Showing, Init, Idle
<1>2. CInv /\ [Next]_vars => CInv'
  BY StepKeepsCInv
<1>3. CInv /\ [Next]_vars =>
        [\A r \in Request : records[r] = None /\ records'[r] # None =>
            records'[r].required \cap reached \subseteq archived]_vars
  BY StepKeepsCInv DEF Requires
<1> QED
  BY <1>1, <1>2, <1>3, PTL DEF Spec, NeverRequiredAgain

-----------------------------------------------------------------------------
(* An ended wait keeps its decision *)

\* The waits of the tokens and the resets, as far as the proof needs their types.
Typed == waits = [t \in Token |-> waits[t]] /\ resets \in Nat

\* What a step makes of the wait of t: the promise of DecisionKept.
EndKept(t) ==
    waits[t] # Nil /\ ~Live(waits[t]) /\ resets' = resets =>
        \/ waits'[t] = waits[t]
        \/ waits'[t] = Nil /\ (waits[t].state = "cancelled" \/ t \in observed)

\* The operators that end a wait leave an ended one alone (wait-state.ts: each
\* returns the state it was given when that is not waiting).
LEMMA EndedStays ==
    ASSUME NEW wait, ~Live(wait), NEW now, NEW seen
    PROVE  /\ Reconciled(wait, seen, now) = wait
           /\ Expired(wait, now) = wait
           /\ CancelledWait(wait, now) = wait
BY DEF Reconciled, Expired, CancelledWait

\* New evidence reconciles the live waits only.
LEMMA ReconciledKept ==
    ASSUME NEW t \in Token, NEW executions, NEW now, ~Live(waits[t])
    PROVE  AllReconciled(executions, now)[t] = waits[t]
BY DEF AllReconciled

LEMMA StaysTyped == Typed /\ [WaitNext]_waiting => Typed'
<1> SUFFICES ASSUME Typed, [WaitNext]_waiting PROVE Typed'
    OBVIOUS
<1>1. ASSUME NEW w \in Work, RegisterWork(w) PROVE Typed'
  BY <1>1 DEF Typed, RegisterWork, AllReconciled
<1>2. ASSUME NEW w \in Work, NEW s \in Open \cup Ended, ChangeWork(w, s) PROVE Typed'
  BY <1>2 DEF Typed, ChangeWork
<1>3. ASSUME NEW x \in Execution, NEW w \in Work, NEW state \in Progress,
             RegisterExecution(x, w, state)
      PROVE Typed'
  BY <1>3 DEF Typed, RegisterExecution, AllReconciled
<1>4. ASSUME NEW x \in Execution, NEW state \in Progress, Observe(x, state) PROVE Typed'
  BY <1>4 DEF Typed, Observe, AllReconciled
<1>5. ASSUME NEW x \in Execution, NEW t \in Token, NEW v \in Verdict, ObserveHealth(t, x, v)
      PROVE Typed'
  BY <1>5 DEF Typed, ObserveHealth
<1>6. ASSUME NEW t \in Token, NEW w \in Work, NEW on \in SUBSET Execution,
             NEW replace \in Token \cup {Nil}, NEW mode \in Modes(on), NEW expires \in Time,
             DeclareOwned(t, w, on, mode, expires, replace)
      PROVE Typed'
  BY <1>6 DEF Typed, DeclareOwned
<1>7. ASSUME NEW t \in Token, CancelOwned(t) PROVE Typed'
  BY <1>7 DEF Typed, CancelOwned
<1>8. ASSUME NEW t \in Token, DecisionObserved(t) PROVE Typed'
  BY <1>8 DEF Typed, DecisionObserved, store
<1>9. CASE ExpireDue
  BY <1>9 DEF Typed, ExpireDue
<1>10. CASE Retire
  BY <1>10 DEF Typed, Retire, RetireChosen
<1>11. CASE Reset
  BY <1>11 DEF Typed, Reset
<1>12. CASE UNCHANGED waiting
  BY <1>12 DEF Typed, waiting, store
<1> QED
  BY <1>1, <1>2, <1>3, <1>4, <1>5, <1>6, <1>7, <1>8, <1>9, <1>10, <1>11, <1>12
  DEF WaitNext, Evidenced, Waited

\* No step forgets or changes the end of a wait before it is delivered.
LEMMA StepKeeps ==
    ASSUME Typed, [WaitNext]_waiting, NEW t \in Token
    PROVE  EndKept(t)
<1> SUFFICES ASSUME waits[t] # Nil, ~Live(waits[t]), resets' = resets
             PROVE  \/ waits'[t] = waits[t]
                    \/ waits'[t] = Nil /\ (waits[t].state = "cancelled" \/ t \in observed)
    BY DEF EndKept
<1>1. ASSUME NEW w \in Work, RegisterWork(w) PROVE waits'[t] = waits[t]
  BY <1>1, ReconciledKept DEF RegisterWork
<1>2. ASSUME NEW w \in Work, NEW s \in Open \cup Ended, ChangeWork(w, s)
      PROVE  waits'[t] = waits[t]
  BY <1>2 DEF ChangeWork, LiveTokens
<1>3. ASSUME NEW x \in Execution, NEW w \in Work, NEW state \in Progress,
             RegisterExecution(x, w, state)
      PROVE  waits'[t] = waits[t]
  BY <1>3, ReconciledKept DEF RegisterExecution
<1>4. ASSUME NEW x \in Execution, NEW state \in Progress, Observe(x, state)
      PROVE  waits'[t] = waits[t]
  BY <1>4, ReconciledKept DEF Observe
<1>5. ASSUME NEW x \in Execution, NEW u \in Token, NEW v \in Verdict, ObserveHealth(u, x, v)
      PROVE  waits'[t] = waits[t]
  BY <1>5 DEF ObserveHealth, Typed
<1>6. ASSUME NEW u \in Token, NEW w \in Work, NEW on \in SUBSET Execution,
             NEW replace \in Token \cup {Nil}, NEW mode \in Modes(on), NEW expires \in Time,
             DeclareOwned(u, w, on, mode, expires, replace)
      PROVE  waits'[t] = waits[t]
  <2>1. u # t
    BY <1>6 DEF DeclareOwned, Fresh
  <2> QED
    BY <1>6, <2>1, EndedStays DEF DeclareOwned
<1>7. ASSUME NEW u \in Token, CancelOwned(u) PROVE waits'[t] = waits[t]
  BY <1>7 DEF CancelOwned, Typed
<1>8. ASSUME NEW u \in Token, DecisionObserved(u) PROVE waits'[t] = waits[t]
  BY <1>8 DEF DecisionObserved, store
<1>9. CASE ExpireDue
  BY <1>9, EndedStays DEF ExpireDue
<1>10. CASE Retire
  BY <1>10 DEF Retire, RetireChosen, Chosen, RetirableWait
<1>11. CASE Reset
  BY <1>11 DEF Reset, Typed
<1>12. CASE UNCHANGED waiting
  BY <1>12 DEF waiting, store
<1> QED
  BY <1>1, <1>2, <1>3, <1>4, <1>5, <1>6, <1>7, <1>8, <1>9, <1>10, <1>11, <1>12
  DEF WaitNext, Evidenced, Waited

\* An ended wait keeps its end, and is forgotten only when it was cancelled or
\* its decision has been delivered, or when the user resets the branch
\* (wait-store.ts, retire and reset; wait-state.ts).
THEOREM DecisionsKept == WaitSpec => DecisionKept
<1>1. WaitInit => Typed
  BY DEF WaitInit, Typed
<1>2. Typed /\ [WaitNext]_waiting => Typed'
  BY StaysTyped
<1>3. Typed /\ [WaitNext]_waiting =>
        [\A t \in Token :
           waits[t] # Nil /\ ~Live(waits[t]) /\ resets' = resets =>
              \/ waits'[t] = waits[t]
              \/ waits'[t] = Nil /\ (waits[t].state = "cancelled" \/ t \in observed)]_waiting
  BY StepKeeps DEF EndKept
<1> QED
  BY <1>1, <1>2, <1>3, PTL DEF WaitSpec, DecisionKept

-----------------------------------------------------------------------------
(* Waits as values *)

\* What a wait may have seen of an execution.
Verdicts == Progress \cup Verdict

\* A wait is a record with these fields; kept folded, for the provers do not
\* take several fields at once.
Formed(wait) ==
    wait = [work |-> wait.work, on |-> wait.on, mode |-> wait.mode,
            created |-> wait.created, expires |-> wait.expires,
            seen |-> wait.seen, state |-> wait.state, ended |-> wait.ended]

\* Every field but what the wait has seen has its type.
Plain(wait) ==
    /\ Formed(wait)
    /\ wait.work \in Work /\ wait.on \in SUBSET Execution /\ wait.mode \in {"all", "any"}
    /\ wait.created \in Time /\ wait.expires \in Time
    /\ wait.state \in {"waiting"} \cup WaitEnd /\ wait.ended \in Time \cup {Nil}

\* What a wait has seen, for any set of executions.
SeenTypes == UNION {[on -> Verdicts] : on \in SUBSET Execution}

\* A view of the executions of a wait is one of them.
LEMMA SeenTyped ==
    ASSUME NEW on \in SUBSET Execution, NEW seen \in [on -> Verdicts]
    PROVE  seen \in SeenTypes
BY DEF SeenTypes

\* The type of a wait, field by field, and back.
LEMMA RecordPlain ==
    ASSUME NEW wait \in WaitRecord
    PROVE  Plain(wait) /\ wait.seen \in SeenTypes
<1>1. WaitRecord = [work : Work, on : SUBSET Execution, mode : {"all", "any"},
                    created : Time, expires : Time, seen : SeenTypes,
                    state : {"waiting"} \cup WaitEnd, ended : Time \cup {Nil}]
  BY DEF WaitRecord, SeenTypes, Verdicts
<1> HIDE DEF SeenTypes
<1> QED BY <1>1 DEF Plain, Formed

\* A record whose fields have their types is a wait.
LEMMA PlainRecord ==
    ASSUME NEW wait, Plain(wait), wait.seen \in SeenTypes
    PROVE  wait \in WaitRecord
<1>1. WaitRecord = [work : Work, on : SUBSET Execution, mode : {"all", "any"},
                    created : Time, expires : Time, seen : SeenTypes,
                    state : {"waiting"} \cup WaitEnd, ended : Time \cup {Nil}]
  BY DEF WaitRecord, SeenTypes, Verdicts
<1> HIDE DEF SeenTypes
<1> QED BY <1>1 DEF Plain, Formed

\* Later is a maximum (reconcileFlowWait: a wait does not end before it was
\* created).
LEMMA LaterTime == ASSUME NEW a \in Time, NEW b \in Time
    PROVE /\ Later(a, b) \in Time /\ Later(a, b) >= a /\ Later(a, b) >= b
BY WaitAssumption DEF Later, Time

\* The outcome depends on what the wait asks for, and on nothing the store
\* changes.
LEMMA OutcomeSame ==
    ASSUME NEW a, NEW b, a.on = b.on, a.mode = b.mode, a.expires = b.expires,
           NEW seen, NEW now
    PROVE  WaitOutcome(a, seen, now) = WaitOutcome(b, seen, now)
BY DEF WaitOutcome, Met, Over

\* A reconciliation never cancels, and expires a wait exactly when its deadline
\* has passed.
LEMMA OutcomeKinds ==
    ASSUME NEW wait, NEW seen, NEW now
    PROVE  /\ WaitOutcome(wait, seen, now) \in ({"waiting"} \cup WaitEnd) \ {"cancelled"}
           /\ (WaitOutcome(wait, seen, now) = "expired") <=> now >= wait.expires
BY DEF WaitOutcome, EndOf, WaitEnd, Verdict

\* A wait that still waits at some time did so before, given the same view.
LEMMA OutcomeEarlier ==
    ASSUME NEW wait, NEW seen, NEW now \in Time, NEW at \in Time, at <= now,
           wait.expires \in Time, WaitOutcome(wait, seen, now) = "waiting"
    PROVE  WaitOutcome(wait, seen, at) = "waiting"
<1>1. ~(now >= wait.expires)
  BY DEF WaitOutcome
<1>2. ~(at >= wait.expires)
  BY <1>1, WaitAssumption DEF Time
<1> QED BY <1>1, <1>2 DEF WaitOutcome

\* A live wait was not over when it was created, given what it has seen; an
\* ended one has the end its view and its time call for.
Justified(wait) ==
    IF Live(wait) THEN WaitOutcome(wait, wait.seen, wait.created) = "waiting"
    ELSE EndJustified(wait)

\* Two waits that ask for the same.
Same(a, b) ==
    /\ a.work = b.work /\ a.on = b.on /\ a.mode = b.mode
    /\ a.created = b.created /\ a.expires = b.expires

\* A wait that is given an end.
LEMMA WithState ==
    ASSUME NEW wait, Formed(wait), NEW end, NEW at
    PROVE  [wait EXCEPT !.state = end, !.ended = at] =
               [work |-> wait.work, on |-> wait.on, mode |-> wait.mode,
                created |-> wait.created, expires |-> wait.expires,
                seen |-> wait.seen, state |-> end, ended |-> at]
<1> DEFINE w == wait.work
           o == wait.on
           m == wait.mode
           c == wait.created
           e == wait.expires
           s == wait.seen
           st == wait.state
           d == wait.ended
<1>1. wait =
        [work |-> w, on |-> o, mode |-> m, created |-> c, expires |-> e,
         seen |-> s, state |-> st, ended |-> d]
  BY Zenon DEF Formed
<1> HIDE DEF w, o, m, c, e, s, st, d
<1>2. [[work |-> w, on |-> o, mode |-> m, created |-> c, expires |-> e,
                seen |-> s, state |-> st, ended |-> d] EXCEPT !.state = end] =
       [work |-> w, on |-> o, mode |-> m, created |-> c, expires |-> e,
                seen |-> s, state |-> end, ended |-> d]
  OBVIOUS
<1>3. [[work |-> w, on |-> o, mode |-> m, created |-> c, expires |-> e,
                seen |-> s, state |-> end, ended |-> d] EXCEPT !.ended = at] =
       [work |-> w, on |-> o, mode |-> m, created |-> c, expires |-> e,
                seen |-> s, state |-> end, ended |-> at]
  OBVIOUS
<1>4. [wait EXCEPT !.state = end, !.ended = at] =
        [[wait EXCEPT !.state = end] EXCEPT !.ended = at]
  OBVIOUS
<1>5. [[wait EXCEPT !.state = end] EXCEPT !.ended = at] =
        [work |-> w, on |-> o, mode |-> m, created |-> c, expires |-> e,
         seen |-> s, state |-> end, ended |-> at]
  BY <1>1, <1>2, <1>3, Zenon
<1> QED BY <1>4, <1>5, Zenon DEF w, o, m, c, e, s, st, d

\* A wait that is given a view and an outcome.
Rewritten(wait, news, end, at) == [wait EXCEPT !.seen = news, !.state = end, !.ended = at]

\* It differs in those fields only.
LEMMA WithEvidence ==
    ASSUME NEW wait, Formed(wait), NEW news, NEW end, NEW at
    PROVE  Rewritten(wait, news, end, at) =
               [work |-> wait.work, on |-> wait.on, mode |-> wait.mode,
                created |-> wait.created, expires |-> wait.expires,
                seen |-> news, state |-> end, ended |-> at]
<1> DEFINE w == wait.work
           o == wait.on
           m == wait.mode
           c == wait.created
           e == wait.expires
           s == wait.seen
           st == wait.state
           d == wait.ended
<1>1. wait =
        [work |-> w, on |-> o, mode |-> m, created |-> c, expires |-> e,
         seen |-> s, state |-> st, ended |-> d]
  BY Zenon DEF Formed
<1> HIDE DEF w, o, m, c, e, s, st, d
<1>2. [[work |-> w, on |-> o, mode |-> m, created |-> c, expires |-> e,
                seen |-> s, state |-> st, ended |-> d] EXCEPT !.seen = news] =
       [work |-> w, on |-> o, mode |-> m, created |-> c, expires |-> e,
                seen |-> news, state |-> st, ended |-> d]
  OBVIOUS
<1>3. [[work |-> w, on |-> o, mode |-> m, created |-> c, expires |-> e,
                seen |-> news, state |-> st, ended |-> d] EXCEPT !.state = end] =
       [work |-> w, on |-> o, mode |-> m, created |-> c, expires |-> e,
                seen |-> news, state |-> end, ended |-> d]
  OBVIOUS
<1>4. [[work |-> w, on |-> o, mode |-> m, created |-> c, expires |-> e,
                seen |-> news, state |-> end, ended |-> d] EXCEPT !.ended = at] =
       [work |-> w, on |-> o, mode |-> m, created |-> c, expires |-> e,
                seen |-> news, state |-> end, ended |-> at]
  OBVIOUS
<1>5. [wait EXCEPT !.seen = news, !.state = end, !.ended = at] =
        [[[wait EXCEPT !.seen = news] EXCEPT !.state = end] EXCEPT !.ended = at]
  OBVIOUS
<1>6. [[[wait EXCEPT !.seen = news] EXCEPT !.state = end] EXCEPT !.ended = at] =
        [work |-> w, on |-> o, mode |-> m, created |-> c, expires |-> e,
         seen |-> news, state |-> end, ended |-> at]
  BY <1>1, <1>2, <1>3, <1>4, Zenon
<1> QED BY <1>5, <1>6, Zenon DEF Rewritten, w, o, m, c, e, s, st, d

\* reconcileFlowWait makes a justified wait of a live one, whatever has been
\* seen and whatever the clock says.
LEMMA ReconciledJustified ==
    ASSUME NEW wait, Plain(wait), Live(wait), NEW seen \in [wait.on -> Verdicts],
           NEW now \in Time
    PROVE  LET r == Reconciled(wait, seen, now)
           IN  r \in WaitRecord /\ Same(r, wait) /\ r.seen = seen /\ (r # Nil => Justified(r))
<1> DEFINE at == Later(now, wait.created)
           state == WaitOutcome(wait, seen, at)
           ended == IF state = "waiting" THEN Nil ELSE at
           r == Rewritten(wait, seen, state, ended)
<1>1. Reconciled(wait, seen, now) = r
  BY DEF Reconciled, Rewritten
<1>2. at \in Time /\ at >= wait.created
  BY LaterTime DEF Plain
<1>3. /\ state \in ({"waiting"} \cup WaitEnd) \ {"cancelled"}
      /\ (state = "expired" <=> at >= wait.expires)
  BY OutcomeKinds
<1>10. ended = IF state = "waiting" THEN Nil ELSE at
  OBVIOUS
<1>11. state = WaitOutcome(wait, seen, at)
  OBVIOUS
<1> HIDE DEF at, state, ended
<1>4. r = [work |-> wait.work, on |-> wait.on, mode |-> wait.mode,
               created |-> wait.created, expires |-> wait.expires, seen |-> seen,
               state |-> state, ended |-> ended]
  BY WithEvidence DEF Plain
<1> HIDE DEF r
<1>5. /\ Same(r, wait) /\ r.seen = seen /\ r.state = state
      /\ r.ended = IF state = "waiting" THEN Nil ELSE at
  BY <1>4, <1>10 DEF Same
<1>6. seen \in SeenTypes
  BY SeenTyped DEF Plain
<1>7. Plain(r)
  BY <1>2, <1>3, <1>4, <1>5 DEF Plain, Same, Formed
<1>8. r \in WaitRecord
  BY <1>5, <1>6, <1>7, PlainRecord
<1>9. ASSUME r # Nil PROVE Justified(r)
  <2>1. WaitOutcome(r, seen, at) = state
    BY <1>5, <1>11, OutcomeSame DEF Same
  <2>2. CASE state = "waiting"
    <3>1. WaitOutcome(r, seen, r.created) = "waiting"
      BY <2>1, <2>2, <1>2, <1>5, <1>7, OutcomeEarlier, WaitAssumption DEF Same, Plain, Time
    <3> QED BY <3>1, <2>2, <1>5, <1>9 DEF Justified, Live
  <2>3. CASE state # "waiting"
    <3>1. ~Live(r)
      BY <2>3, <1>5 DEF Live
    <3>2. r.created <= r.ended
      BY <2>3, <1>2, <1>5, WaitAssumption DEF Same, Plain, Time
    <3>3. r.state = WaitOutcome(r, r.seen, r.ended) /\ r.state # "cancelled"
      BY <2>1, <2>3, <1>3, <1>5
    <3>4. (r.state = "expired") = (r.ended >= r.expires)
      BY <1>3, <1>5, <2>3 DEF Same
    <3> QED BY <3>1, <3>2, <3>3, <3>4 DEF Justified, EndJustified
  <2> QED BY <2>2, <2>3
<1> QED BY <1>1, <1>5, <1>8, <1>9

\* expireFlowWait: the end by deadline is justified.
LEMMA ExpiredJustified ==
    ASSUME NEW wait, wait \in WaitRecord, Live(wait), Justified(wait), NEW now \in Time,
           now >= wait.expires
    PROVE  LET r == Expired(wait, now)
           IN  r \in WaitRecord /\ ~Live(r) /\ Justified(r)
<1> DEFINE r == [wait EXCEPT !.state = "expired", !.ended = now]
<1>1. Expired(wait, now) = r
  BY DEF Expired
<1>2. Plain(wait) /\ wait.seen \in SeenTypes
  BY RecordPlain
<1>3. r = [work |-> wait.work, on |-> wait.on, mode |-> wait.mode,
               created |-> wait.created, expires |-> wait.expires, seen |-> wait.seen,
               state |-> "expired", ended |-> now]
  BY <1>2, WithState, Zenon DEF Plain
<1> HIDE DEF r
<1>4. /\ Plain(r) /\ r.seen = wait.seen /\ Same(r, wait)
      /\ r.state = "expired" /\ r.ended = now
  BY <1>2, <1>3 DEF Plain, Formed, Same, WaitEnd
<1>5. r \in WaitRecord
  BY <1>2, <1>4, PlainRecord
<1>6. ~(wait.created >= wait.expires)
  BY DEF Justified, WaitOutcome
<1>7. r.created <= r.ended
  BY <1>2, <1>4, <1>6, WaitAssumption DEF Same, Plain, Time
<1>8. WaitOutcome(r, r.seen, r.ended) = "expired"
  BY <1>4, OutcomeKinds DEF Same
<1>9. ~Live(r)
  BY <1>4 DEF Live
<1> QED BY <1>1, <1>4, <1>5, <1>7, <1>8, <1>9 DEF Justified, EndJustified, Same

\* cancelFlowWait: so is a cancellation, which is an expiry at or past the
\* deadline.
LEMMA CancelledJustified ==
    ASSUME NEW wait, wait \in WaitRecord, Live(wait), Justified(wait), NEW now \in Time,
           now >= wait.created
    PROVE  LET r == CancelledWait(wait, now)
           IN  r \in WaitRecord /\ ~Live(r) /\ Justified(r)
<1>1. wait.expires \in Time
  BY RecordPlain DEF Plain
<1>2. CASE ~(now < wait.expires)
  <2>1. now >= wait.expires /\ CancelledWait(wait, now) = Expired(wait, now)
    BY <1>1, <1>2, WaitAssumption DEF CancelledWait, Time
  <2> QED BY <2>1, ExpiredJustified
<1>3. CASE now < wait.expires
  <2> DEFINE r == [wait EXCEPT !.state = "cancelled", !.ended = now]
  <2>1. CancelledWait(wait, now) = r
    BY <1>3 DEF CancelledWait
  <2>2. Plain(wait) /\ wait.seen \in SeenTypes
    BY RecordPlain
  <2>3. r = [work |-> wait.work, on |-> wait.on, mode |-> wait.mode,
                 created |-> wait.created, expires |-> wait.expires, seen |-> wait.seen,
                 state |-> "cancelled", ended |-> now]
    BY <2>2, WithState, Zenon DEF Plain
  <2> HIDE DEF r
  <2>4. /\ Plain(r) /\ r.seen = wait.seen /\ Same(r, wait)
        /\ r.state = "cancelled" /\ r.ended = now
    BY <2>2, <2>3 DEF Plain, Formed, Same, WaitEnd
  <2>5. r \in WaitRecord
    BY <2>2, <2>4, PlainRecord
  <2>6. ~Live(r)
    BY <2>4 DEF Live
  <2>7. WaitOutcome(r, r.seen, r.created) = WaitOutcome(wait, wait.seen, wait.created)
    BY <2>4, OutcomeSame DEF Same
  <2> QED
    BY <2>1, <2>4, <2>5, <2>6, <2>7, <1>3 DEF Justified, EndJustified, Same
<1> QED BY <1>2, <1>3

\* What ownedWaitObservations sees has its type,
LEMMA ObservedTyped ==
    ASSUME NEW wait, NEW executions, \A x \in wait.on : executions[x].state \in Progress
    PROVE  Observations(wait, executions) \in [wait.on -> Verdicts]
BY DEF Observations, Verdicts

\* and a second look at the same executions sees the same.
LEMMA ObservedTwice ==
    ASSUME NEW wait, NEW executions, \A x \in wait.on : executions[x].state \in Progress,
           NEW r, r.on = wait.on, r.seen = Observations(wait, executions)
    PROVE  Observations(r, executions) = r.seen
<1> DEFINE S == Observations(wait, executions)
<1>1. S = [x \in wait.on |-> S[x]] /\ DOMAIN S = wait.on
  BY DEF Observations
<1>2. ASSUME NEW x \in wait.on
      PROVE  S[x] = IF executions[x].state = "pending" /\ S[x] \in Verdict
                    THEN S[x] ELSE executions[x].state
  BY <1>2 DEF Observations, Progress, Verdict
<1> HIDE DEF S
<1>3. Observations(r, executions) =
        [x \in wait.on |-> IF executions[x].state = "pending" /\ x \in DOMAIN S /\ S[x] \in Verdict
                           THEN S[x] ELSE executions[x].state]
  BY DEF Observations, S
<1>4. Observations(r, executions) = [x \in wait.on |-> S[x]]
  BY <1>1, <1>2, <1>3
<1> QED BY <1>1, <1>4 DEF S

-----------------------------------------------------------------------------
(* The invariant *)

\* A live wait belongs to open work and has seen what there is to see.
Knows(wait, works, executions) ==
    /\ works[wait.work] \in Open
    /\ \A x \in wait.on : executions[x] # Nil
    /\ wait.seen = Observations(wait, executions)

\* What is said of one wait.
Good(wait, works, executions) ==
    wait # Nil => /\ wait \in WaitRecord /\ Justified(wait)
                  /\ Live(wait) => Knows(wait, works, executions)

\* f is a function on S.
Function(f, S) == f = [s \in S |-> f[s]]

\* The inductive invariant: the variables have their shape,
Shaped ==
    /\ work \in [Work -> {"none"} \cup Open \cup Ended]
    /\ execution \in [Execution -> ExecutionRecord \cup {Nil}]
    /\ Function(waits, Token)
    /\ retired \in [work : SUBSET Work, execution : SUBSET Execution, token : SUBSET Token]
    /\ observed \in SUBSET Token

\* every wait has its type, is justified, and when live is up to date,
Waits == \A t \in Token : Good(waits[t], work, execution)
\* a work has one live wait at most,
Apart == \A t, u \in Token :
            Live(waits[t]) /\ Live(waits[u]) /\ waits[t].work = waits[u].work => t = u
\* a registered execution belongs to registered work,
Based == \A x \in Execution : execution[x] # Nil => Registered(execution[x].work)
\* of the identities of one campaign one at most is open,
OneBound == \A v, w \in Work :
            BindingOf[v] # Nil /\ BindingOf[v] = BindingOf[w]
                /\ {work[v], work[w]} \subseteq Open => v = w
\* what is retired is no longer there,
Gone ==
    /\ \A w \in retired.work : ~Registered(w)
    /\ \A x \in retired.execution : execution[x] = Nil
    /\ \A t \in retired.token : waits[t] = Nil
\* and a decision that was delivered is that of an ended wait.
Told == \A t \in observed : waits[t] # Nil /\ ~Live(waits[t])

\* What no step of the store breaks.
WaitsInv == Shaped /\ Waits /\ Apart /\ Based /\ OneBound /\ Gone /\ Told

\* What is known of a registered execution.
LEMMA ExecutionState == ASSUME NEW e \in ExecutionRecord \cup {Nil}, e # Nil
    PROVE e \in ExecutionRecord /\ e.state \in Progress /\ e.work \in Work
BY DEF ExecutionRecord

\* A live wait that is measured against the evidence there is stays good,
LEMMA Renewed ==
    ASSUME NEW wait, Live(wait), wait \in WaitRecord,
           NEW works, NEW executions, NEW now \in Time,
           executions \in [Execution -> ExecutionRecord \cup {Nil}],
           \A x \in wait.on : executions[x] # Nil,
           works[wait.work] \in Open
    PROVE  LET r == Reconciled(wait, Observations(wait, executions), now)
           IN  Good(r, works, executions) /\ r.work = wait.work
<1> DEFINE seen == Observations(wait, executions)
           r == Reconciled(wait, seen, now)
<1>1. Plain(wait)
  BY RecordPlain
<1>2. \A x \in wait.on : executions[x].state \in Progress
  BY <1>1, ExecutionState DEF Plain
<1>3. seen \in [wait.on -> Verdicts]
  BY <1>2, ObservedTyped
<1>4. r \in WaitRecord /\ Same(r, wait) /\ r.seen = seen /\ (r # Nil => Justified(r))
  <2> HIDE DEF seen
  <2> QED BY <1>1, <1>3, ReconciledJustified
<1> HIDE DEF r
<1>5. Observations(r, executions) = r.seen
  BY <1>2, <1>4, ObservedTwice DEF Same
<1>6. works[r.work] \in Open /\ (\A x \in r.on : executions[x] # Nil)
  BY <1>4 DEF Same
<1> QED BY <1>4, <1>5, <1>6 DEF Good, Knows, Same, r

\* and so does one that is cancelled; it is live no more.
LEMMA Dismissed ==
    ASSUME NEW wait, Live(wait), wait \in WaitRecord, Justified(wait),
           NEW works, NEW executions, NEW now \in Time,
           now >= wait.created
    PROVE  LET r == CancelledWait(wait, now) IN Good(r, works, executions) /\ ~Live(r)
BY CancelledJustified DEF Good

\* What a step makes of the waits there are: live ones stay good and with their
\* work, ended ones stay as they are.
Moved ==
    /\ Function(waits', Token)
    /\ \A t \in Token :
         IF Live(waits[t])
         THEN /\ Good(waits'[t], work', execution')
              /\ (Live(waits'[t]) => waits'[t].work = waits[t].work)
         ELSE waits'[t] = waits[t]

\* An ended wait is good whatever the evidence.
LEMMA GoodDead ==
    ASSUME NEW wait, NEW w, NEW e, Good(wait, w, e), ~Live(wait), NEW w2, NEW e2
    PROVE  Good(wait, w2, e2)
BY DEF Good

\* Such a step keeps what the invariant says of the waits.
LEMMA MovedKeeps ==
    ASSUME WaitsInv, Moved, observed' = observed, retired' = retired
    PROVE  /\ Function(waits', Token) /\ Waits' /\ Apart' /\ Told'
           /\ (\A t \in retired'.token : waits'[t] = Nil)
<1> USE DEF WaitsInv
<1>1. Waits'
  <2> SUFFICES ASSUME NEW t \in Token PROVE Good(waits'[t], work', execution')
    BY DEF Waits
  <2> QED BY GoodDead DEF Waits, Moved
<1>2. Apart'
  BY DEF Apart, Moved
<1>3. Told'
  BY DEF Told, Moved, Shaped
<1>4. \A t \in retired'.token : waits'[t] = Nil
  <2> SUFFICES ASSUME NEW t \in retired.token PROVE waits'[t] = Nil
    OBVIOUS
  <2>1. t \in Token /\ waits[t] = Nil
    BY DEF Gone, Shaped
  <2> QED BY <2>1 DEF Moved, Live
<1> QED BY <1>1, <1>2, <1>3, <1>4 DEF Moved

\* authorityChange is such a step when no execution is forgotten and no work
\* ends.
LEMMA AllRenewed ==
    ASSUME WaitsInv, NEW now \in Time, waits' = AllReconciled(execution', now),
           execution' \in [Execution -> ExecutionRecord \cup {Nil}],
           \A x \in Execution : execution[x] # Nil => execution'[x] # Nil,
           \A w \in Work : work[w] \in Open => work'[w] \in Open
    PROVE  Moved
<1>1. Function(waits', Token)
  BY DEF AllReconciled, Function
<1>2. ASSUME NEW t \in Token PROVE
         IF Live(waits[t])
         THEN /\ Good(waits'[t], work', execution')
              /\ (Live(waits'[t]) => waits'[t].work = waits[t].work)
         ELSE waits'[t] = waits[t]
  <2>1. CASE ~Live(waits[t])
    BY <2>1 DEF AllReconciled
  <2>2. CASE Live(waits[t])
    <3>1. waits'[t] = Reconciled(waits[t], Observations(waits[t], execution'), now)
      BY <2>2 DEF AllReconciled
    <3>2. waits[t] \in WaitRecord /\ Knows(waits[t], work, execution)
      BY <2>2 DEF WaitsInv, Waits, Good, Live
    <3>3. work'[waits[t].work] \in Open /\ \A x \in waits[t].on : execution'[x] # Nil
      BY <3>2, RecordPlain DEF Knows, Plain
    <3> QED BY <2>2, <3>1, <3>2, <3>3, Renewed
  <2> QED BY <2>1, <2>2
<1> QED BY <1>1, <1>2 DEF Moved

\* One lemma per action. Work is registered when its campaign has no open work.
LEMMA StepRegisterWork ==
    ASSUME WaitsInv, NEW w \in Work, RegisterWork(w) PROVE WaitsInv'
<1> USE DEF WaitsInv
<1>1. work' = [work EXCEPT ![w] = "active"] /\ UNCHANGED <<execution, retired, observed>>
  BY DEF RegisterWork
<1>2. PICK now \in Time : waits' = AllReconciled(execution, now)
  BY DEF RegisterWork
<1>3. Moved
  BY <1>1, <1>2, AllRenewed DEF Shaped, Open, Ended
<1>4. /\ Function(waits', Token) /\ Waits' /\ Apart' /\ Told'
      /\ (\A t \in retired'.token : waits'[t] = Nil)
  BY <1>1, <1>3, MovedKeeps
<1>5. Shaped'
  BY <1>1, <1>4 DEF Shaped, Open
<1>6. Based'
  BY <1>1, ExecutionState DEF Based, Shaped, Registered
<1>7. OneBound'
  <2>1. work[w] = "none" /\ (BindingOf[w] # Nil => LiveBound(BindingOf[w]) = {})
    BY DEF RegisterWork, MayRegister, Registered
  <2> QED BY <1>1, <2>1 DEF OneBound, LiveBound, Shaped
<1>8. Gone'
  <2>1. w \notin retired.work
    BY DEF RegisterWork, MayRegister
  <2> QED BY <1>1, <1>4, <2>1 DEF Gone, Registered, Shaped
<1> QED BY <1>4, <1>5, <1>6, <1>7, <1>8

\* Work that ends cancels its waits before the rest is reconciled.
LEMMA StepChangeWork ==
    ASSUME WaitsInv, NEW w \in Work, NEW status \in Open \cup Ended, ChangeWork(w, status)
    PROVE  WaitsInv'
<1> USE DEF WaitsInv
<1>1. /\ work' = [work EXCEPT ![w] = status] /\ work[w] \in Open
      /\ UNCHANGED <<execution, retired, observed>>
  BY DEF ChangeWork
<1> DEFINE ends == {t \in LiveTokens : waits[t].work = w /\ status \in Ended}
           left(now) == [t \in Token |->
                           IF t \in ends THEN CancelledWait(waits[t], now) ELSE waits[t]]
<1>2. PICK now \in Time :
        /\ \A t \in ends : now >= waits[t].created
        /\ waits' = [t \in Token |->
                       IF Live(left(now)[t])
                       THEN Reconciled(left(now)[t],
                                       Observations(left(now)[t], execution), now)
                       ELSE left(now)[t]]
  BY Zenon DEF ChangeWork
<1>3. Moved
  <2>1. Function(waits', Token)
    BY <1>2 DEF Function
  <2>2. ASSUME NEW t \in Token PROVE
          IF Live(waits[t])
          THEN /\ Good(waits'[t], work', execution')
               /\ (Live(waits'[t]) => waits'[t].work = waits[t].work)
          ELSE waits'[t] = waits[t]
    <3>1. CASE ~Live(waits[t])
      BY <1>2, <3>1 DEF LiveTokens
    <3>2. CASE Live(waits[t]) /\ t \in ends
      <4>1. waits[t] \in WaitRecord /\ Justified(waits[t])
        BY <3>2 DEF Waits, Good, Live
      <4>2. now >= waits[t].created
        BY <1>2, <3>2
      <4>3. /\ Good(CancelledWait(waits[t], now), work', execution')
            /\ ~Live(CancelledWait(waits[t], now))
        BY <4>1, <4>2, <3>2, Dismissed
      <4>4. waits'[t] = CancelledWait(waits[t], now)
        BY <1>2, <3>2, <4>3
      <4> QED BY <3>2, <4>3, <4>4
    <3>3. CASE Live(waits[t]) /\ t \notin ends
      <4>1. waits'[t] = Reconciled(waits[t], Observations(waits[t], execution), now)
        BY <1>2, <3>3
      <4>2. waits[t] \in WaitRecord /\ Knows(waits[t], work, execution)
        BY <3>3 DEF Waits, Good, Live
      <4>3. waits[t].work = w => status \in Open
        BY <3>3 DEF LiveTokens
      <4>4. waits[t].work \in Work
        BY <4>2, RecordPlain DEF Plain
      <4>5. work'[waits[t].work] \in Open
        BY <4>2, <4>3, <4>4, <1>1 DEF Knows, Shaped
      <4>6. /\ execution' = execution /\ execution \in [Execution -> ExecutionRecord \cup {Nil}]
            /\ \A x \in waits[t].on : execution'[x] # Nil
        BY <1>1, <4>2 DEF Knows, Shaped
      <4> HIDE DEF left, ends
      <4> QED BY <3>3, <4>1, <4>2, <4>5, <4>6, Renewed
    <3> QED BY <3>1, <3>2, <3>3
  <2> QED BY <2>1, <2>2 DEF Moved
<1>4. /\ Function(waits', Token) /\ Waits' /\ Apart' /\ Told'
      /\ (\A t \in retired'.token : waits'[t] = Nil)
  BY <1>1, <1>3, MovedKeeps
<1>5. Shaped'
  BY <1>1, <1>4 DEF Shaped
<1>6. Based'
  BY <1>1, ExecutionState DEF Based, Shaped, Registered, Open, Ended
<1>7. OneBound'
  BY <1>1 DEF OneBound, Shaped
<1>8. Gone'
  <2>1. w \notin retired.work
    BY <1>1 DEF Gone, Registered, Open
  <2> QED BY <1>1, <1>4, <2>1 DEF Gone, Registered, Shaped
<1> QED BY <1>4, <1>5, <1>6, <1>7, <1>8

\* A new execution belongs to registered work.
LEMMA StepRegisterExecution ==
    ASSUME WaitsInv, NEW x \in Execution, NEW w \in Work, NEW state \in Progress,
           RegisterExecution(x, w, state)
    PROVE  WaitsInv'
<1> USE DEF WaitsInv
<1>1. /\ execution' = [execution EXCEPT ![x] = [work |-> w, state |-> state]]
      /\ UNCHANGED <<work, retired, observed>>
      /\ execution[x] = Nil /\ x \notin retired.execution /\ Registered(w)
  BY DEF RegisterExecution
<1>2. PICK now \in Time : waits' = AllReconciled(execution', now)
  BY DEF RegisterExecution
<1>3. [work |-> w, state |-> state] \in ExecutionRecord
  BY DEF ExecutionRecord
<1>4. execution' \in [Execution -> ExecutionRecord \cup {Nil}]
  BY <1>1, <1>3 DEF Shaped
<1>5. Moved
  <2>1. \A y \in Execution : execution[y] # Nil => execution'[y] # Nil
    BY <1>1 DEF Shaped
  <2>2. \A v \in Work : work[v] \in Open => work'[v] \in Open
    BY <1>1
  <2> QED BY <1>2, <1>4, <2>1, <2>2, AllRenewed
<1>6. /\ Function(waits', Token) /\ Waits' /\ Apart' /\ Told'
      /\ (\A t \in retired'.token : waits'[t] = Nil)
  BY <1>1, <1>5, MovedKeeps
<1>7. Shaped'
  BY <1>1, <1>4, <1>6 DEF Shaped
<1>8. Based'
  BY <1>1 DEF Based, Shaped, Registered
<1>9. OneBound'
  BY <1>1 DEF OneBound
<1>10. Gone'
  <2>1. \A y \in retired.execution : y \in Execution /\ y # x
    BY <1>1 DEF Shaped
  <2> QED BY <1>1, <1>6, <2>1 DEF Gone, Registered, Shaped
<1> QED BY <1>6, <1>7, <1>8, <1>9, <1>10

\* New evidence reaches every live wait.
LEMMA StepObserve ==
    ASSUME WaitsInv, NEW x \in Execution, NEW state \in Progress, Observe(x, state)
    PROVE  WaitsInv'
<1> USE DEF WaitsInv
<1>1. /\ execution' = [execution EXCEPT ![x].state = state]
      /\ UNCHANGED <<work, retired, observed>>
      /\ execution[x] # Nil
  BY DEF Observe
<1>2. PICK now \in Time : waits' = AllReconciled(execution', now)
  BY DEF Observe
<1>3. execution[x] \in ExecutionRecord /\ execution[x].work \in Work
  BY <1>1, ExecutionState DEF Shaped
<1>4. [execution[x] EXCEPT !.state = state] = [work |-> execution[x].work, state |-> state]
  BY <1>3 DEF ExecutionRecord
<1>5. [work |-> execution[x].work, state |-> state] \in ExecutionRecord
  BY <1>3 DEF ExecutionRecord
<1>6. execution' = [execution EXCEPT ![x] = [work |-> execution[x].work, state |-> state]]
  BY <1>1, <1>4 DEF Shaped
<1>7. execution' \in [Execution -> ExecutionRecord \cup {Nil}]
  BY <1>5, <1>6 DEF Shaped
<1>8. execution'[x] # Nil
  BY <1>5, <1>6, WaitAssumption DEF Shaped
<1>9. Moved
  <2>1. \A y \in Execution : execution[y] # Nil => execution'[y] # Nil
    BY <1>6, <1>8 DEF Shaped
  <2>2. \A v \in Work : work[v] \in Open => work'[v] \in Open
    BY <1>1
  <2> QED BY <1>2, <1>7, <2>1, <2>2, AllRenewed
<1>10. /\ Function(waits', Token) /\ Waits' /\ Apart' /\ Told'
       /\ (\A t \in retired'.token : waits'[t] = Nil)
  BY <1>1, <1>9, MovedKeeps
<1>11. Shaped'
  BY <1>1, <1>7, <1>10 DEF Shaped
<1>12. Based'
  BY <1>1, <1>6 DEF Based, Shaped, Registered
<1>13. OneBound'
  BY <1>1 DEF OneBound
<1>14. Gone'
  <2>1. \A y \in retired.execution : y \in Execution /\ y # x
    BY <1>1 DEF Shaped, Gone
  <2> QED BY <1>1, <1>6, <1>10, <2>1 DEF Gone, Registered, Shaped
<1> QED BY <1>10, <1>11, <1>12, <1>13, <1>14

\* A step that changes one live wait into a good one, of the same work if it
\* stays live, keeps the invariant.
LEMMA OneMoves ==
    ASSUME WaitsInv, NEW t \in Token, Live(waits[t]), NEW wait,
           waits' = [waits EXCEPT ![t] = wait],
           Good(wait, work, execution), Live(wait) => wait.work = waits[t].work,
           UNCHANGED <<work, execution, retired, observed>>
    PROVE  WaitsInv'
<1> USE DEF WaitsInv
<1>1. Function(waits', Token)
  BY DEF Shaped, Function
<1>2. ASSUME NEW u \in Token
      PROVE  IF Live(waits[u])
             THEN /\ Good(waits'[u], work', execution')
                  /\ (Live(waits'[u]) => waits'[u].work = waits[u].work)
             ELSE waits'[u] = waits[u]
  <2>1. CASE u = t
    BY <2>1 DEF Shaped, Function
  <2>2. CASE u # t
    BY <2>2 DEF Shaped, Function, Waits
  <2> QED BY <2>1, <2>2
<1>3. Moved
  BY <1>1, <1>2 DEF Moved
<1>4. /\ Function(waits', Token) /\ Waits' /\ Apart' /\ Told'
      /\ (\A u \in retired'.token : waits'[u] = Nil)
  BY <1>3, MovedKeeps
<1> QED BY <1>4 DEF Shaped, Based, OneBound, Gone, Registered

\* A health decision is kept while the producer has nothing to say.
LEMMA StepObserveHealth ==
    ASSUME WaitsInv, NEW t \in Token, NEW x \in Execution, NEW verdict \in Verdict,
           ObserveHealth(t, x, verdict)
    PROVE  WaitsInv'
<1> USE DEF WaitsInv
<1> DEFINE seen == Observations(waits[t], execution)
           new == [seen EXCEPT ![x] = verdict]
<1>1. /\ Live(waits[t]) /\ x \in waits[t].on /\ seen[x] = "pending"
      /\ UNCHANGED <<work, execution, retired, observed>>
  BY DEF ObserveHealth
<1>2. PICK now \in Time : waits' = [waits EXCEPT ![t] = Reconciled(waits[t], new, now)]
  BY DEF ObserveHealth, Shaped, Function
<1> DEFINE wait == waits[t]
           r == Reconciled(wait, new, now)
<1>3. wait \in WaitRecord /\ Plain(wait) /\ Knows(wait, work, execution)
  BY <1>1, RecordPlain DEF Waits, Good, Live
<1>4. \A y \in wait.on : execution[y].state \in Progress
  BY <1>3, ExecutionState DEF Knows, Plain, Shaped
<1>5. seen \in [wait.on -> Verdicts]
  BY <1>4, ObservedTyped
<1> HIDE DEF wait
<1>6. new \in [wait.on -> Verdicts]
  <2> HIDE DEF seen
  <2> QED BY <1>5, <1>1 DEF Verdicts, wait
<1>7. r \in WaitRecord /\ Same(r, wait) /\ r.seen = new /\ (r # Nil => Justified(r))
  <2> HIDE DEF new
  <2> QED BY <1>1, <1>3, <1>6, ReconciledJustified DEF wait
<1>8. execution[x].state = "pending"
  <2>1. seen[x] = IF execution[x].state = "pending" /\ x \in DOMAIN wait.seen
                     /\ wait.seen[x] \in Verdict
                  THEN wait.seen[x] ELSE execution[x].state
    BY <1>1 DEF Observations, wait
  <2> QED BY <2>1, <1>1 DEF Verdict
<1>9. \A y \in wait.on :
         new[y] = IF execution[y].state = "pending" /\ y \in DOMAIN new
                     /\ new[y] \in Verdict
                  THEN new[y] ELSE execution[y].state
  <2>1. \A y \in wait.on : seen[y] = IF execution[y].state = "pending" /\ seen[y] \in Verdict
                                     THEN seen[y] ELSE execution[y].state
    BY <1>4 DEF Observations, Progress, Verdict, wait
  <2>2. new = [y \in wait.on |-> IF y = x THEN verdict ELSE seen[y]]
    <3> HIDE DEF seen
    <3> QED BY <1>5, <1>1 DEF wait
  <2> HIDE DEF seen, new
  <2> QED BY <2>1, <2>2, <1>8
<1>10. Observations(r, execution) = new
  <2>1. Observations(r, execution) =
          [y \in wait.on |-> IF execution[y].state = "pending" /\ y \in DOMAIN new /\ new[y] \in Verdict
                             THEN new[y] ELSE execution[y].state]
    <3> HIDE DEF new, r
    <3> QED BY <1>7 DEF Observations, Same
  <2> HIDE DEF new, r
  <2>2. Observations(r, execution) = [y \in wait.on |-> new[y]]
    BY <2>1, <1>9
  <2> QED BY <2>2, <1>6
<1> HIDE DEF new, r
<1>11. Good(r, work, execution)
  BY <1>3, <1>7, <1>10 DEF Good, Knows, Same
<1>12. waits' = [waits EXCEPT ![t] = r]
  BY <1>2 DEF r, new, wait
<1> QED BY <1>1, <1>7, <1>11, <1>12, OneMoves DEF Same, wait

\* One wait is cancelled.
LEMMA StepCancelOwned ==
    ASSUME WaitsInv, NEW t \in Token, CancelOwned(t) PROVE WaitsInv'
<1>1. PICK now \in Time :
         /\ now >= waits[t].created
         /\ waits' = [waits EXCEPT ![t] = CancelledWait(waits[t], now)]
  BY DEF CancelOwned, WaitsInv, Shaped, Function
<1>2. Live(waits[t]) /\ UNCHANGED <<work, execution, retired, observed>>
  BY DEF CancelOwned
<1>3. waits[t] \in WaitRecord /\ Justified(waits[t])
  BY <1>2 DEF WaitsInv, Waits, Good, Live
<1>4. /\ Good(CancelledWait(waits[t], now), work, execution)
      /\ ~Live(CancelledWait(waits[t], now))
  BY <1>1, <1>2, <1>3, Dismissed
<1> QED BY <1>1, <1>2, <1>4, OneMoves

\* The deadline scanner ends what is due.
LEMMA StepExpireDue ==
    ASSUME WaitsInv, ExpireDue PROVE WaitsInv'
<1> USE DEF WaitsInv
<1>1. PICK now \in Time : waits' = [t \in Token |-> Expired(waits[t], now)]
  BY DEF ExpireDue
<1>2. UNCHANGED <<work, execution, retired, observed>>
  BY DEF ExpireDue
<1>3. ASSUME NEW t \in Token
      PROVE  IF Live(waits[t])
             THEN /\ Good(waits'[t], work', execution')
                  /\ (Live(waits'[t]) => waits'[t].work = waits[t].work)
             ELSE waits'[t] = waits[t]
  <2>1. CASE Live(waits[t]) /\ now >= waits[t].expires
    <3>1. waits[t] \in WaitRecord /\ Justified(waits[t])
      BY <2>1 DEF Waits, Good, Live
    <3> QED BY <1>1, <2>1, <3>1, ExpiredJustified DEF Good
  <2>2. CASE ~(Live(waits[t]) /\ now >= waits[t].expires)
    BY <1>1, <1>2, <2>2 DEF Expired, Waits
  <2> QED BY <2>1, <2>2
<1>4. Moved
  BY <1>1, <1>3 DEF Moved, Function
<1>5. /\ Function(waits', Token) /\ Waits' /\ Apart' /\ Told'
      /\ (\A t \in retired'.token : waits'[t] = Nil)
  BY <1>2, <1>4, MovedKeeps
<1> QED BY <1>2, <1>5 DEF Shaped, Based, OneBound, Gone, Registered

\* Only ended waits have a decision to deliver.
LEMMA StepDecisionObserved ==
    ASSUME WaitsInv, NEW t \in Token, DecisionObserved(t) PROVE WaitsInv'
<1>1. UNCHANGED <<work, execution, waits, retired>> /\ observed' = observed \cup {t}
  BY DEF DecisionObserved, store
<1>2. waits[t] # Nil /\ ~Live(waits[t])
  BY DEF DecisionObserved, Live, WaitEnd, Verdict
<1> QED
  BY <1>1, <1>2
  DEF WaitsInv, Shaped, Waits, Apart, Based, OneBound, Gone, Told, Registered, Function

\* A new wait is measured against the evidence at once, and may have ended
\* before it began.
LEMMA Declared ==
    ASSUME NEW w \in Work, NEW on \in SUBSET Execution, NEW mode \in {"all", "any"},
           NEW expires \in Time, NEW now \in Time, expires > now,
           execution \in [Execution -> ExecutionRecord \cup {Nil}],
           \A x \in on : execution[x] # Nil, work[w] \in Open
    PROVE  /\ Good(NewWait(w, on, mode, expires, now), work, execution)
           /\ NewWait(w, on, mode, expires, now).work = w
<1> DEFINE seen == [x \in on |-> execution[x].state]
           base == [work |-> w, on |-> on, mode |-> mode, created |-> now,
                    expires |-> expires, seen |-> <<>>, state |-> "waiting", ended |-> Nil]
           r == Reconciled(base, seen, now)
<1>1. \A x \in on : execution[x].state \in Progress
  BY ExecutionState
<1>2. seen \in [on -> Verdicts]
  BY <1>1 DEF Verdicts
<1>3. Plain(base) /\ base.on = on /\ base.work = w /\ base.state = "waiting"
  BY DEF Plain, Formed
<1> HIDE DEF base, seen
<1>4. CASE ~Live(base)
  <2>1. base = Nil
    BY <1>3, <1>4 DEF Live
  <2>2. r = base
    BY <1>4 DEF Reconciled
  <2> QED BY <2>1, <2>2, <1>3 DEF Good, NewWait, base, seen
<1>5. CASE Live(base)
  <2>1. r \in WaitRecord /\ Same(r, base) /\ r.seen = seen /\ (r # Nil => Justified(r))
    BY <1>2, <1>3, <1>5, ReconciledJustified
  <2> HIDE DEF r
  <2>2. r.work = w /\ r.on = on
    BY <2>1, <1>3 DEF Same
  <2>3. Observations(r, execution) = seen
    <3>1. Observations(r, execution) =
            [x \in on |-> IF execution[x].state = "pending" /\ x \in DOMAIN seen /\ seen[x] \in Verdict
                          THEN seen[x] ELSE execution[x].state]
      BY <2>1, <2>2 DEF Observations
    <3>2. \A x \in on : seen[x] = execution[x].state /\ seen[x] \notin Verdict
      BY <1>1 DEF seen, Progress, Verdict
    <3> QED BY <3>1, <3>2 DEF seen
  <2>4. Good(r, work, execution)
    BY <2>1, <2>2, <2>3 DEF Good, Knows
  <2> QED BY <2>2, <2>4 DEF NewWait, r, base, seen
<1> QED BY <1>4, <1>5

\* A declaration takes the place of the live wait of its work.
LEMMA StepDeclareOwned ==
    ASSUME WaitsInv, NEW t \in Token, NEW w \in Work, NEW on \in SUBSET Execution,
           NEW replace \in Token \cup {Nil}, NEW mode \in Modes(on), NEW expires \in Time,
           DeclareOwned(t, w, on, mode, expires, replace)
    PROVE  WaitsInv'
<1> USE DEF WaitsInv
<1> DEFINE mine == Attributed(w)
           active == ActiveOf(mine)
           old == Replaced(active, replace)
<1>1. /\ UNCHANGED <<work, execution, retired, observed>>
      /\ work[mine] \in Open /\ waits[t] = Nil /\ t \notin retired.token
      /\ \A x \in on : execution[x] # Nil
  BY DEF DeclareOwned, Fresh
<1>2. PICK now \in Time :
        /\ expires > now
        /\ \A o \in old : now >= waits[o].created
        /\ waits' = [o \in Token |->
                       IF o = t THEN NewWait(mine, on, mode, expires, now)
                       ELSE IF o \in old THEN CancelledWait(waits[o], now)
                       ELSE waits[o]]
  BY DEF DeclareOwned
<1>3. mine \in Work /\ mode \in {"all", "any"}
  BY WaitAssumption DEF Attributed, Modes
<1>4. /\ \A o \in old : o \in Token /\ Live(waits[o])
      /\ \A o \in Token : Live(waits[o]) /\ waits[o].work = mine => o \in old
  <2>1. MayReplace(active, replace)
    BY DEF DeclareOwned
  <2>2. active = {o \in Token : Live(waits[o]) /\ waits[o].work = mine}
    BY DEF ActiveOf, LiveTokens
  <2> HIDE DEF active
  <2>3. CASE active # {}
    <3>1. old = active
      BY <2>3 DEF Replaced
    <3> QED BY <2>2, <3>1
  <2>4. CASE active = {}
    <3>1. old = {o \in {replace} \cap Token : waits[o] # Nil}
      BY <2>4 DEF Replaced
    <3>2. replace # Nil /\ waits[replace] # Nil => Live(waits[replace])
      BY <2>1, <2>4 DEF MayReplace
    <3>3. Nil \notin Token
      BY WaitAssumption
    <3> HIDE DEF old, mine
    <3>4. \A o \in old : o \in Token /\ Live(waits[o])
      BY <3>1, <3>2, <3>3
    <3> QED BY <2>2, <2>4, <3>4
  <2> QED BY <2>3, <2>4
<1> HIDE DEF old, active, mine
<1>5. Good(waits'[t], work, execution) /\ waits'[t].work = mine
  <2>1. waits'[t] = NewWait(mine, on, mode, expires, now)
    BY <1>2
  <2>2. execution \in [Execution -> ExecutionRecord \cup {Nil}]
    BY DEF Shaped
  <2>3. Good(NewWait(mine, on, mode, expires, now), work, execution)
        /\ NewWait(mine, on, mode, expires, now).work = mine
    <3>1. on \in SUBSET Execution /\ expires \in Time /\ now \in Time /\ expires > now
      BY <1>2
    <3>2. work[mine] \in Open /\ \A x \in on : execution[x] # Nil
      BY <1>1
    <3> HIDE DEF WaitsInv
    <3>3. mine \in Work /\ mode \in {"all", "any"}
      BY <1>3
    <3> QED BY <2>2, <3>1, <3>2, <3>3, Declared, SMTT(60)
  <2> QED BY <2>1, <2>3
<1>6. \A o \in old : Good(waits'[o], work, execution) /\ ~Live(waits'[o])
  <2> SUFFICES ASSUME NEW o \in old
               PROVE  Good(waits'[o], work, execution) /\ ~Live(waits'[o])
    OBVIOUS
  <2>1. o \in Token /\ Live(waits[o]) /\ o # t
    BY <1>1, <1>4 DEF Live
  <2>2. waits[o] \in WaitRecord /\ Justified(waits[o])
    BY <2>1 DEF Waits, Good, Live
  <2>3. waits'[o] = CancelledWait(waits[o], now)
    BY <1>2, <2>1
  <2> QED BY <1>2, <2>1, <2>2, <2>3, Dismissed
<1>7. \A o \in Token \ (old \cup {t}) : waits'[o] = waits[o]
  BY <1>2
<1>8. Function(waits', Token)
  BY <1>2 DEF Function
<1>9. Waits'
  <2> SUFFICES ASSUME NEW o \in Token PROVE Good(waits'[o], work, execution)
    BY <1>1 DEF Waits
  <2> QED BY <1>5, <1>6, <1>7 DEF Waits
<1>10. Apart'
  <2> SUFFICES ASSUME NEW a \in Token, NEW b \in Token, Live(waits'[a]), Live(waits'[b]),
                      waits'[a].work = waits'[b].work
               PROVE  a = b
    BY DEF Apart
  <2>1. a \notin old /\ b \notin old
    BY <1>6
  <2>2. \A o \in Token \ (old \cup {t}) : Live(waits'[o]) => waits'[o].work # mine
    BY <1>4, <1>7
  <2>3. CASE a = t \/ b = t
    BY <2>1, <2>2, <2>3, <1>5
  <2>4. CASE a # t /\ b # t
    BY <2>1, <2>4, <1>7 DEF Apart
  <2> QED BY <2>3, <2>4
<1>11. Told'
  <2> SUFFICES ASSUME NEW o \in observed PROVE waits'[o] # Nil /\ ~Live(waits'[o])
    BY <1>1 DEF Told
  <2>1. o \in Token /\ waits[o] # Nil /\ ~Live(waits[o])
    BY DEF Told, Shaped
  <2> QED BY <2>1, <1>1, <1>4, <1>7
<1>12. Gone'
  <2>1. \A o \in retired.token : o \in Token /\ waits[o] = Nil /\ o # t
    BY <1>1 DEF Gone, Shaped
  <2>2. \A o \in retired.token : waits'[o] = Nil
    BY <2>1, <1>4, <1>7 DEF Live
  <2> QED BY <1>1, <2>2 DEF Gone, Registered
<1> QED BY <1>1, <1>8, <1>9, <1>10, <1>11, <1>12 DEF Shaped, Based, OneBound, Registered

\* What is retired is in nobody's use: no live wait names it.
LEMMA StepRetire ==
    ASSUME WaitsInv, Retire PROVE WaitsInv'
<1> USE DEF WaitsInv
<1>0. PICK candidates \in SUBSET EndedExecutions, finished \in SUBSET FinishedWork :
        RetireChosen(Chosen(candidates, finished))
  BY DEF Retire
<1> DEFINE tokens == {t \in Token : RetirableWait(t)}
           kept == {t \in Token \ tokens : waits[t] # Nil}
           free == {x \in candidates : \A t \in kept : x \notin waits[t].on}
           works == {w \in finished : /\ \A t \in kept : waits[t].work # w
                                      /\ \A x \in Execution \ free :
                                            execution[x] # Nil => execution[x].work # w}
           gone == {x \in free : execution[x].work \in works}
           choice == Chosen(candidates, finished)
<1>1. choice = [work |-> works, token |-> tokens, execution |-> gone]
  BY DEF Chosen
<1>2. choice.work = works /\ choice.token = tokens /\ choice.execution = gone
  <2> HIDE DEF works, tokens, gone, choice
  <2> QED BY <1>1
<1>3. /\ work' = [w \in Work |-> IF w \in works THEN "none" ELSE work[w]]
      /\ execution' = [x \in Execution |-> IF x \in gone THEN Nil ELSE execution[x]]
      /\ waits' = [t \in Token |-> IF t \in tokens THEN Nil ELSE waits[t]]
      /\ observed' = observed \ tokens
  <2>1. RetireChosen(choice)
    BY <1>0
  <2> HIDE DEF works, tokens, gone, choice
  <2> QED BY <1>2, <2>1 DEF RetireChosen
<1>4. retired' = [work |-> retired.work \cup works, execution |-> retired.execution \cup gone,
                  token |-> retired.token \cup tokens]
  <2>0. RetireChosen(choice)
    BY <1>0
  <2> HIDE DEF works, tokens, gone, choice
  <2>1. DOMAIN retired = {"work", "execution", "token"}
    BY DEF Shaped
  <2>2. retired' = [kind \in DOMAIN retired |-> retired[kind] \cup choice[kind]]
    BY <2>0 DEF RetireChosen
  <2>3. retired' = [kind \in {"work", "execution", "token"} |-> retired[kind] \cup choice[kind]]
    BY <2>1, <2>2
  <2> QED BY <2>3, <1>2
<1>5. retired'.work = retired.work \cup works /\ retired'.execution = retired.execution \cup gone
      /\ retired'.token = retired.token \cup tokens
  <2> HIDE DEF works, tokens, gone
  <2> QED BY <1>4
<1>6. works \subseteq Work /\ gone \subseteq Execution /\ tokens \subseteq Token
  BY DEF EndedExecutions, FinishedWork
<1>7. \A t \in Token : Live(waits[t]) => t \notin tokens
  BY DEF RetirableWait, Live, Told
<1>8. \A t \in Token : Live(waits[t]) => waits[t].work \notin works /\ waits[t].on \cap gone = {}
  BY <1>7 DEF Live
<1>9. \A x \in Execution : execution[x] # Nil /\ x \notin gone => execution[x].work \notin works
  OBVIOUS
<1> HIDE DEF works, gone, tokens, kept, free, choice
<1>10. Shaped'
  <2>1. /\ retired.work \subseteq Work /\ retired.execution \subseteq Execution
        /\ retired.token \subseteq Token
    BY DEF Shaped
  <2>2. retired' \in [work : SUBSET Work, execution : SUBSET Execution, token : SUBSET Token]
    BY <1>4, <1>6, <2>1
  <2> QED BY <1>3, <2>2 DEF Shaped, Function
<1>11. Waits'
  <2> SUFFICES ASSUME NEW t \in Token PROVE Good(waits'[t], work', execution')
    BY DEF Waits
  <2>1. CASE t \in tokens
    BY <2>1, <1>3 DEF Good
  <2>2. CASE t \notin tokens /\ ~Live(waits[t])
    BY <2>2, <1>3, GoodDead DEF Waits
  <2>3. CASE Live(waits[t])
    <3>1. waits'[t] = waits[t]
      BY <2>3, <1>3, <1>7
    <3>2. waits[t] \in WaitRecord /\ Justified(waits[t]) /\ Knows(waits[t], work, execution)
      BY <2>3 DEF Waits, Good, Live
    <3>3. waits[t].work \in Work /\ waits[t].on \subseteq Execution
      BY <3>2, RecordPlain DEF Plain
    <3>4. /\ work'[waits[t].work] = work[waits[t].work]
          /\ \A x \in waits[t].on : execution'[x] = execution[x]
      BY <2>3, <3>3, <1>3, <1>8
    <3>5. Observations(waits[t], execution') = Observations(waits[t], execution)
      BY <3>4 DEF Observations
    <3>6. Knows(waits[t], work', execution')
      BY <3>2, <3>4, <3>5 DEF Knows
    <3> QED BY <3>1, <3>2, <3>6 DEF Good
  <2> QED BY <2>1, <2>2, <2>3
<1>12. Apart'
  <2>1. \A t \in Token : Live(waits'[t]) => waits'[t] = waits[t]
    BY <1>3 DEF Live
  <2> QED BY <2>1 DEF Apart
<1>13. Based'
  <2> SUFFICES ASSUME NEW x \in Execution, execution'[x] # Nil
               PROVE  work'[execution'[x].work] # "none"
    BY DEF Based, Registered
  <2>1. execution'[x] = execution[x] /\ x \notin gone
    BY <1>3
  <2>2. execution[x].work \in Work /\ work[execution[x].work] # "none"
    BY <2>1, ExecutionState DEF Based, Registered, Shaped
  <2> QED BY <1>3, <1>9, <2>1, <2>2
<1>14. OneBound'
  BY <1>3 DEF OneBound, Open
<1>15. Gone'
  <2>1. \A w \in retired'.work : work'[w] = "none"
    BY <1>3, <1>5, <1>6 DEF Gone, Registered, Shaped
  <2>2. \A x \in retired'.execution : execution'[x] = Nil
    BY <1>3, <1>5, <1>6 DEF Gone, Shaped
  <2>3. \A t \in retired'.token : waits'[t] = Nil
    BY <1>3, <1>5, <1>6 DEF Gone, Shaped
  <2> QED BY <2>1, <2>2, <2>3 DEF Gone, Registered
<1>16. Told'
  BY <1>3 DEF Told, Shaped
<1> QED BY <1>10, <1>11, <1>12, <1>13, <1>14, <1>15, <1>16

\* A reset leaves nothing to be wrong about.
LEMMA Cleared ==
    ASSUME work' = [w \in Work |-> IF w = Automatic THEN "active" ELSE "none"],
           execution' = [x \in Execution |-> Nil], waits' = [t \in Token |-> Nil],
           retired' = Nothing, observed' = {}
    PROVE  WaitsInv'
<1>1. Shaped'
  BY DEF Shaped, Nothing, Function, Open
<1>2. retired'.work = {} /\ retired'.execution = {} /\ retired'.token = {}
  BY DEF Nothing
<1> QED
  BY <1>1, <1>2
  DEF WaitsInv, Waits, Good, Apart, Live, Based, OneBound, Gone, Told, Open

\* The branch starts so.
LEMMA InitWaitsInv == WaitInit => WaitsInv
<1> SUFFICES ASSUME WaitInit PROVE WaitsInv
  OBVIOUS
<1>1. Shaped
  BY DEF WaitInit, Shaped, Nothing, Function, Open
<1>2. retired.work = {} /\ retired.execution = {} /\ retired.token = {}
  BY DEF WaitInit, Nothing
<1> QED
  BY <1>1, <1>2
  DEF WaitInit, WaitsInv, Waits, Good, Apart, Live, Based, OneBound, Gone, Told, Open

\* Every step keeps the invariant.
LEMMA StepIInv == WaitsInv /\ [WaitNext]_waiting => WaitsInv'
<1> SUFFICES ASSUME WaitsInv, [WaitNext]_waiting PROVE WaitsInv'
  OBVIOUS
<1>1. CASE \E w \in Work : RegisterWork(w) \/ \E s \in Open \cup Ended : ChangeWork(w, s)
  BY <1>1, StepRegisterWork, StepChangeWork
<1>2. CASE Evidenced
  BY <1>2, StepRegisterExecution, StepObserve, StepObserveHealth DEF Evidenced
<1>3. CASE Waited
  BY <1>3, StepDeclareOwned, StepCancelOwned, StepDecisionObserved DEF Waited
<1>4. CASE Reset
  BY <1>4, Cleared DEF Reset
<1>5. CASE UNCHANGED waiting
  BY <1>5
  DEF waiting, store, WaitsInv, Shaped, Waits, Apart, Based, OneBound, Gone, Told, Registered, Function
<1> QED
  BY <1>1, <1>2, <1>3, <1>4, <1>5, StepExpireDue, StepRetire DEF WaitNext

\* The validation that the store runs before it commits (wait-state.ts, wait-
\* store.ts) never refuses what one of its own transactions made: every live
\* wait is justified by the evidence and belongs to open work that has no other,
\* every ended one has the end its view, its deadline and its time call for, and
\* nothing retired is still there.
THEOREM WaitsNeverRefused == WaitSpec => []WaitsValidate
<1>1. WaitsInv => WaitsValidate
  <2> SUFFICES ASSUME WaitsInv PROVE WaitsValidate
    OBVIOUS
  <2> USE DEF WaitsInv
  <2>1. WaitTypeOK
    BY DEF WaitTypeOK, Shaped, Waits, Good
  <2>2. ASSUME NEW t \in Token, waits[t] # Nil
        PROVE  IF Live(waits[t]) THEN LiveJustified(t) ELSE EndJustified(waits[t])
    <3>1. CASE Live(waits[t])
      <4>1. ActiveOf(waits[t].work) = {t}
        BY <3>1 DEF ActiveOf, LiveTokens, Apart
      <4> QED BY <2>2, <3>1, <4>1 DEF Waits, Good, Knows, Justified, LiveJustified
    <3>2. CASE ~Live(waits[t])
      BY <2>2, <3>2 DEF Waits, Good, Justified
    <3> QED BY <3>1, <3>2
  <2>3. ASSUME NEW w \in Work, BindingOf[w] # Nil
        PROVE  Cardinality(LiveBound(BindingOf[w])) <= 1
    <3>1. CASE LiveBound(BindingOf[w]) = {}
      BY <3>1, FS_EmptySet
    <3>2. CASE LiveBound(BindingOf[w]) # {}
      <4>1. PICK v \in LiveBound(BindingOf[w]) : TRUE
        BY <3>2
      <4>2. LiveBound(BindingOf[w]) = {v}
        BY <2>3, <4>1 DEF OneBound, LiveBound
      <4>3. Cardinality({v}) = 1
        BY FS_Singleton
      <4> HIDE DEF LiveBound
      <4> QED BY <4>2, <4>3
    <3> QED BY <3>1, <3>2
  <2> QED BY <2>1, <2>2, <2>3 DEF WaitsValidate, Based, Gone
<1> QED
  BY InitWaitsInv, StepIInv, <1>1, PTL DEF WaitSpec
===================================================================================
