-------------------------- MODULE WaitEvidenceProofs --------------------------
(***************************************************************************)
(* What is proved about what brings a wait to its end.                     *)
(*                                                                         *)
(* The subscription to a producer (WaitBinding), for any predicates,       *)
(* revisions, buffers, probes, replays and crashes: what the store has is  *)
(* what the producer published, and no change of it is lost on the way.    *)
(*                                                                         *)
(* The scanners (WaitScans), for any waits, times and timers: a wait ends  *)
(* for silence only when its evidence, a probe and the grace are over.     *)
(* A scanner that rests has a timer for all that it must notice next.      *)
(***************************************************************************)
EXTENDS WaitScans, WaitBinding, FiniteSetTheorems, TLAPS

-----------------------------------------------------------------------------
(* The subscription: evidence and its order *)

Older(prior, next) == prior.revision < next.revision /\ prior.ended \subseteq next.ended
Behind(evidence, last) == evidence = last \/ Older(evidence, last)

LEMMA EvidenceParts ==
    ASSUME NEW evidence \in Evidence
    PROVE  /\ evidence.revision \in Nat /\ evidence.ended \subseteq Predicate
           /\ evidence = [revision |-> evidence.revision, ended |-> evidence.ended]
           /\ evidence # Nil
BY BindingAssumption DEF Evidence, Revision

\* Evidence can follow what it is equal to or newer than, and nothing else.
LEMMA ObjectionIs ==
    ASSUME NEW prior \in Evidence, NEW next \in Evidence
    PROVE  Objection(prior, next) = Nil <=> Behind(prior, next)
BY EvidenceParts, BindingAssumption DEF Objection, Behind, Older

LEMMA OlderStill ==
    ASSUME NEW a \in Evidence, NEW b \in Evidence, NEW c \in Evidence,
           Behind(a, b), Older(b, c)
    PROVE  Older(a, c)
BY EvidenceParts DEF Behind, Older

LEMMA BehindBoth ==
    ASSUME NEW a \in Evidence, NEW b \in Evidence, Behind(a, b), b.revision <= a.revision
    PROVE  a = b
BY EvidenceParts DEF Behind, Older

\* The newest of a set that has the last evidence is that one.
LEMMA NewestIs ==
    ASSUME NEW S \in SUBSET Evidence, NEW last \in S, \A o \in S : Behind(o, last)
    PROVE  Newest(S) = last
<1>1. \A o \in S : o.revision <= last.revision
  BY EvidenceParts DEF Behind, Older
<1>2. Newest(S) \in S /\ last.revision <= Newest(S).revision
  BY <1>1 DEF Newest
<1> QED BY <1>2, BehindBoth

-----------------------------------------------------------------------------
(* The subscription: the queue as a chain *)

\* From what the store has, each event that waits is newer than all before it,
\* and the newest is the last of the producer; probes are in between.
Chain(q, from, last) ==
    /\ \A i \in 1..Len(q) : Behind(q[i].evidence, last)
    /\ \A j \in 1..Len(q) : q[j].kind = "event" =>
          /\ Older(from, q[j].evidence)
          /\ \A i \in 1..(j - 1) : Older(q[i].evidence, q[j].evidence)
    /\ from = last \/ \E i \in 1..Len(q) : q[i] = [kind |-> "event", evidence |-> last]

LEMMA ObservationParts ==
    ASSUME NEW q \in Seq(Observation), NEW i \in 1..Len(q)
    PROVE  q[i] \in Observation /\ q[i].evidence \in Evidence /\ q[i].kind \in {"event", "probe", "dropped"}
<1>1. q[i] \in Observation
  OBVIOUS
<1> QED BY <1>1 DEF Observation

LEMMA AppendParts ==
    ASSUME NEW q \in Seq(Observation), NEW o \in Observation
    PROVE  /\ Append(q, o) \in Seq(Observation) /\ Len(Append(q, o)) = Len(q) + 1
           /\ \A i \in 1..Len(q) : Append(q, o)[i] = q[i]
           /\ Append(q, o)[Len(q) + 1] = o
           /\ Len(q) \in Nat
OBVIOUS

LEMMA NothingYet ==
    /\ <<>> \in Seq(Evidence) /\ <<>> \in Seq(Observation) /\ Len(<<>>) = 0
    /\ 0 \in 0..MaxPending /\ 0 \in 0..MaxProbes /\ 0 \in 0..MaxReplays /\ 0 \in 0..MaxCrashes
    /\ Quiet \in [pc : {"off", "asking", "read", "queued"}, evidence : Evidence \cup {Nil}]
<1>1. <<>> \in Seq(Evidence) /\ <<>> \in Seq(Observation) /\ Len(<<>>) = 0
  OBVIOUS
<1>2. 0 \in 0..MaxPending /\ 0 \in 0..MaxProbes /\ 0 \in 0..MaxReplays /\ 0 \in 0..MaxCrashes
  BY BindingAssumption
<1>3. Quiet \in [pc : {"off", "asking", "read", "queued"}, evidence : Evidence \cup {Nil}]
  BY DEF Quiet
<1> QED BY <1>1, <1>2, <1>3

LEMMA TailParts ==
    ASSUME NEW q \in Seq(Observation), q # <<>>
    PROVE  /\ Tail(q) \in Seq(Observation) /\ Len(Tail(q)) = Len(q) - 1
           /\ \A i \in 1..Len(Tail(q)) : Tail(q)[i] = q[i + 1]
           /\ Head(q) = q[1] /\ Len(q) \in Nat /\ 1 <= Len(q)
OBVIOUS

\* A newer event at the end.
LEMMA ChainEvent ==
    ASSUME NEW q \in Seq(Observation), NEW from \in Evidence, NEW last \in Evidence,
           NEW next \in Evidence, Chain(q, from, last), Behind(from, last), Older(last, next)
    PROVE  Chain(Append(q, [kind |-> "event", evidence |-> next]), from, next)
<1> DEFINE o == [kind |-> "event", evidence |-> next]
           r == Append(q, o)
<1>1. o \in Observation
  BY DEF Observation
<1>2. /\ Len(r) = Len(q) + 1 /\ Len(q) \in Nat
      /\ \A i \in 1..Len(q) : r[i] = q[i]
      /\ r[Len(q) + 1] = o
  BY <1>1, AppendParts
<1>3. \A i \in 1..Len(q) : Older(q[i].evidence, next)
  BY ObservationParts, OlderStill DEF Chain
<1>4. Older(from, next)
  BY OlderStill
<1>5. o.kind = "event" /\ o.evidence = next
  OBVIOUS
<1> HIDE DEF o, r
<1>6. \A i \in 1..Len(r) : Behind(r[i].evidence, next)
  BY <1>2, <1>3, <1>5 DEF Behind
<1>7. ASSUME NEW j \in 1..Len(r), r[j].kind = "event"
      PROVE  Older(from, r[j].evidence) /\ \A i \in 1..(j - 1) : Older(r[i].evidence, r[j].evidence)
  <2>1. CASE j \in 1..Len(q)
    BY <1>2, <1>7, <2>1 DEF Chain
  <2>2. CASE j = Len(q) + 1
    BY <1>2, <1>3, <1>4, <1>5, <2>2
  <2> QED BY <1>2, <2>1, <2>2
<1>8. \E i \in 1..Len(r) : r[i] = o
  BY <1>2
<1>9. Chain(r, from, next)
  BY <1>6, <1>7, <1>8 DEF Chain, o
<1> QED BY <1>9 DEF r, o

\* The answer of a probe at the end.
LEMMA ChainProbe ==
    ASSUME NEW q \in Seq(Observation), NEW from \in Evidence, NEW last \in Evidence,
           NEW answer \in Evidence, Chain(q, from, last), Behind(answer, last)
    PROVE  Chain(Append(q, [kind |-> "probe", evidence |-> answer]), from, last)
<1> DEFINE o == [kind |-> "probe", evidence |-> answer]
           r == Append(q, o)
<1>1. o \in Observation
  BY DEF Observation
<1>2. /\ Len(r) = Len(q) + 1 /\ Len(q) \in Nat
      /\ \A i \in 1..Len(q) : r[i] = q[i]
      /\ r[Len(q) + 1] = o
  BY <1>1, AppendParts
<1>3. o.kind = "probe" /\ o.evidence = answer
  OBVIOUS
<1> HIDE DEF o, r
<1>4. \A i \in 1..Len(r) : Behind(r[i].evidence, last)
  BY <1>2, <1>3 DEF Chain
<1>5. \A j \in 1..Len(r) : r[j].kind = "event" => j \in 1..Len(q)
  BY <1>2, <1>3
<1>6. ASSUME NEW j \in 1..Len(r), r[j].kind = "event"
      PROVE  Older(from, r[j].evidence) /\ \A i \in 1..(j - 1) : Older(r[i].evidence, r[j].evidence)
  BY <1>2, <1>5, <1>6 DEF Chain
<1>7. from = last \/ \E i \in 1..Len(r) : r[i] = [kind |-> "event", evidence |-> last]
  BY <1>2 DEF Chain
<1>8. Chain(r, from, last)
  BY <1>4, <1>6, <1>7 DEF Chain
<1> QED BY <1>8 DEF r, o

\* What merging a newer revision into the last observation makes of the queue.
Renewed(q, next) == [q EXCEPT ![Len(q)].evidence.revision = next.revision]
LEMMA RenewedParts ==
    ASSUME NEW q \in Seq(Observation), NEW next \in Evidence, q # <<>>,
           q[Len(q)].kind = "event", q[Len(q)].evidence.ended = next.ended
    PROVE  /\ Renewed(q, next) \in Seq(Observation) /\ Len(Renewed(q, next)) = Len(q)
           /\ \A i \in 1..(Len(q) - 1) : Renewed(q, next)[i] = q[i]
           /\ Renewed(q, next)[Len(q)] = [kind |-> "event", evidence |-> next]
<1> DEFINE r == [q EXCEPT ![Len(q)].evidence.revision = next.revision]
<1>1. Len(q) \in Nat /\ 1 <= Len(q) /\ Len(q) \in DOMAIN q /\ DOMAIN q = 1..Len(q)
  OBVIOUS
<1>2. q[Len(q)] \in Observation
  BY <1>1
<1>3. r[Len(q)] = [kind |-> "event", evidence |-> next]
  <2>1. r[Len(q)] = [q[Len(q)] EXCEPT !.evidence.revision = next.revision]
    BY <1>1
  <2>2. q[Len(q)] = [kind |-> "event", evidence |-> q[Len(q)].evidence]
    BY <1>2 DEF Observation
  <2>3. q[Len(q)].evidence = [revision |-> q[Len(q)].evidence.revision, ended |-> next.ended]
    BY <1>2, EvidenceParts DEF Observation
  <2>4. next = [revision |-> next.revision, ended |-> next.ended]
    BY EvidenceParts
  <2> QED BY <2>1, <2>2, <2>3, <2>4
<1>4. DOMAIN r = 1..Len(q) /\ \A i \in 1..(Len(q) - 1) : r[i] = q[i]
  BY <1>1
<1>5. \A i \in 1..Len(q) : r[i] \in Observation
  <2>1. [kind |-> "event", evidence |-> next] \in Observation
    BY DEF Observation
  <2>2. \A i \in 1..(Len(q) - 1) : q[i] \in Observation
    BY <1>1
  <2> QED BY <1>1, <1>3, <1>4, <2>1, <2>2
<1>6. r \in [1..Len(q) -> Observation]
  <2>1. r = [i \in 1..Len(q) |-> r[i]]
    BY <1>1
  <2> QED BY <1>5, <2>1
<1>7. r \in Seq(Observation) /\ Len(r) = Len(q)
  BY <1>1, <1>6
<1> QED BY <1>3, <1>4, <1>7 DEF Renewed

\* A newer event merged into the last, which has the same predicates.
LEMMA ChainMerged ==
    ASSUME NEW q \in Seq(Observation), NEW from \in Evidence, NEW last \in Evidence,
           NEW next \in Evidence, Chain(q, from, last), Behind(from, last), Older(last, next),
           q # <<>>, NEW r \in Seq(Observation), Len(r) = Len(q),
           \A i \in 1..(Len(q) - 1) : r[i] = q[i],
           r[Len(q)] = [kind |-> "event", evidence |-> next]
    PROVE  Chain(r, from, next)
<1>1. Len(q) \in Nat /\ 1 <= Len(q)
  OBVIOUS
<1>2. \A i \in 1..(Len(q) - 1) : Older(r[i].evidence, next)
  <2>1. \A i \in 1..(Len(q) - 1) : i \in 1..Len(q)
    BY <1>1
  <2>2. \A i \in 1..(Len(q) - 1) : q[i].evidence \in Evidence /\ Behind(q[i].evidence, last)
    BY <2>1, ObservationParts DEF Chain
  <2> QED BY <2>2, OlderStill
<1>3. Older(from, next)
  BY OlderStill
<1>4. \A i \in 1..Len(r) : Behind(r[i].evidence, next)
  BY <1>1, <1>2 DEF Behind
<1>5. ASSUME NEW j \in 1..Len(r), r[j].kind = "event"
      PROVE  Older(from, r[j].evidence) /\ \A i \in 1..(j - 1) : Older(r[i].evidence, r[j].evidence)
  <2>1. CASE j \in 1..(Len(q) - 1)
    <3>1. r[j] = q[j] /\ j \in 1..Len(q) /\ \A i \in 1..(j - 1) : r[i] = q[i]
      <4>1. j \in Nat /\ j <= Len(q) - 1 /\ \A i \in 1..(j - 1) : i \in 1..(Len(q) - 1)
        BY <1>1, <2>1
      <4> QED BY <2>1, <4>1
    <3> QED BY <1>5, <3>1 DEF Chain
  <2>2. CASE j = Len(q)
    BY <1>2, <1>3, <2>2
  <2> QED BY <1>1, <2>1, <2>2
<1> QED BY <1>1, <1>4, <1>5 DEF Chain

\* The first event is stored.
LEMMA ChainStored ==
    ASSUME NEW q \in Seq(Observation), NEW from \in Evidence, NEW last \in Evidence,
           Chain(q, from, last), q # <<>>, Head(q).kind = "event"
    PROVE  Chain(Tail(q), Head(q).evidence, last)
<1>1. /\ Len(Tail(q)) = Len(q) - 1 /\ Len(q) \in Nat /\ 1 <= Len(q)
      /\ \A i \in 1..Len(Tail(q)) : Tail(q)[i] = q[i + 1]
      /\ Head(q) = q[1]
  BY TailParts
<1>2. 1 \in 1..Len(q) /\ Behind(q[1].evidence, last)
  BY <1>1 DEF Chain
<1>3. \A i \in 1..Len(Tail(q)) : Behind(Tail(q)[i].evidence, last)
  BY <1>1 DEF Chain
<1>4. ASSUME NEW j \in 1..Len(Tail(q)), Tail(q)[j].kind = "event"
      PROVE  /\ Older(q[1].evidence, Tail(q)[j].evidence)
             /\ \A i \in 1..(j - 1) : Older(Tail(q)[i].evidence, Tail(q)[j].evidence)
  <2>1. j + 1 \in 1..Len(q) /\ 1 \in 1..((j + 1) - 1) /\ Tail(q)[j] = q[j + 1]
    BY <1>1
  <2>2. \A i \in 1..(j - 1) : i + 1 \in 1..((j + 1) - 1) /\ Tail(q)[i] = q[i + 1]
    BY <1>1
  <2> QED BY <1>4, <2>1, <2>2 DEF Chain
<1>5. q[1].evidence = last
      \/ \E i \in 1..Len(Tail(q)) : Tail(q)[i] = [kind |-> "event", evidence |-> last]
  <2>1. CASE from = last
    BY <1>1, <1>2, <2>1, ObservationParts, EvidenceParts DEF Chain, Behind, Older
  <2>2. CASE \E i \in 1..Len(q) : q[i] = [kind |-> "event", evidence |-> last]
    <3>1. PICK i \in 1..Len(q) : q[i] = [kind |-> "event", evidence |-> last]
      BY <2>2
    <3>2. CASE i = 1
      BY <3>1, <3>2
    <3>3. CASE i # 1
      <4>1. i - 1 \in 1..Len(Tail(q)) /\ (i - 1) + 1 = i
        BY <1>1, <3>3
      <4> QED BY <1>1, <3>1, <4>1
    <3> QED BY <3>2, <3>3
  <2> QED BY <2>1, <2>2 DEF Chain
<1> QED BY <1>1, <1>3, <1>4, <1>5 DEF Chain

\* The first is the answer of a probe: it is dropped, or stored when it can follow.
LEMMA ChainReread ==
    ASSUME NEW q \in Seq(Observation), NEW from \in Evidence, NEW last \in Evidence,
           Chain(q, from, last), Behind(from, last), q # <<>>, Head(q).kind # "event"
    PROVE  /\ Chain(Tail(q), from, last)
           /\ Behind(from, Head(q).evidence) => Chain(Tail(q), Head(q).evidence, last)
           /\ Behind(Head(q).evidence, last)
<1>1. /\ Len(Tail(q)) = Len(q) - 1 /\ Len(q) \in Nat /\ 1 <= Len(q)
      /\ \A i \in 1..Len(Tail(q)) : Tail(q)[i] = q[i + 1]
      /\ Head(q) = q[1]
  BY TailParts
<1>2. 1 \in 1..Len(q) /\ Behind(q[1].evidence, last) /\ q[1].evidence \in Evidence
  BY <1>1, ObservationParts DEF Chain
<1>3. \A i \in 1..Len(Tail(q)) : Behind(Tail(q)[i].evidence, last)
  BY <1>1 DEF Chain
<1>4. ASSUME NEW j \in 1..Len(Tail(q)), Tail(q)[j].kind = "event"
      PROVE  /\ Older(q[1].evidence, Tail(q)[j].evidence)
             /\ Older(from, Tail(q)[j].evidence)
             /\ \A i \in 1..(j - 1) : Older(Tail(q)[i].evidence, Tail(q)[j].evidence)
  <2>1. j + 1 \in 1..Len(q) /\ 1 \in 1..((j + 1) - 1) /\ Tail(q)[j] = q[j + 1]
    BY <1>1
  <2>2. \A i \in 1..(j - 1) : i + 1 \in 1..((j + 1) - 1) /\ Tail(q)[i] = q[i + 1]
    BY <1>1
  <2> QED BY <1>4, <2>1, <2>2 DEF Chain
<1>5. from = last
      \/ \E i \in 1..Len(Tail(q)) : Tail(q)[i] = [kind |-> "event", evidence |-> last]
  <2> SUFFICES ASSUME NEW i \in 1..Len(q), q[i] = [kind |-> "event", evidence |-> last]
               PROVE  \E k \in 1..Len(Tail(q)) : Tail(q)[k] = [kind |-> "event", evidence |-> last]
    BY DEF Chain
  <2>1. i # 1
    BY <1>1
  <2>2. i - 1 \in 1..Len(Tail(q)) /\ (i - 1) + 1 = i
    BY <1>1, <2>1
  <2> QED BY <1>1, <2>2
<1>6. Chain(Tail(q), from, last)
  BY <1>3, <1>4, <1>5 DEF Chain
<1>7. ASSUME Behind(from, q[1].evidence) PROVE Chain(Tail(q), q[1].evidence, last)
  <2>1. from = last => q[1].evidence = last
    BY <1>2, <1>7, EvidenceParts DEF Behind, Older
  <2> QED BY <1>3, <1>4, <1>5, <2>1 DEF Chain
<1> QED BY <1>1, <1>2, <1>6, <1>7

-----------------------------------------------------------------------------
(* The subscription: its inductive invariant *)

\* Nothing that was learned of the producer is ahead of it.
Learned ==
    /\ stored # Nil => Behind(stored, produced)
    /\ snapshot # Nil => Behind(snapshot, produced)
    /\ \A i \in 1..Len(buffer) : Behind(buffer[i], produced)
    /\ probe.evidence # Nil => Behind(probe.evidence, produced)
    /\ probe.pc = "read" => probe.evidence # Nil

\* A snapshot and what came after it hold the producer's present evidence,
\* until too much came; the queue is only used once the subscription is ready.
Attached ==
    /\ binding \notin {"ready", "failed"} => queue = <<>>
    /\ binding \notin {"synchronizing", "failed"} => cause = Nil
    /\ binding \in {"read", "synchronizing"} =>
          /\ snapshot # Nil
          /\ cause = Nil => snapshot = produced \/ \E i \in 1..Len(buffer) : buffer[i] = produced

\* From the store to the producer the queue of a ready subscription is a chain.
Chained ==
    binding = "ready" =>
        /\ accepted = produced /\ stored # Nil
        /\ Chain(queue, stored, produced)
\* The last may take a merge only if it is an event and not being written.
Open ==
    /\ slot => queue # <<>> /\ queue[Len(queue)].kind = "event"
    /\ writing => queue # <<>> /\ (slot => Len(queue) > 1)

\* One that was cut off says why; what it still writes is not ahead either.
Blamed == binding = "failed" => cause = "capacity" \/ replays > 0
Overdue == binding = "failed" => \A i \in 1..Len(queue) : Behind(queue[i].evidence, produced)

BindingInv == BindingTypeOK /\ Learned /\ Attached /\ Chained /\ Open /\ Blamed /\ Overdue

LEMMA InitBindingInv == BindingInit => BindingInv
<1> SUFFICES ASSUME BindingInit PROVE BindingInv
  OBVIOUS
<1> USE DEF BindingInit
<1>1. produced \in Evidence
  BY BindingAssumption DEF Evidence, Revision
<1>2. BindingTypeOK
  <2>1. /\ buffer \in Seq(Evidence) /\ Len(buffer) <= arrived
        /\ arrived \in 0..MaxPending /\ queue \in Seq(Observation)
    BY NothingYet
  <2>2. probes \in 0..MaxProbes /\ replays \in 0..MaxReplays /\ crashes \in 0..MaxCrashes
    BY NothingYet
  <2>3. probe \in [pc : {"off", "asking", "read", "queued"}, evidence : Evidence \cup {Nil}]
    BY NothingYet
  <2> QED BY <1>1, <2>1, <2>2, <2>3 DEF BindingTypeOK
<1>3. Learned /\ Attached /\ Chained /\ Open /\ Blamed /\ Overdue
  BY DEF Learned, Attached, Chained, Open, Blamed, Overdue, Quiet
<1> QED BY <1>2, <1>3 DEF BindingInv

\* What is left of a subscription that is given up.
LEMMA DroppedTyped ==
    ASSUME BindingTypeOK, Dropped, produced' \in Evidence, stored' \in Evidence \cup {Nil},
           probe' \in [pc : {"off", "asking", "read", "queued"}, evidence : Evidence \cup {Nil}],
           probes' \in 0..MaxProbes, replays' \in 0..MaxReplays, crashes' \in 0..MaxCrashes
    PROVE  BindingTypeOK'
<1>1. /\ buffer' \in Seq(Evidence) /\ Len(buffer') <= arrived'
      /\ arrived' \in 0..MaxPending /\ queue' \in Seq(Observation)
  BY NothingYet DEF Dropped, Cleared
<1>2. /\ snapshot' \in Evidence \cup {Nil} /\ accepted' \in Evidence \cup {Nil}
      /\ cause' \in Causes \cup {Nil} /\ slot' \in BOOLEAN /\ writing' \in BOOLEAN
      /\ binding' \in {"off", "due", "failed"} \cup Listening
  BY DEF Dropped, Cleared
<1> QED BY <1>1, <1>2 DEF BindingTypeOK

\* A subscription that is given up leaves the store behind the producer.
LEMMA DroppedKeeps ==
    ASSUME BindingInv, Dropped, UNCHANGED produced,
           stored' \in Evidence \cup {Nil}, stored' # Nil => Behind(stored', produced),
           UNCHANGED probe \/ probe' = Quiet, UNCHANGED <<probes, replays>>,
           crashes' \in 0..MaxCrashes
    PROVE  BindingInv'
<1> USE DEF Dropped, Cleared, BindingInv
<1>1. BindingTypeOK'
  BY NothingYet, DroppedTyped DEF BindingTypeOK
<1>2. Learned'
  BY DEF Learned, Quiet
<1> QED BY <1>1, <1>2 DEF Attached, Chained, Open, Blamed, Overdue

\* What was put in order ends with the producer's present evidence.
LEMMA MergedKeeps ==
    ASSUME BindingInv, binding \in {"read", "synchronizing"}, cause = Nil, Merged(snapshot),
           UNCHANGED <<produced, probe, counts>>,
           stored' \in Evidence \cup {Nil}, stored' # Nil => Behind(stored', produced)
    PROVE  BindingInv'
<1> DEFINE seen == {snapshot} \cup {buffer[i] : i \in DOMAIN buffer}
<1>1. buffer \in Seq(Evidence) /\ DOMAIN buffer = 1..Len(buffer)
  BY DEF BindingInv, BindingTypeOK
<1>2. snapshot \in Evidence
  BY DEF BindingInv, BindingTypeOK, Attached
<1>3. seen \in SUBSET Evidence
  BY <1>1, <1>2
<1>4. produced \in seen
  BY <1>1 DEF BindingInv, Attached
<1>5. \A o \in seen : Behind(o, produced)
  BY <1>1, <1>2, EvidenceParts DEF BindingInv, Learned
<1>6. Newest(seen) = produced
  BY <1>3, <1>4, <1>5, NewestIs
<1>7. CASE Consistent(seen)
  <2>1. /\ binding' = "synchronizing" /\ snapshot' = produced /\ buffer' = <<>>
        /\ UNCHANGED <<arrived, accepted, queue, slot, writing, cause>>
    BY <1>6, <1>7 DEF Merged
  <2>2. produced \in Evidence /\ produced # Nil /\ arrived \in 0..MaxPending
    BY EvidenceParts DEF BindingInv, BindingTypeOK
  <2>3. BindingTypeOK'
    BY <2>1, <2>2, BindingAssumption DEF BindingInv, BindingTypeOK, Listening, counts
  <2>4. Learned'
    BY <2>1, <2>2 DEF BindingInv, Learned, Behind
  <2> QED BY <2>1, <2>2, <2>3, <2>4 DEF BindingInv, Attached, Chained, Open, Blamed, Overdue
<1>8. CASE ~Consistent(seen)
  <2>1. Dropped
    BY <1>8 DEF Merged
  <2> QED BY <2>1, DroppedKeeps DEF counts, BindingInv, BindingTypeOK
<1> QED BY <1>7, <1>8

-----------------------------------------------------------------------------
(* The subscription: publishing *)

\* The buffer of a subscription that is starting.
LEMMA BufferedKeeps ==
    ASSUME BindingInv, NEW evidence \in Evidence, Buffered(evidence),
           binding \in {"asking", "read", "synchronizing"}, cause = Nil,
           produced' \in Evidence, Behind(produced, produced'), Behind(evidence, produced'),
           produced' # produced => evidence = produced',
           UNCHANGED <<stored, probe, probes, crashes>>, replays' \in 0..MaxReplays,
           replays <= replays'
    PROVE  BindingInv'
<1> USE DEF BindingInv
<1>0. produced \in Evidence /\ buffer \in Seq(Evidence) /\ Len(buffer) \in Nat
  BY DEF BindingTypeOK
<1>1. \A e \in Evidence : Behind(e, produced) => Behind(e, produced')
  BY <1>0, OlderStill DEF Behind
<1>2. /\ stored' # Nil => Behind(stored', produced')
      /\ snapshot # Nil => Behind(snapshot, produced')
      /\ \A i \in 1..Len(buffer) : Behind(buffer[i], produced')
      /\ probe'.evidence # Nil => Behind(probe'.evidence, produced')
      /\ probe'.pc = "read" => probe'.evidence # Nil
  <2>1. /\ stored # Nil => stored \in Evidence
        /\ snapshot # Nil => snapshot \in Evidence
        /\ \A i \in 1..Len(buffer) : buffer[i] \in Evidence
        /\ probe.evidence # Nil => probe.evidence \in Evidence
    BY DEF BindingTypeOK
  <2> QED BY <1>1, <2>1 DEF Learned
<1>3. CASE buffer # <<>> /\ buffer[Len(buffer)] = evidence
  <2>1. UNCHANGED subscription
    BY <1>3 DEF Buffered
  <2>2. BindingTypeOK'
    BY <2>1 DEF BindingTypeOK, subscription
  <2>3. Learned'
    BY <1>2, <2>1 DEF Learned, subscription
  <2>4. Len(buffer) \in 1..Len(buffer)
    BY <1>0, <1>3
  <2>5. Attached'
    BY <1>3, <2>1, <2>4 DEF Attached, subscription
  <2> QED BY <2>1, <2>2, <2>3, <2>5 DEF Chained, Open, Blamed, Overdue, subscription
<1>4. CASE ~(buffer # <<>> /\ buffer[Len(buffer)] = evidence) /\ arrived >= MaxPending
  <2>1. CASE binding = "synchronizing"
    <3>1. cause' = "capacity"
          /\ UNCHANGED <<binding, snapshot, buffer, arrived, accepted, queue, slot, writing>>
      BY <1>4, <2>1 DEF Buffered
    <3>2. BindingTypeOK'
      BY <3>1 DEF BindingTypeOK, Causes
    <3>3. Learned'
      BY <1>2, <3>1 DEF Learned
    <3>4. Attached'
      BY <2>1, <3>1, BindingAssumption DEF Attached
    <3> QED BY <2>1, <3>1, <3>2, <3>3, <3>4 DEF Chained, Open, Blamed, Overdue
  <2>2. CASE binding # "synchronizing"
    <3>1. Dropped
      BY <1>4, <2>2 DEF Buffered
    <3>2. BindingTypeOK'
      BY <3>1, DroppedTyped DEF BindingTypeOK
    <3>3. Learned'
      BY <1>2, <3>1 DEF Learned, Dropped, Cleared
    <3> QED BY <3>1, <3>2, <3>3 DEF Attached, Chained, Open, Blamed, Overdue, Dropped, Cleared
  <2> QED BY <2>1, <2>2
<1>5. CASE ~(buffer # <<>> /\ buffer[Len(buffer)] = evidence) /\ ~(arrived >= MaxPending)
  <2>1. /\ buffer' = Append(buffer, evidence) /\ arrived' = arrived + 1
        /\ UNCHANGED <<binding, snapshot, accepted, queue, slot, writing, cause>>
    BY <1>5 DEF Buffered
  <2>2. /\ buffer' \in Seq(Evidence) /\ Len(buffer') = Len(buffer) + 1
        /\ \A i \in 1..Len(buffer) : buffer'[i] = buffer[i]
        /\ buffer'[Len(buffer) + 1] = evidence
    BY <1>0, <2>1
  <2>3. arrived' \in 0..MaxPending /\ Len(buffer') <= arrived'
    BY <1>0, <1>5, <2>1, <2>2, BindingAssumption DEF BindingTypeOK
  <2>4. BindingTypeOK'
    BY <2>1, <2>2, <2>3 DEF BindingTypeOK
  <2>5. Learned'
    BY <1>0, <1>2, <2>1, <2>2 DEF Learned
  <2>6. snapshot' = produced' \/ (\E i \in 1..Len(buffer') : buffer'[i] = produced')
        \/ ~(binding \in {"read", "synchronizing"})
    <3>1. CASE produced' = produced
      BY <1>0, <2>1, <2>2, <3>1 DEF Attached
    <3>2. CASE produced' # produced
      BY <1>0, <2>1, <2>2, <3>2
    <3> QED BY <3>1, <3>2
  <2>7. Attached'
    BY <2>1, <2>6 DEF Attached
  <2> QED BY <2>1, <2>4, <2>5, <2>7 DEF Chained, Open, Blamed, Overdue
<1> QED BY <1>3, <1>4, <1>5

\* What was learned stays behind a producer that moves on.
LEMMA LearnedStill ==
    ASSUME BindingInv, produced' \in Evidence, Behind(produced, produced'),
           UNCHANGED <<stored, snapshot, buffer, probe>>
    PROVE  Learned'
<1>1. produced \in Evidence
  BY DEF BindingInv, BindingTypeOK
<1>2. \A e \in Evidence : Behind(e, produced) => Behind(e, produced')
  BY <1>1, OlderStill DEF Behind
<1>3. /\ stored # Nil => stored \in Evidence
      /\ snapshot # Nil => snapshot \in Evidence
      /\ \A i \in 1..Len(buffer) : buffer[i] \in Evidence
      /\ probe.evidence # Nil => probe.evidence \in Evidence
  BY DEF BindingInv, BindingTypeOK
<1> QED BY <1>2, <1>3 DEF BindingInv, Learned

\* An observation takes its place in the queue of a ready subscription.
LEMMA AcceptedKeeps ==
    ASSUME BindingInv, NEW evidence \in Evidence, Accepted(evidence),
           binding = "ready", Older(produced, evidence), produced' = evidence,
           UNCHANGED <<stored, probe, probes, crashes>>, replays' \in 0..MaxReplays
    PROVE  BindingInv'
<1>1. /\ produced \in Evidence /\ queue \in Seq(Observation) /\ stored \in Evidence
      /\ Chain(queue, stored, produced) /\ Behind(stored, produced) /\ cause = Nil
      /\ slot \in BOOLEAN
  BY DEF BindingInv, BindingTypeOK, Chained, Learned, Attached
<1>2. accepted' = evidence /\ UNCHANGED <<binding, snapshot, buffer, arrived, writing, cause>>
  BY DEF Accepted
<1>3. Learned'
  BY <1>2, LearnedStill DEF Behind
<1>4. queue' \in Seq(Observation) /\ Chain(queue', stored, evidence) /\ Open' /\ slot' \in BOOLEAN
  <2>1. CASE Mergeable(evidence)
    <3>1. /\ queue # <<>> /\ queue[Len(queue)].kind = "event"
          /\ queue[Len(queue)].evidence.ended = evidence.ended /\ slot
      BY <2>1 DEF Mergeable, BindingInv, Open
    <3>2. queue' = Renewed(queue, evidence) /\ slot' = slot
      BY <2>1 DEF Accepted, Renewed
    <3>3. /\ queue' \in Seq(Observation) /\ queue' # <<>> /\ Len(queue') = Len(queue)
          /\ queue'[Len(queue)].kind = "event" /\ Chain(queue', stored, evidence)
      <4>1. /\ queue' \in Seq(Observation) /\ Len(queue') = Len(queue)
            /\ \A i \in 1..(Len(queue) - 1) : queue'[i] = queue[i]
            /\ queue'[Len(queue)] = [kind |-> "event", evidence |-> evidence]
        BY <1>1, <3>1, <3>2, RenewedParts
      <4>2. queue' # <<>> /\ queue'[Len(queue)].kind = "event"
        BY <1>1, <3>1, <4>1
      <4>3. Chain(queue', stored, evidence)
        BY <1>1, <3>1, <4>1, ChainMerged
      <4> QED BY <4>1, <4>2, <4>3
    <3>4. writing' => queue' # <<>> /\ (slot' => Len(queue') > 1)
      BY <1>2, <3>2, <3>3 DEF BindingInv, Open
    <3> QED BY <1>1, <3>2, <3>3, <3>4 DEF Open
  <2>2. CASE ~Mergeable(evidence)
    <3> DEFINE o == [kind |-> "event", evidence |-> evidence]
    <3>1. queue' = Append(queue, o) /\ slot' = TRUE
      BY <2>2 DEF Accepted
    <3>2. o \in Observation /\ o.kind = "event"
      BY DEF Observation
    <3>3. Chain(queue', stored, evidence)
      BY <1>1, <3>1, ChainEvent
    <3> HIDE DEF o
    <3>4. /\ queue' \in Seq(Observation) /\ Len(queue') = Len(queue) + 1
          /\ queue'[Len(queue) + 1] = o /\ Len(queue) \in Nat
      BY <1>1, <3>1, <3>2, AppendParts
    <3>5. queue' # <<>>
      BY <3>4
    <3>6. writing' => Len(queue') > 1
      <4>1. ASSUME writing PROVE Len(queue) > 0
        BY <1>1, <4>1 DEF BindingInv, Open
      <4> QED BY <1>2, <3>4, <4>1
    <3>7. Open'
      BY <3>2, <3>4, <3>5, <3>6 DEF Open
    <3> QED BY <3>1, <3>3, <3>4, <3>7
  <2> QED BY <2>1, <2>2
<1>5. BindingTypeOK'
  BY <1>2, <1>4 DEF BindingInv, BindingTypeOK
<1>6. Attached' /\ Blamed' /\ Overdue'
  BY <1>2 DEF BindingInv, Attached, Blamed, Overdue
<1>7. stored # Nil
  BY <1>1, EvidenceParts
<1>8. Chained'
  BY <1>2, <1>4, <1>7 DEF Chained
<1> QED BY <1>3, <1>4, <1>5, <1>6, <1>8 DEF BindingInv

\* A subscription that is cut off says why.
LEMMA CutOffKeeps ==
    ASSUME BindingInv, NEW why \in Causes, CutOff(why), binding = "ready",
           produced' \in Evidence, Behind(produced, produced'),
           UNCHANGED <<stored, probe, probes, crashes>>, replays' \in 0..MaxReplays,
           why = "capacity" \/ replays' > 0
    PROVE  BindingInv'
<1>1. binding' = "failed" /\ cause' = why
      /\ UNCHANGED <<snapshot, buffer, arrived, accepted, queue, slot, writing>>
  BY DEF CutOff
<1>2. Learned'
  BY <1>1, LearnedStill
<1>3. BindingTypeOK'
  BY <1>1 DEF BindingInv, BindingTypeOK
<1>4. \A i \in 1..Len(queue) : Behind(queue[i].evidence, produced')
  <2>1. queue \in Seq(Observation) /\ produced \in Evidence /\ Chain(queue, stored, produced)
    BY DEF BindingInv, BindingTypeOK, Chained
  <2> SUFFICES ASSUME NEW i \in 1..Len(queue) PROVE Behind(queue[i].evidence, produced')
    OBVIOUS
  <2>2. queue[i].evidence \in Evidence /\ Behind(queue[i].evidence, produced)
    BY <2>1, ObservationParts DEF Chain
  <2> QED BY <2>1, <2>2, OlderStill DEF Behind
<1> QED BY <1>1, <1>2, <1>3, <1>4 DEF BindingInv, Attached, Chained, Open, Blamed, Overdue

\* The listener hears the producer's present evidence, or an old event again.
LEMMA PublishedKeeps ==
    ASSUME BindingInv, NEW evidence \in Evidence, Published(evidence),
           produced' \in Evidence, Behind(produced, produced'),
           \/ evidence = produced' /\ replays' = replays
           \/ Older(evidence, produced) /\ produced' = produced /\ replays' > 0,
           UNCHANGED <<stored, probe, probes, crashes>>, replays' \in 0..MaxReplays,
           replays <= replays'
    PROVE  BindingInv'
<1>1. produced \in Evidence /\ Behind(evidence, produced')
      /\ (produced' # produced => evidence = produced')
      /\ replays \in 0..MaxReplays
  BY DEF BindingInv, BindingTypeOK, Behind
<1>2. CASE binding \notin Listening \/ cause # Nil
  <2>1. UNCHANGED subscription
    BY <1>2 DEF Published
  <2>2. Learned'
    BY <2>1, LearnedStill DEF subscription
  <2>3. BindingTypeOK'
    BY <2>1 DEF BindingInv, BindingTypeOK, subscription
  <2>4. Attached'
    BY <1>2, <2>1 DEF BindingInv, Attached, subscription, Listening
  <2>5. Chained' /\ Open'
    BY <1>2, <2>1 DEF BindingInv, Attached, Chained, Open, subscription, Listening
  <2>6. Blamed'
    BY <2>1, <1>1 DEF BindingInv, Blamed, subscription
  <2>7. Overdue'
    <3> SUFFICES ASSUME binding = "failed", NEW i \in 1..Len(queue)
                 PROVE  Behind(queue[i].evidence, produced')
      BY <2>1 DEF Overdue, subscription
    <3>1. queue[i].evidence \in Evidence /\ Behind(queue[i].evidence, produced)
      BY ObservationParts DEF BindingInv, BindingTypeOK, Overdue
    <3> QED BY <1>1, <3>1, OlderStill DEF Behind
  <2> QED BY <2>2, <2>3, <2>4, <2>5, <2>6, <2>7 DEF BindingInv
<1>3. CASE binding \in Listening /\ cause = Nil /\ binding # "ready"
  <2>1. Buffered(evidence) /\ binding \in {"asking", "read", "synchronizing"}
    BY <1>3 DEF Published, Listening
  <2> QED BY <1>1, <1>3, <2>1, BufferedKeeps
<1>4. CASE cause = Nil /\ binding = "ready"
  <2>1. accepted = produced
    BY <1>4 DEF BindingInv, Chained
  <2>2. binding \in Listening
    BY <1>4 DEF Listening
  <2>3. CASE Objection(produced, evidence) # Nil
    <3>1. ~Behind(produced, evidence)
      BY <1>1, <2>3, ObjectionIs
    <3>2. replays' > 0
      BY <3>1
    <3>3. Objection(produced, evidence) \in Causes
      BY <2>3 DEF Objection, Causes
    <3>4. CutOff(Objection(produced, evidence))
      BY <1>4, <2>1, <2>2, <2>3 DEF Published
    <3> QED BY <1>4, <3>2, <3>3, <3>4, CutOffKeeps
  <2>4. CASE Objection(produced, evidence) = Nil /\ evidence = produced
    <3>1. UNCHANGED subscription
      BY <1>4, <2>1, <2>2, <2>4 DEF Published
    <3>2. produced' = produced
      BY <1>1, <2>4
    <3>3. BindingTypeOK' /\ Learned'
      BY <3>1, <3>2 DEF BindingInv, BindingTypeOK, Learned, subscription
    <3>4. Attached' /\ Chained' /\ Open'
      BY <3>1, <3>2 DEF BindingInv, Attached, Chained, Open, subscription
    <3>5. Blamed' /\ Overdue'
      BY <1>4, <3>1 DEF Blamed, Overdue, subscription
    <3> QED BY <3>3, <3>4, <3>5 DEF BindingInv
  <2>5. CASE Objection(produced, evidence) = Nil /\ evidence # produced
    <3>1. Older(produced, evidence)
      BY <1>1, <2>5, ObjectionIs DEF Behind
    <3>2. ~Older(evidence, produced)
      BY <1>1, <3>1, EvidenceParts DEF Older
    <3>3. produced' = evidence
      BY <3>2
    <3>4. CASE Full(evidence)
      <4>1. CutOff("capacity")
        BY <1>4, <2>1, <2>2, <2>5, <3>4 DEF Published
      <4> QED BY <1>4, <4>1, CutOffKeeps DEF Causes
    <3>5. CASE ~Full(evidence)
      <4>1. Accepted(evidence)
        BY <1>4, <2>1, <2>2, <2>5, <3>5 DEF Published
      <4> QED BY <1>4, <3>1, <3>3, <4>1, AcceptedKeeps
    <3> QED BY <3>4, <3>5
  <2> QED BY <2>3, <2>4, <2>5
<1> QED BY <1>2, <1>3, <1>4

LEMMA EmitKeeps ==
    ASSUME BindingInv, NEW ended \in SUBSET Predicate, Emit(ended) PROVE BindingInv'
<1>1. produced \in Evidence
  BY DEF BindingInv, BindingTypeOK
<1>2. /\ produced' = [revision |-> produced.revision + 1, ended |-> produced.ended \cup ended]
      /\ produced.revision < MaxRevision
      /\ Published(produced') /\ UNCHANGED <<stored, probe, counts>>
  BY DEF Emit
<1>3. produced' \in Evidence /\ Older(produced, produced')
  BY <1>1, <1>2, EvidenceParts, BindingAssumption DEF Evidence, Revision, Older
<1>4. replays \in 0..MaxReplays
  BY DEF BindingInv, BindingTypeOK
<1> QED BY <1>2, <1>3, <1>4, PublishedKeeps DEF Behind, counts

LEMMA RepeatKeeps == ASSUME BindingInv, Repeat PROVE BindingInv'
<1>1. produced \in Evidence /\ replays \in 0..MaxReplays
  BY DEF BindingInv, BindingTypeOK
<1>2. Published(produced) /\ UNCHANGED <<produced, stored, probe, counts>>
  BY DEF Repeat
<1> QED BY <1>1, <1>2, PublishedKeeps DEF Behind, counts

LEMMA ReplayKeeps ==
    ASSUME BindingInv, NEW evidence \in Evidence, Replay(evidence) PROVE BindingInv'
<1>1. produced \in Evidence /\ replays \in 0..MaxReplays
  BY DEF BindingInv, BindingTypeOK
<1>2. /\ replays < MaxReplays /\ replays' = replays + 1
      /\ Older(evidence, produced) /\ Published(evidence)
      /\ UNCHANGED <<produced, stored, probe, probes, crashes>>
  BY DEF Replay, Older
<1>3. replays' \in 0..MaxReplays /\ replays' > 0 /\ replays <= replays'
  BY <1>1, <1>2, BindingAssumption
<1> QED BY <1>1, <1>2, <1>3, PublishedKeeps DEF Behind

-----------------------------------------------------------------------------
(* The subscription: its start, its end and its queue *)

LEMMA StartKeeps ==
    ASSUME BindingInv, Bind \/ ReadSnapshot \/ SnapshotTimesOut \/ Merge \/ Synchronize
    PROVE  BindingInv'
<1>1. /\ produced \in Evidence /\ stored \in Evidence \cup {Nil} /\ crashes \in 0..MaxCrashes
      /\ stored # Nil => Behind(stored, produced)
      /\ snapshot \in Evidence \cup {Nil}
      /\ snapshot # Nil => Behind(snapshot, produced)
  BY DEF BindingInv, BindingTypeOK, Learned
<1>2. CASE Bind
  <2>1. /\ binding' = "asking" /\ binding \in {"off", "due"}
        /\ UNCHANGED <<produced, stored, snapshot, buffer, arrived, accepted, queue, slot,
                       writing, cause, probe, counts>>
    BY <1>2 DEF Bind
  <2>2. BindingTypeOK'
    BY <2>1 DEF BindingInv, BindingTypeOK, Listening, counts
  <2>3. Learned'
    BY <2>1 DEF BindingInv, Learned
  <2> QED BY <2>1, <2>2, <2>3 DEF BindingInv, Attached, Chained, Open, Blamed, Overdue
<1>3. CASE ReadSnapshot
  <2>1. /\ binding = "asking" /\ binding' = "read" /\ snapshot' = produced
        /\ UNCHANGED <<produced, stored, buffer, arrived, accepted, queue, slot, writing, cause,
                       probe, counts>>
    BY <1>3 DEF ReadSnapshot
  <2>2. BindingTypeOK'
    BY <1>1, <2>1 DEF BindingInv, BindingTypeOK, Listening, counts
  <2>3. Learned'
    BY <2>1 DEF BindingInv, Learned, Behind
  <2>4. produced # Nil
    BY <1>1, EvidenceParts
  <2> QED BY <2>1, <2>2, <2>3, <2>4 DEF BindingInv, Attached, Chained, Open, Blamed, Overdue
<1>4. CASE SnapshotTimesOut
  BY <1>1, <1>4, DroppedKeeps DEF SnapshotTimesOut, counts
<1>5. CASE Merge
  <2>1. cause = Nil /\ binding = "read"
    BY <1>5 DEF Merge, BindingInv, Attached
  <2> QED BY <1>1, <1>5, <2>1, MergedKeeps DEF Merge
<1>6. CASE Synchronize
  <2>1. /\ binding = "synchronizing" /\ UNCHANGED <<produced, probe, counts>>
        /\ stored' = IF Refused THEN stored ELSE snapshot
    BY <1>6 DEF Synchronize
  <2>2. snapshot # Nil
    BY <2>1 DEF BindingInv, Attached
  <2>3. stored' \in Evidence \cup {Nil} /\ (stored' # Nil => Behind(stored', produced))
    <3>1. stored' = stored \/ stored' = snapshot
      BY <2>1
    <3> QED BY <1>1, <2>1, <3>1
  <2>4. CASE Refused \/ cause # Nil
    BY <1>1, <1>6, <2>1, <2>3, <2>4, DroppedKeeps DEF Synchronize, counts
  <2>5. CASE ~(Refused \/ cause # Nil) /\ buffer # <<>>
    <3>1. Merged(snapshot)
      BY <1>6, <2>5 DEF Synchronize
    <3> QED BY <2>1, <2>3, <2>5, <3>1, MergedKeeps
  <2>6. CASE ~(Refused \/ cause # Nil) /\ buffer = <<>>
    <3>1. /\ binding' = "ready" /\ accepted' = snapshot /\ stored' = snapshot
          /\ UNCHANGED <<snapshot, buffer, arrived, queue, slot, writing, cause>>
      BY <1>6, <2>1, <2>6 DEF Synchronize, Ready
    <3>2. Len(buffer) = 0
      BY <2>6
    <3>3. snapshot = produced
      BY <2>1, <2>6, <3>2 DEF BindingInv, Attached
    <3>4. queue = <<>> /\ Len(queue) = 0
      <4>1. queue = <<>>
        BY <2>1 DEF BindingInv, Attached
      <4> QED BY <4>1
    <3>5. Chain(queue', stored', produced')
      BY <2>1, <3>1, <3>3, <3>4 DEF Chain
    <3>6. BindingTypeOK'
      BY <1>1, <2>1, <2>3, <3>1 DEF BindingInv, BindingTypeOK, Listening, counts
    <3>7. Learned'
      BY <2>1, <2>3, <3>1 DEF BindingInv, Learned
    <3> QED BY <2>1, <2>2, <2>6, <3>1, <3>3, <3>5, <3>6, <3>7
            DEF BindingInv, Attached, Chained, Open, Blamed, Overdue
  <2> QED BY <2>4, <2>5, <2>6
<1> QED BY <1>2, <1>3, <1>4, <1>5, <1>6

\* What leaves the queue leaves the rest of it as it was.
LEMMA TailKeeps ==
    ASSUME BindingInv, queue # <<>>, queue' = Tail(queue), ~writing',
           slot' \in BOOLEAN, slot' => slot /\ Len(queue) > 1
    PROVE  Open' /\ queue' \in Seq(Observation)
<1>1. queue \in Seq(Observation) /\ slot \in BOOLEAN
  BY DEF BindingInv, BindingTypeOK
<1>2. /\ Tail(queue) \in Seq(Observation) /\ Len(Tail(queue)) = Len(queue) - 1
      /\ \A i \in 1..Len(Tail(queue)) : Tail(queue)[i] = queue[i + 1]
      /\ Len(queue) \in Nat /\ 1 <= Len(queue)
  BY <1>1, TailParts
<1>3. ASSUME slot'
      PROVE  queue' # <<>> /\ queue'[Len(queue')].kind = "event"
  <2>1. slot /\ Len(queue) > 1
    BY <1>3
  <2>2. queue[Len(queue)].kind = "event"
    BY <2>1 DEF BindingInv, Open
  <2>3. Len(queue') \in 1..Len(queue') /\ Len(queue') + 1 = Len(queue)
    BY <1>2, <2>1
  <2>4. queue'[Len(queue')] = queue[Len(queue)]
    BY <1>2, <2>3
  <2>5. queue' # <<>>
    <3>1. Len(queue') # 0
      BY <2>3
    <3>2. queue' = <<>> => Len(queue') = 0
      OBVIOUS
    <3> QED BY <3>1, <3>2
  <2> QED BY <2>2, <2>4, <2>5
<1> QED BY <1>1, <1>2, <1>3 DEF Open

LEMMA TailBehind ==
    ASSUME NEW q \in Seq(Observation), q # <<>>, NEW last \in Evidence,
           \A i \in 1..Len(q) : Behind(q[i].evidence, last)
    PROVE  \A i \in 1..Len(Tail(q)) : Behind(Tail(q)[i].evidence, last)
<1>1. /\ Len(Tail(q)) = Len(q) - 1 /\ Len(q) \in Nat /\ 1 <= Len(q)
      /\ \A i \in 1..Len(Tail(q)) : Tail(q)[i] = q[i + 1]
  BY TailParts
<1>2. \A i \in 1..Len(Tail(q)) : i + 1 \in 1..Len(q)
  BY <1>1
<1> QED BY <1>1, <1>2

LEMMA WriteKeeps == ASSUME BindingInv, Write PROVE BindingInv'
<1>1. /\ binding = "ready" /\ queue # <<>> /\ writing' = TRUE
      /\ slot' = (slot /\ Len(queue) > 1)
      /\ UNCHANGED <<produced, stored, binding, snapshot, buffer, arrived, accepted, queue,
                     cause, probe, counts>>
  BY DEF Write
<1>2. slot' \in BOOLEAN /\ (slot' => slot /\ Len(queue) > 1)
  BY <1>1
<1>3. BindingTypeOK'
  BY <1>1, <1>2 DEF BindingInv, BindingTypeOK, counts
<1>4. Open'
  BY <1>1, <1>2 DEF BindingInv, Open
<1>5. Learned'
  BY <1>1 DEF BindingInv, Learned
<1> QED BY <1>1, <1>3, <1>4, <1>5 DEF BindingInv, Attached, Chained, Blamed, Overdue, counts

LEMMA SkipKeeps == ASSUME BindingInv, Skip PROVE BindingInv'
<1>1. /\ binding \in {"ready", "failed"} /\ queue # <<>> /\ ~writing
      /\ binding = "failed" \/ Head(queue).kind = "dropped"
      /\ queue' = Tail(queue) /\ slot' = (slot /\ Len(queue) > 1)
      /\ probe' = Quiet \/ probe' = probe
      /\ UNCHANGED <<produced, stored, binding, snapshot, buffer, arrived, accepted, writing,
                     cause, counts>>
  BY DEF Skip
<1>2. queue \in Seq(Observation) /\ produced \in Evidence
  BY DEF BindingInv, BindingTypeOK
<1>3. slot' \in BOOLEAN /\ (slot' => slot /\ Len(queue) > 1) /\ ~writing'
  BY <1>1
<1>4. Open' /\ queue' \in Seq(Observation)
  BY <1>1, <1>3, TailKeeps
<1>5. probe' \in [pc : {"off", "asking", "read", "queued"}, evidence : Evidence \cup {Nil}]
  BY <1>1, NothingYet DEF BindingInv, BindingTypeOK
<1>6. BindingTypeOK'
  BY <1>1, <1>3, <1>4, <1>5 DEF BindingInv, BindingTypeOK, counts
<1>7. Learned'
  BY <1>1 DEF BindingInv, Learned, Quiet
<1>8. Overdue'
  BY <1>1, <1>2, TailBehind DEF BindingInv, Overdue
<1>9. ASSUME binding = "ready" PROVE Chain(queue', stored', produced')
  <2>1. Head(queue).kind = "dropped"
    BY <1>1, <1>9
  <2>2. /\ Chain(queue, stored, produced) /\ stored \in Evidence /\ Behind(stored, produced)
    BY <1>9 DEF BindingInv, BindingTypeOK, Chained, Learned
  <2> QED BY <1>1, <1>2, <2>1, <2>2, ChainReread
<1>10. Chained'
  BY <1>1, <1>9 DEF BindingInv, Chained
<1> QED BY <1>1, <1>4, <1>6, <1>7, <1>8, <1>10 DEF BindingInv, Attached, Blamed, counts

\* What is being written is the first of a queue whose subscription is or was ready.
LEMMA WritingParts ==
    ASSUME BindingInv, writing
    PROVE  /\ binding \in {"ready", "failed"} /\ queue # <<>> /\ slot \in BOOLEAN
           /\ slot => Len(queue) > 1
           /\ queue \in Seq(Observation) /\ produced \in Evidence
           /\ Head(queue).evidence \in Evidence /\ Behind(Head(queue).evidence, produced)
<1>1. queue \in Seq(Observation) /\ produced \in Evidence /\ slot \in BOOLEAN
  BY DEF BindingInv, BindingTypeOK
<1>2. binding \in {"ready", "failed"} /\ queue # <<>> /\ (slot => Len(queue) > 1)
  BY DEF BindingInv, Open, Attached
<1>3. \A i \in 1..Len(queue) : Behind(queue[i].evidence, produced)
  BY <1>2 DEF BindingInv, Chained, Chain, Overdue
<1>4. Head(queue) = queue[1] /\ 1 \in 1..Len(queue)
  BY <1>1, <1>2, TailParts
<1> QED BY <1>1, <1>2, <1>3, <1>4, ObservationParts

LEMMA ApplyKeeps == ASSUME BindingInv, Apply PROVE BindingInv'
<1> DEFINE next == Head(queue).evidence
<1>1. /\ writing /\ Head(queue).kind = "event" /\ queue' = Tail(queue) /\ writing' = FALSE
      /\ UNCHANGED <<produced, snapshot, buffer, arrived, accepted, slot, probe, counts>>
  BY DEF Apply, Written
<1>2. /\ binding \in {"ready", "failed"} /\ queue # <<>> /\ slot \in BOOLEAN
      /\ slot => Len(queue) > 1
      /\ queue \in Seq(Observation) /\ produced \in Evidence
      /\ next \in Evidence /\ Behind(next, produced)
  BY <1>1, WritingParts
<1>3. Open' /\ queue' \in Seq(Observation)
  BY <1>1, <1>2, TailKeeps
<1>4. CASE binding = "failed"
  <2>1. UNCHANGED <<binding, cause>> /\ (stored' = stored \/ stored' = next)
    BY <1>4 DEF Apply
  <2>2. BindingTypeOK'
    BY <1>1, <1>2, <1>3, <2>1 DEF BindingInv, BindingTypeOK, counts
  <2>3. Learned'
    BY <1>1, <1>2, <2>1 DEF BindingInv, Learned
  <2>4. Overdue'
    BY <1>1, <1>2, <2>1, TailBehind DEF BindingInv, Overdue
  <2> QED BY <1>1, <1>3, <1>4, <2>1, <2>2, <2>3, <2>4
          DEF BindingInv, Attached, Chained, Blamed, counts
<1>5. CASE binding = "ready"
  <2>1. /\ Chain(queue, stored, produced) /\ stored \in Evidence /\ accepted = produced
    BY <1>5 DEF BindingInv, BindingTypeOK, Chained
  <2>2. Head(queue) = queue[1] /\ 1 \in 1..Len(queue)
    BY <1>2, TailParts
  <2>3. Older(stored, next)
    BY <1>1, <1>2, <2>1, <2>2 DEF Chain
  <2>4. Objection(stored, next) = Nil
    BY <1>2, <2>1, <2>3, ObjectionIs DEF Behind
  <2>5. stored' = next /\ UNCHANGED <<binding, cause>>
    BY <2>4 DEF Apply
  <2>6. Chain(queue', stored', produced')
    BY <1>1, <1>2, <2>1, <2>5, ChainStored
  <2>7. BindingTypeOK'
    BY <1>1, <1>2, <1>3, <2>5 DEF BindingInv, BindingTypeOK, counts
  <2>8. Learned'
    BY <1>1, <1>2, <2>5 DEF BindingInv, Learned
  <2>9. stored' # Nil
    BY <1>2, <2>5, EvidenceParts
  <2> QED BY <1>1, <1>3, <1>5, <2>1, <2>5, <2>6, <2>7, <2>8, <2>9
          DEF BindingInv, Attached, Chained, Blamed, Overdue
<1> QED BY <1>2, <1>4, <1>5

LEMMA ReportKeeps == ASSUME BindingInv, ReportProbe PROVE BindingInv'
<1> DEFINE next == Head(queue).evidence
           kept == Overtaken(next) \/ Objection(stored, next) # Nil
<1>1. /\ writing /\ Head(queue).kind = "probe" /\ queue' = Tail(queue) /\ writing' = FALSE
      /\ probe' = Quiet
      /\ UNCHANGED <<produced, binding, snapshot, buffer, arrived, slot, cause, counts>>
  BY DEF ReportProbe, Written
<1>2. /\ binding \in {"ready", "failed"} /\ queue # <<>> /\ slot \in BOOLEAN
      /\ slot => Len(queue) > 1
      /\ queue \in Seq(Observation) /\ produced \in Evidence
      /\ next \in Evidence /\ Behind(next, produced)
  BY <1>1, WritingParts
<1>3. Open' /\ queue' \in Seq(Observation)
  BY <1>1, <1>2, TailKeeps
<1>4. Quiet.evidence = Nil /\ Quiet.pc = "off"
  BY DEF Quiet
<1>5. \/ kept /\ UNCHANGED <<stored, accepted>>
      \/ /\ ~kept /\ stored' = next
         /\ accepted' = IF next.revision >= accepted.revision THEN next ELSE accepted
  BY DEF ReportProbe
<1>6. BindingTypeOK'
  <2>1. stored' \in Evidence \cup {Nil} /\ accepted' \in Evidence \cup {Nil}
    BY <1>2, <1>5 DEF BindingInv, BindingTypeOK
  <2> QED BY <1>1, <1>2, <1>3, <2>1, NothingYet DEF BindingInv, BindingTypeOK, counts
<1>7. Learned'
  BY <1>1, <1>2, <1>4, <1>5 DEF BindingInv, Learned
<1>8. CASE binding = "failed"
  <2>1. Overdue'
    BY <1>1, <1>2, TailBehind DEF BindingInv, Overdue
  <2> QED BY <1>1, <1>3, <1>6, <1>7, <1>8, <2>1 DEF BindingInv, Attached, Chained, Blamed, counts
<1>9. CASE binding = "ready"
  <2>1. /\ Chain(queue, stored, produced) /\ stored \in Evidence /\ accepted = produced
        /\ Behind(stored, produced) /\ stored # Nil
    BY <1>9 DEF BindingInv, BindingTypeOK, Chained, Learned
  <2>2. /\ Chain(queue', stored, produced)
        /\ Behind(stored, next) => Chain(queue', next, produced)
    BY <1>1, <1>2, <2>1, ChainReread
  <2>3. CASE kept
    <3>1. UNCHANGED <<stored, accepted>>
      BY <1>5, <2>3
    <3> QED BY <1>1, <1>3, <1>6, <1>7, <1>9, <2>1, <2>2, <3>1
            DEF BindingInv, Attached, Chained, Blamed, Overdue, counts
  <2>4. CASE ~kept
    <3>1. /\ stored' = next
          /\ accepted' = IF next.revision >= accepted.revision THEN next ELSE accepted
      BY <1>5, <2>4
    <3>2. Behind(stored, next)
      BY <1>2, <2>1, <2>4, ObjectionIs
    <3>3. accepted' = produced
      BY <1>2, <2>1, <3>1, BehindBoth
    <3>4. stored' # Nil
      BY <1>2, <3>1, EvidenceParts
    <3> QED BY <1>1, <1>3, <1>6, <1>7, <1>9, <2>2, <3>1, <3>2, <3>3, <3>4
            DEF BindingInv, Attached, Chained, Blamed, Overdue
  <2> QED BY <2>3, <2>4
<1> QED BY <1>2, <1>8, <1>9

\* A probe that was given up keeps its place.
LEMMA DroppedParts ==
    ASSUME queue \in Seq(Observation)
    PROVE  /\ DroppedProbes \in Seq(Observation) /\ Len(DroppedProbes) = Len(queue)
           /\ \A i \in 1..Len(queue) :
                 /\ DroppedProbes[i].evidence = queue[i].evidence
                 /\ DroppedProbes[i].kind = "event" <=> queue[i].kind = "event"
                 /\ queue[i].kind = "event" => DroppedProbes[i] = queue[i]
<1> DEFINE o(i) == [queue[i] EXCEPT !.kind = IF @ = "probe" THEN "dropped" ELSE @]
<1>1. DOMAIN queue = 1..Len(queue) /\ Len(queue) \in Nat
  OBVIOUS
<1>2. ASSUME NEW i \in 1..Len(queue)
      PROVE  /\ o(i) \in Observation /\ o(i).evidence = queue[i].evidence
             /\ o(i).kind = "event" <=> queue[i].kind = "event"
             /\ queue[i].kind = "event" => o(i) = queue[i]
  <2>1. queue[i] \in Observation
    OBVIOUS
  <2> QED BY <2>1 DEF Observation
<1>3. DroppedProbes = [i \in 1..Len(queue) |-> o(i)]
  BY <1>1 DEF DroppedProbes
<1> HIDE DEF o
<1>4. DroppedProbes \in [1..Len(queue) -> Observation]
  BY <1>2, <1>3
<1>5. DroppedProbes \in Seq(Observation) /\ Len(DroppedProbes) = Len(queue)
  BY <1>1, <1>4
<1> QED BY <1>2, <1>3, <1>5

LEMMA AbandonedKeeps == ASSUME BindingInv, ProbeAbandoned PROVE BindingInv'
<1>1. /\ probe' = Quiet /\ queue' = DroppedProbes
      /\ UNCHANGED <<produced, stored, binding, snapshot, buffer, arrived, accepted, slot,
                     writing, cause, counts>>
  BY DEF ProbeAbandoned
<1>2. queue \in Seq(Observation) /\ Len(queue) \in Nat
  BY DEF BindingInv, BindingTypeOK
<1>3. /\ queue' \in Seq(Observation) /\ Len(queue') = Len(queue)
      /\ \A i \in 1..Len(queue) :
            /\ queue'[i].evidence = queue[i].evidence
            /\ queue'[i].kind = "event" <=> queue[i].kind = "event"
            /\ queue[i].kind = "event" => queue'[i] = queue[i]
  BY <1>1, <1>2, DroppedParts
<1>4. queue' = <<>> <=> queue = <<>>
  BY <1>2, <1>3
<1>5. BindingTypeOK'
  BY <1>1, <1>3, NothingYet DEF BindingInv, BindingTypeOK, counts
<1>6. Learned'
  BY <1>1 DEF BindingInv, Learned, Quiet
<1>7. Open'
  <2>1. queue # <<>> => Len(queue) \in 1..Len(queue)
    BY <1>2
  <2> QED BY <1>1, <1>3, <1>4, <2>1 DEF BindingInv, Open
<1>8. ASSUME Chain(queue, stored, produced) PROVE Chain(queue', stored, produced)
  <2>1. \A j \in 1..Len(queue) : \A i \in 1..(j - 1) : i \in 1..Len(queue)
    BY <1>2
  <2>2. ASSUME NEW i \in 1..Len(queue), queue[i] = [kind |-> "event", evidence |-> produced]
        PROVE  queue'[i] = [kind |-> "event", evidence |-> produced]
    BY <1>3, <2>2
  <2> QED BY <1>3, <1>8, <2>1, <2>2 DEF Chain
<1>9. Chained' /\ Overdue'
  BY <1>1, <1>3, <1>8 DEF BindingInv, Chained, Overdue
<1> QED BY <1>1, <1>4, <1>5, <1>6, <1>7, <1>9 DEF BindingInv, Attached, Blamed, counts

LEMMA RereadKeeps == ASSUME BindingInv, Reread PROVE BindingInv'
<1>1. CASE Probe \/ ProbeReads \/ ProbeGivenUp
  <2>1. UNCHANGED <<produced, stored, subscription, replays, crashes>>
    BY <1>1 DEF Probe, ProbeReads, ProbeGivenUp, counts
  <2>2. probes' \in 0..MaxProbes
    BY <1>1, BindingAssumption DEF Probe, ProbeReads, ProbeGivenUp, counts, BindingInv, BindingTypeOK
  <2>3. probe' \in [pc : {"off", "asking", "read", "queued"}, evidence : Evidence \cup {Nil}]
    BY <1>1, NothingYet DEF Probe, ProbeReads, ProbeGivenUp, BindingInv, BindingTypeOK
  <2>4. /\ probe'.evidence # Nil => Behind(probe'.evidence, produced)
        /\ probe'.pc = "read" => probe'.evidence # Nil
    <3>1. produced # Nil
      BY EvidenceParts DEF BindingInv, BindingTypeOK
    <3> QED BY <1>1, <3>1 DEF Probe, ProbeReads, ProbeGivenUp, Quiet, Behind
  <2>5. BindingTypeOK'
    BY <2>1, <2>2, <2>3 DEF BindingInv, BindingTypeOK, subscription
  <2>6. Learned'
    BY <2>1, <2>4 DEF BindingInv, Learned, subscription
  <2> QED BY <2>1, <2>5, <2>6 DEF BindingInv, Attached, Chained, Open, Blamed, Overdue, subscription
<1>2. CASE ProbeAnswers
  <2> DEFINE o == [kind |-> "probe", evidence |-> probe.evidence]
  <2>1. /\ probe.pc = "read" /\ binding = "ready" /\ probe' = [probe EXCEPT !.pc = "queued"]
        /\ queue' = Append(queue, o) /\ slot' = FALSE
        /\ UNCHANGED <<produced, stored, binding, snapshot, buffer, arrived, accepted,
                       writing, cause, counts>>
    BY <1>2 DEF ProbeAnswers
  <2>2. /\ probe.evidence \in Evidence /\ Behind(probe.evidence, produced)
        /\ probe \in [pc : {"off", "asking", "read", "queued"}, evidence : Evidence \cup {Nil}]
        /\ queue \in Seq(Observation) /\ produced \in Evidence
    BY <2>1 DEF BindingInv, BindingTypeOK, Learned
  <2>3. stored \in Evidence /\ Chain(queue, stored, produced)
    BY <2>1 DEF BindingInv, BindingTypeOK, Chained
  <2>4. Chain(queue', stored', produced')
    BY <2>1, <2>2, <2>3, ChainProbe
  <2>5. o \in Observation
    BY <2>2 DEF Observation
  <2>6. queue' \in Seq(Observation)
    BY <2>1, <2>2, <2>5, AppendParts
  <2>7. /\ probe' \in [pc : {"off", "asking", "read", "queued"}, evidence : Evidence \cup {Nil}]
        /\ probe'.evidence = probe.evidence /\ probe'.pc = "queued"
    BY <2>1, <2>2
  <2>8. BindingTypeOK'
    BY <2>1, <2>6, <2>7 DEF BindingInv, BindingTypeOK, counts
  <2>9. Learned'
    BY <2>1, <2>2, <2>7 DEF BindingInv, Learned
  <2> QED BY <2>1, <2>4, <2>8, <2>9 DEF BindingInv, Attached, Chained, Open, Blamed, Overdue
<1> QED BY <1>1, <1>2, AbandonedKeeps DEF Reread

LEMMA EndKeeps == ASSUME BindingInv, CloseSettled \/ Crash PROVE BindingInv'
<1>1. /\ produced \in Evidence /\ stored \in Evidence \cup {Nil} /\ crashes \in 0..MaxCrashes
      /\ stored # Nil => Behind(stored, produced)
  BY DEF BindingInv, BindingTypeOK, Learned
<1>2. CASE CloseSettled
  BY <1>1, <1>2, DroppedKeeps DEF CloseSettled, counts
<1>3. CASE Crash /\ binding' = "off"
  <2>1. crashes' \in 0..MaxCrashes
    BY <1>1, <1>3, BindingAssumption DEF Crash
  <2> QED BY <1>1, <1>3, <2>1, DroppedKeeps DEF Crash, Dropped
<1>4. CASE Crash /\ binding' = "due"
  <2>1. crashes' \in 0..MaxCrashes
    BY <1>1, <1>4, BindingAssumption DEF Crash
  <2>2. /\ Cleared /\ probe' = Quiet /\ UNCHANGED <<produced, stored, probes, replays>>
    BY <1>4 DEF Crash
  <2>3. BindingTypeOK'
    <3>1. /\ buffer' \in Seq(Evidence) /\ Len(buffer') <= arrived'
          /\ arrived' \in 0..MaxPending /\ queue' \in Seq(Observation)
      BY <2>2, NothingYet DEF Cleared
    <3>2. probe' \in [pc : {"off", "asking", "read", "queued"}, evidence : Evidence \cup {Nil}]
      BY <2>2, NothingYet
    <3> QED BY <1>1, <1>4, <2>1, <2>2, <3>1, <3>2 DEF BindingInv, BindingTypeOK, Cleared
  <2>4. Learned'
    BY <1>1, <2>2 DEF Learned, Cleared, Quiet
  <2> QED BY <1>4, <2>2, <2>3, <2>4 DEF BindingInv, Attached, Chained, Open, Blamed, Overdue, Cleared
<1> QED BY <1>2, <1>3, <1>4 DEF Crash

LEMMA StepBindingInv == BindingInv /\ [BindingNext]_bindingVars => BindingInv'
<1> SUFFICES ASSUME BindingInv, [BindingNext]_bindingVars PROVE BindingInv'
  OBVIOUS
<1>1. CASE Subscribe
  BY <1>1, StartKeeps DEF Subscribe
<1>2. CASE Produce
  BY <1>2, EmitKeeps, RepeatKeeps, ReplayKeeps DEF Produce
<1>3. CASE Flush
  BY <1>3, WriteKeeps, SkipKeeps, ApplyKeeps, ReportKeeps DEF Flush
<1>4. CASE Reread
  BY <1>4, RereadKeeps
<1>5. CASE CloseSettled \/ Crash
  BY <1>5, EndKeeps
<1>6. CASE UNCHANGED bindingVars
  BY <1>6 DEF bindingVars, subscription, counts, BindingInv, BindingTypeOK, Learned, Attached,
              Chained, Open, Blamed, Overdue
<1> QED BY <1>1, <1>2, <1>3, <1>4, <1>5, <1>6 DEF BindingNext

LEMMA BindingInvFaithful == BindingInv => Faithful
<1> SUFFICES ASSUME BindingInv PROVE Faithful
  OBVIOUS
<1>1. ASSUME binding = "ready", queue = <<>> PROVE stored = produced
  <2>1. Len(queue) = 0
    BY <1>1
  <2> QED BY <1>1, <2>1 DEF BindingInv, Chained, Chain
<1> QED BY <1>1 DEF BindingInv, Faithful, Blamed

\* What the store has of an execution is what its producer published, in every
\* behaviour and for any predicates, revisions, buffers, probes, replays and
\* crashes (ExecutionBinding).
THEOREM StoreFaithful == BindingSpec => []Faithful
<1>1. BindingInit => BindingInv
  BY InitBindingInv
<1>2. BindingInv /\ [BindingNext]_bindingVars => BindingInv'
  BY StepBindingInv
<1>3. BindingInv => Faithful
  BY BindingInvFaithful
<1> QED BY <1>1, <1>2, <1>3, PTL DEF BindingSpec

\* The producer's present evidence is on its way while a subscription attaches
\* or runs: in the snapshot or the buffer until too much came, then in the store
\* or the queue.
NewsUnderWay ==
    /\ binding \in {"read", "synchronizing"} /\ cause = Nil =>
          snapshot = produced \/ \E i \in 1..Len(buffer) : buffer[i] = produced
    /\ binding = "ready" =>
          \/ stored = produced
          \/ \E i \in 1..Len(queue) : queue[i] = [kind |-> "event", evidence |-> produced]

\* No change of a producer is lost between its snapshot, its events and the store
\* (ExecutionBinding.initialize, merge, publish): what EndReaches needs beside
\* fairness.
THEOREM NothingLost == BindingSpec => []NewsUnderWay
<1>1. BindingInv => NewsUnderWay
  BY DEF BindingInv, Attached, Chained, Chain, NewsUnderWay
<1> QED BY <1>1, InitBindingInv, StepBindingInv, PTL DEF BindingSpec

-----------------------------------------------------------------------------
(* The scanners *)

Reported == [at : Time, healthy : BOOLEAN]
KeptWait == [created : Time, expires : Nat, watched : BOOLEAN, state : WaitState]

\* A scanner, whatever it is doing: only one that rests has a timer.
ScannerGood(s, c) ==
    /\ DOMAIN s = {"pc", "requested", "timer", "now", "next", "todo", "evidence", "item"}
    /\ s.pc \in {"idle", "begun", "expired", "looked", "assessing", "probing", "deciding",
                 "ending"}
    /\ s.timer # None => s.pc \in {"idle", "ending"}
    /\ s.now \in Time /\ s.now <= c

\* What the health scanner has read: the waits it has still to assess were
\* declared, and a verdict on its way was due when the wait was assessed.
HealthGood(h, w, c) ==
    /\ h.pc \in {"assessing", "probing", "deciding"} =>
          /\ h.evidence \in Reported
          /\ \A t \in h.todo : t \in Token /\ w[t] # None
    /\ h.pc = "deciding" =>
          /\ h.item.token \in Token /\ w[h.item.token] # None
          /\ h.item.at \in Time /\ h.item.at <= c
          /\ Verdict(w[h.item.token], h.evidence, h.item.at) # "healthy"

WaitsGood ==
    /\ waits \in [Token -> KeptWait \cup {None}]
    /\ \A t \in Token : waits[t] # None => waits[t].created <= clock

ScanInv ==
    /\ clock \in Time /\ WaitsGood /\ execution \in Reported
    /\ probed \in [Token -> Time \cup {None}]
    /\ scan = [s \in Scanner |-> scan[s]]
    /\ \A s \in Scanner : ScannerGood(scan[s], clock)
    /\ HealthGood(scan["health"], waits, clock)

LEMMA TimeIs == Time \subseteq Int /\ 0 \in Time /\ MaxTime \in Nat
BY ScanAssumption DEF Time

\* What a scan that starts, is asked for or ends is like.
LEMMA StartParts ==
    ASSUME NEW s, DOMAIN s = DOMAIN Idle, clock \in Time
    PROVE  ScannerGood(Start(s), clock) /\ Start(s).pc = "begun"
BY TimeIs DEF ScannerGood, Start, Idle

LEMMA RefreshedParts ==
    ASSUME NEW s, NEW w, ScannerGood(s, clock), clock \in Time
    PROVE  /\ ScannerGood(Refreshed(s), clock)
           /\ HealthGood(s, w, clock) => HealthGood(Refreshed(s), w, clock)
<1>1. CASE s.pc = "idle"
  <2>1. Refreshed(s) = Start(s)
    BY <1>1 DEF Refreshed
  <2>2. DOMAIN s = DOMAIN Idle
    BY DEF ScannerGood, Idle
  <2>3. ScannerGood(Start(s), clock) /\ Start(s).pc = "begun"
    BY <2>2, StartParts
  <2> QED BY <2>1, <2>3 DEF HealthGood
<1>2. CASE s.pc # "idle"
  <2> DEFINE r == [s EXCEPT !.requested = TRUE, !.timer = None]
  <2>1. Refreshed(s) = r
    BY <1>2 DEF Refreshed
  <2>2. /\ DOMAIN r = DOMAIN s /\ r.pc = s.pc /\ r.timer = None /\ r.now = s.now
        /\ r.evidence = s.evidence /\ r.todo = s.todo /\ r.item = s.item
    BY DEF ScannerGood
  <2> HIDE DEF r
  <2>3. ScannerGood(r, clock)
    BY <2>2 DEF ScannerGood
  <2>4. HealthGood(s, w, clock) => HealthGood(r, w, clock)
    BY <2>2 DEF HealthGood
  <2> QED BY <2>1, <2>3, <2>4
<1> QED BY <1>1, <1>2

LEMMA ArmParts ==
    ASSUME NEW s, NEW w, ScannerGood(s, clock), clock \in Time
    PROVE  ScannerGood(Arm(s), clock) /\ HealthGood(Arm(s), w, clock)
<1>1. CASE s.requested
  <2>1. DOMAIN s = DOMAIN Idle
    BY DEF ScannerGood, Idle
  <2>2. ScannerGood(Start(s), clock) /\ Start(s).pc = "begun"
    BY <2>1, StartParts
  <2> QED BY <1>1, <2>2 DEF Arm, HealthGood
<1>2. CASE ~s.requested
  <2> DEFINE timer == IF s.next = None THEN None
                      ELSE clock + Min({MaxDelay, Later(0, s.next - clock)})
             r == [s EXCEPT !.pc = "ending", !.timer = timer]
  <2>1. Arm(s) = r
    BY <1>2 DEF Arm
  <2> HIDE DEF timer
  <2>2. DOMAIN r = DOMAIN s /\ r.pc = "ending" /\ r.now = s.now
    BY DEF ScannerGood
  <2> HIDE DEF r
  <2>3. ScannerGood(r, clock)
    BY <2>2 DEF ScannerGood
  <2> QED BY <2>1, <2>2, <2>3 DEF HealthGood
<1> QED BY <1>1, <1>2

\* A verdict only depends on when the wait was declared.
LEMMA VerdictSame ==
    ASSUME NEW a, NEW b, a.created = b.created, NEW evidence, NEW now
    PROVE  Verdict(a, evidence, now) = Verdict(b, evidence, now)
BY DEF Verdict, DecideAt, StaleAt

\* A wait that was declared stays, as it was declared.
Stay == \A t \in Token : waits[t] # None =>
          waits'[t] # None /\ waits'[t].created = waits[t].created

\* What the health scanner knows stays true while time passes and waits end.
LEMMA StillHealthy ==
    ASSUME NEW h, HealthGood(h, waits, clock), Stay, clock \in Time, clock' \in Time,
           clock <= clock'
    PROVE  HealthGood(h, waits', clock')
<1>1. ASSUME h.pc \in {"assessing", "probing", "deciding"}
      PROVE  h.evidence \in Reported /\ \A t \in h.todo : t \in Token /\ waits'[t] # None
  BY <1>1 DEF HealthGood, Stay
<1>2. ASSUME h.pc = "deciding"
      PROVE  /\ h.item.token \in Token /\ waits'[h.item.token] # None
             /\ h.item.at \in Time /\ h.item.at <= clock'
             /\ Verdict(waits'[h.item.token], h.evidence, h.item.at) # "healthy"
  <2>1. /\ h.item.token \in Token /\ waits[h.item.token] # None
        /\ h.item.at \in Time /\ h.item.at <= clock
        /\ Verdict(waits[h.item.token], h.evidence, h.item.at) # "healthy"
    BY <1>2 DEF HealthGood
  <2>2. waits'[h.item.token] # None
        /\ waits'[h.item.token].created = waits[h.item.token].created
    BY <2>1 DEF Stay
  <2>3. h.item.at <= clock'
    <3>1. h.item.at \in Int /\ clock \in Int /\ clock' \in Int
      BY <2>1, TimeIs
    <3> QED BY <2>1, <3>1
  <2> QED BY <2>1, <2>2, <2>3, VerdictSame
<1> QED BY <1>1, <1>2 DEF HealthGood

\* One scanner moves on and nothing else does.
LEMMA MovesOn ==
    ASSUME ScanInv, NEW s \in Scanner, NEW r, scan' = [scan EXCEPT ![s] = r],
           ScannerGood(r, clock), s = "health" => HealthGood(r, waits, clock),
           UNCHANGED <<clock, waits, execution>>, probed' \in [Token -> Time \cup {None}]
    PROVE  ScanInv'
<1>1. scan'[s] = r /\ \A o \in Scanner \ {s} : scan'[o] = scan[o]
  BY DEF ScanInv
<1>2. scan' = [o \in Scanner |-> scan'[o]]
  BY DEF ScanInv
<1>3. \A o \in Scanner : ScannerGood(scan'[o], clock)
  BY <1>1 DEF ScanInv
<1>4. HealthGood(scan'["health"], waits, clock)
  BY <1>1 DEF ScanInv, Scanner
<1> QED BY <1>2, <1>3, <1>4 DEF ScanInv, WaitsGood

\* Both scanners are told of a commit, or not.
LEMMA ToldKeeps ==
    ASSUME ScanInv, NEW on, NEW changed \in BOOLEAN,
           scan' = [s \in Scanner |-> Told(on[s], changed)],
           \A s \in Scanner : ScannerGood(on[s], clock),
           HealthGood(on["health"], waits', clock),
           WaitsGood', UNCHANGED <<clock, probed>>, execution' \in Reported
    PROVE  ScanInv'
<1>1. \A s \in Scanner : ScannerGood(scan'[s], clock)
  BY RefreshedParts DEF Told, ScanInv
<1>2. HealthGood(scan'["health"], waits', clock)
  BY RefreshedParts DEF Told, ScanInv, Scanner
<1>3. scan' = [s \in Scanner |-> scan'[s]]
  OBVIOUS
<1> QED BY <1>1, <1>2, <1>3 DEF ScanInv

LEMMA NotifyKeeps ==
    ASSUME ScanInv, Notify, WaitsGood', Stay, UNCHANGED <<clock, probed>>,
           execution' \in Reported
    PROVE  ScanInv'
<1>1. scan' = [s \in Scanner |-> Told(scan[s], TRUE)]
  BY DEF Notify, Told
<1>2. HealthGood(scan["health"], waits', clock)
  BY StillHealthy, TimeIs DEF ScanInv
<1> QED BY <1>1, <1>2, ToldKeeps DEF ScanInv

-----------------------------------------------------------------------------
(* The scanners: their steps *)

LEMMA InitScanInv == Init => ScanInv
<1> SUFFICES ASSUME Init PROVE ScanInv
  OBVIOUS
<1>1. clock \in Time /\ WaitsGood /\ execution \in Reported
      /\ probed \in [Token -> Time \cup {None}]
  BY TimeIs DEF Init, WaitsGood, Reported, Unasked
<1>2. scan = [s \in Scanner |-> Start(Idle)]
  BY DEF Init
<1>3. ScannerGood(Start(Idle), clock) /\ Start(Idle).pc = "begun"
  BY <1>1, StartParts
<1>4. HealthGood(Start(Idle), waits, clock)
  BY <1>3 DEF HealthGood
<1> QED BY <1>1, <1>2, <1>3, <1>4 DEF ScanInv, Scanner

LEMMA ScheduledKeeps ==
    ASSUME ScanInv, NEW s \in Scanner, Scheduled(s) PROVE ScanInv'
<1>1. clock \in Time /\ ScannerGood(scan[s], clock) /\ probed \in [Token -> Time \cup {None}]
  BY DEF ScanInv
<1>2. CASE Finish(s)
  <2> DEFINE r == IF scan[s].requested THEN Start(scan[s]) ELSE [scan[s] EXCEPT !.pc = "idle"]
  <2>1. scan' = [scan EXCEPT ![s] = r] /\ UNCHANGED <<clock, waits, execution, probed>>
    BY <1>2 DEF Finish
  <2>2. ScannerGood(r, clock) /\ r.pc \in {"begun", "idle"}
    <3>1. CASE scan[s].requested
      <4>1. DOMAIN scan[s] = DOMAIN Idle
        BY <1>1 DEF ScannerGood, Idle
      <4> QED BY <1>1, <3>1, <4>1, StartParts
    <3>2. CASE ~scan[s].requested
      BY <1>1, <3>2 DEF ScannerGood
    <3> QED BY <3>1, <3>2
  <2> HIDE DEF r
  <2>3. HealthGood(r, waits, clock)
    BY <2>2 DEF HealthGood
  <2> QED BY <1>1, <2>1, <2>2, <2>3, MovesOn
<1>3. CASE TimerFires(s)
  <2>1. scan' = [scan EXCEPT ![s] = Refreshed(scan[s])]
        /\ UNCHANGED <<clock, waits, execution, probed>>
    BY <1>3 DEF TimerFires
  <2>2. ScannerGood(Refreshed(scan[s]), clock)
    BY <1>1, RefreshedParts
  <2>3. s = "health" => HealthGood(Refreshed(scan[s]), waits, clock)
    BY <1>1, RefreshedParts DEF ScanInv
  <2> QED BY <1>1, <2>1, <2>2, <2>3, MovesOn
<1> QED BY <1>2, <1>3 DEF Scheduled

LEMMA NoneIsNoWait == None \notin KeptWait
<1>1. 0..MaxTime \subseteq Nat
  OBVIOUS
<1>2. KeptWait \subseteq [created : Nat, expires : Nat, watched : BOOLEAN, state : WaitState]
  BY <1>1 DEF KeptWait, Time
<1> QED BY <1>2, ScanAssumption

\* Waits that end stay what they were.
LEMMA EndsKeep ==
    ASSUME ScanInv, NEW S \in SUBSET Token, \A t \in S : waits[t] # None,
           NEW state \in {"ended", "expired", "unhealthy", "health-unknown"},
           waits' = [t \in Token |-> IF t \in S THEN [waits[t] EXCEPT !.state = state]
                                    ELSE waits[t]],
           UNCHANGED clock
    PROVE  WaitsGood' /\ Stay
<1>1. \A t \in Token : waits[t] # None => waits[t] \in KeptWait
  BY DEF ScanInv, WaitsGood
<1>2. \A t \in Token : waits[t] # None =>
          /\ [waits[t] EXCEPT !.state = state] \in KeptWait
          /\ [waits[t] EXCEPT !.state = state].created = waits[t].created
  BY <1>1 DEF KeptWait, WaitState
<1>3. \A t \in Token : waits[t] # None =>
          waits'[t] \in KeptWait /\ waits'[t].created = waits[t].created
  BY <1>1, <1>2
<1>4. \A t \in Token : waits[t] = None => waits'[t] = None
  OBVIOUS
<1>5. None \notin KeptWait
  BY NoneIsNoWait
<1>6. WaitsGood'
  BY <1>3, <1>4 DEF WaitsGood, ScanInv
<1> QED BY <1>3, <1>5, <1>6 DEF Stay

LEMMA DeadlinesKeep == ASSUME ScanInv, Deadlines PROVE ScanInv'
<1> DEFINE d == scan["deadlines"]
<1>1. /\ clock \in Time /\ ScannerGood(d, clock) /\ probed \in [Token -> Time \cup {None}]
      /\ "deadlines" \in Scanner /\ "health" \in Scanner
      /\ scan = [s \in Scanner |-> scan[s]] /\ execution \in Reported
  BY DEF ScanInv, Scanner
<1>2. CASE ExpireDue
  <2> DEFINE due == {t \in Token : Live(t) /\ d.now >= waits[t].expires}
             r == [d EXCEPT !.pc = "expired"]
             on == [scan EXCEPT !["deadlines"].pc = "expired"]
  <2>1. /\ d.pc = "begun"
        /\ waits' = [t \in Token |-> IF t \in due THEN [waits[t] EXCEPT !.state = "expired"]
                                     ELSE waits[t]]
        /\ scan' = [s \in Scanner |-> Told(on[s], due # {})]
        /\ UNCHANGED <<clock, execution, probed>>
    BY <1>2 DEF ExpireDue
  <2>2. due \in SUBSET Token /\ \A t \in due : waits[t] # None
    BY DEF Live
  <2> HIDE DEF due
  <2>3. WaitsGood' /\ Stay
    BY <2>1, <2>2, EndsKeep
  <2>4. on["deadlines"] = r /\ on["health"] = scan["health"]
    BY <1>1
  <2>5. ScannerGood(r, clock)
    BY <1>1, <2>1 DEF ScannerGood
  <2> HIDE DEF on, r
  <2>6. \A s \in Scanner : ScannerGood(on[s], clock)
    BY <2>4, <2>5 DEF ScanInv, Scanner
  <2>7. HealthGood(on["health"], waits', clock)
    BY <1>1, <2>1, <2>3, <2>4, StillHealthy, TimeIs DEF ScanInv
  <2> QED BY <1>1, <2>1, <2>3, <2>6, <2>7, ToldKeeps
<1>3. CASE Look
  <2> DEFINE deadlines == {waits[t].expires : t \in {u \in Token : Live(u)}}
             next == IF deadlines = {} THEN None ELSE Min(deadlines)
             r == [d EXCEPT !.pc = "looked", !.next = next]
  <2>1. d.pc = "expired" /\ UNCHANGED <<clock, waits, execution, probed>>
    BY <1>3 DEF Look
  <2>2. scan' = [scan EXCEPT !["deadlines"].pc = "looked", !["deadlines"].next = next]
    BY <1>3 DEF Look
  <2> HIDE DEF next
  <2>3. scan' = [scan EXCEPT !["deadlines"] = r]
    BY <1>1, <2>2
  <2>4. ScannerGood(r, clock)
    BY <1>1, <2>1 DEF ScannerGood
  <2> QED BY <1>1, <2>1, <2>3, <2>4, MovesOn
<1>4. CASE ArmDeadline
  <2>1. scan' = [scan EXCEPT !["deadlines"] = Arm(d)] /\ UNCHANGED <<clock, waits, execution, probed>>
    BY <1>4 DEF ArmDeadline
  <2>2. ScannerGood(Arm(d), clock)
    BY <1>1, ArmParts
  <2> QED BY <1>1, <2>1, <2>2, MovesOn
<1> QED BY <1>1, <1>2, <1>3, <1>4, ScheduledKeeps DEF Deadlines

LEMMA ChecksKeep == ASSUME ScanInv, Checks PROVE ScanInv'
<1> DEFINE h == scan["health"]
<1>1. /\ clock \in Time /\ ScannerGood(h, clock) /\ probed \in [Token -> Time \cup {None}]
      /\ "deadlines" \in Scanner /\ "health" \in Scanner
      /\ scan = [s \in Scanner |-> scan[s]] /\ execution \in Reported
      /\ HealthGood(h, waits, clock)
  BY DEF ScanInv, Scanner
<1>2. CASE ReadHealth
  <2> DEFINE watched == {t \in Token : Live(t) /\ waits[t].watched}
             r == [h EXCEPT !.pc = "assessing", !.todo = watched, !.evidence = execution]
  <2>1. /\ h.pc = "begun" /\ UNCHANGED <<clock, waits, execution>>
        /\ probed' = [t \in Token |-> IF Live(t) THEN probed[t] ELSE None]
        /\ scan' = [scan EXCEPT !["health"] = r]
    BY <1>2 DEF ReadHealth, Health
  <2>2. \A t \in watched : t \in Token /\ waits[t] # None
    BY DEF Live
  <2> HIDE DEF watched
  <2>3. DOMAIN r = DOMAIN h /\ r.pc = "assessing" /\ r.todo = watched /\ r.evidence = execution
        /\ r.timer = h.timer /\ r.now = h.now
    BY <1>1 DEF ScannerGood
  <2>4. probed' \in [Token -> Time \cup {None}]
    BY <1>1, <2>1
  <2> HIDE DEF r
  <2>5. ScannerGood(r, clock) /\ HealthGood(r, waits, clock)
    BY <1>1, <2>1, <2>2, <2>3 DEF ScannerGood, HealthGood
  <2> QED BY <1>1, <2>1, <2>4, <2>5, MovesOn
<1>3. CASE AfterProbe
  <2> DEFINE r == [h EXCEPT !.pc = "assessing", !.requested = TRUE]
  <2>1. h.pc = "probing" /\ UNCHANGED <<clock, waits, execution, probed>>
        /\ scan' = [scan EXCEPT !["health"] = r]
    BY <1>3 DEF AfterProbe, Health
  <2>2. DOMAIN r = DOMAIN h /\ r.pc = "assessing" /\ r.todo = h.todo /\ r.evidence = h.evidence
        /\ r.timer = h.timer /\ r.now = h.now
    BY <1>1 DEF ScannerGood
  <2> HIDE DEF r
  <2>3. ScannerGood(r, clock) /\ HealthGood(r, waits, clock)
    BY <1>1, <2>1, <2>2 DEF ScannerGood, HealthGood
  <2> QED BY <1>1, <2>1, <2>3, MovesOn
<1>4. CASE ArmHealth
  <2> DEFINE s == [h EXCEPT !.evidence = None]
  <2>1. h.pc = "assessing" /\ UNCHANGED <<clock, waits, execution, probed>>
        /\ scan' = [scan EXCEPT !["health"] = Arm(s)]
    BY <1>4 DEF ArmHealth, Health
  <2>2. ScannerGood(s, clock)
    BY <1>1 DEF ScannerGood
  <2> HIDE DEF s
  <2>3. ScannerGood(Arm(s), clock) /\ HealthGood(Arm(s), waits, clock)
    BY <1>1, <2>2, ArmParts
  <2> QED BY <1>1, <2>1, <2>3, MovesOn
<1>5. ASSUME NEW t \in Token, Ask(t) PROVE ScanInv'
  <2> DEFINE r == [h EXCEPT !.pc = "probing", !.todo = h.todo \ {t}]
  <2>1. h.pc = "assessing" /\ UNCHANGED <<clock, waits, execution>>
        /\ probed' = [probed EXCEPT ![t] = clock]
    BY <1>5 DEF Ask, Health
  <2>10. scan' = [scan EXCEPT !["health"] = r]
    BY <1>5 DEF Ask, Health
  <2>2. DOMAIN r = DOMAIN h /\ r.pc = "probing" /\ r.todo = h.todo \ {t}
        /\ r.evidence = h.evidence /\ r.timer = h.timer /\ r.now = h.now
    BY <1>1 DEF ScannerGood
  <2>3. probed' \in [Token -> Time \cup {None}]
    BY <1>1, <2>1
  <2> HIDE DEF r
  <2>4. ScannerGood(r, clock) /\ HealthGood(r, waits, clock)
    BY <1>1, <2>1, <2>2 DEF ScannerGood, HealthGood
  <2> QED BY <1>1, <2>1, <2>3, <2>4, <2>10, MovesOn
<1>6. ASSUME NEW t \in Token, Assess(t) PROVE ScanInv'
  <2> DEFINE at == Now(waits[t])
             check == NextCheck(waits[t], h.evidence, at)
             next == IF check < waits[t].expires THEN Sooner(h.next, check) ELSE h.next
             q == [h EXCEPT !.todo = h.todo \ {t}, !.next = next]
             item == [token |-> t, at |-> at]
             r == [h EXCEPT !.pc = "deciding", !.todo = h.todo \ {t}, !.item = item]
             verdict == Verdict(waits[t], h.evidence, at)
  <2>1. /\ h.pc = "assessing" /\ t \in h.todo /\ UNCHANGED <<clock, waits, execution>>
        /\ probed' = [probed EXCEPT ![t] = None] \/ probed' = probed
    BY <1>6 DEF Assess, Health
  <2>10. scan' = [scan EXCEPT !["health"] = IF verdict = "healthy" THEN q ELSE r]
    BY <1>6 DEF Assess, Health
  <2>2. probed' \in [Token -> Time \cup {None}]
    BY <1>1, <2>1
  <2>3. waits[t] # None /\ h.evidence \in Reported
    BY <1>1, <2>1 DEF HealthGood
  <2>4. at \in Time /\ at <= clock
    <3>1. waits[t].created \in Time /\ waits[t].created <= clock
      BY <2>3 DEF ScanInv, WaitsGood, KeptWait
    <3>2. h.now \in Time /\ h.now <= clock
      BY <1>1 DEF ScannerGood
    <3> QED BY <3>1, <3>2 DEF Now, Later, Health
  <2> HIDE DEF at, next, check
  <2>5. CASE verdict = "healthy"
    <3>1. DOMAIN q = DOMAIN h /\ q.pc = h.pc /\ q.todo = h.todo \ {t}
          /\ q.evidence = h.evidence /\ q.timer = h.timer /\ q.now = h.now /\ q.item = h.item
      BY <1>1 DEF ScannerGood
    <3>2. scan' = [scan EXCEPT !["health"] = q]
      BY <2>5, <2>10
    <3> HIDE DEF q
    <3>3. ScannerGood(q, clock) /\ HealthGood(q, waits, clock)
      BY <1>1, <2>1, <3>1 DEF ScannerGood, HealthGood
    <3> QED BY <1>1, <2>1, <2>2, <3>2, <3>3, MovesOn
  <2>6. CASE verdict # "healthy"
    <3>1. DOMAIN r = DOMAIN h /\ r.pc = "deciding" /\ r.todo = h.todo \ {t}
          /\ r.evidence = h.evidence /\ r.timer = h.timer /\ r.now = h.now /\ r.item = item
      BY <1>1 DEF ScannerGood
    <3>2. scan' = [scan EXCEPT !["health"] = r]
      BY <2>6, <2>10
    <3>3. item.token = t /\ item.at = at
      OBVIOUS
    <3> HIDE DEF r, item
    <3>4. ScannerGood(r, clock)
      BY <1>1, <2>1, <3>1 DEF ScannerGood
    <3>5. HealthGood(r, waits, clock)
      BY <1>1, <2>1, <2>3, <2>4, <2>6, <3>1, <3>3 DEF HealthGood
    <3> QED BY <1>1, <2>1, <2>2, <3>2, <3>4, <3>5, MovesOn
  <2> QED BY <2>5, <2>6
<1>7. CASE Decide
  <2> DEFINE t == h.item.token
             verdict == Verdict(waits[t], h.evidence, h.item.at)
             decided == Live(t) /\ Unchanged
             state == IF h.item.at >= waits[t].expires THEN "expired" ELSE verdict
             r == [h EXCEPT !.pc = "assessing", !.requested = TRUE, !.item = None]
             on == [scan EXCEPT !["health"] = r]
  <2>1. /\ h.pc = "deciding" /\ UNCHANGED <<clock, execution, probed>>
        /\ waits' = IF decided THEN [waits EXCEPT ![t].state = state] ELSE waits
        /\ scan' = [s \in Scanner |-> Told(on[s], decided)]
    BY <1>7 DEF Decide, Health
  <2>2. t \in Token /\ waits[t] # None /\ verdict # "healthy"
    BY <1>1, <2>1 DEF HealthGood
  <2>3. state \in {"ended", "expired", "unhealthy", "health-unknown"}
    BY <2>2 DEF Verdict
  <2>4. WaitsGood' /\ Stay
    <3>1. CASE decided
      <4> HIDE DEF state, t
      <4>1. waits' = [o \in Token |-> IF o \in {t} THEN [waits[o] EXCEPT !.state = state]
                                     ELSE waits[o]]
        BY <2>1, <2>2, <3>1 DEF ScanInv, WaitsGood
      <4>2. {t} \in SUBSET Token /\ \A o \in {t} : waits[o] # None
        BY <2>2
      <4> QED BY <2>1, <2>3, <4>1, <4>2, EndsKeep
    <3>2. CASE ~decided
      <4>1. waits' = waits
        BY <2>1, <3>2
      <4> QED BY <2>1, <4>1 DEF Stay, WaitsGood, ScanInv
    <3> QED BY <3>1, <3>2
  <2>5. DOMAIN r = DOMAIN h /\ r.pc = "assessing" /\ r.todo = h.todo /\ r.evidence = h.evidence
        /\ r.timer = h.timer /\ r.now = h.now
    BY <1>1 DEF ScannerGood
  <2>6. on["health"] = r /\ on["deadlines"] = scan["deadlines"]
    BY <1>1
  <2> HIDE DEF r, on
  <2>7. ScannerGood(r, clock) /\ HealthGood(r, waits, clock)
    BY <1>1, <2>1, <2>5 DEF ScannerGood, HealthGood
  <2>8. \A s \in Scanner : ScannerGood(on[s], clock)
    BY <2>6, <2>7 DEF ScanInv, Scanner
  <2>9. HealthGood(on["health"], waits', clock)
    <3>1. clock' = clock /\ clock \in Time /\ clock <= clock'
      BY <1>1, <2>1, TimeIs
    <3>2. HealthGood(r, waits', clock')
      BY <2>4, <2>7, <3>1, StillHealthy
    <3> QED BY <2>6, <3>1, <3>2
  <2>10. decided \in BOOLEAN
    BY DEF Live, Unchanged
  <2> HIDE DEF decided
  <2> QED BY <1>1, <2>1, <2>4, <2>8, <2>9, <2>10, ToldKeeps
<1> QED BY <1>1, <1>2, <1>3, <1>4, <1>5, <1>6, <1>7, ScheduledKeeps DEF Checks

LEMMA TickKeeps == ASSUME ScanInv, Tick PROVE ScanInv'
<1>1. /\ clock \in Time /\ clock < MaxTime /\ clock' = clock + 1
      /\ UNCHANGED <<waits, execution, scan, probed>>
  BY DEF Tick, ScanInv
<1>2. clock' \in Time /\ clock <= clock' /\ clock \in Int
  BY <1>1, ScanAssumption DEF Time
<1>3. \A s \in Scanner : ScannerGood(scan[s], clock')
  BY <1>1, <1>2, TimeIs DEF ScanInv, ScannerGood
<1>4. HealthGood(scan["health"], waits', clock')
  BY <1>1, <1>2, StillHealthy DEF ScanInv, Stay
<1>5. WaitsGood'
  <2>1. \A t \in Token : waits[t] # None => waits[t].created \in Int
    BY TimeIs DEF ScanInv, WaitsGood, KeptWait
  <2> QED BY <1>1, <1>2, <2>1 DEF ScanInv, WaitsGood
<1> QED BY <1>1, <1>2, <1>3, <1>4, <1>5 DEF ScanInv

LEMMA DeclareKeeps ==
    ASSUME ScanInv, NEW t \in Token, NEW expires \in 1..(MaxTime + 1), NEW watched \in BOOLEAN,
           NEW replaced \in SUBSET Token, Declare(t, expires, watched, replaced)
    PROVE  ScanInv'
<1> DEFINE new == [created |-> clock, expires |-> expires, watched |-> watched,
                   state |-> "waiting"]
<1>1. /\ waits[t] = None /\ \A o \in replaced : Live(o)
      /\ waits' = [o \in Token |->
                     IF o = t THEN new
                     ELSE IF o \in replaced THEN [waits[o] EXCEPT !.state = "ended"]
                     ELSE waits[o]]
      /\ Notify /\ UNCHANGED <<clock, execution, probed>>
  BY DEF Declare
<1>2. clock \in Time /\ clock <= clock /\ execution \in Reported
  BY TimeIs DEF ScanInv
<1>3. new \in KeptWait /\ new.created = clock
  <2>1. expires \in Nat
    BY ScanAssumption
  <2> QED BY <1>2, <2>1 DEF KeptWait, WaitState
<1> HIDE DEF new
<1>4. \A o \in Token : waits[o] # None => waits[o] \in KeptWait /\ waits[o].created <= clock
  BY DEF ScanInv, WaitsGood
<1>5. \A o \in Token : waits[o] # None =>
          /\ [waits[o] EXCEPT !.state = "ended"] \in KeptWait
          /\ [waits[o] EXCEPT !.state = "ended"].created = waits[o].created
  BY <1>4 DEF KeptWait, WaitState
<1>6. \A o \in replaced : waits[o] # None
  BY <1>1 DEF Live
<1>7. \A o \in Token : waits[o] # None =>
          waits'[o] \in KeptWait /\ waits'[o].created = waits[o].created
  BY <1>1, <1>4, <1>5
<1>8. \A o \in Token \ {t} : waits[o] = None => waits'[o] = None
  BY <1>1, <1>6
<1>9. waits'[t] = new
  BY <1>1
<1>10. WaitsGood'
  <2>1. \A o \in Token : waits'[o] \in KeptWait \cup {None}
    BY <1>3, <1>7, <1>8, <1>9
  <2>2. \A o \in Token : waits'[o] # None => waits'[o].created <= clock
    BY <1>2, <1>3, <1>4, <1>7, <1>8, <1>9
  <2>3. waits' = [o \in Token |-> waits'[o]]
    BY <1>1
  <2>4. waits' \in [Token -> KeptWait \cup {None}]
    BY <2>1, <2>3
  <2> QED BY <1>1, <2>2, <2>4 DEF WaitsGood
<1>11. Stay
  <2>1. None \notin KeptWait
    BY NoneIsNoWait
  <2> QED BY <1>7, <2>1 DEF Stay
<1> QED BY <1>1, <1>2, <1>10, <1>11, NotifyKeeps

LEMMA ChangesKeep == ASSUME ScanInv, Changes PROVE ScanInv'
<1>1. clock \in Time /\ clock <= clock /\ execution \in Reported
  BY TimeIs DEF ScanInv
<1>2. ASSUME NEW t \in Token, EndWait(t) PROVE ScanInv'
  <2>1. /\ waits[t] # None /\ waits' = [waits EXCEPT ![t].state = "ended"]
        /\ Notify /\ UNCHANGED <<clock, execution, probed>>
    BY <1>2 DEF EndWait, Live
  <2>2. waits' = [o \in Token |-> IF o \in {t} THEN [waits[o] EXCEPT !.state = "ended"]
                                 ELSE waits[o]]
    BY <2>1 DEF ScanInv, WaitsGood
  <2>3. WaitsGood' /\ Stay
    <3>1. {t} \in SUBSET Token /\ \A o \in {t} : waits[o] # None
      BY <2>1
    <3> QED BY <2>1, <2>2, <3>1, EndsKeep
  <2> QED BY <1>1, <2>1, <2>3, NotifyKeeps
<1>3. ASSUME NEW healthy \in BOOLEAN, Report(healthy) PROVE ScanInv'
  <2>1. execution' = [at |-> clock, healthy |-> healthy] /\ Notify
        /\ UNCHANGED <<clock, waits, probed>>
    BY <1>3 DEF Report
  <2>2. execution' \in Reported
    BY <1>1, <2>1 DEF Reported
  <2>3. WaitsGood' /\ Stay
    BY <2>1 DEF ScanInv, WaitsGood, Stay
  <2> QED BY <2>1, <2>2, <2>3, NotifyKeeps
<1>4. CASE Restart
  <2>1. /\ scan' = [s \in Scanner |-> Start(Idle)] /\ probed' = Unasked
        /\ UNCHANGED <<clock, waits, execution>>
    BY <1>4 DEF Restart
  <2>2. ScannerGood(Start(Idle), clock) /\ Start(Idle).pc = "begun"
    BY <1>1, StartParts
  <2>3. HealthGood(Start(Idle), waits, clock)
    BY <2>2 DEF HealthGood
  <2>4. probed' \in [Token -> Time \cup {None}]
    BY <2>1 DEF Unasked
  <2> QED BY <1>1, <2>1, <2>2, <2>3, <2>4 DEF ScanInv, WaitsGood, Scanner
<1> QED BY <1>2, <1>3, <1>4, DeclareKeeps DEF Changes

LEMMA StepScanInv == ScanInv /\ [Next]_vars => ScanInv'
<1> SUFFICES ASSUME ScanInv, [Next]_vars PROVE ScanInv'
  OBVIOUS
<1>1. CASE UNCHANGED vars
  BY <1>1 DEF vars, ScanInv, WaitsGood
<1> QED BY <1>1, TickKeeps, ChangesKeep, DeadlinesKeep, ChecksKeep DEF Next

LEMMA ScanInvTypeOK == ScanInv => TypeOK
BY DEF ScanInv, TypeOK, WaitsGood, KeptWait, Reported, ScannerGood

-----------------------------------------------------------------------------
(* The scanners: silence *)

Silenced(t) == Live(t) /\ waits'[t].state = "health-unknown"

\* Only the commit of a verdict ends a wait for silence.
LEMMA OnlyDecide ==
    ASSUME ScanInv, [Next]_vars, NEW t \in Token, Silenced(t) PROVE Decide
<1>1. /\ waits \in [Token -> KeptWait \cup {None}]
      /\ waits[t] \in KeptWait /\ waits[t].state = "waiting" /\ waits'[t].state = "health-unknown"
  BY DEF ScanInv, WaitsGood, Silenced, Live
<1>2. [waits[t] EXCEPT !.state = "ended"].state = "ended"
      /\ [waits[t] EXCEPT !.state = "expired"].state = "expired"
  BY <1>1 DEF KeptWait
<1>3. waits' # waits
  BY <1>1
<1>4. ~ExpireDue
  BY <1>1, <1>2 DEF ExpireDue
<1>5. \A o \in Token : ~EndWait(o)
  BY <1>1, <1>2 DEF EndWait
<1>6. ASSUME NEW o \in Token, NEW expires \in 1..(MaxTime + 1), NEW watched \in BOOLEAN,
             NEW replaced \in SUBSET Token, Declare(o, expires, watched, replaced)
      PROVE  FALSE
  <2>1. waits' = [u \in Token |->
                    IF u = o THEN [created |-> clock, expires |-> expires,
                                   watched |-> watched, state |-> "waiting"]
                    ELSE IF u \in replaced THEN [waits[u] EXCEPT !.state = "ended"]
                    ELSE waits[u]]
    BY <1>6 DEF Declare
  <2>2. CASE t = o
    BY <1>1, <2>1, <2>2
  <2>3. CASE t # o
    BY <1>1, <1>2, <2>1, <2>3
  <2> QED BY <2>2, <2>3
<1>7. ~Tick /\ ~Restart /\ (\A healthy \in BOOLEAN : ~Report(healthy)) /\ ~UNCHANGED vars
  BY <1>3 DEF Tick, Restart, Report, vars
<1>8. \A s \in Scanner : ~Scheduled(s)
  BY <1>3 DEF Scheduled, Finish, TimerFires
<1>9. ~Look /\ ~ArmDeadline /\ ~ReadHealth /\ ~AfterProbe /\ ~ArmHealth
      /\ \A o \in Token : ~Ask(o) /\ ~Assess(o)
  BY <1>3 DEF Look, ArmDeadline, ReadHealth, AfterProbe, ArmHealth, Ask, Assess
<1>10. ~Changes
  BY <1>5, <1>6, <1>7 DEF Changes
<1>11. ~Deadlines
  BY <1>4, <1>8, <1>9 DEF Deadlines, Scanner
<1>12. Checks
  BY <1>7, <1>10, <1>11 DEF Next
<1> QED BY <1>8, <1>9, <1>12 DEF Checks, Scanner

\* And it was due: on the evidence that the store still has, at a time that has
\* come.
LEMMA SilenceDue ==
    ASSUME ScanInv, Decide, NEW t \in Token, Silenced(t)
    PROVE  clock >= DecideAt(waits[t], execution)
<1> DEFINE h == scan["health"]
           verdict == Verdict(waits[h.item.token], h.evidence, h.item.at)
           state == IF h.item.at >= waits[h.item.token].expires THEN "expired" ELSE verdict
<1>1. /\ waits[t] \in KeptWait /\ waits[t].state = "waiting"
      /\ waits'[t].state = "health-unknown"
      /\ waits \in [Token -> KeptWait \cup {None}] /\ execution \in Reported /\ clock \in Time
  BY DEF ScanInv, WaitsGood, Silenced, Live
<1>2. h.pc = "deciding"
  BY DEF Decide, Health
<1>3. h.item.at \in Time /\ h.item.at <= clock /\ h.item.token \in Token
  BY <1>2 DEF ScanInv, HealthGood
<1>4. /\ Live(h.item.token) /\ execution = h.evidence
      /\ waits' = [waits EXCEPT ![h.item.token].state = state]
  BY <1>1 DEF Decide, Health, Unchanged
<1> HIDE DEF state
<1>5. h.item.token = t
  BY <1>1, <1>3, <1>4
<1>6. state = "health-unknown"
  BY <1>1, <1>4, <1>5 DEF KeptWait
<1>7. Verdict(waits[t], execution, h.item.at) = "health-unknown"
  BY <1>4, <1>5, <1>6 DEF state
<1>8. ~(h.item.at < DecideAt(waits[t], execution))
  BY <1>7 DEF Verdict
<1>9. DecideAt(waits[t], execution) \in Int
  <2>1. waits[t].created \in Int /\ execution.at \in Int
    BY <1>1, TimeIs DEF KeptWait, Reported
  <2>2. Later(waits[t].created, execution.at) \in Int
    BY <2>1 DEF Later
  <2> QED BY <2>2, ScanAssumption DEF DecideAt, StaleAt
<1>10. h.item.at \in Int /\ clock \in Int
  BY <1>1, <1>3, TimeIs
<1> QED BY <1>3, <1>8, <1>9, <1>10

\* A wait ends for silence only when the time its evidence, one probe and the
\* grace allow is over, whatever was reported while the verdict was on its way
\* and for any waits, times and timers (observeWaitHealth, assessFlowHealth).
THEOREM SilenceIsWaitedOut == Spec => ReportWins
<1>1. Init => ScanInv
  BY InitScanInv
<1>2. ScanInv /\ [Next]_vars => ScanInv'
  BY StepScanInv
<1>3. ScanInv => TypeOK
  BY ScanInvTypeOK
<1>4. ScanInv /\ [Next]_vars =>
        [\A t \in Token : Live(t) /\ waits'[t].state = "health-unknown" =>
             clock >= DecideAt(waits[t], execution)]_vars
  BY OnlyDecide, SilenceDue DEF Silenced
<1> QED BY <1>1, <1>2, <1>3, <1>4, PTL DEF Spec, ReportWins

-----------------------------------------------------------------------------
(* The scanners: no wait is left without a timer *)

\* A set of numbers up to N has a least one.
Least == \A N \in Nat : \A B \in SUBSET (0..N) : B # {} => \E n \in B : \A m \in B : n <= m

LEMMA LeastOf == Least
<1> SUFFICES ASSUME NEW N \in Nat, NEW B \in SUBSET (0..N), B # {}
             PROVE  \E n \in B : \A m \in B : n <= m
  BY DEF Least
<1> DEFINE C == {T \in SUBSET (0..N) : T # {} /\ \A n \in T : \E m \in T : m < n}
<1>1. IsFiniteSet(0..N)
  BY FS_Interval
<1> SUFFICES ASSUME ~\E n \in B : \A m \in B : n <= m PROVE FALSE
  OBVIOUS
<1>2. B \in C
  OBVIOUS
<1>3. C \subseteq FiniteSubsetsOf(0..N)
  BY <1>1, FS_Subset DEF FiniteSubsetsOf
<1>4. PICK T \in C : \A U \in C : <<U, T>> \notin StrictSubsetOrdering(0..N)
  <2> HIDE DEF C
  <2> QED BY <1>1, <1>2, <1>3, FS_StrictSubsetOrderingWellFounded, WFMin
<1>5. PICK x \in T : TRUE
  BY <1>4
<1>6. PICK y \in T : y < x
  BY <1>4, <1>5
<1>7. T \subseteq 0..N /\ x \in Int /\ y \in Int
  BY <1>4, <1>5, <1>6
<1>8. T \ {x} \in SUBSET (0..N) /\ T \ {x} # {}
  BY <1>6, <1>7
<1>9. ASSUME NEW n \in T \ {x} PROVE \E m \in T \ {x} : m < n
  <2>1. PICK m \in T : m < n
    BY <1>4, <1>9
  <2>2. CASE m = x
    BY <1>6, <1>7, <1>9, <2>1, <2>2
  <2> QED BY <2>1, <2>2
<1>10. T \ {x} \in C
  BY <1>8, <1>9
<1>11. <<T \ {x}, T>> \in StrictSubsetOrdering(0..N)
  BY <1>5, <1>7 DEF StrictSubsetOrdering
<1> QED BY <1>4, <1>10, <1>11

LEMMA MinIs ==
    ASSUME NEW S \in SUBSET Nat, S # {}
    PROVE  Min(S) \in S /\ \A n \in S : Min(S) <= n
<1>1. PICK N \in S : TRUE
  OBVIOUS
<1>2. PICK least \in S \cap (0..N) : \A m \in S \cap (0..N) : least <= m
  <2> DEFINE B == S \cap (0..N)
  <2>1. N \in Nat /\ B \in SUBSET (0..N) /\ B # {}
    BY <1>1
  <2> HIDE DEF B
  <2>2. \E least \in B : \A m \in B : least <= m
    BY <2>1, LeastOf DEF Least
  <2> QED BY <2>2 DEF B
<1>3. \A m \in S : least <= m
  BY <1>1, <1>2
<1> QED BY <1>2, <1>3 DEF Min

\* A moment that is set, and not after another.
By(moment, at) == moment \in Nat /\ moment <= at
LiveIn(w, t) == w[t] # None /\ w[t].state = "waiting"
WatchedIn(w, t) == LiveIn(w, t) /\ w[t].watched

\* What a timer must be for the deadlines of the waits, and for the silence of
\* their execution: a deadline that comes before the silence counts is for the
\* other scanner.
DeadlinesTimed(timer, w, c) ==
    \A t \in Token : LiveIn(w, t) => By(timer, Later(w[t].expires, c))
SilenceTimed(timer, w, e, c) ==
    \A t \in Token : WatchedIn(w, t) =>
        /\ e.healthy
        /\ w[t].expires <= DecideAt(w[t], e) \/ By(timer, Later(DecideAt(w[t], e), c))

\* No wait is left without a look: a scanner that rests has a timer for every
\* deadline, and for every silence that would count, that is set for that time at
\* the latest, or fires now; whatever was committed while it scanned, however
\* long that is from now, and although a scan looks at copies (refresh, scan).
WatchKept ==
    /\ scan["deadlines"].pc = "idle" => DeadlinesTimed(scan["deadlines"].timer, waits, clock)
    /\ Health.pc = "idle" => SilenceTimed(Health.timer, waits, execution, clock)

\* During a scan: what has been found covers what the store has, unless another
\* pass was asked for.
DeadlinesSeen(d, w, c) ==
    /\ d.pc = "looked" /\ ~d.requested => \A t \in Token : LiveIn(w, t) => By(d.next, w[t].expires)
    /\ d.pc = "ending" /\ ~d.requested => DeadlinesTimed(d.timer, w, c)
    /\ d.pc = "idle" => DeadlinesTimed(d.timer, w, c)
Assured(h, wait, e) ==
    e.healthy /\ (wait.expires <= DecideAt(wait, e) \/ By(h.next, DecideAt(wait, e)))
SilenceSeen(h, w, e, c) ==
    /\ h.next \in Nat \cup {None}
    /\ h.pc = "assessing" /\ ~h.requested =>
          /\ h.evidence = e
          /\ \A t \in Token : WatchedIn(w, t) => t \in h.todo \/ Assured(h, w[t], e)
    /\ h.pc = "ending" /\ ~h.requested => SilenceTimed(h.timer, w, e, c)
    /\ h.pc = "idle" => SilenceTimed(h.timer, w, e, c)

WatchInv ==
    /\ DeadlinesSeen(scan["deadlines"], waits, clock)
    /\ SilenceSeen(Health, waits, execution, clock)

LEMMA WatchInvKept == WatchInv => WatchKept
BY DEF WatchInv, WatchKept, DeadlinesSeen, SilenceSeen

LEMMA LaterIs ==
    ASSUME NEW a \in Int, NEW b \in Int
    PROVE  Later(a, b) \in {a, b} /\ Later(a, b) >= a /\ Later(a, b) >= b
BY DEF Later

LEMMA DecideIs ==
    ASSUME NEW wait \in KeptWait, NEW e \in Reported
    PROVE  /\ StaleAt(wait, e) \in Nat /\ DecideAt(wait, e) \in Nat
           /\ StaleAt(wait, e) <= DecideAt(wait, e)
<1>1. wait.created \in Nat /\ e.at \in Nat
  BY ScanAssumption DEF KeptWait, Reported, Time
<1>2. Later(wait.created, e.at) \in Nat
  BY <1>1 DEF Later
<1> QED BY <1>2, ScanAssumption DEF StaleAt, DecideAt

\* A scan that starts, or is asked for, has everything before it.
LEMMA StartSees ==
    ASSUME NEW s, NEW w, NEW e, NEW c, DOMAIN s = DOMAIN Idle
    PROVE  DeadlinesSeen(Start(s), w, c) /\ SilenceSeen(Start(s), w, e, c)
<1>1. Start(s).pc = "begun" /\ Start(s).next = None
  BY DEF Start, Idle
<1> QED BY <1>1 DEF DeadlinesSeen, SilenceSeen

LEMMA RefreshedSees ==
    ASSUME NEW s, NEW w, NEW e, NEW c, NEW k, ScannerGood(s, k)
    PROVE  /\ DeadlinesSeen(Refreshed(s), w, c)
           /\ s.next \in Nat \cup {None} => SilenceSeen(Refreshed(s), w, e, c)
<1>0. DOMAIN s = DOMAIN Idle
  BY DEF ScannerGood, Idle
<1>1. CASE s.pc = "idle"
  BY <1>0, <1>1, StartSees DEF Refreshed
<1>2. CASE s.pc # "idle"
  <2> DEFINE r == [s EXCEPT !.requested = TRUE, !.timer = None]
  <2>1. Refreshed(s) = r
    BY <1>2 DEF Refreshed
  <2>2. r.pc # "idle" /\ r.requested /\ r.next = s.next
    BY <1>0, <1>2 DEF Idle
  <2> HIDE DEF r
  <2> QED BY <2>1, <2>2 DEF DeadlinesSeen, SilenceSeen
<1> QED BY <1>1, <1>2

\* The timer of a pass that ends is not later than what the pass has found.
LEMMA ArmTimer ==
    ASSUME NEW s, NEW k, ScannerGood(s, k), ~s.requested, clock \in Time,
           s.next \in Nat \cup {None}
    PROVE  /\ Arm(s).pc = "ending" /\ Arm(s).next = s.next
           /\ s.next \in Nat => By(Arm(s).timer, Later(s.next, clock))
<1> DEFINE delay == Min({MaxDelay, Later(0, s.next - clock)})
           timer == IF s.next = None THEN None ELSE clock + delay
           r == [s EXCEPT !.pc = "ending", !.timer = timer]
<1>1. Arm(s) = r
  BY DEF Arm
<1>2. ASSUME s.next \in Nat PROVE By(timer, Later(s.next, clock))
  <2>1. clock \in Nat /\ MaxDelay \in Nat
    BY ScanAssumption DEF Time
  <2>2. Later(0, s.next - clock) \in Nat
    BY <1>2, <2>1 DEF Later
  <2>3. delay \in Nat /\ delay <= Later(0, s.next - clock)
    BY <2>1, <2>2, MinIs
  <2>4. timer = clock + delay
    BY <1>2, ScanAssumption
  <2> HIDE DEF delay, timer
  <2> QED BY <1>2, <2>1, <2>2, <2>3, <2>4 DEF By, Later
<1> HIDE DEF timer
<1>3. r.pc = "ending" /\ r.next = s.next /\ r.timer = timer
  BY DEF ScannerGood
<1> QED BY <1>1, <1>2, <1>3

LEMMA ByLater ==
    ASSUME NEW moment, NEW at \in Int, NEW b \in Int, NEW c \in Int, b <= c, By(moment, Later(at, b))
    PROVE  By(moment, Later(at, c))
BY DEF By, Later

\* Time passes: a timer that was early enough still is.
LEMMA TimedLater ==
    ASSUME NEW timer, WaitsGood, execution \in Reported, clock \in Int, clock' \in Int,
           clock <= clock'
    PROVE  /\ DeadlinesTimed(timer, waits, clock) => DeadlinesTimed(timer, waits, clock')
           /\ SilenceTimed(timer, waits, execution, clock)
                => SilenceTimed(timer, waits, execution, clock')
<1>1. \A t \in Token : LiveIn(waits, t) =>
          waits[t].expires \in Int /\ DecideAt(waits[t], execution) \in Int
  BY DecideIs DEF WaitsGood, LiveIn, KeptWait
<1>2. ASSUME DeadlinesTimed(timer, waits, clock) PROVE DeadlinesTimed(timer, waits, clock')
  BY <1>1, <1>2, ByLater DEF DeadlinesTimed
<1>3. ASSUME SilenceTimed(timer, waits, execution, clock)
      PROVE  SilenceTimed(timer, waits, execution, clock')
  BY <1>1, <1>3, ByLater DEF SilenceTimed, WatchedIn
<1> QED BY <1>2, <1>3

-----------------------------------------------------------------------------
(* The scanners: each step keeps the watch *)

\* One scanner moves on and nothing else does.
LEMMA DeadlinesMove ==
    ASSUME ScanInv, WatchInv, NEW r, scan' = [scan EXCEPT !["deadlines"] = r],
           DeadlinesSeen(r, waits, clock), UNCHANGED <<clock, waits, execution>>
    PROVE  WatchInv'
BY DEF WatchInv, ScanInv, Scanner, Health

LEMMA HealthMoves ==
    ASSUME ScanInv, WatchInv, NEW r, scan' = [scan EXCEPT !["health"] = r],
           SilenceSeen(r, waits, execution, clock), UNCHANGED <<clock, waits, execution>>
    PROVE  WatchInv'
BY DEF WatchInv, ScanInv, Scanner, Health

\* Both are told of a commit.
LEMMA ToldSee ==
    ASSUME NEW on, \A s \in Scanner : ScannerGood(on[s], clock),
           on["health"].next \in Nat \cup {None},
           scan' = [s \in Scanner |-> Told(on[s], TRUE)]
    PROVE  WatchInv'
<1>1. /\ scan'["deadlines"] = Refreshed(on["deadlines"])
      /\ scan'["health"] = Refreshed(on["health"])
  BY DEF Told, Scanner
<1>2. /\ DeadlinesSeen(Refreshed(on["deadlines"]), waits', clock')
      /\ SilenceSeen(Refreshed(on["health"]), waits', execution', clock')
  BY RefreshedSees DEF Scanner
<1> QED BY <1>1, <1>2 DEF WatchInv, Health

LEMMA NotifySees == ASSUME ScanInv, WatchInv, Notify PROVE WatchInv'
<1>1. scan' = [s \in Scanner |-> Told(scan[s], TRUE)]
  BY DEF Notify, Told
<1>2. scan["health"].next \in Nat \cup {None}
  BY DEF WatchInv, SilenceSeen, Health
<1> QED BY <1>1, <1>2, ToldSee DEF ScanInv

LEMMA InitWatch == Init => WatchInv
<1> SUFFICES ASSUME Init PROVE WatchInv
  OBVIOUS
<1>1. scan["deadlines"] = Start(Idle) /\ scan["health"] = Start(Idle)
  BY DEF Init, Scanner
<1> QED BY <1>1, StartSees DEF WatchInv, Health

LEMMA ScheduledSees ==
    ASSUME ScanInv, WatchInv, NEW s \in Scanner, Scheduled(s) PROVE WatchInv'
<1>1. ScannerGood(scan[s], clock) /\ DOMAIN scan[s] = DOMAIN Idle
  BY DEF ScanInv, ScannerGood, Idle
<1>2. UNCHANGED <<clock, waits, execution>>
  BY DEF Scheduled, Finish, TimerFires
<1>3. ASSUME NEW r, scan' = [scan EXCEPT ![s] = r],
             s = "deadlines" => DeadlinesSeen(r, waits, clock),
             s = "health" => SilenceSeen(r, waits, execution, clock)
      PROVE  WatchInv'
  BY <1>2, <1>3, DeadlinesMove, HealthMoves DEF Scanner
<1>4. CASE Finish(s) /\ scan[s].requested
  <2>1. scan' = [scan EXCEPT ![s] = Start(scan[s])]
    BY <1>4 DEF Finish
  <2> QED BY <1>1, <1>3, <2>1, StartSees
<1>5. CASE Finish(s) /\ ~scan[s].requested
  <2> DEFINE r == [scan[s] EXCEPT !.pc = "idle"]
  <2>1. scan[s].pc = "ending" /\ scan' = [scan EXCEPT ![s] = r]
    BY <1>5 DEF Finish
  <2>2. r.pc = "idle" /\ r.timer = scan[s].timer /\ r.next = scan[s].next
    BY <1>1 DEF Idle
  <2> HIDE DEF r
  <2>3. s = "deadlines" => DeadlinesSeen(r, waits, clock)
    BY <1>5, <2>1, <2>2 DEF WatchInv, DeadlinesSeen
  <2>4. s = "health" => SilenceSeen(r, waits, execution, clock)
    BY <1>5, <2>1, <2>2 DEF WatchInv, SilenceSeen, Health
  <2> QED BY <1>3, <2>1, <2>3, <2>4
<1>6. CASE TimerFires(s)
  <2>1. scan' = [scan EXCEPT ![s] = Refreshed(scan[s])]
    BY <1>6 DEF TimerFires
  <2>2. s = "deadlines" => DeadlinesSeen(Refreshed(scan[s]), waits, clock)
    BY <1>1, RefreshedSees
  <2>3. s = "health" => SilenceSeen(Refreshed(scan[s]), waits, execution, clock)
    BY <1>1, RefreshedSees DEF WatchInv, SilenceSeen, Health
  <2> QED BY <1>3, <2>1, <2>2, <2>3
<1> QED BY <1>4, <1>5, <1>6 DEF Scheduled

LEMMA DeadlinesSee == ASSUME ScanInv, WatchInv, Deadlines PROVE WatchInv'
<1> DEFINE d == scan["deadlines"]
<1>1. /\ clock \in Time /\ ScannerGood(d, clock) /\ DOMAIN d = DOMAIN Idle
      /\ "deadlines" \in Scanner /\ "health" \in Scanner
      /\ scan = [s \in Scanner |-> scan[s]]
      /\ waits \in [Token -> KeptWait \cup {None}]
  BY DEF ScanInv, Scanner, ScannerGood, Idle, WaitsGood
<1>2. CASE ExpireDue
  <2> DEFINE due == {t \in Token : Live(t) /\ d.now >= waits[t].expires}
             r == [d EXCEPT !.pc = "expired"]
             on == [scan EXCEPT !["deadlines"].pc = "expired"]
  <2>1. /\ d.pc = "begun"
        /\ waits' = [t \in Token |-> IF t \in due THEN [waits[t] EXCEPT !.state = "expired"]
                                     ELSE waits[t]]
        /\ scan' = [s \in Scanner |-> Told(on[s], due # {})]
        /\ UNCHANGED <<clock, execution>>
    BY <1>2 DEF ExpireDue
  <2> HIDE DEF due
  <2>2. on["deadlines"] = r /\ on["health"] = scan["health"]
        /\ on = [scan EXCEPT !["deadlines"] = r]
    BY <1>1
  <2>3. r.pc = "expired" /\ ScannerGood(r, clock)
    BY <1>1, <2>1 DEF ScannerGood
  <2> HIDE DEF r, on
  <2>4. CASE due # {}
    <3>1. \A s \in Scanner : ScannerGood(on[s], clock)
      BY <2>2, <2>3 DEF ScanInv, Scanner
    <3>2. on["health"].next \in Nat \cup {None}
      BY <2>2 DEF WatchInv, SilenceSeen, Health
    <3>3. scan' = [s \in Scanner |-> Told(on[s], TRUE)]
      BY <2>1, <2>4
    <3> QED BY <3>1, <3>2, <3>3, ToldSee
  <2>5. CASE due = {}
    <3>1. waits' = waits
      BY <1>1, <2>1, <2>5
    <3>2. scan' = [scan EXCEPT !["deadlines"] = r]
      BY <1>1, <2>1, <2>2, <2>5 DEF Told
    <3>3. DeadlinesSeen(r, waits, clock)
      BY <2>3 DEF DeadlinesSeen
    <3> QED BY <2>1, <3>1, <3>2, <3>3, DeadlinesMove
  <2> QED BY <2>4, <2>5
<1>3. CASE Look
  <2> DEFINE deadlines == {waits[t].expires : t \in {u \in Token : Live(u)}}
             next == IF deadlines = {} THEN None ELSE Min(deadlines)
             r == [d EXCEPT !.pc = "looked", !.next = next]
  <2>1. UNCHANGED <<clock, waits, execution>>
    BY <1>3 DEF Look
  <2>2. scan' = [scan EXCEPT !["deadlines"].pc = "looked", !["deadlines"].next = next]
    BY <1>3 DEF Look
  <2>3. ASSUME NEW t \in Token, LiveIn(waits, t) PROVE By(next, waits[t].expires)
    <3>1. waits[t].expires \in deadlines
      BY <2>3 DEF LiveIn, Live
    <3>2. deadlines \in SUBSET Nat
      BY <1>1 DEF Live, KeptWait
    <3> HIDE DEF deadlines
    <3>3. Min(deadlines) \in deadlines /\ Min(deadlines) <= waits[t].expires
      BY <3>1, <3>2, MinIs
    <3> QED BY <3>1, <3>2, <3>3 DEF By
  <2> HIDE DEF next
  <2>4. scan' = [scan EXCEPT !["deadlines"] = r]
    BY <1>1, <2>2
  <2>5. r.pc = "looked" /\ r.next = next
    BY <1>1 DEF Idle
  <2> HIDE DEF r
  <2>6. DeadlinesSeen(r, waits, clock)
    BY <2>3, <2>5 DEF DeadlinesSeen
  <2> QED BY <2>1, <2>4, <2>6, DeadlinesMove
<1>4. CASE ArmDeadline
  <2>1. /\ d.pc = "looked" /\ scan' = [scan EXCEPT !["deadlines"] = Arm(d)]
        /\ UNCHANGED <<clock, waits, execution>>
    BY <1>4 DEF ArmDeadline
  <2>2. CASE d.requested
    BY <1>1, <2>1, <2>2, StartSees, DeadlinesMove DEF Arm
  <2>3. CASE ~d.requested
    <3>1. \A t \in Token : LiveIn(waits, t) => By(d.next, waits[t].expires)
      BY <2>1, <2>3 DEF WatchInv, DeadlinesSeen
    <3>2. ASSUME NEW t \in Token, LiveIn(waits, t)
          PROVE  Arm(d).pc = "ending" /\ By(Arm(d).timer, Later(waits[t].expires, clock))
      <4>1. d.next \in Nat /\ d.next <= waits[t].expires
        BY <3>1, <3>2 DEF By
      <4>2. Arm(d).pc = "ending" /\ By(Arm(d).timer, Later(d.next, clock))
        BY <1>1, <2>3, <4>1, ArmTimer
      <4>3. waits[t].expires \in Nat /\ clock \in Int
        BY <1>1, <3>2, TimeIs DEF LiveIn, KeptWait
      <4> QED BY <4>1, <4>2, <4>3 DEF By, Later
    <3>3. Arm(d).pc = "ending"
      BY <1>1, <2>3 DEF Arm, Idle
    <3>4. DeadlinesSeen(Arm(d), waits, clock)
      BY <3>2, <3>3 DEF DeadlinesSeen, DeadlinesTimed
    <3> QED BY <2>1, <3>4, DeadlinesMove
  <2> QED BY <2>2, <2>3
<1> QED BY <1>1, <1>2, <1>3, <1>4, ScheduledSees DEF Deadlines

LEMMA ChecksSee == ASSUME ScanInv, WatchInv, Checks PROVE WatchInv'
<1> DEFINE h == scan["health"]
<1>1. /\ clock \in Time /\ ScannerGood(h, clock) /\ DOMAIN h = DOMAIN Idle
      /\ "deadlines" \in Scanner /\ "health" \in Scanner
      /\ scan = [s \in Scanner |-> scan[s]]
      /\ waits \in [Token -> KeptWait \cup {None}] /\ execution \in Reported
      /\ HealthGood(h, waits, clock) /\ SilenceSeen(h, waits, execution, clock)
  BY DEF ScanInv, Scanner, ScannerGood, Idle, WaitsGood, WatchInv, Health
<1>2. h.next \in Nat \cup {None}
  BY <1>1 DEF SilenceSeen
<1>3. CASE ReadHealth
  <2> DEFINE watched == {t \in Token : Live(t) /\ waits[t].watched}
             r == [h EXCEPT !.pc = "assessing", !.todo = watched, !.evidence = execution]
  <2>1. scan' = [scan EXCEPT !["health"] = r] /\ UNCHANGED <<clock, waits, execution>>
    BY <1>3 DEF ReadHealth, Health
  <2>2. \A t \in Token : WatchedIn(waits, t) => t \in watched
    BY DEF WatchedIn, LiveIn, Live
  <2> HIDE DEF watched
  <2>3. r.pc = "assessing" /\ r.todo = watched /\ r.evidence = execution /\ r.next = h.next
    BY <1>1 DEF Idle
  <2> HIDE DEF r
  <2>4. SilenceSeen(r, waits, execution, clock)
    BY <1>2, <2>2, <2>3 DEF SilenceSeen
  <2> QED BY <2>1, <2>4, HealthMoves
<1>4. CASE AfterProbe
  <2> DEFINE r == [h EXCEPT !.pc = "assessing", !.requested = TRUE]
  <2>1. scan' = [scan EXCEPT !["health"] = r] /\ UNCHANGED <<clock, waits, execution>>
    BY <1>4 DEF AfterProbe, Health
  <2>2. r.pc = "assessing" /\ r.requested /\ r.next = h.next
    BY <1>1 DEF Idle
  <2> HIDE DEF r
  <2>3. SilenceSeen(r, waits, execution, clock)
    BY <1>2, <2>2 DEF SilenceSeen
  <2> QED BY <2>1, <2>3, HealthMoves
<1>5. CASE ArmHealth
  <2> DEFINE s == [h EXCEPT !.evidence = None]
  <2>1. /\ h.pc = "assessing" /\ h.todo = {} /\ UNCHANGED <<clock, waits, execution>>
        /\ scan' = [scan EXCEPT !["health"] = Arm(s)]
    BY <1>5 DEF ArmHealth, Health
  <2>2. /\ ScannerGood(s, clock) /\ DOMAIN s = DOMAIN Idle
        /\ s.next = h.next /\ s.requested = h.requested
    BY <1>1 DEF ScannerGood, Idle
  <2> HIDE DEF s
  <2>3. CASE s.requested
    <3>1. SilenceSeen(Arm(s), waits, execution, clock)
      BY <2>2, <2>3, StartSees DEF Arm
    <3> QED BY <2>1, <3>1, HealthMoves
  <2>4. CASE ~s.requested
    <3>1. Arm(s).pc = "ending" /\ Arm(s).next = h.next
          /\ (h.next \in Nat => By(Arm(s).timer, Later(h.next, clock)))
      BY <1>1, <1>2, <2>2, <2>4, ArmTimer
    <3>2. ASSUME NEW t \in Token, WatchedIn(waits, t)
          PROVE  /\ execution.healthy
                 /\ \/ waits[t].expires <= DecideAt(waits[t], execution)
                    \/ By(Arm(s).timer, Later(DecideAt(waits[t], execution), clock))
      <4>1. Assured(h, waits[t], execution)
        BY <1>1, <2>1, <2>2, <2>4, <3>2 DEF SilenceSeen
      <4>2. ASSUME By(h.next, DecideAt(waits[t], execution))
            PROVE  By(Arm(s).timer, Later(DecideAt(waits[t], execution), clock))
        <5>1. DecideAt(waits[t], execution) \in Nat /\ clock \in Int
          BY <1>1, <3>2, DecideIs, TimeIs DEF WatchedIn, LiveIn
        <5>2. h.next \in Nat /\ h.next <= DecideAt(waits[t], execution)
          BY <4>2 DEF By
        <5> QED BY <3>1, <5>1, <5>2 DEF By, Later
      <4> QED BY <4>1, <4>2 DEF Assured
    <3>3. SilenceSeen(Arm(s), waits, execution, clock)
      BY <1>2, <3>1, <3>2 DEF SilenceSeen, SilenceTimed
    <3> QED BY <2>1, <3>3, HealthMoves
  <2> QED BY <2>3, <2>4
<1>6. ASSUME NEW t \in Token, Ask(t) PROVE WatchInv'
  <2> DEFINE r == [h EXCEPT !.pc = "probing", !.todo = h.todo \ {t}]
  <2>1. scan' = [scan EXCEPT !["health"] = r] /\ UNCHANGED <<clock, waits, execution>>
    BY <1>6 DEF Ask, Health
  <2>2. r.pc = "probing" /\ r.next = h.next
    BY <1>1 DEF Idle
  <2> HIDE DEF r
  <2>3. SilenceSeen(r, waits, execution, clock)
    BY <1>2, <2>2 DEF SilenceSeen
  <2> QED BY <2>1, <2>3, HealthMoves
<1>7. ASSUME NEW t \in Token, Assess(t) PROVE WatchInv'
  <2> DEFINE at == Now(waits[t])
             check == NextCheck(waits[t], h.evidence, at)
             next == IF check < waits[t].expires THEN Sooner(h.next, check) ELSE h.next
             item == [token |-> t, at |-> at]
             q == [h EXCEPT !.todo = h.todo \ {t}, !.next = next]
             r == [h EXCEPT !.pc = "deciding", !.todo = h.todo \ {t}, !.item = item]
             verdict == Verdict(waits[t], h.evidence, at)
  <2>1. /\ h.pc = "assessing" /\ t \in h.todo /\ UNCHANGED <<clock, waits, execution>>
        /\ scan' = [scan EXCEPT !["health"] = IF verdict = "healthy" THEN q ELSE r]
    BY <1>7 DEF Assess, Health
  <2>2. waits[t] \in KeptWait /\ h.evidence \in Reported
    BY <1>1, <2>1 DEF HealthGood
  <2>3. at \in Nat
    <3>1. waits[t].created \in Nat /\ h.now \in Nat
      BY <1>1, <2>2, ScanAssumption DEF KeptWait, ScannerGood, Time
    <3> QED BY <3>1 DEF Now, Later, Health
  <2> HIDE DEF at
  <2>4. check \in Nat /\ check <= DecideAt(waits[t], h.evidence)
    <3>1. /\ StaleAt(waits[t], h.evidence) \in Nat /\ DecideAt(waits[t], h.evidence) \in Nat
          /\ StaleAt(waits[t], h.evidence) <= DecideAt(waits[t], h.evidence)
      BY <2>2, DecideIs
    <3>2. at + Cadence \in Nat
      BY <2>3, ScanAssumption
    <3>3. Min({StaleAt(waits[t], h.evidence), at + Cadence}) \in Nat
          /\ Min({StaleAt(waits[t], h.evidence), at + Cadence}) <= StaleAt(waits[t], h.evidence)
      BY <3>1, <3>2, MinIs
    <3> QED BY <3>1, <3>3 DEF NextCheck
  <2> HIDE DEF check, item
  <2>5. waits[t].expires \in Nat
    BY <2>2 DEF KeptWait
  <2>6. /\ next \in Nat \cup {None}
        /\ h.next \in Nat => next \in Nat /\ next <= h.next
        /\ check < waits[t].expires => next \in Nat /\ next <= check
    BY <1>2, <2>4, <2>5, ScanAssumption DEF Sooner
  <2> HIDE DEF next
  <2>7. CASE verdict = "healthy"
    <3>1. q.pc = "assessing" /\ q.todo = h.todo \ {t} /\ q.evidence = h.evidence
          /\ q.next = next /\ q.requested = h.requested
      BY <1>1, <2>1 DEF Idle
    <3> HIDE DEF q
    <3>2. ASSUME ~h.requested
          PROVE  /\ h.evidence = execution
                 /\ \A u \in Token : WatchedIn(waits, u) =>
                       u \in h.todo \ {t} \/ Assured(q, waits[u], execution)
      <4>1. /\ h.evidence = execution
            /\ \A u \in Token : WatchedIn(waits, u) => u \in h.todo \/ Assured(h, waits[u], execution)
        BY <1>1, <2>1, <3>2 DEF SilenceSeen
      <4>2. Assured(q, waits[t], execution)
        <5>1. execution.healthy
          BY <2>7, <4>1 DEF Verdict
        <5>2. CASE check < waits[t].expires
          <6>1. DecideAt(waits[t], execution) \in Nat
            BY <2>2, <4>1, DecideIs
          <6> QED BY <2>4, <2>6, <3>1, <4>1, <5>1, <5>2, <6>1 DEF Assured, By
        <5>3. CASE ~(check < waits[t].expires)
          <6>1. DecideAt(waits[t], execution) \in Nat
            BY <2>2, <4>1, DecideIs
          <6> QED BY <2>4, <2>5, <4>1, <5>1, <5>3, <6>1 DEF Assured
        <5> QED BY <5>2, <5>3
      <4>3. ASSUME NEW u \in Token, WatchedIn(waits, u), Assured(h, waits[u], execution)
            PROVE  Assured(q, waits[u], execution)
        <5>1. DecideAt(waits[u], execution) \in Nat
          BY <1>1, <4>3, DecideIs DEF WatchedIn, LiveIn
        <5> QED BY <2>6, <3>1, <4>3, <5>1 DEF Assured, By
      <4> QED BY <4>1, <4>2, <4>3
    <3>3. SilenceSeen(q, waits, execution, clock)
      BY <2>6, <3>1, <3>2 DEF SilenceSeen
    <3> QED BY <2>1, <2>7, <3>3, HealthMoves
  <2>8. CASE verdict # "healthy"
    <3>1. r.pc = "deciding" /\ r.next = h.next
      BY <1>1 DEF Idle
    <3> HIDE DEF r
    <3>2. SilenceSeen(r, waits, execution, clock)
      BY <1>2, <3>1 DEF SilenceSeen
    <3> QED BY <2>1, <2>8, <3>2, HealthMoves
  <2> QED BY <2>7, <2>8
<1>8. CASE Decide
  <2> DEFINE t == h.item.token
             decided == Live(t) /\ Unchanged
             r == [h EXCEPT !.pc = "assessing", !.requested = TRUE, !.item = None]
             on == [scan EXCEPT !["health"] = r]
  <2>1. /\ h.pc = "deciding" /\ UNCHANGED <<clock, execution>>
        /\ ~decided => waits' = waits
        /\ scan' = [s \in Scanner |-> Told(on[s], decided)]
    BY <1>8 DEF Decide, Health
  <2>2. r.pc = "assessing" /\ r.requested /\ r.next = h.next /\ ScannerGood(r, clock)
    BY <1>1, <2>1 DEF Idle, ScannerGood
  <2>3. on["health"] = r /\ on["deadlines"] = scan["deadlines"]
    BY <1>1
  <2>4. decided \in BOOLEAN
    BY DEF Live, Unchanged
  <2> HIDE DEF r, decided
  <2>5. CASE decided
    <3> HIDE DEF on
    <3>1. \A s \in Scanner : ScannerGood(on[s], clock)
      BY <2>2, <2>3 DEF ScanInv, Scanner
    <3>2. scan' = [s \in Scanner |-> Told(on[s], TRUE)]
      BY <2>1, <2>5
    <3>3. on["health"].next \in Nat \cup {None}
      BY <1>2, <2>2, <2>3
    <3> QED BY <3>1, <3>2, <3>3, ToldSee
  <2>6. CASE ~decided
    <3>1. scan' = [scan EXCEPT !["health"] = r]
      BY <1>1, <2>1, <2>4, <2>6 DEF Told
    <3>2. SilenceSeen(r, waits, execution, clock)
      BY <1>2, <2>2 DEF SilenceSeen
    <3> QED BY <2>1, <2>6, <3>1, <3>2, HealthMoves
  <2> QED BY <2>5, <2>6
<1> QED BY <1>1, <1>3, <1>4, <1>5, <1>6, <1>7, <1>8, ScheduledSees DEF Checks

LEMMA TickSees == ASSUME ScanInv, WatchInv, Tick PROVE WatchInv'
<1>1. clock' = clock + 1 /\ UNCHANGED <<waits, execution, scan>>
  BY DEF Tick
<1>2. clock \in Int /\ clock' \in Int /\ clock <= clock'
  BY <1>1, TimeIs DEF ScanInv
<1>3. DeadlinesSeen(scan["deadlines"], waits, clock')
  BY <1>2, TimedLater DEF ScanInv, WatchInv, DeadlinesSeen
<1>4. SilenceSeen(Health, waits, execution, clock')
  BY <1>2, TimedLater DEF ScanInv, WatchInv, SilenceSeen
<1> QED BY <1>1, <1>3, <1>4 DEF WatchInv, Health

LEMMA ChangesSee == ASSUME ScanInv, WatchInv, Changes PROVE WatchInv'
<1>1. Restart \/ Notify
  BY DEF Changes, EndWait, Declare, Report
<1>2. CASE Restart
  <2>1. scan'["deadlines"] = Start(Idle) /\ scan'["health"] = Start(Idle)
    BY <1>2 DEF Restart, Scanner
  <2>2. DeadlinesSeen(Start(Idle), waits', clock') /\ SilenceSeen(Start(Idle), waits', execution', clock')
    BY StartSees
  <2> QED BY <2>1, <2>2 DEF WatchInv, Health
<1> QED BY <1>1, <1>2, NotifySees

LEMMA StepWatch == ScanInv /\ WatchInv /\ [Next]_vars => WatchInv'
<1> SUFFICES ASSUME ScanInv, WatchInv, [Next]_vars PROVE WatchInv'
  OBVIOUS
<1>1. CASE UNCHANGED vars
  BY <1>1 DEF vars, WatchInv, Health
<1> QED BY <1>1, TickSees, ChangesSee, DeadlinesSee, ChecksSee DEF Next

\* A scanner never rests while a wait has nobody who will look at it in time
\* (FlowWaitDeadlines.refresh, FlowWaitHealthMonitor.scan): with a clock that
\* advances and timers that fire this is why deadlines and silence are noticed.
THEOREM NoWaitUnwatched == Spec => []WatchKept
<1>1. Init => ScanInv /\ WatchInv
  BY InitScanInv, InitWatch
<1>2. ScanInv /\ WatchInv /\ [Next]_vars => (ScanInv /\ WatchInv)'
  BY StepScanInv, StepWatch
<1>3. WatchInv => WatchKept
  BY WatchInvKept
<1> QED BY <1>1, <1>2, <1>3, PTL DEF Spec

=============================================================================
