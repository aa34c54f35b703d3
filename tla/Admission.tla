----------------------------- MODULE Admission -----------------------------
(***************************************************************************)
(* The admission policy (admission.ts) and the boundary of the controller  *)
(* that uses it (controller.ts): which one of the intents offered by the   *)
(* producers starts the next automatic turn.  Alerts come first, then wait *)
(* decisions, then work with a cadence for loops, then results; within a   *)
(* rank the producers take rounds.  A choice is only a proposal: the       *)
(* policy state advances when a request is known to carry the chosen       *)
(* intent (ReceiptLedger!Prepare), possibly long after the choice.         *)
(*                                                                         *)
(* Left out: the policy's revision (ReceiptLedger!Validates shows that it  *)
(* cannot change under an open choice), what is built for an intent,       *)
(* and the batches in which results travel: a result here is one intent.   *)
(***************************************************************************)
EXTENDS Integers, Sequences, FiniteSets

CONSTANTS
    Intent,        \* the intents producers may offer
    Producer,      \* producer namespaces
    WorkId,        \* work identities
    RankOf,        \* 2 alert, 3 wait decision, 4 work, 5 cadence work, 6 result
    ProducerOf,    \* the producer that offers an intent
    SequenceOf,    \* its place among all intents (ties are broken by identity)
    WorkIdOf,      \* the work it continues, or Nil
    Independent,   \* intents that may run while other work waits
    Pairs,         \* history: the pairs of producers of a rank that are watched
    CadenceLimit,  \* rank-4 turns that may precede a cadence turn, 4 in the code
    Nil

Rank == 2..6
WorkRank == {4, 5}

ASSUME AdmissionAssumption ==
    /\ IsFiniteSet(Intent)
    /\ RankOf \in [Intent -> Rank]
    /\ ProducerOf \in [Intent -> Producer]
    /\ SequenceOf \in [Intent -> Nat]
    /\ \A i, j \in Intent : SequenceOf[i] = SequenceOf[j] => i = j
    /\ WorkIdOf \in [Intent -> WorkId \cup {Nil}]
    /\ Independent \subseteq Intent
    /\ Pairs \subseteq [rank : {2, 4, 5}, producer : Producer, rival : Producer]
    /\ \A pair \in Pairs : pair.producer # pair.rival
    /\ CadenceLimit \in Nat
    /\ Nil \notin WorkId \cup Intent

VARIABLES
    offered,    \* runnable intents the receipts do not fence
    waits,      \* work that waits for something (waitingWorkIds)
    stopped,    \* work that is inactive or retired
    held,       \* a gate is closed: host, user input, recovery or pause
    debt,       \* cadenceDebt
    rounds,     \* per rank, the producers still to be served this round
    proposal,   \* the choice of the open attempt, or Nil
    watch,      \* history: producer watched, its rank, and a rival
    passed,     \* history: turns of the rival while the watched one waited
    overtaken   \* history: rank-4 turns while cadence work waited

world   == <<offered, waits, stopped, held>>
policy  == <<debt, rounds>>
history == <<watch, passed, overtaken>>
admissionVars == <<world, policy, proposal, history>>

-----------------------------------------------------------------------------
(* Eligibility *)

Eligible(i) ==
    /\ i \in offered
    /\ RankOf[i] = 6 => waits = {}
    /\ RankOf[i] \in WorkRank =>
         /\ WorkIdOf[i] \notin stopped \cup waits
         /\ waits = {} \/ i \in Independent

Precedes(i, j) ==
    \/ RankOf[i] < RankOf[j]
    \/ RankOf[i] = RankOf[j] /\ SequenceOf[i] < SequenceOf[j]

SameTurn(i, j) ==    \* two drivers of one work revision
    RankOf[i] \in WorkRank /\ RankOf[j] \in WorkRank /\ WorkIdOf[i] # Nil /\ WorkIdOf[i] = WorkIdOf[j]

\* Eligible intents of a set of ranks, one for each work revision.
Unique(ranks) ==
    {i \in Intent :
       /\ Eligible(i) /\ RankOf[i] \in ranks
       /\ \A j \in Intent : Eligible(j) /\ SameTurn(i, j) => ~Precedes(j, i)}

OfRank(ranks, r) == {i \in Unique(ranks) : RankOf[i] = r}
Producers(intents) == {ProducerOf[i] : i \in intents}

Earliest(intents, p) ==
    CHOOSE i \in intents :
      /\ ProducerOf[i] = p
      /\ \A j \in intents : ProducerOf[j] = p => SequenceOf[i] <= SequenceOf[j]

\* The elements of a finite set in the order of their keys.
Ordered(S, key) ==
    [n \in 1..Cardinality(S) |->
       CHOOSE x \in S : Cardinality({y \in S : key[y] < key[x]}) = n - 1]

\* Producers in the order of their first intents.
InOrder(intents) ==
    LET P == Producers(intents)
    IN  Ordered(P, [p \in P |-> SequenceOf[Earliest(intents, p)]])

\* What of a round is in a set, in the order of the round.
Kept(round, P) ==
    LET places == {n \in DOMAIN round : round[n] \in P}
        order  == Ordered(places, [n \in places |-> n])
    IN  [n \in DOMAIN order |-> round[order[n]]]

-----------------------------------------------------------------------------
(* chooseFlowIntent *)

\* Bug: a producer that left keeps its place.
Refreshed_Stale(ranks) ==
    [r \in Rank |->
       IF rounds[r] = <<>> THEN InOrder(OfRank(ranks, r)) ELSE rounds[r]]

\* Rounds keep the producers that still have a candidate; a round that is
\* over starts again with all of them.
Refreshed(ranks) ==
    [r \in Rank |->
       LET kept == Kept(rounds[r], Producers(OfRank(ranks, r)))
       IN  IF kept = <<>> THEN InOrder(OfRank(ranks, r)) ELSE kept]

\* Bug: one more turn of other work comes first.
Outranks_OffByOne(h, r) ==
    IF {h, r} = WorkRank /\ debt > CadenceLimit THEN h > r ELSE h < r

Outranks(h, r) ==
    IF {h, r} = WorkRank /\ debt >= CadenceLimit THEN h > r ELSE h < r

Turn(round, r) ==
    /\ round[r] # <<>>
    /\ \A h \in Rank : round[h] # <<>> => ~Outranks(h, r)

DebtAfter(round, r) ==
    IF r = 5 THEN 0
    ELSE IF r = 4 /\ round[5] # <<>> THEN debt + 1
    ELSE debt

\* The choice among the intents of some ranks, or Nil.
Chosen(ranks) ==
    LET round == Refreshed(ranks)
        turns == {r \in Rank : Turn(round, r)}
    IN  IF held \/ turns = {} THEN Nil
        ELSE LET r == CHOOSE r \in turns : TRUE
             IN  [intent |-> Earliest(OfRank(ranks, r), Head(round[r])),
                  debt   |-> DebtAfter(round, r),
                  rounds |-> [round EXCEPT ![r] = Tail(@)]]

-----------------------------------------------------------------------------
(* The boundary: choose, build, and later include or give up *)

\* Wait decisions that ride along with the chosen turn, as far as they fit.
Riders(choice) == {i \in offered : RankOf[i] = 3 /\ i # choice.intent}

\* Bug: the decision is left behind when work is charged.
Members_WorkOnly(trigger, choice) == {choice.intent}

Members(trigger, choice) == {choice.intent, trigger.intent}

\* A wait decision keeps its precedence while the fairness of the turn is
\* charged to eligible work, if there is any.
Choose ==
    LET trigger == Chosen(Rank)
        work    == Chosen(WorkRank)
        choice  == IF RankOf[trigger.intent] = 3 /\ work # Nil THEN work ELSE trigger
    IN  /\ proposal = Nil /\ trigger # Nil
        /\ \E riders \in SUBSET Riders(choice) :
             proposal' = [choice  |-> choice,
                          members |-> Members(trigger, choice) \cup riders]
        /\ UNCHANGED <<world, policy, history>>

\* Watching: a candidate that the policy sees now, and how it is passed by.
Waiting(r, p) == p \in Producers(OfRank(Rank, r))

\* What the histories record of a turn of intent i, or of a step without one.
Watched(i) ==
    /\ UNCHANGED watch
    /\ passed' = IF ~Waiting(watch.rank, watch.producer)' THEN 0
                 ELSE IF i = Nil \/ RankOf[i] # watch.rank THEN passed
                 ELSE IF ProducerOf[i] = watch.producer THEN 0
                 ELSE passed + (IF ProducerOf[i] = watch.rival THEN 1 ELSE 0)
    /\ overtaken' = IF OfRank(Rank, 5)' = {} \/ (i # Nil /\ RankOf[i] = 5) THEN 0
                    ELSE overtaken + (IF i # Nil /\ RankOf[i] = 4 THEN 1 ELSE 0)

\* A request carries the intent: the policy is charged, the turn is consumed.
Include ==
    /\ proposal # Nil
    /\ debt' = proposal.choice.debt
    /\ rounds' = proposal.choice.rounds
    /\ offered' = {i \in offered : \A m \in proposal.members : i # m /\ ~SameTurn(i, m)}
    /\ proposal' = Nil
    /\ UNCHANGED <<waits, stopped, held>>
    /\ Watched(proposal.choice.intent)

\* The attempt ended without such a request: the policy stays as it was.
GiveUp ==
    /\ proposal # Nil
    /\ proposal' = Nil
    /\ UNCHANGED <<world, policy, history>>

-----------------------------------------------------------------------------
(* Producers, waits, work and gates change on their own *)

Changes(o, w, s, h) ==
    /\ offered' = o /\ waits' = w /\ stopped' = s /\ held' = h
    /\ UNCHANGED <<policy, proposal>>
    /\ Watched(Nil)

Offer(i)     == i \notin offered /\ Changes(offered \cup {i}, waits, stopped, held)
Withdraw(i)  == i \in offered /\ Changes(offered \ {i}, waits, stopped, held)
Suspend(w)   == w \notin waits /\ Changes(offered, waits \cup {w}, stopped, held)
Wake(w)      == w \in waits /\ Changes(offered, waits \ {w}, stopped, held)
Stop(w)      == w \notin stopped /\ Changes(offered, waits, stopped \cup {w}, held)
Resume(w)    == w \in stopped /\ Changes(offered, waits, stopped \ {w}, held)
Gate         == Changes(offered, waits, stopped, ~held)

AdmissionInit ==
    /\ offered = {} /\ waits = {} /\ stopped = {} /\ held = FALSE
    /\ debt = 0
    /\ rounds = [r \in Rank |-> <<>>]
    /\ proposal = Nil
    /\ watch \in Pairs
    /\ passed = 0 /\ overtaken = 0

AdmissionNext ==
    \/ Choose \/ Include \/ GiveUp
    \/ \E i \in Intent : Offer(i) \/ Withdraw(i)
    \/ \E w \in WorkId : Suspend(w) \/ Wake(w) \/ Stop(w) \/ Resume(w)
    \/ Gate

AdmissionSpec == AdmissionInit /\ [][AdmissionNext]_admissionVars

-----------------------------------------------------------------------------
(* Properties *)

NoRepeats(s) == \A m, n \in DOMAIN s : s[m] = s[n] => m = n

\* The variables keep their types, and the policy state passes
\* validateFlowAdmission: the debt is bounded and no producer is twice in a
\* round.
AdmissionTypeOK ==
    /\ watch \in Pairs /\ passed \in Nat /\ overtaken \in Nat
    /\ offered \subseteq Intent /\ waits \subseteq WorkId /\ stopped \subseteq WorkId
    /\ held \in BOOLEAN
    /\ debt \in 0..CadenceLimit
    /\ rounds \in [Rank -> Seq(Producer)]
    /\ \A r \in Rank : NoRepeats(rounds[r])
    /\ proposal # Nil =>
         /\ proposal.choice.intent \in proposal.members
         /\ proposal.members \subseteq Intent
         /\ proposal.choice.debt \in 0..CadenceLimit
         /\ proposal.choice.rounds \in [Rank -> Seq(Producer)]
         /\ \A r \in Rank : NoRepeats(proposal.choice.rounds[r])

\* Whatever is offered, withdrawn or given up: while a producer of a rank keeps
\* a candidate, another producer of that rank gets at most two turns before it,
\* one left over from the round under way and one in the next; and while cadence
\* work keeps a candidate, at most CadenceLimit turns of other work precede it,
\* and one more that was chosen before the candidate appeared.
FairTurns == passed <= 2 /\ overtaken <= CadenceLimit + 1

\* "Admission round lost its eligible intent" cannot happen: whoever heads a
\* refreshed round has a candidate, also when it left and came back, or when
\* its work is driven by another producer's intent.
NoLostIntent ==
    /\ AdmissionTypeOK
    /\ \A ranks \in {Rank, WorkRank} : \A r \in Rank :
         LET round == Refreshed(ranks)[r]
         IN  round # <<>> => Head(round) \in Producers(OfRank(ranks, r))

\* A wait decision is part of every turn that starts while one is offered and
\* no alert is, also when the fairness of the turn is charged to work.
DecisionDelivered ==
    [][proposal = Nil /\ proposal' # Nil =>
         \/ \E i \in offered : RankOf[i] = 2
         \/ \A i \in offered : RankOf[i] # 3
         \/ \E i \in proposal'.members : RankOf[i] = 3]_admissionVars

=============================================================================
