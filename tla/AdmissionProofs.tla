--------------------------- MODULE AdmissionProofs ---------------------------
(***************************************************************************)
(* Proofs about the admission policy, for any intents, producers and work: *)
(* turns are shared, whoever heads a round has an intent, and decisions    *)
(* are delivered.                                                          *)
(*                                                                         *)
(* The inductive invariant adds to the types that a producer is out of the *)
(* round in which it was chosen (Served), how many turns the watched       *)
(* producer's rival can still get before it (Ahead, Shared), and that the  *)
(* debt counts the turns that overtook cadence work (Counted).             *)
(***************************************************************************)
EXTENDS Admission, FiniteSetTheorems, TLAPS

-----------------------------------------------------------------------------
(* Elements in the order of their keys *)

Below(S, key, x) == {y \in S : key[y] < key[x]}

\* How many elements are below one tells the elements apart, and takes every
\* value up to the size of the set.
LEMMA PlacesAre ==
  ASSUME NEW S, IsFiniteSet(S), NEW key \in [S -> Int],
         \A x, y \in S : key[x] = key[y] => x = y
  PROVE  /\ Cardinality(S) \in Nat
         /\ \A x, y \in S : key[x] < key[y] =>
               Cardinality(Below(S, key, x)) < Cardinality(Below(S, key, y))
         /\ \A n \in 1..Cardinality(S) : \E x \in S : Cardinality(Below(S, key, x)) = n - 1
<1> DEFINE N == Cardinality(S)
           B(x) == Below(S, key, x)
           place == [x \in S |-> Cardinality(B(x)) + 1]
<1>1. N \in Nat
  BY FS_CardinalityType
<1>2. ASSUME NEW x \in S
      PROVE  IsFiniteSet(B(x)) /\ Cardinality(B(x)) \in Nat /\ Cardinality(B(x)) < N
  <2>1. B(x) \in SUBSET S /\ x \notin B(x)
    BY DEF Below
  <2>2. IsFiniteSet(B(x)) /\ Cardinality(B(x)) <= N /\ Cardinality(B(x)) # N
    BY <2>1, <1>2, FS_Subset
  <2> QED BY <1>1, <2>2, FS_CardinalityType
<1>3. ASSUME NEW x \in S, NEW y \in S, key[x] < key[y]
      PROVE  Cardinality(B(x)) < Cardinality(B(y))
  <2>1. B(x) \in SUBSET B(y) /\ x \in B(y) /\ x \notin B(x)
    BY <1>3 DEF Below
  <2>2. IsFiniteSet(B(y)) /\ Cardinality(B(x)) \in Nat /\ Cardinality(B(y)) \in Nat
    BY <1>2
  <2>3. Cardinality(B(x)) <= Cardinality(B(y)) /\ Cardinality(B(x)) # Cardinality(B(y))
    BY <2>1, <2>2, FS_Subset
  <2> QED BY <2>2, <2>3
<1>4. place \in Injection(S, 1..N)
  <2>1. place \in [S -> 1..N]
    BY <1>1, <1>2
  <2>2. ASSUME NEW x \in S, NEW y \in S, place[x] = place[y] PROVE x = y
    <3>1. ~(key[x] < key[y]) /\ ~(key[y] < key[x])
      BY <1>2, <1>3, <2>2
    <3> QED BY <3>1
  <2> HIDE DEF place
  <2> QED BY <2>1, <2>2 DEF Injection, IsInjective
<1>5. IsFiniteSet(1..N) /\ Cardinality(1..N) = N
  <2>1. 1 \in Int /\ N \in Int
    BY <1>1
  <2> QED BY <1>1, <2>1, FS_Interval
<1>6. place \in Surjection(S, 1..N)
  BY <1>4, <1>5, FS_Injection
<1>7. ASSUME NEW n \in 1..N PROVE \E x \in S : Cardinality(B(x)) = n - 1
  <2>1. PICK x \in S : place[x] = n
    BY <1>6 DEF Surjection
  <2> QED BY <1>1, <1>2, <2>1
<1> QED BY <1>1, <1>3, <1>7

\* A finite set can be put in order, and all of it is.
LEMMA OrderedIs ==
  ASSUME NEW S, IsFiniteSet(S), NEW key \in [S -> Int],
         \A x, y \in S : key[x] = key[y] => x = y
  PROVE  /\ Cardinality(S) \in Nat
         /\ Ordered(S, key) \in [1..Cardinality(S) -> S]
         /\ \A m, n \in 1..Cardinality(S) :
               m < n => key[Ordered(S, key)[m]] < key[Ordered(S, key)[n]]
         /\ \A x \in S : \E n \in 1..Cardinality(S) : Ordered(S, key)[n] = x
<1> DEFINE N == Cardinality(S)
           o == Ordered(S, key)
<1>1. /\ N \in Nat
      /\ \A x, y \in S : key[x] < key[y] =>
            Cardinality(Below(S, key, x)) < Cardinality(Below(S, key, y))
      /\ \A n \in 1..N : \E x \in S : Cardinality(Below(S, key, x)) = n - 1
  BY PlacesAre
<1>2. \A n \in 1..N : o[n] \in S /\ Cardinality(Below(S, key, o[n])) = n - 1
  <2> SUFFICES ASSUME NEW n \in 1..N
               PROVE  o[n] \in S /\ Cardinality(Below(S, key, o[n])) = n - 1
    OBVIOUS
  <2>1. o[n] = CHOOSE x \in S : Cardinality(Below(S, key, x)) = n - 1
    BY DEF Ordered, Below
  <2>2. \E x \in S : Cardinality(Below(S, key, x)) = n - 1
    BY <1>1
  <2> QED BY <2>1, <2>2
<1>3. o \in [1..N -> S]
  BY <1>2 DEF Ordered
<1>4. ASSUME NEW m \in 1..N, NEW n \in 1..N, m < n PROVE key[o[m]] < key[o[n]]
  <2>1. o[m] \in S /\ o[n] \in S /\ key[o[m]] \in Int /\ key[o[n]] \in Int
    BY <1>3
  <2>2. key[o[n]] < key[o[m]] => n - 1 < m - 1
    BY <1>1, <1>2, <2>1
  <2>3. key[o[n]] = key[o[m]] => n - 1 = m - 1
    BY <1>2, <2>1
  <2> QED BY <1>1, <1>4, <2>1, <2>2, <2>3
<1>5. ASSUME NEW x \in S PROVE \E n \in 1..N : o[n] = x
  <2> DEFINE B == Below(S, key, x)
  <2>1. B \in SUBSET S /\ x \notin B
    BY DEF Below
  <2>2. IsFiniteSet(B) /\ Cardinality(B) <= N /\ Cardinality(B) # N
    BY <2>1, FS_Subset
  <2>3. Cardinality(B) \in Nat
    BY <2>2, FS_CardinalityType
  <2> DEFINE n == Cardinality(B) + 1
  <2>4. n \in 1..N /\ n - 1 = Cardinality(B)
    BY <1>1, <2>2, <2>3
  <2>5. o[n] \in S /\ Cardinality(Below(S, key, o[n])) = Cardinality(B)
    BY <1>2, <2>4
  <2>6. ~(key[o[n]] < key[x]) /\ ~(key[x] < key[o[n]])
    BY <1>1, <2>3, <2>5
  <2>7. key[o[n]] \in Int /\ key[x] \in Int
    BY <2>5
  <2>8. o[n] = x
    BY <2>5, <2>6, <2>7
  <2> QED BY <2>4, <2>8
<1> QED BY <1>1, <1>3, <1>4, <1>5

-----------------------------------------------------------------------------
(* Rounds *)

Among(s, x) == \E n \in DOMAIN s : s[n] = x
Before(s, x, y) == \E m, n \in DOMAIN s : m < n /\ s[m] = x /\ s[n] = y

\* What is kept of a round is what is in the set, in the order of the round.
LEMMA KeptIs ==
  ASSUME NEW s \in Seq(Producer), NoRepeats(s), NEW P
  PROVE  /\ Kept(s, P) \in Seq(Producer) /\ NoRepeats(Kept(s, P))
         /\ \A x : Among(Kept(s, P), x) <=> Among(s, x) /\ x \in P
         /\ \A x, y \in P : Before(Kept(s, P), x, y) <=> Before(s, x, y)
<1> DEFINE places == {n \in DOMAIN s : s[n] \in P}
           key == [n \in places |-> n]
           order == Ordered(places, key)
           N == Cardinality(places)
           k == Kept(s, P)
<1>1. DOMAIN s = 1..Len(s) /\ Len(s) \in Nat /\ \A n \in DOMAIN s : s[n] \in Producer
  OBVIOUS
<1>2. IsFiniteSet(places)
  <2>1. IsFiniteSet(1..Len(s))
    <3>1. 1 \in Int /\ Len(s) \in Int
      OBVIOUS
    <3> QED BY <3>1, FS_Interval
  <2>2. places \in SUBSET (1..Len(s))
    BY <1>1
  <2> QED BY <2>1, <2>2, FS_Subset
<1>3. key \in [places -> Int] /\ \A x, y \in places : key[x] = key[y] => x = y
  BY <1>1
<1>4. /\ N \in Nat /\ order \in [1..N -> places]
      /\ \A m, n \in 1..N : m < n => key[order[m]] < key[order[n]]
      /\ \A x \in places : \E n \in 1..N : order[n] = x
  <2> HIDE DEF places, key
  <2> QED BY <1>2, <1>3, OrderedIs
<1>5. k = [n \in 1..N |-> s[order[n]]]
  BY <1>4 DEF Kept
<1> HIDE DEF order, N, k
<1>6. \A n \in 1..N : order[n] \in DOMAIN s /\ k[n] = s[order[n]] /\ k[n] \in P /\ k[n] \in Producer
  BY <1>1, <1>4, <1>5
<1>7. \A m, n \in 1..N : m < n => order[m] < order[n]
  BY <1>4
<1>8. DOMAIN k = 1..N /\ k \in Seq(Producer)
  <2>1. k \in [1..N -> Producer]
    BY <1>5, <1>6
  <2> QED BY <1>4, <2>1
<1>9. NoRepeats(k)
  <2> SUFFICES ASSUME NEW m \in 1..N, NEW n \in 1..N, k[m] = k[n], m < n PROVE FALSE
    BY <1>4, <1>8 DEF NoRepeats
  <2>1. order[m] = order[n]
    BY <1>6 DEF NoRepeats
  <2> QED BY <1>1, <1>6, <1>7, <2>1
<1>10. ASSUME NEW x PROVE Among(k, x) <=> Among(s, x) /\ x \in P
  <2>1. Among(k, x) => Among(s, x) /\ x \in P
    BY <1>6, <1>8 DEF Among
  <2>2. ASSUME Among(s, x), x \in P PROVE Among(k, x)
    <3>1. PICK m \in DOMAIN s : s[m] = x
      BY <2>2 DEF Among
    <3>2. PICK n \in 1..N : order[n] = m
      BY <1>4, <2>2, <3>1
    <3> QED BY <1>6, <1>8, <3>1, <3>2 DEF Among
  <2> QED BY <2>1, <2>2
<1>11. ASSUME NEW x \in P, NEW y \in P PROVE Before(k, x, y) <=> Before(s, x, y)
  <2>1. ASSUME Before(k, x, y) PROVE Before(s, x, y)
    <3>1. PICK m \in 1..N, n \in 1..N : m < n /\ k[m] = x /\ k[n] = y
      BY <1>8, <2>1 DEF Before
    <3> QED BY <1>6, <1>7, <3>1 DEF Before
  <2>2. ASSUME Before(s, x, y) PROVE Before(k, x, y)
    <3>1. PICK m \in DOMAIN s, n \in DOMAIN s : m < n /\ s[m] = x /\ s[n] = y
      BY <2>2 DEF Before
    <3>2. PICK i \in 1..N : order[i] = m
      BY <1>4, <3>1
    <3>3. PICK j \in 1..N : order[j] = n
      BY <1>4, <3>1
    <3>4. i < j
      BY <1>1, <1>4, <1>7, <3>1, <3>2, <3>3
    <3> QED BY <1>6, <1>8, <3>1, <3>2, <3>3, <3>4 DEF Before
  <2> QED BY <2>1, <2>2
<1> QED BY <1>8, <1>9, <1>10, <1>11 DEF k

\* A producer of some intents has an earliest one.
LEMMA EarliestIs ==
  ASSUME NEW intents \in SUBSET Intent, NEW p \in Producers(intents)
  PROVE  Earliest(intents, p) \in intents /\ ProducerOf[Earliest(intents, p)] = p
<1> DEFINE mine == {i \in intents : ProducerOf[i] = p}
           key == [i \in mine |-> SequenceOf[i]]
           N == Cardinality(mine)
<1>1. mine \in SUBSET Intent /\ mine # {}
  BY DEF Producers
<1>2. IsFiniteSet(mine)
  BY <1>1, AdmissionAssumption, FS_Subset
<1>3. key \in [mine -> Int] /\ \A x, y \in mine : key[x] = key[y] => x = y
  BY <1>1, AdmissionAssumption
<1>4. /\ N \in Nat /\ Ordered(mine, key) \in [1..N -> mine]
      /\ \A m, n \in 1..N : m < n => key[Ordered(mine, key)[m]] < key[Ordered(mine, key)[n]]
      /\ \A x \in mine : \E n \in 1..N : Ordered(mine, key)[n] = x
  <2> HIDE DEF mine, key
  <2> QED BY <1>2, <1>3, OrderedIs
<1> DEFINE first == Ordered(mine, key)[1]
<1> HIDE DEF N
<1>5. 1 \in 1..N
  BY <1>1, <1>4
<1>6. first \in mine
  BY <1>4, <1>5
<1>7. ASSUME NEW j \in mine PROVE SequenceOf[first] <= SequenceOf[j]
  <2>1. PICK n \in 1..N : Ordered(mine, key)[n] = j
    BY <1>4
  <2>2. key[j] = SequenceOf[j] /\ key[first] = SequenceOf[first]
    BY <1>6
  <2>3. SequenceOf[j] \in Nat /\ SequenceOf[first] \in Nat
    BY <1>1, <1>6, AdmissionAssumption
  <2>4. n = 1 \/ 1 < n
    BY <1>4, <1>5
  <2> HIDE DEF key, mine
  <2> QED BY <1>4, <1>5, <2>1, <2>2, <2>3, <2>4
<1> HIDE DEF first
<1>8. \E i \in intents :
        /\ ProducerOf[i] = p
        /\ \A j \in intents : ProducerOf[j] = p => SequenceOf[i] <= SequenceOf[j]
  BY <1>6, <1>7
<1> QED BY <1>8 DEF Earliest

\* A round that starts again has every producer once.
LEMMA InOrderIs ==
  ASSUME NEW intents \in SUBSET Intent
  PROVE  /\ InOrder(intents) \in Seq(Producer) /\ NoRepeats(InOrder(intents))
         /\ \A x : Among(InOrder(intents), x) <=> x \in Producers(intents)
<1> DEFINE P == Producers(intents)
           key == [p \in P |-> SequenceOf[Earliest(intents, p)]]
           s == InOrder(intents)
           N == Cardinality(P)
<1>1. IsFiniteSet(P)
  <2> DEFINE f == [i \in intents |-> ProducerOf[i]]
  <2>1. f \in Surjection(intents, P)
    BY DEF Surjection, Producers
  <2>2. IsFiniteSet(intents)
    BY AdmissionAssumption, FS_Subset
  <2> HIDE DEF f, P
  <2> QED BY <2>1, <2>2, FS_Surjection
<1>2. P \subseteq Producer
  BY AdmissionAssumption DEF Producers
<1>3. \A p \in P : Earliest(intents, p) \in Intent /\ ProducerOf[Earliest(intents, p)] = p
  BY EarliestIs
<1>4. key \in [P -> Int] /\ \A x, y \in P : key[x] = key[y] => x = y
  <2> HIDE DEF P
  <2> QED BY <1>3, AdmissionAssumption
<1>5. s = Ordered(P, key)
  BY DEF InOrder
<1>6. /\ N \in Nat /\ s \in [1..N -> P]
      /\ \A m, n \in 1..N : m < n => key[s[m]] < key[s[n]]
      /\ \A x \in P : \E n \in 1..N : s[n] = x
  <2> HIDE DEF P, key, s
  <2> QED BY <1>1, <1>4, <1>5, OrderedIs
<1> HIDE DEF P, N, s
<1>7. s \in Seq(Producer) /\ DOMAIN s = 1..N
  BY <1>2, <1>6
<1>8. NoRepeats(s)
  <2> SUFFICES ASSUME NEW m \in 1..N, NEW n \in 1..N, s[m] = s[n], m < n PROVE FALSE
    BY <1>6, <1>7 DEF NoRepeats
  <2>1. key[s[m]] \in Int /\ key[s[m]] < key[s[n]]
    <3> HIDE DEF key
    <3> QED BY <1>4, <1>6
  <2> HIDE DEF key
  <2> QED BY <2>1
<1>9. \A x : Among(s, x) <=> x \in P
  BY <1>6, <1>7 DEF Among
<1> QED BY <1>7, <1>8, <1>9 DEF s, P

\* A round as the policy finds it: what it keeps, or all of the producers once
\* nothing is left of it.
Renewed(old, new, P) ==
    /\ new \in Seq(Producer) /\ NoRepeats(new)
    /\ new = <<>> <=> P = {}
    /\ \A x : Among(new, x) => x \in P
    /\ \/ /\ \A x \in P : Among(new, x) <=> Among(old, x)
          /\ \A x, y \in P : Before(new, x, y) <=> Before(old, x, y)
       \/ \A x \in P : ~Among(old, x) /\ Among(new, x)

\* The rounds as they are stored.
RoundsOK(round) == round \in [Rank -> Seq(Producer)] /\ \A r \in Rank : NoRepeats(round[r])

\* A round is over when nobody is among it.
LEMMA EmptyRound ==
  ASSUME NEW s \in Seq(Producer)
  PROVE  s = <<>> <=> \A x : ~Among(s, x)
<1>1. s # <<>> => Among(s, s[1])
  BY DEF Among
<1>2. s = <<>> => \A x : ~Among(s, x)
  BY DEF Among
<1> QED BY <1>1, <1>2

\* A choice among work sees the candidates of its ranks, and no others.
LEMMA OfRankIs ==
  ASSUME NEW ranks \in {Rank, WorkRank}, NEW r \in Rank
  PROVE  /\ OfRank(ranks, r) \in SUBSET Intent
         /\ r \in ranks => OfRank(ranks, r) = OfRank(Rank, r)
         /\ r \notin ranks => OfRank(ranks, r) = {}
BY DEF OfRank, Unique, Rank, WorkRank

\* The policy renews every round.
LEMMA RefreshedIs ==
  ASSUME RoundsOK(rounds), NEW ranks \in {Rank, WorkRank}
  PROVE  /\ RoundsOK(Refreshed(ranks))
         /\ \A r \in Rank : Renewed(rounds[r], Refreshed(ranks)[r], Producers(OfRank(ranks, r)))
<1> SUFFICES ASSUME NEW r \in Rank
             PROVE  Renewed(rounds[r], Refreshed(ranks)[r], Producers(OfRank(ranks, r)))
  BY DEF RoundsOK, Renewed, Refreshed
<1> DEFINE P == Producers(OfRank(ranks, r))
           kept == Kept(rounds[r], P)
           new == Refreshed(ranks)[r]
<1>1. rounds[r] \in Seq(Producer) /\ NoRepeats(rounds[r])
  BY DEF RoundsOK
<1>2. /\ kept \in Seq(Producer) /\ NoRepeats(kept)
      /\ \A x : Among(kept, x) <=> Among(rounds[r], x) /\ x \in P
      /\ \A x, y \in P : Before(kept, x, y) <=> Before(rounds[r], x, y)
  BY <1>1, KeptIs
<1>3. /\ InOrder(OfRank(ranks, r)) \in Seq(Producer) /\ NoRepeats(InOrder(OfRank(ranks, r)))
      /\ \A x : Among(InOrder(OfRank(ranks, r)), x) <=> x \in P
  BY OfRankIs, InOrderIs
<1>4. new = IF kept = <<>> THEN InOrder(OfRank(ranks, r)) ELSE kept
  BY DEF Refreshed
<1> HIDE DEF P, kept, new
<1>5. kept = <<>> <=> \A x : ~Among(kept, x)
  BY <1>2, EmptyRound
<1>6. new \in Seq(Producer) /\ NoRepeats(new) /\ \A x : Among(new, x) => x \in P
  BY <1>2, <1>3, <1>4
<1>7. new = <<>> <=> P = {}
  <2>1. new = <<>> <=> \A x : ~Among(new, x)
    BY <1>6, EmptyRound
  <2> QED BY <1>2, <1>3, <1>4, <1>5, <2>1
<1>8. CASE kept = <<>>
  <2>1. \A x \in P : ~Among(rounds[r], x) /\ Among(new, x)
    BY <1>2, <1>3, <1>4, <1>5, <1>8
  <2> QED BY <1>6, <1>7, <2>1 DEF Renewed, P, new
<1>9. CASE kept # <<>>
  <2>1. \A x \in P : Among(new, x) <=> Among(rounds[r], x)
    BY <1>2, <1>4, <1>9
  <2>2. \A x, y \in P : Before(new, x, y) <=> Before(rounds[r], x, y)
    BY <1>2, <1>4, <1>9
  <2> QED BY <1>6, <1>7, <2>1, <2>2 DEF Renewed, P, new
<1> QED BY <1>8, <1>9

\* The first of a round leaves it.
LEMMA TailIs ==
  ASSUME NEW s \in Seq(Producer), s # <<>>, NoRepeats(s)
  PROVE  /\ Tail(s) \in Seq(Producer) /\ NoRepeats(Tail(s)) /\ Among(s, Head(s))
         /\ \A x : Among(Tail(s), x) <=> Among(s, x) /\ x # Head(s)
         /\ \A x, y : Before(Tail(s), x, y) <=> Before(s, x, y) /\ x # Head(s)
<1> DEFINE t == Tail(s)
<1>1. /\ t \in Seq(Producer) /\ DOMAIN s = 1..Len(s) /\ DOMAIN t = 1..(Len(s) - 1)
      /\ Len(s) \in Nat /\ Len(s) >= 1 /\ Head(s) = s[1]
      /\ \A n \in 1..(Len(s) - 1) : t[n] = s[n + 1]
  OBVIOUS
<1> HIDE DEF t
<1>2. \A n \in 1..Len(s) : n = 1 \/ n - 1 \in 1..(Len(s) - 1)
  BY <1>1
<1>3. \A n \in 1..(Len(s) - 1) : n + 1 \in 1..Len(s) /\ n + 1 # 1 /\ (n + 1) - 1 = n
  BY <1>1
<1>4. \A n \in 1..Len(s) : n # 1 => t[n - 1] = s[n]
  BY <1>1, <1>2
<1>5. \A n \in 1..Len(s) : s[n] = s[1] => n = 1
  BY <1>1 DEF NoRepeats
<1>6. NoRepeats(t)
  <2> SUFFICES ASSUME NEW m \in 1..(Len(s) - 1), NEW n \in 1..(Len(s) - 1), t[m] = t[n] PROVE m = n
    BY <1>1 DEF NoRepeats
  <2>1. m + 1 = n + 1
    BY <1>1, <1>3 DEF NoRepeats
  <2> QED BY <2>1
<1>7. ASSUME NEW x PROVE Among(t, x) <=> Among(s, x) /\ x # Head(s)
  <2>1. Among(t, x) => Among(s, x) /\ x # Head(s)
    BY <1>1, <1>3, <1>5 DEF Among
  <2>2. Among(s, x) /\ x # Head(s) => Among(t, x)
    BY <1>1, <1>2, <1>4 DEF Among
  <2> QED BY <2>1, <2>2
<1>8. ASSUME NEW x, NEW y PROVE Before(t, x, y) <=> Before(s, x, y) /\ x # Head(s)
  <2>1. ASSUME Before(t, x, y) PROVE Before(s, x, y) /\ x # Head(s)
    <3>1. PICK m \in 1..(Len(s) - 1), n \in 1..(Len(s) - 1) : m < n /\ t[m] = x /\ t[n] = y
      BY <1>1, <2>1 DEF Before
    <3>2. m + 1 < n + 1 /\ s[m + 1] = x /\ s[n + 1] = y /\ m + 1 # 1
      BY <1>1, <3>1
    <3> QED BY <1>1, <1>3, <1>5, <3>2 DEF Before
  <2>2. ASSUME Before(s, x, y), x # Head(s) PROVE Before(t, x, y)
    <3>1. PICK m \in 1..Len(s), n \in 1..Len(s) : m < n /\ s[m] = x /\ s[n] = y
      BY <1>1, <2>2 DEF Before
    <3>2. m # 1 /\ n # 1
      BY <1>1, <2>2, <3>1
    <3>3. m - 1 < n - 1 /\ m - 1 \in DOMAIN t /\ n - 1 \in DOMAIN t
      BY <1>1, <1>2, <3>1, <3>2
    <3> QED BY <1>4, <3>1, <3>2, <3>3 DEF Before
  <2> QED BY <2>1, <2>2
<1>9. Among(s, Head(s))
  BY <1>1 DEF Among
<1> QED BY <1>1, <1>6, <1>7, <1>8, <1>9 DEF t

-----------------------------------------------------------------------------
(* Turns that a rival q gets before p *)

\* At most so many: one of this round if it precedes p there, or if p is not of
\* this round, and one of the next.
Ahead(s, p, q) ==
    IF Among(s, p) THEN (IF Before(s, q, p) THEN 1 ELSE 0)
    ELSE IF Among(s, q) THEN 2 ELSE 1

\* Two at most, and one if the rival is not of this round.
LEMMA AheadIs ==
  ASSUME NEW s, NEW p, NEW q
  PROVE  /\ Ahead(s, p, q) \in 0..2
         /\ ~Among(s, q) => Ahead(s, p, q) \in 0..1
BY DEF Ahead

\* What the policy does to a round brings no rival nearer while p has a candidate.
LEMMA RenewedAhead ==
  ASSUME NEW old, NEW new, NEW P, Renewed(old, new, P), NEW p \in P, NEW q
  PROVE  Ahead(new, p, q) <= Ahead(old, p, q)
<1>1. Before(new, q, p) => Among(new, q) /\ Among(new, p)
  BY DEF Before, Among
<1>2. Before(new, q, p) => q \in P
  BY <1>1 DEF Renewed
<1>3. CASE \A x \in P : ~Among(old, x) /\ Among(new, x)
  BY <1>3 DEF Ahead
<1>4. CASE /\ \A x \in P : Among(new, x) <=> Among(old, x)
           /\ \A x, y \in P : Before(new, x, y) <=> Before(old, x, y)
  <2>1. Among(new, q) => Among(old, q)
    BY <1>4 DEF Renewed
  <2>2. Among(new, p) <=> Among(old, p)
    BY <1>4
  <2>3. Before(new, q, p) => Before(old, q, p)
    BY <1>2, <1>4
  <2> QED BY <2>1, <2>2, <2>3 DEF Ahead
<1> QED BY <1>3, <1>4 DEF Renewed

\* A turn of the rival is one less ahead; one of another producer is none more.
LEMMA TailAhead ==
  ASSUME NEW s \in Seq(Producer), s # <<>>, NoRepeats(s), NEW p, NEW q, p # q, Head(s) # p
  PROVE  (IF Head(s) = q THEN 1 ELSE 0) + Ahead(Tail(s), p, q) <= Ahead(s, p, q)
<1>1. /\ Among(s, Head(s))
      /\ \A x : Among(Tail(s), x) <=> Among(s, x) /\ x # Head(s)
      /\ \A x, y : Before(Tail(s), x, y) <=> Before(s, x, y) /\ x # Head(s)
  BY TailIs
<1>2. CASE Head(s) = q
  <2>1. Among(s, p) => Before(s, q, p)
    <3> SUFFICES ASSUME NEW n \in DOMAIN s, s[n] = p PROVE Before(s, q, p)
      BY DEF Among
    <3>1. 1 \in DOMAIN s /\ s[1] = q /\ n \in Nat /\ n >= 1 /\ n # 1
      BY <1>2
    <3> QED BY <3>1 DEF Before
  <2>2. ~Among(Tail(s), q) /\ ~Before(Tail(s), q, p) /\ Among(s, q)
    BY <1>1, <1>2
  <2>3. Among(Tail(s), p) <=> Among(s, p)
    BY <1>1, <1>2
  <2> QED BY <1>2, <2>1, <2>2, <2>3 DEF Ahead
<1>3. CASE Head(s) # q
  <2>1. /\ Among(Tail(s), p) <=> Among(s, p)
        /\ Among(Tail(s), q) <=> Among(s, q)
        /\ Before(Tail(s), q, p) <=> Before(s, q, p)
    BY <1>1, <1>3
  <2> QED BY <1>3, <2>1 DEF Ahead
<1> QED BY <1>2, <1>3

-----------------------------------------------------------------------------
(* The choice *)

\* What the policy makes of its rounds for a choice among some ranks.
ChosenAt(c, ranks, r) ==
    /\ Turn(Refreshed(ranks), r)
    /\ c = [intent |-> c.intent, debt |-> DebtAfter(Refreshed(ranks), r),
            rounds |-> [Refreshed(ranks) EXCEPT ![r] = Tail(@)]]
    /\ c.intent \in OfRank(ranks, r)
    /\ ProducerOf[c.intent] = Head(Refreshed(ranks)[r])
    /\ RankOf[c.intent] = r

\* A choice is the earliest intent of whoever heads the round of a rank.
LEMMA ChosenIs ==
  ASSUME RoundsOK(rounds), NEW ranks \in {Rank, WorkRank}, Chosen(ranks) # Nil
  PROVE  \E r \in Rank : ChosenAt(Chosen(ranks), ranks, r)
<1> DEFINE round == Refreshed(ranks)
           turns == {r \in Rank : Turn(round, r)}
           r == CHOOSE r \in turns : TRUE
           i == Earliest(OfRank(ranks, r), Head(round[r]))
<1>1. /\ ~held /\ turns # {}
      /\ Chosen(ranks) = [intent |-> i, debt |-> DebtAfter(round, r),
                          rounds |-> [round EXCEPT ![r] = Tail(@)]]
  BY DEF Chosen
<1>2. r \in Rank /\ Turn(round, r)
  BY <1>1
<1> HIDE DEF r, i
<1>3. Renewed(rounds[r], round[r], Producers(OfRank(ranks, r))) /\ round[r] # <<>>
  BY <1>2, RefreshedIs DEF Turn
<1>4. Head(round[r]) \in Producers(OfRank(ranks, r))
  <2>1. Among(round[r], Head(round[r]))
    BY <1>3, TailIs DEF Renewed
  <2> QED BY <1>3, <2>1 DEF Renewed
<1>5. i \in OfRank(ranks, r) /\ ProducerOf[i] = Head(round[r])
  <2>1. OfRank(ranks, r) \in SUBSET Intent
    BY <1>2, OfRankIs
  <2> QED BY <1>4, <2>1, EarliestIs DEF i
<1>6. RankOf[i] = r
  BY <1>5 DEF OfRank
<1>7. Chosen(ranks).intent = i
  BY <1>1
<1> QED BY <1>1, <1>2, <1>5, <1>6, <1>7 DEF ChosenAt

\* While p has a candidate, a choice that is not its own brings it nearer.
Nearer(c, r, p, q) ==
    (IF RankOf[c.intent] = r /\ ProducerOf[c.intent] = q THEN 1 ELSE 0) + Ahead(c.rounds[r], p, q)

\* What a choice is, whichever ranks it was made among.
LEMMA ChoiceIs ==
  ASSUME RoundsOK(rounds), debt \in 0..CadenceLimit,
         NEW ranks \in {Rank, WorkRank}, NEW r \in Rank, NEW c, ChosenAt(c, ranks, r)
  PROVE  /\ c.intent \in Intent /\ RankOf[c.intent] = r
         /\ c.debt \in 0..CadenceLimit /\ RoundsOK(c.rounds)
         /\ ~Among(c.rounds[r], ProducerOf[c.intent])
         /\ c.debt = IF r = 5 THEN 0
                     ELSE IF r = 4 /\ OfRank(Rank, 5) # {} THEN debt + 1 ELSE debt
<1> DEFINE round == Refreshed(ranks)
<1>1. /\ RoundsOK(round)
      /\ \A h \in Rank : Renewed(rounds[h], round[h], Producers(OfRank(ranks, h)))
  BY RefreshedIs
<1>2. /\ Turn(round, r) /\ c.debt = DebtAfter(round, r)
      /\ c.rounds = [round EXCEPT ![r] = Tail(@)] /\ RankOf[c.intent] = r
      /\ c.intent \in OfRank(ranks, r) /\ ProducerOf[c.intent] = Head(round[r])
  BY DEF ChosenAt
<1>3. c.intent \in Intent
  BY <1>2, OfRankIs
<1>4. /\ Tail(round[r]) \in Seq(Producer) /\ NoRepeats(Tail(round[r]))
      /\ \A x : Among(Tail(round[r]), x) <=> Among(round[r], x) /\ x # Head(round[r])
  BY <1>1, <1>2, TailIs DEF RoundsOK, Turn
<1> HIDE DEF round
<1>5. RoundsOK(c.rounds) /\ c.rounds[r] = Tail(round[r])
  BY <1>1, <1>2, <1>4 DEF RoundsOK
<1>6. 4 \in Rank /\ 5 \in Rank
  BY DEF Rank
<1>7. r = 4 => (round[5] # <<>> <=> OfRank(Rank, 5) # {})
  <2> SUFFICES ASSUME r = 4 PROVE round[5] # <<>> <=> OfRank(Rank, 5) # {}
    OBVIOUS
  <2>1. 4 \in ranks
    BY <1>2, <1>6, OfRankIs
  <2>2. 5 \in ranks
    BY <2>1 DEF Rank, WorkRank
  <2>3. OfRank(ranks, 5) = OfRank(Rank, 5)
    BY <1>6, <2>2, OfRankIs
  <2> QED BY <1>1, <1>6, <2>3 DEF Renewed, Producers
<1>8. c.debt = IF r = 5 THEN 0
               ELSE IF r = 4 /\ OfRank(Rank, 5) # {} THEN debt + 1 ELSE debt
  BY <1>2, <1>7 DEF DebtAfter
<1>9. r = 4 /\ OfRank(Rank, 5) # {} => debt < CadenceLimit
  <2> SUFFICES ASSUME r = 4, OfRank(Rank, 5) # {} PROVE debt < CadenceLimit
    OBVIOUS
  <2>1. ~Outranks(5, 4)
    BY <1>2, <1>6, <1>7 DEF Turn
  <2>2. {5, 4} = WorkRank
    BY DEF WorkRank
  <2> QED BY <2>1, <2>2, AdmissionAssumption DEF Outranks
<1>10. c.debt \in 0..CadenceLimit
  BY <1>8, <1>9, AdmissionAssumption
<1> QED BY <1>2, <1>3, <1>4, <1>5, <1>8, <1>10

LEMMA ChoiceNearer ==
  ASSUME RoundsOK(rounds), NEW ranks \in {Rank, WorkRank}, NEW r \in Rank, NEW c,
         ChosenAt(c, ranks, r), NEW w \in Rank, w \in ranks,
         NEW p \in Producers(OfRank(Rank, w)), NEW q, p # q,
         ~(RankOf[c.intent] = w /\ ProducerOf[c.intent] = p)
  PROVE  Nearer(c, w, p, q) <= Ahead(rounds[w], p, q)
<1> DEFINE round == Refreshed(ranks)
<1>1. RoundsOK(round) /\ Renewed(rounds[w], round[w], Producers(OfRank(ranks, w)))
  BY RefreshedIs
<1>2. /\ Turn(round, r) /\ c.rounds = [round EXCEPT ![r] = Tail(@)]
      /\ RankOf[c.intent] = r /\ ProducerOf[c.intent] = Head(round[r])
  BY DEF ChosenAt
<1>3. OfRank(ranks, w) = OfRank(Rank, w)
  BY OfRankIs
<1> HIDE DEF round
<1>4. Ahead(round[w], p, q) <= Ahead(rounds[w], p, q)
  BY <1>1, <1>3, RenewedAhead
<1>5. Ahead(round[w], p, q) \in Int /\ Ahead(rounds[w], p, q) \in Int /\ Ahead(c.rounds[w], p, q) \in Int
  BY AheadIs
<1>6. CASE r = w
  <2>1. /\ round[w] \in Seq(Producer) /\ round[w] # <<>> /\ NoRepeats(round[w])
        /\ Head(round[w]) # p /\ c.rounds[w] = Tail(round[w])
    BY <1>1, <1>2, <1>6 DEF RoundsOK, Turn
  <2>2. (IF Head(round[w]) = q THEN 1 ELSE 0) + Ahead(Tail(round[w]), p, q) <= Ahead(round[w], p, q)
    BY <2>1, TailAhead
  <2>3. Nearer(c, w, p, q) = (IF Head(round[w]) = q THEN 1 ELSE 0) + Ahead(Tail(round[w]), p, q)
    BY <1>2, <1>6, <2>1 DEF Nearer
  <2>4. Nearer(c, w, p, q) <= Ahead(round[w], p, q)
    BY <2>2, <2>3
  <2>5. Nearer(c, w, p, q) \in Int
    BY <1>5 DEF Nearer
  <2> QED BY <1>4, <1>5, <2>4, <2>5
<1>7. CASE r # w
  <2>1. c.rounds[w] = round[w]
    BY <1>1, <1>2, <1>7 DEF RoundsOK
  <2>2. Nearer(c, w, p, q) = Ahead(round[w], p, q)
    BY <1>2, <1>5, <1>7, <2>1 DEF Nearer
  <2> QED BY <1>4, <2>2
<1> QED BY <1>6, <1>7

\* No work is charged for an alert: what comes with a decision comes after them.
LEMMA DecisionFirst ==
  ASSUME RoundsOK(rounds), NEW r \in Rank, NEW c, ChosenAt(c, Rank, r)
  PROVE  /\ r = 3 => OfRank(Rank, 2) = {}
         /\ OfRank(Rank, 2) = {} /\ OfRank(Rank, 3) # {} => r = 3
<1> DEFINE round == Refreshed(Rank)
<1>1. \A h \in Rank : Renewed(rounds[h], round[h], Producers(OfRank(Rank, h)))
  BY RefreshedIs
<1>2. round[r] # <<>> /\ \A h \in Rank : round[h] # <<>> => ~Outranks(h, r)
  BY DEF ChosenAt, Turn
<1> HIDE DEF round
<1>3. \A h \in Rank : round[h] # <<>> <=> OfRank(Rank, h) # {}
  BY <1>1 DEF Renewed, Producers
<1>4. 2 \in Rank /\ 3 \in Rank /\ r \in 2..6
  BY DEF Rank
<1>5. Outranks(2, 3)
  BY DEF Outranks, WorkRank
<1>6. r # 2 /\ r # 3 => Outranks(3, r)
  <2>1. {3, r} # WorkRank
    BY DEF WorkRank
  <2> QED BY <1>4, <2>1 DEF Outranks
<1> QED BY <1>2, <1>3, <1>4, <1>5, <1>6

-----------------------------------------------------------------------------
(* The inductive invariant *)

\* The producer of the chosen intent has had its turn of the round.
Served ==
    proposal # Nil =>
      ~Among(proposal.choice.rounds[RankOf[proposal.choice.intent]], ProducerOf[proposal.choice.intent])

\* The turns the rival has had and those it can still get are two at most, with
\* the rounds as they were charged and as they are proposed.
OwnTurn ==
    RankOf[proposal.choice.intent] = watch.rank /\ ProducerOf[proposal.choice.intent] = watch.producer
Shared ==
    /\ ~Waiting(watch.rank, watch.producer) => passed = 0
    /\ passed + Ahead(rounds[watch.rank], watch.producer, watch.rival) <= 2
    /\ proposal # Nil /\ ~OwnTurn =>
         passed + Nearer(proposal.choice, watch.rank, watch.producer, watch.rival) <= 2

\* Every turn that overtakes cadence work is in the debt, but for the first.
Counted ==
    /\ OfRank(Rank, 5) = {} => overtaken = 0
    /\ overtaken <= debt + 1
    /\ proposal # Nil =>
         /\ RankOf[proposal.choice.intent] = 4 /\ overtaken > 0 => proposal.choice.debt = debt + 1
         /\ RankOf[proposal.choice.intent] # 5 => proposal.choice.debt >= debt

IInv == AdmissionTypeOK /\ Served /\ Shared /\ Counted

LEMMA WatchIs ==
  ASSUME watch \in Pairs
  PROVE  /\ watch.rank \in {2, 4, 5} /\ watch.rank \in Rank
         /\ watch.producer \in Producer /\ watch.producer # watch.rival
BY AdmissionAssumption DEF Rank

LEMMA InitIInv == AdmissionInit => IInv
<1> SUFFICES ASSUME AdmissionInit PROVE IInv
  OBVIOUS
<1>1. watch.rank \in Rank /\ rounds = [r \in Rank |-> <<>>] /\ passed = 0 /\ overtaken = 0 /\ proposal = Nil
  BY WatchIs DEF AdmissionInit
<1>2. AdmissionTypeOK
  <2>1. /\ <<>> \in Seq(Producer) /\ NoRepeats(<<>>)
        /\ 0 \in 0..CadenceLimit
    BY AdmissionAssumption DEF NoRepeats
  <2>2. rounds \in [Rank -> Seq(Producer)] /\ \A r \in Rank : NoRepeats(rounds[r])
    BY <1>1, <2>1
  <2>3. watch \in Pairs /\ offered \subseteq Intent /\ waits \subseteq WorkId /\ stopped \subseteq WorkId
    BY DEF AdmissionInit
  <2>4. held \in BOOLEAN
    BY DEF AdmissionInit
  <2>5. debt \in 0..CadenceLimit /\ passed \in Nat /\ overtaken \in Nat
    BY <1>1, <2>1 DEF AdmissionInit
  <2> QED BY <1>1, <2>2, <2>3, <2>4, <2>5 DEF AdmissionTypeOK
<1>3. Ahead(rounds[watch.rank], watch.producer, watch.rival) \in 0..2
  BY AheadIs
<1>4. Served /\ Shared
  BY <1>1, <1>3 DEF Served, Shared
<1>5. Counted
  BY <1>1 DEF AdmissionInit, Counted
<1> QED BY <1>2, <1>4, <1>5 DEF IInv

\* A proposal of a choice, with members among which its intent is.
LEMMA ProposalKeeps ==
  ASSUME IInv, proposal = Nil, UNCHANGED <<world, policy, history>>,
         NEW ranks \in {Rank, WorkRank}, NEW r \in Rank, NEW c, ChosenAt(c, ranks, r),
         ranks = WorkRank => OfRank(Rank, 2) = {},
         NEW members \in SUBSET Intent, c.intent \in members,
         proposal' = [choice |-> c, members |-> members]
  PROVE  IInv'
<1>1. /\ RoundsOK(rounds) /\ debt \in 0..CadenceLimit /\ passed \in Nat /\ overtaken \in Nat
      /\ watch \in Pairs
  BY DEF IInv, AdmissionTypeOK, RoundsOK
<1>2. /\ c.intent \in Intent /\ RankOf[c.intent] = r
      /\ c.debt \in 0..CadenceLimit /\ RoundsOK(c.rounds)
      /\ ~Among(c.rounds[r], ProducerOf[c.intent])
      /\ c.debt = IF r = 5 THEN 0
                  ELSE IF r = 4 /\ OfRank(Rank, 5) # {} THEN debt + 1 ELSE debt
  BY <1>1, ChoiceIs
<1>3. proposal'.choice = c /\ proposal'.members = members
  OBVIOUS
<1>4. /\ offered' = offered /\ waits' = waits /\ stopped' = stopped /\ held' = held
      /\ debt' = debt /\ rounds' = rounds
      /\ watch' = watch /\ passed' = passed /\ overtaken' = overtaken
  BY DEF world, policy, history
<1>5. AdmissionTypeOK'
  BY <1>2, <1>3, <1>4 DEF IInv, AdmissionTypeOK, RoundsOK
<1>6. Served'
  BY <1>2, <1>3 DEF Served
<1>7. Waiting(watch.rank, watch.producer)' <=> Waiting(watch.rank, watch.producer)
  BY <1>4 DEF Waiting, OfRank, Unique, Eligible
<1>8. OfRank(Rank, 5)' = OfRank(Rank, 5)
  BY <1>4 DEF OfRank, Unique, Eligible
<1>9. Shared'
  <2> DEFINE w == watch.rank  p == watch.producer  q == watch.rival
  <2>1. w \in {2, 4, 5} /\ w \in Rank /\ p # q
    BY <1>1, WatchIs
  <2>2. /\ ~Waiting(w, p) => passed = 0
        /\ passed + Ahead(rounds[w], p, q) <= 2
    BY DEF IInv, Shared
  <2>3. ASSUME ~(RankOf[c.intent] = w /\ ProducerOf[c.intent] = p)
        PROVE  passed + Nearer(c, w, p, q) <= 2
    <3>1. /\ Ahead(c.rounds[w], p, q) \in 0..2
          /\ ~Among(c.rounds[w], q) => Ahead(c.rounds[w], p, q) \in 0..1
          /\ Ahead(rounds[w], p, q) \in 0..2
      BY AheadIs
    <3>2. CASE Waiting(w, p)
      <4>1. p \in Producers(OfRank(Rank, w))
        BY <3>2 DEF Waiting
      <4>2. w \in ranks
        BY <2>1, <4>1 DEF Producers, WorkRank
      <4>3. Nearer(c, w, p, q) <= Ahead(rounds[w], p, q)
        BY <1>1, <2>1, <2>3, <4>1, <4>2, ChoiceNearer
      <4>4. Nearer(c, w, p, q) \in Int
        BY <3>1 DEF Nearer
      <4> QED BY <1>1, <2>2, <3>1, <4>3, <4>4
    <3>3. CASE ~Waiting(w, p)
      <4>1. Nearer(c, w, p, q) <= 2
        BY <1>2, <3>1 DEF Nearer
      <4>2. Nearer(c, w, p, q) \in Int
        BY <3>1 DEF Nearer
      <4>3. passed = 0
        BY <2>2, <3>3
      <4> HIDE DEF w, p, q
      <4> QED BY <4>1, <4>2, <4>3
    <3> QED BY <3>2, <3>3
  <2> QED BY <1>3, <1>4, <1>7, <2>2, <2>3 DEF Shared, OwnTurn, Nearer
<1>10. Counted'
  <2>1. /\ OfRank(Rank, 5) = {} => overtaken = 0
        /\ overtaken <= debt + 1
    BY DEF IInv, Counted
  <2>2. RankOf[c.intent] = 4 /\ overtaken > 0 => c.debt = debt + 1
    BY <1>2, <2>1
  <2>3. RankOf[c.intent] # 5 => c.debt >= debt
    BY <1>1, <1>2
  <2> QED BY <1>3, <1>4, <1>8, <2>1, <2>2, <2>3 DEF Counted
<1> QED BY <1>5, <1>6, <1>9, <1>10 DEF IInv

\* The choice is made among all ranks, or among work when a decision comes first.
LEMMA ChooseIs ==
  ASSUME IInv, Choose
  PROVE  \E ranks \in {Rank, WorkRank} : \E r \in Rank : \E t \in Rank :
            /\ ChosenAt(proposal'.choice, ranks, r) /\ ChosenAt(Chosen(Rank), Rank, t)
            /\ ranks = WorkRank => t = 3
            /\ proposal'.members \in SUBSET Intent
            /\ proposal'.choice.intent \in proposal'.members
            /\ Chosen(Rank).intent \in proposal'.members
            /\ proposal' = [choice |-> proposal'.choice, members |-> proposal'.members]
<1> DEFINE trigger == Chosen(Rank)
           work == Chosen(WorkRank)
           choice == IF RankOf[trigger.intent] = 3 /\ work # Nil THEN work ELSE trigger
<1>1. RoundsOK(rounds) /\ offered \in SUBSET Intent
  BY DEF IInv, AdmissionTypeOK, RoundsOK
<1>2. /\ trigger # Nil
      /\ \E riders \in SUBSET Riders(choice) :
           proposal' = [choice |-> choice, members |-> Members(trigger, choice) \cup riders]
  BY DEF Choose
<1>3. PICK t \in Rank : ChosenAt(trigger, Rank, t)
  <2>1. Rank \in {Rank, WorkRank}
    OBVIOUS
  <2> QED BY <1>1, <1>2, <2>1, ChosenIs
<1>4. work # Nil => \E r \in Rank : ChosenAt(work, WorkRank, r)
  <2>1. WorkRank \in {Rank, WorkRank}
    OBVIOUS
  <2> QED BY <1>1, <2>1, ChosenIs
<1> HIDE DEF trigger, work
<1>5. RankOf[trigger.intent] = t
  BY <1>3 DEF ChosenAt
<1>6. \E ranks \in {Rank, WorkRank}, r \in Rank :
         ChosenAt(choice, ranks, r) /\ (ranks = WorkRank => t = 3)
  <2>1. CASE t = 3 /\ work # Nil
    BY <1>4, <1>5, <2>1
  <2>2. CASE ~(t = 3 /\ work # Nil)
    <3>1. Rank # WorkRank
      BY DEF Rank, WorkRank
    <3> QED BY <1>3, <1>5, <2>2, <3>1
  <2> QED BY <2>1, <2>2
<1>7. PICK riders \in SUBSET Riders(choice) :
        proposal' = [choice |-> choice, members |-> Members(trigger, choice) \cup riders]
  BY <1>2
<1> HIDE DEF choice
<1>8. choice.intent \in Intent /\ trigger.intent \in Intent
  BY <1>3, <1>6, OfRankIs DEF ChosenAt
<1>9. riders \in SUBSET Intent
  BY <1>1 DEF Riders
<1>10. /\ proposal'.choice = choice /\ proposal'.members = Members(trigger, choice) \cup riders
       /\ proposal'.members \in SUBSET Intent
       /\ choice.intent \in proposal'.members /\ trigger.intent \in proposal'.members
  BY <1>7, <1>8, <1>9 DEF Members
<1> QED BY <1>3, <1>6, <1>7, <1>10 DEF trigger

\* So a choice keeps the invariant.
LEMMA ChooseStep ==
  ASSUME IInv, Choose
  PROVE  IInv'
<1>1. PICK ranks \in {Rank, WorkRank}, r \in Rank, t \in Rank :
            /\ ChosenAt(proposal'.choice, ranks, r) /\ ChosenAt(Chosen(Rank), Rank, t)
            /\ ranks = WorkRank => t = 3
            /\ proposal'.members \in SUBSET Intent
            /\ proposal'.choice.intent \in proposal'.members
            /\ proposal' = [choice |-> proposal'.choice, members |-> proposal'.members]
  BY ChooseIs
<1>2. ranks = WorkRank => OfRank(Rank, 2) = {}
  BY <1>1, DecisionFirst DEF IInv, AdmissionTypeOK, RoundsOK
<1>3. proposal = Nil /\ UNCHANGED <<world, policy, history>>
  BY DEF Choose
<1> QED BY <1>1, <1>2, <1>3, ProposalKeeps

\* Giving up takes the proposal away.
LEMMA GiveUpStep ==
  ASSUME IInv, GiveUp
  PROVE  IInv'
<1>1. /\ offered' = offered /\ waits' = waits /\ stopped' = stopped /\ held' = held
      /\ debt' = debt /\ rounds' = rounds /\ proposal' = Nil
      /\ watch' = watch /\ passed' = passed /\ overtaken' = overtaken
  BY DEF GiveUp, world, policy, history
<1>2. Waiting(watch.rank, watch.producer)' <=> Waiting(watch.rank, watch.producer)
  BY <1>1 DEF Waiting, OfRank, Unique, Eligible
<1>3. OfRank(Rank, 5)' = OfRank(Rank, 5)
  BY <1>1 DEF OfRank, Unique, Eligible
<1>4. AdmissionTypeOK' /\ Served'
  BY <1>1 DEF IInv, AdmissionTypeOK, Served
<1>5. Shared'
  BY <1>1, <1>2 DEF IInv, Shared
<1>6. Counted'
  BY <1>1, <1>3 DEF IInv, Counted
<1> QED BY <1>4, <1>5, <1>6 DEF IInv

\* What producers, waits, work and gates do leaves the turns to come as they were.
LEMMA ChangesStep ==
  ASSUME IInv, NEW o \in SUBSET Intent, NEW w \in SUBSET WorkId, NEW s \in SUBSET WorkId,
         NEW h \in BOOLEAN, Changes(o, w, s, h)
  PROVE  IInv'
<1>1. /\ offered' = o /\ waits' = w /\ stopped' = s /\ held' = h
      /\ debt' = debt /\ rounds' = rounds /\ proposal' = proposal /\ watch' = watch
      /\ passed' = IF ~Waiting(watch.rank, watch.producer)' THEN 0 ELSE passed
      /\ overtaken' = IF OfRank(Rank, 5)' = {} THEN 0 ELSE overtaken + 0
  BY DEF Changes, Watched, policy
<1>2. passed \in Nat /\ overtaken \in Nat /\ debt \in Nat
  BY AdmissionAssumption DEF IInv, AdmissionTypeOK
<1>3. passed' \in 0..passed /\ overtaken' \in {0, overtaken}
  BY <1>1, <1>2
<1>4. AdmissionTypeOK'
  BY <1>1, <1>2, <1>3 DEF IInv, AdmissionTypeOK
<1>5. Served'
  BY <1>1 DEF IInv, Served
<1>6. Shared'
  <2> DEFINE r == watch.rank  p == watch.producer  q == watch.rival
  <2>1. /\ passed + Ahead(rounds[r], p, q) <= 2
        /\ proposal # Nil /\ ~OwnTurn => passed + Nearer(proposal.choice, r, p, q) <= 2
    BY DEF IInv, Shared
  <2>2. Ahead(rounds[r], p, q) \in Int /\ Nearer(proposal.choice, r, p, q) \in Int
    BY AheadIs DEF Nearer
  <2>3. /\ passed' + Ahead(rounds[r], p, q) <= 2
        /\ proposal # Nil /\ ~OwnTurn => passed' + Nearer(proposal.choice, r, p, q) <= 2
    BY <1>2, <1>3, <2>1, <2>2
  <2>4. ~Waiting(watch.rank, watch.producer)' => passed' = 0
    BY <1>1
  <2> QED BY <1>1, <2>3, <2>4 DEF Shared, OwnTurn, Nearer
<1>7. Counted'
  BY <1>1, <1>2, <1>3 DEF IInv, Counted
<1> QED BY <1>4, <1>5, <1>6, <1>7 DEF IInv

\* A turn that is charged was counted when it was proposed, or is the first one.
LEMMA IncludeStep ==
  ASSUME IInv, Include
  PROVE  IInv'
<1> DEFINE c == proposal.choice
           i == c.intent
<1>1. /\ proposal # Nil /\ debt' = c.debt /\ rounds' = c.rounds /\ proposal' = Nil
      /\ offered' \in SUBSET offered
      /\ waits' = waits /\ stopped' = stopped /\ held' = held
      /\ Watched(i)
  BY DEF Include
<1>2. /\ i \in Intent /\ i # Nil /\ c.debt \in 0..CadenceLimit /\ RoundsOK(c.rounds)
      /\ passed \in Nat /\ overtaken \in Nat /\ debt \in Nat /\ watch \in Pairs
  BY <1>1, AdmissionAssumption DEF IInv, AdmissionTypeOK, RoundsOK
<1>3. /\ watch' = watch
      /\ passed' = IF ~Waiting(watch.rank, watch.producer)' THEN 0
                   ELSE IF RankOf[i] # watch.rank THEN passed
                   ELSE IF ProducerOf[i] = watch.producer THEN 0
                   ELSE passed + (IF ProducerOf[i] = watch.rival THEN 1 ELSE 0)
      /\ overtaken' = IF OfRank(Rank, 5)' = {} \/ RankOf[i] = 5 THEN 0
                      ELSE overtaken + (IF RankOf[i] = 4 THEN 1 ELSE 0)
  BY <1>1, <1>2 DEF Watched
<1> HIDE DEF c, i
<1>4. AdmissionTypeOK'
  <2>1. passed' \in Nat /\ overtaken' \in Nat
    BY <1>2, <1>3
  <2> QED BY <1>1, <1>2, <1>3, <2>1 DEF IInv, AdmissionTypeOK, RoundsOK
<1>5. Served'
  BY <1>1 DEF Served
<1>6. Shared'
  <2> DEFINE r == watch.rank  p == watch.producer  q == watch.rival
             ahead == Ahead(c.rounds[r], p, q)
  <2>1. ahead \in 0..2
    BY AheadIs
  <2>2. passed' + ahead <= 2
    <3>1. CASE passed' = 0
      BY <2>1, <3>1
    <3>2. CASE passed' # 0
      <4>1. ~(RankOf[i] = r /\ ProducerOf[i] = p)
        BY <1>3, <3>2
      <4>2. passed + Nearer(c, r, p, q) <= 2
        BY <1>1, <4>1 DEF IInv, Shared, OwnTurn, c, i
      <4>3. Nearer(c, r, p, q) = (IF RankOf[i] = r /\ ProducerOf[i] = q THEN 1 ELSE 0) + ahead
        BY DEF Nearer, i
      <4>4. passed' = passed + (IF RankOf[i] = r /\ ProducerOf[i] = q THEN 1 ELSE 0)
        BY <1>2, <1>3, <3>2, <4>1
      <4> HIDE DEF ahead
      <4> QED BY <1>2, <2>1, <4>2, <4>3, <4>4
    <3> QED BY <3>1, <3>2
  <2>3. ~Waiting(watch.rank, watch.producer)' => passed' = 0
    BY <1>3
  <2> QED BY <1>1, <1>3, <2>2, <2>3 DEF Shared
<1>7. Counted'
  <2>1. /\ overtaken <= debt + 1
        /\ RankOf[i] = 4 /\ overtaken > 0 => c.debt = debt + 1
        /\ RankOf[i] # 5 => c.debt >= debt
    BY <1>1 DEF IInv, Counted, c, i
  <2>2. overtaken' <= c.debt + 1
    BY <1>2, <1>3, <2>1
  <2>3. OfRank(Rank, 5)' = {} => overtaken' = 0
    BY <1>3
  <2> QED BY <1>1, <2>2, <2>3 DEF Counted
<1> QED BY <1>4, <1>5, <1>6, <1>7 DEF IInv

LEMMA StepIInv ==
  ASSUME IInv, [AdmissionNext]_admissionVars
  PROVE  IInv'
<1> USE DEF AdmissionTypeOK
<1>0. /\ offered \in SUBSET Intent /\ waits \in SUBSET WorkId /\ stopped \in SUBSET WorkId
      /\ held \in BOOLEAN
  BY DEF IInv
<1>1. CASE Choose
  BY <1>1, ChooseStep
<1>2. CASE Include
  BY <1>2, IncludeStep
<1>3. CASE GiveUp
  BY <1>3, GiveUpStep
<1>4. ASSUME NEW i \in Intent, Offer(i) \/ Withdraw(i) PROVE IInv'
  <2>1. offered \cup {i} \in SUBSET Intent /\ offered \ {i} \in SUBSET Intent
    BY <1>0
  <2> QED BY <1>0, <1>4, <2>1, ChangesStep DEF Offer, Withdraw
<1>5. ASSUME NEW w \in WorkId, Suspend(w) \/ Wake(w) PROVE IInv'
  <2>1. waits \cup {w} \in SUBSET WorkId /\ waits \ {w} \in SUBSET WorkId
    BY <1>0
  <2> QED BY <1>0, <1>5, <2>1, ChangesStep DEF Suspend, Wake
<1>6. ASSUME NEW w \in WorkId, Stop(w) \/ Resume(w) PROVE IInv'
  <2>1. stopped \cup {w} \in SUBSET WorkId /\ stopped \ {w} \in SUBSET WorkId
    BY <1>0
  <2> QED BY <1>0, <1>6, <2>1, ChangesStep DEF Stop, Resume
<1>7. CASE Gate
  BY <1>0, <1>7, ChangesStep DEF Gate
<1>8. CASE UNCHANGED admissionVars
  <2>1. UNCHANGED <<offered, waits, stopped, held, debt, rounds, proposal, watch, passed, overtaken>>
    BY <1>8 DEF admissionVars, world, policy, history
  <2>2. Waiting(watch.rank, watch.producer)' <=> Waiting(watch.rank, watch.producer)
    BY <2>1 DEF Waiting, OfRank, Unique, Eligible
  <2>3. OfRank(Rank, 5)' = OfRank(Rank, 5)
    BY <2>1 DEF OfRank, Unique, Eligible
  <2> QED BY <2>1, <2>2, <2>3 DEF IInv, Served, Shared, OwnTurn, Counted
<1> QED BY <1>1, <1>2, <1>3, <1>4, <1>5, <1>6, <1>7, <1>8 DEF AdmissionNext

LEMMA IInvHolds == AdmissionSpec => []IInv
<1> QED BY InitIInv, StepIInv, PTL DEF AdmissionSpec

-----------------------------------------------------------------------------
(* What follows *)

\* Turns are shared (chooseFlowIntent): while a producer keeps a candidate, another
\* one of its rank gets two turns at most, and while cadence work keeps one, at most
\* one more than CadenceLimit turns of other work come first.
THEOREM TurnsAreShared == AdmissionSpec => []FairTurns
<1>1. IInv => FairTurns
  <2> SUFFICES ASSUME IInv PROVE FairTurns
    OBVIOUS
  <2>1. /\ passed \in Nat /\ overtaken \in Nat /\ debt \in 0..CadenceLimit
        /\ passed + Ahead(rounds[watch.rank], watch.producer, watch.rival) <= 2
        /\ overtaken <= debt + 1
    BY DEF IInv, AdmissionTypeOK, Shared, Counted
  <2>2. Ahead(rounds[watch.rank], watch.producer, watch.rival) \in 0..2
    BY AheadIs
  <2> QED BY <2>1, <2>2, AdmissionAssumption DEF FairTurns
<1> QED BY <1>1, IInvHolds, PTL

\* Whoever heads a round has an intent ("Admission round lost its eligible intent"
\* in chooseFlowIntent is never thrown), and the policy's state is valid.
THEOREM RoundsAreServed == AdmissionSpec => []NoLostIntent
<1>1. IInv => NoLostIntent
  <2> SUFFICES ASSUME IInv, NEW ranks \in {Rank, WorkRank}, NEW r \in Rank,
                      Refreshed(ranks)[r] # <<>>
               PROVE  Head(Refreshed(ranks)[r]) \in Producers(OfRank(ranks, r))
    BY DEF IInv, NoLostIntent
  <2>1. Renewed(rounds[r], Refreshed(ranks)[r], Producers(OfRank(ranks, r)))
    BY RefreshedIs DEF IInv, AdmissionTypeOK, RoundsOK
  <2> DEFINE s == Refreshed(ranks)[r]
  <2> HIDE DEF s
  <2>2. s \in Seq(Producer) /\ NoRepeats(s) /\ \A x : Among(s, x) => x \in Producers(OfRank(ranks, r))
    BY <2>1 DEF Renewed, s
  <2>3. Among(s, Head(s))
    BY <2>2, TailIs DEF s
  <2> QED BY <2>2, <2>3 DEF s
<1> QED BY <1>1, IInvHolds, PTL

\* A wait decision is part of every turn that starts while one is offered and no
\* alert is (SessionFlowController.step).
THEOREM DecisionsDelivered == AdmissionSpec => DecisionDelivered
<1> DEFINE Delivers ==
      proposal = Nil /\ proposal' # Nil =>
         \/ \E i \in offered : RankOf[i] = 2
         \/ \A i \in offered : RankOf[i] # 3
         \/ \E i \in proposal'.members : RankOf[i] = 3
<1>1. IInv /\ [AdmissionNext]_admissionVars => [Delivers]_admissionVars
  <2> SUFFICES ASSUME IInv, AdmissionNext, proposal = Nil, proposal' # Nil,
                      \A i \in offered : RankOf[i] # 2, NEW d \in offered, RankOf[d] = 3
               PROVE  \E i \in proposal'.members : RankOf[i] = 3
    OBVIOUS
  <2>1. Choose
    BY DEF AdmissionNext, Include, GiveUp, Offer, Withdraw, Suspend, Wake, Stop, Resume, Gate, Changes
  <2>2. PICK t \in Rank : /\ ChosenAt(Chosen(Rank), Rank, t)
                          /\ Chosen(Rank).intent \in proposal'.members
    BY <2>1, ChooseIs
  <2>3. OfRank(Rank, 2) = {}
    BY DEF OfRank, Unique, Eligible
  <2>4. d \in OfRank(Rank, 3)
    BY DEF IInv, AdmissionTypeOK, OfRank, Unique, Eligible, SameTurn, Rank, WorkRank
  <2>5. t = 3
    BY <2>2, <2>3, <2>4, DecisionFirst DEF IInv, AdmissionTypeOK, RoundsOK
  <2> QED BY <2>2, <2>5 DEF ChosenAt
<1> QED BY <1>1, IInvHolds, PTL DEF AdmissionSpec, DecisionDelivered
=============================================================================
