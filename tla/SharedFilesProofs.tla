-------------------------- MODULE SharedFilesProofs --------------------------
(***************************************************************************)
(* Proofs about the files that processes share: the flow journal, the      *)
(* state lock and the package that is updated under it.                    *)
(*                                                                         *)
(* The journal, for any number of processes, keys, transactions and        *)
(* sequence numbers: it can always be opened, whoever has it open reads    *)
(* what was acknowledged, and the stores see an atomic map.  The lemmas on *)
(* finite sets give what the choices of JournalStorage need: a highest     *)
(* sequence number, a last write, an order by sequence number.             *)
(*                                                                         *)
(* The lock, for any number of processes that start, die and start again,  *)
(* and the updates they make under it.                                     *)
(***************************************************************************)
EXTENDS JournalStorage, SelfUpdate, FiniteSetTheorems, WellFoundedInduction, TLAPS

\* Values that transactions write, and the writes that lines are made of.
Value == UNION {{t[i].value : i \in 1..Len(t)} : t \in Transaction}
Entry == [key : Key, value : Value, seq : Nat]

\* A file that can be opened, whatever is left of an unfinished line.
Sound(f) ==
    /\ f.floor \in Nat \ {0} /\ f.tail \in {"none", "partial"}
    /\ DOMAIN f = {"floor", "lines", "tail"}
    /\ f.lines \in Seq(Seq(Entry))
    /\ Readable(f)

-----------------------------------------------------------------------------
(* Finite sets and their order *)

\* A family of subsets of a finite set has a member none of whose own subsets
\* is in the family: what stands in for induction on finite sets.
LEMMA SmallestMember ==
  ASSUME NEW S, IsFiniteSet(S), NEW C \in SUBSET SUBSET S, C # {}
  PROVE  \E T \in C : \A U \in C : ~(U \subseteq T /\ U # T)
<1>1. C \subseteq FiniteSubsetsOf(S)
  BY FS_Subset DEF FiniteSubsetsOf
<1>2. PICK T \in C : \A U \in C : <<U, T>> \notin StrictSubsetOrdering(S)
  BY <1>1, FS_StrictSubsetOrderingWellFounded, WFMin
<1> QED
  BY <1>2 DEF StrictSubsetOrdering

\* A finite set of numbers has a largest one.
LEMMA Largest ==
  ASSUME NEW S, IsFiniteSet(S)
  PROVE  S \subseteq Int /\ S # {} => \E n \in S : \A s \in S : s <= n
<1> DEFINE Endless == {T \in SUBSET S : T # {} /\ \A n \in T : \E s \in T : s > n}
<1>1. Endless # {} => \E T \in Endless : \A U \in Endless : ~(U \subseteq T /\ U # T)
  <2>1. Endless \in SUBSET SUBSET S
    OBVIOUS
  <2> HIDE DEF Endless
  <2> QED  BY <2>1, SmallestMember
<1> SUFFICES ASSUME S \subseteq Int, S # {}, Endless # {} PROVE FALSE
  <2>1. S # {} /\ S \notin Endless => \E n \in S : \A s \in S : ~(s > n)
    OBVIOUS
  <2> QED  BY <2>1
<1>2. PICK T \in Endless : \A U \in Endless : ~(U \subseteq T /\ U # T)
  BY <1>1
<1>3. PICK x \in T : TRUE
  BY <1>2
<1>4. PICK y \in T : y > x
  BY <1>2
<1>5. T \ {x} # {} /\ T \ {x} \subseteq T /\ T \ {x} # T
  BY <1>3, <1>4
<1>6. x \in Int /\ T \subseteq Int
  BY <1>2, <1>3
<1>7. PICK n \in T \ {x} : \A s \in T \ {x} : s <= n
  <2>1. T \ {x} \in SUBSET S /\ T \ {x} \notin Endless
    BY <1>2, <1>5
  <2>2. \E n \in T \ {x} : \A s \in T \ {x} : ~(s > n)
    BY <1>5, <2>1
  <2> QED  BY <1>6, <2>2
<1>8. CASE x <= n
  BY <1>2, <1>6, <1>7, <1>8
<1>9. CASE x > n
  <2>1. \A s \in T : s <= x
    BY <1>6, <1>7, <1>9
  <2> QED  BY <1>2, <1>3, <1>6, <2>1
<1> QED  BY <1>6, <1>7, <1>8, <1>9

\* What an enumeration gives is finite.
LEMMA FiniteImage ==
  ASSUME NEW S, IsFiniteSet(S), NEW g
  PROVE  IsFiniteSet({g[i] : i \in S})
<1> DEFINE h == [i \in S |-> g[i]]
<1>1. h \in Surjection(S, {g[i] : i \in S})
  BY DEF Surjection
<1> QED  BY <1>1, FS_Surjection

\* An interval is finite, and as large as it is long.
LEMMA UpTo ==
  ASSUME NEW n \in Nat
  PROVE  IsFiniteSet(1..n) /\ Cardinality(1..n) = n
<1>1. 1 \in Int /\ n \in Int
  OBVIOUS
<1>2. IsFiniteSet(1..n) /\ Cardinality(1..n) = IF 1 > n THEN 0 ELSE n - 1 + 1
  BY <1>1, FS_Interval
<1> QED  BY <1>2

\* A finite set of writes has a last one.
LEMMA LastOne ==
  ASSUME NEW S, IsFiniteSet(S), S # {}, \A w \in S : w.seq \in Int
  PROVE  \E w \in S : \A v \in S : v.seq <= w.seq
<1> DEFINE g == [w \in S |-> w.seq]
           seqs == {g[w] : w \in S}
<1>1. IsFiniteSet(seqs)
  <2> HIDE DEF g
  <2> QED  BY FiniteImage
<1>2. seqs \subseteq Int /\ seqs # {}
  OBVIOUS
<1>3. PICK n \in seqs : \A s \in seqs : s <= n
  <2> HIDE DEF seqs
  <2> QED  BY <1>1, <1>2, Largest
<1>4. PICK w \in S : n = w.seq
  BY <1>3
<1> QED  BY <1>3, <1>4

Rising(s) == \A m, n \in DOMAIN s : m < n => s[m].seq < s[n].seq

\* Writes with different sequence numbers can be put in order, and all of them are.
LEMMA Sorted ==
  ASSUME NEW S, IsFiniteSet(S), \A w \in S : w.seq \in Int,
         \A v, w \in S : v.seq = w.seq => v = w
  PROVE  /\ InOrder(S) \in [1..Cardinality(S) -> S] /\ Rising(InOrder(S))
         /\ \A w \in S : \E i \in 1..Cardinality(S) : InOrder(S)[i] = w
<1> DEFINE Sortable(T) == \E s \in [1..Cardinality(T) -> T] : Rising(s)
           Unsorted == {T \in SUBSET S : ~Sortable(T)}
<1>1. Sortable(S)
  <2>1. SUFFICES ASSUME Unsorted # {} PROVE FALSE
    BY <2>1
  <2>2. PICK T \in Unsorted : \A U \in Unsorted : ~(U \subseteq T /\ U # T)
    <3>1. Unsorted \in SUBSET SUBSET S
      OBVIOUS
    <3> HIDE DEF Unsorted
    <3> QED  BY <3>1, <2>1, SmallestMember
  <2>3. T \subseteq S /\ ~Sortable(T)
    BY <2>2
  <2>4. IsFiniteSet(T)
    BY <2>3, FS_Subset
  <2>5. T # {}
    <3>1. SUFFICES ASSUME T = {} PROVE FALSE
      OBVIOUS
    <3>2. Cardinality(T) = 0
      BY <3>1, FS_EmptySet
    <3>3. <<>> \in [1..0 -> {}] /\ Rising(<<>>)
      BY DEF Rising
    <3> QED  BY <2>3, <3>1, <3>2, <3>3
  <2>6. PICK w \in T : \A v \in T : v.seq <= w.seq
    BY <2>3, <2>4, <2>5, LastOne
  <2> DEFINE U == T \ {w}
             N == Cardinality(T)
  <2>7. N \in Nat \ {0} /\ Cardinality(U) = N - 1 /\ IsFiniteSet(U)
    BY <2>4, <2>5, <2>6, FS_RemoveElement, FS_CardinalityType, FS_EmptySet
  <2>8. PICK s \in [1..Cardinality(U) -> U] : Rising(s)
    <3>1. U \subseteq T /\ U # T /\ U \subseteq S
      BY <2>3, <2>6
    <3>2. U \notin Unsorted
      BY <2>2, <3>1
    <3> QED  BY <3>1, <3>2
  <2> HIDE DEF U, N
  <2>9. s \in [1..(N - 1) -> U] /\ U \subseteq T /\ \A v \in U : v.seq < w.seq
    <3>1. s \in [1..(N - 1) -> U] /\ U \subseteq T
      BY <2>7, <2>8 DEF U
    <3>2. ASSUME NEW v \in U PROVE v.seq < w.seq
      <4>1. v \in S /\ w \in S /\ v # w /\ v.seq <= w.seq
        BY <2>3, <2>6 DEF U
      <4> QED  BY <4>1
    <3> QED  BY <3>1, <3>2
  <2> DEFINE r == [i \in 1..N |-> IF i = N THEN w ELSE s[i]]
  <2>10. r \in [1..N -> T]
    BY <2>6, <2>7, <2>9
  <2>11. Rising(r)
    <3>1. SUFFICES ASSUME NEW m \in 1..N, NEW n \in 1..N, m < n PROVE r[m].seq < r[n].seq
      BY DEF Rising
    <3>2. m \in 1..(N - 1) /\ (n = N \/ n \in 1..(N - 1))
      BY <2>7, <3>1
    <3>3. CASE n = N
      BY <2>7, <2>9, <3>2, <3>3
    <3>4. CASE n \in 1..(N - 1)
      BY <2>7, <2>8, <2>9, <3>1, <3>2, <3>4 DEF Rising
    <3> QED  BY <3>2, <3>3, <3>4
  <2> QED  BY <2>3, <2>10, <2>11 DEF N
<1> DEFINE s == InOrder(S)
<1>2. s \in [1..Cardinality(S) -> S] /\ Rising(s)
  <2>1. PICK r \in [1..Cardinality(S) -> S] : Rising(r)
    BY <1>1
  <2>2. \E r1 \in [1..Cardinality(S) -> S] :
          \A m, n \in DOMAIN r1 : m < n => r1[m].seq < r1[n].seq
    BY <2>1 DEF Rising
  <2> QED  BY <2>2 DEF InOrder, Rising
<1>3. Cardinality(S) \in Nat
  BY FS_CardinalityType
<1>4. s \in Injection(1..Cardinality(S), S)
  <2>1. ASSUME NEW m \in 1..Cardinality(S), NEW n \in 1..Cardinality(S), m # n
        PROVE  s[m] # s[n]
    <3>1. s[m].seq \in Int /\ s[n].seq \in Int
      BY <1>2
    <3>2. m < n \/ n < m
      BY <1>3, <2>1
    <3> QED  BY <1>2, <3>1, <3>2 DEF Rising
  <2> HIDE DEF s
  <2> QED  BY <1>2, <2>1 DEF Injection, IsInjective
<1>5. s \in Surjection(1..Cardinality(S), S)
  BY <1>3, <1>4, UpTo, FS_Injection
<1> HIDE DEF s
<1>6. \A w \in S : \E i \in 1..Cardinality(S) : s[i] = w
  BY <1>5 DEF Surjection
<1> QED  BY <1>2, <1>6 DEF s

-----------------------------------------------------------------------------
(* What a readable file holds *)

\* The writes of a file are finitely many, each in one of its lines.
LEMMA WrittenIs ==
  ASSUME NEW f, Sound(f)
  PROVE  /\ IsFiniteSet(Written(f)) /\ Written(f) \subseteq Entry
         /\ \A w : w \in Written(f) <=>
              \E i \in 1..Len(f.lines) : \E j \in 1..Len(f.lines[i]) : w = f.lines[i][j]
<1>1. Len(f.lines) \in Nat /\ \A i \in 1..Len(f.lines) : f.lines[i] \in Seq(Entry)
  BY DEF Sound
<1>2. \A i \in 1..Len(f.lines) :
        Len(f.lines[i]) \in Nat /\ \A j \in 1..Len(f.lines[i]) : f.lines[i][j] \in Entry
  BY <1>1
<1>3. \A w : w \in Written(f) <=>
        \E i \in 1..Len(f.lines) : \E j \in 1..Len(f.lines[i]) : w = f.lines[i][j]
  BY DEF Written
<1>4. Written(f) \subseteq Entry
  BY <1>2, <1>3
<1> DEFINE on(i) == {f.lines[i][j] : j \in 1..Len(f.lines[i])}
           g == [i \in 1..Len(f.lines) |-> on(i)]
<1>5. \A i \in 1..Len(f.lines) : IsFiniteSet(on(i))
  BY <1>2, UpTo, FiniteImage
<1>6. Written(f) = UNION {g[i] : i \in 1..Len(f.lines)}
  <2>1. \A i \in 1..Len(f.lines) : \A w :
          w \in g[i] <=> \E j \in 1..Len(f.lines[i]) : w = f.lines[i][j]
    OBVIOUS
  <2> HIDE DEF g
  <2>2. \A w : w \in Written(f) <=> \E i \in 1..Len(f.lines) : w \in g[i]
    BY <1>3, <2>1
  <2> QED  BY <2>2
<1>7. IsFiniteSet({g[i] : i \in 1..Len(f.lines)})
  <2> HIDE DEF g
  <2> QED  BY <1>1, UpTo, FiniteImage
<1>8. \A T \in {g[i] : i \in 1..Len(f.lines)} : IsFiniteSet(T)
  BY <1>5
<1>9. IsFiniteSet(Written(f))
  <2> HIDE DEF g
  <2> QED  BY <1>6, <1>7, <1>8, FS_UNION
<1> QED  BY <1>3, <1>4, <1>9

\* No two writes of a file have the same sequence number.
LEMMA Distinct ==
  ASSUME NEW f, Sound(f), NEW v \in Written(f), NEW w \in Written(f), v.seq = w.seq
  PROVE  v = w
<1>1. PICK i \in 1..Len(f.lines) : \E m \in 1..Len(f.lines[i]) : v = f.lines[i][m]
  BY WrittenIs
<1>2. PICK m \in 1..Len(f.lines[i]) : v = f.lines[i][m]
  BY <1>1
<1>3. PICK j \in 1..Len(f.lines) : \E n \in 1..Len(f.lines[j]) : w = f.lines[j][n]
  BY WrittenIs
<1>4. PICK n \in 1..Len(f.lines[j]) : w = f.lines[j][n]
  BY <1>3
<1>5. i \in Int /\ j \in Int /\ m \in Int /\ n \in Int
  OBVIOUS
<1>6. v.seq \in Nat /\ w.seq \in Nat
  BY WrittenIs DEF Entry
<1>7. /\ i < j \/ (i = j /\ m < n) => v.seq < w.seq
      /\ j < i \/ (j = i /\ n < m) => w.seq < v.seq
  BY <1>2, <1>4 DEF Sound, Readable
<1>8. i = j /\ m = n
  BY <1>5, <1>6, <1>7
<1> QED  BY <1>2, <1>4, <1>8

\* Top is the highest sequence number the file knows of.
LEMMA TopIs ==
  ASSUME NEW f, Sound(f)
  PROVE  /\ Top(f) \in Nat /\ f.floor - 1 <= Top(f)
         /\ \A w \in Written(f) : w.seq <= Top(f)
         /\ Top(f) = f.floor - 1 \/ \E w \in Written(f) : w.seq = Top(f)
<1> DEFINE seqs == {w.seq : w \in Written(f)} \cup {f.floor - 1}
<1>1. /\ f.floor - 1 \in Nat /\ IsFiniteSet(Written(f))
      /\ \A w \in Written(f) : w.seq \in Nat
  <2>1. f.floor - 1 \in Nat
    BY DEF Sound
  <2> QED  BY <2>1, WrittenIs DEF Entry
<1>2. \E n \in seqs : \A s \in seqs : s <= n
  <2>1. CASE Written(f) = {}
    BY <1>1, <2>1
  <2>2. CASE Written(f) # {}
    <3>1. PICK w \in Written(f) : \A v \in Written(f) : v.seq <= w.seq
      BY <1>1, <2>2, LastOne
    <3>2. CASE w.seq <= f.floor - 1
      <4>1. f.floor - 1 \in seqs /\ \A s \in seqs : s <= f.floor - 1
        BY <1>1, <3>1, <3>2
      <4> QED  BY <4>1
    <3>3. CASE f.floor - 1 <= w.seq
      <4>1. w.seq \in seqs /\ \A s \in seqs : s <= w.seq
        BY <1>1, <3>1, <3>3
      <4> QED  BY <4>1
    <3> QED  BY <1>1, <3>2, <3>3
  <2> QED  BY <2>1, <2>2
<1>3. Top(f) \in seqs /\ \A s \in seqs : s <= Top(f)
  <2>1. Top(f) = CHOOSE n \in seqs : \A s \in seqs : s <= n
    BY DEF Top
  <2> HIDE DEF seqs
  <2> QED  BY <1>2, <2>1
<1> QED  BY <1>1, <1>3

\* What is at least every sequence number, and one of them, is the highest.
LEMMA TopOf ==
  ASSUME NEW f, Sound(f), NEW n \in Int, f.floor - 1 <= n, \A w \in Written(f) : w.seq <= n,
         n = f.floor - 1 \/ \E w \in Written(f) : w.seq = n
  PROVE  Top(f) = n
  BY TopIs DEF Sound

\* The value of a key is that of its last write.
LastOf(f, k, w) == w \in Written(f) /\ w.key = k /\ \A v \in Written(f) : v.key = k => v.seq <= w.seq

\* A key has at most one last write.
LEMMA LatestIs ==
  ASSUME NEW f, Sound(f), NEW k
  PROVE  /\ \A w : w \in Latest(f, k) <=> LastOf(f, k, w)
         /\ \A v, w \in Latest(f, k) : v = w
<1>1. \A w : w \in Latest(f, k) <=> LastOf(f, k, w)
  BY DEF Latest, LastOf
<1>2. ASSUME NEW v \in Latest(f, k), NEW w \in Latest(f, k) PROVE v = w
  <2>1. v \in Written(f) /\ w \in Written(f) /\ v.seq <= w.seq /\ w.seq <= v.seq
    BY <1>1 DEF LastOf
  <2>2. v.seq \in Nat /\ w.seq \in Nat
    BY <2>1, WrittenIs DEF Entry
  <2> QED  BY <2>1, <2>2, Distinct
<1> QED  BY <1>1, <1>2

\* Replay gives every key its last value, or none.
LEMMA ReplayOf ==
  ASSUME NEW f, Sound(f), NEW k \in Key
  PROVE  \/ Replay(f)[k] = Absent /\ \A w \in Written(f) : w.key # k
         \/ \E w : LastOf(f, k, w) /\ Replay(f)[k] = w.value
<1>1. CASE Latest(f, k) = {}
  <2>1. SUFFICES ASSUME NEW u \in Written(f), u.key = k PROVE FALSE
    BY <1>1 DEF Replay
  <2> DEFINE mine == {w \in Written(f) : w.key = k}
  <2>2. IsFiniteSet(mine) /\ mine # {} /\ \A w \in mine : w.seq \in Int
    <3>1. mine \in SUBSET Written(f) /\ mine # {}
      BY <2>1
    <3>2. \A w \in mine : w.seq \in Int
      BY WrittenIs DEF Entry
    <3> HIDE DEF mine
    <3> QED  BY <3>1, <3>2, WrittenIs, FS_Subset
  <2>3. PICK w \in mine : \A v \in mine : v.seq <= w.seq
    <3> HIDE DEF mine
    <3> QED  BY <2>2, LastOne
  <2> QED  BY <1>1, <2>3, LatestIs DEF LastOf
<1>2. CASE Latest(f, k) # {}
  <2>1. (CHOOSE w \in Latest(f, k) : TRUE) \in Latest(f, k)
    BY <1>2
  <2>2. Replay(f)[k] = (CHOOSE w \in Latest(f, k) : TRUE).value
    BY <1>2 DEF Replay
  <2> QED  BY <2>1, <2>2, LatestIs
<1> QED  BY <1>1, <1>2

\* ... and is known from the last write.
LEMMA ReplayIs ==
  ASSUME NEW f, Sound(f), NEW k \in Key
  PROVE  /\ (\A w \in Written(f) : w.key # k) => Replay(f)[k] = Absent
         /\ \A w : LastOf(f, k, w) => Replay(f)[k] = w.value
<1>1. (\A w \in Written(f) : w.key # k) => Replay(f)[k] = Absent
  BY ReplayOf DEF LastOf
<1>2. ASSUME NEW w, LastOf(f, k, w) PROVE Replay(f)[k] = w.value
  <2>1. w \in Written(f) /\ w.key = k
    BY <1>2 DEF LastOf
  <2>2. PICK v : LastOf(f, k, v) /\ Replay(f)[k] = v.value
    BY <2>1, ReplayOf
  <2> QED  BY <1>2, <2>2, LatestIs
<1> QED  BY <1>1, <1>2

\* Two maps that agree on every key are the same.
LEMMA SameReplay ==
  ASSUME NEW f, NEW map, map = [k \in Key |-> map[k]],
         \A k \in Key : Replay(f)[k] = map[k]
  PROVE  Replay(f) = map
<1>1. Replay(f) = [k \in Key |-> Replay(f)[k]]
  BY DEF Replay
<1> QED  BY <1>1

-----------------------------------------------------------------------------
(* A checkpoint changes what is in the file, and nothing that it says *)

\* What a checkpoint keeps: last writes that are not deletions.
LEMMA LiveIs ==
  ASSUME NEW f, Sound(f)
  PROVE  /\ IsFiniteSet(Live(f)) /\ Live(f) \subseteq Written(f)
         /\ \A w : w \in Live(f) <=> LastOf(f, w.key, w) /\ w.value # Absent
         /\ \A w \in Live(f) : w.seq \in Nat
         /\ \A v, w \in Live(f) : v.seq = w.seq => v = w
<1>1. Live(f) \subseteq Written(f)
  BY DEF Live
<1>2. \A w : w \in Live(f) <=> LastOf(f, w.key, w) /\ w.value # Absent
  BY LatestIs DEF Live, LastOf
<1>3. IsFiniteSet(Live(f))
  <2>1. Live(f) \in SUBSET Written(f)
    BY <1>1
  <2> QED  BY <2>1, WrittenIs, FS_Subset
<1>4. \A w \in Live(f) : w.seq \in Nat
  BY <1>1, WrittenIs DEF Entry
<1> QED  BY <1>1, <1>2, <1>3, <1>4, Distinct

\* A checkpoint is readable and holds the live writes, no others.
LEMMA CompactedFile ==
  ASSUME NEW f, Sound(f)
  PROVE  Sound(Compacted(f)) /\ Written(Compacted(f)) = Live(f)
<1> DEFINE S == Live(f)
           n == Cardinality(S)
           s == InOrder(S)
           g == Compacted(f)
<1>1. n \in Nat /\ s \in [1..n -> S] /\ Rising(s) /\ \A w \in S : \E i \in 1..n : s[i] = w
  <2>1. \A w \in S : w.seq \in Int
    BY LiveIs
  <2>2. \A v, w \in S : v.seq = w.seq => v = w
    BY LiveIs
  <2>3. IsFiniteSet(S)
    BY LiveIs
  <2> HIDE DEF S
  <2> QED  BY <2>1, <2>2, <2>3, Sorted, FS_CardinalityType
<1>2. S \subseteq Entry
  BY LiveIs, WrittenIs
<1>3. g = [floor |-> Top(f) + 1, lines |-> [i \in 1..n |-> <<s[i]>>], tail |-> "none"]
  BY DEF Compacted, OneEach
<1> HIDE DEF S, n, s, g
<1>4. g.lines = [i \in 1..n |-> <<s[i]>>] /\ Len(g.lines) = n
  BY <1>1, <1>3
<1>5. \A i \in 1..n : s[i] \in Entry
  BY <1>1, <1>2
<1>6. g.lines \in Seq(Seq(Entry))
  BY <1>1, <1>4, <1>5
<1>7. \A i \in 1..n : g.lines[i] = <<s[i]>> /\ Len(g.lines[i]) = 1 /\ g.lines[i][1] = s[i]
  BY <1>4
<1>8. Readable(g)
  <2>1. \A i \in 1..n : g.lines[i] # Corrupt
    BY <1>7 DEF Corrupt
  <2>2. ASSUME NEW i \in 1..n, NEW j \in 1..n, NEW l \in 1..1, NEW m \in 1..1,
               i < j \/ (i = j /\ l < m)
        PROVE  g.lines[i][l].seq < g.lines[j][m].seq
    <3>1. l = 1 /\ m = 1 /\ i < j
      BY <2>2
    <3>2. s[i].seq < s[j].seq
      BY <1>1, <3>1 DEF Rising
    <3> QED  BY <1>7, <3>1, <3>2
  <2> QED  BY <1>4, <1>7, <2>1, <2>2 DEF Readable
<1>9. Sound(g)
  <2>1. Top(f) + 1 \in Nat \ {0}
    BY TopIs
  <2> QED  BY <1>3, <1>6, <1>8, <2>1 DEF Sound
<1>10. Written(g) = S
  <2>1. \A w : w \in Written(g) <=>
          \E i \in 1..Len(g.lines) : \E j \in 1..Len(g.lines[i]) : w = g.lines[i][j]
    BY <1>9, WrittenIs
  <2>2. \A w : w \in Written(g) => \E i \in 1..n : w = s[i]
    <3>1. SUFFICES ASSUME NEW w \in Written(g) PROVE \E i \in 1..n : w = s[i]
      OBVIOUS
    <3>2. PICK i \in 1..n : \E j \in 1..Len(g.lines[i]) : w = g.lines[i][j]
      BY <1>4, <2>1
    <3>3. PICK j \in 1..1 : w = g.lines[i][j]
      BY <1>7, <3>2
    <3> QED  BY <1>7, <3>3
  <2>3. ASSUME NEW i \in 1..n PROVE s[i] \in Written(g)
    <3>1. i \in 1..Len(g.lines)
      BY <1>4
    <3>2. 1 \in 1..Len(g.lines[i])
      BY <1>7
    <3>3. g.lines[i][1] = s[i]
      BY <1>7
    <3> QED  BY <2>1, <3>1, <3>2, <3>3
  <2>4. Written(g) \subseteq S
    BY <1>1, <2>2
  <2>5. S \subseteq Written(g)
    BY <1>1, <2>3
  <2> QED  BY <2>4, <2>5
<1> QED  BY <1>9, <1>10 DEF g, S

\* A checkpoint says the same of every key and of the sequence numbers.
LEMMA CompactedIs ==
  ASSUME NEW f, Sound(f)
  PROVE  /\ Sound(Compacted(f)) /\ Compacted(f).tail = "none"
         /\ Top(Compacted(f)) = Top(f) /\ Replay(Compacted(f)) = Replay(f)
<1> DEFINE g == Compacted(f)
<1>1. Sound(g) /\ Written(g) = Live(f)
  BY CompactedFile
<1>2. g.floor = Top(f) + 1 /\ g.tail = "none"
  BY DEF Compacted
<1>3. Top(g) = Top(f)
  <2>1. Top(f) \in Int /\ g.floor - 1 = Top(f)
    BY <1>2, TopIs
  <2>2. \A w \in Written(g) : w.seq <= Top(f)
    BY <1>1, LiveIs, TopIs
  <2> HIDE DEF g
  <2> QED  BY <1>1, <2>1, <2>2, TopOf
<1>4. ASSUME NEW k \in Key PROVE Replay(g)[k] = Replay(f)[k]
  <2>1. CASE \A w \in Written(f) : w.key # k
    <3>1. \A w \in Written(g) : w.key # k
      BY <1>1, <2>1, LiveIs
    <3> HIDE DEF g
    <3> QED  BY <1>1, <2>1, <3>1, ReplayIs
  <2>2. CASE \E w \in Written(f) : w.key = k
    <3>1. PICK w : LastOf(f, k, w) /\ Replay(f)[k] = w.value
      BY <2>2, ReplayOf
    <3>2. ASSUME NEW v \in Written(g), v.key = k PROVE v = w
      <4>1. LastOf(f, k, v)
        BY <1>1, <3>2, LiveIs
      <4> QED  BY <3>1, <4>1, LatestIs
    <3>3. CASE w.value = Absent
      <4>1. \A v \in Written(g) : v.key # k
        BY <1>1, <3>2, <3>3, LiveIs
      <4> HIDE DEF g
      <4> QED  BY <1>1, <3>1, <3>3, <4>1, ReplayIs
    <3>4. CASE w.value # Absent
      <4>1. w \in Written(g) /\ w.key = k /\ w.seq \in Nat
        BY <1>1, <3>1, <3>4, LiveIs DEF LastOf
      <4>2. LastOf(g, k, w)
        <5> HIDE DEF g
        <5> QED  BY <3>2, <4>1 DEF LastOf
      <4> HIDE DEF g
      <4> QED  BY <1>1, <3>1, <4>2, ReplayIs
    <3> QED  BY <3>3, <3>4
  <2> QED  BY <2>1, <2>2
<1>5. Replay(g) = Replay(f)
  <2>1. Replay(f) = [k \in Key |-> Replay(f)[k]]
    BY DEF Replay
  <2> HIDE DEF g
  <2> QED  BY <1>4, <2>1, SameReplay
<1> QED  BY <1>1, <1>2, <1>3, <1>5

-----------------------------------------------------------------------------
(* A transaction that is appended is applied as a whole *)

\* The write of a transaction that decides the value of a key.
LEMMA ApplyIs ==
  ASSUME NEW t \in Transaction, NEW map, NEW k \in Key
  PROVE  \/ /\ Store!Apply(t, map)[k] = map[k]
            /\ \A i \in 1..Len(t) : t[i].key # k
         \/ \E i \in 1..Len(t) :
               /\ t[i].key = k /\ Store!Apply(t, map)[k] = t[i].value
               /\ \A j \in 1..Len(t) : t[j].key = k => j <= i
<1> DEFINE mine == {i \in 1..Len(t) : t[i].key = k}
<1>1. Store!Apply(t, map)[k] =
        IF mine = {} THEN map[k]
        ELSE t[CHOOSE i \in mine : \A j \in mine : j <= i].value
  BY DEF Store!Apply
<1>2. CASE mine = {}
  BY <1>1, <1>2
<1>3. CASE mine # {}
  <2>1. mine \subseteq Int /\ IsFiniteSet(mine)
    <3>1. mine \in SUBSET (1..Len(t)) /\ Len(t) \in Nat
      BY JournalAssumption
    <3>2. mine \subseteq Int
      BY <3>1
    <3> HIDE DEF mine
    <3> QED  BY <3>1, <3>2, UpTo, FS_Subset
  <2>2. \E i \in mine : \A j \in mine : j <= i
    <3> HIDE DEF mine
    <3> QED  BY <1>3, <2>1, Largest
  <2>3. PICK i \in mine : /\ \A j \in mine : j <= i
                          /\ i = CHOOSE m \in mine : \A j \in mine : j <= m
    <3> HIDE DEF mine
    <3> QED  BY <2>2
  <2>4. Store!Apply(t, map)[k] = t[i].value
    <3> HIDE DEF mine
    <3> QED  BY <1>1, <1>3, <2>3
  <2> QED  BY <2>3, <2>4
<1> QED  BY <1>2, <1>3

\* The line of a transaction.
LEMMA NumberedIs ==
  ASSUME NEW t \in Transaction, NEW n \in Nat
  PROVE  /\ Numbered(t, n) \in Seq(Entry) /\ Len(Numbered(t, n)) = Len(t)
         /\ Len(t) \in Nat \ {0} /\ Numbered(t, n) # Corrupt
         /\ \A i \in 1..Len(t) : /\ Numbered(t, n)[i].key = t[i].key
                                 /\ Numbered(t, n)[i].value = t[i].value
                                 /\ Numbered(t, n)[i].seq = n + i - 1
<1>1. Len(t) \in Nat \ {0} /\ \A i \in 1..Len(t) : t[i].key \in Key
  BY JournalAssumption
<1>2. \A i \in 1..Len(t) : t[i].value \in Value
  BY DEF Value
<1>3. \A i \in 1..Len(t) : n + i - 1 \in Nat
  BY <1>1
<1>4. \A i \in 1..Len(t) :
        [key |-> t[i].key, value |-> t[i].value, seq |-> n + i - 1] \in Entry
  BY <1>1, <1>2, <1>3 DEF Entry
<1>5. Numbered(t, n) \in Seq(Entry) /\ Len(Numbered(t, n)) = Len(t)
  BY <1>1, <1>4 DEF Numbered
<1>6. Numbered(t, n) # Corrupt
  BY <1>1, <1>5 DEF Corrupt
<1> QED  BY <1>1, <1>5, <1>6 DEF Numbered

\* The file with one more line.
Appended(f, l) == [f EXCEPT !.tail = "none", !.lines = Append(f.lines, l)]

\* The next line makes a readable file with its writes in it.
LEMMA AppendedFile ==
  ASSUME NEW f, Sound(f), NEW t \in Transaction, NEW n, n = Top(f) + 1
  PROVE  /\ Sound(Appended(f, Numbered(t, n)))
         /\ \A w : w \in Written(Appended(f, Numbered(t, n))) <=>
              w \in Written(f) \/ \E i \in 1..Len(t) : w = Numbered(t, n)[i]
<1> DEFINE l == Numbered(t, n)
           g == Appended(f, l)
           N == Len(f.lines)
<1>1. n \in Nat /\ N \in Nat /\ f.lines \in Seq(Seq(Entry))
  BY TopIs DEF Sound
<1>2. l \in Seq(Entry) /\ Len(l) = Len(t) /\ l # Corrupt
      /\ \A i \in 1..Len(l) : l[i].seq = n + i - 1
  BY <1>1, NumberedIs
<1>3. g.floor = f.floor /\ g.tail = "none" /\ DOMAIN g = DOMAIN f
      /\ g.lines = Append(f.lines, l)
  BY DEF Appended, Sound
<1> HIDE DEF l, g, N
<1>4. g.lines \in Seq(Seq(Entry)) /\ Len(g.lines) = N + 1 /\ g.lines[N + 1] = l
      /\ \A i \in 1..N : g.lines[i] = f.lines[i]
  BY <1>1, <1>2, <1>3 DEF N
<1>5. \A i \in 1..Len(g.lines) : i \in 1..N \/ i = N + 1
  BY <1>1, <1>4
<1>6. \A i \in 1..N : \A m \in 1..Len(f.lines[i]) :
        f.lines[i][m] \in Written(f) /\ f.lines[i][m].seq \in Nat /\ f.lines[i][m].seq < n
  <2>1. \A i \in 1..N : \A m \in 1..Len(f.lines[i]) : f.lines[i][m] \in Written(f)
    BY WrittenIs DEF N
  <2>2. \A w \in Written(f) : w.seq \in Nat /\ w.seq <= Top(f)
    BY WrittenIs, TopIs DEF Entry
  <2>3. Top(f) \in Nat
    BY TopIs
  <2> QED  BY <2>1, <2>2, <2>3
<1>7. Readable(g)
  <2>1. \A i \in 1..Len(g.lines) : g.lines[i] # Corrupt
    BY <1>2, <1>4, <1>5 DEF Sound, Readable, N
  <2>2. ASSUME NEW i \in 1..Len(g.lines), NEW j \in 1..Len(g.lines),
               NEW a \in 1..Len(g.lines[i]), NEW b \in 1..Len(g.lines[j]),
               i < j \/ (i = j /\ a < b)
        PROVE  g.lines[i][a].seq < g.lines[j][b].seq
    <3>1. CASE i \in 1..N /\ j \in 1..N
      <4>1. /\ a \in 1..Len(f.lines[i]) /\ b \in 1..Len(f.lines[j])
            /\ g.lines[i][a] = f.lines[i][a] /\ g.lines[j][b] = f.lines[j][b]
        BY <1>4, <3>1
      <4> QED  BY <2>2, <3>1, <4>1 DEF Sound, Readable, N
    <3>2. CASE i \in 1..N /\ j = N + 1
      <4>1. a \in 1..Len(f.lines[i]) /\ g.lines[i][a] = f.lines[i][a]
        BY <1>4, <3>2
      <4>2. b \in 1..Len(l) /\ g.lines[j][b] = l[b]
        BY <1>4, <3>2
      <4>3. l[b].seq = n + b - 1 /\ b \in Nat \ {0}
        BY <1>2, <4>2
      <4>4. f.lines[i][a].seq \in Nat /\ f.lines[i][a].seq < n
        BY <1>6, <3>2, <4>1
      <4>5. \A c \in Nat : c < n => c < n + b - 1
        BY <1>1, <4>3
      <4> QED  BY <4>1, <4>2, <4>3, <4>4, <4>5
    <3>3. CASE i = N + 1 /\ j = N + 1
      <4>1. a \in 1..Len(l) /\ b \in 1..Len(l) /\ a < b
            /\ g.lines[i][a] = l[a] /\ g.lines[j][b] = l[b]
        BY <1>1, <1>4, <2>2, <3>3
      <4>2. l[a].seq = n + a - 1 /\ l[b].seq = n + b - 1
        BY <1>2, <4>1
      <4> QED  BY <1>1, <4>1, <4>2
    <3>4. ~(i = N + 1 /\ j \in 1..N)
      BY <1>1, <2>2
    <3> QED  BY <1>5, <3>1, <3>2, <3>3, <3>4
  <2> QED  BY <2>1, <2>2 DEF Readable
<1>8. Sound(g)
  BY <1>3, <1>4, <1>7 DEF Sound
<1>9. ASSUME NEW w PROVE w \in Written(g) <=> w \in Written(f) \/ \E i \in 1..Len(t) : w = l[i]
  <2>1. ASSUME w \in Written(g) PROVE w \in Written(f) \/ \E i \in 1..Len(t) : w = l[i]
    <3>1. PICK i \in 1..Len(g.lines) : \E j \in 1..Len(g.lines[i]) : w = g.lines[i][j]
      BY <1>8, <2>1, WrittenIs
    <3>2. PICK j \in 1..Len(g.lines[i]) : w = g.lines[i][j]
      BY <3>1
    <3>3. CASE i \in 1..N
      BY <1>4, <1>6, <3>2, <3>3
    <3>4. CASE i = N + 1
      BY <1>2, <1>4, <3>2, <3>4
    <3> QED  BY <1>5, <3>3, <3>4
  <2>2. ASSUME w \in Written(f) PROVE w \in Written(g)
    <3>1. PICK i \in 1..N : \E j \in 1..Len(f.lines[i]) : w = f.lines[i][j]
      BY <2>2, WrittenIs DEF N
    <3>2. PICK j \in 1..Len(f.lines[i]) : w = f.lines[i][j]
      BY <3>1
    <3>3. i \in 1..Len(g.lines)
      BY <1>1, <1>4
    <3>4. j \in 1..Len(g.lines[i]) /\ w = g.lines[i][j]
      BY <1>4, <3>2
    <3> QED  BY <1>8, <3>3, <3>4, WrittenIs
  <2>3. ASSUME NEW i \in 1..Len(t), w = l[i] PROVE w \in Written(g)
    <3>1. N + 1 \in 1..Len(g.lines)
      BY <1>1, <1>4
    <3>2. i \in 1..Len(g.lines[N + 1]) /\ w = g.lines[N + 1][i]
      BY <1>2, <1>4, <2>3
    <3> QED  BY <1>8, <3>1, <3>2, WrittenIs
  <2> QED  BY <2>1, <2>2, <2>3
<1> QED  BY <1>8, <1>9 DEF g, l

\* The next line applies its transaction and uses its sequence numbers.
LEMMA AppendedIs ==
  ASSUME NEW f, Sound(f), NEW t \in Transaction, NEW n, n = Top(f) + 1
  PROVE  /\ Sound(Appended(f, Numbered(t, n)))
         /\ Top(Appended(f, Numbered(t, n))) = Top(f) + Len(t)
         /\ Replay(Appended(f, Numbered(t, n))) = Store!Apply(t, Replay(f))
<1> DEFINE l == Numbered(t, n)
           g == Appended(f, l)
<1>1. n \in Nat /\ Top(f) \in Nat
  BY TopIs
<1>2. Len(t) \in Nat \ {0}
      /\ \A i \in 1..Len(t) : l[i].key = t[i].key /\ l[i].value = t[i].value /\ l[i].seq = n + i - 1
  BY <1>1, NumberedIs
<1>3. Sound(g) /\ \A w : w \in Written(g) <=> w \in Written(f) \/ \E i \in 1..Len(t) : w = l[i]
  BY AppendedFile
<1>4. g.floor = f.floor
  BY DEF Appended
<1> HIDE DEF l, g
<1>5. Top(g) = Top(f) + Len(t)
  <2>1. f.floor - 1 <= Top(f) /\ f.floor \in Nat
    BY TopIs DEF Sound
  <2>2. ASSUME NEW w \in Written(g) PROVE w.seq <= Top(f) + Len(t)
    <3>1. CASE w \in Written(f)
      <4>1. w.seq <= Top(f) /\ w.seq \in Nat
        BY <3>1, TopIs, WrittenIs DEF Entry
      <4> QED  BY <1>1, <1>2, <4>1
    <3>2. ASSUME NEW i \in 1..Len(t), w = l[i] PROVE w.seq <= Top(f) + Len(t)
      BY <1>1, <1>2, <3>2
    <3> QED  BY <1>3, <3>1, <3>2
  <2>3. l[Len(t)] \in Written(g) /\ l[Len(t)].seq = Top(f) + Len(t)
    <3>1. Len(t) \in 1..Len(t)
      BY <1>2
    <3>2. l[Len(t)].seq = n + Len(t) - 1
      BY <1>2, <3>1
    <3> QED  BY <1>1, <1>2, <1>3, <3>1, <3>2
  <2>4. g.floor - 1 <= Top(f) + Len(t) /\ Top(f) + Len(t) \in Int
    BY <1>1, <1>2, <1>4, <2>1
  <2> QED  BY <1>3, <2>2, <2>3, <2>4, TopOf
<1>6. ASSUME NEW k \in Key PROVE Replay(g)[k] = Store!Apply(t, Replay(f))[k]
  <2>1. CASE \A i \in 1..Len(t) : t[i].key # k
    <3>1. Store!Apply(t, Replay(f))[k] = Replay(f)[k]
      BY <2>1, ApplyIs
    <3>2. ASSUME NEW w, w.key = k PROVE w \in Written(g) <=> w \in Written(f)
      <4>1. \A i \in 1..Len(t) : l[i].key # k
        BY <1>2, <2>1
      <4>2. \A i \in 1..Len(t) : w # l[i]
        BY <3>2, <4>1
      <4> QED  BY <1>3, <4>2
    <3>3. CASE \A w \in Written(f) : w.key # k
      BY <1>3, <3>1, <3>2, <3>3, ReplayIs
    <3>4. CASE \E w : LastOf(f, k, w) /\ Replay(f)[k] = w.value
      <4>1. PICK w : LastOf(f, k, w) /\ Replay(f)[k] = w.value
        BY <3>4
      <4>2. LastOf(g, k, w)
        BY <3>2, <4>1 DEF LastOf
      <4> QED  BY <1>3, <3>1, <4>1, <4>2, ReplayIs
    <3> QED  BY <3>3, <3>4, ReplayOf
  <2>2. ASSUME NEW i \in 1..Len(t), t[i].key = k,
               Store!Apply(t, Replay(f))[k] = t[i].value,
               \A j \in 1..Len(t) : t[j].key = k => j <= i
        PROVE  Replay(g)[k] = Store!Apply(t, Replay(f))[k]
    <3>1. l[i].key = k /\ l[i].value = t[i].value /\ l[i].seq = n + i - 1 /\ l[i] \in Written(g)
      BY <1>2, <1>3, <2>2
    <3>2. ASSUME NEW v \in Written(g), v.key = k PROVE v.seq <= l[i].seq
      <4>1. CASE v \in Written(f)
        <5>1. v.seq <= Top(f) /\ v.seq \in Nat
          BY <4>1, TopIs, WrittenIs DEF Entry
        <5> QED  BY <1>1, <3>1, <5>1
      <4>2. ASSUME NEW j \in 1..Len(t), v = l[j] PROVE v.seq <= l[i].seq
        <5>1. t[j].key = k /\ v.seq = n + j - 1
          BY <1>2, <3>2, <4>2
        <5>2. j <= i
          BY <2>2, <5>1
        <5> QED  BY <1>1, <3>1, <5>1, <5>2
      <4> QED  BY <1>3, <4>1, <4>2
    <3>3. LastOf(g, k, l[i])
      BY <3>1, <3>2 DEF LastOf
    <3> QED  BY <1>3, <2>2, <3>1, <3>3, ReplayIs
  <2> QED  BY <2>1, <2>2, ApplyIs
<1>7. Replay(g) = Store!Apply(t, Replay(f))
  <2>1. Store!Apply(t, Replay(f)) = [k \in Key |-> Store!Apply(t, Replay(f))[k]]
    BY DEF Store!Apply
  <2> QED  BY <1>6, <2>1, SameReplay
<1> QED  BY <1>3, <1>5, <1>7 DEF g, l

-----------------------------------------------------------------------------
(* The inductive invariant *)

Phases == {"out", "opening", "open", "closing"}
Points == {"idle", "compact", "rename", "append", "partial", "written"}

\* A process that has replayed the journal and not yet left.
Attached(p) == phase[p] \in {"open", "closing"} \/ (phase[p] = "opening" /\ step[p] # "idle")

\* The types the proofs need.
Shaped ==
    /\ holder \in Owner \cup {Absent}
    /\ phase \in [Owner -> Phases]
    /\ step \in [Owner -> Points]
    /\ line \in [Owner -> Seq(Transaction)]
    /\ \A p \in Owner : Len(line[p]) <= MaxWaiting
    /\ job \in [Owner -> Transaction \cup {Absent}]
    /\ memory = [p \in Owner |-> memory[p]]
    /\ nextSeq \in [Owner -> 1..MaxSequence]
    /\ fence \in [Owner -> BOOLEAN]
    /\ temp = [p \in Owner |-> temp[p]]
    /\ doubt \in Transaction \cup {Absent}
    /\ issued \in Nat

\* Whoever is not out holds the lock, so nobody else moves.
Role(p) ==
    /\ phase[p] # "out" => holder = p
    /\ phase[p] = "out" => step[p] = "idle" /\ ~fence[p]
    /\ phase[p] = "opening" => step[p] \in {"idle", "compact", "rename"} /\ ~fence[p]

\* The file can be opened, and says what is agreed or what is in doubt.
Filed ==
    /\ Sound(journal) /\ issued <= Top(journal) /\ Top(journal) < MaxSequence
    /\ \/ Replay(journal) = agreed
       \/ doubt # Absent /\ Replay(journal) = Store!Apply(doubt, agreed)

\* The owner knows what is in the file: what it serves ...
Level(p) ==
    /\ nextSeq[p] = Top(journal) + 1 /\ Replay(journal) = agreed
    /\ journal.tail = IF step[p] = "partial" THEN "partial" ELSE "none"

\* ... or one transaction more.
Ahead(p) ==
    /\ nextSeq[p] + Len(job[p]) = Top(journal) + 1
    /\ Replay(journal) = Store!Apply(job[p], agreed)
    /\ journal.tail = "none"

\* What the owner has to do with the file, at each point of a mutation.
Serves(p) ==
    /\ memory[p] = agreed /\ issued < nextSeq[p]
    /\ phase[p] = "opening" => doubt = Absent
    /\ step[p] = "idle" /\ ~fence[p] => doubt = Absent
    /\ step[p] # "idle" /\ phase[p] # "opening" =>
          job[p] \in Transaction /\ doubt = job[p] /\ Fits(p, job[p])
    /\ fence[p] => step[p] = "idle"
    /\ step[p] = "rename" => temp[p] = Compacted(journal)
    /\ ~fence[p] /\ step[p] # "written" => Level(p)
    /\ step[p] = "written" => Ahead(p)

\* The inductive invariant.
JournalInv ==
    /\ Shaped /\ Filed
    /\ \A p \in Owner : Role(p) /\ (Attached(p) => Serves(p))

\* An empty journal says that there is nothing.
LEMMA InitJournalInv == JournalInit => JournalInv
<1> SUFFICES ASSUME JournalInit PROVE JournalInv
  OBVIOUS
<1>1. Shaped
  <2>1. 1 \in 1..MaxSequence
    BY JournalAssumption
  <2>2. \A p \in Owner : line[p] \in Seq(Transaction) /\ Len(line[p]) = 0
    BY DEF JournalInit
  <2> QED  BY <2>1, <2>2, JournalAssumption DEF JournalInit, Shaped, Phases, Points
<1>2. Filed
  <2>1. Sound(journal) /\ journal.lines = <<>> /\ journal.floor = 1
    BY DEF JournalInit, Sound, Readable
  <2>2. Written(journal) = {}
    BY <2>1 DEF Written
  <2>3. Top(journal) = 0
    BY <2>1, <2>2, TopOf
  <2>4. Replay(journal) = Empty
    <3>1. Empty = [k \in Key |-> Empty[k]] /\ \A k \in Key : Empty[k] = Absent
      BY DEF Empty
    <3> QED  BY <2>1, <2>2, <3>1, ReplayIs, SameReplay
  <2> QED  BY <2>1, <2>3, <2>4, JournalAssumption DEF Filed, JournalInit
<1>3. \A p \in Owner : Role(p) /\ ~Attached(p)
  BY DEF JournalInit, Role, Attached
<1> QED  BY <1>1, <1>2, <1>3 DEF JournalInv

-----------------------------------------------------------------------------
(* Steps *)

\* The unfinished line is not part of what the file says.
LEMMA Retailed ==
  ASSUME NEW f, Sound(f), NEW tail \in {"none", "partial"}
  PROVE  /\ Sound([f EXCEPT !.tail = tail]) /\ [f EXCEPT !.tail = tail].tail = tail
         /\ Top([f EXCEPT !.tail = tail]) = Top(f)
         /\ Replay([f EXCEPT !.tail = tail]) = Replay(f)
<1> DEFINE g == [f EXCEPT !.tail = tail]
<1>1. g.lines = f.lines /\ g.floor = f.floor /\ g.tail = tail /\ DOMAIN g = DOMAIN f
  BY DEF Sound
<1> HIDE DEF g
<1>2. Written(g) = Written(f)
  BY <1>1 DEF Written
<1>3. Top(g) = Top(f)
  BY <1>1, <1>2 DEF Top
<1>4. Replay(g) = Replay(f)
  BY <1>2 DEF Replay, Latest
<1>5. Sound(g)
  BY <1>1 DEF Sound, Readable
<1> QED  BY <1>1, <1>3, <1>4, <1>5 DEF g

\* Besides the owner, everybody is out.
LEMMA Alone ==
  ASSUME JournalInv, NEW p \in Owner, phase[p] # "out", NEW q \in Owner, q # p
  PROVE  phase[q] = "out" /\ step[q] = "idle" /\ ~fence[q]
BY DEF JournalInv, Role

\* A step of the owner that stays.
LEMMA OwnerStays ==
  ASSUME JournalInv, NEW p \in Owner, phase[p] # "out", Shaped', Filed',
         \A q \in Owner \ {p} : phase'[q] = phase[q] /\ step'[q] = step[q] /\ fence'[q] = fence[q],
         Role(p)', Attached(p)' => Serves(p)'
  PROVE  JournalInv'
<1>1. \A q \in Owner \ {p} : Role(q)' /\ ~Attached(q)'
  BY Alone DEF Role, Attached
<1> QED  BY <1>1 DEF JournalInv

\* The owner leaves: what it knew is lost, and the file is what it is.
LEMMA OwnerLeaves ==
  ASSUME JournalInv, NEW p \in Owner, phase[p] # "out", Leave(p),
         UNCHANGED <<journal, agreed, doubt, issued>>
  PROVE  JournalInv'
<1>1. \A q \in Owner : phase'[q] = "out" /\ step'[q] = "idle" /\ ~fence'[q]
  BY Alone DEF Leave, JournalInv, Shaped
<1>2. Shaped'
  <2>1. 1 \in 1..MaxSequence /\ <<>> \in Seq(Transaction) /\ Len(<<>>) = 0 /\ MaxWaiting >= 0
    BY JournalAssumption
  <2> QED  BY <1>1, <2>1 DEF Leave, JournalInv, Shaped, Phases, Points
<1>3. Filed'
  BY DEF JournalInv, Filed
<1> QED  BY <1>1, <1>2, <1>3 DEF JournalInv, Role, Attached

\* Taking the lock changes nothing else.
LEMMA AcquireStep ==
  ASSUME JournalInv, NEW p \in Owner, Acquire(p)
  PROVE  JournalInv'
<1>1. \A q \in Owner : phase[q] = "out" /\ step[q] = "idle" /\ ~fence[q]
  BY JournalAssumption DEF Acquire, JournalInv, Role
<1>2. Shaped' /\ Filed'
  BY DEF Acquire, JournalInv, Shaped, Filed, Phases, outcome
<1>3. \A q \in Owner : Role(q)' /\ ~Attached(q)'
  BY <1>1 DEF Acquire, Role, Attached, JournalInv, Shaped
<1> QED  BY <1>2, <1>3 DEF JournalInv

\* Opening settles what is in doubt, as the file says.
LEMMA OpenStep ==
  ASSUME JournalInv, NEW p \in Owner, Open(p)
  PROVE  JournalInv' /\ (Store!Resolve \/ UNCHANGED <<agreed, doubt>>)
<1> USE DEF Open
<1>1. /\ Sound(journal) /\ Top(journal) \in Nat /\ Top(journal) < MaxSequence
      /\ issued <= Top(journal) /\ issued \in Nat /\ MaxSequence \in Nat
  BY TopIs, JournalAssumption DEF JournalInv, Filed, Shaped
<1>2. /\ Sound(journal') /\ journal'.tail = "none"
      /\ Top(journal') = Top(journal) /\ Replay(journal') = Replay(journal)
  BY <1>1, Retailed DEF Repaired
<1>3. Shaped'
  <2>1. Top(journal) + 1 \in 1..MaxSequence
    BY <1>1
  <2> QED  BY <2>1 DEF JournalInv, Shaped, Points
<1>4. Filed'
  BY <1>1, <1>2 DEF Filed
<1>5. Role(p)'
  BY DEF Role, JournalInv, Shaped
<1>6. Serves(p)'
  <2>1. /\ phase'[p] = "opening" /\ step'[p] = "compact" /\ ~fence'[p]
        /\ memory'[p] = agreed' /\ nextSeq'[p] = Top(journal) + 1
    BY DEF JournalInv, Shaped, Role
  <2>2. Level(p)'
    BY <1>2, <2>1 DEF Level
  <2> QED  BY <1>1, <2>1, <2>2 DEF Serves
<1>7. JournalInv'
  <2>1. phase[p] # "out"
        /\ \A q \in Owner \ {p} : phase'[q] = phase[q] /\ step'[q] = step[q] /\ fence'[q] = fence[q]
    BY DEF JournalInv, Shaped
  <2> QED  BY <1>3, <1>4, <1>5, <1>6, <2>1, OwnerStays
<1>8. Store!Resolve \/ UNCHANGED <<agreed, doubt>>
  BY JournalAssumption DEF JournalInv, Filed, Shaped, Store!Resolve
<1> QED  BY <1>7, <1>8

\* The line of waiting mutations moves on.
LEMMA WaitStep ==
  ASSUME JournalInv, NEW p \in Owner,
         (\E t \in Transaction : Mutate(p, t)) \/ Reject(p) \/ Close(p)
  PROVE  JournalInv'
<1>1. /\ phase[p] = "open" /\ phase'[p] \in {"open", "closing"}
      /\ \A q \in Owner \ {p} : phase'[q] = phase[q]
      /\ UNCHANGED <<holder, journal, step, job, memory, nextSeq, fence, temp, outcome>>
  BY DEF Mutate, Reject, Close, JournalInv, Shaped
<1>2. line' \in [Owner -> Seq(Transaction)] /\ \A q \in Owner : Len(line'[q]) <= MaxWaiting
  <2>1. line \in [Owner -> Seq(Transaction)] /\ \A q \in Owner : Len(line[q]) <= MaxWaiting
    BY DEF JournalInv, Shaped
  <2>2. MaxWaiting \in Nat
    BY JournalAssumption
  <2>3. ASSUME NEW t \in Transaction, Mutate(p, t)
        PROVE  line' \in [Owner -> Seq(Transaction)] /\ \A q \in Owner : Len(line'[q]) <= MaxWaiting
    BY <2>1, <2>2, <2>3 DEF Mutate
  <2>4. ASSUME Reject(p)
        PROVE  line' \in [Owner -> Seq(Transaction)] /\ \A q \in Owner : Len(line'[q]) <= MaxWaiting
    <3>1. Tail(line[p]) \in Seq(Transaction) /\ Len(Tail(line[p])) <= MaxWaiting
      BY <2>1, <2>2, <2>4 DEF Reject
    <3> QED  BY <2>1, <2>4, <3>1 DEF Reject
  <2>5. ASSUME Close(p)
        PROVE  line' \in [Owner -> Seq(Transaction)] /\ \A q \in Owner : Len(line'[q]) <= MaxWaiting
    <3>1. <<>> \in Seq(Transaction) /\ Len(<<>>) <= MaxWaiting
      BY <2>2
    <3> QED  BY <2>1, <2>5, <3>1 DEF Close
  <2> QED  BY <2>3, <2>4, <2>5
<1>3. phase' \in [Owner -> Phases]
  BY DEF Mutate, Reject, Close, JournalInv, Shaped, Phases
<1>4. Shaped' /\ Filed'
  BY <1>1, <1>2, <1>3 DEF JournalInv, Shaped, Filed, outcome
<1>5. Role(p)' /\ Serves(p)'
  BY <1>1 DEF JournalInv, Role, Attached, Serves, Level, Ahead, Fits, outcome
<1> QED  BY <1>1, <1>4, <1>5, OwnerStays

\* A mutation starts only when nothing is in doubt, and is in doubt then.
LEMMA StartStep ==
  ASSUME JournalInv, NEW p \in Owner, Start(p)
  PROVE  JournalInv' /\ Store!Try
<1> USE DEF Start
<1>1. Head(line[p]) \in Transaction /\ Tail(line[p]) \in Seq(Transaction)
      /\ Len(Tail(line[p])) <= MaxWaiting
  <2>1. line[p] \in Seq(Transaction) /\ Len(line[p]) <= MaxWaiting /\ MaxWaiting \in Nat
    BY JournalAssumption DEF JournalInv, Shaped
  <2> QED  BY <2>1
<1>2. Serves(p) /\ doubt = Absent /\ Level(p)
  BY DEF JournalInv, Attached, Serves
<1>3. Shaped'
  BY <1>1 DEF JournalInv, Shaped, Points
<1>4. Filed'
  BY <1>2 DEF JournalInv, Filed, Level
<1>5. /\ phase'[p] = "open" /\ step'[p] = "compact" /\ ~fence'[p]
      /\ job'[p] = Head(line[p]) /\ doubt' = Head(line[p])
      /\ \A q \in Owner \ {p} : phase'[q] = phase[q] /\ step'[q] = step[q] /\ fence'[q] = fence[q]
  BY DEF JournalInv, Shaped
<1>6. Role(p)'
  BY <1>5 DEF JournalInv, Role
<1>7. Serves(p)'
  <2>1. Level(p)'
    BY <1>2, <1>5 DEF Level
  <2> QED  BY <1>1, <1>2, <1>5, <2>1 DEF Serves, Fits
<1>8. JournalInv'
  BY <1>3, <1>4, <1>5, <1>6, <1>7, OwnerStays
<1> QED  BY <1>1, <1>2, <1>8 DEF Store!Try

\* A process in the middle of something has the journal open.
LEMMA Busy ==
  ASSUME JournalInv, NEW p \in Owner, step[p] # "idle"
  PROVE  /\ Serves(p) /\ ~fence[p] /\ phase[p] \in {"opening", "open", "closing"}
         /\ phase[p] = "opening" => step[p] \in {"compact", "rename"}
         /\ step[p] # "written" => Level(p)
BY DEF JournalInv, Shaped, Phases, Role, Attached, Serves

\* Going on without a checkpoint.
LEMMA SkipStep ==
  ASSUME JournalInv, NEW p \in Owner, Skip(p)
  PROVE  JournalInv'
<1> USE DEF Skip, Proceed, outcome
<1>1. Serves(p) /\ ~fence[p] /\ phase[p] \in {"opening", "open", "closing"} /\ Level(p)
  BY Busy
<1>2. /\ phase'[p] = IF phase[p] = "opening" THEN "open" ELSE phase[p]
      /\ step'[p] = IF phase[p] = "opening" THEN "idle" ELSE "append"
      /\ \A q \in Owner \ {p} : phase'[q] = phase[q] /\ step'[q] = step[q] /\ fence'[q] = fence[q]
  BY DEF JournalInv, Shaped
<1>3. Shaped'
  BY <1>1 DEF JournalInv, Shaped, Phases, Points
<1>4. Filed'
  BY DEF JournalInv, Filed
<1>5. Role(p)'
  BY <1>1, <1>2 DEF JournalInv, Role
<1>6. Serves(p)'
  <2>1. Level(p)'
    BY <1>1, <1>2 DEF Level
  <2> QED  BY <1>1, <1>2, <2>1 DEF Serves, Fits
<1> QED  BY <1>1, <1>2, <1>3, <1>4, <1>5, <1>6, OwnerStays

\* Writing a checkpoint beside the journal.
LEMMA CompactStep ==
  ASSUME JournalInv, NEW p \in Owner, Compact(p)
  PROVE  JournalInv'
<1> USE DEF Compact, outcome
<1>1. Serves(p) /\ ~fence[p] /\ phase[p] \in {"opening", "open", "closing"} /\ Level(p)
  BY Busy
<1>2. /\ step'[p] = "rename" /\ temp'[p] = Compacted(journal)
      /\ \A q \in Owner \ {p} : phase'[q] = phase[q] /\ step'[q] = step[q] /\ fence'[q] = fence[q]
  BY DEF JournalInv, Shaped
<1>3. Shaped'
  BY <1>1 DEF JournalInv, Shaped, Phases, Points
<1>4. Filed'
  BY DEF JournalInv, Filed
<1>5. Role(p)'
  BY <1>1, <1>2 DEF JournalInv, Role
<1>6. Serves(p)'
  <2>1. Level(p)'
    BY <1>1, <1>2 DEF Level
  <2>2. Compacted(journal)' = Compacted(journal)
    OBVIOUS
  <2> QED  BY <1>1, <1>2, <2>1, <2>2 DEF Serves, Fits
<1> QED  BY <1>1, <1>2, <1>3, <1>4, <1>5, <1>6, OwnerStays

\* A checkpoint takes the place of the journal.
LEMMA RenameStep ==
  ASSUME JournalInv, NEW p \in Owner, Rename(p)
  PROVE  JournalInv'
<1> USE DEF Rename, Proceed, outcome
<1>1. Serves(p) /\ ~fence[p] /\ phase[p] \in {"opening", "open", "closing"} /\ Level(p)
  BY Busy
<1>2. /\ phase'[p] = IF phase[p] = "opening" THEN "open" ELSE phase[p]
      /\ step'[p] = IF phase[p] = "opening" THEN "idle" ELSE "append"
      /\ \A q \in Owner \ {p} : phase'[q] = phase[q] /\ step'[q] = step[q] /\ fence'[q] = fence[q]
  BY DEF JournalInv, Shaped
<1>3. /\ Sound(journal') /\ journal'.tail = "none"
      /\ Top(journal') = Top(journal) /\ Replay(journal') = Replay(journal)
  <2>1. journal' = Compacted(journal)
    BY <1>1 DEF Serves
  <2>2. Sound(journal)
    BY DEF JournalInv, Filed
  <2> QED  BY <2>1, <2>2, CompactedIs
<1>4. Shaped'
  BY <1>1 DEF JournalInv, Shaped, Phases, Points
<1>5. Filed'
  BY <1>3 DEF JournalInv, Filed
<1>6. Role(p)'
  BY <1>1, <1>2 DEF JournalInv, Role
<1>7. Serves(p)'
  <2>1. Level(p)'
    BY <1>1, <1>2, <1>3 DEF Level
  <2> QED  BY <1>1, <1>2, <2>1 DEF Serves, Fits
<1> QED  BY <1>1, <1>2, <1>4, <1>5, <1>6, <1>7, OwnerStays

\* A checkpoint that fails drops the transaction before it was written.
LEMMA CompactFailsStep ==
  ASSUME JournalInv, NEW p \in Owner, CompactFails(p)
  PROVE  JournalInv' /\ (Store!Resolve \/ UNCHANGED <<agreed, doubt>>)
<1> USE DEF CompactFails, outcome
<1>1. Serves(p) /\ ~fence[p] /\ phase[p] \in {"opening", "open", "closing"} /\ Level(p)
  BY Busy
<1>2. CASE phase[p] = "opening"
  BY <1>1, <1>2, OwnerLeaves
<1>3. CASE phase[p] # "opening"
  <2>1. /\ phase' = phase /\ step'[p] = "idle" /\ doubt' = Absent
        /\ \A q \in Owner \ {p} : phase'[q] = phase[q] /\ step'[q] = step[q] /\ fence'[q] = fence[q]
    BY <1>3 DEF JournalInv, Shaped
  <2>2. Shaped'
    BY <1>3 DEF JournalInv, Shaped, Points
  <2>3. Filed'
    BY <1>1, <1>3 DEF JournalInv, Filed, Level
  <2>4. Role(p)'
    BY <1>1, <1>3, <2>1 DEF JournalInv, Role
  <2>5. Serves(p)'
    <3>1. Level(p)'
      BY <1>1, <1>3, <2>1 DEF Level
    <3> QED  BY <1>1, <1>3, <2>1, <3>1 DEF Serves
  <2>6. JournalInv'
    BY <1>1, <2>1, <2>2, <2>3, <2>4, <2>5, OwnerStays
  <2>7. Store!Resolve
    <3>1. doubt # Absent
      BY <1>1, <1>3, JournalAssumption DEF Serves
    <3> QED  BY <1>3, <3>1 DEF Store!Resolve
  <2> QED  BY <2>6, <2>7
<1> QED  BY <1>2, <1>3

\* Part of a line is not a line.
LEMMA WriteStep ==
  ASSUME JournalInv, NEW p \in Owner, Write(p)
  PROVE  JournalInv'
<1> USE DEF Write, outcome
<1>1. Serves(p) /\ ~fence[p] /\ phase[p] \in {"open", "closing"} /\ Level(p)
  BY Busy
<1>2. /\ step'[p] = "partial"
      /\ \A q \in Owner \ {p} : phase'[q] = phase[q] /\ step'[q] = step[q] /\ fence'[q] = fence[q]
  BY DEF JournalInv, Shaped
<1>3. /\ Sound(journal') /\ journal'.tail = "partial"
      /\ Top(journal') = Top(journal) /\ Replay(journal') = Replay(journal)
  <2>1. journal' = [journal EXCEPT !.tail = "partial"]
    BY <1>1 DEF Level
  <2>2. Sound(journal)
    BY DEF JournalInv, Filed
  <2> QED  BY <2>1, <2>2, Retailed
<1>4. Shaped'
  BY <1>1 DEF JournalInv, Shaped, Points
<1>5. Filed'
  BY <1>3 DEF JournalInv, Filed
<1>6. Role(p)'
  BY <1>1, <1>2 DEF JournalInv, Role
<1>7. Serves(p)'
  <2>1. Level(p)'
    BY <1>1, <1>2, <1>3 DEF Level
  <2> QED  BY <1>1, <1>2, <2>1 DEF Serves, Fits
<1> QED  BY <1>1, <1>2, <1>4, <1>5, <1>6, <1>7, OwnerStays

\* The line is whole: the file is one transaction ahead.
LEMMA FinishStep ==
  ASSUME JournalInv, NEW p \in Owner, Finish(p)
  PROVE  JournalInv'
<1> USE DEF Finish, outcome
<1>1. /\ Serves(p) /\ ~fence[p] /\ phase[p] \in {"open", "closing"} /\ Level(p)
      /\ job[p] \in Transaction /\ doubt = job[p] /\ Fits(p, job[p])
  BY Busy DEF Serves
<1>2. /\ step'[p] = "written"
      /\ \A q \in Owner \ {p} : phase'[q] = phase[q] /\ step'[q] = step[q] /\ fence'[q] = fence[q]
  BY DEF JournalInv, Shaped
<1>3. Len(job[p]) \in Nat \ {0} /\ nextSeq[p] = Top(journal) + 1 /\ Top(journal) \in Nat
      /\ MaxSequence \in Nat /\ issued \in Nat
  BY <1>1, JournalAssumption, TopIs DEF Level, JournalInv, Filed, Shaped
<1>4. /\ Sound(journal') /\ journal'.tail = "none"
      /\ Top(journal') = Top(journal) + Len(job[p])
      /\ Replay(journal') = Store!Apply(job[p], Replay(journal))
  <2>1. journal.tail = "partial"
    BY <1>1 DEF Level
  <2>2. journal' = Appended(journal, Numbered(job[p], nextSeq[p]))
    BY <2>1 DEF Appended
  <2>3. Sound(journal)
    BY DEF JournalInv, Filed
  <2>4. journal'.tail = "none"
    BY <2>2, <2>3 DEF Appended, Sound
  <2> QED  BY <1>1, <1>3, <2>2, <2>3, <2>4, AppendedIs
<1>5. Shaped'
  BY <1>1 DEF JournalInv, Shaped, Points
<1>6. Filed'
  <2>1. Top(journal) + Len(job[p]) < MaxSequence
    BY <1>1, <1>3 DEF Fits
  <2>2. issued <= Top(journal) + Len(job[p])
    BY <1>3 DEF JournalInv, Filed
  <2>3. doubt # Absent /\ Replay(journal') = Store!Apply(doubt, agreed)
    BY <1>1, <1>4, JournalAssumption DEF Level
  <2> QED  BY <1>4, <2>1, <2>2, <2>3 DEF Filed
<1>7. Role(p)'
  BY <1>1, <1>2 DEF JournalInv, Role
<1>8. Serves(p)'
  <2>1. Ahead(p)'
    BY <1>1, <1>3, <1>4 DEF Ahead, Level
  <2> QED  BY <1>1, <1>2, <2>1 DEF Serves, Fits
<1> QED  BY <1>1, <1>2, <1>5, <1>6, <1>7, <1>8, OwnerStays

\* The owner catches up with the file and answers.
LEMMA AcknowledgeStep ==
  ASSUME JournalInv, NEW p \in Owner, Acknowledge(p)
  PROVE  JournalInv' /\ Store!Resolve
<1> USE DEF Acknowledge
<1>1. /\ Serves(p) /\ ~fence[p] /\ phase[p] \in {"open", "closing"} /\ Ahead(p)
      /\ job[p] \in Transaction /\ doubt = job[p] /\ Fits(p, job[p])
  BY Busy DEF Serves
<1>2. /\ step'[p] = "idle" /\ memory'[p] = Store!Apply(job[p], agreed)
      /\ agreed' = Store!Apply(job[p], agreed)
      /\ nextSeq'[p] = nextSeq[p] + Len(job[p])
      /\ \A q \in Owner \ {p} : phase'[q] = phase[q] /\ step'[q] = step[q] /\ fence'[q] = fence[q]
  BY <1>1 DEF JournalInv, Shaped, Serves
<1>3. Len(job[p]) \in Nat \ {0} /\ nextSeq[p] \in Nat \ {0} /\ Top(journal) \in Nat
      /\ MaxSequence \in Nat /\ nextSeq[p] + Len(job[p]) = Top(journal) + 1
  BY <1>1, JournalAssumption, TopIs DEF Ahead, JournalInv, Filed, Shaped
<1>4. Shaped'
  <2>1. nextSeq[p] + Len(job[p]) \in 1..MaxSequence
    BY <1>1, <1>3 DEF Fits
  <2>2. nextSeq[p] + Len(job[p]) - 1 \in Nat
    BY <1>3
  <2> QED  BY <2>1, <2>2 DEF JournalInv, Shaped, Points
<1>5. Filed'
  BY <1>1, <1>2, <1>3 DEF JournalInv, Filed, Ahead
<1>6. Role(p)'
  BY <1>1, <1>2 DEF JournalInv, Role
<1>7. Serves(p)'
  <2>1. Level(p)'
    BY <1>1, <1>2, <1>3 DEF Level, Ahead
  <2> QED  BY <1>1, <1>2, <1>3, <2>1 DEF Serves
<1>8. JournalInv'
  BY <1>1, <1>2, <1>4, <1>5, <1>6, <1>7, OwnerStays
<1>9. Store!Resolve
  BY <1>1, <1>2, JournalAssumption DEF Store!Resolve
<1> QED  BY <1>8, <1>9

\* The owner no longer knows what is in the file, and stops writing.
LEMMA AppendFailsStep ==
  ASSUME JournalInv, NEW p \in Owner, AppendFails(p)
  PROVE  JournalInv'
<1> USE DEF AppendFails, outcome
<1>1. Serves(p) /\ phase[p] \in {"open", "closing"}
  BY Busy
<1>2. /\ step'[p] = "idle" /\ fence'[p]
      /\ \A q \in Owner \ {p} : phase'[q] = phase[q] /\ step'[q] = step[q] /\ fence'[q] = fence[q]
  BY DEF JournalInv, Shaped
<1>3. Shaped' /\ Filed'
  BY DEF JournalInv, Shaped, Points, Filed
<1>4. Role(p)'
  BY <1>1, <1>2 DEF JournalInv, Role
<1>5. Serves(p)'
  BY <1>1, <1>2 DEF Serves
<1> QED  BY <1>1, <1>2, <1>3, <1>4, <1>5, OwnerStays

\* Every step keeps the invariant, and is a step of the map or none.
LEMMA StepJournalInv ==
  ASSUME JournalInv, [JournalNext]_journaling
  PROVE  JournalInv' /\ (Store!Try \/ Store!Resolve \/ UNCHANGED <<agreed, doubt>>)
<1>1. CASE UNCHANGED journaling
  <2>1. UNCHANGED <<holder, journal, process, agreed, doubt, issued>>
    BY <1>1 DEF journaling, outcome
  <2>2. Shaped' /\ Filed'
    BY <2>1 DEF JournalInv, Shaped, Filed, process
  <2>3. \A q \in Owner : Role(q)' /\ (Attached(q)' => Serves(q)')
    BY <2>1 DEF JournalInv, Role, Attached, Serves, Level, Ahead, Fits, process
  <2> QED  BY <2>1, <2>2, <2>3 DEF JournalInv
<1>2. ASSUME NEW p \in Owner, Steps(p)
      PROVE  JournalInv' /\ (Store!Try \/ Store!Resolve \/ UNCHANGED <<agreed, doubt>>)
  <2>1. CASE Acquire(p)
    BY <2>1, AcquireStep DEF Acquire, outcome
  <2>2. CASE Open(p)
    BY <2>2, OpenStep
  <2>3. CASE (\E t \in Transaction : Mutate(p, t)) \/ Reject(p) \/ Close(p)
    BY <2>3, WaitStep DEF Mutate, Reject, Close, outcome
  <2>4. CASE Start(p)
    BY <2>4, StartStep
  <2>5. CASE Skip(p)
    BY <2>5, SkipStep DEF Skip, outcome
  <2>6. CASE Compact(p)
    BY <2>6, CompactStep DEF Compact, outcome
  <2>7. CASE Rename(p)
    BY <2>7, RenameStep DEF Rename, outcome
  <2>8. CASE CompactFails(p)
    BY <2>8, CompactFailsStep
  <2>9. CASE Write(p)
    BY <2>9, WriteStep DEF Write, outcome
  <2>10. CASE Finish(p)
    BY <2>10, FinishStep DEF Finish, outcome
  <2>11. CASE Acknowledge(p)
    BY <2>11, AcknowledgeStep
  <2>12. CASE AppendFails(p)
    BY <2>12, AppendFailsStep DEF AppendFails, outcome
  <2>13. CASE Relinquish(p) \/ Crash(p)
    BY <2>13, OwnerLeaves DEF Relinquish, Crash, outcome
  <2> QED
    BY <1>2, <2>1, <2>2, <2>3, <2>4, <2>5, <2>6, <2>7, <2>8, <2>9, <2>10, <2>11,
       <2>12, <2>13 DEF Steps
<1> QED  BY <1>1, <1>2 DEF JournalNext

\* The invariant holds throughout.
LEMMA Invariance == JournalSpec => []JournalInv
BY InitJournalInv, StepJournalInv, PTL DEF JournalSpec

-----------------------------------------------------------------------------
(* Theorems *)

\* Whatever crashes, fails or changes hands, the owner of the branch reads
\* what was acknowledged and nothing else.
THEOREM SettledReads == JournalSpec => []ReadsSettled
<1>1. JournalInv => ReadsSettled
  BY DEF JournalInv, ReadsSettled, Attached, Serves
<1> QED  BY <1>1, Invariance, PTL

\* Whatever was being appended or compacted when a process died, an append
\* failed or the owner changed, a journal that has its header can be opened
\* again, and no sequence number is given twice.
THEOREM AlwaysOpenable == JournalSpec => []Openable
<1>1. JournalInv => Openable
  <2>1. SUFFICES ASSUME JournalInv PROVE Openable
    OBVIOUS
  <2>2. /\ Sound(journal) /\ Top(journal) \in Nat /\ journal.floor - 1 <= Top(journal)
        /\ Top(journal) < MaxSequence /\ MaxSequence \in Nat
    BY <2>1, TopIs, JournalAssumption DEF JournalInv, Filed
  <2>3. journal.floor \in 1..MaxSequence /\ journal.tail \in {"none", "partial", "spoiled"}
    BY <2>2 DEF Sound
  <2>4. JournalTypeOK
    BY <2>1, <2>3 DEF JournalTypeOK, JournalInv, Shaped, Phases, Points
  <2>5. FreshSequences
    BY <2>1 DEF FreshSequences, JournalInv, Filed, Attached, Serves
  <2> QED  BY <2>2, <2>4, <2>5 DEF Openable, Sound
<1> QED  BY <1>1, Invariance, PTL

\* The journal implements the map that changes by whole transactions: what
\* was acknowledged is never undone, and a transaction in doubt is applied
\* or dropped as a whole when the journal is opened again.
THEOREM AtomicStoreKept == JournalSpec => AtomicStoreSpec
<1>1. JournalInit => Store!Init
  BY DEF JournalInit, Store!Init, Empty
<1>2. JournalInv /\ [JournalNext]_journaling => [Store!Try \/ Store!Resolve]_<<agreed, doubt>>
  BY StepJournalInv
<1> QED  BY <1>1, <1>2, Invariance, PTL DEF JournalSpec, AtomicStoreSpec, Store!Spec

-----------------------------------------------------------------------------
(* The lock *)

\* An owner that is not alive stays so: it started before what runs now.
Past(owner) == owner[2] <= life[owner[1]]

\* What is old and was never written has lost its owner.
Abandoned(f) == f.old => f.written \/ ~Alive(f.owner)

Running == \A p \in Process : at[p] # "out" => p \in up

Credible(f) == Past(f.owner) /\ Abandoned(f)

\* Who is about to unlink has seen a lock that was stale.  If that is the one which is
\* there now its owner is dead, because what is there is abandoned when it is old and
\* was not written.  What was seen may have the age of one lock and the owner of another.
Judged == \A p \in Process : at[p] = "unlinking" => seen[p] # Nil /\ StaleLock(seen[p])

\* The lock file is that of whoever holds the lock.
Owned == ~raced => \A p \in Holders : lock # Nil /\ lock.owner = Me(p)

\* The inductive invariant.
LockInv ==
    /\ LockTypeOK
    /\ Running
    /\ lock # Nil => Credible(lock)
    /\ \A p \in Process : seen[p] # Nil => Past(seen[p].owner)
    /\ \A p \in Process : at[p] \in {"reading", "judging"} => seen[p] # Nil
    /\ Judged
    /\ Owned

LEMMA OwnedExclusive == LockInv => Exclusive
  BY DEF LockInv, Owned, Exclusive, Me, Holders, LockTypeOK

LEMMA InitLockInv == LockInit => LockInv
<1> SUFFICES ASSUME LockInit PROVE LockInv
  OBVIOUS
<1>1. LockTypeOK
  <2>1. MaxLives \in Nat
    BY LockAssumption
  <2>2. life \in [Process -> 0..MaxLives]
    BY <2>1 DEF LockInit
  <2>3. at \in [Process -> Stages]
    BY DEF LockInit, Stages
  <2>4. seen \in [Process -> File \cup {Nil}]
    BY DEF LockInit
  <2> QED  BY <2>2, <2>3, <2>4 DEF LockInit, LockTypeOK
<1>2. \A p \in Process : at[p] = "out" /\ seen[p] = Nil
  BY DEF LockInit
<1>3. Holders = {}
  BY <1>2 DEF Holders
<1> QED  BY <1>1, <1>2, <1>3 DEF LockInit, LockInv, Running, Judged, Owned

\* Nil is no lock file.
LEMMA NilIsNoFile == Nil \notin File
  BY LockAssumption DEF File, Life

\* Steps that leave the processes and the lock file alone.
LEMMA Waits ==
  ASSUME LockInv, NEW p \in Process,
         Approach(p) \/ Taken(p) \/ Look(p) \/ Read(p) \/ Judge(p) \/ Release(p) \/ Match(p)
  PROVE  LockInv'
<1> USE DEF LockInv, LockTypeOK, Goes
<1> USE DEF StaleLock, Stages, Running, Judged, Owned, Holders, Credible, Past, Abandoned,
            Alive, Me
<1>1. CASE Approach(p)
  BY <1>1 DEF Approach
<1>2. CASE Taken(p)
  BY <1>2 DEF Taken
<1>3. CASE Look(p)
  BY <1>3 DEF Look
<1>4. CASE Read(p)
  <2>1. lock # Nil =>
          LET found == [lock EXCEPT !.old = IF lock.written THEN lock.old ELSE seen[p].old]
          IN found \in File /\ found.owner = lock.owner /\ seen' = [seen EXCEPT ![p] = found]
    BY <1>4 DEF Read, File
  <2>2. lock = Nil => seen' = [seen EXCEPT ![p] = Nil]
    BY <1>4 DEF Read
  <2>3. seen' \in [Process -> File \cup {Nil}]
    BY <2>1, <2>2
  <2>4. \A q \in Process : seen'[q] # Nil => Past(seen'[q].owner)
    BY <2>1, <2>2
  <2>5. at'[p] = "judging" => seen'[p] # Nil
    BY <1>4, <2>1, NilIsNoFile DEF Read
  <2> QED  BY <1>4, <2>1, <2>2, <2>3, <2>4, <2>5 DEF Read
<1>5. CASE Judge(p)
  BY <1>5 DEF Judge
<1>6. CASE Release(p)
  BY <1>6 DEF Release
<1>7. CASE Match(p)
  BY <1>7 DEF Match
<1> QED  BY <1>1, <1>2, <1>3, <1>4, <1>5, <1>6, <1>7

\* Steps that create, write or remove the lock file.
LEMMA Changes ==
  ASSUME LockInv, NEW p \in Process,
         Create(p) \/ Sign(p) \/ Unlink(p) \/ Remove(p)
  PROVE  LockInv'
<1> USE DEF LockInv, LockTypeOK, Goes
<1>1. CASE Create(p)
  <2>1. Me(p) \in Life /\ Past(Me(p))
    BY DEF Me, Life, Past
  <2>2. lock' \in File /\ lock'.owner = Me(p) /\ ~lock'.old
    BY <1>1, <2>1 DEF Create, File
  <2>3. Credible(lock)'
    BY <1>1, <2>1, <2>2 DEF Create, Credible, Past, Abandoned
  <2>4. Owned'
    BY <1>1, <2>2, NilIsNoFile DEF Create, Owned, Holders, Me
  <2> QED
    BY <1>1, <2>2, <2>3, <2>4
    DEF Create, Stages, Running, Judged, StaleLock, Credible, Past, Abandoned, Alive
<1>2. CASE Sign(p)
  <2>1. lock' = lock \/ (lock # Nil /\ lock' = [lock EXCEPT !.written = TRUE])
    BY <1>2 DEF Sign
  <2>2. lock # Nil => lock' \in File /\ lock' # Nil /\ lock'.owner = lock.owner /\ Credible(lock)'
    BY <1>2, <2>1, NilIsNoFile DEF Sign, File, Credible, Past, Abandoned, Alive
  <2>3. lock = Nil => lock' = Nil
    BY <2>1
  <2>4. Owned'
    BY <1>2, <2>2 DEF Sign, Owned, Holders, Me
  <2> QED
    BY <1>2, <2>2, <2>3, <2>4
    DEF Sign, Stages, Running, Judged, StaleLock, Credible, Past, Abandoned, Alive
<1>3. CASE Unlink(p)
  <2>1. ~raced' => Holders = {}
    <3>1. SUFFICES ASSUME ~raced', NEW q \in Holders PROVE FALSE
      OBVIOUS
    <3>2. ~raced /\ lock \in {Nil, seen[p]}
      BY <1>3, <3>1 DEF Unlink
    <3>3. lock # Nil /\ lock.owner = Me(q)
      BY <3>1, <3>2 DEF Owned
    <3>4. ~Alive(Me(q))
      BY <1>3, <3>2, <3>3 DEF Unlink, Judged, StaleLock, Credible, Abandoned
    <3>5. q \in Process /\ q \in up
      BY <3>1 DEF Holders, Running
    <3> QED  BY <3>4, <3>5 DEF Alive, Me
  <2>2. Owned'
    BY <1>3, <2>1 DEF Unlink, Owned, Holders
  <2> QED
    BY <1>3, <2>2 DEF Unlink, Stages, Running, Judged, StaleLock, Credible, Past, Abandoned, Alive
<1>4. CASE Remove(p)
  <2>1. ~raced => Holders \subseteq {p}
    BY <1>4 DEF Remove, Owned, Holders, Me
  <2>2. Owned'
    BY <1>4, <2>1 DEF Remove, Owned, Holders
  <2> QED
    BY <1>4, <2>2 DEF Remove, Stages, Running, Judged, StaleLock, Credible, Past, Abandoned, Alive
<1> QED  BY <1>1, <1>2, <1>3, <1>4

\* Processes come and go, and time passes.
LEMMA Lives ==
  ASSUME LockInv, NEW p \in Process, Launch(p) \/ Exit(p)
  PROVE  LockInv'
<1> USE DEF LockInv, LockTypeOK, Goes
<1> DEFINE Stays(o) == o[1] \in up' /\ life'[o[1]] = o[2]
<1>1. ASSUME NEW o \in Life, Past(o)
      PROVE  o[2] <= life'[o[1]] /\ (~Alive(o) => ~Stays(o))
  <2>1. o[1] \in Process /\ o[2] \in Int
    BY LockAssumption DEF Life
  <2>2. CASE Launch(p)
    BY <1>1, <2>1, <2>2 DEF Launch, Past, Alive
  <2>3. CASE Exit(p)
    BY <1>1, <2>1, <2>3 DEF Exit, Past, Alive
  <2> QED  BY <2>2, <2>3
<1>4. lock' = lock /\ (lock # Nil => Credible(lock)')
  <2>1. lock' = lock
    BY DEF Launch, Exit
  <2>2. lock # Nil => lock.owner \in Life /\ Past(lock.owner) /\ Abandoned(lock)
    BY DEF File, Credible
  <2>3. lock # Nil => lock.owner[2] <= life'[lock.owner[1]]
                      /\ (~Alive(lock.owner) => ~Stays(lock.owner))
    BY <1>1, <2>2
  <2> QED  BY <2>1, <2>2, <2>3 DEF Credible, Past, Abandoned, Alive
<1>5. \A q \in Process : at'[q] # "out" => at'[q] = at[q] /\ seen'[q] = seen[q]
  BY DEF Launch, Exit
<1>6. \A q \in Process : seen'[q] # Nil => Past(seen[q].owner)'
  <2>1. SUFFICES ASSUME NEW q \in Process, seen'[q] # Nil
                 PROVE  seen'[q].owner[2] <= life'[seen'[q].owner[1]]
    BY DEF Past
  <2>2. seen'[q] = seen[q]
    BY <2>1 DEF Launch, Exit
  <2>3. seen[q].owner \in Life /\ Past(seen[q].owner)
    BY <2>1, <2>2 DEF File
  <2> QED  BY <1>1, <2>2, <2>3
<1>7. Judged'
  <2>1. SUFFICES ASSUME NEW q \in Process, at'[q] = "unlinking"
                 PROVE  /\ seen'[q] # Nil /\ seen'[q].old
                        /\ seen'[q].written => ~Stays(seen'[q].owner)
    BY DEF Judged, StaleLock, Alive
  <2>2. at[q] = "unlinking" /\ seen'[q] = seen[q]
    BY <1>5, <2>1
  <2>3. /\ seen[q] # Nil /\ seen[q].owner \in Life /\ Past(seen[q].owner)
        /\ seen[q].old /\ (seen[q].written => ~Alive(seen[q].owner))
    BY <2>2 DEF Judged, StaleLock, File
  <2> QED  BY <1>1, <2>2, <2>3
<1>2. CASE Launch(p)
  <2>1. p \notin Holders
    BY <1>2 DEF Launch, Running, Holders
  <2>2. Owned'
    BY <1>2, <2>1 DEF Launch, Owned, Holders, Me
  <2>3. life' \in [Process -> 0..MaxLives] /\ up' \subseteq Process
    BY <1>2, LockAssumption DEF Launch
  <2> QED  BY <1>2, <1>4, <1>5, <1>6, <1>7, <2>2, <2>3 DEF Launch, Running
<1>3. CASE Exit(p)
  <2>1. Owned'
    BY <1>3 DEF Exit, Owned, Holders, Me
  <2> QED  BY <1>3, <1>4, <1>5, <1>6, <1>7, <2>1 DEF Exit, Running, Stages
<1> QED  BY <1>2, <1>3

LEMMA Ages ==
  ASSUME LockInv, Age
  PROVE  LockInv'
<1> USE DEF LockInv, LockTypeOK
<1>1. lock' \in File /\ lock' # Nil /\ lock'.owner = lock.owner /\ lock'.written = lock.written
  BY NilIsNoFile DEF Age, File
<1>2. Credible(lock)'
  BY <1>1 DEF Age, Credible, Past, Abandoned, Alive
<1>3. Owned'
  BY <1>1 DEF Age, Owned, Holders, Me
<1> QED
  BY <1>1, <1>2, <1>3 DEF Age, Running, Judged, StaleLock, Credible, Past, Abandoned, Alive

LEMMA StepLockInv == LockInv /\ [LockNext]_locking => LockInv'
<1> SUFFICES ASSUME LockInv, [LockNext]_locking PROVE LockInv'
  OBVIOUS
<1>1. CASE UNCHANGED locking
  BY <1>1 DEF locking, LockInv, LockTypeOK, Running, Judged, StaleLock, Owned, Holders, Credible, Past,
              Abandoned, Alive, Me
<1>2. CASE LockNext
  BY <1>2, Waits, Changes, Lives, Ages DEF LockNext, Acquires, Releases
<1> QED  BY <1>1, <1>2

\* Only one process at a time holds a state lock, whoever dies with it and
\* whoever recovers it, but for one recovery that overtakes another
\* (state-lock.ts, acquireStateLock and releaseToken).
THEOREM OneHolder == LockSpec => []Exclusive
  BY InitLockInv, StepLockInv, OwnedExclusive, PTL DEF LockSpec

-----------------------------------------------------------------------------
(* Updates *)

Function(f) == f = [p \in Process |-> f[p]]

Opened == {"installing", "verifying", "reverting", "restoring", "retrying"}
Working == {"packing", "downloading", "updated"} \cup Opened
Bound == {"locking", "packing", "downloading"} \cup Opened

Functions ==
    /\ Function(command) /\ Function(current) /\ Function(stage)
    /\ Function(offer) /\ Function(note) /\ Function(backup)

\* What is installed is never older than what was found to work, and nor is
\* the version of a process that replaces it.
Kept ==
    /\ package.version >= top
    /\ ~damaged /\ (\A p \in Process : ~Exposed(p)) => package = [version |-> top, whole |-> TRUE]
    /\ \A p \in Process :
          /\ stage[p] = "downloading" => package.version = current[p]
          /\ Exposed(p) => current[p] >= top

\* The inductive invariant: whoever works on the package holds the lock, and
\* replaces its version by a newer one.
UpdateInv ==
    /\ LockInv /\ UpdateTypeOK /\ Functions
    /\ \A p \in Process : stage[p] \in Working => at[p] = "held"
    /\ \A p \in Process : stage[p] \in Bound => offer[p] > current[p]
    /\ \A p \in Process : stage[p] # "off" => current[p] \in Version
    /\ ~raced => Kept

\* At the start nothing was updated.
LEMMA InitUpdateInv == UpdateInit => UpdateInv
<1> SUFFICES ASSUME UpdateInit PROVE UpdateInv
  OBVIOUS
<1>1. LockInv
  BY InitLockInv DEF UpdateInit
<1>2. 1 \in Version /\ 0 \in 0..MaxVersion
  BY UpdateAssumption DEF Version
<1>3. package \in Package /\ file \in StateFile
  BY <1>2 DEF UpdateInit, Package, StateFile, Policies, Results
<1>4. UpdateTypeOK
  <2>1. LockTypeOK
    BY <1>1 DEF LockInv
  <2> QED  BY <1>2, <1>3, <2>1 DEF UpdateInit, UpdateTypeOK, Commands, Stage
<1>5. Functions
  BY DEF UpdateInit, Functions, Function
<1>6. \A p \in Process : stage[p] = "off"
  BY DEF UpdateInit
<1>7. Kept
  BY <1>6 DEF Kept, UpdateInit, Exposed
<1> QED  BY <1>1, <1>4, <1>5, <1>6, <1>7 DEF UpdateInv, Working, Bound, Opened

\* Every step is a step of the lock, or leaves it alone.
LEMMA LockStep ==
  ASSUME [UpdateNext]_updates
  PROVE  [LockNext]_locking
<1>1. CASE UNCHANGED updates
  BY <1>1 DEF updates
<1>2. CASE Passes \/ Publishes
  BY <1>2 DEF Passes, Publishes, LockNext
<1>3. ASSUME NEW p \in Process,
             \/ Starts(p) \/ Startup(p) \/ View(p) \/ Reads(p) \/ Writes(p) \/ Locks(p)
             \/ Pack(p) \/ Download(p) \/ Install(p) \/ Verify(p) \/ Revert(p) \/ Restore(p)
             \/ Ends(p)
      PROVE  [LockNext]_locking
  <2>1. CASE Starts(p) \/ Locks(p) \/ Ends(p)
    BY <2>1 DEF Starts, Locks, Ends, LockNext
  <2>2. CASE Startup(p) \/ View(p) \/ Reads(p) \/ Writes(p)
    BY <2>2 DEF Startup, View, Reads, Writes
  <2>3. CASE Pack(p) \/ Download(p) \/ Install(p) \/ Verify(p) \/ Revert(p) \/ Restore(p)
    BY <2>3 DEF Pack, Download, Install, Verify, Revert, Restore
  <2> QED  BY <1>3, <2>1, <2>2, <2>3
<1> QED  BY <1>1, <1>2, <1>3 DEF UpdateNext

\* What the proofs about the lock give.
LEMMA LockKept ==
  ASSUME UpdateInv, [UpdateNext]_updates
  PROVE  /\ LockInv' /\ LockTypeOK'
         /\ ~raced' => ~raced
         /\ ~raced => \A p, q \in Process : at[p] = "held" /\ at[q] = "held" => p = q
<1>1. LockInv' /\ LockTypeOK'
  BY LockStep, StepLockInv DEF UpdateInv, LockInv
<1>2. ~raced' => ~raced
  <2>1. CASE UNCHANGED locking
    BY <2>1 DEF locking
  <2>2. CASE LockNext
    BY <2>2 DEF LockNext, Age, Approach, Acquires, Create, Taken, Sign, Look, Read, Judge, Unlink,
                Release, Releases, Match, Remove, Launch, Exit
  <2> QED  BY LockStep, <2>1, <2>2
<1>3. ~raced => \A p, q \in Process : at[p] = "held" /\ at[q] = "held" => p = q
  BY OwnedExclusive DEF UpdateInv, Exclusive, Holders
<1> QED  BY <1>1, <1>2, <1>3

\* Steps of one process before, after and beside the installation.
LEMMA Decides ==
  ASSUME UpdateInv, NEW p \in Process, LockInv', LockTypeOK', ~raced' => ~raced,
         Starts(p) \/ Startup(p) \/ View(p) \/ Reads(p) \/ Writes(p)
  PROVE  UpdateInv'
<1> USE DEF UpdateInv, UpdateTypeOK, Functions, Function, To
<1>1. \A q \in Process : offer[q] \in Int /\ current[q] \in Int
  BY UpdateAssumption
<1>2. CASE Starts(p)
  <2>1. at[p] = "out" /\ at' = at /\ raced' = raced
    BY <1>2 DEF Starts, Launch, LockInv, Running, LockTypeOK
  <2>2. stage'[p] \in {"starting", "checked", "viewing"} /\ \A q \in Process \ {p} : stage'[q] = stage[q]
    BY <1>2 DEF Starts
  <2>3. UpdateTypeOK'
    BY <1>2, UpdateAssumption DEF Starts, Commands, Stage, Package, Version
  <2>4. Functions'
    BY <1>2 DEF Starts
  <2>5. \A q \in Process : stage'[q] \in Working \cup Bound => q # p
    BY <2>2 DEF Working, Bound, Opened
  <2>6. ~raced => Kept'
    <3>1. \A q \in Process : (Exposed(q)' <=> q # p /\ Exposed(q))
      BY <2>2 DEF Exposed
    <3>2. ~Exposed(p)
      BY <2>1 DEF Exposed, Working, Opened
    <3> QED  BY <1>2, <2>2, <3>1, <3>2 DEF Starts, Kept
  <2>7. package.version \in Version
    BY DEF Package
  <2> QED  BY <1>2, <2>1, <2>2, <2>3, <2>4, <2>5, <2>6, <2>7 DEF Starts
<1>3. CASE Startup(p)
  <2>1. /\ stage[p] = "starting" /\ stage'[p] \in {"ended", "locking", "viewing"}
        /\ stage'[p] = "locking" => offer'[p] > current'[p]
        /\ \A q \in Process \ {p} : stage'[q] = stage[q] /\ offer'[q] = offer[q]
        /\ UNCHANGED <<locking, registry, file, package, current, note, backup, damaged, top>>
    BY <1>3 DEF Startup
  <2>2. UpdateTypeOK'
    <3>1. file.latest \in 0..MaxVersion
      BY DEF StateFile
    <3> QED  BY <1>3, <3>1, UpdateAssumption DEF Startup, Commands, Stage
  <2>3. Functions'
    BY <1>3 DEF Startup
  <2>4. ~raced => Kept'
    BY <2>1 DEF Kept, Exposed
  <2> QED  BY <2>1, <2>2, <2>3, <2>4 DEF locking, Working, Bound, Opened
<1>4. CASE View(p)
  <2>1. /\ stage[p] = "viewing" /\ stage'[p] \in {"checked", "failed"}
        /\ \A q \in Process \ {p} : stage'[q] = stage[q] /\ offer'[q] = offer[q]
        /\ UNCHANGED <<locking, registry, file, package, current, note, backup, damaged, top>>
    BY <1>4 DEF View
  <2>2. UpdateTypeOK'
    <3>1. registry \in 0..MaxVersion
      BY UpdateAssumption DEF Version
    <3> QED  BY <1>4, <3>1, UpdateAssumption DEF View, Commands, Stage
  <2>3. Functions'
    BY <1>4 DEF View
  <2>4. ~raced => Kept'
    BY <2>1 DEF Kept, Exposed
  <2> QED  BY <2>1, <2>2, <2>3, <2>4 DEF locking, Working, Bound, Opened
<1>5. CASE Reads(p)
  BY <1>5 DEF Reads, locking, Kept, Exposed
<1>6. CASE Writes(p)
  <2>1. /\ stage[p] \in {"checked", "failed", "updated"}
        /\ stage'[p] \in {"ended", "locking", "releasing"}
        /\ stage'[p] = "locking" => offer[p] > current[p]
        /\ \A q \in Process \ {p} : stage'[q] = stage[q]
        /\ UNCHANGED <<locking, registry, package, command, current, offer, backup, damaged, top>>
    BY <1>6 DEF Writes, Continues, Newer
  <2>2. UpdateTypeOK'
    <3>1. note[p] \in StateFile
      BY <1>6 DEF Writes
    <3>2. file' \in StateFile
      BY <1>6, <3>1 DEF Writes, StateFile, Policies, Results
    <3> QED  BY <1>6, <2>1, <3>2 DEF Writes, Stage
  <2>3. Functions'
    BY <1>6 DEF Writes
  <2>4. ~raced => Kept'
    BY <2>1 DEF Kept, Exposed
  <2> QED  BY <2>1, <2>2, <2>3, <2>4 DEF locking, Working, Bound, Opened
<1> QED  BY <1>2, <1>3, <1>4, <1>5, <1>6

\* A step of the lock leads to the update or to its end.
LEMMA LocksStep ==
  ASSUME UpdateInv, NEW p \in Process, LockInv', LockTypeOK', ~raced' => ~raced, Locks(p)
  PROVE  UpdateInv'
<1> USE DEF UpdateInv, UpdateTypeOK, Functions, Function, To
<1>1. at \in [Process -> Stages] /\ at' = [at EXCEPT ![p] = at'[p]]
  BY DEF LockTypeOK, Locks, Approach, Acquires, Create, Taken, Sign, Look, Read, Judge, Unlink,
         Release, Releases, Match, Remove, Goes
<1>2. /\ stage[p] \in {"locking", "releasing"}
      /\ stage'[p] \in {"locking", "releasing", "packing", "ended"}
      /\ stage'[p] = "packing" => at'[p] = "held"
      /\ stage'[p] \in {"locking", "packing"} => stage[p] = "locking"
      /\ \A q \in Process \ {p} : stage'[q] = stage[q] /\ at'[q] = at[q]
      /\ UNCHANGED <<registry, file, package, command, current, offer, note, backup, damaged, top>>
  <2>1. stage[p] \in {"locking", "releasing"}
        /\ UNCHANGED <<registry, file, package, command, current, offer, note, backup, damaged, top>>
    BY DEF Locks
  <2>2. stage' = [stage EXCEPT ![p] =
                    CASE at'[p] = "held" /\ stage[p] = "locking" -> "packing"
                      [] at'[p] \in {"refused", "failed", "released"} -> "ended"
                      [] OTHER -> stage[p]]
    BY DEF Locks
  <2>3. \/ at'[p] = "held" /\ stage[p] = "locking" /\ stage'[p] = "packing"
        \/ at'[p] \in {"refused", "failed", "released"} /\ stage'[p] = "ended"
        \/ stage'[p] = stage[p]
    BY <2>2
  <2> QED  BY <1>1, <2>1, <2>2, <2>3
<1>3. UpdateTypeOK'
  BY <1>2 DEF Stage
<1>4. Functions'
  BY <1>2 DEF Locks
<1>5. ~raced => Kept'
  BY <1>2 DEF Kept, Exposed
<1> QED  BY <1>2, <1>3, <1>4, <1>5 DEF Working, Bound, Opened

\* The newer of two versions.
LEMMA Newest ==
  ASSUME NEW m \in Int, NEW n \in Int
  PROVE  Max({m, n}) = IF m <= n THEN n ELSE m
BY DEF Max

\* Only the holder of the lock has the package open.
LEMMA OneAtWork ==
  ASSUME UpdateInv, NEW p \in Process, stage[p] \in Working, ~raced,
         \A a, b \in Process : at[a] = "held" /\ at[b] = "held" => a = b
  PROVE  \A q \in Process \ {p} : stage[q] \notin Working /\ ~Exposed(q)
BY DEF UpdateInv, Working, Opened, Exposed

\* The rollback copy is of the version that runs.
LEMMA PackStep ==
  ASSUME UpdateInv, NEW p \in Process, LockInv', LockTypeOK', ~raced' => ~raced, Pack(p)
  PROVE  UpdateInv'
<1> USE DEF UpdateInv, UpdateTypeOK, Functions, Function, To
<1>1. /\ stage[p] = "packing" /\ stage'[p] \in {"downloading", "failed"}
      /\ stage'[p] = "downloading" => package.version = current[p]
      /\ \A q \in Process \ {p} : stage'[q] = stage[q]
      /\ UNCHANGED <<locking, registry, file, package, command, current, offer, note, damaged, top>>
  BY DEF Pack
<1>2. UpdateTypeOK'
  BY <1>1 DEF Pack, Stage, Package
<1>3. Functions'
  BY DEF Pack
<1>4. ~raced => Kept'
  BY <1>1 DEF Kept, Exposed
<1> QED  BY <1>1, <1>2, <1>3, <1>4 DEF locking, Working, Bound, Opened

\* npm opens the package.
LEMMA DownloadStep ==
  ASSUME UpdateInv, NEW p \in Process, LockInv', LockTypeOK', ~raced' => ~raced, Download(p),
         ~raced => \A a, b \in Process : at[a] = "held" /\ at[b] = "held" => a = b
  PROVE  UpdateInv'
<1> USE DEF UpdateInv, UpdateTypeOK, Functions, Function, To
<1>1. /\ stage[p] = "downloading"
      /\ \/ stage'[p] = "installing" /\ package' = [package EXCEPT !.whole = FALSE]
         \/ stage'[p] = "failed" /\ package' = package
      /\ \A q \in Process \ {p} : stage'[q] = stage[q]
      /\ UNCHANGED <<locking, registry, file, command, current, offer, note, backup, damaged, top>>
  BY DEF Download
<1>2. package' \in Package /\ package'.version = package.version
  BY <1>1 DEF Package
<1>3. UpdateTypeOK'
  BY <1>1, <1>2 DEF Stage
<1>4. Functions'
  BY DEF Download
<1>5. ~raced => Kept'
  <2>1. SUFFICES ASSUME ~raced PROVE Kept'
    OBVIOUS
  <2>2. Kept /\ package.version = current[p] /\ current[p] >= top
    BY <1>1, <2>1 DEF Kept
  <2>3. CASE stage'[p] = "installing"
    <3>1. Exposed(p)'
      BY <2>3 DEF Exposed
    <3> QED  BY <1>1, <1>2, <2>2, <2>3, <3>1 DEF Kept, Exposed
  <2>4. CASE package' = package /\ stage'[p] = "failed"
    BY <1>1, <2>2, <2>4 DEF Kept, Exposed
  <2> QED  BY <1>1, <2>3, <2>4
<1> QED  BY <1>1, <1>3, <1>4, <1>5 DEF locking, Working, Bound, Opened

\* What an install may leave is one of the two versions.
LEMMA LeavesIs ==
  ASSUME NEW p \in Process, Leaves(p), current[p] \in Version, offer[p] \in Version
  PROVE  package' \in Package /\ package'.version \in {current[p], offer[p]}
<1>1. PICK v \in {current[p], offer[p]}, w \in BOOLEAN : package' = [version |-> v, whole |-> w]
  BY DEF Leaves
<1>2. v \in Version
  OBVIOUS
<1> QED  BY <1>1, <1>2 DEF Package

\* Steps with the package open.
LEMMA InstallStep ==
  ASSUME UpdateInv, NEW p \in Process, LockInv', LockTypeOK', ~raced' => ~raced,
         ~raced => \A a, b \in Process : at[a] = "held" /\ at[b] = "held" => a = b,
         Install(p) \/ Verify(p) \/ Revert(p) \/ Restore(p)
  PROVE  UpdateInv'
<1> USE DEF UpdateInv, UpdateTypeOK, Functions, Function, To
<1>1. /\ offer[p] \in Version /\ current[p] \in Version /\ offer[p] > current[p]
      /\ offer[p] \in Int /\ current[p] \in Int /\ at[p] = "held" /\ Exposed(p)
      /\ stage[p] \in Opened
  <2>1. stage[p] \in Opened
    BY DEF Install, Verify, Revert, Restore, Opened
  <2>2. current[p] \in Version /\ offer[p] > current[p] /\ at[p] = "held" /\ Exposed(p)
    BY <2>1 DEF Bound, Working, Opened, Exposed
  <2> QED  BY <2>1, <2>2, UpdateAssumption DEF Version
<1>2. /\ \/ stage'[p] \in Opened /\ UNCHANGED <<damaged, top>>
         \/ stage'[p] = "failed" /\ damaged' /\ top' = top
         \/ /\ stage'[p] \in {"updated", "failed"} /\ ~damaged'
            /\ \E v \in {current[p], offer[p]} :
                  package' = [version |-> v, whole |-> TRUE] /\ top' = Max({top, v})
      /\ \A q \in Process \ {p} : stage'[q] = stage[q]
      /\ UNCHANGED <<locking, registry, file, command, current, offer, note, backup>>
  BY DEF Install, Verify, Revert, Restore, Works, Found, Opened
<1>3. package' \in Package /\ package'.version \in {package.version, current[p], offer[p]}
  <2>1. package' = package \/ package' = [version |-> offer[p], whole |-> TRUE]
        \/ package' = [version |-> current[p], whole |-> TRUE] \/ Leaves(p)
    BY DEF Install, Verify, Revert, Restore
  <2>2. CASE package' = package
    BY <2>2
  <2>3. ASSUME NEW v \in {current[p], offer[p]}, package' = [version |-> v, whole |-> TRUE]
        PROVE  package' \in Package /\ package'.version = v
    <3>1. v \in Version
      BY <1>1
    <3> QED  BY <2>3, <3>1 DEF Package
  <2>4. CASE Leaves(p)
    BY <1>1, <2>4, LeavesIs
  <2> QED  BY <2>1, <2>2, <2>3, <2>4
<1>4. top' \in Version
  <2>1. ASSUME NEW v \in {current[p], offer[p]} PROVE Max({top, v}) \in Version
    <3>1. v \in Version /\ v \in Int /\ top \in Int
      BY <1>1, UpdateAssumption DEF Version
    <3> QED  BY <3>1, Newest
  <2> QED  BY <1>2, <2>1
<1>5. UpdateTypeOK'
  <2>1. damaged' \in BOOLEAN
    BY DEF Install, Verify, Revert, Restore, Found
  <2>2. \A q \in Process : stage'[q] \in Stage
    BY <1>2 DEF Stage, Opened
  <2> QED  BY <1>2, <1>3, <1>4, <2>1, <2>2
<1>6. Functions'
  BY DEF Install, Verify, Revert, Restore
<1>7. ~raced => Kept'
  <2>1. SUFFICES ASSUME ~raced PROVE Kept'
    OBVIOUS
  <2>2. Kept /\ current[p] >= top /\ package.version >= top
    BY <1>1, <2>1 DEF Kept
  <2>3. \A q \in Process \ {p} : stage'[q] \notin Working /\ ~Exposed(q)'
    BY <1>1, <1>2, <2>1, OneAtWork DEF Working, Exposed
  <2>4. top \in Int /\ package.version \in Int
    BY UpdateAssumption DEF Version, Package
  <2>5. CASE stage'[p] \in Opened /\ UNCHANGED <<damaged, top>>
    <3>1. Exposed(p)'
      BY <2>5 DEF Exposed, Opened
    <3>2. package'.version >= top'
      BY <1>1, <1>3, <2>2, <2>4, <2>5
    <3> QED  BY <1>2, <2>2, <2>3, <2>5, <3>1, <3>2 DEF Kept, Working, Opened
  <2>6. CASE stage'[p] = "failed" /\ damaged' /\ top' = top
    <3>1. package'.version >= top'
      BY <1>1, <1>3, <2>2, <2>4, <2>6
    <3> QED  BY <1>2, <2>3, <2>6, <3>1 DEF Kept, Working, Exposed
  <2>7. ASSUME stage'[p] \in {"updated", "failed"}, NEW v \in {current[p], offer[p]},
               package' = [version |-> v, whole |-> TRUE], top' = Max({top, v})
        PROVE  Kept'
    <3>1. v >= top /\ v \in Int
      BY <1>1, <2>2, <2>4
    <3>2. top' = v /\ package'.version = v
      BY <2>4, <2>7, <3>1, Newest
    <3>3. package'.version >= top'
      BY <3>1, <3>2
    <3>4. package' = [version |-> top', whole |-> TRUE]
      BY <2>7, <3>2
    <3>5. \A q \in Process : stage'[q] # "downloading" /\ ~Exposed(q)'
      BY <2>3, <2>7 DEF Working, Exposed
    <3> QED  BY <3>3, <3>4, <3>5 DEF Kept
  <2> QED  BY <1>2, <2>5, <2>6, <2>7
<1> QED  BY <1>1, <1>2, <1>5, <1>6, <1>7 DEF locking, Working, Bound, Opened

\* A process that dies with the package open leaves one of the two versions.
LEMMA EndsStep ==
  ASSUME UpdateInv, NEW p \in Process, LockInv', LockTypeOK', ~raced' => ~raced, Ends(p),
         ~raced => \A a, b \in Process : at[a] = "held" /\ at[b] = "held" => a = b
  PROVE  UpdateInv'
<1> USE DEF UpdateInv, UpdateTypeOK, Functions, Function, To
<1>1. /\ stage'[p] = "off" /\ offer'[p] = 0 /\ current'[p] = 0
      /\ \A q \in Process \ {p} : /\ stage'[q] = stage[q] /\ offer'[q] = offer[q]
                                   /\ current'[q] = current[q] /\ at'[q] = at[q]
      /\ raced' = raced /\ UNCHANGED <<registry, file, top>>
  BY DEF Ends, Exit, Goes, LockTypeOK
<1>2. \A q \in Process : offer[q] \in Int /\ current[q] \in Int
  BY UpdateAssumption
<1>3. \/ package' = package /\ (~Exposed(p) => damaged' = damaged) /\ (Exposed(p) => damaged')
      \/ Exposed(p) /\ damaged' /\ package' \in Package
         /\ package'.version \in {current[p], offer[p]} /\ offer[p] > current[p]
  <2>1. CASE stage[p] \in {"installing", "restoring", "retrying"}
    <3>1. Exposed(p) /\ stage[p] \in Bound /\ stage[p] # "off" /\ damaged' /\ Leaves(p)
      BY <2>1 DEF Ends, Exposed, Bound, Opened
    <3>2. current[p] \in Version /\ offer[p] \in Version /\ offer[p] > current[p]
      BY <3>1, UpdateAssumption DEF Version
    <3> QED  BY <3>1, <3>2, LeavesIs
  <2>2. CASE stage[p] \notin {"installing", "restoring", "retrying"}
    BY <2>2 DEF Ends
  <2> QED  BY <2>1, <2>2
<1>4. UpdateTypeOK'
  <2>1. package' \in Package /\ damaged' \in BOOLEAN
    BY <1>3 DEF Ends
  <2>2. \A q \in Process :
          /\ command'[q] \in Commands /\ stage'[q] \in Stage
          /\ note'[q] \in StateFile \cup {Nil} /\ backup'[q] \in BOOLEAN
    BY DEF Ends, Commands, Stage
  <2>3. \A q \in Process : current'[q] \in 0..MaxVersion /\ offer'[q] \in 0..MaxVersion
    BY <1>1, UpdateAssumption
  <2> QED  BY <1>1, <2>1, <2>2, <2>3
<1>5. Functions'
  BY DEF Ends
<1>6. ~raced => Kept'
  <2>1. SUFFICES ASSUME ~raced PROVE Kept'
    OBVIOUS
  <2>2. Kept /\ (Exposed(p) => current[p] >= top) /\ package.version >= top
    BY <2>1 DEF Kept
  <2>3. top \in Int
    BY UpdateAssumption DEF Version
  <2>4. package'.version >= top'
    BY <1>1, <1>2, <1>3, <2>2, <2>3
  <2>5. ~Exposed(p)' /\ \A q \in Process \ {p} : Exposed(q)' <=> Exposed(q)
    BY <1>1 DEF Exposed
  <2>6. CASE Exposed(p)
    <3>1. \A q \in Process \ {p} : stage[q] \notin Working
      <4>1. stage[p] \in Working
        BY <2>6 DEF Exposed, Working, Opened
      <4> QED  BY <2>1, <4>1, OneAtWork
    <3>2. \A q \in Process : stage'[q] # "downloading" /\ ~Exposed(q)'
      BY <1>1, <3>1 DEF Exposed, Working, Opened
    <3> QED  BY <1>3, <2>4, <2>6, <3>2 DEF Kept
  <2>7. CASE ~Exposed(p)
    BY <1>1, <1>3, <2>2, <2>4, <2>5, <2>7 DEF Kept
  <2> QED  BY <2>6, <2>7
<1> QED  BY <1>1, <1>4, <1>5, <1>6 DEF Working, Bound, Opened

\* Time passes, and the registry changes its mind.
LEMMA WorldStep ==
  ASSUME UpdateInv, LockInv', LockTypeOK', ~raced' => ~raced, Passes \/ Publishes
  PROVE  UpdateInv'
<1>1. UNCHANGED updating /\ at' = at /\ file' \in StateFile /\ registry' \in Version
  BY DEF Passes, Publishes, Age, locking, updating, UpdateInv, UpdateTypeOK, StateFile
<1> QED
  BY <1>1 DEF updating, UpdateInv, UpdateTypeOK, Functions, Function, Kept, Exposed

\* Every step keeps the invariant.
LEMMA UpdateStep == UpdateInv /\ [UpdateNext]_updates => UpdateInv'
<1> SUFFICES ASSUME UpdateInv, [UpdateNext]_updates PROVE UpdateInv'
  OBVIOUS
<1>1. LockInv' /\ LockTypeOK' /\ (~raced' => ~raced)
      /\ (~raced => \A a, b \in Process : at[a] = "held" /\ at[b] = "held" => a = b)
  BY LockKept
<1>2. CASE UNCHANGED updates
  BY <1>1, <1>2 DEF updates, updating, locking, UpdateInv, UpdateTypeOK, Functions, Function,
                    Kept, Exposed
<1>3. CASE Passes \/ Publishes
  BY <1>1, <1>3, WorldStep
<1>4. ASSUME NEW p \in Process,
             \/ Starts(p) \/ Startup(p) \/ View(p) \/ Reads(p) \/ Writes(p) \/ Locks(p)
             \/ Pack(p) \/ Download(p) \/ Install(p) \/ Verify(p) \/ Revert(p) \/ Restore(p)
             \/ Ends(p)
      PROVE  UpdateInv'
  BY <1>1, <1>4, Decides, LocksStep, PackStep, DownloadStep, InstallStep, EndsStep
<1> QED  BY <1>2, <1>3, <1>4 DEF UpdateNext

\* Among processes that update their package only one at a time holds the lock
\* (updater.ts, apply), with the exception that StateLock has.
THEOREM OneUpdater == UpdateSpec => []Exclusive
<1>1. UpdateInv => Exclusive
  BY OwnedExclusive DEF UpdateInv
<1> QED  BY InitUpdateInv, UpdateStep, <1>1, PTL DEF UpdateSpec

\* Between updates the package is whole and of the newest version that was
\* ever found to work, whatever the registry says and whichever installs
\* fail, unless one died or gave up with the package open.
THEOREM PackageSettled == UpdateSpec => []Settled
<1>1. UpdateInv => Settled
  <2>1. SUFFICES ASSUME UpdateInv, Holders = {}, ~damaged, ~raced
        PROVE  package = [version |-> top, whole |-> TRUE]
    BY DEF Settled
  <2>2. \A q \in Process : ~Exposed(q)
    BY <2>1 DEF UpdateInv, Holders, Exposed, Working, Opened
  <2> QED  BY <2>1, <2>2 DEF UpdateInv, Kept
<1> QED  BY InitUpdateInv, UpdateStep, <1>1, PTL DEF UpdateSpec

\* The updater's variables keep their types.
THEOREM UpdateTypes == UpdateSpec => []UpdateTypeOK
<1>1. UpdateInv => UpdateTypeOK
  BY DEF UpdateInv
<1> QED  BY InitUpdateInv, UpdateStep, <1>1, PTL DEF UpdateSpec
=============================================================================
