--------------------------- MODULE SubagentsProofs ---------------------------
(***************************************************************************)
(* What holds of the child agents of a session for any number of processes *)
(* and runs: writers stay alone in their workspace, locks end with their   *)
(* workers, success was reported, closing leaves nothing behind, and only  *)
(* taking the session over disturbs a record that is final.  The queue is  *)
(* served whenever there is room, and no unfinished run is forgotten.      *)
(*                                                                         *)
(* The inductive invariant ties each run's place in the queue, its worker, *)
(* its lock and what is saved and remembered of it to the process that     *)
(* owns the session (Fact), and says what a process that only looks on     *)
(* remembers of the runs it launched (Remembered).                         *)
(*                                                                         *)
(* The pump is a recursive function over the queue.  That it is defined,   *)
(* and that what one turn of it preserves the whole preserves, is shown by *)
(* the least number for which it would fail (Least).                       *)
(***************************************************************************)
EXTENDS Subagents, FiniteSetTheorems, TLAPS

\* A set of numbers up to N has a least one.
Least == \A N \in Nat : \A B \in SUBSET (0..N) : B # {} => \E n \in B : \A m \in B : n <= m

\* By descent: the finite subsets that have no least number are well-founded.
LEMMA LeastOf == Least
<1> SUFFICES ASSUME NEW N \in Nat, NEW B \in SUBSET (0..N), B # {}
             PROVE  \E n \in B : \A m \in B : n <= m
  BY DEF Least
<1> DEFINE Upto(n) == 0..n
           C == {T \in SUBSET (0..N) : T # {} /\ \A n \in T : \E m \in T : m < n}
<1>1. IsFiniteSet(0..N)
  BY FS_Interval
<1> SUFFICES ASSUME ~\E n \in B : \A m \in B : n <= m PROVE FALSE
  OBVIOUS
<1>2. B \in C
  OBVIOUS
<1>3. C \subseteq FiniteSubsetsOf(0..N)
  BY <1>1, FS_Subset DEF FiniteSubsetsOf
<1>4. PICK T \in C : \A U \in C : <<U, T>> \notin StrictSubsetOrdering(0..N)
  <2> HIDE DEF C
  <2> QED BY <1>1, <1>2, <1>3, FS_StrictSubsetOrderingWellFounded, WFMin
<1>5. PICK x \in T : TRUE
  BY <1>4
<1>6. PICK y \in T : y < x
  BY <1>4, <1>5
<1>7. T \subseteq 0..N /\ x \in Int /\ y \in Int
  BY <1>4, <1>5, <1>6
<1>8. T \ {x} \in SUBSET (0..N) /\ T \ {x} # {}
  BY <1>6, <1>7
<1>9. ASSUME NEW n \in T \ {x} PROVE \E m \in T \ {x} : m < n
  <2>1. PICK m \in T : m < n
    BY <1>4, <1>9
  <2>2. CASE m = x
    BY <2>1, <2>2, <1>6, <1>7, <1>9
  <2> QED BY <2>1, <2>2
<1>10. T \ {x} \in C
  BY <1>8, <1>9
<1>11. <<T \ {x}, T>> \in StrictSubsetOrdering(0..N)
  BY <1>4, <1>5, <1>7, <1>8 DEF StrictSubsetOrdering
<1> QED BY <1>4, <1>10, <1>11

Pump(state, most, setting, f) ==
    f = [n \in 0..MaxRuns |-> IF n = 0 THEN state ELSE Considered(f[n - 1], n, most, setting)]

\* The pump's turns up to N.
Upto(state, most, setting, N, f) ==
    f = [n \in 0..N |-> IF n = 0 THEN state ELSE Considered(f[n - 1], n, most, setting)]

\* The pump is defined for every queue.
LEMMA PumpExists ==
  ASSUME NEW state, NEW most, NEW setting
  PROVE  \E f : Upto(state, most, setting, MaxRuns, f)
<1> DEFINE B == {N \in 0..MaxRuns : ~\E f : Upto(state, most, setting, N, f)}
<1>0. MaxRuns \in Nat
  BY SubagentsAssumption
<1> SUFFICES ASSUME B # {} PROVE FALSE
  BY <1>0
<1>1. PICK N \in B : \A m \in B : N <= m
  <2> HIDE DEF B
  <2>1. B \in SUBSET (0..MaxRuns)
    BY DEF B
  <2> QED BY <1>0, <2>1, LeastOf DEF Least
<1>2. N \in Nat /\ N <= MaxRuns
  BY <1>0, <1>1
<1>3. CASE N = 0
  <2> DEFINE f == [n \in 0..0 |-> state]
  <2>1. Upto(state, most, setting, 0, f)
    BY DEF Upto
  <2> QED BY <1>1, <1>3, <2>1
<1>4. CASE N # 0
  <2>1. N - 1 \in 0..MaxRuns /\ ~(N <= N - 1)
    BY <1>0, <1>2, <1>4
  <2>2. N - 1 \notin B
    BY <1>1, <2>1
  <2>3. PICK g : Upto(state, most, setting, N - 1, g)
    BY <2>1, <2>2
  <2> DEFINE f == [n \in 0..N |-> IF n = N THEN Considered(g[N - 1], N, most, setting) ELSE g[n]]
  <2>4. \A n \in 0..N : n # N => n \in 0..(N - 1) /\ (n # 0 => n - 1 \in 0..(N - 1) /\ n - 1 \in
          0..N /\ n - 1 # N)
    BY <1>2
  <2>5. N - 1 \in 0..N /\ N - 1 # N
    BY <1>2, <1>4
  <2>6. \A n \in 0..(N - 1) : g[n] = IF n = 0 THEN state ELSE Considered(g[n - 1], n, most, setting)
    BY <2>3 DEF Upto
  <2>7. ASSUME NEW n \in 0..N
        PROVE  f[n] = IF n = 0 THEN state ELSE Considered(f[n - 1], n, most, setting)
    <3>1. CASE n = N
      BY <2>5, <3>1, <1>4
    <3>2. CASE n # N /\ n = 0
      BY <2>4, <2>6, <3>2
    <3>3. CASE n # N /\ n # 0
      <4>1. f[n] = g[n] /\ f[n - 1] = g[n - 1]
        BY <2>4, <3>3
      <4> QED BY <2>4, <2>6, <3>3, <4>1
    <3> QED BY <3>1, <3>2, <3>3
  <2>8. Upto(state, most, setting, N, f)
    <3>1. f = [n \in 0..N |-> f[n]]
      OBVIOUS
    <3> HIDE DEF f
    <3> QED BY <2>7, <3>1 DEF Upto
  <2> QED BY <1>1, <2>8
<1> QED BY <1>3, <1>4

\* Its turns, one by one.
LEMMA PumpIs ==
  ASSUME NEW state, NEW most, NEW setting
  PROVE  \E f : /\ f[0] = state
                /\ \A n \in 1..MaxRuns : f[n] = Considered(f[n - 1], n, most, setting)
                /\ Pumped(state, most, setting) = f[MaxRuns]
<1> DEFINE f == CHOOSE f : Upto(state, most, setting, MaxRuns, f)
<1>1. Upto(state, most, setting, MaxRuns, f)
  BY PumpExists
<1>2. Pumped(state, most, setting) = f[MaxRuns]
  BY DEF Pumped, Upto
<1>3. f[0] = state /\ \A n \in 1..MaxRuns : f[n] = Considered(f[n - 1], n, most, setting)
  <2>0. MaxRuns \in Nat
    BY SubagentsAssumption
  <2>1. \A n \in 0..MaxRuns : f[n] = IF n = 0 THEN state ELSE Considered(f[n - 1], n, most, setting)
    <3> HIDE DEF f
    <3> QED BY <1>1 DEF Upto
  <2>2. \A n \in 1..MaxRuns : n \in 0..MaxRuns /\ n # 0
    BY <2>0
  <2>3. 0 \in 0..MaxRuns
    BY <2>0
  <2> HIDE DEF f
  <2> QED BY <2>1, <2>2, <2>3
<1> QED BY <1>2, <1>3

\* What the pump works on.
WorkerState == {"none", "live", "stopping", "orphan"}
State == [known : [Run -> Record], pending : SUBSET Run, worker : [Run -> WorkerState],
          timers : SUBSET Run, locks : SUBSET Run]

\* A worker that is in its workspace, and a run it must not be there with.
Works(state, r) == state.worker[r] \in {"live", "stopping"}
Clash(r, o) == r # o /\ job[r].writes /\ job[r].place = job[o].place

\* The pump leaves a run alone, or starts it from the queue.
Kept(a, b, r) ==
    /\ b.known[r] = a.known[r]
    /\ r \in b.pending <=> r \in a.pending
    /\ r \in b.locks <=> r \in a.locks

Started(a, b, r) ==
    /\ r \in a.pending \ b.pending
    /\ b.worker[r] = "live"
    /\ b.known[r] = [status |-> "starting", session |-> a.known[r].session]

\* Of two workers in one workspace, one of them a writer, the pump started
\* neither; it starts no writer beside another session's.
Serialized(a, b) ==
    /\ \A r, o \in Run : Clash(r, o) /\ Works(b, r) /\ Works(b, o) => Works(a, r) /\ Works(a, o)
    /\ \A r \in Run : Works(b, r) /\ job[r].writes /\ job[r].place \in foreign => Works(a, r)

\* What the pump may make of a state.
Between(a, b, setting) ==
    /\ b \in State
    /\ \A r \in Run : IF b.worker[r] = a.worker[r] THEN Kept(a, b, r) ELSE Started(a, b, r)
    /\ setting = "serialize" => Serialized(a, b)

\* Nothing in the queue has a worker.
Free(state) == \A r \in state.pending : state.worker[r] = "none"

\* A run that is started leaves the queue; of the others nothing changes.
LEMMA StartsIs ==
  ASSUME NEW s \in State, NEW r \in Run, NEW setting, NEW n, n = Starts(s, r, setting)
  PROVE  /\ n \in State
         /\ n.pending = s.pending \ {r}
         /\ n.worker = [s.worker EXCEPT ![r] = "live"]
         /\ n.known[r] = [status |-> "starting", session |-> s.known[r].session]
         /\ \A o \in Run \ {r} : n.known[o] = s.known[o] /\ (o \in n.locks <=> o \in s.locks)
<1>1. n = [s EXCEPT !.pending = s.pending \ {r},
                    !.known = [s.known EXCEPT ![r] = [s.known[r] EXCEPT !.status = "starting"]],
                    !.worker = [s.worker EXCEPT ![r] = "live"],
                    !.timers = s.timers \cup {r},
                    !.locks = IF setting = "serialize" /\ job[r].writes THEN s.locks \cup {r} ELSE
                      s.locks]
  BY DEF Starts
<1>2. [s.known[r] EXCEPT !.status = "starting"] = [status |-> "starting", session |->
        s.known[r].session]
  BY DEF State, Record
<1>3. [s.known[r] EXCEPT !.status = "starting"] \in Record
  BY DEF State, Record, Active
<1>4. n.known = [s.known EXCEPT ![r] = [s.known[r] EXCEPT !.status = "starting"]]
  BY <1>1 DEF State
<1>5. n.known[r] = [status |-> "starting", session |-> s.known[r].session]
  BY <1>2, <1>4 DEF State
<1>6. n.known \in [Run -> Record]
  BY <1>3, <1>4 DEF State
<1>7. n.pending = s.pending \ {r} /\ n.worker = [s.worker EXCEPT ![r] = "live"] /\ n.timers =
        s.timers \cup {r}
  BY <1>1 DEF State
<1>8. n.locks = IF setting = "serialize" /\ job[r].writes THEN s.locks \cup {r} ELSE s.locks
  BY <1>1 DEF State
<1>9. n = [known |-> n.known, pending |-> n.pending, worker |-> n.worker, timers |-> n.timers,
        locks |-> n.locks]
  BY <1>1 DEF State
<1>10. n \in State
  <2>1. n.pending \in SUBSET Run /\ n.worker \in [Run -> WorkerState] /\ n.timers \in SUBSET Run
          /\ n.locks \in SUBSET Run
    BY <1>7, <1>8 DEF State, WorkerState
  <2> QED BY <1>6, <1>9, <2>1 DEF State
<1>11. \A o \in Run \ {r} : n.known[o] = s.known[o] /\ (o \in n.locks <=> o \in s.locks)
  BY <1>4, <1>8 DEF State
<1> QED BY <1>5, <1>7, <1>10, <1>11

\* Under the serialize setting a writer shares its workspace with nobody.
LEMMA ShareIs ==
  ASSUME NEW s \in State, NEW r \in Run, MayShare(s, r, "serialize"),
         NEW o \in Run, Works(s, o), job[o].place = job[r].place
  PROVE  ~job[o].writes /\ ~job[r].writes
BY DEF MayShare, Beside, Workers, Works

\* One turn of the pump,
LEMMA ConsideredStep ==
  ASSUME NEW a \in State, Free(a), NEW s, NEW most, NEW setting, Between(a, s, setting), NEW r \in Run
  PROVE  Between(a, Considered(s, r, most, setting), setting)
<1> DEFINE n == Starts(s, r, setting)
<1>1. CASE Considered(s, r, most, setting) = s
  BY <1>1
<1>2. CASE /\ Considered(s, r, most, setting) = n
           /\ r \in s.pending /\ MayShare(s, r, setting)
  <2>1. s \in State
    BY DEF Between
  <2>2. /\ n \in State
        /\ n.pending = s.pending \ {r}
        /\ n.worker = [s.worker EXCEPT ![r] = "live"]
        /\ n.known[r] = [status |-> "starting", session |-> s.known[r].session]
        /\ \A o \in Run \ {r} : n.known[o] = s.known[o] /\ (o \in n.locks <=> o \in s.locks)
    BY <2>1, StartsIs
  <2> HIDE DEF n
  <2>3. s.worker \in [Run -> WorkerState] /\ a.worker \in [Run -> WorkerState]
    BY <2>1 DEF State
  <2>4. s.worker[r] = a.worker[r] /\ Kept(a, s, r)
    BY <1>2 DEF Between, Started
  <2>5. r \in a.pending /\ a.worker[r] = "none"
    BY <1>2, <2>4 DEF Kept, Free
  <2>6. n.worker[r] = "live" /\ \A o \in Run \ {r} : n.worker[o] = s.worker[o]
    BY <2>2, <2>3
  <2>7. Started(a, n, r) /\ n.worker[r] # a.worker[r]
    BY <2>2, <2>4, <2>5, <2>6 DEF Started, Kept
  <2>8. ASSUME NEW o \in Run \ {r}
        PROVE  IF n.worker[o] = a.worker[o] THEN Kept(a, n, o) ELSE Started(a, n, o)
    BY <2>2, <2>6 DEF Between, Kept, Started
  <2>9. ASSUME setting = "serialize" PROVE Serialized(a, n)
    <3>1. Serialized(a, s)
      BY <2>9 DEF Between
    <3>2. ASSUME NEW o \in Run, Works(n, o), job[o].place = job[r].place, o # r
          PROVE  ~job[o].writes /\ ~job[r].writes
      BY <1>2, <2>1, <2>6, <2>9, <3>2, ShareIs DEF Works
    <3>3. ASSUME NEW x \in Run, NEW o \in Run, Clash(x, o), Works(n, x), Works(n, o)
          PROVE  Works(a, x) /\ Works(a, o)
      <4>1. CASE x # r /\ o # r
        BY <2>6, <3>1, <3>3, <4>1 DEF Works, Serialized
      <4> QED BY <3>2, <3>3, <4>1 DEF Clash
    <3>4. ASSUME NEW o \in Run, Works(n, o), job[o].writes, job[o].place \in foreign
          PROVE  Works(a, o)
      <4>1. o # r
        BY <1>2, <2>9, <3>4 DEF MayShare
      <4> QED BY <2>6, <3>1, <3>4, <4>1 DEF Works, Serialized
    <3> QED BY <3>3, <3>4 DEF Serialized
  <2>10. Between(a, n, setting)
    BY <2>2, <2>7, <2>8, <2>9 DEF Between
  <2> QED BY <1>2, <2>10
<1> QED BY <1>1, <1>2 DEF Considered

\* and all of them, start runs only from the queue and only where they may.
LEMMA PumpedIs ==
  ASSUME NEW a \in State, Free(a), NEW most, NEW setting
  PROVE  Between(a, Pumped(a, most, setting), setting)
<1>0. MaxRuns \in Nat
  BY SubagentsAssumption
<1>1. PICK f : /\ f[0] = a
               /\ \A n \in 1..MaxRuns : f[n] = Considered(f[n - 1], n, most, setting)
               /\ Pumped(a, most, setting) = f[MaxRuns]
  BY PumpIs
<1>2. Between(a, a, setting)
  BY DEF Between, Kept, Serialized
<1> DEFINE B == {n \in 0..MaxRuns : ~Between(a, f[n], setting)}
<1> SUFFICES ASSUME B # {} PROVE FALSE
  BY <1>0, <1>1
<1>3. PICK n \in B : \A m \in B : n <= m
  <2> HIDE DEF B
  <2>1. B \in SUBSET (0..MaxRuns)
    BY DEF B
  <2> QED BY <1>0, <2>1, LeastOf DEF Least
<1>4. n # 0
  BY <1>1, <1>2, <1>3
<1>5. n \in 1..MaxRuns /\ n - 1 \in 0..MaxRuns /\ ~(n <= n - 1)
  BY <1>0, <1>3, <1>4
<1>6. Between(a, f[n - 1], setting)
  BY <1>3, <1>5
<1>7. Between(a, f[n], setting)
  BY <1>1, <1>5, <1>6, ConsideredStep DEF Run
<1> QED BY <1>3, <1>7

\* What a method leaves behind.
After(p) == [known |-> memory'[p], pending |-> pending', worker |-> worker', timers |-> timers',
  locks |-> locks']

Typed ==
    /\ disk' \in [Run -> Record]
    /\ memory' \in [Process -> [Run -> Record]]
    /\ pending' \subseteq Run
    /\ worker' \in [Run -> WorkerState]
    /\ timers' \subseteq Run
    /\ locks' \subseteq Run

\* A run after a method that ends with the pump: as the method left it, or
\* started.
Effect(p, a, saved, r) ==
    IF worker'[r] = a.worker[r]
    THEN /\ memory'[p][r] = a.known[r]
         /\ r \in pending' <=> r \in a.pending
         /\ r \in locks' <=> r \in a.locks
         /\ disk'[r] = IF r \in saved THEN a.known[r] ELSE disk[r]
    ELSE /\ phase[p] = "open"
         /\ r \in a.pending \ pending'
         /\ worker'[r] = "live"
         /\ memory'[p][r] = [status |-> "starting", session |-> a.known[r].session]
         /\ disk'[r] = memory'[p][r]

\* What a method leaves of each run, and of the other processes.
LEMMA BecomesIs ==
  ASSUME TypeOK, NEW p \in Process, NEW a \in State, Free(a), NEW saved \in SUBSET Run,
         NEW most, NEW setting, Becomes(p, a, saved, most, setting)
  PROVE  /\ Typed
         /\ \A q \in Process \ {p} : memory'[q] = memory[q]
         /\ \A r \in Run : Effect(p, a, saved, r)
         /\ setting = "serialize" => Serialized(a, After(p))
<1> DEFINE b == IF phase[p] = "open" THEN Pumped(a, most, setting) ELSE a
<1>1. /\ memory' = [memory EXCEPT ![p] = b.known]
      /\ disk' = [r \in Run |-> IF r \in saved \/ b.worker[r] # a.worker[r] THEN b.known[r] ELSE
           disk[r]]
      /\ pending' = b.pending
      /\ worker' = b.worker
      /\ timers' = b.timers
      /\ locks' = b.locks
  BY DEF Becomes
<1>2. Between(a, a, setting)
  BY DEF Between, Kept, Serialized
<1>3. Between(a, b, setting)
  BY <1>2, PumpedIs
<1>4. phase[p] # "open" => b = a
  OBVIOUS
<1> HIDE DEF b
<1>5. b \in State
  BY <1>3 DEF Between
<1>6. Typed
  BY <1>1, <1>5 DEF Typed, TypeOK, State
<1>7. \A q \in Process \ {p} : memory'[q] = memory[q]
  BY <1>1 DEF TypeOK
<1>8. memory'[p] = b.known
  BY <1>1 DEF TypeOK
<1>9. ASSUME NEW r \in Run PROVE Effect(p, a, saved, r)
  <2>1. CASE b.worker[r] = a.worker[r]
    <3>1. Kept(a, b, r)
      BY <1>3, <2>1 DEF Between
    <3> QED BY <1>1, <1>8, <2>1, <3>1 DEF Kept, Effect
  <2>2. CASE b.worker[r] # a.worker[r]
    <3>1. Started(a, b, r)
      BY <1>3, <2>2 DEF Between
    <3> QED BY <1>1, <1>4, <1>8, <2>2, <3>1 DEF Started, Effect
  <2> QED BY <2>1, <2>2
<1>10. ASSUME setting = "serialize" PROVE Serialized(a, After(p))
  <2>1. Serialized(a, b)
    BY <1>3, <1>10 DEF Between
  <2>2. After(p).worker = b.worker
    BY <1>1 DEF After
  <2> QED BY <2>1, <2>2 DEF Serialized, Works
<1> QED BY <1>6, <1>7, <1>9, <1>10

\* A method's own changes.
Mid(known, queued, working, armed, locked) ==
    [known |-> known, pending |-> queued, worker |-> working, timers |-> armed, locks |-> locked]

\* The parts of a state.
LEMMA MidIs ==
  ASSUME NEW k \in [Run -> Record], NEW q \in SUBSET Run, NEW w \in [Run -> WorkerState],
         NEW t \in SUBSET Run, NEW l \in SUBSET Run, NEW m, m = Mid(k, q, w, t, l)
  PROVE  /\ m \in State
         /\ m.known = k /\ m.pending = q /\ m.worker = w /\ m.timers = t /\ m.locks = l
BY DEF Mid, State

\* The state a method begins with.
LEMMA HereIs ==
  ASSUME NEW p \in Process
  PROVE  Here(p) = Mid(memory[p], pending, worker, timers, locks)
BY DEF Here, Mid

\* The run's process is there; its record is saved as unfinished.
Working(r) == worker[r] \in {"live", "stopping"}
Saved(r) == disk[r].status \in Active

\* What the owner's queue, workers, locks and records say of one run agrees,
\* and a run that was never launched has left nothing.
Fact(r) ==
    /\ r \in locks => Working(r)
    /\ r \in pending => /\ worker[r] = "none" /\ owner # None /\ by[r] = owner /\ phase[owner] = "open"
                        /\ memory[owner][r].status = "queued" /\ Saved(r)
    /\ Working(r) => owner # None /\ by[r] = owner /\ Saved(r)
    /\ worker[r] = "live" => memory[owner][r].status \in Active
    /\ worker[r] = "stopping" => /\ memory[owner][r].status \in Terminal \ {"completed"}
                                 /\ phase[owner] = "open" => before[r] \in Active
    /\ worker[r] # "none" => by[r] # None
    /\ by[r] = None <=> disk[r].status = "none"
    /\ owner # None /\ memory[owner][r].status \in Active => r \in pending \/ worker[r] = "live"
    /\ owner # None /\ by[r] = owner /\ Saved(r) => r \in pending \/ Working(r)

\* A process knows no run that was never launched; one that has the session open
\* without owning it knows its own unfinished runs as unfinished.
Remembered(p, r) ==
    /\ by[r] = None => memory[p][r].status = "none"
    /\ phase[p] = "open" /\ owner # p /\ by[r] = p /\ Saved(r) => memory[p][r].status \in Active

\* The owner has the session open or is closing it.
Present == owner # None => phase[owner] # "out"

\* The inductive invariant.
IInv ==
    /\ TypeOK
    /\ Present
    /\ \A r \in Run : Fact(r)
    /\ \A p \in Process, r \in Run : Remembered(p, r)

\* What a step must respect: serialized writers,
Shared(setting) == setting = "serialize" => Meetings' \subseteq Meetings /\ Intrusions' \subseteq
  Intrusions
\* the locks of the workers that stay,
LocksStay == \A r \in locks : worker'[r] \in {"live", "stopping"} => r \in locks'
\* that only a reported success is saved as one,
Reported ==
    \A r \in Run : disk'[r].status = "completed" /\ disk[r].status # "completed" =>
        result[r] = "completed" /\ worker[r] = "live"
\* and that a final record stays.
Final == \A r \in Run : disk[r].status \in Terminal => disk'[r].status = disk[r].status
Lawful == (policy' = policy => Shared(policy)) /\ LocksStay /\ Reported

\* A step that starts no worker and saves no success respects all four.
LEMMA SmallLawful ==
  ASSUME UNCHANGED <<job, foreign>>,
         \A r \in Run : worker'[r] \in {"live", "stopping"} => worker[r] \in {"live", "stopping"},
         \A r \in locks : worker'[r] \in {"live", "stopping"} => r \in locks',
         \A r \in Run : disk'[r].status = "completed" => disk[r].status = "completed",
         \A r \in Run : disk[r].status \in Terminal => disk'[r].status = disk[r].status
  PROVE  Lawful /\ Final
<1>1. Intrusions' \subseteq Intrusions
  BY DEF Intrusions
<1>2. ASSUME NEW r \in Run, NEW o \in Run, Meet(r, o)' PROVE Meet(r, o)
  BY <1>2 DEF Meet
<1>3. \A m \in Run \X Run : m[1] \in Run /\ m[2] \in Run
  OBVIOUS
<1>4. Meetings' \subseteq Meetings
  BY <1>2, <1>3 DEF Meetings
<1> QED BY <1>1, <1>4 DEF Lawful, Shared, LocksStay, Reported, Final

\* So does a method that ends with the pump, if its own changes do.
LEMMA PumpLawful ==
  ASSUME IInv, NEW p \in Process, NEW a \in State, NEW saved \in SUBSET Run, NEW setting,
         \A r \in Run : Effect(p, a, saved, r),
         setting = "serialize" => Serialized(a, After(p)),
         UNCHANGED <<job, foreign>>,
         \A r \in Run : Works(a, r) => Working(r),
         \A r \in locks : Works(a, r) => r \in a.locks,
         \A r \in a.pending : worker[r] = "none",
         \A r \in saved : a.known[r].status = "completed" => result[r] = "completed" /\ worker[r]
           = "live"
  PROVE  /\ Shared(setting) /\ LocksStay /\ Reported
         /\ (\A r \in saved \cup a.pending : disk[r].status \notin Terminal) => Final
<1>1. ASSUME setting = "serialize" PROVE Meetings' \subseteq Meetings /\ Intrusions' \subseteq
               Intrusions
  <2>1. Serialized(a, After(p)) /\ job' = job /\ foreign' = foreign
    BY <1>1
  <2>2. \A r \in Run : Works(After(p), r) <=> worker'[r] \in {"live", "stopping"}
    BY DEF Works, After
  <2>3. ASSUME NEW r \in Run, NEW o \in Run, Meet(r, o)' PROVE Meet(r, o)
    BY <2>1, <2>2, <2>3 DEF Serialized, Meet, Clash, Working
  <2>4. ASSUME NEW r \in Run, worker'[r] \in {"live", "stopping"}, job'[r].writes, job'[r].place
                 \in foreign'
        PROVE  worker[r] \in {"live", "stopping"} /\ job[r].writes /\ job[r].place \in foreign
    BY <2>1, <2>2, <2>4 DEF Serialized, Working
  <2>5. \A m \in Run \X Run : m[1] \in Run /\ m[2] \in Run
    OBVIOUS
  <2>6. Meetings' \subseteq Meetings
    BY <2>3, <2>5 DEF Meetings
  <2>7. Intrusions' \subseteq Intrusions
    BY <2>4 DEF Intrusions
  <2> QED BY <2>6, <2>7
<1>2. LocksStay
  <2> SUFFICES ASSUME NEW r \in locks, worker'[r] \in {"live", "stopping"} PROVE r \in locks'
    BY DEF LocksStay
  <2>1. r \in Run /\ Working(r)
    BY DEF IInv, TypeOK, Fact
  <2>2. r \notin a.pending
    BY <2>1 DEF Working
  <2> QED BY <2>1, <2>2 DEF Effect, Works
<1>3. Reported
  <2> SUFFICES ASSUME NEW r \in Run, disk'[r].status = "completed", disk[r].status # "completed"
               PROVE  result[r] = "completed" /\ worker[r] = "live"
    BY DEF Reported
  <2>1. CASE worker'[r] = a.worker[r]
    BY <2>1 DEF Effect
  <2>2. CASE worker'[r] # a.worker[r]
    <3>1. disk'[r] = [status |-> "starting", session |-> a.known[r].session]
      BY <2>2 DEF Effect
    <3> QED BY <3>1
  <2> QED BY <2>1, <2>2
<1>4. ASSUME \A r \in saved \cup a.pending : disk[r].status \notin Terminal PROVE Final
  BY <1>4 DEF Final, Effect
<1> QED BY <1>1, <1>2, <1>3, <1>4 DEF Shared

\* No queued run has a worker yet.
LEMMA FreeHere ==
  ASSUME IInv
  PROVE  \A r \in pending : worker[r] = "none"
BY DEF IInv, Fact, TypeOK

\* A run the pump has started fits the invariant.
LEMMA StartedFact ==
  ASSUME IInv, NEW p \in Process, owner' = p, phase' = phase, NEW a \in State, NEW saved, NEW r \in Run,
         Effect(p, a, saved, r), worker'[r] # a.worker[r], by'[r] = p
  PROVE  Fact(r)' /\ \A q \in Process : Remembered(q, r)'
<1>1. /\ phase[p] = "open" /\ worker'[r] = "live" /\ r \notin pending'
      /\ memory'[p][r] = [status |-> "starting", session |-> a.known[r].session]
      /\ disk'[r] = memory'[p][r]
  BY DEF Effect
<1>2. memory'[p][r].status = "starting" /\ disk'[r].status = "starting"
  BY <1>1
<1>3. p # None
  BY SubagentsAssumption
<1> QED BY <1>1, <1>2, <1>3 DEF Fact, Remembered, Working, Saved, Active, Terminal

\* The types after a method,
LEMMA TypedBecomes ==
  ASSUME TypeOK, Typed, phase' \in [Process -> {"out", "open", "closing"}], owner' \in Process
           \cup {None},
         job' = job, by' \in [Run -> Process \cup {None}], before' \in [Run -> Active \cup {"none"}],
         result' \in [Run -> {"none", "completed", "failed"}], UNCHANGED <<outside, failures>>,
         limit' \in Limits, policy' \in Policies
  PROVE  TypeOK'
BY DEF TypeOK, Typed, WorkerState, outside

\* and before it.
LEMMA KnownTypes ==
  ASSUME TypeOK, NEW p \in Process
  PROVE  /\ memory[p] \in [Run -> Record] /\ pending \in SUBSET Run /\ worker \in [Run -> WorkerState]
         /\ timers \in SUBSET Run /\ locks \in SUBSET Run
BY DEF TypeOK, WorkerState

\* A record with another status.
LEMMA WithStatus ==
  ASSUME NEW k \in Record, NEW status \in Active \cup Terminal
  PROVE  /\ [k EXCEPT !.status = status] = [status |-> status, session |-> k.session]
         /\ [k EXCEPT !.status = status] \in Record
BY DEF Record

\* Methods that only pump.
LEMMA PlainStep ==
  ASSUME IInv, NEW p \in Process, NEW most, NEW setting, Owns(p), Becomes(p, Here(p), {}, most,
           setting),
         UNCHANGED <<sessions, runs, before, result, outside, failures>>, limit' \in Limits,
           policy' \in Policies
  PROVE  IInv' /\ Shared(setting) /\ LocksStay /\ Reported /\ Final
<1> DEFINE a == Mid(memory[p], pending, worker, timers, locks)
<1>1. a = Here(p)
  BY HereIs
<1>2. /\ a \in State
      /\ a.known = memory[p] /\ a.pending = pending /\ a.worker = worker /\ a.timers = timers /\
           a.locks = locks
  <2>1. TypeOK
    BY DEF IInv
  <2> QED BY <2>1, KnownTypes, MidIs
<1> HIDE DEF a
<1>3. Free(a)
  BY <1>2, FreeHere DEF Free
<1>4. /\ Typed
      /\ \A q \in Process \ {p} : memory'[q] = memory[q]
      /\ \A r \in Run : Effect(p, a, {}, r)
      /\ setting = "serialize" => Serialized(a, After(p))
  BY <1>1, <1>2, <1>3, BecomesIs DEF IInv
<1>5. TypeOK'
  BY <1>4, TypedBecomes DEF IInv, TypeOK, sessions, runs
<1>6. Present'
  BY DEF IInv, Present, sessions
<1>7. ASSUME NEW r \in Run PROVE Fact(r)' /\ \A q \in Process : Remembered(q, r)'
  <2>1. CASE worker'[r] = a.worker[r]
    <3>1. /\ memory'[p][r] = memory[p][r] /\ (r \in pending' <=> r \in pending)
          /\ (r \in locks' <=> r \in locks) /\ disk'[r] = disk[r] /\ worker'[r] = worker[r]
      BY <1>2, <1>4, <2>1 DEF Effect
    <3>2. owner = p /\ owner' = p /\ phase' = phase /\ by' = by /\ before' = before
      BY DEF Owns, sessions, runs
    <3>3. Fact(r)'
      BY <3>1, <3>2 DEF IInv, Fact, Working, Saved
    <3>4. ASSUME NEW q \in Process PROVE Remembered(q, r)'
      <4>1. q # p => memory'[q][r] = memory[q][r]
        BY <1>4
      <4> QED BY <3>1, <3>2, <4>1 DEF IInv, Remembered, Saved
    <3> QED BY <3>3, <3>4
  <2>2. CASE worker'[r] # a.worker[r]
    <3>1. owner' = p /\ phase' = phase /\ by'[r] = by[r]
      BY DEF Owns, sessions, runs
    <3>2. r \in pending
      BY <1>2, <1>4, <2>2 DEF Effect
    <3>3. by[r] = p
      BY <3>2 DEF IInv, Fact, Owns
    <3> QED BY <1>2, <1>4, <2>2, <3>1, <3>3, StartedFact
  <2> QED BY <2>1, <2>2
<1>8. Shared(setting) /\ LocksStay /\ Reported /\ Final
  <2>1. \A r \in pending : worker[r] = "none" /\ disk[r].status \notin Terminal
    BY DEF IInv, TypeOK, Fact, Saved, Active, Terminal
  <2>2. \A r \in Run : Works(a, r) <=> Working(r)
    BY <1>2 DEF Works, Working
  <2> QED BY <1>2, <1>4, <2>1, <2>2, PumpLawful DEF runs, outside
<1> QED BY <1>5, <1>6, <1>7, <1>8 DEF IInv

\* Taking the session over.  Records known as unfinished become interrupted, final
\* ones among them if they are known as they were.
LEMMA AcquireStep ==
  ASSUME IInv, NEW p \in Process, AcquireOwner(p)
  PROVE  IInv' /\ Lawful /\ (memory[p] = disk => Final)
<1> DEFINE k == Interrupted(memory[p])
           a == Mid(k, pending, worker, timers, locks)
<1>0. TypeOK /\ p # None /\ Unfinished(p) \in SUBSET Run
  BY SubagentsAssumption DEF IInv, Unfinished
<1>1. a = [Here(p) EXCEPT !.known = Interrupted(@)]
  BY DEF Here, Mid
<1>2. \A r \in Run : k[r] = IF memory[p][r].status \in Active
                            THEN [status |-> "interrupted", session |-> memory[p][r].session]
                            ELSE memory[p][r]
  <2>1. memory[p] \in [Run -> Record]
    BY <1>0, KnownTypes
  <2> QED BY <2>1 DEF Interrupted, Record
<1>3. k \in [Run -> Record]
  <2>1. memory[p] \in [Run -> Record] /\ k = [r \in Run |-> k[r]]
    BY <1>0, KnownTypes DEF Interrupted
  <2> HIDE DEF k
  <2>2. \A r \in Run : k[r] \in Record
    BY <1>2, <2>1 DEF Record, Terminal
  <2> QED BY <2>1, <2>2
<1> HIDE DEF k
<1>4. /\ a \in State
      /\ a.known = k /\ a.pending = pending /\ a.worker = worker /\ a.timers = timers /\ a.locks = locks
  BY <1>0, <1>3, KnownTypes, MidIs
<1> HIDE DEF a
<1>5. Free(a)
  BY <1>4, FreeHere DEF Free
<1>6. owner = None /\ phase[p] = "open" /\ owner' = p /\ phase' = phase /\ by' = by /\ before' = before
  BY DEF AcquireOwner, runs
<1>7. /\ Typed
      /\ \A q \in Process \ {p} : memory'[q] = memory[q]
      /\ \A r \in Run : Effect(p, a, Unfinished(p), r)
      /\ policy = "serialize" => Serialized(a, After(p))
  <2>1. Becomes(p, a, Unfinished(p), limit, policy)
    BY <1>1 DEF AcquireOwner
  <2> QED BY <1>0, <1>4, <1>5, <2>1, BecomesIs
<1>8. TypeOK'
  BY <1>0, <1>7, TypedBecomes DEF AcquireOwner, TypeOK, runs, settings
<1>9. Present'
  BY <1>6 DEF Present
<1>10. ASSUME NEW r \in Run PROVE Fact(r)' /\ \A q \in Process : Remembered(q, r)'
  <2>0. r \notin pending /\ ~Working(r) /\ r \notin locks
    BY <1>6 DEF IInv, Fact
  <2>1. worker'[r] = a.worker[r]
    BY <1>4, <1>7, <2>0 DEF Effect
  <2>2. /\ memory'[p][r] = k[r] /\ r \notin pending' /\ r \notin locks'
        /\ disk'[r] = (IF r \in Unfinished(p) THEN k[r] ELSE disk[r]) /\ worker'[r] = worker[r]
    BY <1>4, <1>7, <2>0, <2>1 DEF Effect
  <2>3. memory'[p][r].status \notin Active /\ (r \in Unfinished(p) => disk'[r].status = "interrupted")
    <3>1. CASE memory[p][r].status \in Active
      <4>1. k[r].status = "interrupted"
        <5>1. k[r] = [status |-> "interrupted", session |-> memory[p][r].session]
          BY <1>2, <3>1
        <5> QED BY <5>1
      <4>2. r \in Unfinished(p)
        BY <3>1 DEF Unfinished
      <4> QED BY <2>2, <4>1, <4>2 DEF Active
    <3>2. CASE memory[p][r].status \notin Active
      BY <1>2, <2>2, <3>2 DEF Unfinished
    <3> QED BY <3>1, <3>2
  <2>4. by[r] = p /\ Saved(r) => r \in Unfinished(p)
    BY <1>0, <1>6 DEF IInv, Remembered, Unfinished
  <2>5. Saved(r)' => Saved(r) /\ r \notin Unfinished(p)
    BY <2>2, <2>3 DEF Saved, Active
  <2>8. by[r] = None => r \notin Unfinished(p)
    BY DEF IInv, Remembered, Unfinished, Active
  <2>9. by'[r] = None <=> disk'[r].status = "none"
    BY <1>6, <2>2, <2>3, <2>8 DEF IInv, Fact
  <2>6. Fact(r)'
    BY <1>6, <2>0, <2>2, <2>3, <2>4, <2>5, <2>9, Zenon DEF IInv, Fact, Working
  <2>7. ASSUME NEW q \in Process PROVE Remembered(q, r)'
    <3>1. q # p => memory'[q][r] = memory[q][r]
      BY <1>7
    <3>2. q # None
      BY SubagentsAssumption
    <3>3. by[r] = None => memory'[p][r] = memory[p][r]
      BY <1>2, <2>2, <2>8 DEF Unfinished
    <3> QED BY <1>0, <1>6, <2>5, <3>1, <3>2, <3>3 DEF IInv, Remembered
  <2> QED BY <2>6, <2>7
<1>11. Lawful /\ (memory[p] = disk => Final)
  <2>1. pending = {}
    BY <1>0, <1>6 DEF IInv, Fact, TypeOK
  <2>2. \A r \in Unfinished(p) : r \in Run /\ k[r].status = "interrupted"
    <3> SUFFICES ASSUME NEW r \in Unfinished(p) PROVE r \in Run /\ k[r].status = "interrupted"
      OBVIOUS
    <3>1. k[r] = [status |-> "interrupted", session |-> memory[p][r].session] /\ r \in Run
      BY <1>2 DEF Unfinished
    <3> QED BY <3>1
  <2>3. UNCHANGED <<job, foreign>>
    BY DEF AcquireOwner, runs, outside
  <2>4. \A r \in Run : Works(a, r) <=> Working(r)
    BY <1>4 DEF Works, Working
  <2>5. memory[p] = disk => \A r \in Unfinished(p) : disk[r].status \notin Terminal
    BY DEF Unfinished, Active, Terminal
  <2> QED BY <1>0, <1>4, <1>7, <2>1, <2>2, <2>3, <2>4, <2>5, PumpLawful DEF Lawful
<1> QED BY <1>8, <1>9, <1>10, <1>11 DEF IInv

\* A record and the queue are replaced.
LEMMA HerePut ==
  ASSUME NEW p, NEW k, NEW q
  PROVE  [Here(p) EXCEPT !.known = k, !.pending = q] = Mid(k, q, worker, timers, locks)
<1>1. Here(p) = [known |-> memory[p], pending |-> pending, worker |-> worker, timers |-> timers,
        locks |-> locks]
  BY DEF Here
<1> DEFINE m == memory[p]
<1> HIDE DEF m
<1> DEFINE x == [known |-> m, pending |-> pending, worker |-> worker, timers |-> timers, locks |->
             locks]
           y == [known |-> k, pending |-> pending, worker |-> worker, timers |-> timers, locks |->
                  locks]
           z == [known |-> k, pending |-> q, worker |-> worker, timers |-> timers, locks |-> locks]
<1>2. [x EXCEPT !.known = k] = y
  OBVIOUS
<1>3. [y EXCEPT !.pending = q] = z
  OBVIOUS
<1>4. [x EXCEPT !.known = k, !.pending = q] = [[x EXCEPT !.known = k] EXCEPT !.pending = q]
  <2> HIDE DEF x
  <2> QED OBVIOUS
<1>5. [x EXCEPT !.known = k, !.pending = q] = z
  <2> HIDE DEF x, y, z
  <2> QED BY <1>2, <1>3, <1>4
<1> QED BY <1>1, <1>5 DEF Mid, m

\* A launch or a resume.
LEMMA QueueStep ==
  ASSUME IInv, NEW p \in Process, NEW new \in Run, NEW session \in Run \cup {None}, Owns(p),
           by[new] = None,
         Queue(p, new, session), UNCHANGED <<sessions, job, before, result, outside, failures,
           settings>>
  PROVE  IInv' /\ Lawful /\ Final
<1> DEFINE e == [status |-> "queued", session |-> session]
           k == [memory[p] EXCEPT ![new] = e]
           a == Mid(k, pending \cup {new}, worker, timers, locks)
<1>0. TypeOK /\ p # None
  BY SubagentsAssumption DEF IInv
<1>2. e \in Record /\ e.status = "queued"
  BY DEF Record, Active
<1> HIDE DEF e
<1>1. a = [Here(p) EXCEPT !.known[new] = e, !.pending = @ \cup {new}]
  <2> DEFINE h == Here(p)
  <2>1. /\ h.known = memory[p] /\ h.pending = pending
        /\ h = [known |-> memory[p], pending |-> pending, worker |-> worker, timers |-> timers,
             locks |-> locks]
    BY DEF Here
  <2> HIDE DEF h
  <2>2. [h EXCEPT !.known[new] = e, !.pending = @ \cup {new}] =
          [h EXCEPT !.known = [h.known EXCEPT ![new] = e], !.pending = h.pending \cup {new}]
    OBVIOUS
  <2>3. [h EXCEPT !.known = k, !.pending = pending \cup {new}] = a
    <3> DEFINE q == pending \cup {new}
    <3> HIDE DEF k, q
    <3>1. [Here(p) EXCEPT !.known = k, !.pending = q] = Mid(k, q, worker, timers, locks)
      BY HerePut
    <3> QED BY <3>1 DEF q, h
  <2>4. [h EXCEPT !.known[new] = e, !.pending = @ \cup {new}] = a
    BY <2>1, <2>2, <2>3
  <2> QED BY <2>4 DEF h
<1>3. k \in [Run -> Record] /\ k[new] = e /\ \A r \in Run \ {new} : k[r] = memory[p][r]
  <2>1. memory[p] \in [Run -> Record]
    BY <1>0, KnownTypes
  <2> QED BY <1>2, <2>1
<1> HIDE DEF k
<1>4. /\ a \in State
      /\ a.known = k /\ a.pending = pending \cup {new} /\ a.worker = worker /\ a.timers = timers
           /\ a.locks = locks
  <2>1. pending \cup {new} \in SUBSET Run
    BY <1>0, KnownTypes
  <2> QED BY <1>0, <1>3, <2>1, KnownTypes, MidIs
<1> HIDE DEF a
<1>5. worker[new] = "none"
  BY DEF IInv, Fact
<1>6. Free(a)
  BY <1>4, <1>5, FreeHere DEF Free
<1>7. /\ owner = p /\ phase[p] = "open" /\ owner' = p /\ phase' = phase /\ before' = before
      /\ by' = [by EXCEPT ![new] = p] /\ by'[new] = p /\ \A r \in Run \ {new} : by'[r] = by[r]
  BY <1>0 DEF Owns, sessions, Queue, TypeOK
<1>8. /\ Typed
      /\ \A q \in Process \ {p} : memory'[q] = memory[q]
      /\ \A r \in Run : Effect(p, a, {new}, r)
      /\ policy = "serialize" => Serialized(a, After(p))
  <2>1. Becomes(p, a, {new}, limit, policy)
    BY <1>1 DEF Queue, e
  <2> QED BY <1>0, <1>4, <1>6, <2>1, BecomesIs
<1>9. TypeOK'
  <2>1. by' \in [Run -> Process \cup {None}]
    BY <1>0, <1>7 DEF TypeOK
  <2> QED BY <1>0, <1>8, <2>1, TypedBecomes DEF TypeOK, sessions, settings
<1>10. Present'
  BY <1>7 DEF Present
<1>11. ASSUME NEW r \in Run PROVE Fact(r)' /\ \A q \in Process : Remembered(q, r)'
  <2>1. CASE worker'[r] = a.worker[r]
    <3>1. /\ memory'[p][r] = k[r] /\ (r \in pending' <=> r \in pending \cup {new})
          /\ (r \in locks' <=> r \in locks) /\ disk'[r] = (IF r = new THEN k[r] ELSE disk[r]) /\
               worker'[r] = worker[r]
      BY <1>4, <1>8, <2>1 DEF Effect
    <3>2. CASE r = new
      <4>1. worker'[r] = "none" /\ r \notin locks' /\ r \in pending' /\ memory'[p][r].status =
              "queued" /\ disk'[r].status = "queued"
        BY <1>2, <1>3, <1>5, <3>1, <3>2 DEF IInv, Fact, Working
      <4> QED BY <1>0, <1>7, <3>2, <4>1 DEF Fact, Remembered, Working, Saved, Active
    <3>3. CASE r # new
      <4>1. /\ memory'[p][r] = memory[p][r] /\ (r \in pending' <=> r \in pending) /\ disk'[r] =
                 disk[r] /\ by'[r] = by[r]
        BY <1>3, <1>7, <3>1, <3>3
      <4>2. Fact(r)'
        BY <1>7, <3>1, <4>1 DEF IInv, Fact, Working, Saved
      <4>3. ASSUME NEW q \in Process PROVE Remembered(q, r)'
        <5>1. q # p => memory'[q][r] = memory[q][r]
          BY <1>8
        <5> QED BY <1>7, <4>1, <5>1 DEF IInv, Remembered, Saved
      <4> QED BY <4>2, <4>3
    <3> QED BY <3>2, <3>3
  <2>2. CASE worker'[r] # a.worker[r]
    <3>1. r \in pending \cup {new}
      BY <1>4, <1>8, <2>2 DEF Effect
    <3>2. by'[r] = p
      BY <1>7, <3>1 DEF IInv, Fact
    <3> QED BY <1>4, <1>7, <1>8, <2>2, <3>2, StartedFact
  <2> QED BY <2>1, <2>2
<1>12. Lawful /\ Final
  <2>1. \A r \in pending : worker[r] = "none" /\ disk[r].status \notin Terminal
    BY <1>0 DEF IInv, TypeOK, Fact, Saved, Active, Terminal
  <2>2. disk[new].status \notin Terminal
    BY DEF IInv, Fact, Terminal
  <2>3. \A r \in Run : Works(a, r) <=> Working(r)
    BY <1>4 DEF Works, Working
  <2>4. a.known[new].status # "completed"
    BY <1>2, <1>3, <1>4
  <2>5. UNCHANGED <<job, foreign>>
    BY DEF outside
  <2> QED BY <1>4, <1>5, <1>8, <2>1, <2>2, <2>3, <2>4, <2>5, PumpLawful DEF Lawful
<1> QED BY <1>9, <1>10, <1>11, <1>12 DEF IInv

\* The changes of an exit,
LEMMA ExitedMid ==
  ASSUME NEW p \in Process, NEW r, NEW status
  PROVE  [Here(p) EXCEPT !.known[r].status = status, !.worker[r] = "none", !.timers = @ \ {r},
           !.locks = @ \ {r}]
         = Mid([memory[p] EXCEPT ![r] = [memory[p][r] EXCEPT !.status = status]], pending,
               [worker EXCEPT ![r] = "none"], timers \ {r}, locks \ {r})
<1> DEFINE k == [memory[p] EXCEPT ![r] = [memory[p][r] EXCEPT !.status = status]]
           w == [worker EXCEPT ![r] = "none"]
           t == timers \ {r}
           l == locks \ {r}
           h == Here(p)
           h1 == [h EXCEPT !.known = k]
           h2 == [h1 EXCEPT !.worker = w]
           h3 == [h2 EXCEPT !.timers = t]
           h4 == [h3 EXCEPT !.locks = l]
<1>1. /\ h.known = memory[p] /\ h.worker = worker /\ h.timers = timers /\ h.locks = locks
      /\ h = Mid(memory[p], pending, worker, timers, locks)
  BY DEF Here, Mid
<1>2. [h EXCEPT !.known[r].status = status, !.worker[r] = "none", !.timers = @ \ {r}, !.locks = @ \ {r}]
      = [h EXCEPT !.known = [h.known EXCEPT ![r] = [h.known[r] EXCEPT !.status = status]],
                  !.worker = [h.worker EXCEPT ![r] = "none"],
                  !.timers = h.timers \ {r}, !.locks = h.locks \ {r}]
  <2> HIDE DEF h
  <2> QED OBVIOUS
<1>3. h4 = Mid(k, pending, w, t, l)
  <2> HIDE DEF h, k, w, t, l
  <2>1. h1 = Mid(k, pending, worker, timers, locks)
    BY <1>1 DEF Mid
  <2> HIDE DEF h1
  <2>2. h2 = Mid(k, pending, w, timers, locks)
    BY <2>1 DEF Mid
  <2> HIDE DEF h2
  <2>3. h3 = Mid(k, pending, w, t, locks)
    BY <2>2 DEF Mid
  <2> HIDE DEF h3
  <2> QED BY <2>3 DEF Mid
<1>4. [h EXCEPT !.known = k, !.worker = w, !.timers = t, !.locks = l] = h4
  <2> HIDE DEF h, k, w, t, l
  <2> QED OBVIOUS
<1>5. [h EXCEPT !.known = [h.known EXCEPT ![r] = [h.known[r] EXCEPT !.status = status]],
                !.worker = [h.worker EXCEPT ![r] = "none"],
                !.timers = h.timers \ {r}, !.locks = h.locks \ {r}]
      = [h EXCEPT !.known = k, !.worker = w, !.timers = t, !.locks = l]
  <2> HIDE DEF h
  <2> QED BY <1>1
<1> HIDE DEF h4
<1> QED BY <1>2, <1>3, <1>4, <1>5

\* and the exit, with the pump it ends with.
LEMMA ExitedStep ==
  ASSUME IInv, NEW p \in Process, NEW gone \in Run, NEW clean \in BOOLEAN, Exited(p, gone, clean)
  PROVE  IInv' /\ Lawful /\ Final
<1> DEFINE status == Outcome(p, gone, clean)
           e == [memory[p][gone] EXCEPT !.status = status]
           k == [memory[p] EXCEPT ![gone] = e]
           ws == [worker EXCEPT ![gone] = "none"]
           ts == timers \ {gone}
           ls == locks \ {gone}
           a == Mid(k, pending, ws, ts, ls)
<1>0. TypeOK /\ p # None
  BY SubagentsAssumption DEF IInv
<1>20. memory[p] \in [Run -> Record] /\ memory[p][gone] \in Record
  BY <1>0, KnownTypes
<1>1. Becomes(p, a, {gone}, limit, policy)
  BY ExitedMid DEF Exited
<1>2. status \in Terminal
  BY <1>0 DEF Outcome, TypeOK, Terminal
<1>22. status = "completed" => worker[gone] = "live" /\ result[gone] = "completed"
  <2>1. Working(gone) /\ owner = p
    BY DEF Exited, Mapped, IInv, Fact, Working
  <2>2. worker[gone] = "live" => memory[p][gone].status \notin Terminal
    BY <1>0, <2>1 DEF IInv, Fact, Active, Terminal
  <2>3. worker[gone] = "stopping" => memory[p][gone].status \in Terminal \ {"completed"}
    BY <1>0, <2>1 DEF IInv, Fact
  <2> QED BY <2>1, <2>2, <2>3 DEF Outcome, Working
<1> HIDE DEF status
<1>3. e = [status |-> status, session |-> memory[p][gone].session] /\ e \in Record
  BY <1>2, <1>20, WithStatus
<1>4. e.status \in Terminal /\ e.status = status
  BY <1>2, <1>3
<1> HIDE DEF e
<1>5. k \in [Run -> Record] /\ k[gone] = e /\ \A r \in Run \ {gone} : k[r] = memory[p][r]
  BY <1>20, <1>3
<1> HIDE DEF k
<1>6. ws \in [Run -> WorkerState] /\ ws[gone] = "none" /\ \A r \in Run \ {gone} : ws[r] = worker[r]
  BY <1>0, KnownTypes DEF WorkerState
<1> HIDE DEF ws
<1>7. /\ a \in State
      /\ a.known = k /\ a.pending = pending /\ a.worker = ws /\ a.timers = ts /\ a.locks = ls
  <2>1. ts \in SUBSET Run /\ ls \in SUBSET Run /\ pending \in SUBSET Run
    BY <1>0, KnownTypes
  <2> HIDE DEF ts, ls
  <2> QED BY <1>5, <1>6, <2>1, MidIs
<1>21. gone \notin ls /\ \A r \in Run \ {gone} : r \in ls <=> r \in locks
  OBVIOUS
<1> HIDE DEF a, ts, ls
<1>8. Free(a)
  <2>1. \A r \in pending : r \in Run /\ worker[r] = "none"
    BY <1>0, FreeHere, KnownTypes
  <2> QED BY <1>6, <1>7, <2>1 DEF Free
<1>9. /\ by[gone] = p /\ Working(gone) /\ owner = p /\ owner' = p /\ phase' = phase /\ by' = by
      /\ gone \notin pending
      /\ \A r \in Run \ {gone} : before'[r] = before[r]
  BY <1>0 DEF Exited, Mapped, sessions, runs, IInv, Fact, Working, TypeOK
<1>10. /\ Typed
       /\ \A q \in Process \ {p} : memory'[q] = memory[q]
       /\ \A r \in Run : Effect(p, a, {gone}, r)
       /\ policy = "serialize" => Serialized(a, After(p))
  BY <1>0, <1>1, <1>7, <1>8, BecomesIs
<1>11. TypeOK'
  <2>1. before' \in [Run -> Active \cup {"none"}] /\ result' \in [Run -> {"none", "completed",
          "failed"}]
    BY <1>0 DEF Exited, TypeOK
  <2> QED BY <1>0, <1>10, <2>1, TypedBecomes DEF Exited, TypeOK, sessions, runs, settings
<1>12. Present'
  BY <1>9 DEF IInv, Present
<1>13. ASSUME NEW r \in Run PROVE Fact(r)' /\ \A q \in Process : Remembered(q, r)'
  <2>1. CASE r = gone
    <3>1. worker'[r] = a.worker[r]
      BY <1>7, <1>9, <1>10, <2>1 DEF Effect
    <3>2. /\ worker'[r] = "none" /\ r \notin pending' /\ r \notin locks'
          /\ memory'[p][r].status \in Terminal /\ disk'[r].status \in Terminal
      BY <1>4, <1>5, <1>6, <1>7, <1>9, <1>10, <1>21, <2>1, <3>1 DEF Effect
    <3>3. p # None /\ worker'[r] = "none" /\ by'[r] = p
      BY <1>0, <1>9, <2>1, <3>2
    <3>4. Fact(r)'
      BY <1>9, <3>2, <3>3 DEF Fact, Working, Saved, Active, Terminal
    <3>5. \A q \in Process : Remembered(q, r)'
      BY <1>9, <3>2, <3>3 DEF Remembered, Saved, Active, Terminal
    <3> QED BY <3>4, <3>5
  <2>2. CASE r # gone /\ worker'[r] = a.worker[r]
    <3>1. /\ memory'[p][r] = memory[p][r] /\ (r \in pending' <=> r \in pending)
          /\ (r \in locks' <=> r \in locks) /\ disk'[r] = disk[r] /\ worker'[r] = worker[r]
      BY <1>5, <1>6, <1>7, <1>10, <1>21, <2>2 DEF Effect
    <3>2. Fact(r)'
      BY <1>9, <2>2, <3>1 DEF IInv, Fact, Working, Saved
    <3>3. ASSUME NEW q \in Process PROVE Remembered(q, r)'
      <4>1. q # p => memory'[q][r] = memory[q][r]
        BY <1>10
      <4> QED BY <1>9, <3>1, <4>1 DEF IInv, Remembered, Saved
    <3> QED BY <3>2, <3>3
  <2>3. CASE r # gone /\ worker'[r] # a.worker[r]
    <3>1. r \in pending
      BY <1>7, <1>10, <2>3 DEF Effect
    <3>2. by'[r] = p
      BY <1>9, <3>1 DEF IInv, Fact
    <3> QED BY <1>7, <1>9, <1>10, <2>3, <3>2, StartedFact
  <2> QED BY <2>1, <2>2, <2>3
<1>14. Lawful /\ Final
  <2>1. \A r \in pending : worker[r] = "none" /\ disk[r].status \notin Terminal
    BY <1>0 DEF IInv, TypeOK, Fact, Saved, Active, Terminal
  <2>2. disk[gone].status \notin Terminal
    BY <1>9 DEF IInv, Fact, Saved, Active, Terminal
  <2>3. \A r \in Run : Works(a, r) => r # gone /\ Working(r)
    BY <1>6, <1>7 DEF Works, Working
  <2>4. \A r \in locks : Works(a, r) => r \in a.locks
    BY <1>0, <1>7, <1>21, <2>3 DEF TypeOK
  <2>5. a.known[gone].status = "completed" => worker[gone] = "live" /\ result[gone] = "completed"
    BY <1>4, <1>5, <1>7, <1>22
  <2>6. UNCHANGED <<job, foreign>>
    BY DEF Exited, runs, outside
  <2>7. {gone} \in SUBSET Run /\ \A r \in {gone} \cup pending : disk[r].status \notin Terminal
    BY <2>1, <2>2
  <2>8. \A r \in {gone} : a.known[r].status = "completed" => result[r] = "completed" /\ worker[r]
          = "live"
    BY <2>5
  <2>9. \A r \in a.pending : worker[r] = "none"
    BY <1>7, <2>1
  <2>10. Shared(policy) /\ LocksStay /\ Reported /\ Final
    BY <1>7, <1>10, <2>3, <2>4, <2>6, <2>7, <2>8, <2>9, PumpLawful
  <2> QED BY <2>10 DEF Lawful
<1> QED BY <1>11, <1>12, <1>13, <1>14 DEF IInv

\* The records and the workers after a stop.
Stopped(p, ids, status) ==
    [r \in Run |-> IF r \in ids THEN [memory[p][r] EXCEPT !.status = status] ELSE memory[p][r]]

Stopping(p, ids) == [r \in Run |-> IF r \in {o \in ids : Mapped(p, o)} THEN "stopping" ELSE worker[r]]

\* The changes of a stop,
LEMMA StopsMid ==
  ASSUME NEW p \in Process, NEW ids, NEW status, NEW armed
  PROVE  [Here(p) EXCEPT
             !.known = [r \in Run |-> IF r \in ids THEN [@[r] EXCEPT !.status = status] ELSE @[r]],
             !.worker = [r \in Run |-> IF r \in {o \in ids : Mapped(p, o)} THEN "stopping" ELSE @[r]],
             !.timers = armed,
             !.pending = @ \ ids]
         = Mid(Stopped(p, ids, status), pending \ ids, Stopping(p, ids), armed, locks)
<1> DEFINE q == pending \ ids
           h == Here(p)
           k(x) == [r \in Run |-> IF r \in ids THEN [x[r] EXCEPT !.status = status] ELSE x[r]]
           w(x) == [r \in Run |-> IF r \in {o \in ids : Mapped(p, o)} THEN "stopping" ELSE x[r]]
           k1 == Stopped(p, ids, status)
           w1 == Stopping(p, ids)
           h1 == [h EXCEPT !.known = k1]
           h2 == [h1 EXCEPT !.worker = w1]
           h3 == [h2 EXCEPT !.timers = armed]
           h4 == [h3 EXCEPT !.pending = q]
<1>1. /\ h.known = memory[p] /\ h.worker = worker /\ h.pending = pending
      /\ h = Mid(memory[p], pending, worker, timers, locks)
  BY DEF Here, Mid
<1>2. k(memory[p]) = k1 /\ w(worker) = w1
  BY DEF Stopped, Stopping
<1>3. [h EXCEPT !.known = k(@), !.worker = w(@), !.timers = armed, !.pending = @ \ ids]
      = [h EXCEPT !.known = k(h.known), !.worker = w(h.worker), !.timers = armed, !.pending =
        h.pending \ ids]
  <2> HIDE DEF h, k, w
  <2> QED OBVIOUS
<1>4. h4 = Mid(k1, q, w1, armed, locks)
  <2> HIDE DEF h, k1, w1, q
  <2>1. h1 = Mid(k1, pending, worker, timers, locks)
    BY <1>1 DEF Mid
  <2> HIDE DEF h1
  <2>2. h2 = Mid(k1, pending, w1, timers, locks)
    BY <2>1 DEF Mid
  <2> HIDE DEF h2
  <2>3. h3 = Mid(k1, pending, w1, armed, locks)
    BY <2>2 DEF Mid
  <2> HIDE DEF h3
  <2> QED BY <2>3 DEF Mid
<1>5. [h EXCEPT !.known = k1, !.worker = w1, !.timers = armed, !.pending = q] = h4
  <2> HIDE DEF h, k1, w1, q
  <2> QED OBVIOUS
<1>6. [h EXCEPT !.known = k(h.known), !.worker = w(h.worker), !.timers = armed, !.pending =
        h.pending \ ids]
      = [h EXCEPT !.known = k1, !.worker = w1, !.timers = armed, !.pending = q]
  <2> HIDE DEF h, k, w, k1, w1
  <2> QED BY <1>1, <1>2
<1>7. [h EXCEPT !.known = k(@), !.worker = w(@), !.timers = armed, !.pending = @ \ ids]
      = Mid(k1, q, w1, armed, locks)
  <2> HIDE DEF h4, h, k, w, k1, w1, q
  <2> QED BY <1>3, <1>4, <1>5, <1>6
<1> QED BY <1>7

\* and the stop of any of the unfinished runs, whoever asks for it.
LEMMA StopsStep ==
  ASSUME IInv, NEW p \in Process, owner = p, NEW ids \in SUBSET Unfinished(p),
         NEW status \in {"cancelled", "failed"}, NEW armed \in SUBSET Run, Stops(p, ids, status, armed),
         UNCHANGED <<sessions, runs, result, outside, failures, settings>>
  PROVE  IInv' /\ Lawful /\ Final
<1> DEFINE working == {o \in ids : Mapped(p, o)}
           k == Stopped(p, ids, status)
           w == Stopping(p, ids)
           q == pending \ ids
           a == Mid(k, q, w, armed, locks)
           saved == ids \ working
           most == IF ids \subseteq working THEN 0 ELSE limit
<1>0. TypeOK /\ p # None /\ ids \in SUBSET Run /\ saved \in SUBSET Run
  BY SubagentsAssumption DEF IInv, Unfinished
<1>1. Becomes(p, a, saved, most, policy)
  BY StopsMid DEF Stops
<1>2. /\ \A r \in working : before'[r] = memory[p][r].status
      /\ \A r \in Run \ working : before'[r] = before[r]
      /\ before' \in [Run -> Active \cup {"none"}]
  <2>1. before' = [r \in Run |-> IF r \in working THEN memory[p][r].status ELSE before[r]]
    BY DEF Stops
  <2>2. \A r \in working : memory[p][r].status \in Active
    BY DEF Unfinished
  <2> QED BY <1>0, <2>1, <2>2 DEF TypeOK
<1>3. \A r \in Run : k[r] = IF r \in ids THEN [status |-> status, session |-> memory[p][r].session]
                            ELSE memory[p][r]
  <2>1. memory[p] \in [Run -> Record] /\ status \in Active \cup Terminal
    BY <1>0, KnownTypes DEF Terminal
  <2> QED BY <2>1, WithStatus DEF Stopped
<1>4. k \in [Run -> Record]
  <2>1. memory[p] \in [Run -> Record] /\ k = [r \in Run |-> k[r]] /\ status \in Terminal
    BY <1>0, KnownTypes DEF Stopped, Terminal
  <2> HIDE DEF k
  <2>2. \A r \in Run : k[r] \in Record
    BY <1>3, <2>1 DEF Record
  <2> QED BY <2>1, <2>2
<1>5. \A r \in ids : k[r].status = status
  <2> SUFFICES ASSUME NEW r \in ids PROVE k[r].status = status
    OBVIOUS
  <2> HIDE DEF k
  <2>1. k[r] = [status |-> status, session |-> memory[p][r].session]
    BY <1>0, <1>3
  <2> QED BY <2>1
<1>6. /\ w \in [Run -> WorkerState]
      /\ \A r \in Run : w[r] = IF r \in working THEN "stopping" ELSE worker[r]
  BY <1>0, KnownTypes DEF Stopping, WorkerState
<1>7. /\ a \in State
      /\ a.known = k /\ a.pending = q /\ a.worker = w /\ a.timers = armed /\ a.locks = locks
  <2>1. q \in SUBSET Run /\ locks \in SUBSET Run
    BY <1>0, KnownTypes
  <2> HIDE DEF k, w, q
  <2> QED BY <1>4, <1>6, <2>1, MidIs
<1>8. \A r \in ids : \/ r \in working /\ worker[r] = "live" /\ r \notin pending
                     \/ r \in saved /\ r \in pending /\ worker[r] = "none"
  <2> SUFFICES ASSUME NEW r \in ids
               PROVE  \/ Mapped(p, r) /\ worker[r] = "live" /\ r \notin pending
                      \/ ~Mapped(p, r) /\ r \in pending /\ worker[r] = "none"
    OBVIOUS
  <2>1. memory[p][r].status \in Active /\ r \in Run
    BY DEF Unfinished
  <2>2. r \in pending \/ worker[r] = "live"
    BY <1>0, <2>1 DEF IInv, Fact
  <2> QED BY <2>1, <2>2 DEF IInv, Fact, Mapped, Working
<1>9. \A r \in Run : r \in q <=> r \in pending /\ r \notin ids
  OBVIOUS
<1>10. \A r \in working : r \in ids
  OBVIOUS
<1>11. \A r \in saved : r \in ids /\ r \notin working
  OBVIOUS
<1> HIDE DEF a, k, w, q, working, saved, most
<1>12. Free(a)
  <2>1. \A r \in q : r \in Run /\ r \in pending /\ r \notin ids
    BY <1>0, <1>7, <1>9, KnownTypes DEF State
  <2> QED BY <1>6, <1>7, <1>10, <2>1, FreeHere DEF Free
<1>13. /\ Typed
       /\ \A x \in Process \ {p} : memory'[x] = memory[x]
       /\ \A r \in Run : Effect(p, a, saved, r)
       /\ policy = "serialize" => Serialized(a, After(p))
  BY <1>0, <1>1, <1>7, <1>12, BecomesIs
<1>14. owner' = p /\ phase' = phase /\ by' = by
  BY DEF sessions, runs
<1>15. TypeOK'
  BY <1>0, <1>2, <1>13, TypedBecomes DEF TypeOK, sessions, runs, settings
<1>16. Present'
  BY <1>14 DEF IInv, Present
<1>17. ASSUME NEW r \in Run PROVE Fact(r)' /\ \A x \in Process : Remembered(x, r)'
  <2>1. CASE worker'[r] # a.worker[r]
    <3>1. r \in pending
      BY <1>7, <1>9, <1>13, <2>1 DEF Effect
    <3>2. by'[r] = p
      BY <1>14, <3>1 DEF IInv, Fact
    <3> QED BY <1>7, <1>13, <1>14, <2>1, <3>2, StartedFact
  <2>2. CASE worker'[r] = a.worker[r]
    <3>1. /\ memory'[p][r] = k[r] /\ (r \in pending' <=> r \in q) /\ (r \in locks' <=> r \in locks)
          /\ disk'[r] = (IF r \in saved THEN k[r] ELSE disk[r]) /\ worker'[r] = w[r]
      BY <1>7, <1>13, <2>2 DEF Effect
    <3>2. CASE r \in working
      <4>1. /\ worker[r] = "live" /\ r \in ids /\ memory'[p][r].status = status /\ r \notin pending'
            /\ disk'[r] = disk[r] /\ worker'[r] = "stopping"
        BY <1>5, <1>6, <1>8, <1>9, <1>10, <1>11, <3>1, <3>2
      <4>2. before'[r] \in Active
        BY <1>2, <1>10, <3>2 DEF Unfinished
      <4>3. Fact(r)'
        BY <1>14, <3>1, <4>1, <4>2 DEF IInv, Fact, Working, Saved, Active, Terminal
      <4>4. by[r] = p
        BY <4>1 DEF IInv, Fact, Working
      <4>5. p # None /\ by'[r] = p
        BY <1>0, <1>14, <4>4
      <4> QED BY <1>14, <4>3, <4>5 DEF Remembered
    <3>3. CASE r \in saved
      <4>1. /\ worker'[r] = "none" /\ r \notin pending' /\ r \in pending
            /\ memory'[p][r].status = status /\ disk'[r].status = status
        BY <1>5, <1>6, <1>8, <1>9, <1>11, <3>1, <3>3
      <4>2. by[r] = p /\ r \notin locks
        BY <4>1 DEF IInv, Fact, Working
      <4>3. p # None /\ by'[r] = p /\ r \notin locks' /\ disk'[r].status \in Terminal
        BY <1>0, <1>14, <3>1, <4>1, <4>2 DEF Terminal
      <4>4. Fact(r)'
        BY <1>14, <4>1, <4>3 DEF Fact, Working, Saved, Active, Terminal
      <4>5. \A x \in Process : Remembered(x, r)'
        BY <1>14, <4>3 DEF Remembered, Saved, Active, Terminal
      <4> QED BY <4>4, <4>5
    <3>4. CASE r \notin working /\ r \notin saved
      <4>1. r \notin ids
        BY <1>8, <3>4
      <4>2. /\ memory'[p][r] = memory[p][r] /\ (r \in pending' <=> r \in pending)
            /\ disk'[r] = disk[r] /\ worker'[r] = worker[r] /\ before'[r] = before[r]
        BY <1>2, <1>3, <1>6, <1>9, <3>1, <3>4, <4>1
      <4>3. Fact(r)'
        BY <1>14, <3>1, <4>2 DEF IInv, Fact, Working, Saved
      <4>4. ASSUME NEW x \in Process PROVE Remembered(x, r)'
        <5>1. x # p => memory'[x][r] = memory[x][r]
          BY <1>13
        <5> QED BY <1>14, <4>2, <5>1 DEF IInv, Remembered, Saved
      <4> QED BY <4>3, <4>4
    <3> QED BY <3>2, <3>3, <3>4
  <2> QED BY <2>1, <2>2
<1>18. Lawful /\ Final
  <2>1. \A r \in pending : r \in Run /\ worker[r] = "none" /\ disk[r].status \notin Terminal
    BY <1>0 DEF IInv, TypeOK, Fact, Saved, Active, Terminal
  <2>2. \A r \in saved : r \in pending /\ a.known[r].status # "completed"
    BY <1>5, <1>7, <1>8, <1>11
  <2>3. \A r \in Run : Works(a, r) => Working(r)
    BY <1>6, <1>7, <1>8, <1>10, <1>11 DEF Works, Working
  <2>4. \A r \in a.pending : r \in pending
    BY <1>0, <1>7, <1>9 DEF State
  <2>5. UNCHANGED <<job, foreign>>
    BY DEF runs, outside
  <2> QED BY <1>0, <1>7, <1>13, <2>1, <2>2, <2>3, <2>4, <2>5, PumpLawful DEF Lawful, settings
<1> QED BY <1>15, <1>16, <1>17, <1>18 DEF IInv

\* A run of which nothing changes.
LEMMA SameFact ==
  ASSUME IInv, NEW r \in Run,
         owner' = owner, phase' = phase, by'[r] = by[r], before'[r] = before[r], worker'[r] = worker[r],
         disk'[r].status = disk[r].status, r \in pending' <=> r \in pending, r \in locks' <=> r
           \in locks,
         \A p \in Process : memory'[p][r].status = memory[p][r].status
  PROVE  Fact(r)' /\ \A p \in Process : Remembered(p, r)'
<1>1. owner # None => owner \in Process
  BY DEF IInv, TypeOK
<1>2. Fact(r)'
  BY <1>1 DEF IInv, Fact, Working, Saved
<1>3. ASSUME NEW p \in Process PROVE Remembered(p, r)'
  BY DEF IInv, Remembered, Saved
<1> QED BY <1>2, <1>3

\* The small steps: reading the saved records,
LEMMA OpenStep ==
  ASSUME IInv, NEW p \in Process, Open(p)
  PROVE  IInv' /\ Lawful /\ Final
<1>1. TypeOK'
  BY DEF Open, IInv, TypeOK, runs, queue, outside, settings
<1>2. /\ owner # p /\ owner' = owner /\ phase' = [phase EXCEPT ![p] = "open"] /\ memory' = [memory
           EXCEPT ![p] = disk]
      /\ UNCHANGED <<disk, by, before, worker, pending, locks>>
  BY SubagentsAssumption DEF Open, IInv, Present, runs, queue
<1>3. /\ \A q \in Process \ {p} : phase'[q] = phase[q] /\ memory'[q] = memory[q]
      /\ memory'[p] = disk
  BY <1>2 DEF IInv, TypeOK
<1>4. owner # None => owner \in Process
  BY DEF IInv, TypeOK
<1>5. Present'
  BY <1>2, <1>3, <1>4 DEF IInv, Present
<1>6. ASSUME NEW r \in Run PROVE Fact(r)'
  BY <1>2, <1>3, <1>4 DEF IInv, Fact, Working, Saved
<1>7. ASSUME NEW r \in Run, NEW q \in Process PROVE Remembered(q, r)'
  BY <1>2, <1>3 DEF IInv, Fact, Remembered, Saved
<1>8. Lawful /\ Final
  BY <1>2, SmallLawful DEF Open, runs, outside
<1> QED BY <1>1, <1>5, <1>6, <1>7, <1>8 DEF IInv

LEMMA RecordIs ==
  ASSUME NEW s \in Active \cup Terminal, NEW c \in Run \cup {None}
  PROVE  [status |-> s, session |-> c] \in Record
BY DEF Record

\* a worker that is ready,
LEMMA ReadyStep ==
  ASSUME IInv, NEW p \in Process, NEW ran \in Run, Ready(p, ran)
  PROVE  IInv' /\ Lawful /\ Final
<1>0. TypeOK
  BY DEF IInv
<1> DEFINE c == IF memory[p][ran].session = None THEN ran ELSE memory[p][ran].session
           e == [status |-> "running", session |-> c]
<1>1. e \in Record
  <2>1. memory[p] \in [Run -> Record]
    BY <1>0, KnownTypes
  <2>2. c \in Run \cup {None}
    BY <2>1 DEF Record
  <2> HIDE DEF c
  <2> QED BY <2>2, RecordIs DEF Active
<1>2. e.status = "running"
  OBVIOUS
<1>3. /\ memory' = [memory EXCEPT ![p][ran] = e] /\ disk' = [disk EXCEPT ![ran] = e]
      /\ memory[p][ran].status \in Active /\ by[ran] = p /\ Working(ran)
      /\ UNCHANGED <<phase, owner, job, by, pending, worker, timers, locks, before, result,
           foreign, writers, failures, limit, policy>>
  BY DEF Ready, Heard, Mapped, Working, sessions, runs, queue, outside, settings
<1> HIDE DEF e
<1>4. TypeOK'
  BY <1>0, <1>1, <1>3 DEF TypeOK
<1>5. Present'
  BY <1>3 DEF IInv, Present
<1>6. /\ memory'[p][ran] = e /\ disk'[ran] = e
      /\ \A r \in Run \ {ran} : disk'[r] = disk[r] /\ \A q \in Process : memory'[q][r] = memory[q][r]
      /\ \A q \in Process \ {p} : memory'[q] = memory[q]
  BY <1>0, <1>3 DEF TypeOK
<1>7. ASSUME NEW r \in Run PROVE Fact(r)' /\ \A q \in Process : Remembered(q, r)'
  <2>1. CASE r = ran
    <3>1. memory'[p][r].status = "running" /\ disk'[r].status = "running" /\ owner = p /\ r \notin
            pending
      BY <1>2, <1>3, <1>6, <2>1 DEF IInv, Fact, Working
    <3>2. worker[r] # "stopping"
      BY <1>3, <2>1, <3>1 DEF IInv, Fact, Active, Terminal
    <3>3. Fact(r)'
      BY <1>3, <2>1, <3>1, <3>2 DEF IInv, Fact, Working, Saved, Active
    <3>4. ASSUME NEW q \in Process PROVE Remembered(q, r)'
      BY <1>3, <2>1, <3>1, SubagentsAssumption DEF Remembered
    <3> QED BY <3>3, <3>4
  <2>2. CASE r # ran
    BY <1>3, <1>6, <2>2, SameFact
  <2> QED BY <2>1, <2>2
<1>8. Lawful /\ Final
  <2>1. disk[ran].status \in Active /\ disk'[ran].status = "running"
    BY <1>2, <1>3, <1>6 DEF IInv, Fact, Saved
  <2> QED BY <1>3, <1>6, <2>1, SmallLawful DEF Active, Terminal
<1> QED BY <1>4, <1>5, <1>7, <1>8 DEF IInv

\* one that reports its result,
LEMMA ResultStep ==
  ASSUME IInv, NEW p \in Process, NEW ran \in Run, Result(p, ran)
  PROVE  IInv' /\ Lawful /\ Final
<1>0. TypeOK
  BY DEF IInv
<1>1. /\ disk' = [disk EXCEPT ![ran] = memory[p][ran]]
      /\ memory[p][ran].status = "running" /\ by[ran] = p /\ Working(ran)
      /\ UNCHANGED <<memory, phase, owner, job, by, pending, worker, timers, locks, before,
           foreign, writers, failures, limit, policy>>
  BY DEF Result, Heard, Mapped, Working, sessions, runs, queue, outside, settings
<1>2. TypeOK'
  <2>1. result' \in [Run -> {"none", "completed", "failed"}]
    BY <1>0 DEF Result, TypeOK
  <2>2. disk' \in [Run -> Record]
    BY <1>0, <1>1 DEF TypeOK
  <2> QED BY <1>0, <1>1, <2>1, <2>2 DEF TypeOK
<1>3. Present'
  BY <1>1 DEF IInv, Present
<1>4. disk'[ran] = memory[p][ran] /\ \A r \in Run \ {ran} : disk'[r] = disk[r]
  BY <1>0, <1>1 DEF TypeOK
<1>5. ASSUME NEW r \in Run PROVE Fact(r)' /\ \A q \in Process : Remembered(q, r)'
  <2>1. CASE r = ran
    <3>1. disk'[r].status = "running" /\ owner = p
      BY <1>1, <1>4, <2>1 DEF IInv, Fact
    <3>2. Fact(r)'
      BY <1>1, <2>1, <3>1 DEF IInv, Fact, Working, Saved, Active
    <3>3. ASSUME NEW q \in Process PROVE Remembered(q, r)'
      BY <1>1, <2>1, <3>1, SubagentsAssumption DEF Remembered
    <3> QED BY <3>2, <3>3
  <2>2. CASE r # ran
    BY <1>1, <1>4, <2>2, SameFact
  <2> QED BY <2>1, <2>2
<1>6. Lawful /\ Final
  <2>1. disk[ran].status \in Active /\ disk'[ran].status = "running"
    BY <1>1, <1>4 DEF IInv, Fact, Saved
  <2> QED BY <1>1, <1>4, <2>1, SmallLawful DEF Active, Terminal
<1> QED BY <1>2, <1>3, <1>5, <1>6 DEF IInv

\* one that ends itself,
LEMMA OrphanStep ==
  ASSUME IInv, NEW ended \in Run, OrphanEnds(ended)
  PROVE  IInv' /\ Lawful /\ Final
<1>0. TypeOK
  BY DEF IInv
<1>1. /\ worker[ended] = "orphan" /\ worker' = [worker EXCEPT ![ended] = "none"]
      /\ UNCHANGED <<disk, memory, phase, owner, job, by, pending, timers, locks, before, result,
           foreign, writers, failures, limit, policy>>
  BY DEF OrphanEnds, records, sessions, runs, outside, settings
<1>2. TypeOK'
  BY <1>0, <1>1 DEF TypeOK
<1>3. Present'
  BY <1>1 DEF IInv, Present
<1>4. worker'[ended] = "none" /\ \A r \in Run \ {ended} : worker'[r] = worker[r]
  BY <1>0, <1>1 DEF TypeOK
<1>5. ASSUME NEW r \in Run PROVE Fact(r)' /\ \A q \in Process : Remembered(q, r)'
  <2>1. CASE r = ended
    <3>1. Fact(r)'
      BY <1>1, <1>4, <2>1 DEF IInv, Fact, Working, Saved
    <3>2. ASSUME NEW q \in Process PROVE Remembered(q, r)'
      BY <1>1 DEF IInv, Remembered, Saved
    <3> QED BY <3>1, <3>2
  <2>2. CASE r # ended
    BY <1>1, <1>4, <2>2, SameFact
  <2> QED BY <2>1, <2>2
<1>6. Lawful /\ Final
  BY <1>1, <1>4, SmallLawful
<1> QED BY <1>2, <1>3, <1>5, <1>6 DEF IInv

\* and a stop that is rejected: the run goes on under the status it had.
LEMMA StopFailsStep ==
  ASSUME IInv, NEW p \in Process, NEW ran \in Run, StopFails(p, ran)
  PROVE  IInv' /\ Lawful /\ Final
<1>0. TypeOK
  BY DEF IInv
<1> DEFINE e == [memory[p][ran] EXCEPT !.status = before[ran]]
<1>1. /\ owner = p /\ phase[p] = "open" /\ by[ran] = p /\ worker[ran] = "stopping"
      /\ worker' = [worker EXCEPT ![ran] = "live"] /\ failures < MaxStopFailures /\ failures' =
           failures + 1
      /\ memory' = [memory EXCEPT ![p][ran].status = before[ran]]
      /\ disk' = [disk EXCEPT ![ran] = memory'[p][ran]]
      /\ UNCHANGED <<phase, owner, job, by, pending, timers, locks, before, result, foreign,
           writers, limit, policy>>
  BY DEF StopFails, Owns, Mapped, sessions, runs, outside, settings
<1>2. before[ran] \in Active
  BY <1>1, SubagentsAssumption DEF IInv, Fact
<1>3. e = [status |-> before[ran], session |-> memory[p][ran].session] /\ e \in Record
  <2>1. memory[p][ran] \in Record
    BY <1>0, KnownTypes
  <2> QED BY <1>2, <2>1, WithStatus
<1>4. e.status \in Active
  BY <1>2, <1>3
<1>5. memory' = [memory EXCEPT ![p][ran] = e]
  BY <1>1
<1> HIDE DEF e
<1>6. /\ memory'[p][ran] = e /\ disk'[ran] = e
      /\ \A r \in Run \ {ran} : disk'[r] = disk[r] /\ \A q \in Process : memory'[q][r] = memory[q][r]
      /\ worker'[ran] = "live" /\ \A r \in Run \ {ran} : worker'[r] = worker[r]
  BY <1>0, <1>1, <1>5 DEF TypeOK
<1>7. TypeOK'
  <2>1. memory' \in [Process -> [Run -> Record]]
    BY <1>0, <1>3, <1>5 DEF TypeOK
  <2>2. disk' \in [Run -> Record]
    BY <1>0, <1>1, <1>3, <1>6 DEF TypeOK
  <2>3. failures' \in 0..MaxStopFailures
    BY <1>0, <1>1, SubagentsAssumption DEF TypeOK
  <2>4. worker' \in [Run -> {"none", "live", "stopping", "orphan"}]
    BY <1>0, <1>1 DEF TypeOK
  <2> QED BY <1>0, <1>1, <2>1, <2>2, <2>3, <2>4 DEF TypeOK
<1>8. Present'
  BY <1>1 DEF IInv, Present
<1>9. ASSUME NEW r \in Run PROVE Fact(r)' /\ \A q \in Process : Remembered(q, r)'
  <2>1. CASE r = ran
    <3>1. memory'[p][r].status \in Active /\ disk'[r].status \in Active /\ worker'[r] = "live" /\
            r \notin pending
      BY <1>1, <1>4, <1>6, <2>1 DEF IInv, Fact
    <3>2. Fact(r)'
      BY <1>1, <2>1, <3>1, SubagentsAssumption DEF Fact, Working, Saved, Active
    <3>3. ASSUME NEW q \in Process PROVE Remembered(q, r)'
      BY <1>1, <2>1, SubagentsAssumption DEF Remembered
    <3> QED BY <3>2, <3>3
  <2>2. CASE r # ran
    BY <1>1, <1>6, <2>2, SameFact
  <2> QED BY <2>1, <2>2
<1>10. Lawful /\ Final
  <2>1. disk[ran].status \in Active /\ disk'[ran].status \in Active
    BY <1>1, <1>4, <1>6 DEF IInv, Fact, Working, Saved
  <2> QED BY <1>1, <1>6, <2>1, SmallLawful DEF Active, Terminal
<1> QED BY <1>7, <1>8, <1>9, <1>10 DEF IInv

\* Closing begins.
LEMMA DisposeStep ==
  ASSUME IInv, NEW p \in Process, Dispose(p)
  PROVE  IInv' /\ Lawful /\ Final
<1>0. TypeOK /\ p # None
  BY SubagentsAssumption DEF IInv
<1>1. /\ phase' = [phase EXCEPT ![p] = "closing"]
      /\ UNCHANGED <<owner, job, by, timers, before, result, locks, foreign, writers, failures,
           limit, policy>>
  BY DEF Dispose, runs, outside, settings
<1>2. phase'[p] = "closing" /\ \A q \in Process \ {p} : phase'[q] = phase[q]
  BY <1>0, <1>1 DEF TypeOK
<1>3. phase' \in [Process -> {"out", "open", "closing"}]
  BY <1>0, <1>1 DEF TypeOK
<1>4. owner # None => owner \in Process
  BY <1>0 DEF TypeOK
<1>5. Present'
  BY <1>1, <1>2, <1>4 DEF IInv, Present
<1>6. CASE owner # p
  <2>1. UNCHANGED <<disk, memory, pending, worker>>
    BY <1>6 DEF Dispose, records
  <2>2. TypeOK'
    BY <1>0, <1>1, <1>3, <2>1 DEF TypeOK
  <2>3. ASSUME NEW r \in Run PROVE Fact(r)'
    BY <1>1, <1>2, <1>4, <1>6, <2>1 DEF IInv, Fact, Working, Saved
  <2>4. ASSUME NEW r \in Run, NEW q \in Process PROVE Remembered(q, r)'
    BY <1>1, <1>2, <2>1 DEF IInv, Remembered, Saved
  <2>5. Lawful /\ Final
    BY <1>1, <2>1, SmallLawful
  <2> QED BY <1>5, <2>2, <2>3, <2>4, <2>5 DEF IInv
<1>7. CASE owner = p
  <2> DEFINE Hit(r) == r \in pending \/ Mapped(p, r)
             k == [r \in Run |-> IF Hit(r) THEN [memory[p][r] EXCEPT !.status = "interrupted"]
                    ELSE memory[p][r]]
  <2>1. /\ memory' = [memory EXCEPT ![p] = k]
        /\ disk' = [r \in Run |-> IF r \in pending THEN memory'[p][r] ELSE disk[r]]
        /\ pending' = {}
        /\ worker' = [r \in Run |-> IF Mapped(p, r) THEN "stopping" ELSE worker[r]]
    BY <1>7 DEF Dispose
  <2>2. \A r \in Run : k[r] = IF Hit(r) THEN [status |-> "interrupted", session |->
          memory[p][r].session]
                              ELSE memory[p][r]
    <3>1. memory[p] \in [Run -> Record]
      BY <1>0, KnownTypes
    <3> QED BY <3>1, WithStatus DEF Terminal
  <2>3. k \in [Run -> Record]
    <3>1. memory[p] \in [Run -> Record] /\ k = [r \in Run |-> k[r]]
      BY <1>0, KnownTypes
    <3> HIDE DEF k
    <3>2. \A r \in Run : k[r] \in Record
      BY <2>2, <3>1 DEF Record, Terminal
    <3> QED BY <3>1, <3>2
  <2> HIDE DEF k
  <2>4. /\ memory'[p] = k /\ \A q \in Process \ {p} : memory'[q] = memory[q]
        /\ memory' \in [Process -> [Run -> Record]]
    BY <1>0, <2>1, <2>3 DEF TypeOK
  <2>5. TypeOK'
    <3>1. disk' \in [Run -> Record]
      BY <1>0, <2>1, <2>3, <2>4 DEF TypeOK
    <3>2. worker' \in [Run -> {"none", "live", "stopping", "orphan"}]
      BY <1>0, <2>1 DEF TypeOK
    <3>3. pending' \subseteq Run
      BY <2>1
    <3> QED BY <1>0, <1>1, <1>3, <2>4, <3>1, <3>2, <3>3 DEF TypeOK
  <2>6. ASSUME NEW r \in Run PROVE Fact(r)' /\ \A q \in Process : Remembered(q, r)'
    <3>1. /\ memory'[p][r] = k[r] /\ disk'[r] = (IF r \in pending THEN k[r] ELSE disk[r])
          /\ worker'[r] = (IF Mapped(p, r) THEN "stopping" ELSE worker[r]) /\ r \notin pending'
      BY <2>1, <2>4
    <3>2. Hit(r) => k[r].status = "interrupted"
      <4>1. Hit(r) => k[r] = [status |-> "interrupted", session |-> memory[p][r].session]
        BY <2>2
      <4> QED BY <4>1
    <3>3. by[r] = p \/ ~Hit(r)
      BY <1>7 DEF IInv, Fact, Mapped
    <3>4. CASE r \in pending
      <4>1. worker'[r] = "none" /\ memory'[p][r].status = "interrupted" /\ disk'[r].status =
              "interrupted" /\ r \notin locks
        BY <3>1, <3>2, <3>4 DEF IInv, Fact, Mapped, Working
      <4> QED BY <1>0, <1>1, <1>7, <3>1, <3>3, <3>4, <4>1 DEF Fact, Remembered, Working, Saved,
                 Active
    <3>5. CASE r \notin pending /\ Mapped(p, r)
      <4>1. worker'[r] = "stopping" /\ memory'[p][r].status = "interrupted" /\ disk'[r] = disk[r]
              /\ Saved(r)
        BY <3>1, <3>2, <3>5 DEF IInv, Fact, Mapped, Working
      <4>2. Fact(r)'
        BY <1>0, <1>1, <1>2, <1>7, <3>1, <3>5, <4>1 DEF IInv, Fact, Working, Saved, Active,
           Terminal, Mapped
      <4>3. \A q \in Process : Remembered(q, r)'
        BY <1>0, <1>1, <1>7, <3>5 DEF Remembered, Mapped
      <4> QED BY <4>2, <4>3
    <3>6. CASE ~Hit(r)
      <4>1. worker'[r] = worker[r] /\ memory'[p][r] = memory[p][r] /\ disk'[r] = disk[r] /\ ~Working(r)
        BY <1>7, <2>2, <3>1, <3>6 DEF IInv, Fact, Mapped, Working
      <4>2. Fact(r)'
        BY <1>0, <1>1, <1>7, <3>1, <3>6, <4>1 DEF IInv, Fact, Working, Saved
      <4>3. ASSUME NEW q \in Process PROVE Remembered(q, r)'
        BY <1>1, <1>2, <2>4, <4>1 DEF IInv, Remembered, Saved
      <4> QED BY <4>2, <4>3
    <3> QED BY <3>4, <3>5, <3>6
  <2>7. Lawful /\ Final
    <3>1. ASSUME NEW r \in pending PROVE disk[r].status \in Active /\ disk'[r].status = "interrupted"
      <4>1. r \in Run /\ Saved(r)
        BY <1>0, <3>1 DEF IInv, Fact, TypeOK
      <4>2. disk'[r] = [status |-> "interrupted", session |-> memory[p][r].session]
        BY <2>1, <2>2, <2>4, <4>1
      <4> QED BY <4>1, <4>2 DEF Saved
    <3>2. \A r \in Run \ pending : disk'[r] = disk[r]
      BY <2>1
    <3>3. \A r \in Run : worker'[r] \in {"live", "stopping"} => worker[r] \in {"live", "stopping"}
      BY <2>1 DEF Mapped
    <3> QED BY <1>1, <3>1, <3>2, <3>3, SmallLawful DEF Active, Terminal
  <2> QED BY <1>5, <2>5, <2>6, <2>7 DEF IInv
<1> QED BY <1>6, <1>7

\* A process that is gone leaves the runs of others alone.
LEMMA GoneFact ==
  ASSUME IInv, NEW p \in Process, phase' = [phase EXCEPT ![p] = "out"],
         owner' = IF owner = p THEN None ELSE owner,
         memory' = [memory EXCEPT ![p] = [r \in Run |-> NoRecord]], disk' = disk, by' = by,
         NEW r \in Run,
         owner = p => worker'[r] \notin {"live", "stopping"} /\ r \notin pending' /\ r \notin locks',
         owner # p => /\ worker'[r] = worker[r] /\ (r \in pending' <=> r \in pending)
                      /\ (r \in locks' <=> r \in locks) /\ (by[r] # p => before'[r] = before[r]),
         worker'[r] = "none" \/ worker[r] # "none"
  PROVE  Fact(r)' /\ \A q \in Process : Remembered(q, r)'
<1>0. p # None /\ (owner # None => owner \in Process)
  BY SubagentsAssumption DEF IInv, TypeOK
<1>1. phase'[p] = "out" /\ \A q \in Process \ {p} : phase'[q] = phase[q] /\ memory'[q] = memory[q]
  BY DEF IInv, TypeOK
<1>2. Fact(r)'
  <2>1. CASE owner = p
    BY <1>0, <2>1 DEF IInv, Fact, Working, Saved
  <2>2. CASE owner # p
    BY <1>0, <1>1, <2>2 DEF IInv, Fact, Working, Saved
  <2> QED BY <2>1, <2>2
<1>3. ASSUME NEW q \in Process PROVE Remembered(q, r)'
  <2>1. CASE q = p
    <3>1. memory'[p][r] = NoRecord /\ phase'[p] # "open"
      BY <1>1 DEF IInv, TypeOK
    <3>2. memory'[p][r].status = "none"
      BY <3>1 DEF NoRecord
    <3> QED BY <2>1, <3>1, <3>2 DEF Remembered
  <2>2. CASE q # p
    BY <1>0, <1>1, <2>2 DEF IInv, Remembered, Saved
  <2> QED BY <2>1, <2>2
<1> QED BY <1>2, <1>3

LEMMA GoneTypes ==
  ASSUME IInv, NEW p \in Process, phase' = [phase EXCEPT ![p] = "out"],
         owner' = IF owner = p THEN None ELSE owner,
         memory' = [memory EXCEPT ![p] = [r \in Run |-> NoRecord]], disk' = disk, by' = by
  PROVE  /\ phase' \in [Process -> {"out", "open", "closing"}] /\ owner' \in Process \cup {None}
         /\ memory' \in [Process -> [Run -> Record]]
         /\ Present'
<1>1. NoRecord \in Record
  BY DEF NoRecord, Record
<1>2. [r \in Run |-> NoRecord] \in [Run -> Record]
  BY <1>1
<1>3. memory' \in [Process -> [Run -> Record]]
  <2> DEFINE k == [r \in Run |-> NoRecord]
  <2> HIDE DEF k
  <2>1. memory' = [memory EXCEPT ![p] = k] /\ k \in [Run -> Record]
    BY <1>2 DEF k
  <2> QED BY <2>1 DEF IInv, TypeOK
<1>4. phase' \in [Process -> {"out", "open", "closing"}] /\ owner' \in Process \cup {None}
  BY DEF IInv, TypeOK
<1>5. Present'
  BY <1>4 DEF IInv, Present, TypeOK
<1> QED BY <1>3, <1>4, <1>5

\* Closing ends,
LEMMA DisposedStep ==
  ASSUME IInv, NEW p \in Process, Disposed(p)
  PROVE  IInv' /\ Lawful /\ Final
<1>1. /\ phase[p] = "closing" /\ \A r \in Run : ~Mapped(p, r)
      /\ phase' = [phase EXCEPT ![p] = "out"] /\ owner' = IF owner = p THEN None ELSE owner
      /\ memory' = [memory EXCEPT ![p] = [r \in Run |-> NoRecord]] /\ disk' = disk /\ by' = by
      /\ UNCHANGED <<job, pending, worker, timers, locks, before, result, foreign, writers,
           failures, limit, policy>>
  BY DEF Disposed, runs, queue, outside, settings
<1>2. /\ phase' \in [Process -> {"out", "open", "closing"}] /\ owner' \in Process \cup {None}
      /\ memory' \in [Process -> [Run -> Record]]
      /\ Present'
  BY <1>1, GoneTypes
<1>3. TypeOK'
  BY <1>1, <1>2 DEF IInv, TypeOK
<1>4. ASSUME NEW r \in Run PROVE Fact(r)' /\ \A q \in Process : Remembered(q, r)'
  <2>1. owner = p => worker[r] \notin {"live", "stopping"} /\ r \notin pending /\ r \notin locks
    BY <1>1 DEF IInv, Fact, Working, Mapped
  <2>2. worker'[r] = "none" \/ worker[r] # "none"
    BY <1>1
  <2> QED BY <1>1, <2>1, <2>2, GoneFact
<1>5. Lawful /\ Final
  BY <1>1, SmallLawful
<1> QED BY <1>2, <1>3, <1>4, <1>5 DEF IInv

\* or the process dies.
LEMMA CrashStep ==
  ASSUME IInv, NEW p \in Process, Crash(p)
  PROVE  IInv' /\ Lawful /\ Final
<1>0. TypeOK
  BY DEF IInv
<1>1. /\ phase' = [phase EXCEPT ![p] = "out"] /\ owner' = IF owner = p THEN None ELSE owner
      /\ memory' = [memory EXCEPT ![p] = [r \in Run |-> NoRecord]] /\ disk' = disk /\ by' = by
      /\ pending' = (IF owner = p THEN {} ELSE pending)
      /\ worker' = [r \in Run |-> IF Mapped(p, r) THEN "orphan" ELSE worker[r]]
      /\ timers' = {r \in timers : by[r] # p}
      /\ locks' = {r \in locks : by[r] # p}
      /\ result' = [r \in Run |-> IF by[r] = p THEN "none" ELSE result[r]]
      /\ before' = [r \in Run |-> IF by[r] = p THEN "none" ELSE before[r]]
      /\ UNCHANGED <<job, foreign, writers, failures, limit, policy>>
  BY DEF Crash, runs, outside, settings
<1>2. /\ phase' \in [Process -> {"out", "open", "closing"}] /\ owner' \in Process \cup {None}
      /\ memory' \in [Process -> [Run -> Record]]
      /\ Present'
  BY <1>1, GoneTypes
<1>3. TypeOK'
  <2>1. worker' \in [Run -> {"none", "live", "stopping", "orphan"}] /\ result' \in [Run ->
          {"none", "completed", "failed"}]
    BY <1>0, <1>1 DEF TypeOK
  <2>2. before' \in [Run -> Active \cup {"none"}]
    BY <1>0, <1>1 DEF TypeOK
  <2>3. pending' \subseteq Run /\ timers' \subseteq Run /\ locks' \subseteq Run
    BY <1>0, <1>1 DEF TypeOK
  <2> QED BY <1>0, <1>1, <1>2, <2>1, <2>2, <2>3 DEF TypeOK
<1>4. ASSUME NEW r \in Run PROVE Fact(r)' /\ \A q \in Process : Remembered(q, r)'
  <2>1. Mapped(p, r) => owner = p
    BY DEF IInv, Fact, Mapped, Working
  <2>2. worker'[r] = IF Mapped(p, r) THEN "orphan" ELSE worker[r]
    BY <1>1
  <2>3. ASSUME owner = p PROVE worker'[r] \notin {"live", "stopping"} /\ r \notin pending' /\ r
                 \notin locks'
    BY <1>1, <2>2, <2>3 DEF IInv, Fact, Working, Mapped
  <2>4. ASSUME owner # p
        PROVE  /\ worker'[r] = worker[r] /\ (r \in pending' <=> r \in pending)
               /\ (r \in locks' <=> r \in locks) /\ (by[r] # p => before'[r] = before[r])
    BY <1>1, <2>1, <2>2, <2>4 DEF IInv, Fact, Working
  <2>5. worker'[r] = "none" \/ worker[r] # "none"
    BY <2>2 DEF Mapped
  <2> QED BY <1>1, <2>3, <2>4, <2>5, GoneFact
<1>5. Lawful /\ Final
  <2>1. \A r \in Run : worker'[r] \in {"live", "stopping"} => worker[r] \in {"live", "stopping"}
          /\ ~Mapped(p, r)
    BY <1>1
  <2>2. \A r \in locks : worker'[r] \in {"live", "stopping"} => r \in locks'
    BY <1>0, <1>1, <2>1 DEF Mapped, TypeOK
  <2> QED BY <1>1, <2>1, <2>2, SmallLawful
<1> QED BY <1>2, <1>3, <1>4, <1>5 DEF IInv

\* Other sessions' writers.
LEMMA OutsideStep ==
  ASSUME IInv, UNCHANGED <<records, sessions, runs, queue, before, result, failures, settings>>,
         foreign' \subseteq Workspace, writers' \in 0..MaxForeign
  PROVE  IInv'
<1>1. UNCHANGED <<disk, memory, phase, owner, job, by, pending, worker, timers, locks, before,
        result, failures, limit, policy>>
  BY DEF records, sessions, runs, queue, settings
<1>2. TypeOK'
  BY <1>1 DEF IInv, TypeOK
<1>3. Present'
  BY <1>1 DEF IInv, Present
<1>4. ASSUME NEW r \in Run PROVE Fact(r)' /\ \A q \in Process : Remembered(q, r)'
  BY <1>1, SameFact
<1> QED BY <1>2, <1>3, <1>4 DEF IInv

\* Every operation keeps the invariant and respects the four rules, except that
\* taking over with outdated records may disturb a final one.
LEMMA ManagesStep ==
  ASSUME IInv, NEW p \in Process, Manages(p)
  PROVE  IInv' /\ Lawful /\ ((AcquireOwner(p) /\ memory[p] # disk) \/ Final)
<1>0. TypeOK
  BY DEF IInv
<1>1. CASE Open(p)
  BY <1>1, OpenStep
<1>2. CASE AcquireOwner(p)
  BY <1>2, AcquireStep
<1>3. CASE StopAll(p)
  BY <1>3, StopsStep DEF StopAll, Owns, TypeOK, IInv
<1>4. CASE Tick(p)
  BY <1>0, <1>4, PlainStep DEF Tick, settings, TypeOK, Lawful
<1>5. CASE Dispose(p)
  BY <1>5, DisposeStep
<1>6. CASE Disposed(p)
  BY <1>6, DisposedStep
<1>7. CASE Crash(p)
  BY <1>7, CrashStep
<1>8. ASSUME NEW r \in Run, Launch(p, r) PROVE IInv' /\ Lawful /\ Final
  BY <1>8, QueueStep DEF Launch, Fresh
<1>9. ASSUME NEW r \in Run, Ready(p, r) PROVE IInv' /\ Lawful /\ Final
  BY <1>9, ReadyStep
<1>10. ASSUME NEW r \in Run, Result(p, r) PROVE IInv' /\ Lawful /\ Final
  BY <1>10, ResultStep
<1>11. ASSUME NEW r \in Run, Stop(p, r) PROVE IInv' /\ Lawful /\ Final
  <2>1. {r} \in SUBSET Unfinished(p)
    BY <1>11 DEF Stop, Unfinished
  <2> QED BY <1>0, <1>11, <2>1, StopsStep DEF Stop, Owns, TypeOK
<1>12. ASSUME NEW r \in Run, TimesOut(p, r) PROVE IInv' /\ Lawful /\ Final
  <2> DEFINE ids == IF memory[p][r].status \in Active THEN {r} ELSE {}
  <2>1. ids \in SUBSET Unfinished(p)
    BY DEF Unfinished
  <2>2. owner = p
    BY <1>12 DEF TimesOut, Mapped, IInv, Fact, Working
  <2>3. timers \ {r} \in SUBSET Run
    BY <1>0 DEF TypeOK
  <2>4. Stops(p, ids, "failed", timers \ {r}) /\ UNCHANGED <<sessions, runs, result, outside,
          failures, settings>>
    BY <1>12 DEF TimesOut
  <2> HIDE DEF ids
  <2> QED BY <2>1, <2>2, <2>3, <2>4, StopsStep
<1>13. ASSUME NEW r \in Run, StopFails(p, r) PROVE IInv' /\ Lawful /\ Final
  BY <1>13, StopFailsStep
<1>14. ASSUME NEW r \in Run, NEW previous \in Run, Resume(p, previous, r) PROVE IInv' /\ Lawful /\ Final
  <2>1. memory[p][previous].session \in Run \cup {None}
    BY <1>0, KnownTypes DEF Record
  <2> QED BY <1>14, <2>1, QueueStep DEF Resume, Fresh
<1>15. ASSUME NEW r \in Run, NEW clean \in BOOLEAN, Exited(p, r, clean) PROVE IInv' /\ Lawful /\ Final
  BY <1>15, ExitedStep
<1>16. ASSUME NEW most \in Limits, SetConcurrency(p, most) PROVE IInv' /\ Lawful /\ Final
  BY <1>0, <1>16, PlainStep DEF SetConcurrency, TypeOK, Lawful
<1>17. ASSUME NEW setting \in Policies, SetWorkspaceWriters(p, setting) PROVE IInv' /\ Lawful /\ Final
  BY <1>0, <1>17, PlainStep DEF SetWorkspaceWriters, TypeOK, Lawful
<1> QED BY <1>1, <1>2, <1>3, <1>4, <1>5, <1>6, <1>7, <1>8, <1>9, <1>10, <1>11, <1>12, <1>13,
           <1>14, <1>15, <1>16, <1>17 DEF Manages

\* Every step keeps the invariant,
LEMMA StepIInv == IInv /\ [Next]_vars => IInv'
<1> SUFFICES ASSUME IInv, [Next]_vars PROVE IInv'
  OBVIOUS
<1>0. TypeOK
  BY DEF IInv
<1>1. ASSUME NEW p \in Process, Manages(p) PROVE IInv'
  BY <1>1, ManagesStep
<1>2. ASSUME NEW r \in Run, OrphanEnds(r) PROVE IInv'
  BY <1>2, OrphanStep
<1>3. ASSUME NEW w \in Workspace, ForeignWriter(w) PROVE IInv'
  <2>1. writers' \in 0..MaxForeign
    BY <1>0, <1>3, SubagentsAssumption DEF ForeignWriter, TypeOK
  <2> QED BY <1>0, <1>3, <2>1, OutsideStep DEF ForeignWriter, TypeOK
<1>4. ASSUME NEW w \in Workspace, ForeignWriterEnds(w) PROVE IInv'
  BY <1>0, <1>4, OutsideStep DEF ForeignWriterEnds, TypeOK
<1>5. CASE UNCHANGED vars
  BY <1>0, <1>5, OutsideStep DEF vars, outside, TypeOK
<1> QED BY <1>1, <1>2, <1>3, <1>4, <1>5 DEF Next

\* which holds to begin with.
LEMMA InitIInv == Init => IInv
<1> SUFFICES ASSUME Init PROVE IInv
  OBVIOUS
<1>1. NoRecord \in Record /\ NoRecord.status = "none"
  BY DEF NoRecord, Record
<1>2. /\ disk \in [Run -> Record] /\ \A r \in Run : disk[r].status = "none"
      /\ memory \in [Process -> [Run -> Record]]
  BY <1>1 DEF Init
<1>3. TypeOK
  BY <1>2, SubagentsAssumption DEF Init, TypeOK
<1>4. ASSUME NEW r \in Run PROVE Fact(r) /\ \A p \in Process : Remembered(p, r)
  BY <1>2 DEF Init, Fact, Remembered, Working, Saved, Active
<1> QED BY <1>3, <1>4 DEF Init, IInv, Present

\* The step properties at once.
Kind ==
    /\ policy = "serialize" /\ policy' = "serialize" =>
         /\ Meetings' \subseteq Meetings
         /\ Intrusions' \cap locks' \subseteq Intrusions
    /\ LocksStay
    /\ Reported

\* What every step respects.
LEMMA KindStep ==
  ASSUME IInv, [Next]_vars
  PROVE  Kind /\ (Final \/ \E p \in Process : AcquireOwner(p) /\ memory[p] # disk)
<1>0. TypeOK
  BY DEF IInv
<1>1. CASE \E p \in Process : Manages(p)
  <2>1. PICK p \in Process : Manages(p)
    BY <1>1
  <2>2. Lawful /\ ((AcquireOwner(p) /\ memory[p] # disk) \/ Final)
    BY <2>1, ManagesStep
  <2>3. Kind
    BY <2>2 DEF Kind, Lawful, Shared
  <2> QED BY <2>2, <2>3
<1>2. CASE \E r \in Run : OrphanEnds(r)
  <2>1. Lawful /\ Final
    BY <1>2, OrphanStep
  <2> QED BY <2>1 DEF Kind, Lawful, Shared
<1>3. CASE UNCHANGED <<job, disk, worker, locks>>
  <2>1. Meetings' = Meetings
    BY <1>3 DEF Meetings, Meet
  <2>2. LocksStay /\ Reported /\ Final
    BY <1>3 DEF LocksStay, Reported, Final
  <2>3. CASE foreign' \subseteq foreign
    BY <1>3, <2>1, <2>2, <2>3 DEF Kind, Intrusions
  <2>4. CASE \E w \in Workspace : ForeignWriter(w)
    <3>1. PICK w \in Workspace : foreign' = foreign \cup {w} /\ \A r \in locks : job[r].place # w
      BY <2>4 DEF ForeignWriter
    <3>2. Intrusions' \cap locks' \subseteq Intrusions
      BY <1>3, <3>1 DEF Intrusions
    <3> QED BY <2>1, <2>2, <3>2 DEF Kind
  <2>5. (\E w \in Workspace : ForeignWriter(w)) \/ foreign' \subseteq foreign \/ (\E p \in Process
          : Manages(p)) \/ (\E r \in Run : OrphanEnds(r))
    BY DEF Next, vars, outside, ForeignWriterEnds
  <2> QED BY <1>1, <1>2, <2>3, <2>4, <2>5
<1>4. \/ \E p \in Process : Manages(p)
      \/ \E r \in Run : OrphanEnds(r)
      \/ UNCHANGED <<job, disk, worker, locks>>
  BY DEF Next, vars, ForeignWriter, ForeignWriterEnds, records, runs, queue
<1> QED BY <1>1, <1>2, <1>3, <1>4

\* The variables keep their types.
THEOREM SubagentTypes == Spec => []TypeOK
<1>1. IInv => TypeOK
  BY DEF IInv
<1> QED BY <1>1, InitIInv, StepIInv, PTL DEF Spec

\* While writers are serialized, no agent joins a writer in its workspace: the pump
\* looks at every worker that has not ended, a stopped one included (pump, exited,
\* releaseHeld).
THEOREM OneWriter == Spec => WritersAlone
<1>1. IInv /\ [Next]_vars =>
        [policy = "serialize" /\ policy' = "serialize" =>
           /\ Meetings' \subseteq Meetings
           /\ Intrusions' \cap locks' \subseteq Intrusions]_vars
  BY KindStep DEF Kind
<1> QED BY <1>1, InitIInv, StepIInv, PTL DEF Spec, WritersAlone

\* A writer's lock is there as long as its worker, and no longer (exited,
\* releaseHeld).
THEOREM LocksEndWithWorkers == Spec => LocksFollowWorkers
<1> DEFINE A == \A r \in locks \cup locks' : r \in locks' <=> worker'[r] \in {"live", "stopping"}
<1>1. IInv /\ [Next]_vars => A
  <2> SUFFICES ASSUME IInv, [Next]_vars PROVE A
    OBVIOUS
  <2>1. LocksStay /\ IInv'
    BY KindStep, StepIInv DEF Kind
  <2>2. \A r \in locks' : worker'[r] \in {"live", "stopping"}
    BY <2>1 DEF IInv, TypeOK, Fact, Working
  <2> QED BY <2>1, <2>2 DEF LocksStay
<1>2. IInv /\ [Next]_vars => [A]_vars
  BY <1>1
<1>3. IInv => TypeOK
  BY DEF IInv
<1> QED BY <1>2, <1>3, InitIInv, StepIInv, PTL DEF Spec, LocksFollowWorkers

\* A run is saved as a success only if its worker reported one and no stop was
\* under way (exited, ensureStopped).
THEOREM NoEmptySuccess == Spec => SuccessIsReported
<1>1. IInv /\ [Next]_vars =>
        [\A r \in Run : disk'[r].status = "completed" /\ disk[r].status # "completed" =>
           result[r] = "completed" /\ worker[r] = "live"]_vars
  BY KindStep DEF Kind, Reported
<1> QED BY <1>1, InitIInv, StepIInv, PTL DEF Spec, SuccessIsReported

\* When an owner has closed the session, none of its runs has a worker and every
\* record is final (dispose).
THEOREM ClosingLeavesNothing == Spec => LeavesNothing
<1> DEFINE A == \A p \in Process : owner = p /\ owner' # p /\ Disposed(p) =>
                  \A r \in Run : by[r] = p => worker[r] \in {"none", "orphan"} /\ disk[r].status
                    \in Terminal
<1>1. IInv => A
  <2> SUFFICES ASSUME IInv, NEW p \in Process, owner = p, Disposed(p), NEW r \in Run, by[r] = p
               PROVE  worker[r] \in {"none", "orphan"} /\ disk[r].status \in Terminal
    OBVIOUS
  <2>1. p # None /\ phase[p] = "closing" /\ ~Mapped(p, r)
    BY SubagentsAssumption DEF Disposed
  <2>2. worker[r] \in {"none", "live", "stopping", "orphan"} /\ disk[r].status \in Active \cup
          Terminal \cup {"none"}
    BY DEF IInv, TypeOK, Record
  <2>3. ~Working(r)
    BY <2>1 DEF Mapped, Working
  <2>4. r \notin pending
    BY <2>1 DEF IInv, Fact
  <2>5. disk[r].status # "none"
    BY <2>1 DEF IInv, Fact
  <2>6. ~Saved(r)
    BY <2>1, <2>3, <2>4 DEF IInv, Fact
  <2> QED BY <2>2, <2>3, <2>5, <2>6 DEF Working, Saved
<1>2. IInv /\ [Next]_vars => [A]_vars
  BY <1>1
<1> QED BY <1>2, InitIInv, StepIInv, PTL DEF Spec, LeavesNothing

\* Only a process that takes the session over with records it read before they
\* were final disturbs a final record.
OnlyTakeovers == [][Final \/ \E p \in Process : AcquireOwner(p) /\ memory[p] # disk]_vars

\* The only step that changes a final record is the takeover of the session by a
\* process that read the records earlier (acquireOwner, recoverRuns).
THEOREM OnlyTakeoversDisturb == Spec => OnlyTakeovers
<1>1. IInv /\ [Next]_vars => [Final \/ \E p \in Process : AcquireOwner(p) /\ memory[p] # disk]_vars
  BY KindStep
<1> QED BY <1>1, InitIInv, StepIInv, PTL DEF Spec, OnlyTakeovers

\* What the only process knows before it owns the session is what is saved.
Alone == \A p \in Process : phase[p] = "open" /\ owner # p => memory[p] = disk

\* Nobody else changes what is saved.
LEMMA AloneStep ==
  ASSUME \A p, q \in Process : p = q, IInv, Alone, [Next]_vars
  PROVE  Alone'
<1> SUFFICES ASSUME NEW p \in Process, phase'[p] = "open", owner' # p PROVE memory'[p] = disk'
  BY DEF Alone
<1>0. TypeOK /\ p # None /\ \A q \in Process : q = p
  BY SubagentsAssumption DEF IInv
<1>1. CASE UNCHANGED <<disk, memory, phase, owner>>
  BY <1>1 DEF Alone
<1>2. CASE Open(p)
  BY <1>0, <1>2 DEF Open, TypeOK
<1>3. ASSUME \A q \in Process : ~Open(q), ~UNCHANGED <<disk, memory, phase, owner>> PROVE FALSE
  <2>1. PICK q \in Process : Manages(q)
    BY <1>3 DEF Next, vars, OrphanEnds, ForeignWriter, ForeignWriterEnds, records, sessions
  <2>2. q = p
    BY <1>0
  <2>3. ASSUME NEW r \in Run, Mapped(p, r), owner' = owner PROVE FALSE
    BY <1>0, <2>3 DEF IInv, Fact, Mapped, Working
  <2>4. CASE Dispose(p) \/ Disposed(p) \/ Crash(p)
    BY <1>0, <2>4 DEF Dispose, Disposed, Crash, TypeOK
  <2>5. CASE AcquireOwner(p)
    BY <2>5 DEF AcquireOwner
  <2>6. owner # p \/ owner' # owner
    OBVIOUS
  <2>7. ASSUME owner = p PROVE owner' = p \/ Dispose(p) \/ Disposed(p) \/ Crash(p)
    BY <1>3, <2>1, <2>2, <2>7 DEF Manages, AcquireOwner, StopAll, Tick, Launch, Ready, Result,
       Stop, TimesOut,
        StopFails, Resume, Exited, SetConcurrency, SetWorkspaceWriters, sessions
  <2>8. ASSUME owner # p PROVE FALSE
    <3>1. ASSUME NEW r \in Run, Mapped(p, r) PROVE FALSE
      BY <1>0, <2>8, <3>1 DEF IInv, Fact, Mapped, Working
    <3> QED BY <1>3, <2>1, <2>2, <2>4, <2>5, <2>8, <3>1 DEF Manages, StopAll, Tick, Launch,
               Ready, Result, Stop,
               TimesOut, StopFails, Resume, Exited, SetConcurrency, SetWorkspaceWriters, Owns, Heard
  <2> QED BY <2>4, <2>7, <2>8
<1> QED BY <1>0, <1>1, <1>2, <1>3

\* With one process, a final record stays final whatever is stopped, exits or is
\* closed later.
THEOREM FinishedStays ==
  ASSUME \A p, q \in Process : p = q
  PROVE  Spec => TerminalStays
<1>1. Init => Alone
  BY DEF Init, Alone
<1>2. IInv /\ Alone /\ [Next]_vars => Alone'
  BY AloneStep
<1>3. IInv /\ Alone /\ [Next]_vars =>
        [\A r \in Run : disk[r].status \in Terminal => disk'[r].status = disk[r].status]_vars
  <2> SUFFICES ASSUME IInv, Alone, [Next]_vars PROVE Final
    BY DEF Final
  <2>1. ASSUME NEW p \in Process, AcquireOwner(p) PROVE memory[p] = disk
    BY <2>1, SubagentsAssumption DEF AcquireOwner, Alone
  <2> QED BY <2>1, KindStep
<1> QED BY <1>1, <1>2, <1>3, InitIInv, StepIInv, PTL DEF Spec, TerminalStays
-----------------------------------------------------------------------------
(* The queue is served *)

\* What the pump looks at.
Queued == [pending |-> pending, worker |-> worker, locks |-> locks]
Room(state, r, most, setting) == Cardinality(Workers(state)) < most /\ MayShare(state, r, setting)

\* The runs the pump would start.
Startable == {r \in pending : Room(Queued, r, limit, policy)}

\* A run that may start does not wait for a pump nobody calls: whatever makes
\* room, an exit, a stop, a setting, ends with the pump, and only the end of another
\* session's writer, which tells nobody, leaves a run to the next half second's.
QueueServed ==
    [][/\ Startable' \subseteq Startable \/ \E w \in Workspace : ForeignWriterEnds(w)
       /\ (\E p \in Process : Tick(p)) => Startable' = {}]_vars

\* With more workers and locks, whatever another session does, there is no more room.
LEMMA LessRoom ==
  ASSUME NEW a, NEW b, Workers(a) \subseteq Workers(b), a.locks \subseteq b.locks,
         NEW most \in Nat, NEW setting, NEW r \in Run, Room(b, r, most, setting)
  PROVE  Room(a, r, most, setting)
<1>1. IsFiniteSet(Workers(b))
  <2>1. IsFiniteSet(Run)
    <3>1. MaxRuns \in Int
      BY SubagentsAssumption
    <3>2. IsFiniteSet(1..MaxRuns)
      BY <3>1, FS_Interval
    <3> QED BY <3>2 DEF Run
  <2>2. Workers(b) \subseteq Run
    BY DEF Workers
  <2> QED BY <2>1, <2>2, FS_Subset
<1>2. /\ IsFiniteSet(Workers(a))
      /\ Cardinality(Workers(a)) <= Cardinality(Workers(b))
      /\ Cardinality(Workers(a)) \in Nat /\ Cardinality(Workers(b)) \in Nat
  BY <1>1, FS_Subset, FS_CardinalityType
<1>3. Cardinality(Workers(a)) < most
  BY <1>2 DEF Room
<1>4. MayShare(a, r, setting)
  BY DEF Room, MayShare, Beside
<1> QED BY <1>3, <1>4 DEF Room

\* Up to N, nothing that may start is in the queue.
ServedUpTo(s, N, most, setting) ==
    s \in State /\ \A r \in s.pending : r <= N => ~Room(s, r, most, setting)

\* A run that is started has its timer, and takes away no lock.
LEMMA StartsAdds ==
  ASSUME NEW s \in State, NEW r, NEW setting, NEW n, n = Starts(s, r, setting)
  PROVE  n.timers = s.timers \cup {r} /\ s.locks \subseteq n.locks
<1>1. n = [s EXCEPT !.pending = s.pending \ {r},
                    !.known = [s.known EXCEPT ![r] = [s.known[r] EXCEPT !.status = "starting"]],
                    !.worker = [s.worker EXCEPT ![r] = "live"],
                    !.timers = s.timers \cup {r},
                    !.locks = IF setting = "serialize" /\ job[r].writes THEN s.locks \cup {r}
                              ELSE s.locks]
  BY DEF Starts
<1>2. n.timers = s.timers \cup {r}
  BY <1>1 DEF State
<1>3. n.locks = IF setting = "serialize" /\ job[r].writes THEN s.locks \cup {r} ELSE s.locks
  BY <1>1 DEF State
<1> QED BY <1>2, <1>3

\* One turn,
LEMMA ServedTurn ==
  ASSUME NEW s, NEW most \in Nat, NEW setting, NEW n \in Run, ServedUpTo(s, n - 1, most, setting)
  PROVE  ServedUpTo(Considered(s, n, most, setting), n, most, setting)
<1> DEFINE b == Starts(s, n, setting)
<1>0. s \in State /\ n \in Int /\ \A r \in Run : r \in Int
  BY DEF ServedUpTo, Run
<1>1. CASE Considered(s, n, most, setting) = s /\ (n \in s.pending => ~Room(s, n, most, setting))
  <2>1. ASSUME NEW r \in s.pending, r <= n PROVE ~Room(s, r, most, setting)
    <3>1. r \in Int /\ (r = n \/ r <= n - 1)
      BY <1>0, <2>1 DEF State
    <3> QED BY <1>1, <2>1, <3>1 DEF ServedUpTo
  <2> QED BY <1>0, <1>1, <2>1 DEF ServedUpTo
<1>2. CASE Considered(s, n, most, setting) = b
  <2>1. /\ b \in State
        /\ b.pending = s.pending \ {n}
        /\ b.worker = [s.worker EXCEPT ![n] = "live"]
        /\ b.known[n] = [status |-> "starting", session |-> s.known[n].session]
        /\ \A o \in Run \ {n} : b.known[o] = s.known[o] /\ (o \in b.locks <=> o \in s.locks)
    BY <1>0, StartsIs
  <2>2. b = Starts(s, n, setting)
    OBVIOUS
  <2> HIDE DEF b
  <2>3. s.locks \subseteq b.locks
    BY <1>0, <2>2, StartsAdds
  <2>4. Workers(s) \subseteq Workers(b)
    BY <1>0, <2>1 DEF Workers, State
  <2>5. ASSUME NEW r \in b.pending, r <= n PROVE ~Room(b, r, most, setting)
    <3>1. r \in Run /\ r \in s.pending /\ r <= n - 1
      BY <1>0, <2>1, <2>5 DEF State
    <3>2. ~Room(s, r, most, setting)
      BY <3>1 DEF ServedUpTo
    <3> QED BY <2>3, <2>4, <3>1, <3>2, LessRoom
  <2> QED BY <1>2, <2>1, <2>5 DEF ServedUpTo
<1> QED BY <1>1, <1>2 DEF Considered, Room

\* and all of them.
LEMMA PumpedServes ==
  ASSUME NEW a \in State, NEW most \in Nat, NEW setting
  PROVE  /\ Pumped(a, most, setting) \in State
         /\ \A r \in Pumped(a, most, setting).pending : ~Room(Pumped(a, most, setting), r, most, setting)
<1>0. MaxRuns \in Nat
  BY SubagentsAssumption
<1>1. PICK f : /\ f[0] = a
               /\ \A n \in 1..MaxRuns : f[n] = Considered(f[n - 1], n, most, setting)
               /\ Pumped(a, most, setting) = f[MaxRuns]
  BY PumpIs
<1>2. ServedUpTo(a, 0, most, setting)
  BY DEF ServedUpTo, State, Run
<1> DEFINE B == {n \in 0..MaxRuns : ~ServedUpTo(f[n], n, most, setting)}
<1>3. ASSUME B # {} PROVE FALSE
  <2>1. PICK n \in B : \A m \in B : n <= m
    <3> HIDE DEF B
    <3>1. B \in SUBSET (0..MaxRuns)
      BY DEF B
    <3> QED BY <1>0, <1>3, <3>1, LeastOf DEF Least
  <2>2. n # 0
    BY <1>1, <1>2, <2>1
  <2>3. n \in 1..MaxRuns /\ n - 1 \in 0..MaxRuns /\ ~(n <= n - 1)
    BY <1>0, <2>1, <2>2
  <2>4. ServedUpTo(f[n - 1], n - 1, most, setting)
    BY <2>1, <2>3
  <2>5. ServedUpTo(f[n], n, most, setting)
    BY <1>1, <2>3, <2>4, ServedTurn DEF Run
  <2> QED BY <2>1, <2>5
<1>4. ServedUpTo(f[MaxRuns], MaxRuns, most, setting)
  BY <1>0, <1>3
<1>5. \A r \in f[MaxRuns].pending : r <= MaxRuns
  BY <1>0, <1>4 DEF Run, ServedUpTo, State
<1> QED BY <1>1, <1>4, <1>5 DEF ServedUpTo

\* A method that pumps leaves nothing that may start.
LEMMA BecomesServes ==
  ASSUME NEW p, NEW a \in State, NEW saved, NEW most \in Limits, NEW setting,
         Becomes(p, a, saved, most, setting), phase[p] = "open",
         UNCHANGED <<job, foreign>>, limit' = most, policy' = setting
  PROVE  Startable' = {}
<1> DEFINE b == Pumped(a, most, setting)
<1>1. b \in State /\ \A r \in b.pending : ~Room(b, r, most, setting)
  BY SubagentsAssumption, PumpedServes
<1>2. pending' = b.pending /\ worker' = b.worker /\ locks' = b.locks
  BY DEF Becomes
<1> HIDE DEF b
<1>3. Workers(Queued)' = Workers(b)
  BY <1>2 DEF Workers, Queued
<1>4. ASSUME NEW r \in pending', Room(Queued, r, limit, policy)' PROVE FALSE
  <2>1. r \in Run
    BY <1>1, <1>2 DEF State
  <2>2. Cardinality(Workers(b)) < most
    BY <1>3, <1>4 DEF Room
  <2>3. \A o \in Workers(b) : job[o].place = job[r].place <=> o \in Beside(Queued, r)'
    BY <1>3 DEF Beside
  <2>4. Beside(b, r) = Beside(Queued, r)'
    BY <1>3 DEF Beside
  <2>5. Queued'.locks = b.locks
    BY <1>2 DEF Queued
  <2>6. MayShare(b, r, setting)
    BY <1>4, <2>4, <2>5 DEF Room, MayShare
  <2> QED BY <1>1, <1>2, <1>4, <2>2, <2>6 DEF Room
<1> QED BY <1>4 DEF Startable

\* Nor does a step that only takes runs from the queue, and room away.
LEMMA NoRoomMade ==
  ASSUME TypeOK, pending' \subseteq pending, UNCHANGED <<job, limit, policy>>,
         \A r \in Run : worker[r] \in {"live", "stopping"} => worker'[r] \in {"live", "stopping"},
         locks \subseteq locks', foreign \subseteq foreign'
  PROVE  Startable' \subseteq Startable
<1>1. Workers(Queued) \subseteq Workers(Queued)'
  BY DEF Workers, Queued
<1> SUFFICES ASSUME NEW r \in pending', Room(Queued, r, limit, policy)' PROVE r \in Startable
  BY DEF Startable
<1> DEFINE a == Queued
           b == [pending |-> pending', worker |-> worker', locks |-> locks']
<1>2. Queued' = b
  BY DEF Queued
<1>3. Workers(b) = Workers(Queued)'
  BY DEF Workers, Queued
<1>4. Beside(b, r) = Beside(Queued, r)'
  BY <1>3 DEF Beside
<1>5. b.locks = locks' /\ a.locks = locks
  BY DEF Queued
<1> HIDE DEF a, b
<1>6. Room(b, r, limit, policy)
  BY <1>2, <1>3, <1>4 DEF Room, MayShare
<1>7. r \in Run /\ limit \in Nat
  BY SubagentsAssumption DEF TypeOK
<1>8. Room(a, r, limit, policy)
  BY <1>1, <1>3, <1>5, <1>6, <1>7, LessRoom DEF a
<1> QED BY <1>8 DEF Startable, a
\* The state the pump begins with: in a method that only pumps,
LEMMA HereState ==
  ASSUME TypeOK, NEW p \in Process
  PROVE  Here(p) \in State /\ Here(p).worker = worker /\ Here(p).timers = timers
<1> DEFINE a == Mid(memory[p], pending, worker, timers, locks)
<1>1. a \in State /\ a.worker = worker /\ a.timers = timers
  BY KnownTypes, MidIs
<1> HIDE DEF a
<1> QED BY <1>1, HereIs DEF a

\* when the session is taken over,
LEMMA AcquireState ==
  ASSUME TypeOK, NEW p \in Process, AcquireOwner(p)
  PROVE  \E a \in State : /\ Becomes(p, a, Unfinished(p), limit, policy)
                         /\ a.worker = worker /\ a.timers = timers
<1> DEFINE k == Interrupted(memory[p])
           a == Mid(k, pending, worker, timers, locks)
<1>1. a = [Here(p) EXCEPT !.known = Interrupted(@)]
  BY DEF Here, Mid
<1>2. k \in [Run -> Record]
  <2>1. memory[p] \in [Run -> Record]
    BY KnownTypes
  <2>2. \A r \in Run : k[r] = IF memory[p][r].status \in Active
                              THEN [status |-> "interrupted", session |-> memory[p][r].session]
                              ELSE memory[p][r]
    BY <2>1 DEF Interrupted, Record
  <2>3. k = [r \in Run |-> k[r]]
    BY DEF Interrupted
  <2> HIDE DEF k
  <2>4. ASSUME NEW r \in Run PROVE k[r] \in Record
    <3>1. memory[p][r] \in Record
      BY <2>1
    <3>2. CASE memory[p][r].status \in Active
      <4>1. k[r] = [status |-> "interrupted", session |-> memory[p][r].session]
        BY <2>2, <3>2
      <4> QED BY <3>1, <4>1 DEF Record, Terminal
    <3>3. CASE memory[p][r].status \notin Active
      BY <2>2, <3>1, <3>3
    <3> QED BY <3>2, <3>3
  <2> QED BY <2>3, <2>4
<1> HIDE DEF k
<1>3. a \in State /\ a.worker = worker /\ a.timers = timers
  BY <1>2, KnownTypes, MidIs
<1>4. Becomes(p, a, Unfinished(p), limit, policy)
  BY <1>1 DEF AcquireOwner
<1> HIDE DEF a
<1> QED BY <1>3, <1>4

\* when a run is queued,
LEMMA QueueState ==
  ASSUME TypeOK, NEW p \in Process, NEW new \in Run, NEW session \in Run \cup {None},
         Queue(p, new, session)
  PROVE  \E a \in State : /\ Becomes(p, a, {new}, limit, policy)
                         /\ a.worker = worker /\ a.timers = timers
<1> DEFINE e == [status |-> "queued", session |-> session]
           k == [memory[p] EXCEPT ![new] = e]
           q == pending \cup {new}
           h == Here(p)
           a == Mid(k, q, worker, timers, locks)
<1>1. e \in Record
  BY DEF Record, Active
<1>2. /\ h.known = memory[p] /\ h.pending = pending
      /\ Becomes(p, [h EXCEPT !.known[new] = e, !.pending = @ \cup {new}], {new}, limit, policy)
  BY DEF Here, Queue
<1> HIDE DEF e, h
<1>3. k \in [Run -> Record] /\ q \in SUBSET Run
  BY <1>1, KnownTypes
<1>4. [h EXCEPT !.known[new] = e, !.pending = @ \cup {new}] =
        [h EXCEPT !.known = [h.known EXCEPT ![new] = e], !.pending = h.pending \cup {new}]
  OBVIOUS
<1>5. [h EXCEPT !.known = k, !.pending = q] = a
  <2> HIDE DEF k, q
  <2> QED BY HerePut DEF h
<1>6. Becomes(p, a, {new}, limit, policy)
  <2> HIDE DEF a
  <2> QED BY <1>2, <1>4, <1>5
<1> HIDE DEF k, q
<1>7. a \in State /\ a.worker = worker /\ a.timers = timers
  BY <1>3, KnownTypes, MidIs
<1> HIDE DEF a
<1> QED BY <1>6, <1>7

\* when a worker has exited,
LEMMA ExitedState ==
  ASSUME TypeOK, NEW p \in Process, NEW gone \in Run, NEW clean \in BOOLEAN, Exited(p, gone, clean)
  PROVE  \E a \in State : /\ Becomes(p, a, {gone}, limit, policy)
                         /\ a.pending = pending /\ a.worker = [worker EXCEPT ![gone] = "none"]
                         /\ a.timers = timers \ {gone}
<1> DEFINE status == Outcome(p, gone, clean)
           e == [memory[p][gone] EXCEPT !.status = status]
           k == [memory[p] EXCEPT ![gone] = e]
           ws == [worker EXCEPT ![gone] = "none"]
           ts == timers \ {gone}
           ls == locks \ {gone}
           a == Mid(k, pending, ws, ts, ls)
<1>1. Becomes(p, a, {gone}, limit, policy)
  BY ExitedMid DEF Exited
<1>2. k \in [Run -> Record]
  <2>1. memory[p] \in [Run -> Record] /\ memory[p][gone] \in Record
    BY KnownTypes
  <2>2. status \in Terminal
    BY DEF Outcome, TypeOK, Terminal
  <2> HIDE DEF status
  <2>3. e \in Record
    BY <2>1, <2>2, WithStatus
  <2> HIDE DEF e
  <2> QED BY <2>1, <2>3
<1>3. ws \in [Run -> WorkerState] /\ ts \in SUBSET Run /\ ls \in SUBSET Run /\ pending \in SUBSET Run
  BY KnownTypes DEF WorkerState
<1>4. a \in State /\ a.pending = pending /\ a.worker = ws /\ a.timers = ts
  <2> HIDE DEF k, ws, ts, ls
  <2> QED BY <1>2, <1>3, MidIs
<1> HIDE DEF a
<1> QED BY <1>1, <1>4

\* and when runs are stopped.
StoppedState(p, ids, armed, a) ==
    LET working == {o \in ids : Mapped(p, o)}
    IN  /\ Becomes(p, a, ids \ working, IF ids \subseteq working THEN 0 ELSE limit, policy)
        /\ a.pending = pending \ ids /\ a.worker = Stopping(p, ids)
        /\ a.timers = armed /\ a.locks = locks /\ Free(a)

LEMMA StopsState ==
  ASSUME IInv, NEW p \in Process, owner = p, NEW ids \in SUBSET Unfinished(p),
         NEW status \in {"cancelled", "failed"}, NEW armed \in SUBSET Run, Stops(p, ids, status, armed)
  PROVE  \E a \in State : StoppedState(p, ids, armed, a)
<1> DEFINE working == {o \in ids : Mapped(p, o)}
           k == Stopped(p, ids, status)
           w == Stopping(p, ids)
           q == pending \ ids
           a == Mid(k, q, w, armed, locks)
           saved == ids \ working
           most == IF ids \subseteq working THEN 0 ELSE limit
<1>0. TypeOK /\ ids \in SUBSET Run /\ saved \in SUBSET Run
  BY DEF IInv, Unfinished
<1>1. Becomes(p, a, saved, most, policy)
  BY StopsMid DEF Stops
<1>2. k \in [Run -> Record]
  <2>1. memory[p] \in [Run -> Record] /\ k = [r \in Run |-> k[r]] /\ status \in Active \cup Terminal
    BY <1>0, KnownTypes DEF Stopped, Terminal
  <2>2. \A r \in Run : k[r] = IF r \in ids THEN [memory[p][r] EXCEPT !.status = status]
                              ELSE memory[p][r]
    BY DEF Stopped
  <2> HIDE DEF k
  <2>3. ASSUME NEW r \in Run PROVE k[r] \in Record
    <3>1. memory[p][r] \in Record
      BY <2>1
    <3>2. [memory[p][r] EXCEPT !.status = status] \in Record
      BY <2>1, <3>1, WithStatus
    <3> QED BY <2>2, <3>1, <3>2
  <2> QED BY <2>1, <2>3
<1>3. /\ w \in [Run -> WorkerState] /\ q \in SUBSET Run /\ locks \in SUBSET Run
      /\ \A r \in Run : w[r] = IF r \in working THEN "stopping" ELSE worker[r]
  BY <1>0, KnownTypes DEF Stopping, WorkerState
<1>4. a \in State /\ a.pending = q /\ a.worker = w /\ a.timers = armed /\ a.locks = locks
  <2> HIDE DEF k, w, q
  <2> QED BY <1>2, <1>3, MidIs
<1>5. Free(a)
  <2>1. \A r \in q : r \in Run /\ worker[r] = "none" /\ ~Mapped(p, r)
    BY <1>0, FreeHere, KnownTypes DEF Mapped
  <2> HIDE DEF w, q
  <2> QED BY <1>3, <1>4, <2>1 DEF Free
<1> HIDE DEF a, w, k, q
<1>6. StoppedState(p, ids, armed, a)
  BY <1>1, <1>4, <1>5 DEF w, q, StoppedState
<1> QED BY <1>4, <1>6

\* Methods that pump.
LEMMA PlainServes ==
  ASSUME TypeOK, NEW p \in Process, NEW most \in Limits, NEW setting, Owns(p),
         Becomes(p, Here(p), {}, most, setting), UNCHANGED <<job, foreign>>,
         limit' = most, policy' = setting
  PROVE  Startable' = {}
<1> DEFINE h == Here(p)
<1>1. h \in State /\ Becomes(p, h, {}, most, setting)
  BY HereState
<1> HIDE DEF h
<1> QED BY <1>1, BecomesServes DEF Owns

LEMMA AcquireServes ==
  ASSUME TypeOK, NEW p \in Process, AcquireOwner(p)
  PROVE  Startable' = {}
<1>1. PICK a \in State : Becomes(p, a, Unfinished(p), limit, policy)
  BY AcquireState
<1>2. /\ phase[p] = "open" /\ limit \in Limits
      /\ UNCHANGED <<job, foreign, limit, policy>>
  BY DEF AcquireOwner, TypeOK, runs, outside, settings
<1> QED BY <1>1, <1>2, BecomesServes

LEMMA QueueServes ==
  ASSUME TypeOK, NEW p \in Process, NEW new \in Run, NEW session \in Run \cup {None}, Owns(p),
         Queue(p, new, session), UNCHANGED <<job, foreign, limit, policy>>
  PROVE  Startable' = {}
<1>1. PICK a \in State : Becomes(p, a, {new}, limit, policy)
  BY QueueState
<1> QED BY <1>1, BecomesServes DEF Owns, TypeOK

LEMMA ExitedServes ==
  ASSUME IInv, NEW p \in Process, NEW gone \in Run, NEW clean \in BOOLEAN, Exited(p, gone, clean)
  PROVE  Startable' = {}
<1>0. TypeOK
  BY DEF IInv
<1>1. PICK a \in State : Becomes(p, a, {gone}, limit, policy) /\ a.pending = pending
  BY <1>0, ExitedState
<1>2. UNCHANGED <<job, foreign, limit, policy>> /\ limit \in Limits
  BY <1>0 DEF Exited, TypeOK, runs, outside, settings
<1>3. CASE phase[p] = "open"
  BY <1>1, <1>2, <1>3, BecomesServes
<1>4. CASE phase[p] # "open"
  <2>1. owner = p
    BY DEF Exited, Mapped, IInv, Fact, Working
  <2>2. pending = {}
    BY <1>0, <1>4, <2>1 DEF IInv, Fact, TypeOK
  <2>3. pending' = {}
    BY <1>1, <1>4, <2>2 DEF Becomes
  <2> QED BY <2>3 DEF Startable
<1> QED BY <1>3, <1>4

\* A stop that ends no queued run does not pump, and frees nothing either: its
\* workers are still there.
LEMMA StopsServes ==
  ASSUME IInv, NEW p \in Process, owner = p, NEW ids \in SUBSET Unfinished(p),
         NEW status \in {"cancelled", "failed"}, NEW armed \in SUBSET Run, Stops(p, ids, status, armed),
         UNCHANGED <<job, foreign, limit, policy>>
  PROVE  Startable' \subseteq Startable
<1> DEFINE working == {o \in ids : Mapped(p, o)}
           saved == ids \ working
           most == IF ids \subseteq working THEN 0 ELSE limit
<1>0. TypeOK /\ ids \in SUBSET Run /\ saved \in SUBSET Run
  BY DEF IInv, Unfinished
<1>6. PICK a \in State : StoppedState(p, ids, armed, a)
  BY StopsState
<1>1. /\ Becomes(p, a, saved, most, policy)
      /\ a.pending = pending \ ids /\ a.worker = Stopping(p, ids)
      /\ a.locks = locks /\ Free(a)
  BY <1>6 DEF StoppedState
<1>2. \A r \in Run : a.worker[r] = IF r \in working THEN "stopping" ELSE worker[r]
  BY <1>1 DEF Stopping
<1>3. CASE phase[p] = "open" /\ ~(ids \subseteq working)
  <2>1. Becomes(p, a, saved, limit, policy) /\ limit \in Limits
    BY <1>0, <1>1, <1>3 DEF TypeOK
  <2> HIDE DEF saved
  <2>2. Startable' = {}
    BY <1>3, <2>1, BecomesServes
  <2> QED BY <2>2
<1>4. CASE phase[p] = "open" /\ ids \subseteq working
  <2> HIDE DEF most, saved
  <2>1. \A r \in Run : Effect(p, a, saved, r)
    BY <1>0, <1>1, BecomesIs
  <2>2. Typed
    BY <1>0, <1>1, BecomesIs
  <2>3. pending' \subseteq pending
    BY <1>1, <2>1, <2>2 DEF Effect, Typed
  <2>4. \A r \in Run : worker[r] \in {"live", "stopping"} => worker'[r] \in {"live", "stopping"}
    BY <1>2, <2>1 DEF Effect
  <2>5. \A r \in locks : r \in Run /\ r \notin pending
    BY <1>0 DEF IInv, Fact, TypeOK, Working
  <2>6. locks \subseteq locks'
    BY <1>1, <2>1, <2>5 DEF Effect
  <2> QED BY <1>0, <2>3, <2>4, <2>6, NoRoomMade
<1>5. CASE phase[p] # "open"
  <2>1. pending = {}
    BY <1>0, <1>5 DEF IInv, Fact, TypeOK
  <2>2. pending' = {}
    BY <1>1, <1>5, <2>1 DEF Becomes
  <2> QED BY <2>2 DEF Startable
<1> QED BY <1>3, <1>4, <1>5

\* Those that neither pump nor make room.
LEMMA QuietServes ==
  ASSUME IInv, NEW p \in Process,
         \/ Open(p) \/ Dispose(p) \/ Disposed(p) \/ Crash(p)
         \/ \E r \in Run : Ready(p, r) \/ Result(p, r) \/ StopFails(p, r)
  PROVE  Startable' \subseteq Startable
<1>0. TypeOK
  BY DEF IInv
<1>1. UNCHANGED <<job, limit, policy, foreign>>
  BY DEF Open, Dispose, Disposed, Crash, Ready, Result, StopFails, runs, outside, settings
<1>2. CASE UNCHANGED queue
  BY <1>0, <1>1, <1>2, NoRoomMade DEF queue
<1>3. CASE \E r \in Run : StopFails(p, r)
  <2>1. \A r \in Run : worker[r] \in {"live", "stopping"} => worker'[r] \in {"live", "stopping"}
    BY <1>0, <1>3 DEF StopFails, TypeOK
  <2>2. pending' = pending /\ locks' = locks
    BY <1>3 DEF StopFails
  <2> QED BY <1>0, <1>1, <2>1, <2>2, NoRoomMade
<1>4. CASE Dispose(p) \/ Crash(p)
  <2>1. CASE owner = p
    <3>1. pending' = {}
      BY <1>4, <2>1 DEF Dispose, Crash
    <3> QED BY <3>1 DEF Startable
  <2>2. CASE owner # p
    <3>1. \A r \in Run : ~Mapped(p, r) /\ (r \in locks => by[r] # p)
      BY <2>2 DEF IInv, Fact, Mapped, Working
    <3>2. pending' = pending
      BY <1>4, <2>2 DEF Dispose, Crash
    <3>3. \A r \in Run : worker'[r] = worker[r]
      BY <1>4, <2>2, <3>1 DEF Dispose, Crash
    <3>4. locks \subseteq locks'
      BY <1>0, <1>4, <3>1 DEF Dispose, Crash, TypeOK
    <3> QED BY <1>0, <1>1, <3>2, <3>3, <3>4, NoRoomMade
  <2> QED BY <2>1, <2>2
<1>5. Open(p) \/ Disposed(p) \/ (\E r \in Run : Ready(p, r) \/ Result(p, r)) => UNCHANGED queue
  BY DEF Open, Disposed, Ready, Result
<1> QED BY <1>2, <1>3, <1>4, <1>5

LEMMA ManagesServes ==
  ASSUME IInv, NEW p \in Process, Manages(p)
  PROVE  Startable' \subseteq Startable /\ (Tick(p) => Startable' = {})
<1>0. TypeOK /\ limit \in Limits
  BY DEF IInv, TypeOK
<1>1. CASE AcquireOwner(p)
  BY <1>0, <1>1, AcquireServes DEF Tick, AcquireOwner, Owns
<1>2. ASSUME Tick(p) PROVE Startable' = {}
  BY <1>0, <1>2, PlainServes DEF Tick, runs, outside, settings
<1>3. ASSUME NEW most \in Limits, SetConcurrency(p, most) PROVE Startable' = {}
  BY <1>0, <1>3, PlainServes DEF SetConcurrency, runs, outside
<1>4. ASSUME NEW setting \in Policies, SetWorkspaceWriters(p, setting) PROVE Startable' = {}
  BY <1>0, <1>4, PlainServes DEF SetWorkspaceWriters, runs, outside
<1>5. ASSUME NEW r \in Run, Launch(p, r) PROVE Startable' = {}
  BY <1>0, <1>5, QueueServes DEF Launch, outside, settings
<1>6. ASSUME NEW r \in Run, NEW previous \in Run, Resume(p, previous, r) PROVE Startable' = {}
  <2>1. memory[p][previous].session \in Run \cup {None}
    BY <1>0, KnownTypes DEF Record
  <2> QED BY <1>0, <1>6, <2>1, QueueServes DEF Resume, outside, settings
<1>7. ASSUME NEW r \in Run, NEW clean \in BOOLEAN, Exited(p, r, clean) PROVE Startable' = {}
  BY <1>7, ExitedServes
<1>8. CASE StopAll(p)
  <2>1. owner = p /\ timers \in SUBSET Run /\ Stops(p, Unfinished(p), "cancelled", timers)
    BY <1>0, <1>8 DEF StopAll, Owns, TypeOK
  <2>2. UNCHANGED <<job, foreign, limit, policy>>
    BY <1>8 DEF StopAll, runs, outside, settings
  <2> QED BY <1>2, <2>1, <2>2, StopsServes
<1>9. ASSUME NEW r \in Run, Stop(p, r) PROVE Startable' \subseteq Startable
  <2>1. {r} \in SUBSET Unfinished(p)
    BY <1>9 DEF Stop, Unfinished
  <2> QED BY <1>0, <1>9, <2>1, StopsServes DEF Stop, Owns, TypeOK, runs, outside, settings
<1>10. ASSUME NEW r \in Run, TimesOut(p, r) PROVE Startable' \subseteq Startable
  <2> DEFINE ids == IF memory[p][r].status \in Active THEN {r} ELSE {}
  <2>1. ids \in SUBSET Unfinished(p)
    BY DEF Unfinished
  <2>2. owner = p
    BY <1>10 DEF TimesOut, Mapped, IInv, Fact, Working
  <2>3. timers \ {r} \in SUBSET Run
    BY <1>0 DEF TypeOK
  <2>4. Stops(p, ids, "failed", timers \ {r}) /\ UNCHANGED <<job, foreign, limit, policy>>
    BY <1>10 DEF TimesOut, runs, outside, settings
  <2> HIDE DEF ids
  <2> QED BY <2>1, <2>2, <2>3, <2>4, StopsServes
<1> QED BY <1>1, <1>2, <1>3, <1>4, <1>5, <1>6, <1>7, <1>8, <1>9, <1>10, QuietServes DEF Manages

\* A run that may start waits for nothing but the next half second, and only after
\* another session's writer has ended (pump and everyone who calls it).
THEOREM NothingLeftWaiting == Spec => QueueServed
<1> DEFINE A == /\ Startable' \subseteq Startable \/ \E w \in Workspace : ForeignWriterEnds(w)
                /\ (\E p \in Process : Tick(p)) => Startable' = {}
<1>1. IInv /\ [Next]_vars => [A]_vars
  <2> SUFFICES ASSUME IInv, Next, ~UNCHANGED vars PROVE A
    OBVIOUS
  <2>0. TypeOK
    BY DEF IInv
  <2>1. ASSUME NEW p \in Process, Tick(p) PROVE Startable' = {}
    BY <2>1, ManagesServes DEF Manages
  <2>2. CASE \E p \in Process : Manages(p)
    BY <2>1, <2>2, ManagesServes
  <2>3. CASE \E r \in Run : OrphanEnds(r)
    <3>1. /\ \A r \in Run : worker[r] \in {"live", "stopping"} => worker'[r] \in {"live", "stopping"}
          /\ UNCHANGED <<pending, locks, job, foreign, limit, policy>>
      BY <2>0, <2>3 DEF OrphanEnds, TypeOK, runs, outside, settings
    <3>2. Startable' \subseteq Startable
      BY <2>0, <3>1, NoRoomMade
    <3> QED BY <2>1, <3>2
  <2>4. CASE \E w \in Workspace : ForeignWriter(w)
    <3>1. UNCHANGED <<pending, worker, locks, job, limit, policy>> /\ foreign \subseteq foreign'
      BY <2>4 DEF ForeignWriter, runs, queue, settings
    <3>2. Startable' \subseteq Startable
      BY <2>0, <3>1, NoRoomMade
    <3> QED BY <2>1, <3>2
  <2> QED BY <2>1, <2>2, <2>3, <2>4 DEF Next
<1> QED BY <1>1, InitIInv, StepIInv, PTL DEF Spec, QueueServed
-----------------------------------------------------------------------------
(* Every run is attended to *)

\* Every run its owner launched and has not finished waits in the queue, is being
\* stopped, or works under a time limit that will stop it, unless its stop was
\* rejected.
Attended ==
    \A p \in Process, r \in Run :
        by[r] = p /\ Owns(p) /\ disk[r].status \notin Terminal =>
            \/ r \in pending
            \/ worker[r] = "stopping"
            \/ worker[r] = "live" /\ (r \in timers \/ failures > 0)

\* A worker nobody stops has its timer, unless a stop was rejected.
Timed == \A r \in Run : worker[r] = "live" => r \in timers \/ failures > 0

\* What the pump starts has its timer, and the timers of the others stay.
TimedFrom(a, b) ==
    /\ b \in State /\ a.timers \subseteq b.timers
    /\ \A r \in Run : b.worker[r] = a.worker[r] \/ r \in b.timers

LEMMA TimedTurn ==
  ASSUME NEW a, NEW s, NEW most, NEW setting, NEW n \in Run, TimedFrom(a, s)
  PROVE  TimedFrom(a, Considered(s, n, most, setting))
<1> DEFINE b == Starts(s, n, setting)
<1>0. s \in State
  BY DEF TimedFrom
<1>1. /\ b \in State
      /\ b.pending = s.pending \ {n}
      /\ b.worker = [s.worker EXCEPT ![n] = "live"]
      /\ b.known[n] = [status |-> "starting", session |-> s.known[n].session]
      /\ \A o \in Run \ {n} : b.known[o] = s.known[o] /\ (o \in b.locks <=> o \in s.locks)
  BY <1>0, StartsIs
<1>2. b = Starts(s, n, setting)
  OBVIOUS
<1> HIDE DEF b
<1>3. b.timers = s.timers \cup {n}
  BY <1>0, <1>2, StartsAdds
<1>4. s.worker \in [Run -> WorkerState]
  BY <1>0 DEF State
<1>5. TimedFrom(a, b)
  BY <1>1, <1>3, <1>4 DEF TimedFrom
<1> QED BY <1>2, <1>5 DEF Considered

LEMMA PumpedTimed ==
  ASSUME NEW a \in State, NEW most, NEW setting
  PROVE  TimedFrom(a, Pumped(a, most, setting))
<1>0. MaxRuns \in Nat
  BY SubagentsAssumption
<1>1. PICK f : /\ f[0] = a
               /\ \A n \in 1..MaxRuns : f[n] = Considered(f[n - 1], n, most, setting)
               /\ Pumped(a, most, setting) = f[MaxRuns]
  BY PumpIs
<1>2. TimedFrom(a, a)
  BY DEF TimedFrom
<1> DEFINE B == {n \in 0..MaxRuns : ~TimedFrom(a, f[n])}
<1>3. ASSUME B # {} PROVE FALSE
  <2>1. PICK n \in B : \A m \in B : n <= m
    <3> HIDE DEF B
    <3>1. B \in SUBSET (0..MaxRuns)
      BY DEF B
    <3> QED BY <1>0, <1>3, <3>1, LeastOf DEF Least
  <2>2. n # 0
    BY <1>1, <1>2, <2>1
  <2>3. n \in 1..MaxRuns /\ n - 1 \in 0..MaxRuns /\ ~(n <= n - 1)
    BY <1>0, <2>1, <2>2
  <2>4. TimedFrom(a, f[n - 1])
    BY <2>1, <2>3
  <2>5. TimedFrom(a, f[n])
    BY <1>1, <2>3, <2>4, TimedTurn DEF Run
  <2> QED BY <2>1, <2>5
<1> QED BY <1>0, <1>1, <1>3

LEMMA BecomesTimed ==
  ASSUME NEW p, NEW a \in State, NEW saved, NEW most, NEW setting, Becomes(p, a, saved, most, setting)
  PROVE  a.timers \subseteq timers' /\ \A r \in Run : worker'[r] = a.worker[r] \/ r \in timers'
<1> DEFINE b == IF phase[p] = "open" THEN Pumped(a, most, setting) ELSE a
<1>1. worker' = b.worker /\ timers' = b.timers
  BY DEF Becomes
<1>2. TimedFrom(a, a)
  BY DEF TimedFrom
<1>3. TimedFrom(a, b)
  BY <1>2, PumpedTimed
<1> HIDE DEF b
<1> QED BY <1>1, <1>3 DEF TimedFrom

\* A method that ends with the pump keeps the timers if its own changes do.
LEMMA BecomesKeepsTimed ==
  ASSUME NEW p, NEW a \in State, NEW saved, NEW most, NEW setting, Becomes(p, a, saved, most, setting),
         \A r \in Run : a.worker[r] = "live" => r \in a.timers \/ failures > 0, failures' = failures
  PROVE  Timed'
BY BecomesTimed DEF Timed

LEMMA StopsTimed ==
  ASSUME IInv, Timed, NEW p \in Process, owner = p, NEW ids \in SUBSET Unfinished(p),
         NEW status \in {"cancelled", "failed"}, NEW armed \in SUBSET Run, Stops(p, ids, status, armed),
         \A r \in Run : worker[r] = "live" /\ r \notin ids /\ r \in timers => r \in armed,
         failures' = failures
  PROVE  Timed'
<1>0. ids \subseteq Run
  BY DEF Unfinished
<1>1. PICK a \in State : StoppedState(p, ids, armed, a)
  BY StopsState
<1>2. \A r \in ids : worker[r] = "live" => Mapped(p, r)
  BY <1>0 DEF IInv, Fact, Working, Mapped
<1>3. \A r \in Run : a.worker[r] = IF r \in ids /\ Mapped(p, r) THEN "stopping" ELSE worker[r]
  BY <1>1 DEF StoppedState, Stopping
<1>4. \A r \in Run : a.worker[r] = "live" => r \in a.timers \/ failures > 0
  BY <1>1, <1>2, <1>3 DEF StoppedState, Timed
<1> DEFINE saved == ids \ {o \in ids : Mapped(p, o)}
           most == IF ids \subseteq {o \in ids : Mapped(p, o)} THEN 0 ELSE limit
<1>5. Becomes(p, a, saved, most, policy)
  BY <1>1 DEF StoppedState
<1> HIDE DEF saved, most
<1> QED BY <1>4, <1>5, BecomesKeepsTimed

LEMMA ManagesTimed ==
  ASSUME IInv, Timed, NEW p \in Process, Manages(p)
  PROVE  Timed'
<1>0. TypeOK
  BY DEF IInv
<1>1. CASE UNCHANGED <<worker, timers, failures>>
  BY <1>1 DEF Timed
<1>2. CASE AcquireOwner(p)
  <2>1. PICK a \in State : /\ Becomes(p, a, Unfinished(p), limit, policy)
                           /\ a.worker = worker /\ a.timers = timers
    BY <1>0, <1>2, AcquireState
  <2>2. failures' = failures
    BY <1>2 DEF AcquireOwner
  <2> QED BY <2>1, <2>2, BecomesKeepsTimed DEF Timed
<1>3. ASSUME NEW most, NEW setting, Becomes(p, Here(p), {}, most, setting), failures' = failures
      PROVE  Timed'
  <2> DEFINE h == Here(p)
  <2>1. h \in State /\ h.worker = worker /\ h.timers = timers
    BY <1>0, HereState
  <2>2. Becomes(p, h, {}, most, setting)
    BY <1>3
  <2> HIDE DEF h
  <2> QED BY <1>3, <2>1, <2>2, BecomesKeepsTimed DEF Timed
<1>4. ASSUME NEW new \in Run, NEW session \in Run \cup {None}, Queue(p, new, session),
             failures' = failures
      PROVE  Timed'
  <2>1. PICK a \in State : /\ Becomes(p, a, {new}, limit, policy)
                           /\ a.worker = worker /\ a.timers = timers
    BY <1>0, <1>4, QueueState
  <2> QED BY <1>4, <2>1, BecomesKeepsTimed DEF Timed
<1>5. ASSUME NEW gone \in Run, NEW clean \in BOOLEAN, Exited(p, gone, clean) PROVE Timed'
  <2>1. PICK a \in State : /\ Becomes(p, a, {gone}, limit, policy)
                           /\ a.pending = pending /\ a.worker = [worker EXCEPT ![gone] = "none"]
                           /\ a.timers = timers \ {gone}
    BY <1>0, <1>5, ExitedState
  <2>2. \A r \in Run : a.worker[r] = "live" => r # gone /\ worker[r] = "live"
    BY <1>0, <2>1 DEF TypeOK
  <2>3. failures' = failures
    BY <1>5 DEF Exited
  <2> QED BY <2>1, <2>2, <2>3, BecomesKeepsTimed DEF Timed
<1>6. CASE StopAll(p)
  <2>1. owner = p /\ timers \in SUBSET Run /\ Stops(p, Unfinished(p), "cancelled", timers)
    BY <1>0, <1>6 DEF StopAll, Owns, TypeOK
  <2>2. failures' = failures
    BY <1>6 DEF StopAll
  <2> QED BY <2>1, <2>2, StopsTimed
<1>7. ASSUME NEW r \in Run, Stop(p, r) PROVE Timed'
  <2>1. {r} \in SUBSET Unfinished(p)
    BY <1>7 DEF Stop, Unfinished
  <2> QED BY <1>0, <1>7, <2>1, StopsTimed DEF Stop, Owns, TypeOK
<1>8. ASSUME NEW r \in Run, TimesOut(p, r) PROVE Timed'
  <2> DEFINE ids == IF memory[p][r].status \in Active THEN {r} ELSE {}
  <2>1. ids \in SUBSET Unfinished(p)
    BY DEF Unfinished
  <2>2. owner = p
    BY <1>8 DEF TimesOut, Mapped, IInv, Fact, Working
  <2>3. timers \ {r} \in SUBSET Run
    BY <1>0 DEF TypeOK
  <2>4. Stops(p, ids, "failed", timers \ {r}) /\ failures' = failures
    BY <1>8 DEF TimesOut
  <2>5. worker[r] = "live" => r \in ids
    BY <2>2 DEF IInv, Fact
  <2>6. \A o \in Run : worker[o] = "live" /\ o \notin ids /\ o \in timers => o \in timers \ {r}
    BY <2>5
  <2> HIDE DEF ids
  <2> QED BY <2>1, <2>2, <2>3, <2>4, <2>6, StopsTimed
<1>9. ASSUME NEW r \in Run, StopFails(p, r) PROVE Timed'
  BY <1>0, <1>9, SubagentsAssumption DEF StopFails, TypeOK, Timed
<1>10. CASE Dispose(p)
  BY <1>0, <1>10 DEF Dispose, TypeOK, Timed
<1>11. CASE Crash(p)
  <2>1. \A r \in Run : worker'[r] = "live" => worker[r] = "live" /\ ~Mapped(p, r)
    BY <1>0, <1>11 DEF Crash, TypeOK
  <2>2. \A r \in Run : worker'[r] = "live" /\ r \in timers => r \in timers'
    BY <1>11, <2>1 DEF Crash, Mapped
  <2>3. failures' = failures
    BY <1>11 DEF Crash
  <2> QED BY <2>1, <2>2, <2>3 DEF Timed
<1>12. ASSUME NEW r \in Run, NEW previous \in Run, Resume(p, previous, r) PROVE Timed'
  <2>1. memory[p][previous].session \in Run \cup {None}
    BY <1>0, KnownTypes DEF Record
  <2> QED BY <1>4, <1>12, <2>1 DEF Resume
<1>13. ASSUME NEW r \in Run, Launch(p, r) PROVE Timed'
  BY <1>4, <1>13 DEF Launch
<1>14. Open(p) \/ Disposed(p) \/ (\E r \in Run : Ready(p, r) \/ Result(p, r)) =>
         UNCHANGED <<worker, timers, failures>>
  BY DEF Open, Disposed, Ready, Result, queue
<1>15. Tick(p) => Timed'
  BY <1>3 DEF Tick
<1>16. \A most \in Limits : SetConcurrency(p, most) => Timed'
  BY <1>3 DEF SetConcurrency
<1>17. \A setting \in Policies : SetWorkspaceWriters(p, setting) => Timed'
  BY <1>3 DEF SetWorkspaceWriters
<1> QED BY <1>1, <1>2, <1>5, <1>6, <1>7, <1>8, <1>9, <1>10, <1>11, <1>12, <1>13, <1>14, <1>15,
           <1>16, <1>17 DEF Manages

LEMMA StepTimed == IInv /\ Timed /\ [Next]_vars => Timed'
<1> SUFFICES ASSUME IInv, Timed, [Next]_vars PROVE Timed'
  OBVIOUS
<1>1. CASE UNCHANGED <<worker, timers, failures>>
  BY <1>1 DEF Timed
<1>2. ASSUME NEW r \in Run, OrphanEnds(r) PROVE Timed'
  BY <1>2 DEF OrphanEnds, IInv, TypeOK, Timed
<1>3. UNCHANGED vars \/ (\E w \in Workspace : ForeignWriter(w) \/ ForeignWriterEnds(w)) =>
        UNCHANGED <<worker, timers, failures>>
  BY DEF vars, queue, ForeignWriter, ForeignWriterEnds
<1> QED BY <1>1, <1>2, <1>3, ManagesTimed DEF Next

\* No run is forgotten: while its owner is there, each has something under way that
\* can end it (pump, arm, exited, ensureStopped).
THEOREM EveryRunAttended == Spec => []Attended
<1>1. Init => Timed
  BY DEF Init, Timed
<1>2. IInv /\ Timed => Attended
  <2> SUFFICES ASSUME IInv, Timed, NEW p \in Process, NEW r \in Run, by[r] = p, Owns(p),
                      disk[r].status \notin Terminal
               PROVE  \/ r \in pending
                      \/ worker[r] = "stopping"
                      \/ worker[r] = "live" /\ (r \in timers \/ failures > 0)
    BY DEF Attended
  <2>1. p # None /\ owner = p
    BY SubagentsAssumption DEF Owns
  <2>2. disk[r].status \in Active \cup Terminal \cup {"none"}
    BY DEF IInv, TypeOK, Record
  <2>3. Saved(r)
    BY <2>1, <2>2 DEF IInv, Fact, Saved
  <2> QED BY <2>1, <2>3 DEF IInv, Fact, Working, Timed
<1> QED BY <1>1, <1>2, InitIInv, StepIInv, StepTimed, PTL DEF Spec
=============================================================================
