------------------------------ MODULE StateLock ------------------------------
(***************************************************************************)
(* The lock file by which processes of one user exclude each other         *)
(* (state-lock.ts).  It is created exclusively and then written; whoever   *)
(* finds it there looks at its record and its age, asks whether its owner  *)
(* lives, and removes it when it is stale.  Each of these is a call of its *)
(* own, and so are the two of a release.                                   *)
(*                                                                         *)
(* A process takes the lock at most once in its life, and a pid is not     *)
(* used again.  Locks that cannot be read, or are no files, are refused    *)
(* like those of a living owner.                                           *)
(***************************************************************************)
EXTENDS Integers, FiniteSets

CONSTANTS
    Process,    \* processes, which may exit and be started again
    MaxLives,   \* bound: starts of each
    Nil

\* What the constants must satisfy.
ASSUME LockAssumption ==
    /\ MaxLives \in Nat
    /\ Nil \notin [owner : Process \X (0..MaxLives), written : BOOLEAN, old : BOOLEAN]

VARIABLES
    life,   \* starts of each process so far
    up,     \* the processes that run
    lock,   \* the lock file, or Nil
    at,     \* where each process stands with the lock
    seen,   \* what each process read when it found the lock taken
    raced   \* history: a recovery removed another lock than the stale one it had seen

locking == <<life, up, lock, at, seen, raced>>

Life == Process \X (0..MaxLives)
\* old: the stale threshold has passed since it was created.
File == [owner : Life, written : BOOLEAN, old : BOOLEAN]
Me(p) == <<p, life[p]>>
Alive(owner) == owner[1] \in up /\ life[owner[1]] = owner[2]

Stages == {"out", "creating", "writing", "looking", "reading", "judging", "unlinking", "again",
           "held", "matching", "removing", "refused", "failed", "released"}
\* Between the creation of the lock and the end of its release.
Holders == {p \in Process : at[p] \in {"writing", "held", "matching", "removing"}}

LockTypeOK ==
    /\ life \in [Process -> 0..MaxLives]
    /\ up \subseteq Process
    /\ lock \in File \cup {Nil}
    /\ at \in [Process -> Stages]
    /\ seen \in [Process -> File \cup {Nil}]
    /\ raced \in BOOLEAN

LockInit ==
    /\ life = [p \in Process |-> 0]
    /\ up = {}
    /\ lock = Nil
    /\ at = [p \in Process |-> "out"]
    /\ seen = [p \in Process |-> Nil]
    /\ raced = FALSE

Goes(p, stage) == at' = [at EXCEPT ![p] = stage]

-----------------------------------------------------------------------------
(* acquireStateLock *)

Approach(p) ==
    /\ p \in up /\ at[p] = "out"
    /\ Goes(p, "creating")
    /\ UNCHANGED <<life, up, lock, seen, raced>>

\* Only one of two exclusive creations succeeds.
Create(p) ==
    /\ at[p] \in {"creating", "again"}
    /\ lock = Nil
    /\ lock' = [owner |-> Me(p), written |-> FALSE, old |-> FALSE]
    /\ Goes(p, "writing")
    /\ UNCHANGED <<life, up, seen, raced>>

\* The first creation that fails leads to an inspection, the second is an error.
Taken(p) ==
    /\ at[p] \in {"creating", "again"}
    /\ lock # Nil
    /\ Goes(p, IF at[p] = "creating" THEN "looking" ELSE "failed")
    /\ UNCHANGED <<life, up, lock, seen, raced>>

\* The record goes to the file that was created, if that is still the lock or not.
Sign(p) ==
    /\ at[p] = "writing"
    /\ lock' = IF lock # Nil /\ lock.owner = Me(p) THEN [lock EXCEPT !.written = TRUE] ELSE lock
    /\ Goes(p, "held")
    /\ UNCHANGED <<life, up, seen, raced>>

\* inspectStateLock asks for the time of the file...
Look(p) ==
    /\ at[p] = "looking"
    /\ seen' = [seen EXCEPT ![p] = lock]
    /\ Goes(p, IF lock = Nil THEN "again" ELSE "reading")
    /\ UNCHANGED <<life, up, lock, raced>>

\* ... reads the record of what is there by then, which has a time of its own if it
\* was written...
Read(p) ==
    /\ at[p] = "reading"
    /\ seen' = [seen EXCEPT ![p] =
                   IF lock = Nil THEN Nil
                   ELSE [lock EXCEPT !.old = IF lock.written THEN @ ELSE seen[p].old]]
    /\ Goes(p, IF lock = Nil THEN "again" ELSE "judging")
    /\ UNCHANGED <<life, up, lock, raced>>

\* Bug: age alone makes a lock stale.
StaleLock_Live(file) == file.old
\* A written lock is stale when its owner is dead, and any when it is old.
StaleLock(file) == file.old /\ (file.written => ~Alive(file.owner))

\* ... and asks for the owner.
Judge(p) ==
    /\ at[p] = "judging"
    /\ \/ StaleLock(seen[p]) /\ Goes(p, "unlinking")
       \/ ~StaleLock(seen[p]) /\ Goes(p, "refused")
    /\ UNCHANGED <<life, up, lock, seen, raced>>

\* The file at the path goes, be it the one that was inspected or not; an error
\* if there is none.
Unlink(p) ==
    /\ at[p] = "unlinking"
    /\ lock' = Nil
    /\ raced' = (raced \/ lock \notin {Nil, seen[p]})
    /\ Goes(p, IF lock = Nil THEN "failed" ELSE "again")
    /\ UNCHANGED <<life, up, seen>>

-----------------------------------------------------------------------------
(* Release, and the end of a process *)

Release(p) ==
    /\ at[p] = "held"
    /\ Goes(p, "matching")
    /\ UNCHANGED <<life, up, lock, seen, raced>>

\* releaseToken compares the token...
Match(p) ==
    /\ at[p] = "matching"
    /\ Goes(p, IF lock # Nil /\ lock.owner = Me(p) /\ lock.written
               THEN "removing" ELSE "released")
    /\ UNCHANGED <<life, up, lock, seen, raced>>

\* ... and removes the file at the path.
Remove(p) ==
    /\ at[p] = "removing"
    /\ lock' = Nil
    /\ Goes(p, "released")
    /\ UNCHANGED <<life, up, seen, raced>>

Launch(p) ==
    /\ p \notin up /\ life[p] < MaxLives
    /\ up' = up \cup {p}
    /\ life' = [life EXCEPT ![p] = @ + 1]
    /\ UNCHANGED <<lock, at, seen, raced>>

\* A process ends, or is killed with the lock in its hands.
Exit(p) ==
    /\ p \in up
    /\ up' = up \ {p}
    /\ Goes(p, "out")
    /\ seen' = [seen EXCEPT ![p] = Nil]
    /\ UNCHANGED <<life, lock, raced>>

\* The stale threshold passes.  No process sleeps that long between the two
\* calls that create and write its lock.
Age ==
    /\ lock # Nil /\ ~lock.old
    /\ lock.written \/ ~Alive(lock.owner)
    /\ lock' = [lock EXCEPT !.old = TRUE]
    /\ UNCHANGED <<life, up, at, seen, raced>>

Acquires(p) ==
    Create(p) \/ Taken(p) \/ Sign(p) \/ Look(p) \/ Read(p) \/ Judge(p) \/ Unlink(p)
Releases(p) == Match(p) \/ Remove(p)
LockNext ==
    \/ Age
    \/ \E p \in Process : Approach(p) \/ Acquires(p) \/ Release(p) \/ Releases(p) \/ Launch(p) \/ Exit(p)
LockSpec == LockInit /\ [][LockNext]_locking

-----------------------------------------------------------------------------
(* Only one process at a time holds the lock, also when locks of dead        *)
(* processes are recovered, unless one recovery has removed the lock that    *)
(* another had just taken.                                                   *)
Exclusive == ~raced => \A p, q \in Holders : p = q
=============================================================================
