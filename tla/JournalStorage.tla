--------------------------- MODULE JournalStorage ---------------------------
(***************************************************************************)
(* The journal under every flow store (journal-storage.ts,                 *)
(* journal-checkpoint.ts, scalar-storage.ts), from the acquisition of its  *)
(* branch (ownership.ts, process-lock.ts) to its release.  A journal is a  *)
(* file of one transaction per line.  Mutations run one at a time; each is *)
(* appended, and applied to memory when the append has succeeded.  A       *)
(* process may die between any two steps; the next owner replays the       *)
(* complete lines and truncates what is left of an unfinished one.         *)
(*                                                                         *)
(* Bytes reach the file in the order they are written: the loss of what    *)
(* the operating system had not yet stored is left out, as are validation  *)
(* of addresses and values and the identity of the header.                 *)
(***************************************************************************)
EXTENDS Integers, Sequences, FiniteSets

CONSTANTS
    Owner,       \* processes that open the branch
    Key,           \* addresses of values
    Transaction,   \* sequences of writes [key, value]; value Absent deletes
    MaxSequence,   \* MAX_SEQUENCE, 2^53 - 1 in the code
    MaxWaiting,    \* bound: mutations waiting in the line
    Absent

\* What the constants must satisfy.
ASSUME JournalAssumption ==
    /\ MaxSequence \in Nat \ {0}
    /\ MaxWaiting \in Nat
    /\ \A t \in Transaction :
         Len(t) \in Nat \ {0} /\ \A i \in 1..Len(t) : t[i].key \in Key
    /\ Absent \notin Owner /\ Absent \notin Transaction

VARIABLES
    holder,    \* holder of the process lock
    journal,   \* the journal: sequence floor, complete lines, unfinished tail
    phase,     \* per process: out, opening, open, closing
    step,      \* per process: where the mutation under way has got to
    line,      \* per process: mutations waiting in the mutation line
    job,       \* per process: the mutation under way
    memory,    \* per process: the values it serves
    nextSeq,   \* per process: next sequence number
    fence,     \* per process: an append failed, so no more appends
    temp,      \* per process: the checkpoint written but not yet renamed
    agreed,    \* history: values as last acknowledged or opened
    doubt,     \* history: transaction whose outcome is not settled
    issued     \* history: highest sequence number acknowledged

process == <<phase, step, line, job, memory, nextSeq, fence, temp>>
outcome == <<agreed, doubt, issued>>
journaling    == <<holder, journal, process, outcome>>

-----------------------------------------------------------------------------
(* The file *)

Store == INSTANCE AtomicStore WITH values <- agreed

Corrupt == <<>>          \* a line that is not a transaction
Empty   == [k \in Key |-> Absent]

\* Writes of a transaction with their sequence numbers.
Numbered(writes, first) ==
    [i \in 1..Len(writes) |->
       [key |-> writes[i].key, value |-> writes[i].value, seq |-> first + i - 1]]

Written(f) == UNION {{f.lines[i][j] : j \in 1..Len(f.lines[i])} : i \in 1..Len(f.lines)}

Top(f) ==
    LET seqs == {w.seq : w \in Written(f)} \cup {f.floor - 1}
    IN  CHOOSE n \in seqs : \A s \in seqs : s <= n

\* The last write of each key decides its value.
Latest(f, k) ==
    {w \in Written(f) : w.key = k /\ \A v \in Written(f) : v.key = k => v.seq <= w.seq}
Replay(f) ==
    [k \in Key |-> IF Latest(f, k) = {} THEN Absent ELSE (CHOOSE w \in Latest(f, k) : TRUE).value]

\* openJournalSession accepts the file: transactions with rising sequences.
Readable(f) ==
    /\ \A i \in 1..Len(f.lines) : f.lines[i] # Corrupt
    /\ \A i, j \in 1..Len(f.lines) :
         \A m \in 1..Len(f.lines[i]), n \in 1..Len(f.lines[j]) :
           i < j \/ (i = j /\ m < n) => f.lines[i][m].seq < f.lines[j][n].seq

\* Bug: a checkpoint brings back what was deleted.
Live_Deleted(f) ==
    {w \in Written(f) : /\ w.value # Absent
                        /\ \A v \in Written(f) : v.key = w.key /\ v.value # Absent => v.seq <= w.seq}

Live(f) == {w \in Written(f) : w.value # Absent /\ w \in Latest(f, w.key)}

\* checkpointFlowJournal: one line for each live value, in sequence order.
InOrder(S) ==
    CHOOSE s \in [1..Cardinality(S) -> S] : \A m, n \in DOMAIN s : m < n => s[m].seq < s[n].seq
OneEach(S) == [i \in 1..Cardinality(S) |-> <<InOrder(S)[i]>>]

Compacted(f) ==
    [floor |-> Top(f) + 1, lines |-> OneEach(Live(f)), tail |-> "none"]

-----------------------------------------------------------------------------
JournalInit ==
    /\ holder = Absent
    /\ journal = [floor |-> 1, lines |-> <<>>, tail |-> "none"]
    /\ phase = [p \in Owner |-> "out"]
    /\ step = [p \in Owner |-> "idle"]
    /\ line = [p \in Owner |-> <<>>]
    /\ job = [p \in Owner |-> Absent]
    /\ memory = [p \in Owner |-> Empty]
    /\ nextSeq = [p \in Owner |-> 1]
    /\ fence = [p \in Owner |-> FALSE]
    /\ temp = [p \in Owner |-> Absent]
    /\ agreed = Empty /\ doubt = Absent /\ issued = 0

Acquire(p) ==
    /\ phase[p] = "out" /\ holder = Absent
    /\ holder' = p
    /\ phase' = [phase EXCEPT ![p] = "opening"]
    /\ UNCHANGED <<journal, step, line, job, memory, nextSeq, fence, temp, outcome>>

Repaired(f) == [f EXCEPT !.tail = "none"]

\* Replay the complete lines, truncate the rest, and consider a checkpoint.
Open(p) ==
    /\ phase[p] = "opening" /\ step[p] = "idle" /\ Readable(journal)
    /\ memory' = [memory EXCEPT ![p] = Replay(journal)]
    /\ nextSeq' = [nextSeq EXCEPT ![p] = Top(journal) + 1]
    /\ journal' = Repaired(journal)
    /\ step' = [step EXCEPT ![p] = "compact"]
    /\ agreed' = Replay(journal) /\ doubt' = Absent
    /\ UNCHANGED <<holder, phase, line, job, fence, temp, issued>>

-----------------------------------------------------------------------------
(* Mutations: one at a time, through the mutation line *)

Mutate(p, t) ==
    /\ phase[p] = "open" /\ Len(line[p]) < MaxWaiting
    /\ line' = [line EXCEPT ![p] = Append(@, t)]
    /\ UNCHANGED <<holder, journal, phase, step, job, memory, nextSeq, fence, temp, outcome>>

Fits(p, t) == nextSeq[p] + Len(t) <= MaxSequence

Start(p) ==
    /\ phase[p] = "open" /\ step[p] = "idle" /\ line[p] # <<>>
    /\ ~fence[p] /\ Fits(p, Head(line[p]))
    /\ job' = [job EXCEPT ![p] = Head(line[p])]
    /\ line' = [line EXCEPT ![p] = Tail(@)]
    /\ step' = [step EXCEPT ![p] = "compact"]
    /\ doubt' = Head(line[p])
    /\ UNCHANGED <<holder, journal, phase, memory, nextSeq, fence, temp, agreed, issued>>

\* Refused: the journal is fenced, or its sequence numbers are used up.
Reject(p) ==
    /\ phase[p] = "open" /\ step[p] = "idle" /\ line[p] # <<>>
    /\ fence[p] \/ ~Fits(p, Head(line[p]))
    /\ line' = [line EXCEPT ![p] = Tail(@)]
    /\ UNCHANGED <<holder, journal, phase, step, job, memory, nextSeq, fence, temp, outcome>>

\* After the checkpoint: a session that opens is ready, a commit goes on.
Proceed(p) ==
    /\ phase' = [phase EXCEPT ![p] = IF @ = "opening" THEN "open" ELSE @]
    /\ step' = [step EXCEPT ![p] = IF phase[p] = "opening" THEN "idle" ELSE "append"]

\* The file is below its threshold, which grows with what is live in it.
Skip(p) ==
    /\ step[p] = "compact"
    /\ Proceed(p)
    /\ UNCHANGED <<holder, journal, line, job, memory, nextSeq, fence, temp, outcome>>

Compact(p) ==
    /\ step[p] = "compact"
    /\ temp' = [temp EXCEPT ![p] = Compacted(journal)]
    /\ step' = [step EXCEPT ![p] = "rename"]
    /\ UNCHANGED <<holder, journal, phase, line, job, memory, nextSeq, fence, outcome>>

Rename(p) ==
    /\ step[p] = "rename"
    /\ journal' = temp[p]
    /\ temp' = [temp EXCEPT ![p] = Absent]
    /\ Proceed(p)
    /\ UNCHANGED <<holder, line, job, memory, nextSeq, fence, outcome>>

Leave(p) ==
    /\ holder' = IF holder = p THEN Absent ELSE holder
    /\ phase' = [phase EXCEPT ![p] = "out"]
    /\ step' = [step EXCEPT ![p] = "idle"]
    /\ line' = [line EXCEPT ![p] = <<>>]
    /\ job' = [job EXCEPT ![p] = Absent]
    /\ memory' = [memory EXCEPT ![p] = Empty]
    /\ nextSeq' = [nextSeq EXCEPT ![p] = 1]
    /\ fence' = [fence EXCEPT ![p] = FALSE]
    /\ temp' = [temp EXCEPT ![p] = Absent]

\* A checkpoint that fails changes nothing: the commit is refused, or the
\* session does not open and the branch is released.
CompactFails(p) ==
    /\ step[p] \in {"compact", "rename"}
    /\ IF phase[p] = "opening"
       THEN Leave(p) /\ UNCHANGED outcome
       ELSE /\ step' = [step EXCEPT ![p] = "idle"]
            /\ job' = [job EXCEPT ![p] = Absent]
            /\ temp' = [temp EXCEPT ![p] = Absent]
            /\ doubt' = Absent
            /\ UNCHANGED <<holder, phase, line, memory, nextSeq, fence, agreed, issued>>
    /\ UNCHANGED journal

-----------------------------------------------------------------------------
(* The append *)

\* Some bytes of the transaction are in the file.
Write(p) ==
    /\ step[p] = "append"
    /\ journal' = [journal EXCEPT !.tail = IF @ = "none" THEN "partial" ELSE "spoiled"]
    /\ step' = [step EXCEPT ![p] = "partial"]
    /\ UNCHANGED <<holder, phase, line, job, memory, nextSeq, fence, temp, outcome>>

\* All of them are: a line, unless they followed the rest of another one.
Finish(p) ==
    /\ step[p] = "partial"
    /\ journal' = [journal EXCEPT !.tail = "none",
                                  !.lines = Append(@, IF journal.tail = "partial"
                                                      THEN Numbered(job[p], nextSeq[p])
                                                      ELSE Corrupt)]
    /\ step' = [step EXCEPT ![p] = "written"]
    /\ UNCHANGED <<holder, phase, line, job, memory, nextSeq, fence, temp, outcome>>

Acknowledge(p) ==
    /\ step[p] = "written"
    /\ memory' = [memory EXCEPT ![p] = Store!Apply(job[p], @)]
    /\ nextSeq' = [nextSeq EXCEPT ![p] = @ + Len(job[p])]
    /\ step' = [step EXCEPT ![p] = "idle"]
    /\ job' = [job EXCEPT ![p] = Absent]
    /\ agreed' = memory'[p] /\ doubt' = Absent /\ issued' = nextSeq[p] + Len(job[p]) - 1
    /\ UNCHANGED <<holder, journal, phase, line, fence, temp>>

\* Bug: later commits append after a failed one.
AppendFails_Unfenced(p) ==
    /\ step[p] \in {"append", "partial", "written"}
    /\ step' = [step EXCEPT ![p] = "idle"]
    /\ job' = [job EXCEPT ![p] = Absent]
    /\ UNCHANGED <<holder, journal, phase, line, memory, nextSeq, fence, temp, outcome>>

\* The append reports an error after none, some or all of the bytes: only the
\* file can tell, so nothing more is appended until it is opened again.
AppendFails(p) ==
    /\ step[p] \in {"append", "partial", "written"}
    /\ fence' = [fence EXCEPT ![p] = TRUE]
    /\ step' = [step EXCEPT ![p] = "idle"]
    /\ job' = [job EXCEPT ![p] = Absent]
    /\ UNCHANGED <<holder, journal, phase, line, memory, nextSeq, temp, outcome>>

-----------------------------------------------------------------------------
(* Closing and dying *)

\* Mutations that still wait are refused; the one under way is joined.
Close(p) ==
    /\ phase[p] = "open"
    /\ phase' = [phase EXCEPT ![p] = "closing"]
    /\ line' = [line EXCEPT ![p] = <<>>]
    /\ UNCHANGED <<holder, journal, step, job, memory, nextSeq, fence, temp, outcome>>

\* Bug: the lock is released while a commit is under way.
Relinquish_Early(p) ==
    /\ phase[p] = "closing"
    /\ holder' = Absent
    /\ phase' = [phase EXCEPT ![p] = IF step[p] = "idle" THEN "out" ELSE @]
    /\ UNCHANGED <<journal, step, line, job, memory, nextSeq, fence, temp, outcome>>

Relinquish(p) ==
    /\ phase[p] = "closing" /\ step[p] = "idle"
    /\ Leave(p)
    /\ UNCHANGED <<journal, outcome>>

\* The process dies; the operating system releases its lock.
Crash(p) ==
    /\ phase[p] # "out"
    /\ Leave(p)
    /\ UNCHANGED <<journal, outcome>>

Steps(p) ==
    \/ Acquire(p) \/ Open(p)
    \/ \E t \in Transaction : Mutate(p, t)
    \/ Start(p) \/ Reject(p)
    \/ Skip(p) \/ Compact(p) \/ Rename(p) \/ CompactFails(p)
    \/ Write(p) \/ Finish(p) \/ Acknowledge(p) \/ AppendFails(p)
    \/ Close(p) \/ Relinquish(p) \/ Crash(p)

JournalNext == \E p \in Owner : Steps(p)

JournalSpec == JournalInit /\ [][JournalNext]_journaling

-----------------------------------------------------------------------------
(* Properties *)

\* The journal's variables keep their types.
JournalTypeOK ==
    /\ holder \in Owner \cup {Absent}
    /\ journal.floor \in 1..MaxSequence /\ journal.tail \in {"none", "partial", "spoiled"}
    /\ phase \in [Owner -> {"out", "opening", "open", "closing"}]
    /\ step \in [Owner -> {"idle", "compact", "rename", "append", "partial", "written"}]
    /\ \A p \in Owner : Len(line[p]) <= MaxWaiting
    /\ job \in [Owner -> Transaction \cup {Absent}]
    /\ nextSeq \in [Owner -> 1..MaxSequence]
    /\ fence \in [Owner -> BOOLEAN]

\* A sequence number that was acknowledged is never given again, also when its
\* write was deleted and a checkpoint left no trace of it.
FreshSequences ==
    /\ issued <= Top(journal)
    /\ \A p \in Owner : phase[p] = "open" => issued < nextSeq[p]

\* Whatever was being appended or compacted when a process died, an append
\* failed or the owner changed, a journal that has its header can be opened and
\* written: no line is spoiled and no sequence is repeated, in the file or ever
\* (FreshSequences).
Openable == JournalTypeOK /\ Readable(journal) /\ FreshSequences

\* An owner reads what was acknowledged and nothing else: a transaction in
\* doubt is not served before the journal is opened again.
ReadsSettled == \A p \in Owner : phase[p] \in {"open", "closing"} => memory[p] = agreed

\* The stores see an atomic map: acknowledged transactions survive crashes,
\* failed appends, checkpoints and changes of owner, and those in doubt are
\* applied or dropped as a whole.
AtomicStoreSpec == Store!Spec

=============================================================================
