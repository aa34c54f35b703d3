---------------------------- MODULE MCSubmissions ----------------------------
(* Small instances of a branch's journal, of a session that keeps what it    *)
(* has accepted in one, and of the package that sessions run from.           *)
EXTENDS SessionIngress, JournalStorage, SelfUpdate, TLC

CONSTANTS
    typed, adapter, first, second, firstAgain, secondAgain,
    x, y, j, k, a, b

VARIABLE scope   \* what this behaviour is about; fixed from the start

Set(key, value) == [key |-> key, value |-> value]

\* One write, two writes, a write twice and a deletion.
MCTransaction ==
    {<<Set(j, a), Set(k, a)>>, <<Set(k, Absent)>>, <<Set(j, b), Set(j, Absent)>>}

Processes == Permutations(Process)

MCNextIssue == first :> firstAgain @@ second :> secondAgain

(***************************************************************************)
(* "journal" is the journal alone, with two processes.  "releases" and     *)
(* "locks" are two processes that may update their package: with policies, *)
(* checks, new releases and failing installs, each process started once;   *)
(* and with two lives of each that only apply one release, to the end of   *)
(* what may happen around the lock.  The others are sessions, each with    *)
(* two messages and the part of the behaviour that is about them: two      *)
(* continuations over a crash, whose native calls may also fail once their *)
(* input was taken; flow control turned off with a typed send and a        *)
(* continuation, and with an adapter's send, while no request is withheld; *)
(* an adapter's send over a reload; and the sends of two users over a      *)
(* crash.                                                                  *)
(***************************************************************************)
Sessions == {"replay", "off", "withdrawn", "adapter", "users"}
Sends == CASE scope = "replay"    -> {first, second, firstAgain, secondAgain}
           [] scope = "off"       -> {typed, first, firstAgain}
           [] scope = "withdrawn" -> {adapter, first, firstAgain}
           [] scope = "adapter"   -> {adapter, first, firstAgain}
           [] scope = "users"     -> {adapter, typed}

InScope ==
    /\ \A id \in Id \ Sends : records[id] = None
    /\ scope \notin {"off", "withdrawn"} => mode = "on"
    /\ scope \in {"off", "withdrawn"} => blocked # "held"
    /\ scope = "off" => paused # "aborted"
    /\ scope # "adapter" => ending = {}
    /\ scope \in {"adapter", "withdrawn"} => restarts = 0
    /\ scope # "replay" => \A id \in Existing :
          records[id].phase = "failed" => records[id].input = "none"

\* A process ends only with the package open; one at most is there for its policy
\* or for a check.  In "locks" every failure is one of a process that has the lock.
UpdateInScope ==
    IF scope = "releases"
    THEN /\ \A p \in Process : life[p] <= 1
         /\ {p \in Process : life[p] > 0 /\ p \notin up} # {} => damaged
         /\ file.due => file.result = "never"
         /\ lock # Nil => ~lock.old
         /\ \A p, q \in up : {command[p], command[q]} \subseteq {"policy", "check"} => p = q
    ELSE /\ \A p \in up : command[p] = "apply" /\ stage[p] # "reverting"
         /\ \A p \in up : stage[p] = "failed" => Holding(p)
         /\ file.due => file.latest = 0
         /\ ~damaged /\ registry = MaxVersion

MCInit ==
    /\ Init /\ JournalInit /\ UpdateInit
    /\ \/ scope = "releases"
       \/ scope \in {"journal", "locks"} \cup Sessions /\ registry = MaxVersion
MCNext ==
    /\ UNCHANGED scope
    /\ \/ scope \in Sessions /\ Next /\ InScope' /\ UNCHANGED <<journaling, updates>>
       \/ scope = "journal" /\ JournalNext /\ UNCHANGED <<vars, updates>>
       \/ /\ scope \in {"releases", "locks"}
          /\ UpdateNext /\ UpdateInScope' /\ registry' >= registry
          /\ UNCHANGED <<vars, journaling>>
MCSpec == MCInit /\ [][MCNext]_<<vars, journaling, updates, scope>>
=============================================================================
