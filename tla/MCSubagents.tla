---------------------------- MODULE MCSubagents ----------------------------
(* Small instances of the child agents of a session. *)
EXTENDS Subagents, TLC

VARIABLE scope   \* what this behaviour is about; fixed from the start

Processes == Permutations(Process)

(***************************************************************************)
(* One run at a time with writers of other sessions; or two at a time,     *)
(* where the limit may change and no other session writes.                 *)
(***************************************************************************)
InScope ==
    CASE scope = "one" -> limit = 1
      [] scope = "two" -> writers = 0
MCInit == Init /\ scope \in {"one", "two"} /\ InScope
MCNext == UNCHANGED scope /\ Next /\ InScope'
MCSpec == MCInit /\ [][MCNext]_<<vars, scope>> /\ Fairness
=============================================================================
