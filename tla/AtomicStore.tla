---------------------------- MODULE AtomicStore ----------------------------
(***************************************************************************)
(* What the flow journal promises its stores: a map that changes by whole  *)
(* transactions, one at a time.  A transaction whose outcome the caller    *)
(* did not learn (a failed append, a crash) stays in doubt until it is     *)
(* either applied as a whole or dropped as a whole, and nothing that was   *)
(* applied is ever undone.                                                 *)
(***************************************************************************)
EXTENDS Integers, Sequences

CONSTANTS
    Key,
    Transaction,      \* sequences of writes [key, value]; no value deletes
    Absent

VARIABLES
    values,           \* what is stored under each key
    doubt             \* the transaction under way or in doubt, or Absent

Apply(writes, map) ==
    [k \in Key |->
       LET mine == {i \in 1..Len(writes) : writes[i].key = k}
       IN  IF mine = {} THEN map[k]
           ELSE writes[CHOOSE i \in mine : \A j \in mine : j <= i].value]

Init == values = [k \in Key |-> Absent] /\ doubt = Absent

Try ==
    /\ doubt = Absent
    /\ doubt' \in Transaction
    /\ UNCHANGED values

Resolve ==
    /\ doubt # Absent
    /\ doubt' = Absent
    /\ values' \in {values, Apply(doubt, values)}

Spec == Init /\ [][Try \/ Resolve]_<<values, doubt>>

=============================================================================
