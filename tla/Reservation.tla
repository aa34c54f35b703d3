----------------------------- MODULE Reservation -----------------------------
(***************************************************************************)
(* What the receipt ledger promises about turns, however it records them:  *)
(* one turn at a time holds the session; a turn that was handed to the     *)
(* provider is never silently dropped, it is done, or its outcome stays    *)
(* unknown until the user decides.  ReceiptLedger implements this module.  *)
(***************************************************************************)
CONSTANTS Turn, Nobody

VARIABLES holder, fate

vars == <<holder, fate>>

Fates == {"free", "held", "sent", "unknown", "done", "dropped", "forgotten"}

Init ==
    /\ holder = Nobody
    /\ fate = [t \in Turn |-> "free"]

Reserve(t) ==
    /\ holder = Nobody /\ fate[t] = "free"
    /\ holder' = t
    /\ fate' = [fate EXCEPT ![t] = "held"]

Send(t) ==
    /\ holder = t /\ fate[t] = "held"
    /\ fate' = [fate EXCEPT ![t] = "sent"]
    /\ UNCHANGED holder

\* The holder ends: unsent turns are dropped, sent ones are done or unknown.
Release(t, end) ==
    /\ holder = t
    /\ \/ fate[t] = "held" /\ end = "dropped"
       \/ fate[t] = "sent" /\ end \in {"done", "unknown"}
    /\ holder' = Nobody
    /\ fate' = [fate EXCEPT ![t] = end]

\* The user takes an unknown turn for spent, or for never delivered.
Decide(t, end) ==
    /\ holder = Nobody /\ fate[t] = "unknown"
    /\ end \in {"done", "dropped"}
    /\ fate' = [fate EXCEPT ![t] = end]
    /\ UNCHANGED holder

\* Ended turns may be forgotten, never an open or an unknown one.
Forget(turns) ==
    /\ \A t \in turns : fate[t] \in {"done", "dropped"}
    /\ fate' = [t \in Turn |-> IF t \in turns THEN "forgotten" ELSE fate[t]]
    /\ UNCHANGED holder

Wipe ==
    /\ holder' = Nobody
    /\ fate' = [t \in Turn |-> "free"]

Next ==
    \/ \E t \in Turn : Reserve(t) \/ Send(t)
    \/ \E t \in Turn, end \in Fates : Release(t, end) \/ Decide(t, end)
    \/ \E turns \in SUBSET Turn : Forget(turns)
    \/ Wipe

Spec == Init /\ [][Next]_vars

=============================================================================
