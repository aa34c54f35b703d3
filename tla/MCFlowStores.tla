---------------------------- MODULE MCFlowStores ----------------------------
(* Small instances of two stores of a branch: the receipts of its requests   *)
(* and its waits.                                                            *)
EXTENDS NativeRequests, WaitStore, TLC

CONSTANTS s1, c, u, x, y

VARIABLE scope   \* what this behaviour is about; fixed from the start

\* The tokens of waits are interchangeable.
Tokens == Permutations(Token)

\* Beside the automatic work there is that of a campaign of a producer, and one
\* for input of the user.
OneCampaign == [w \in Work |-> IF w = c THEN "campaign" ELSE Nil]

Used == {s \in Source : place[s] # "new"}
\* Captures with a projection, of the requests and of the turn.
Projected(capture) == capture # None /\ capture.projection # "none"
Projections ==
    Cardinality({r \in Retained(records) : Projected(records[r].capture)})
      + (IF Projected(turn.capture) THEN 1 ELSE 0)
Releases == Cardinality({r \in Retained(records) : records[r].reset})

(***************************************************************************)
(* All features at once are far too many states.  Three requests over one  *)
(* input give retries of retries; the releases and cancellations of        *)
(* "decisions" and the compactions and retirements of "history" are kept   *)
(* apart; "inputs" has two inputs, of which a request can show, lose and   *)
(* cancel either.  Restarts, projections and two inputs come with two      *)
(* requests.  Of waits, "dependencies" has those of the automatic work on  *)
(* two executions, and "works" those of two works on one execution and an  *)
(* instant more; after a reset the store is as at first, and nothing much  *)
(* follows.  The two stores share nothing.                                 *)
(***************************************************************************)
InScope ==
    CASE scope = "decisions" ->
            /\ Used \subseteq {s1} /\ Projections <= 1 /\ Releases <= 1
            /\ owner > 1 \/ Projections > 0 => begun <= 2
            /\ \A s \in Used : place[s] # "compacted" /\ s \notin archived
      [] scope = "history" ->
            /\ Used \subseteq {s1} /\ owner = 1
            /\ Projections = 0 /\ Releases <= 1 /\ turn.pc # "failed"
      [] scope = "inputs" ->
            /\ begun <= 2 /\ owner = 1
            /\ Projections = 0
            /\ \A s \in Used : place[s] # "compacted" /\ s \notin archived
      [] scope = "dependencies" ->
            /\ work[c] = "none" /\ work[u] = "none"
            /\ work[Automatic] = "active" /\ resets = 0
            /\ \A t \in Token : waits[t] # Nil => waits[t].expires < MaxTime
      [] scope = "works" ->
            /\ \A e \in Execution : execution[e] # Nil =>
                  e = x /\ execution[e].state # "failed"
            /\ work[Automatic] # "paused"
            /\ Cardinality({w \in {c, u} : Registered(w) \/ w \in retired.work}) <= 1
            /\ resets > 0 => work[c] = "none" /\ work[u] = "none" /\ Range(execution) = {Nil}

MCInit ==
    /\ Init /\ WaitInit
    /\ scope \in {"decisions", "history", "inputs", "dependencies", "works"}
MCNext ==
    /\ UNCHANGED scope
    /\ \/ scope \in {"decisions", "history", "inputs"} /\ Next /\ UNCHANGED waiting
       \/ scope \in {"dependencies", "works"} /\ WaitNext /\ UNCHANGED vars
    /\ InScope'
MCSpec == MCInit /\ [][MCNext]_<<vars, waiting, scope>>
=============================================================================
