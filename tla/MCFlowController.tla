--------------------------- MODULE MCFlowController ---------------------------
(* Small instances of the flow controller. *)
EXTENDS FlowController

CONSTANTS p, q

VARIABLE scope   \* what this behaviour is about; fixed from the start

\* Each intent comes once.
Once == [x \in Producer |-> 1]

\* One producer whose intent is taken, replaced and taken again; the other's
\* intent comes once and may join the first one's turn.
OnceReplaced == [x \in Producer |-> IF x = p THEN 2 ELSE 1]

(***************************************************************************)
(* A turn of the user against intents that come once; or an intent that is *)
(* replaced while no user speaks.  Neither the user nor a producer is under*)
(* fairness, so the restriction takes nothing from it.                     *)
(***************************************************************************)
InScope ==
    CASE scope = "user"     -> \A x \in Producer : offer[x].revision = 1
      [] scope = "replaced" -> ~userPending
MCInit == Init /\ scope \in {"user", "replaced"}
MCNext == UNCHANGED scope /\ Next /\ InScope'
MCSpec == MCInit /\ [][MCNext]_<<vars, scope>> /\ Fairness
=============================================================================
