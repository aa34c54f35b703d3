----------------------------- MODULE MCWaitEvidence -----------------------------
(* Small instances of what brings a wait to its end: the two scanners and    *)
(* the subscription to a producer.                                           *)
EXTENDS WaitScans, WaitBinding

CONSTANT t1

VARIABLE scope

scans == <<clock, waits, execution, scan, probed, restarts>>
all == <<scans, bindingVars, scope>>

(***************************************************************************)
(* Three scopes, chosen at the start: the deadlines of several waits, with *)
(* the health scanner held at its first read; the health of one wait, with *)
(* the deadline scanner held at its first commit and a deadline as late as *)
(* the instance has; and the subscription.  They meet in the store only,   *)
(* so that a run of all three at once would say no more.                   *)
(***************************************************************************)
InScope ==
    IF scope = "deadlines"
    THEN /\ scan["health"].pc = "begun" /\ execution.at = 0
         /\ \A t \in Token : waits[t] # None => ~waits[t].watched
    ELSE /\ scan["deadlines"].pc = "begun"
         /\ \A t \in Token : waits[t] # None =>
               t = t1 /\ waits[t].watched /\ waits[t].expires >= MaxTime

Scanning(A) ==
    scope # "binding" /\ A /\ UNCHANGED <<bindingVars, scope>> /\ InScope'
Subscribed(A) ==
    scope = "binding" /\ A /\ UNCHANGED <<scans, scope>>

MCInit == Init /\ BindingInit /\ scope \in {"deadlines", "health", "binding"}
MCNext == Scanning(Next) \/ Subscribed(BindingNext)

\* The fairness of both modules, each for its own steps.
MCFairness ==
    /\ WF_all(Scanning(Tick)) /\ WF_all(Scanning(Deadlines)) /\ WF_all(Scanning(Checks))
    /\ WF_all(Subscribed(Restore)) /\ WF_all(Subscribed(ReadSnapshot))
    /\ WF_all(Subscribed(Merge)) /\ WF_all(Subscribed(Synchronize))
    /\ WF_all(Subscribed(Flush))
    /\ WF_all(Subscribed(ProbeAnswers)) /\ WF_all(Subscribed(ProbeGivenUp))
MCSpec == MCInit /\ [][MCNext]_all /\ MCFairness
=============================================================================
