--------------------------- MODULE MCNativeRequests ---------------------------
(* One input of the user, the request held for it and its retry.  The store  *)
(* with more of everything is in MCFlowStores.                               *)
EXTENDS NativeRequests

\* Nothing is released, compacted or archived on the way.
MCNext ==
    /\ Next
    /\ \A s \in Source : place'[s] \in {"new", "context"} /\ s \notin archived'
    /\ \A r \in Retained(records') : ~records'[r].reset
MCSpec == Init /\ [][MCNext]_vars
=============================================================================
