------------------------------- MODULE Purge -------------------------------
(***************************************************************************)
(* What an oracle's answer promises about a request queue, seen as a set:  *)
(* the answered request and the expired ones leave it one by one, all of   *)
(* them in the end, and no other request is touched.                       *)
(***************************************************************************)
CONSTANT Requests

VARIABLES
    pending,    \* the requests in the queue
    leaving     \* the answered one and the expired ones

vars == <<pending, leaving>>

Init == pending \subseteq Requests /\ leaving \subseteq Requests

Drop(r) ==
    /\ r \in pending \intersect leaving
    /\ pending' = pending \ {r}
    /\ UNCHANGED leaving

Next == \E r \in Requests : Drop(r)

Spec == Init /\ [][Next]_vars /\ WF_vars(Next)
=============================================================================
