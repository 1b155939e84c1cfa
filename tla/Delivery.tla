------------------------------- MODULE Delivery -------------------------------
(****************************************************************************)
(* What the replication stream promises its user, the routing engine: the   *)
(* changes are handed over in the order of the log except that one change   *)
(* may be overtaken, and again after a failure, from where the slot resumes;*)
(* what was not handed over then and lies before that point is lost, and    *)
(* nothing else ever is.                                                    *)
(*                                                                          *)
(* ReplicationStream implements this specification; Tracker relies on it,   *)
(* with nothing lost.                                                       *)
(****************************************************************************)
EXTENDS Naturals

VARIABLES
    sent,   \* the number of changes in the log
    todo,   \* the changes still to be handed over, again or for the first time
    lost    \* those that were to be handed over and will not be

vars == <<sent, todo, lost>>

TypeOK == sent \in Nat /\ todo \in SUBSET (1..sent) /\ lost \in SUBSET (1..sent)

Init == sent = 0 /\ todo = {} /\ lost = {}

Send == sent' = sent + 1 /\ todo' = todo \cup {sent + 1} /\ UNCHANGED lost

\* At most one change of the set is older than m.
OvertakesAtMostOne(m, changes) ==
    \A j, k \in changes : j < m /\ k < m => j = k

HandOver(m) ==
    /\ m \in todo
    /\ OvertakesAtMostOne(m, todo)
    /\ todo' = todo \ {m}
    /\ UNCHANGED <<sent, lost>>

\* After a failure: everything after the first n changes comes, again if it did before.
Redeliver(n) ==
    /\ todo' = {k \in 1..sent : k > n}
    /\ lost' = lost \cup {k \in todo : k <= n}
    /\ UNCHANGED sent

Next ==
    \/ Send
    \/ \E m \in 1..sent : HandOver(m)
    \/ \E n \in 0..sent : Redeliver(n)

Spec == Init /\ [][Next]_vars
=============================================================================
