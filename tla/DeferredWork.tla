----------------------------- MODULE DeferredWork -----------------------------
(****************************************************************************)
(* What the two processes promise about deferred rows together: a pending   *)
(* item stays pending until a step that tells every entity it leads to, or  *)
(* as many as a batch may reach when what is pending leads to more; and     *)
(* only items that have been resolved are removed.                          *)
(*                                                                          *)
(* Percolation implements this specification.                               *)
(****************************************************************************)
EXTENDS Naturals, FiniteSets

CONSTANTS
    Items,      \* the rows that may be deferred
    Entities,   \* the base entities
    Table,      \* the table of each row
    Owner       \* the entities each row leads to

VARIABLES
    state,  \* of each item
    needs,  \* the entities a change concerns which have not been told since
    limit   \* the size of a batch

vars == <<state, needs, limit>>

States == {"none", "pending", "percolated"}
TypeOK == state \in [Items -> States] /\ needs \in SUBSET Entities /\ limit \in Nat

InState(s) == {i \in Items : state[i] = s}
Owners(S) == UNION {Owner[i] : i \in S}

\* An entity counts once for each table the items lead to it from.
Rows(S) ==
    {r \in {Table[i] : i \in Items} \X Entities :
        \E i \in S : Table[i] = r[1] /\ r[2] \in Owner[i]}

Overfull(S) == ~(Cardinality(Rows(S)) <= limit)

Init == state = [i \in Items |-> "none"] /\ needs = {} /\ limit \in Nat

\* A change to the source tables concerns the entities E.
Concern(E) == needs' = needs \cup E /\ UNCHANGED <<state, limit>>

Tell(E) == needs' = needs \ E /\ UNCHANGED <<state, limit>>

Defer(i) ==
    /\ state' = [state EXCEPT ![i] = IF @ = "none" THEN "pending" ELSE @]
    /\ UNCHANGED <<needs, limit>>

\* A batch marks the items S and tells the entities E: all that S leads to, unless
\* what it found pending was more than a batch.
Resolve(S, E) ==
    /\ S \subseteq InState("pending") /\ E \subseteq Owners(InState("pending"))
    /\ Owners(S) \subseteq E \/ \E P \in SUBSET InState("pending") : Overfull(P)
    /\ state' = [i \in Items |-> IF i \in S THEN "percolated" ELSE state[i]]
    /\ needs' = needs \ E
    /\ UNCHANGED limit

Remove(S) ==
    /\ S \subseteq InState("percolated")
    /\ state' = [i \in Items |-> IF i \in S THEN "none" ELSE state[i]]
    /\ UNCHANGED <<needs, limit>>

Next ==
    \/ \E E \in SUBSET Entities : Concern(E) \/ Tell(E)
    \/ \E i \in Items : Defer(i)
    \/ \E S \in SUBSET Items : Remove(S) \/ \E E \in SUBSET Entities : Resolve(S, E)

Spec == Init /\ [][Next]_vars
=============================================================================
