------------------------------- MODULE Tracker -------------------------------
(****************************************************************************)
(* The tracker at work: the source tables change, the replication stream    *)
(* hands every change to RoutingEngine.handle_event (routing.py), which     *)
(* tracks base entities at once or defers the changed row, and the          *)
(* percolator daemon (percolator.py, percolator_cli.py) resolves deferred   *)
(* rows later from the tables as they are then.                             *)
(*                                                                          *)
(* What is at stake is that no base entity whose query result a change      *)
(* altered is forgotten.  A change is one row inserted, updated (soft       *)
(* deletes included) or deleted, committed on its own; the log holds the    *)
(* events in commit order, and time (last_tracked_at, tracked_at) is        *)
(* measured by the number of changes committed so far.  The base entities   *)
(* whose result a change altered are recorded with it in the field owes:    *)
(* entity e has been told of change k when lastTracked[e] >= k.             *)
(****************************************************************************)
EXTENDS JoinGraph

CONSTANTS
    QueryJoins,     \* the equalities of the query, in parse order
    Tables,         \* the tables published to the stream
    BaseTable,
    Depth,          \* what DependencyGraph computes for QueryJoins
    Path,           \* Path[t]: what get_path_to_base(t) returns
    Ids,            \* row identifiers (the values of _id), shared by all tables
    Columns,        \* "_id" and the join columns
    NULL,
    Domain,         \* Domain[t][c]: the values column c of table t may hold
    InitialDb,      \* the tables' contents when tracking starts
    BatchSizes,     \* the values of percolation_batch_size the percolator is run with
    ReplicaFull,    \* TRUE iff the tables have REPLICA IDENTITY FULL
    Cleanup,        \* TRUE iff the percolator runs with --cleanup
    MaxChanges,     \* bound on the changes to the source tables
    MaxFailures     \* bound on the consumer's crashes and failed statements

JoinCriteria == [table : Tables, to : Tables, from_col : Columns, to_col : Columns]

Graph == DirectedJoins(QueryJoins)

ASSUME BaseAssumption == BaseTable \in Tables /\ "_id" \in Columns /\ NULL \notin Ids
ASSUME JoinsAssumption == QueryJoins \in Seq(JoinCriteria)
ASSUME BoundsAssumption == MaxChanges \in Nat /\ MaxFailures \in Nat
ASSUME BatchAssumption == BatchSizes \in SUBSET (Nat \ {0})
ASSUME FlagsAssumption == ReplicaFull \in BOOLEAN /\ Cleanup \in BOOLEAN

\* DependencyGraph computes the depths, and the paths are chains of parent joins
\* (DependencyGraphProofs: DepthsCorrect, PathsCorrect).
ASSUME DepthAssumption ==
    /\ Depth \in [Tables -> Nat \cup {-1}]
    /\ IsDepth(Graph, BaseTable, Depth)
ASSUME PathAssumption ==
    \A t \in Tables : Depth[t] > 0 =>
        /\ Path[t] \in Seq(JoinCriteria)
        /\ Len(Path[t]) = Depth[t]
        /\ \A i \in 1..Depth[t] :
              Path[t][i] = ParentJoin(Graph, Depth, IF i = 1 THEN t ELSE Path[t][i - 1].to)

----------------------------------------------------------------------------
(* Rows.  None stands for a row that does not exist and for an event image  *)
(* that is absent (event.before or event.after is None): reading a column   *)
(* of it gives NULL, as "event.before.get(col) if event.before else None".  *)

Row == [state : {"none", "live", "deleted"}, key : [Columns -> Ids \cup {NULL}]]

None == [state |-> "none", key |-> [c \in Columns |-> NULL]]

\* RowVersions[t][id]: what row id of table t may look like.
RowVersions ==
    [t \in Tables |-> [id \in Ids |->
        {None} \cup
        {r \in [state : {"live", "deleted"}, key : [Columns -> Ids \cup {NULL}]] :
            r.key["_id"] = id /\ \A c \in Columns : r.key[c] \in Domain[t][c]}]]

Database == [Tables -> [Ids -> Row]]

ASSUME DatabaseAssumption ==
    /\ Domain \in [Tables -> [Columns -> SUBSET (Ids \cup {NULL})]]
    /\ InitialDb \in Database
    /\ \A t \in Tables, id \in Ids : InitialDb[t][id] \in RowVersions[t][id]

Live(row) == row.state = "live"

\* The join condition of one step of a path, between two rows.
Joined(step, row, parent) ==
    row.key[step.from_col] # NULL /\ row.key[step.from_col] = parent.key[step.to_col]

\* The i-th table on the path from t to the base table.
TableOnPath(t, i) == IF i = 0 THEN t ELSE Path[t][i].to

\* The base entities a row contributes to: those it is joined to along the
\* table's path through rows that are not deleted.
Owners(db, t, id) ==
    IF Depth[t] < 0
    THEN {}
    ELSE {e \in Ids : \E w \in [0..Depth[t] -> Ids] :
            /\ w[0] = id /\ w[Depth[t]] = e
            /\ \A i \in 0..Depth[t] : Live(db[TableOnPath(t, i)][w[i]])
            /\ \A i \in 1..Depth[t] :
                  Joined(Path[t][i], db[TableOnPath(t, i - 1)][w[i - 1]],
                                     db[TableOnPath(t, i)][w[i]])}

----------------------------------------------------------------------------
VARIABLES
    db,           \* the source tables
    log,          \* the events of the stream, in commit order
    todo,         \* the events the stream has yet to hand over, again or at first
    hand,         \* the event the consumer has in hand, or 0
    resolved,     \* the base entity found by a depth-2 query, not yet tracked
    lastTracked,  \* the tracking table: -1 for no row, else last_tracked_at
    inter,        \* intermediate_to_track: one item at most per row of a table
    daemon,       \* the percolator: "asleep", "cleaning" or "failed"
    failures,     \* crashes and failed statements of the consumer so far
    deferred,     \* history: events whose row was put in inter
    lost          \* history: deferred events the percolator does not answer for,
                  \* deferred onto a percolated item or cut off with the batch

vars == <<db, log, todo, hand, resolved, lastTracked, inter, daemon, failures, deferred, lost>>

Event == [table : Tables, id : Ids, op : {"c", "u", "d"}, before : Row, after : Row,
          owes : SUBSET Ids, left : SUBSET Ids]

ItemKey == [table : Tables, id : Ids]
Item == [state : {"none", "pending", "percolated"}, at : Nat]
NoItem == [state |-> "none", at |-> 0]

Init ==
    /\ db = InitialDb
    /\ log = <<>>
    /\ todo = {} /\ hand = 0
    /\ resolved = NULL
    /\ lastTracked = [e \in Ids |-> -1]
    /\ inter = [k \in ItemKey |-> NoItem]
    /\ daemon = "asleep"
    /\ failures = 0
    /\ deferred = {}
    /\ lost = {}

\* The replication stream as ReplicationStream implements it, when the slot loses
\* nothing.
D == INSTANCE Delivery WITH sent <- Len(log), lost <- {}

----------------------------------------------------------------------------
(* The source database (external).                                          *)

Op(old, new) ==
    IF old = None THEN "c" ELSE IF new = None THEN "d" ELSE "u"

\* The old row as the stream shows it: all of it under REPLICA IDENTITY FULL;
\* otherwise the primary key of a deleted row and nothing for an update.
BeforeImage(old, new) ==
    IF ReplicaFull \/ old = None
    THEN old
    ELSE IF new = None
         THEN [old EXCEPT !.key = [c \in Columns |-> IF c = "_id" THEN old.key[c] ELSE NULL]]
         ELSE None

\* One row is inserted, updated or deleted.  A row that is and stays deleted
\* contributes nothing, so its changes are left out.
Change(t, id, new) ==
    LET old  == db[t][id]
        next == [db EXCEPT ![t][id] = new]
    IN  /\ Len(log) < MaxChanges
        /\ Live(old) \/ Live(new)
        /\ db' = next
        /\ log' = Append(log,
              [table |-> t, id |-> id, op |-> Op(old, new),
               before |-> BeforeImage(old, new), after |-> new,
               owes |-> Owners(db, t, id) \cup Owners(next, t, id),
               left |-> Owners(db, t, id) \ Owners(next, t, id)])
        /\ D!Send
        /\ UNCHANGED <<hand, resolved, lastTracked, inter, daemon, failures, deferred, lost>>

----------------------------------------------------------------------------
(* The routing engine.  The consumer takes an event from the stream, and    *)
(* each action after that handles the event it has in hand.                 *)

Take(m) ==
    /\ hand = 0
    /\ m \in todo /\ D!OvertakesAtMostOne(m, todo)
    /\ hand' = m
    /\ UNCHANGED <<db, log, todo, resolved, lastTracked, inter, daemon, failures, deferred, lost>>

\* CDCEvent.get_id_field
IdField(ev) == IF ev.op = "d" THEN ev.before.key["_id"] ELSE ev.after.key["_id"]

\* get_parent_join(event.table), where the handlers use it.
ParentOf(t) == ParentJoin(Graph, Depth, t)

\* track_entity, track_entities: INSERT ... ON CONFLICT DO UPDATE
\* SET last_tracked_at = CURRENT_TIMESTAMP, in one transaction.
Track(entities) ==
    lastTracked' = [e \in Ids |-> IF e \in entities THEN Len(log) ELSE lastTracked[e]]

\* insert_intermediate: INSERT ... ON CONFLICT (table_name, entity_id) DO UPDATE
\* SET tracked_at = CURRENT_TIMESTAMP.  An existing row keeps its percolated flag.
Upsert(item) ==
    [state |-> IF item.state = "none" THEN "pending" ELSE item.state, at |-> Len(log)]

ItemOf(ev) == [table |-> ev.table, id |-> IdField(ev)]

\* The event in hand; its handler is not between two transactions.
event == log[hand]
EventAtHand == hand # 0 /\ resolved = NULL

Handled == UNCHANGED <<db, log, daemon>> /\ D!HandOver(hand) /\ hand' = 0

Immediate(entities) == Track(entities) /\ Handled /\ UNCHANGED <<inter, deferred, lost>>

Skip == Handled /\ UNCHANGED <<lastTracked, inter, deferred, lost>>

\* The event's row goes to inter.  If it is there and percolated it stays so,
\* and history remembers that.
Defer(ev) ==
    /\ inter' = [inter EXCEPT ![ItemOf(ev)] = Upsert(@)]
    /\ deferred' = deferred \cup {hand}
    /\ lost' = IF inter[ItemOf(ev)].state = "percolated" THEN lost \cup {hand} ELSE lost
    /\ Handled
    /\ UNCHANGED lastTracked

\* A table of the publication the query does not mention.
SkipUnknownTable ==
    /\ EventAtHand /\ Depth[event.table] = -1
    /\ Skip /\ UNCHANGED <<resolved, failures>>

HandleBaseTable ==
    /\ EventAtHand /\ event.table = BaseTable
    /\ IF IdField(event) = NULL THEN Skip ELSE Immediate({IdField(event)})
    /\ UNCHANGED <<resolved, failures>>

\* Fault: an update names the parent the row has now, and only that.
NamedParentsNow(ev) ==
    LET col == ParentOf(ev.table).from_col
    IN  {IF ev.op = "d" THEN ev.before.key[col] ELSE ev.after.key[col]} \ {NULL}

\* The parent ids a depth-1 event names: those of the rows it has.
NamedParents(ev) ==
    LET col == ParentOf(ev.table).from_col
        was == ev.before.key[col]
        is  == ev.after.key[col]
        ids == CASE ev.op = "c" -> {is}
                 [] ev.op = "u" -> IF was # is THEN {was, is} ELSE {is}
                 [] ev.op = "d" -> {was}
    IN  ids \ {NULL}

HandleDepth1 ==
    /\ EventAtHand /\ Depth[event.table] = 1
    /\ IF NamedParents(event) = {} THEN Skip ELSE Immediate(NamedParents(event))
    /\ UNCHANGED <<resolved, failures>>

\* Fault: a key that becomes NULL is not seen as changed.
KeysChangedIfSet(ev) ==
    /\ ev.op = "u" /\ ev.before # None
    /\ \E c \in JoinKeys(Graph, ev.table) :
          ev.before.key[c] # ev.after.key[c] /\ ev.after.key[c] # NULL

\* Depth 2, "join keys changed (only if we have before state)".
KeysChanged(ev) ==
    /\ ev.op = "u" /\ ev.before # None
    /\ \E c \in JoinKeys(Graph, ev.table) : ev.before.key[c] # ev.after.key[c]

\* Fault: the new image is read for deletions too.
ParentRowIdAfter(ev) == ev.after.key[ParentOf(ev.table).from_col]

\* The row one hop closer to the base table, from the event.
ParentRowId(ev) ==
    (IF ev.op = "d" THEN ev.before ELSE ev.after).key[ParentOf(ev.table).from_col]

\* query_parent_entity: SELECT join_col FROM parent WHERE _id = id AND
\* _deleted = FALSE; NULL for no row.
QueryParentEntity(t, id) ==
    IF Live(db[t][id]) THEN db[t][id].key[ParentOf(t).from_col] ELSE NULL

Depth2Defer ==
    /\ EventAtHand /\ Depth[event.table] = 2 /\ KeysChanged(event)
    /\ IF IdField(event) = NULL THEN Skip ELSE Defer(event)
    /\ UNCHANGED <<resolved, failures>>

Depth2NoParentId ==
    /\ EventAtHand /\ Depth[event.table] = 2 /\ ~KeysChanged(event)
    /\ ParentRowId(event) = NULL
    /\ Skip /\ UNCHANGED <<resolved, failures>>

\* The query is a transaction of its own; its answer may be stale when used.
Depth2Query ==
    /\ EventAtHand /\ Depth[event.table] = 2 /\ ~KeysChanged(event)
    /\ ParentRowId(event) # NULL
    /\ resolved' = QueryParentEntity(ParentOf(event.table).to, ParentRowId(event))
    /\ IF resolved' = NULL
       THEN Skip
       ELSE UNCHANGED <<db, log, todo, hand, lastTracked, inter, daemon, deferred, lost>>
    /\ UNCHANGED failures

\* Fault: the answer of the query outlives the event it was made for.
Depth2TrackKeeping ==
    /\ resolved # NULL
    /\ Immediate({resolved})
    /\ UNCHANGED <<resolved, failures>>

Depth2Track ==
    /\ resolved # NULL
    /\ Immediate({resolved})
    /\ resolved' = NULL
    /\ UNCHANGED failures

\* "except Exception: deferring": the query or the tracking statement failed.
Depth2Error ==
    /\ hand # 0 /\ failures < MaxFailures
    /\ Depth[event.table] = 2 /\ ~KeysChanged(event) /\ ParentRowId(event) # NULL
    /\ IF IdField(event) = NULL THEN Skip ELSE Defer(event)
    /\ resolved' = NULL
    /\ failures' = failures + 1

HandleDepth3Plus ==
    /\ EventAtHand /\ Depth[event.table] >= 3
    /\ IF IdField(event) = NULL THEN Skip ELSE Defer(event)
    /\ UNCHANGED <<resolved, failures>>

\* The consumer crashes, or a statement fails and start_streaming reconnects:
\* the slot sends again what was not confirmed.
Restart(n) ==
    /\ failures < MaxFailures
    /\ UNCHANGED <<db, log, lastTracked, inter, daemon, deferred, lost>>
    /\ D!Redeliver(n)
    /\ hand' = 0 /\ resolved' = NULL
    /\ failures' = failures + 1

----------------------------------------------------------------------------
(* The percolator.                                                          *)

Pending(items) == {k \in ItemKey : items[k].state = "pending"}

\* Fault: no subquery for tables three hops away.
PercolationRowsToTwo ==
    {r \in [table : Tables, base : Ids] :
        /\ Depth[r.table] \in {1, 2}
        /\ \E k \in Pending(inter) :
              k.table = r.table /\ r.base \in Owners(db, r.table, k.id)}

\* The rows of the percolation query: one SELECT DISTINCT per dependent table,
\* joined to its pending items, glued by UNION ALL.
PercolationRows ==
    {r \in [table : Tables, base : Ids] :
        /\ Depth[r.table] > 0
        /\ \E k \in Pending(inter) :
              k.table = r.table /\ r.base \in Owners(db, r.table, k.id)}

\* LIMIT: what is left of a set, in no particular order.
Limited(size, S) == IF Cardinality(S) <= size THEN {S} ELSE kSubset(size, S)

\* ON CONFLICT DO UPDATE cannot affect the same row twice in one statement.
SameRowTwice(batch) == \E r, s \in batch : r # s /\ r.base = s.base

\* The second statement marks the oldest pending items.  (Items of the same time
\* may come in either order.)
Oldest(size) ==
    {marked \in Limited(size, Pending(inter)) :
        \A k \in marked, l \in Pending(inter) \ marked : inter[k].at <= inter[l].at}

\* The events of marked items that owe something to an entity their table's
\* subquery gives and the batch leaves out.
CutOff(batch, marked) ==
    {k \in deferred :
        /\ ItemOf(log[k]) \in marked
        /\ \E r \in PercolationRows \ batch :
              r.table = log[k].table /\ r.base \in log[k].owes}

\* One cycle, when get_pending_count() is not 0: both statements in one
\* transaction, each with the same limit.
Percolate ==
    /\ daemon \in {"asleep", "failed"}
    /\ Pending(inter) # {}
    /\ \E size \in BatchSizes :
          \E batch \in Limited(size, PercolationRows), marked \in Oldest(size) :
             /\ ~SameRowTwice(batch)
             /\ Track({r.base : r \in batch})
             /\ inter' = [k \in ItemKey |->
                            IF k \in marked THEN [inter[k] EXCEPT !.state = "percolated"]
                                            ELSE inter[k]]
             /\ lost' = lost \cup CutOff(batch, marked)
    /\ daemon' = IF Cleanup THEN "cleaning" ELSE "asleep"
    /\ UNCHANGED <<db, log, todo, hand, resolved, failures, deferred>>

\* The first statement raises: everything is rolled back and the loop sleeps.
PercolateFails ==
    /\ daemon \in {"asleep", "failed"}
    /\ Pending(inter) # {}
    /\ \E size \in BatchSizes :
          \E batch \in Limited(size, PercolationRows) : SameRowTwice(batch)
    /\ daemon' = "failed"
    /\ UNCHANGED <<db, log, todo, hand, resolved, lastTracked, inter, failures, deferred, lost>>

\* Fault: the DELETE has no percolated = TRUE.
CleanupAllOld ==
    /\ daemon = "cleaning"
    /\ \E cutoff \in 0..(Len(log) + 1) :
          inter' = [k \in ItemKey |-> IF inter[k].at < cutoff THEN NoItem ELSE inter[k]]
    /\ daemon' = "asleep"
    /\ UNCHANGED <<db, log, todo, hand, resolved, lastTracked, failures, deferred, lost>>

\* cleanup_old_items: percolated items older than the retention are deleted.
CleanupOld ==
    /\ daemon = "cleaning"
    /\ \E cutoff \in 0..(Len(log) + 1) :
          inter' = [k \in ItemKey |->
                      IF inter[k].state = "percolated" /\ inter[k].at < cutoff
                      THEN NoItem ELSE inter[k]]
    /\ daemon' = "asleep"
    /\ UNCHANGED <<db, log, todo, hand, resolved, lastTracked, failures, deferred, lost>>

----------------------------------------------------------------------------
Stream ==
    \/ \E m \in todo : Take(m)
    \/ SkipUnknownTable \/ HandleBaseTable \/ HandleDepth1
    \/ Depth2Defer \/ Depth2NoParentId \/ Depth2Query \/ Depth2Track \/ Depth2Error
    \/ HandleDepth3Plus

Source == \E t \in Tables, id \in Ids : \E new \in RowVersions[t][id] : Change(t, id, new)

Next ==
    \/ Source
    \/ Stream
    \/ \E n \in 0..Len(log) : Restart(n)
    \/ Percolate \/ PercolateFails \/ CleanupOld

Spec == Init /\ [][Next]_vars

----------------------------------------------------------------------------
TypeOK ==
    /\ db \in Database
    /\ log \in Seq(Event) /\ Len(log) <= MaxChanges
    /\ todo \in SUBSET (1..Len(log))
    /\ hand \in todo \cup {0}
    /\ resolved \in Ids \cup {NULL}
    /\ resolved # NULL => hand # 0
    /\ lastTracked \in [Ids -> Nat \cup {-1}]
    /\ inter \in [ItemKey -> Item]
    /\ daemon \in {"asleep", "cleaning", "failed"}
    /\ failures \in 0..MaxFailures
    /\ deferred \in SUBSET (1..Len(log))
    /\ lost \in SUBSET deferred

\* Base entity e has been tracked since change k was committed.
Told(e, k) == lastTracked[e] >= k

\* The stream has handled everything committed; nothing waits for the percolator.
Drained == todo = {}
Quiet == Drained /\ Pending(inter) = {}

\* A change to the base table or one hop from it has tracked every entity it
\* affects, the one a row moved away from included, by the time its event is
\* handled, be it out of order; failures that handle events again never undo that.
DirectChangesSettled ==
    \A k \in (1..Len(log)) \ todo :
        Depth[log[k].table] \in {0, 1} => \A e \in log[k].owes : Told(e, k)

\* When the stream is drained, every change at any depth has either told the
\* entities it affects or put its row in inter: no event is skipped for good,
\* although a depth-2 event is resolved from a parent row that may have moved
\* or gone since the event was committed.
StreamSettles ==
    Drained =>
        \A k \in 1..Len(log) : \A e \in log[k].owes : Told(e, k) \/ k \in deferred

\* The schemas for which the handlers of depths 1 and 2 are made: every table
\* there holds its parent's _id in the join column, and old rows are streamed.
ForeignKeySchema ==
    /\ ReplicaFull
    /\ \A t \in Tables : Depth[t] \in {1, 2} => ParentOf(t).to_col = "_id"

\* A later event of a table one hop away names e.
NamedLater(k, e) ==
    \E j \in (k + 1)..Len(log) : Depth[log[j].table] = 1 /\ e \in NamedParents(log[j])

\* Why the stream forgets nobody under such a schema.  An event shows the way to
\* the entities owed; at depth 2 it shows a parent row, and if that row leads
\* elsewhere by the time it is read, then the change that moved it has its own
\* event, later in the stream, which names the entity.
ShowsOwners(k, ev) ==
    /\ IdField(ev) = ev.id
    /\ Depth[ev.table] = -1 => ev.owes = {}
    /\ Depth[ev.table] = 0 => ev.owes \subseteq {ev.id}
    /\ Depth[ev.table] = 1 => ev.owes \subseteq NamedParents(ev)
    /\ Depth[ev.table] = 2 /\ ~KeysChanged(ev) =>
          \A e \in ev.owes :
              /\ ParentRowId(ev) # NULL
              /\ \/ QueryParentEntity(ParentOf(ev.table).to, ParentRowId(ev)) = e
                 \/ NamedLater(k, e)

Settled(k) ==
    LET ev == log[k] IN
        /\ Depth[ev.table] = 0 => \A e \in ev.owes : Told(e, k)
        /\ Depth[ev.table] = 1 => \A e \in NamedParents(ev) : Told(e, k)
        /\ Depth[ev.table] = 2 =>
              k \in deferred \/ \A e \in ev.owes : Told(e, k) \/ NamedLater(k, e)
        /\ Depth[ev.table] >= 3 => k \in deferred

AnswerCoversOwners ==
    resolved # NULL =>
        /\ Depth[event.table] = 2
        /\ \A e \in event.owes : e = resolved \/ NamedLater(hand, e)

Keyed(d) == \A t \in Tables, id \in Ids : d[t][id] \in RowVersions[t][id]

StreamInv ==
    /\ Keyed(db)
    /\ \A e \in Ids : lastTracked[e] <= Len(log)
    /\ \A k \in 1..Len(log) : ShowsOwners(k, log[k])
    /\ \A k \in (1..Len(log)) \ todo : Settled(k)
    /\ AnswerCoversOwners

\* When nothing is left to do, an entity still owed a refresh is so because of
\* one of three known limits, and of nothing else: an event was deferred while its
\* item was marked percolated from an earlier time; an event's item was marked in
\* a batch whose LIMIT cut the entity off; or an event was deferred by which the
\* row left the entity (moved, deleted), and percolation resolves a row from where
\* it is, not from where it was.
LossesExplained ==
    Quiet =>
        \A k \in 1..Len(log) : \A e \in log[k].owes :
            \/ Told(e, k)
            \/ \E j \in deferred :
                  /\ e \in log[j].owes /\ ~Told(e, j)
                  /\ j \in lost \/ e \in log[j].left

\* Why the percolator loses nobody else.  Only rows at some distance from the
\* base table are deferred; an entity a row belonged to after its change still
\* owns it, or a later change took it away and owes the entity itself; and who is
\* owed by a deferred event has been told, waits with its item, or is owed later.
OwedLater(k, e) == \E j \in (k + 1)..Len(log) : e \in log[j].owes

DeferredAreFar == \A k \in ItemKey : inter[k].state # "none" => Depth[k.table] > 0

OwnersStay ==
    \A k \in 1..Len(log) : \A e \in log[k].owes \ log[k].left :
        e \in Owners(db, log[k].table, log[k].id) \/ OwedLater(k, e)

DeferredWait ==
    \A k \in deferred \ lost : \A e \in log[k].owes \ log[k].left :
        Told(e, k) \/ ItemOf(log[k]) \in Pending(inter) \/ OwedLater(k, e)

DeferralInv == DeferredAreFar /\ OwnersStay /\ DeferredWait

\* The percolation query has more rows than the batch holds, and items are marked.
CutShort ==
    \E size \in BatchSizes :
        /\ ~(Cardinality(PercolationRows) <= size)
        /\ Cardinality(Pending(inter) \ Pending(inter')) <= size

\* A pending item stays pending until the step that tracks every base entity its
\* row belongs to ("Percolate one batch of intermediate items to base entities",
\* percolator.py:121), unless the batch of that step is cut short; neither the
\* stream, nor a restart, nor the cleanup drops it.
PendingUntilResolved ==
    [][\A k \in Pending(inter) \ Pending(inter') :
          CutShort \/ \A e \in Owners(db, k.table, k.id) : lastTracked'[e] = Len(log)]_vars

----------------------------------------------------------------------------
(* What the documentation says and the code does not do.                    *)

\* "Stores entities from dependent tables awaiting percolation" (schema.py:12):
\* a row a handler defers awaits percolation.
DeferredRowsAwait ==
    [][\A k \in deferred' \ deferred : ItemOf(log[k]) \in Pending(inter')]_vars

\* "Join keys can be mutable so that must be taken into account" (DESIGN.md:19):
\* when all is done, the entity a row moved away from has been told.
MovesTaken ==
    Quiet =>
        \A k \in 1..Len(log) :
            Live(log[k].after) => \A e \in log[k].left : Told(e, k)

\* "UNION ALL (faster than UNION if duplicates are ok, ON CONFLICT handles them)"
\* (percolator.py:105): the percolation statement does not fail on duplicates.
DuplicatesHandled == daemon # "failed"
=============================================================================
