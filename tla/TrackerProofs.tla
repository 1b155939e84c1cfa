---------------------------- MODULE TrackerProofs ----------------------------
(****************************************************************************)
(* Proofs about Tracker, for every query, every content of the tables and   *)
(* every number of changes and failures.                                    *)
(****************************************************************************)
EXTENDS Tracker, JoinGraphProofs

----------------------------------------------------------------------------
\* The parent join of a table leads one hop closer to the base table, over one
\* of the table's join keys.
LEMMA ParentOfFacts ==
  ASSUME NEW t \in Tables, Depth[t] > 0
  PROVE  /\ ParentOf(t).to \in Tables
         /\ ParentOf(t).from_col \in Columns
         /\ ParentOf(t).from_col \in JoinKeys(Graph, t)
         /\ Depth[ParentOf(t).to] = Depth[t] - 1
<1>1. /\ Len(Graph) \in Nat
      /\ Graph \in Seq(JoinCriteria)
  BY JoinsAssumption, DirectedJoinsFacts DEF Graph, JoinCriteria
<1>2. ParentEdges(Graph, Depth, t) # {}
  BY DepthAssumption DEF IsDepth
<1>3. PICK k \in 1..Len(Graph) : Graph[k] = ParentOf(t)
  BY <1>1, <1>2, ParentJoinIsEdge DEF ParentOf
<1>4. ParentOf(t).table = t /\ Depth[ParentOf(t).to] = Depth[t] - 1
  BY <1>1, <1>2, ParentJoinIsEdge DEF ParentOf
<1>5. ParentOf(t) \in JoinCriteria
  BY <1>1, <1>3, ElementOfSeq
<1>6. ParentOf(t).from_col \in JoinKeys(Graph, t)
  BY <1>3, <1>4 DEF JoinKeys, EdgesOf
<1>7. QED
  BY <1>4, <1>5, <1>6 DEF JoinCriteria

LEMMA NoneIsRow == None \in Row /\ ~Live(None)
  BY BaseAssumption DEF None, Row, Live

LEMMA RowVersionsAreRows ==
  ASSUME NEW t \in Tables, NEW id \in Ids, NEW r \in RowVersions[t][id]
  PROVE  r \in Row /\ (r = None \/ r.key["_id"] = id)
<1>1. r = None \/ /\ r \in [state : {"live", "deleted"}, key : [Columns -> Ids \cup {NULL}]]
                  /\ r.key["_id"] = id
  BY DEF RowVersions
<1>2. QED
  BY <1>1, NoneIsRow DEF Row

LEMMA OwnersAreIds ==
  ASSUME NEW d, NEW t, NEW id
  PROVE  Owners(d, t, id) \in SUBSET Ids
  BY DEF Owners

LEMMA IdFieldType ==
  ASSUME NEW ev \in Event
  PROVE  IdField(ev) \in Ids \cup {NULL}
  BY BaseAssumption DEF IdField, Event, Row

LEMMA NamedParentsAreIds ==
  ASSUME NEW ev \in Event, Depth[ev.table] = 1
  PROVE  NamedParents(ev) \in SUBSET Ids
<1> DEFINE col == ParentOf(ev.table).from_col
<1>1. ev.table \in Tables /\ ev.op \in {"c", "u", "d"} /\ ev.before \in Row /\ ev.after \in Row
  BY DEF Event
<1>2. col \in Columns
  BY <1>1, ParentOfFacts
<1>3. ev.before.key[col] \in Ids \cup {NULL} /\ ev.after.key[col] \in Ids \cup {NULL}
  BY <1>1, <1>2 DEF Row
<1> HIDE DEF col
<1>4. QED
  BY <1>1, <1>3 DEF NamedParents, col

LEMMA EventInHandType ==
  ASSUME TypeOK, hand # 0
  PROVE  /\ hand \in 1..Len(log) /\ hand \in todo
         /\ event \in Event /\ event.table \in Tables
<1>1. hand \in 1..Len(log) /\ hand \in todo /\ log \in Seq(Event)
  BY DEF TypeOK
<1>2. event \in Event
  BY <1>1, ElementOfSeq DEF event
<1>3. QED
  BY <1>1, <1>2 DEF Event

LEMMA QueryAnswerType ==
  ASSUME TypeOK, hand # 0, Depth[event.table] = 2, ParentRowId(event) # NULL
  PROVE  QueryParentEntity(ParentOf(event.table).to, ParentRowId(event)) \in Ids \cup {NULL}
<1> DEFINE t == event.table
           u == ParentOf(t).to
<1>1. t \in Tables /\ event \in Event
  BY EventInHandType
<1>2. u \in Tables /\ ParentOf(t).from_col \in Columns /\ Depth[u] = 1
  BY <1>1, ParentOfFacts
<1>3. ParentOf(u).from_col \in Columns
  BY <1>2, ParentOfFacts
<1>4. ParentRowId(event) \in Ids
  BY <1>1, <1>2 DEF ParentRowId, Event, Row
<1>5. db[u][ParentRowId(event)] \in Row
  BY <1>2, <1>4 DEF TypeOK, Database
<1>6. QED
  BY <1>3, <1>5 DEF QueryParentEntity, Row

LEMMA ChangeEventType ==
  ASSUME TypeOK, NEW t \in Tables, NEW id \in Ids, NEW new \in RowVersions[t][id],
         Change(t, id, new)
  PROVE  /\ db' = [db EXCEPT ![t][id] = new]
         /\ \E ev \in Event :
               /\ log' = Append(log, ev)
               /\ ev.table = t /\ ev.id = id /\ ev.op = Op(db[t][id], new)
               /\ ev.before = BeforeImage(db[t][id], new) /\ ev.after = new
               /\ ev.owes = Owners(db, t, id) \cup Owners(db', t, id)
<1> DEFINE old == db[t][id]
           ev == [table |-> t, id |-> id, op |-> Op(old, new),
                  before |-> BeforeImage(old, new), after |-> new,
                  owes |-> Owners(db, t, id) \cup Owners(db', t, id),
                  left |-> Owners(db, t, id) \ Owners(db', t, id)]
<1>1. db' = [db EXCEPT ![t][id] = new] /\ log' = Append(log, ev)
  BY DEF Change
<1>2. old \in Row /\ new \in Row
  BY RowVersionsAreRows DEF TypeOK, Database
<1>3. BeforeImage(old, new) \in Row
  BY <1>2, BaseAssumption, NoneIsRow DEF BeforeImage, Row
<1>4. Op(old, new) \in {"c", "u", "d"}
  BY DEF Op
<1>5. ev.owes \in SUBSET Ids /\ ev.left \in SUBSET Ids
  BY OwnersAreIds
<1>6. ev \in Event
  BY <1>2, <1>3, <1>4, <1>5 DEF Event
<1>7. QED
  BY <1>1, <1>6

----------------------------------------------------------------------------
\* What the handlers change, by type.

LEMMA TrackType ==
  ASSUME TypeOK, NEW entities, Track(entities)
  PROVE  lastTracked' \in [Ids -> Nat \cup {-1}]
  BY LenProperties DEF TypeOK, Track

\* An event whose table is not two hops away leaves resolved alone.
LEMMA HandledType ==
  ASSUME TypeOK, Handled,
         resolved' = NULL, failures' \in 0..MaxFailures,
         lastTracked' \in [Ids -> Nat \cup {-1}], inter' \in [ItemKey -> Item],
         deferred' \in SUBSET (1..Len(log)), lost' \in SUBSET deferred'
  PROVE  TypeOK'
  BY DEF TypeOK, Handled, D!HandOver

LEMMA SkipType ==
  ASSUME TypeOK, hand # 0, Skip, resolved' = NULL, failures' \in 0..MaxFailures
  PROVE  TypeOK'
  BY HandledType DEF TypeOK, Skip

LEMMA ImmediateType ==
  ASSUME TypeOK, hand # 0, NEW entities, Immediate(entities),
         resolved' = NULL, failures' \in 0..MaxFailures
  PROVE  TypeOK'
  BY HandledType, TrackType DEF TypeOK, Immediate

LEMMA DeferType ==
  ASSUME TypeOK, hand # 0, Defer(event),
         resolved' = NULL, failures' \in 0..MaxFailures
  PROVE  TypeOK'
<1>1. hand \in 1..Len(log)
  BY EventInHandType
<1>2. deferred' \in SUBSET (1..Len(log)) /\ lost' \in SUBSET deferred'
  BY <1>1 DEF Defer, TypeOK
<1>3. \A item \in Item : Upsert(item) \in Item
  BY LenProperties DEF TypeOK, Item, Upsert
<1>4. inter' \in [ItemKey -> Item]
  BY <1>3 DEF Defer, TypeOK
<1>5. QED
  BY <1>2, <1>4, HandledType DEF Defer, TypeOK

\* The variables keep their types.
THEOREM TypeCorrect == Spec => []TypeOK
<1>1. Init => TypeOK
  BY BaseAssumption, BoundsAssumption, DatabaseAssumption, EmptySeq
  DEF Init, TypeOK, Item, NoItem
<1>2. TypeOK /\ [Next]_vars => TypeOK'
  <2> SUFFICES ASSUME TypeOK, [Next]_vars PROVE TypeOK'
    OBVIOUS
  <2> USE BoundsAssumption
  <2>1. ASSUME NEW t \in Tables, NEW id \in Ids, NEW new \in RowVersions[t][id],
               Change(t, id, new)
        PROVE  TypeOK'
    <3>1. PICK ev \in Event : log' = Append(log, ev)
      BY <2>1, ChangeEventType
    <3>2. log' \in Seq(Event) /\ Len(log') = Len(log) + 1 /\ Len(log) \in Nat
      BY <3>1, AppendProperties, LenProperties DEF TypeOK
    <3>3. db' \in Database
      BY <2>1, RowVersionsAreRows DEF Change, TypeOK, Database
    <3>4. todo' \in SUBSET (1..Len(log'))
      BY <2>1, <3>2 DEF Change, D!Send, TypeOK
    <3>5. hand' \in todo' \cup {0}
      BY <2>1 DEF Change, D!Send, TypeOK
    <3>6. deferred' \in SUBSET (1..Len(log'))
      BY <2>1, <3>2 DEF Change, TypeOK
    <3>7. Len(log') <= MaxChanges
      BY <2>1, <3>2 DEF Change
    <3>8. QED
      BY <2>1, <3>2, <3>3, <3>4, <3>5, <3>6, <3>7 DEF Change, TypeOK
  <2>2. CASE SkipUnknownTable
    BY <2>2, SkipType DEF SkipUnknownTable, EventAtHand, TypeOK
  <2>3. CASE HandleBaseTable
    BY <2>3, SkipType, ImmediateType DEF HandleBaseTable, EventAtHand, TypeOK
  <2>4. CASE HandleDepth1
    BY <2>4, SkipType, ImmediateType DEF HandleDepth1, EventAtHand, TypeOK
  <2>5. CASE Depth2Defer
    BY <2>5, SkipType, DeferType DEF Depth2Defer, EventAtHand, TypeOK
  <2>6. CASE Depth2NoParentId
    BY <2>6, SkipType DEF Depth2NoParentId, EventAtHand, TypeOK
  <2>7. CASE Depth2Query
    <3>1. hand # 0 /\ failures' \in 0..MaxFailures
      BY <2>7 DEF Depth2Query, EventAtHand, TypeOK
    <3>2. CASE resolved' = NULL
      BY <2>7, <3>1, <3>2, SkipType DEF Depth2Query
    <3>3. CASE resolved' # NULL
      <4>1. resolved' \in Ids \cup {NULL}
        BY <2>7, QueryAnswerType DEF Depth2Query, EventAtHand
      <4>2. QED
        BY <2>7, <3>1, <3>3, <4>1 DEF Depth2Query, TypeOK
    <3>4. QED
      BY <3>2, <3>3
  <2>8. CASE Depth2Track
    BY <2>8, ImmediateType DEF Depth2Track, TypeOK
  <2>9. CASE Depth2Error
    <3>1. failures' \in 0..MaxFailures
      BY <2>9 DEF Depth2Error, TypeOK
    <3>2. QED
      BY <2>9, <3>1, SkipType, DeferType DEF Depth2Error
  <2>10. CASE HandleDepth3Plus
    BY <2>10, SkipType, DeferType DEF HandleDepth3Plus, EventAtHand, TypeOK
  <2>11. ASSUME NEW n \in 0..Len(log), Restart(n) PROVE TypeOK'
    <3>1. failures' \in 0..MaxFailures
      BY <2>11 DEF Restart, TypeOK
    <3>2. todo' \in SUBSET (1..Len(log))
      BY <2>11 DEF Restart, D!Redeliver, TypeOK
    <3>3. QED
      BY <2>11, <3>1, <3>2 DEF Restart, TypeOK
  <2>12. CASE Percolate
    <3>1. lastTracked' \in [Ids -> Nat \cup {-1}]
      BY <2>12, TrackType DEF Percolate
    <3>2. inter' \in [ItemKey -> Item]
      <4>1. PICK marked :
              inter' = [k \in ItemKey |->
                         IF k \in marked THEN [inter[k] EXCEPT !.state = "percolated"]
                                         ELSE inter[k]]
        BY <2>12 DEF Percolate
      <4>2. \A k \in ItemKey : inter[k] \in Item /\ [inter[k] EXCEPT !.state = "percolated"] \in Item
        BY DEF TypeOK, Item
      <4>3. QED
        BY <4>1, <4>2
    <3>3. lost' \in SUBSET deferred
      BY <2>12 DEF Percolate, CutOff, TypeOK
    <3>4. QED
      BY <2>12, <3>1, <3>2, <3>3 DEF Percolate, TypeOK
  <2>13. CASE PercolateFails
    BY <2>13 DEF PercolateFails, TypeOK
  <2>14. CASE CleanupOld
    <3>1. inter' \in [ItemKey -> Item]
      BY <2>14 DEF CleanupOld, TypeOK, Item, NoItem
    <3>2. QED
      BY <2>14, <3>1 DEF CleanupOld, TypeOK
  <2>15. ASSUME NEW m \in todo, Take(m) PROVE TypeOK'
    BY <2>15 DEF Take, TypeOK
  <2>16. CASE UNCHANGED vars
    BY <2>16 DEF vars, TypeOK
  <2>17. QED
    BY <2>1, <2>2, <2>3, <2>4, <2>5, <2>6, <2>7, <2>8, <2>9, <2>10, <2>11, <2>12, <2>13,
       <2>14, <2>15, <2>16
    DEF Next, Source, Stream
<1>3. QED
  BY <1>1, <1>2, PTL DEF Spec

----------------------------------------------------------------------------
\* The way from a row to the entities it contributes to.

LEMMA TypesOfDepth ==
  ASSUME NEW t \in Tables
  PROVE  Depth[t] \in Nat \cup {-1} /\ (Depth[t] = 0 <=> t = BaseTable)
  BY DepthAssumption DEF IsDepth

LEMMA PathStart ==
  ASSUME NEW t \in Tables, Depth[t] > 0
  PROVE  /\ Path[t][1] = ParentOf(t)
         /\ Depth[t] > 1 => Path[t][2] = ParentOf(ParentOf(t).to)
<1>1. 1 \in 1..Depth[t] /\ (Depth[t] > 1 => 2 \in 1..Depth[t])
  BY TypesOfDepth
<1>2. Path[t][1] = ParentOf(t)
  BY <1>1, PathAssumption DEF ParentOf
<1>3. Depth[t] > 1 => Path[t][2] = ParentJoin(Graph, Depth, Path[t][1].to)
  BY <1>1, PathAssumption
<1>4. QED
  BY <1>2, <1>3 DEF ParentOf

LEMMA LiveRowIsKeyed ==
  ASSUME NEW d, Keyed(d), NEW t \in Tables, NEW id \in Ids, Live(d[t][id])
  PROVE  d[t][id] \in Row /\ d[t][id].key["_id"] = id
<1>1. d[t][id] \in RowVersions[t][id]
  BY DEF Keyed
<1>2. QED
  BY <1>1, RowVersionsAreRows, NoneIsRow

LEMMA OwnersAtDepth0 ==
  ASSUME NEW d, NEW t \in Tables, Depth[t] = 0, NEW id \in Ids
  PROVE  Owners(d, t, id) \subseteq {id}
  BY DEF Owners

\* A row one hop away contributes to the entity its parent column names.
LEMMA OwnersAtDepth1 ==
  ASSUME ForeignKeySchema, NEW d, Keyed(d),
         NEW t \in Tables, Depth[t] = 1, NEW id \in Ids, NEW e \in Owners(d, t, id)
  PROVE  Live(d[t][id]) /\ d[t][id].key[ParentOf(t).from_col] = e /\ e \in Ids
<1>1. PICK w \in [0..1 -> Ids] :
         /\ w[0] = id /\ w[1] = e
         /\ \A i \in 0..1 : Live(d[TableOnPath(t, i)][w[i]])
         /\ \A i \in 1..1 : Joined(Path[t][i], d[TableOnPath(t, i - 1)][w[i - 1]],
                                               d[TableOnPath(t, i)][w[i]])
  BY DEF Owners
<1>2. Path[t][1] = ParentOf(t) /\ ParentOf(t).to \in Tables /\ ParentOf(t).to_col = "_id"
  BY PathStart, ParentOfFacts DEF ForeignKeySchema
<1>3. TableOnPath(t, 0) = t /\ TableOnPath(t, 1) = ParentOf(t).to
  BY <1>2 DEF TableOnPath
<1>4. Live(d[t][id]) /\ Live(d[ParentOf(t).to][e]) /\ e \in Ids
  BY <1>1, <1>3
<1>5. d[ParentOf(t).to][e].key["_id"] = e
  BY <1>2, <1>4, LiveRowIsKeyed
<1>6. Joined(ParentOf(t), d[t][id], d[ParentOf(t).to][e])
  <2>1. 1 \in 1..1 /\ 1 - 1 = 0
    OBVIOUS
  <2>2. Joined(Path[t][1], d[TableOnPath(t, 0)][w[0]], d[TableOnPath(t, 1)][w[1]])
    BY <1>1, <2>1
  <2>3. QED
    BY <1>1, <1>2, <1>3, <2>2
<1>7. QED
  BY <1>2, <1>4, <1>5, <1>6 DEF Joined

\* A row two hops away contributes to the entity that the row named by its
\* parent column names in turn.
LEMMA OwnersAtDepth2 ==
  ASSUME ForeignKeySchema, NEW d, Keyed(d),
         NEW t \in Tables, Depth[t] = 2, NEW id \in Ids, NEW e \in Owners(d, t, id)
  PROVE  \E p \in Ids :
           /\ Live(d[t][id]) /\ d[t][id].key[ParentOf(t).from_col] = p
           /\ Live(d[ParentOf(t).to][p])
           /\ d[ParentOf(t).to][p].key[ParentOf(ParentOf(t).to).from_col] = e
           /\ e \in Ids
<1> DEFINE u == ParentOf(t).to
<1>1. PICK w \in [0..2 -> Ids] :
         /\ w[0] = id /\ w[2] = e
         /\ \A i \in 0..2 : Live(d[TableOnPath(t, i)][w[i]])
         /\ \A i \in 1..2 : Joined(Path[t][i], d[TableOnPath(t, i - 1)][w[i - 1]],
                                               d[TableOnPath(t, i)][w[i]])
  BY DEF Owners
<1>2. /\ u \in Tables /\ Depth[u] = 1 /\ ParentOf(t).to_col = "_id"
      /\ ParentOf(u).to \in Tables /\ ParentOf(u).to_col = "_id"
  BY ParentOfFacts DEF ForeignKeySchema
<1>3. Path[t][1] = ParentOf(t) /\ Path[t][2] = ParentOf(u)
  BY PathStart
<1>4. TableOnPath(t, 0) = t /\ TableOnPath(t, 1) = u /\ TableOnPath(t, 2) = ParentOf(u).to
  BY <1>3 DEF TableOnPath
<1>5. w[1] \in Ids /\ e \in Ids
  BY <1>1
<1>6. Live(d[t][id]) /\ Live(d[u][w[1]]) /\ Live(d[ParentOf(u).to][e])
  BY <1>1, <1>4
<1>7. d[u][w[1]].key["_id"] = w[1] /\ d[ParentOf(u).to][e].key["_id"] = e
  BY <1>2, <1>5, <1>6, LiveRowIsKeyed
<1>8. /\ Joined(ParentOf(t), d[t][id], d[u][w[1]])
      /\ Joined(ParentOf(u), d[u][w[1]], d[ParentOf(u).to][e])
  <2>1. 1 \in 1..2 /\ 2 \in 1..2 /\ 1 - 1 = 0 /\ 2 - 1 = 1
    OBVIOUS
  <2>2. /\ Joined(Path[t][1], d[TableOnPath(t, 0)][w[0]], d[TableOnPath(t, 1)][w[1]])
        /\ Joined(Path[t][2], d[TableOnPath(t, 1)][w[1]], d[TableOnPath(t, 2)][w[2]])
    BY <1>1, <2>1
  <2>3. QED
    BY <1>1, <1>3, <1>4, <2>2
<1>9. d[t][id].key[ParentOf(t).from_col] = w[1]
  BY <1>2, <1>7, <1>8 DEF Joined
<1>10. d[u][w[1]].key[ParentOf(u).from_col] = e
  BY <1>2, <1>7, <1>8 DEF Joined
<1>11. QED
  BY <1>5, <1>6, <1>9, <1>10

----------------------------------------------------------------------------
\* What an event shows when whole old rows are streamed.

LEMMA EventShowsRow ==
  ASSUME ForeignKeySchema, NEW d, Keyed(d), NEW t \in Tables, NEW id \in Ids,
         NEW new \in RowVersions[t][id], Live(d[t][id]) \/ Live(new),
         NEW ev \in Event, ev.op = Op(d[t][id], new),
         ev.before = BeforeImage(d[t][id], new), ev.after = new
  PROVE  /\ ev.before = d[t][id]
         /\ IdField(ev) = id
         /\ Live(d[t][id]) => ev.op \in {"u", "d"}
         /\ Live(new) => ev.op \in {"c", "u"}
<1>1. ev.before = d[t][id]
  BY DEF BeforeImage, ForeignKeySchema
<1>2. d[t][id] \in RowVersions[t][id]
  BY DEF Keyed
<1>3. /\ d[t][id] = None \/ d[t][id].key["_id"] = id
      /\ new = None \/ new.key["_id"] = id
  BY <1>2, RowVersionsAreRows
<1>4. d[t][id] # None \/ new # None
  BY NoneIsRow
<1>5. QED
  BY <1>1, <1>3, <1>4, NoneIsRow DEF IdField, Op

\* A depth-1 event names the parent of the row before and of the row after.
LEMMA BothParentsNamed ==
  ASSUME NEW ev, NEW col, col = ParentOf(ev.table).from_col
  PROVE  /\ ev.op \in {"u", "d"} /\ ev.before.key[col] # NULL =>
              ev.before.key[col] \in NamedParents(ev)
         /\ ev.op \in {"c", "u"} /\ ev.after.key[col] # NULL =>
              ev.after.key[col] \in NamedParents(ev)
<1>1. CASE ev.op = "c"
  BY <1>1 DEF NamedParents
<1>2. CASE ev.op = "u"
  BY <1>2 DEF NamedParents
<1>3. CASE ev.op = "d"
  BY <1>3 DEF NamedParents
<1>4. QED
  BY <1>1, <1>2, <1>3

----------------------------------------------------------------------------
\* A change keeps the invariant.

LEMMA ChangeKeepsKeyed ==
  ASSUME TypeOK, Keyed(db), NEW t \in Tables, NEW id \in Ids,
         NEW new \in RowVersions[t][id], Change(t, id, new)
  PROVE  Keyed(db)'
<1> SUFFICES ASSUME NEW s \in Tables, NEW i \in Ids
             PROVE  db'[s][i] \in RowVersions[s][i]
  BY DEF Keyed
<1>1. db' = [db EXCEPT ![t][id] = new] /\ db \in [Tables -> [Ids -> Row]]
  BY DEF Change, TypeOK, Database
<1>2. db[s][i] \in RowVersions[s][i]
  BY DEF Keyed
<1>3. QED
  BY <1>1, <1>2

\* The parent row of an earlier event still leads to the entity, or the change
\* that is made to it names the entity.
LEMMA ChangeOfParentNames ==
  ASSUME ForeignKeySchema, TypeOK, Keyed(db),
         NEW t \in Tables, NEW id \in Ids, NEW new \in RowVersions[t][id], Change(t, id, new),
         NEW u \in Tables, Depth[u] = 1, NEW p \in Ids, NEW e \in Ids,
         QueryParentEntity(u, p) = e
  PROVE  \/ QueryParentEntity(u, p)' = e
         \/ Depth[log'[Len(log')].table] = 1 /\ e \in NamedParents(log'[Len(log')])
<1> DEFINE col == ParentOf(u).from_col
<1>1. Live(db[u][p]) /\ db[u][p].key[col] = e /\ e # NULL
  BY BaseAssumption DEF QueryParentEntity
<1>2. PICK ev \in Event : /\ log' = Append(log, ev)
                          /\ ev.table = t /\ ev.id = id /\ ev.op = Op(db[t][id], new)
                          /\ ev.before = BeforeImage(db[t][id], new) /\ ev.after = new
  BY ChangeEventType
<1>3. log'[Len(log')] = ev
  BY <1>2, AppendProperties DEF TypeOK
<1>4. db' = [db EXCEPT ![t][id] = new] /\ (Live(db[t][id]) \/ Live(new))
  BY DEF Change
<1>5. CASE t = u /\ id = p
  <2>1. ev.before = db[u][p] /\ ev.op \in {"u", "d"}
    BY <1>1, <1>2, <1>4, <1>5, EventShowsRow
  <2>2. e \in NamedParents(ev)
    BY <1>1, <1>2, <1>5, <2>1, BothParentsNamed
  <2>3. QED
    BY <1>2, <1>3, <1>5, <2>2
<1>6. CASE ~(t = u /\ id = p)
  <2>1. db'[u][p] = db[u][p]
    BY <1>4, <1>6 DEF TypeOK, Database
  <2>2. QED
    BY <1>1, <2>1 DEF QueryParentEntity
<1>7. QED
  BY <1>5, <1>6

\* The new event shows the way to the entities it concerns.
LEMMA NewEventShowsOwners ==
  ASSUME ForeignKeySchema, TypeOK, Keyed(db),
         NEW t \in Tables, NEW id \in Ids, NEW new \in RowVersions[t][id], Change(t, id, new),
         NEW ev, log' = Append(log, ev), ev \in Event
  PROVE  /\ IdField(ev) = ev.id
         /\ Depth[ev.table] = -1 => ev.owes = {}
         /\ Depth[ev.table] = 0 => ev.owes \subseteq {ev.id}
         /\ Depth[ev.table] = 1 => ev.owes \subseteq NamedParents(ev)
         /\ Depth[ev.table] = 2 /\ ~KeysChanged(ev) =>
               \A e \in ev.owes :
                   /\ ParentRowId(ev) # NULL
                   /\ QueryParentEntity(ParentOf(ev.table).to, ParentRowId(ev))' = e
<1>1. /\ db' = [db EXCEPT ![t][id] = new] /\ (Live(db[t][id]) \/ Live(new))
      /\ ev.table = t /\ ev.id = id /\ ev.op = Op(db[t][id], new)
      /\ ev.before = BeforeImage(db[t][id], new) /\ ev.after = new
      /\ ev.owes = Owners(db, t, id) \cup Owners(db', t, id)
  <2>1. PICK ev2 \in Event :
           /\ log' = Append(log, ev2)
           /\ ev2.table = t /\ ev2.id = id /\ ev2.op = Op(db[t][id], new)
           /\ ev2.before = BeforeImage(db[t][id], new) /\ ev2.after = new
           /\ ev2.owes = Owners(db, t, id) \cup Owners(db', t, id)
    BY ChangeEventType
  <2>2. ev2 = ev
    <3>1. log'[Len(log) + 1] = ev2
      BY <2>1, AppendProperties DEF TypeOK
    <3>2. log'[Len(log) + 1] = ev
      BY AppendProperties DEF TypeOK
    <3>3. QED
      BY <3>1, <3>2
  <2>3. QED
    BY <2>1, <2>2 DEF Change
<1>2. /\ ev.before = db[t][id] /\ IdField(ev) = id
      /\ Live(db[t][id]) => ev.op \in {"u", "d"}
      /\ Live(new) => ev.op \in {"c", "u"}
  BY <1>1, EventShowsRow
<1>3. Keyed(db') /\ db'[t][id] = new
  BY <1>1, ChangeKeepsKeyed DEF TypeOK, Database, Keyed
<1>4. Depth[t] = -1 => ev.owes = {}
  BY <1>1 DEF Owners
<1>5. Depth[t] = 0 => ev.owes \subseteq {id}
  BY <1>1, OwnersAtDepth0
<1>6. ASSUME Depth[t] = 1, NEW e \in ev.owes PROVE e \in NamedParents(ev)
  <2> DEFINE col == ParentOf(t).from_col
  <2>1. CASE e \in Owners(db, t, id)
    <3>1. Live(db[t][id]) /\ db[t][id].key[col] = e /\ e # NULL
      BY <1>6, <2>1, OwnersAtDepth1, BaseAssumption
    <3>2. QED
      BY <1>1, <1>2, <3>1, BothParentsNamed
  <2>2. CASE e \in Owners(db', t, id)
    <3>1. Live(new) /\ new.key[col] = e /\ e # NULL
      BY <1>3, <1>6, <2>2, OwnersAtDepth1, BaseAssumption
    <3>2. QED
      BY <1>1, <1>2, <3>1, BothParentsNamed
  <2>3. QED
    BY <1>1, <1>6, <2>1, <2>2
<1>7. ASSUME Depth[t] = 2, ~KeysChanged(ev), NEW e \in ev.owes
      PROVE  /\ ParentRowId(ev) # NULL
             /\ QueryParentEntity(ParentOf(t).to, ParentRowId(ev))' = e
  <2> DEFINE col == ParentOf(t).from_col
             u == ParentOf(t).to
  <2>1. u \in Tables /\ u # t /\ col \in JoinKeys(Graph, t)
    BY <1>7, ParentOfFacts
  <2>2. db'[u] = db[u]
    BY <1>1, <2>1 DEF TypeOK, Database
  <2>3. \A p : p \in Ids /\ Live(db[u][p]) /\ db[u][p].key[ParentOf(u).from_col] = e =>
               QueryParentEntity(u, p)' = e
    BY <2>2 DEF QueryParentEntity
  <2>4. CASE e \in Owners(db, t, id)
    <3>1. PICK p \in Ids : /\ Live(db[t][id]) /\ db[t][id].key[col] = p
                           /\ Live(db[u][p]) /\ db[u][p].key[ParentOf(u).from_col] = e
      BY <1>7, <2>4, OwnersAtDepth2
    <3>2. ev.op = "u" => ev.after.key[col] = ev.before.key[col]
      BY <1>1, <1>2, <1>7, <2>1, <3>1, NoneIsRow DEF KeysChanged
    <3>3. ParentRowId(ev) = p
      BY <1>1, <1>2, <3>1, <3>2 DEF ParentRowId
    <3>4. QED
      BY <2>3, <3>1, <3>3, BaseAssumption
  <2>5. CASE e \in Owners(db', t, id)
    <3>1. PICK p \in Ids : /\ Live(new) /\ new.key[col] = p
                           /\ Live(db'[u][p]) /\ db'[u][p].key[ParentOf(u).from_col] = e
      BY <1>3, <1>7, <2>5, OwnersAtDepth2
    <3>2. ParentRowId(ev) = p
      BY <1>1, <1>2, <3>1 DEF ParentRowId
    <3>3. QED
      BY <2>2, <2>3, <3>1, <3>2, BaseAssumption
  <2>6. QED
    BY <1>1, <1>7, <2>4, <2>5
<1>8. QED
  BY <1>1, <1>2, <1>4, <1>5, <1>6, <1>7

LEMMA LogGrows ==
  ASSUME TypeOK, NEW t \in Tables, NEW id \in Ids, NEW new \in RowVersions[t][id],
         Change(t, id, new)
  PROVE  /\ Len(log) \in Nat /\ Len(log') = Len(log) + 1
         /\ \A k \in 1..Len(log) : log'[k] = log[k]
         /\ \A k \in Nat, e \in Ids : NamedLater(k, e) => NamedLater(k, e)'
<1>1. PICK ev \in Event : log' = Append(log, ev)
  BY ChangeEventType
<1>2. /\ Len(log) \in Nat /\ Len(log') = Len(log) + 1
      /\ \A k \in 1..Len(log) : log'[k] = log[k]
  BY <1>1, AppendProperties, LenProperties DEF TypeOK
<1>3. ASSUME NEW k \in Nat, NEW e \in Ids, NamedLater(k, e) PROVE NamedLater(k, e)'
  <2>1. PICK j \in (k + 1)..Len(log) : Depth[log[j].table] = 1 /\ e \in NamedParents(log[j])
    BY <1>3 DEF NamedLater
  <2>2. j \in 1..Len(log) /\ j \in (k + 1)..Len(log')
    BY <1>2
  <2>3. log'[j] = log[j]
    BY <1>2, <2>2
  <2>4. QED
    BY <2>1, <2>2, <2>3 DEF NamedLater
<1>4. QED
  BY <1>2, <1>3

LEMMA ChangeStreamInv ==
  ASSUME ForeignKeySchema, TypeOK, StreamInv,
         NEW t \in Tables, NEW id \in Ids, NEW new \in RowVersions[t][id], Change(t, id, new)
  PROVE  StreamInv'
<1> DEFINE n == Len(log)
<1>1. /\ n \in Nat /\ Len(log') = n + 1
      /\ \A k \in 1..n : log'[k] = log[k]
      /\ \A k \in Nat, e \in Ids : NamedLater(k, e) => NamedLater(k, e)'
  BY LogGrows
<1>2. /\ hand' = hand /\ resolved' = resolved /\ lastTracked' = lastTracked
      /\ deferred' = deferred /\ todo' = todo \cup {n + 1}
  BY DEF Change, D!Send
<1>3. Keyed(db)'
  BY ChangeKeepsKeyed DEF StreamInv
<1>4. (\A e \in Ids : lastTracked[e] <= Len(log))'
  <2>1. \A e \in Ids : lastTracked[e] <= n /\ lastTracked[e] \in Nat \cup {-1}
    BY DEF StreamInv, TypeOK
  <2>2. QED
    BY <1>1, <1>2, <2>1
<1>5. \A k \in 1..n : log[k] \in Event
  BY ElementOfSeq DEF TypeOK
<1>6. ASSUME NEW k \in 1..Len(log'), NEW ev, ev = log'[k] PROVE ShowsOwners(k, ev)'
  <2>1. CASE k = n + 1
    <3>1. PICK new_ev \in Event : log' = Append(log, new_ev)
      BY ChangeEventType
    <3>2. ev = new_ev
      BY <1>6, <2>1, <3>1, AppendProperties DEF TypeOK
    <3>3. Keyed(db)
      BY DEF StreamInv
    <3>4. QED
      BY <3>1, <3>2, <3>3, NewEventShowsOwners DEF ShowsOwners
  <2>2. CASE k \in 1..n
    <3>1. ev \in Event /\ ev = log[k] /\ ShowsOwners(k, ev)
      BY <1>1, <1>5, <1>6, <2>2 DEF StreamInv
    <3>2. ASSUME Depth[ev.table] = 2, ~KeysChanged(ev), NEW e \in ev.owes
          PROVE  /\ ParentRowId(ev) # NULL
                 /\ \/ QueryParentEntity(ParentOf(ev.table).to, ParentRowId(ev))' = e
                    \/ NamedLater(k, e)'
      <4> DEFINE u == ParentOf(ev.table).to
                 p == ParentRowId(ev)
      <4>1. /\ p # NULL
            /\ QueryParentEntity(u, p) = e \/ NamedLater(k, e)
        BY <3>1, <3>2 DEF ShowsOwners
      <4>2. ev.table \in Tables /\ e \in Ids
        BY <3>1 DEF Event
      <4>3. u \in Tables /\ Depth[u] = 1 /\ ParentOf(ev.table).from_col \in Columns
        BY <3>2, <4>2, ParentOfFacts
      <4>4. p \in Ids
        BY <3>1, <4>1, <4>3 DEF ParentRowId, Event, Row
      <4>5. CASE NamedLater(k, e)
        BY <1>1, <4>1, <4>2, <4>5
      <4>6. CASE QueryParentEntity(u, p) = e
        <5> HIDE DEF u, p
        <5>1. \/ QueryParentEntity(u, p)' = e
              \/ Depth[log'[Len(log')].table] = 1 /\ e \in NamedParents(log'[Len(log')])
          BY <4>2, <4>3, <4>4, <4>6, ChangeOfParentNames DEF StreamInv
        <5>2. Len(log') \in (k + 1)..Len(log')
          BY <1>1, <2>2
        <5>3. QED
          BY <4>1, <5>1, <5>2 DEF NamedLater, u, p
      <4>7. QED
        BY <4>1, <4>5, <4>6
    <3>3. QED
      BY <3>1, <3>2 DEF ShowsOwners
  <2>3. QED
    BY <1>1, <2>1, <2>2
<1>7. ASSUME NEW k \in (1..Len(log')) \ todo' PROVE Settled(k)'
  <2>1. k \in 1..n /\ k \in Nat /\ log'[k] = log[k] /\ Settled(k)
    BY <1>1, <1>2 DEF StreamInv
  <2>2. log[k].owes \in SUBSET Ids
    BY <1>5, <2>1 DEF Event
  <2>3. \A e \in log[k].owes : NamedLater(k, e) => NamedLater(k, e)'
    BY <1>1, <2>1, <2>2
  <2>4. \A e : Told(e, k) => Told(e, k)'
    BY <1>2 DEF Told
  <2>5. QED
    BY <1>2, <2>1, <2>3, <2>4 DEF Settled
<1>8. AnswerCoversOwners'
  <2>1. CASE resolved = NULL
    BY <1>2, <2>1 DEF AnswerCoversOwners
  <2>2. CASE resolved # NULL
    <3>1. PICK m \in Nat : m = hand /\ m \in 1..n
      BY <1>1, <2>2 DEF TypeOK
    <3>2. event = log[m] /\ event' = log[m] /\ log[m].owes \in SUBSET Ids
      BY <1>1, <1>2, <1>5, <3>1 DEF event, Event
    <3>3. /\ Depth[log[m].table] = 2
          /\ \A e \in log[m].owes : e = resolved \/ NamedLater(m, e)
      BY <2>2, <3>1, <3>2 DEF StreamInv, AnswerCoversOwners
    <3>4. \A e \in log[m].owes : NamedLater(m, e) => NamedLater(m, e)'
      BY <1>1, <3>1, <3>2
    <3>5. hand' = m
      BY <1>2, <3>1
    <3>6. QED
      BY <1>2, <3>2, <3>3, <3>4, <3>5 DEF AnswerCoversOwners
  <2>3. QED
    BY <2>1, <2>2
<1>9. QED
  BY <1>3, <1>4, <1>6, <1>7, <1>8 DEF StreamInv

----------------------------------------------------------------------------
\* The stream, its failures and the percolator keep the invariant.

\* Tracking only ever raises last_tracked_at, so what is settled stays settled.
LEMMA SettledStays ==
  ASSUME TypeOK, StreamInv, UNCHANGED <<db, log>>, deferred \subseteq deferred',
         \A e \in Ids : lastTracked'[e] = lastTracked[e] \/ lastTracked'[e] = Len(log),
         NEW k \in 1..Len(log), Settled(k)
  PROVE  Settled(k)'
<1>1. log[k] \in Event /\ log[k].table \in Tables
  <2>1. log[k] \in Event
    BY ElementOfSeq DEF TypeOK
  <2>2. QED
    BY <2>1 DEF Event
<1>2. \A e \in Ids : Told(e, k) => Told(e, k)'
  <2>1. \A e \in Ids : lastTracked[e] \in Nat \cup {-1}
    BY DEF TypeOK
  <2>2. Len(log) \in Nat
    BY LenProperties DEF TypeOK
  <2>3. QED
    BY <2>1, <2>2 DEF Told
<1>3. Depth[log[k].table] = 1 => NamedParents(log[k]) \in SUBSET Ids
  BY <1>1, NamedParentsAreIds
<1>4. log[k].owes \in SUBSET Ids
  BY <1>1 DEF Event
<1>5. \A e : NamedLater(k, e) => NamedLater(k, e)'
  BY DEF NamedLater
<1>6. QED
  BY <1>2, <1>3, <1>4, <1>5 DEF Settled

\* A step that leaves tables and log alone keeps the invariant if the events it
\* takes off those to do are settled.
LEMMA StreamInvStays ==
  ASSUME TypeOK, StreamInv, UNCHANGED <<db, log>>, deferred \subseteq deferred',
         \A e \in Ids : lastTracked'[e] = lastTracked[e] \/ lastTracked'[e] = Len(log),
         \A k \in 1..Len(log) : k \in todo /\ k \notin todo' => Settled(k)',
         AnswerCoversOwners'
  PROVE  StreamInv'
<1>1. Len(log) \in Nat
  BY LenProperties DEF TypeOK
<1>2. Keyed(db)'
  BY DEF StreamInv, Keyed
<1>3. (\A e \in Ids : lastTracked[e] <= Len(log))'
  BY <1>1 DEF StreamInv, TypeOK
<1>4. ASSUME NEW k \in 1..Len(log), NEW ev, ShowsOwners(k, ev) PROVE ShowsOwners(k, ev)'
  BY <1>4 DEF ShowsOwners, NamedLater, QueryParentEntity
<1>5. (\A k \in 1..Len(log) : ShowsOwners(k, log[k]))'
  BY <1>4 DEF StreamInv
<1>6. ASSUME NEW k \in (1..Len(log')) \ todo' PROVE Settled(k)'
  <2>1. CASE k \notin todo
    BY <2>1, SettledStays DEF StreamInv
  <2>2. CASE k \in todo
    BY <2>2
  <2>3. QED
    BY <2>1, <2>2
<1>7. QED
  BY <1>2, <1>3, <1>5, <1>6 DEF StreamInv

\* A handler that leaves no answer behind, and settles its event.
LEMMA HandledKeepsInv ==
  ASSUME TypeOK, StreamInv, hand # 0, Handled, resolved' = NULL,
         deferred \subseteq deferred',
         \A e \in Ids : lastTracked'[e] = lastTracked[e] \/ lastTracked'[e] = Len(log),
         NEW k \in 1..Len(log), k = hand, Settled(k)'
  PROVE  StreamInv'
<1>1. AnswerCoversOwners'
  BY DEF AnswerCoversOwners
<1>2. UNCHANGED <<db, log>> /\ todo' = todo \ {k}
  BY DEF Handled, D!HandOver
<1>3. QED
  BY <1>1, <1>2, StreamInvStays

LEMMA TrackRaises ==
  ASSUME NEW entities, Track(entities)
  PROVE  /\ \A e \in Ids : lastTracked'[e] = lastTracked[e] \/ lastTracked'[e] = Len(log)
         /\ \A e \in Ids : e \in entities => lastTracked'[e] = Len(log)
  BY DEF Track

\* An event of a table whose row is put in inter is settled at depth 2 or more.
LEMMA DeferKeepsInv ==
  ASSUME TypeOK, StreamInv, hand # 0, Depth[event.table] >= 2, resolved' = NULL,
         IF IdField(event) = NULL THEN Skip ELSE Defer(event)
  PROVE  StreamInv'
<1>1. PICK k \in 1..Len(log) : k = hand /\ log[k] = event
  BY EventInHandType DEF event
<1>2. ShowsOwners(k, event) /\ event \in Event
  BY <1>1, EventInHandType DEF StreamInv
<1>3. Defer(event)
  BY <1>2, BaseAssumption DEF ShowsOwners, Event
<1>4. k \in deferred' /\ deferred \subseteq deferred' /\ Handled /\ lastTracked' = lastTracked
  BY <1>1, <1>3 DEF Defer
<1>5. event.table \in Tables /\ Depth[event.table] \in Nat \cup {-1}
  BY EventInHandType, TypesOfDepth
<1>6. log'[k] = event
  BY <1>1, <1>4 DEF Handled
<1>7. Settled(k)'
  BY <1>4, <1>5, <1>6 DEF Settled
<1>8. QED
  BY <1>1, <1>4, <1>7, HandledKeepsInv

LEMMA UnknownKeepsInv ==
  ASSUME TypeOK, StreamInv, SkipUnknownTable
  PROVE  StreamInv'
<1>1. PICK k \in 1..Len(log) : k = hand /\ log[k] = event
  BY EventInHandType DEF event, SkipUnknownTable, EventAtHand
<1>2. Settled(k)'
  BY <1>1 DEF SkipUnknownTable, Skip, Handled, Settled
<1>3. QED
  BY <1>1, <1>2, HandledKeepsInv DEF SkipUnknownTable, EventAtHand, Skip

LEMMA BaseTableKeepsInv ==
  ASSUME TypeOK, StreamInv, HandleBaseTable
  PROVE  StreamInv'
<1>1. PICK k \in 1..Len(log) : k = hand /\ log[k] = event
  BY EventInHandType DEF event, HandleBaseTable, EventAtHand
<1>2. /\ event \in Event /\ event.table = BaseTable /\ Depth[event.table] = 0
      /\ ShowsOwners(k, event) /\ IdField(event) # NULL /\ event.owes \subseteq {event.id}
  <2>1. event \in Event /\ event.table = BaseTable /\ Depth[event.table] = 0
    BY EventInHandType, TypesOfDepth DEF HandleBaseTable, EventAtHand
  <2>2. ShowsOwners(k, event)
    BY <1>1 DEF StreamInv
  <2>3. QED
    BY <2>1, <2>2, BaseAssumption DEF ShowsOwners, Event
<1>3. Immediate({event.id})
  BY <1>2 DEF HandleBaseTable, ShowsOwners
<1>4. \A e \in event.owes : lastTracked'[e] = Len(log)
  BY <1>2, <1>3, TrackRaises DEF Immediate, Event
<1>5. \A e \in event.owes : Told(e, k)'
  BY <1>4 DEF Told
<1>6. log'[k] = event
  BY <1>1, <1>3 DEF Immediate, Handled
<1>7. Settled(k)'
  BY <1>2, <1>5, <1>6 DEF Settled
<1>8. QED
  BY <1>1, <1>3, <1>7, HandledKeepsInv, TrackRaises
  DEF HandleBaseTable, EventAtHand, Immediate

LEMMA Depth1KeepsInv ==
  ASSUME TypeOK, StreamInv, HandleDepth1
  PROVE  StreamInv'
<1> DEFINE named == NamedParents(event)
<1>1. PICK k \in 1..Len(log) : k = hand /\ log[k] = event
  BY EventInHandType DEF event, HandleDepth1, EventAtHand
<1>2. event \in Event /\ Depth[event.table] = 1 /\ named \in SUBSET Ids
  BY EventInHandType, NamedParentsAreIds DEF HandleDepth1, EventAtHand
<1>3. /\ Handled /\ deferred' = deferred
      /\ \A e \in Ids : lastTracked'[e] = lastTracked[e] \/ lastTracked'[e] = Len(log)
      /\ \A e \in named : lastTracked'[e] = Len(log)
  <2>1. CASE named = {}
    BY <2>1 DEF HandleDepth1, Skip
  <2>2. CASE named # {}
    BY <1>2, <2>2, TrackRaises DEF HandleDepth1, Immediate
  <2>3. QED
    BY <2>1, <2>2
<1>4. \A e \in named : Told(e, k)'
  BY <1>3 DEF Told
<1>5. log'[k] = event
  BY <1>1, <1>3 DEF Handled
<1>6. Settled(k)'
  BY <1>2, <1>4, <1>5 DEF Settled
<1>7. QED
  BY <1>1, <1>3, <1>6, HandledKeepsInv DEF HandleDepth1, EventAtHand

LEMMA NoParentIdKeepsInv ==
  ASSUME TypeOK, StreamInv, Depth2NoParentId
  PROVE  StreamInv'
<1>1. PICK k \in 1..Len(log) : k = hand /\ log[k] = event
  BY EventInHandType DEF event, Depth2NoParentId, EventAtHand
<1>2. ShowsOwners(k, event)
  BY <1>1 DEF StreamInv
<1>3. Depth[event.table] = 2 /\ event.owes = {}
  BY <1>2 DEF Depth2NoParentId, ShowsOwners
<1>4. Settled(k)'
  BY <1>1, <1>3 DEF Depth2NoParentId, Skip, Handled, Settled
<1>5. QED
  BY <1>1, <1>4, HandledKeepsInv DEF Depth2NoParentId, EventAtHand, Skip

\* The answer of the query is the entity owed, or a later event names that one.
LEMMA QueryKeepsInv ==
  ASSUME TypeOK, StreamInv, Depth2Query
  PROVE  StreamInv'
<1>1. PICK k \in 1..Len(log) : k = hand /\ log[k] = event
  BY EventInHandType DEF event, Depth2Query, EventAtHand
<1>2. /\ event \in Event /\ Depth[event.table] = 2 /\ ~KeysChanged(event)
      /\ resolved' = QueryParentEntity(ParentOf(event.table).to, ParentRowId(event))
      /\ hand # 0
  BY EventInHandType DEF Depth2Query, EventAtHand
<1>3. ShowsOwners(k, event)
  BY <1>1 DEF StreamInv
<1>4. \A e \in event.owes : e = resolved' \/ NamedLater(k, e)
  BY <1>2, <1>3 DEF ShowsOwners
<1>5. CASE resolved' = NULL
  <2>1. Skip
    BY <1>5 DEF Depth2Query
  <2>2. \A e \in event.owes : NamedLater(k, e)
    BY <1>2, <1>4, <1>5, BaseAssumption DEF Event
  <2>3. log'[k] = event /\ log' = log
    BY <1>1, <2>1 DEF Skip, Handled
  <2>4. \A e \in event.owes : NamedLater(k, e)'
    BY <2>2, <2>3 DEF NamedLater
  <2>5. Settled(k)'
    BY <1>2, <2>3, <2>4 DEF Settled
  <2>6. QED
    BY <1>1, <1>2, <1>5, <2>1, <2>5, HandledKeepsInv DEF Skip
<1>6. CASE resolved' # NULL
  <2>1. UNCHANGED <<db, log, todo, hand, lastTracked, deferred>>
    BY <1>6 DEF Depth2Query
  <2>2. event' = event /\ hand' = k
    BY <1>1, <2>1 DEF event
  <2>3. \A e \in event.owes : NamedLater(k, e) => NamedLater(k, e)'
    BY <2>1 DEF NamedLater
  <2>4. AnswerCoversOwners'
    BY <1>2, <1>4, <2>2, <2>3 DEF AnswerCoversOwners
  <2>5. QED
    BY <2>1, <2>4, StreamInvStays
<1>7. QED
  BY <1>5, <1>6

LEMMA TrackAnswerKeepsInv ==
  ASSUME TypeOK, StreamInv, Depth2Track
  PROVE  StreamInv'
<1>1. hand # 0 /\ resolved # NULL /\ Immediate({resolved}) /\ resolved' = NULL
  BY DEF Depth2Track, TypeOK
<1>2. PICK k \in 1..Len(log) : k = hand /\ log[k] = event
  BY <1>1, EventInHandType DEF event
<1>3. event \in Event /\ Depth[event.table] = 2
  BY <1>1, EventInHandType DEF StreamInv, AnswerCoversOwners
<1>4. \A e \in event.owes : e = resolved \/ NamedLater(k, e)
  BY <1>1, <1>2 DEF StreamInv, AnswerCoversOwners
<1>5. \A e \in Ids : e = resolved => lastTracked'[e] = Len(log)
  BY <1>1, TrackRaises DEF Immediate
<1>6. \A e \in event.owes : Told(e, k)' \/ NamedLater(k, e)'
  <2>1. log' = log
    BY <1>1 DEF Immediate, Handled
  <2>2. \A e \in event.owes : e \in Ids
    BY <1>3 DEF Event
  <2>3. \A e \in event.owes : e = resolved => Told(e, k)'
    BY <1>5, <2>2 DEF Told
  <2>4. \A e \in event.owes : NamedLater(k, e) => NamedLater(k, e)'
    BY <2>1 DEF NamedLater
  <2>5. QED
    BY <1>4, <2>3, <2>4
<1>7. log'[k] = event
  BY <1>1, <1>2 DEF Immediate, Handled
<1>8. Settled(k)'
  BY <1>3, <1>6, <1>7 DEF Settled
<1>9. QED
  BY <1>1, <1>2, <1>8, HandledKeepsInv, TrackRaises DEF Immediate

LEMMA InitStreamInv == Init => StreamInv
<1> SUFFICES ASSUME Init PROVE StreamInv
  OBVIOUS
<1>1. Len(log) = 0
  BY EmptySeq, LenProperties DEF Init
<1>2. Keyed(db)
  BY DatabaseAssumption DEF Init, Keyed
<1>3. \A e \in Ids : lastTracked[e] <= Len(log)
  BY <1>1 DEF Init
<1>4. AnswerCoversOwners
  BY DEF Init, AnswerCoversOwners
<1>5. QED
  BY <1>1, <1>2, <1>3, <1>4 DEF StreamInv

\* The stream's invariant, for every schema of foreign keys to _id.
THEOREM StreamInvariant ==
  ASSUME ForeignKeySchema
  PROVE  Spec => []StreamInv
<1>1. TypeOK /\ StreamInv /\ [Next]_vars => StreamInv'
  <2> SUFFICES ASSUME TypeOK, StreamInv, [Next]_vars PROVE StreamInv'
    OBVIOUS
  <2>1. ASSUME NEW t \in Tables, NEW id \in Ids, NEW new \in RowVersions[t][id],
               Change(t, id, new)
        PROVE  StreamInv'
    BY <2>1, ChangeStreamInv
  <2>2. CASE SkipUnknownTable
    BY <2>2, UnknownKeepsInv
  <2>3. CASE HandleBaseTable
    BY <2>3, BaseTableKeepsInv
  <2>4. CASE HandleDepth1
    BY <2>4, Depth1KeepsInv
  <2>5. CASE Depth2Defer
    BY <2>5, DeferKeepsInv DEF Depth2Defer, EventAtHand
  <2>6. CASE Depth2NoParentId
    BY <2>6, NoParentIdKeepsInv
  <2>7. CASE Depth2Query
    BY <2>7, QueryKeepsInv
  <2>8. CASE Depth2Track
    BY <2>8, TrackAnswerKeepsInv
  <2>9. CASE Depth2Error
    BY <2>9, DeferKeepsInv DEF Depth2Error
  <2>10. CASE HandleDepth3Plus
    <3>1. Depth[event.table] \in Nat \cup {-1}
      BY <2>10, EventInHandType, TypesOfDepth DEF HandleDepth3Plus, EventAtHand
    <3>2. QED
      BY <2>10, <3>1, DeferKeepsInv DEF HandleDepth3Plus, EventAtHand
  <2>11. ASSUME NEW n \in 0..Len(log), Restart(n) PROVE StreamInv'
    <3>1. AnswerCoversOwners'
      BY <2>11 DEF Restart, AnswerCoversOwners
    <3>2. todo \subseteq todo'
      <4>1. /\ todo' = {k \in 1..Len(log) : k > n} /\ {k \in todo : k <= n} = {}
        BY <2>11 DEF Restart, D!Redeliver
      <4>2. todo \subseteq 1..Len(log) /\ Len(log) \in Nat
        BY LenProperties DEF TypeOK
      <4>3. \A k \in todo : k > n
        BY <4>1, <4>2
      <4>4. QED
        BY <4>1, <4>2, <4>3
    <3>3. QED
      BY <2>11, <3>1, <3>2, StreamInvStays DEF Restart
  <2>12. ASSUME UNCHANGED <<db, log, todo, hand, resolved, deferred>>,
                \A e \in Ids : lastTracked'[e] = lastTracked[e] \/ lastTracked'[e] = Len(log)
         PROVE  StreamInv'
    <3>1. event' = event
      BY <2>12 DEF event
    <3>2. \A k, e : NamedLater(k, e) => NamedLater(k, e)'
      BY <2>12 DEF NamedLater
    <3>3. AnswerCoversOwners'
      BY <2>12, <3>1, <3>2 DEF StreamInv, AnswerCoversOwners
    <3>4. QED
      BY <2>12, <3>1, <3>3, StreamInvStays
  <2>13. CASE Percolate
    BY <2>12, <2>13, TrackRaises DEF Percolate
  <2>14. CASE PercolateFails
    BY <2>12, <2>14 DEF PercolateFails
  <2>15. CASE CleanupOld
    BY <2>12, <2>15 DEF CleanupOld
  <2>16. ASSUME NEW m \in todo, Take(m) PROVE StreamInv'
    <3>1. resolved' = NULL
      BY <2>16 DEF Take, TypeOK
    <3>2. AnswerCoversOwners'
      BY <3>1 DEF AnswerCoversOwners
    <3>3. QED
      BY <2>16, <3>2, StreamInvStays DEF Take
  <2>17. CASE UNCHANGED vars
    BY <2>12, <2>17 DEF vars
  <2>18. QED
    BY <2>1, <2>2, <2>3, <2>4, <2>5, <2>6, <2>7, <2>8, <2>9, <2>10, <2>11, <2>13, <2>14,
       <2>15, <2>16, <2>17
    DEF Next, Source, Stream
<1>2. QED
  BY <1>1, InitStreamInv, TypeCorrect, PTL DEF Spec

\* Changes at depths 0 and 1 have tracked everyone they affect when handled.
THEOREM DirectChangesCorrect ==
  ASSUME ForeignKeySchema
  PROVE  Spec => []DirectChangesSettled
<1>1. TypeOK /\ StreamInv => DirectChangesSettled
  <2> SUFFICES ASSUME TypeOK, StreamInv, NEW k \in (1..Len(log)) \ todo,
                      Depth[log[k].table] \in {0, 1},
                      NEW e \in log[k].owes
               PROVE  Told(e, k)
    BY DEF DirectChangesSettled
  <2>1. k \in 1..Len(log)
    OBVIOUS
  <2>2. Settled(k) /\ ShowsOwners(k, log[k])
    BY <2>1 DEF StreamInv
  <2>3. QED
    BY <2>2 DEF Settled, ShowsOwners
<1>2. QED
  BY <1>1, StreamInvariant, TypeCorrect, PTL

\* A drained stream has forgotten no event: everyone affected has been told, or
\* the event's row is in inter.
THEOREM StreamCorrect ==
  ASSUME ForeignKeySchema
  PROVE  Spec => []StreamSettles
<1>1. TypeOK /\ StreamInv => StreamSettles
  <2> SUFFICES ASSUME TypeOK, StreamInv, Drained, NEW k \in 1..Len(log), NEW e \in log[k].owes,
                      k \notin deferred
               PROVE  Told(e, k)
    BY DEF StreamSettles
  <2>1. Settled(k) /\ ShowsOwners(k, log[k])
    BY DEF StreamInv, Drained
  <2>2. log[k] \in Event
    BY ElementOfSeq DEF TypeOK
  <2>3. log[k].table \in Tables /\ e \in Ids
    BY <2>2 DEF Event
  <2>4. Depth[log[k].table] \in {0, 1, 2}
    BY <2>1, <2>3, TypesOfDepth DEF Settled, ShowsOwners
  <2>5. CASE Depth[log[k].table] \in {0, 1}
    BY <2>1, <2>5 DEF Settled, ShowsOwners
  <2>6. CASE Depth[log[k].table] = 2 /\ NamedLater(k, e)
    <3>1. PICK j \in (k + 1)..Len(log) : Depth[log[j].table] = 1 /\ e \in NamedParents(log[j])
      BY <2>6 DEF NamedLater
    <3>2. Len(log) \in Nat /\ k \in 1..Len(log) /\ lastTracked[e] \in Nat \cup {-1}
      BY <2>3, LenProperties DEF TypeOK
    <3>3. j \in 1..Len(log) /\ j > k
      BY <3>2
    <3>4. Told(e, j)
      BY <3>1, <3>3 DEF StreamInv, Drained, Settled
    <3>5. QED
      BY <3>2, <3>3, <3>4 DEF Told
  <2>7. CASE Depth[log[k].table] = 2 /\ ~NamedLater(k, e)
    BY <2>1, <2>7 DEF Settled
  <2>8. QED
    BY <2>4, <2>5, <2>6, <2>7
<1>2. QED
  BY <1>1, StreamInvariant, TypeCorrect, PTL
=============================================================================
