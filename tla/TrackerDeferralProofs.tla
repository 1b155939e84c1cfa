------------------------ MODULE TrackerDeferralProofs ------------------------
(****************************************************************************)
(* Proofs about the deferred work of Tracker: an item stays pending until   *)
(* its row's owners have been told, and who is still owed something when    *)
(* stream and percolator are done is so for a known reason.                 *)
(****************************************************************************)
EXTENDS TrackerProofs

----------------------------------------------------------------------------
LEMMA DeferStep ==
  ASSUME TypeOK, DeferredAreFar, hand # 0, Defer(event), Depth[event.table] > 0
  PROVE  DeferredAreFar' /\ Pending(inter) \subseteq Pending(inter')
<1> DEFINE i == ItemOf(event)
<1>1. inter \in [ItemKey -> Item] /\ inter' = [inter EXCEPT ![i] = Upsert(@)]
  BY DEF TypeOK, Defer
<1>2. i.table = event.table
  BY DEF ItemOf
<1>3. \A k \in ItemKey :
         /\ inter'[k] = IF k = i THEN Upsert(inter[k]) ELSE inter[k]
         /\ inter[k].state = "pending" => inter'[k].state = "pending"
  BY <1>1 DEF Upsert
<1>4. DeferredAreFar'
  BY <1>2, <1>3 DEF DeferredAreFar
<1>5. QED
  BY <1>3, <1>4 DEF Pending

\* No step of the stream, no restart and no change to the tables takes an item
\* out of the pending ones.
LEMMA OthersKeepPending ==
  ASSUME TypeOK, DeferredAreFar,
         Source \/ Stream \/ (\E n \in 0..Len(log) : Restart(n)) \/ PercolateFails
  PROVE  DeferredAreFar' /\ Pending(inter) \subseteq Pending(inter')
<1>1. inter' = inter => DeferredAreFar' /\ Pending(inter) \subseteq Pending(inter')
  BY DEF DeferredAreFar
<1>2. CASE Source
  BY <1>1, <1>2 DEF Source, Change
<1>3. CASE \E m \in todo : Take(m)
  BY <1>1, <1>3 DEF Take
<1>4. CASE SkipUnknownTable \/ HandleBaseTable \/ HandleDepth1 \/ Depth2NoParentId
           \/ Depth2Query \/ Depth2Track
  BY <1>1, <1>4 DEF SkipUnknownTable, HandleBaseTable, HandleDepth1, Depth2NoParentId,
                    Depth2Query, Depth2Track, Skip, Immediate
<1>5. CASE Depth2Defer \/ HandleDepth3Plus
  <2>1. /\ hand # 0 /\ Depth[event.table] \in {2} \cup {d \in Nat : d >= 3}
        /\ Skip \/ Defer(event)
    <3>1. hand # 0 /\ event.table \in Tables
      BY <1>5, EventInHandType DEF Depth2Defer, HandleDepth3Plus, EventAtHand
    <3>2. Depth[event.table] \in Nat \cup {-1}
      BY <3>1, TypesOfDepth
    <3>3. QED
      BY <1>5, <3>1, <3>2 DEF Depth2Defer, HandleDepth3Plus
  <2>2. Depth[event.table] > 0
    BY <2>1
  <2>3. QED
    BY <1>1, <2>1, <2>2, DeferStep DEF Skip
<1>6. CASE Depth2Error
  <2>1. hand # 0 /\ Depth[event.table] > 0 /\ (Skip \/ Defer(event))
    BY <1>6 DEF Depth2Error
  <2>2. QED
    BY <1>1, <2>1, DeferStep DEF Skip
<1>7. CASE \E n \in 0..Len(log) : Restart(n)
  BY <1>1, <1>7 DEF Restart
<1>8. CASE PercolateFails
  BY <1>1, <1>8 DEF PercolateFails
<1>9. QED
  BY <1>2, <1>3, <1>4, <1>5, <1>6, <1>7, <1>8 DEF Stream

\* A batch tracks everybody the pending rows lead to and it does not leave out.
LEMMA BatchTellsOwners ==
  ASSUME TypeOK, DeferredAreFar,
         NEW batch, Track({s.base : s \in batch}),
         NEW k \in Pending(inter), NEW e \in Owners(db, k.table, k.id),
         ~\E r \in PercolationRows \ batch : r.table = k.table /\ r.base = e
  PROVE  lastTracked'[e] = Len(log)
<1>1. k \in ItemKey /\ k.table \in Tables /\ inter[k].state = "pending" /\ e \in Ids
  BY OwnersAreIds DEF Pending, ItemKey
<1>2. Depth[k.table] > 0
  BY <1>1 DEF DeferredAreFar
<1> DEFINE r == [table |-> k.table, base |-> e]
<1>3. r \in PercolationRows
  BY <1>1, <1>2 DEF PercolationRows
<1>4. r \in batch
  BY <1>3
<1>5. e \in {s.base : s \in batch}
  BY <1>4
<1>6. QED
  BY <1>1, <1>5 DEF Track

\* A batch leaves somebody out, or marks an item before its time, only if it is
\* cut short.
LEMMA OnlyCutShort ==
  ASSUME TypeOK, Percolate
  PROVE  \E batch \in SUBSET PercolationRows, marked \in SUBSET Pending(inter) :
            /\ Track({s.base : s \in batch})
            /\ inter' = [k \in ItemKey |->
                           IF k \in marked THEN [inter[k] EXCEPT !.state = "percolated"]
                                           ELSE inter[k]]
            /\ lost' = lost \cup CutOff(batch, marked)
            /\ batch = PercolationRows \/ CutShort
<1>1. PICK size \in BatchSizes :
        \E batch \in Limited(size, PercolationRows), marked \in Oldest(size) :
           /\ Track({s.base : s \in batch})
           /\ inter' = [k \in ItemKey |->
                          IF k \in marked THEN [inter[k] EXCEPT !.state = "percolated"]
                                          ELSE inter[k]]
           /\ lost' = lost \cup CutOff(batch, marked)
  BY DEF Percolate
<1>2. PICK batch \in Limited(size, PercolationRows), marked \in Oldest(size) :
        /\ Track({s.base : s \in batch})
        /\ inter' = [k \in ItemKey |->
                       IF k \in marked THEN [inter[k] EXCEPT !.state = "percolated"]
                                       ELSE inter[k]]
        /\ lost' = lost \cup CutOff(batch, marked)
  BY <1>1
<1>3. size \in Nat /\ inter \in [ItemKey -> Item]
  BY BatchAssumption DEF TypeOK
<1>4. batch \in SUBSET PercolationRows /\ marked \in SUBSET Pending(inter)
  BY DEF Oldest, Limited, kSubset
<1>5. Cardinality(marked) <= size
  BY <1>3 DEF Oldest, Limited, kSubset
<1>6. Pending(inter) \ Pending(inter') = marked
  BY <1>2, <1>3, <1>4 DEF Pending, Item
<1>7. CASE Cardinality(PercolationRows) <= size
  <2>1. batch = PercolationRows
    BY <1>7 DEF Limited
  <2>2. QED
    BY <1>2, <1>4, <2>1
<1>8. CASE ~(Cardinality(PercolationRows) <= size)
  <2>1. CutShort
    BY <1>5, <1>6, <1>8 DEF CutShort
  <2>2. QED
    BY <1>2, <1>4, <2>1
<1>9. QED
  BY <1>7, <1>8

LEMMA PercolatorKeepsFar ==
  ASSUME TypeOK, DeferredAreFar, Percolate \/ CleanupOld
  PROVE  DeferredAreFar'
<1>1. CASE Percolate
  <2>1. PICK marked \in SUBSET Pending(inter) :
          inter' = [k \in ItemKey |->
                      IF k \in marked THEN [inter[k] EXCEPT !.state = "percolated"] ELSE inter[k]]
    BY <1>1, OnlyCutShort
  <2>2. QED
    BY <2>1 DEF DeferredAreFar, Pending
<1>2. CASE CleanupOld
  BY <1>2 DEF CleanupOld, DeferredAreFar, NoItem
<1>3. QED
  BY <1>1, <1>2

ResolvedWhenTaken ==
    \A k \in Pending(inter) \ Pending(inter') :
        CutShort \/ \A e \in Owners(db, k.table, k.id) : lastTracked'[e] = Len(log)

\* Whatever the batch sizes, an item leaves the pending ones only in the step that
\* tracks everybody its row belongs to, or in one whose batch is cut short.
THEOREM PendingResolved == Spec => PendingUntilResolved
<1>1. Init => DeferredAreFar
  BY DEF Init, DeferredAreFar, NoItem
<1>2. TypeOK /\ DeferredAreFar /\ [Next]_vars => DeferredAreFar' /\ [ResolvedWhenTaken]_vars
  <2> SUFFICES ASSUME TypeOK, DeferredAreFar, [Next]_vars
               PROVE  DeferredAreFar' /\ ResolvedWhenTaken
    OBVIOUS
  <2>1. CASE Source \/ Stream \/ (\E n \in 0..Len(log) : Restart(n)) \/ PercolateFails
    BY <2>1, OthersKeepPending DEF ResolvedWhenTaken
  <2>2. CASE Percolate
    <3>1. CutShort \/ Track({s.base : s \in PercolationRows})
      BY <2>2, OnlyCutShort
    <3>2. CASE Track({s.base : s \in PercolationRows})
      BY <2>2, <3>2, BatchTellsOwners, PercolatorKeepsFar DEF ResolvedWhenTaken
    <3>3. QED
      BY <2>2, <3>1, <3>2, PercolatorKeepsFar DEF ResolvedWhenTaken
  <2>3. CASE CleanupOld
    <3>1. Pending(inter) \subseteq Pending(inter')
      BY <2>3 DEF CleanupOld, Pending
    <3>2. QED
      BY <2>3, <3>1, PercolatorKeepsFar DEF ResolvedWhenTaken
  <2>4. CASE UNCHANGED vars
    BY <2>4 DEF vars, DeferredAreFar, ResolvedWhenTaken
  <2>5. QED
    BY <2>1, <2>2, <2>3, <2>4 DEF Next
<1>3. Spec => [][ResolvedWhenTaken]_vars
  BY <1>1, <1>2, TypeCorrect, PTL DEF Spec
<1>4. QED
  BY <1>3 DEF PendingUntilResolved, ResolvedWhenTaken

----------------------------------------------------------------------------
\* The way from a row to its owners, and what a change to a row on it does.

\* The way of a table visits, hop by hop, tables one closer to the base table.
LEMMA PathTables ==
  ASSUME NEW t \in Tables, Depth[t] >= 0, NEW i \in 0..Depth[t]
  PROVE  TableOnPath(t, i) \in Tables /\ Depth[TableOnPath(t, i)] = Depth[t] - i
<1> DEFINE Bad == {n \in 0..Depth[t] :
                     ~(TableOnPath(t, n) \in Tables /\ Depth[TableOnPath(t, n)] = Depth[t] - n)}
<1>1. Depth[t] \in Nat
  BY TypesOfDepth
<1>2. SUFFICES ASSUME Bad # {} PROVE FALSE
  OBVIOUS
<1>3. PICK n \in Bad : \A m \in Bad : n <= m
  <2>1. Bad \in SUBSET Nat
    OBVIOUS
  <2>2. QED
    BY <1>2, <2>1, LeastNatural
<1>4. n # 0
  BY <1>1 DEF TableOnPath
<1>5. n \in 1..Depth[t] /\ n - 1 \in 0..Depth[t] /\ n - 1 \notin Bad
  BY <1>1, <1>3, <1>4
<1> DEFINE u == TableOnPath(t, n - 1)
<1>6. u \in Tables /\ Depth[u] = Depth[t] - (n - 1) /\ Depth[u] > 0
  BY <1>1, <1>5
<1>7. TableOnPath(t, n) = ParentOf(u).to
  BY <1>1, <1>5, PathAssumption DEF TableOnPath, ParentOf
<1>8. ParentOf(u).to \in Tables /\ Depth[ParentOf(u).to] = Depth[t] - n
  BY <1>1, <1>5, <1>6, ParentOfFacts
<1>9. QED
  BY <1>3, <1>7, <1>8

\* One join of the way is the parent join of the table it starts from.
LEMMA PathSteps ==
  ASSUME NEW t \in Tables, Depth[t] >= 0, NEW i \in 1..Depth[t]
  PROVE  Path[t][i] = ParentOf(TableOnPath(t, i - 1))
<1>1. Depth[t] > 0
  BY TypesOfDepth
<1>2. QED
  BY <1>1, PathAssumption, TypesOfDepth DEF TableOnPath, ParentOf

\* From a table on the way, the rest of the way is that table's own.
LEMMA PathSuffix ==
  ASSUME NEW t \in Tables, Depth[t] >= 0, NEW i \in 0..Depth[t],
         NEW u \in Tables, u = TableOnPath(t, i), NEW j \in 0..Depth[u]
  PROVE  TableOnPath(u, j) = TableOnPath(t, i + j)
<1>1. Depth[t] \in Nat /\ Depth[u] = Depth[t] - i /\ Depth[u] \in Nat
  BY TypesOfDepth, PathTables
<1> DEFINE Bad == {n \in 0..Depth[u] : TableOnPath(u, n) # TableOnPath(t, i + n)}
<1>2. SUFFICES ASSUME Bad # {} PROVE FALSE
  OBVIOUS
<1>3. PICK n \in Bad : \A m \in Bad : n <= m
  <2>1. Bad \in SUBSET Nat
    OBVIOUS
  <2>2. QED
    BY <1>2, <2>1, LeastNatural
<1>4. n # 0
  BY <1>1 DEF TableOnPath
<1>5. n \in 1..Depth[u] /\ n - 1 \in 0..Depth[u] /\ n - 1 \notin Bad
  BY <1>1, <1>3, <1>4
<1>6. TableOnPath(u, n - 1) = TableOnPath(t, i + n - 1)
  <2>1. i + (n - 1) = i + n - 1
    BY <1>1, <1>5
  <2>2. QED
    BY <1>5, <2>1
<1>7. i + n \in 1..Depth[t]
  BY <1>1, <1>5
<1>8. Path[u][n] = Path[t][i + n]
  BY <1>1, <1>5, <1>6, <1>7, PathSteps
<1>9. TableOnPath(u, n) = TableOnPath(t, i + n)
  BY <1>1, <1>4, <1>5, <1>7, <1>8 DEF TableOnPath
<1>10. QED
  BY <1>3, <1>9

\* If a change to one row takes an owner from another, then the owner was reached
\* through the row that changed, and the change owes it a refresh.
LEMMA ChangeTakesOwnOwners ==
  ASSUME NEW d \in Database, NEW t \in Tables, NEW id \in Ids, NEW new,
         NEW s \in Tables, NEW sid \in Ids, NEW e \in Owners(d, s, sid),
         e \notin Owners([d EXCEPT ![t][id] = new], s, sid)
  PROVE  e \in Owners(d, t, id)
<1> DEFINE next == [d EXCEPT ![t][id] = new]
<1>1. Depth[s] \in Nat /\ e \in Ids
  BY TypesOfDepth DEF Owners
<1>2. PICK w \in [0..Depth[s] -> Ids] :
        /\ w[0] = sid /\ w[Depth[s]] = e
        /\ \A i \in 0..Depth[s] : Live(d[TableOnPath(s, i)][w[i]])
        /\ \A i \in 1..Depth[s] :
              Joined(Path[s][i], d[TableOnPath(s, i - 1)][w[i - 1]], d[TableOnPath(s, i)][w[i]])
  BY <1>1 DEF Owners
<1>3. PICK i \in 0..Depth[s] : TableOnPath(s, i) = t /\ w[i] = id
  <2> SUFFICES ASSUME \A i \in 0..Depth[s] : ~(TableOnPath(s, i) = t /\ w[i] = id)
               PROVE  FALSE
    OBVIOUS
  <2>1. \A i \in 0..Depth[s] : next[TableOnPath(s, i)][w[i]] = d[TableOnPath(s, i)][w[i]]
    <3> SUFFICES ASSUME NEW i \in 0..Depth[s]
                 PROVE  next[TableOnPath(s, i)][w[i]] = d[TableOnPath(s, i)][w[i]]
      OBVIOUS
    <3>1. TableOnPath(s, i) \in Tables /\ w[i] \in Ids
      BY <1>1, PathTables
    <3>2. QED
      BY <3>1 DEF Database
  <2>2. \A i \in 1..Depth[s] : i \in 0..Depth[s] /\ i - 1 \in 0..Depth[s]
    BY <1>1
  <2>3. \A i \in 0..Depth[s] : Live(next[TableOnPath(s, i)][w[i]])
    BY <1>2, <2>1
  <2>4. \A i \in 1..Depth[s] :
           Joined(Path[s][i], next[TableOnPath(s, i - 1)][w[i - 1]], next[TableOnPath(s, i)][w[i]])
    BY <1>2, <2>1, <2>2
  <2>5. e \in Owners(next, s, sid)
    BY <1>1, <1>2, <2>3, <2>4 DEF Owners
  <2>6. QED
    BY <2>5
<1>4. Depth[t] = Depth[s] - i /\ Depth[t] \in Nat
  BY <1>1, <1>3, PathTables
<1> DEFINE v == [j \in 0..Depth[t] |-> w[i + j]]
<1>5. \A j \in 0..Depth[t] :
         i + j \in 0..Depth[s] /\ v[j] = w[i + j] /\ TableOnPath(t, j) = TableOnPath(s, i + j)
  BY <1>1, <1>3, <1>4, PathSuffix
<1>6. v \in [0..Depth[t] -> Ids] /\ v[0] = id /\ v[Depth[t]] = e
  BY <1>1, <1>2, <1>3, <1>4, <1>5
<1>7. \A j \in 0..Depth[t] : Live(d[TableOnPath(t, j)][v[j]])
  BY <1>2, <1>5
<1>8. ASSUME NEW j \in 1..Depth[t]
      PROVE  Joined(Path[t][j], d[TableOnPath(t, j - 1)][v[j - 1]], d[TableOnPath(t, j)][v[j]])
  <2>1. /\ i + j \in 1..Depth[s] /\ j \in 0..Depth[t] /\ j - 1 \in 0..Depth[t]
        /\ i + (j - 1) = i + j - 1
    BY <1>1, <1>4
  <2>2. Path[t][j] = Path[s][i + j]
    <3>1. TableOnPath(t, j - 1) = TableOnPath(s, i + j - 1)
      BY <1>5, <2>1
    <3>2. Path[t][j] = ParentOf(TableOnPath(t, j - 1))
      BY <1>4, PathSteps
    <3>3. Path[s][i + j] = ParentOf(TableOnPath(s, i + j - 1))
      BY <1>1, <2>1, PathSteps
    <3>4. QED
      BY <3>1, <3>2, <3>3
  <2>3. Joined(Path[s][i + j], d[TableOnPath(s, i + j - 1)][w[i + j - 1]],
                               d[TableOnPath(s, i + j)][w[i + j]])
    BY <1>2, <2>1
  <2>4. /\ v[j - 1] = w[i + j - 1] /\ TableOnPath(t, j - 1) = TableOnPath(s, i + j - 1)
        /\ v[j] = w[i + j] /\ TableOnPath(t, j) = TableOnPath(s, i + j)
    BY <1>5, <2>1
  <2>5. QED
    BY <2>2, <2>3, <2>4
<1> HIDE DEF v
<1>9. ~(Depth[t] < 0)
  BY <1>4
<1>10. QED
  BY <1>1, <1>6, <1>7, <1>8, <1>9 DEF Owners

----------------------------------------------------------------------------
\* The invariant of the deferred work.

LEMMA EventFacts ==
  ASSUME TypeOK, StreamInv, NEW k \in 1..Len(log)
  PROVE  /\ log[k].table \in Tables /\ log[k].id \in Ids /\ log[k].owes \in SUBSET Ids
         /\ ItemOf(log[k]).table = log[k].table /\ ItemOf(log[k]).id = log[k].id
         /\ ItemOf(log[k]) \in ItemKey
<1>1. log[k] \in Event
  BY ElementOfSeq DEF TypeOK
<1>2. IdField(log[k]) = log[k].id
  BY DEF StreamInv, ShowsOwners
<1>3. QED
  BY <1>1, <1>2 DEF Event, ItemOf, ItemKey

\* Who still belongs to its row after a change to the tables is as before, or is
\* owed a refresh by that very change.
LEMMA ChangeOwnersStay ==
  ASSUME TypeOK, StreamInv, OwnersStay,
         NEW t \in Tables, NEW id \in Ids, NEW new \in RowVersions[t][id], Change(t, id, new)
  PROVE  /\ OwnersStay'
         /\ \A k \in 1..Len(log) : \A e : OwedLater(k, e) => OwedLater(k, e)'
         /\ \A k \in 1..Len(log) : log'[k] = log[k]
<1> DEFINE n == Len(log)
           next == [db EXCEPT ![t][id] = new]
<1>1. /\ n \in Nat /\ Len(log') = n + 1
      /\ \A k \in 1..n : log'[k] = log[k]
  BY LogGrows
<1>2. /\ db' = next
      /\ log'[n + 1].table = t /\ log'[n + 1].id = id
      /\ log'[n + 1].owes = Owners(db, t, id) \cup Owners(next, t, id)
      /\ log'[n + 1].left = Owners(db, t, id) \ Owners(next, t, id)
  <2> DEFINE ev == [table |-> t, id |-> id, op |-> Op(db[t][id], new),
                    before |-> BeforeImage(db[t][id], new), after |-> new,
                    owes |-> Owners(db, t, id) \cup Owners(next, t, id),
                    left |-> Owners(db, t, id) \ Owners(next, t, id)]
  <2>1. log' = Append(log, ev) /\ db' = next
    BY DEF Change
  <2>2. log'[n + 1] = ev
    BY <2>1, AppendProperties DEF TypeOK
  <2>3. QED
    BY <2>1, <2>2
<1>3. ASSUME NEW k \in 1..n, NEW e, OwedLater(k, e) PROVE OwedLater(k, e)'
  <2>1. PICK j \in (k + 1)..n : e \in log[j].owes
    BY <1>3 DEF OwedLater
  <2>2. j \in 1..n /\ j \in (k + 1)..Len(log')
    BY <1>1
  <2>3. QED
    BY <1>1, <2>1, <2>2 DEF OwedLater
<1>4. ASSUME NEW k \in 1..Len(log'), NEW e \in log'[k].owes \ log'[k].left
      PROVE  e \in Owners(next, log'[k].table, log'[k].id) \/ OwedLater(k, e)'
  <2>1. CASE k = n + 1
    BY <1>2, <1>4, <2>1
  <2>2. CASE k \in 1..n /\ OwedLater(k, e)
    BY <1>3, <2>2
  <2>3. CASE k \in 1..n /\ ~OwedLater(k, e)
    <3>1. log'[k] = log[k] /\ log[k].table \in Tables /\ log[k].id \in Ids
      BY <1>1, <2>3, EventFacts
    <3>2. e \in Owners(db, log[k].table, log[k].id)
      BY <1>4, <2>3, <3>1 DEF OwnersStay
    <3>3. CASE e \in Owners(next, log[k].table, log[k].id)
      BY <3>1, <3>3
    <3>4. CASE e \notin Owners(next, log[k].table, log[k].id)
      <4>1. e \in Owners(db, t, id)
        <5>1. db \in Database
          BY DEF TypeOK
        <5>2. e \notin Owners([db EXCEPT ![t][id] = new], log[k].table, log[k].id)
          BY <3>4
        <5>3. QED
          BY <3>1, <3>2, <5>1, <5>2, ChangeTakesOwnOwners
      <4>2. e \in log'[n + 1].owes /\ n + 1 \in (k + 1)..Len(log')
        BY <1>1, <1>2, <2>3, <4>1
      <4>3. QED
        BY <4>2 DEF OwedLater
    <3>5. QED
      BY <3>3, <3>4
  <2>4. QED
    BY <1>1, <2>1, <2>2, <2>3
<1>5. OwnersStay'
  BY <1>2, <1>4 DEF OwnersStay
<1>6. QED
  BY <1>1, <1>3, <1>5

\* A step that leaves the log alone keeps the promise to whom a deferred event
\* owes something, if the event's item stays pending or everybody is told.
LEMMA WaitStays ==
  ASSUME TypeOK, StreamInv, DeferredWait, log' = log,
         \A e \in Ids : lastTracked'[e] = lastTracked[e] \/ lastTracked'[e] = Len(log),
         \A k \in deferred' \ lost' :
            \/ ItemOf(log[k]) \in Pending(inter')
            \/ /\ k \in deferred \ lost
               /\ \/ ItemOf(log[k]) \notin Pending(inter)
                  \/ \A e \in log[k].owes \ log[k].left :
                        lastTracked'[e] = Len(log) \/ OwedLater(k, e)
  PROVE  DeferredWait'
<1> SUFFICES ASSUME NEW k \in deferred' \ lost', NEW e \in log[k].owes \ log[k].left,
                    ItemOf(log[k]) \notin Pending(inter')
             PROVE  Told(e, k)' \/ OwedLater(k, e)'
  BY DEF DeferredWait, ItemOf, IdField, Pending
<1>1. k \in deferred \ lost /\ k \in 1..Len(log)
  BY DEF TypeOK
<1>2. Len(log) \in Nat /\ k <= Len(log) /\ k \in Nat
  BY <1>1, LenProperties DEF TypeOK
<1>3. e \in Ids /\ lastTracked[e] \in Nat \cup {-1} /\ lastTracked[e] <= Len(log)
  BY <1>1, EventFacts DEF TypeOK, StreamInv
<1>4. Told(e, k) => Told(e, k)'
  BY <1>2, <1>3 DEF Told
<1>5. OwedLater(k, e) => OwedLater(k, e)'
  BY DEF OwedLater
<1>6. lastTracked'[e] = Len(log) => Told(e, k)'
  BY <1>2 DEF Told
<1>7. CASE ItemOf(log[k]) \notin Pending(inter)
  <2>1. Told(e, k) \/ OwedLater(k, e)
    BY <1>1, <1>7 DEF DeferredWait
  <2>2. QED
    BY <1>4, <1>5, <2>1
<1>8. CASE ItemOf(log[k]) \in Pending(inter)
  <2>1. lastTracked'[e] = Len(log) \/ OwedLater(k, e)
    BY <1>1, <1>8
  <2>2. QED
    BY <1>5, <1>6, <2>1
<1>9. QED
  BY <1>7, <1>8

\* The event in hand goes to inter: it waits there, or it is lost.
LEMMA DeferWaits ==
  ASSUME TypeOK, StreamInv, DeferralInv, hand # 0, Defer(event)
  PROVE  DeferredWait'
<1> DEFINE i == ItemOf(event)
<1>1. PICK h \in 1..Len(log) : h = hand /\ log[h] = event
  BY EventInHandType DEF event
<1>2. /\ inter \in [ItemKey -> Item] /\ inter' = [inter EXCEPT ![i] = Upsert(@)]
      /\ deferred' = deferred \cup {hand} /\ log' = log /\ lastTracked' = lastTracked
      /\ lost' = IF inter[i].state = "percolated" THEN lost \cup {hand} ELSE lost
  BY DEF TypeOK, Defer, Handled
<1>3. i \in ItemKey
  BY <1>1, EventFacts
<1>4. inter'[i].state = IF inter[i].state = "none" THEN "pending" ELSE inter[i].state
  BY <1>2, <1>3 DEF Upsert
<1>5. inter[i].state # "percolated" => i \in Pending(inter')
  <2>1. inter[i].state \in {"none", "pending", "percolated"}
    BY <1>2, <1>3 DEF Item
  <2>2. QED
    BY <1>3, <1>4, <2>1 DEF Pending
<1>6. Pending(inter) \subseteq Pending(inter')
  BY <1>2, <1>3, <1>4 DEF Pending
<1>7. ASSUME NEW k \in deferred' \ lost', ItemOf(log[k]) \notin Pending(inter')
      PROVE  k \in deferred \ lost /\ ItemOf(log[k]) \notin Pending(inter)
  <2>1. k # hand
    BY <1>1, <1>2, <1>5, <1>7
  <2>2. QED
    BY <1>2, <1>6, <1>7, <2>1
<1>8. QED
  BY <1>2, <1>7, WaitStays DEF DeferralInv

\* An item that a batch resolves belongs to the entities the batch tracks, or to
\* those whom a later change owes a refresh, unless the batch cuts the event off.
LEMMA BatchKeepsPromise ==
  ASSUME TypeOK, StreamInv, DeferralInv, Percolate
  PROVE  DeferredWait'
<1>1. PICK batch \in SUBSET PercolationRows, marked \in SUBSET Pending(inter) :
        /\ Track({s.base : s \in batch})
        /\ inter' = [k \in ItemKey |->
                       IF k \in marked THEN [inter[k] EXCEPT !.state = "percolated"]
                                       ELSE inter[k]]
        /\ lost' = lost \cup CutOff(batch, marked)
  BY OnlyCutShort
<1>2. /\ UNCHANGED <<log, deferred>>
      /\ \A e \in Ids : lastTracked'[e] = lastTracked[e] \/ lastTracked'[e] = Len(log)
  BY <1>1, TrackRaises DEF Percolate
<1>3. Pending(inter) \ marked \subseteq Pending(inter')
  BY <1>1 DEF Pending
<1>4. ASSUME NEW k \in deferred \ lost', ItemOf(log[k]) \in marked,
             NEW e \in log[k].owes \ log[k].left, ~OwedLater(k, e)
      PROVE  lastTracked'[e] = Len(log)
  <2>1. k \in 1..Len(log)
    BY DEF TypeOK
  <2>2. e \in Owners(db, log[k].table, log[k].id)
    BY <1>4, <2>1 DEF DeferralInv, OwnersStay
  <2>3. ItemOf(log[k]).table = log[k].table /\ ItemOf(log[k]).id = log[k].id
    BY <2>1, EventFacts
  <2>4. ~\E r \in PercolationRows \ batch : r.table = log[k].table /\ r.base = e
    BY <1>1, <1>4 DEF CutOff
  <2> DEFINE i == ItemOf(log[k])
  <2>5. /\ i \in Pending(inter) /\ e \in Owners(db, i.table, i.id)
        /\ ~\E r \in PercolationRows \ batch : r.table = i.table /\ r.base = e
    BY <1>4, <2>2, <2>3, <2>4
  <2> HIDE DEF i
  <2>6. DeferredAreFar
    BY DEF DeferralInv
  <2>7. QED
    BY <1>1, <2>5, <2>6, BatchTellsOwners
<1>5. QED
  BY <1>1, <1>2, <1>3, <1>4, WaitStays DEF DeferralInv

LEMMA DeferralStep ==
  ASSUME TypeOK, StreamInv, DeferralInv, [Next]_vars
  PROVE  DeferralInv'
<1>1. db' = db /\ log' = log => OwnersStay'
  BY DEF DeferralInv, OwnersStay, OwedLater
<1>2. ASSUME log' = log, UNCHANGED <<inter, deferred, lost>>,
             \A e \in Ids : lastTracked'[e] = lastTracked[e] \/ lastTracked'[e] = Len(log)
      PROVE  DeferredWait' /\ DeferredAreFar'
  <2>1. DeferredAreFar'
    BY <1>2 DEF DeferralInv, DeferredAreFar
  <2>2. QED
    BY <1>2, <2>1, WaitStays DEF DeferralInv
<1>3. CASE Source
  <2>1. PICK t \in Tables, id \in Ids : \E new \in RowVersions[t][id] : Change(t, id, new)
    BY <1>3 DEF Source
  <2>2. PICK new \in RowVersions[t][id] : Change(t, id, new)
    BY <2>1
  <2>3. /\ OwnersStay'
        /\ \A k \in 1..Len(log) : \A e : OwedLater(k, e) => OwedLater(k, e)'
        /\ \A k \in 1..Len(log) : log'[k] = log[k]
    BY <2>2, ChangeOwnersStay DEF DeferralInv
  <2>4. UNCHANGED <<inter, deferred, lost, lastTracked>> /\ deferred \subseteq 1..Len(log)
    BY <2>2 DEF Change, TypeOK
  <2>5. DeferredWait'
    <3> SUFFICES ASSUME NEW k \in deferred \ lost, NEW e \in log[k].owes \ log[k].left
                 PROVE  Told(e, k)' \/ ItemOf(log[k]) \in Pending(inter) \/ OwedLater(k, e)'
      BY <2>3, <2>4 DEF DeferredWait, ItemOf, IdField, Pending
    <3>1. Told(e, k) \/ ItemOf(log[k]) \in Pending(inter) \/ OwedLater(k, e)
      BY DEF DeferralInv, DeferredWait
    <3>2. QED
      BY <2>3, <2>4, <3>1 DEF Told
  <2>6. QED
    BY <2>3, <2>4, <2>5 DEF DeferralInv, DeferredAreFar
<1>4. CASE Stream
  <2>1. CASE \/ \E m \in todo : Take(m)
             \/ SkipUnknownTable \/ Depth2NoParentId \/ Depth2Query
    BY <1>1, <1>2, <2>1 DEF Take, SkipUnknownTable, Depth2NoParentId, Depth2Query, Skip, Handled,
                            DeferralInv
  <2>2. CASE HandleBaseTable \/ HandleDepth1 \/ Depth2Track
    <3>1. /\ UNCHANGED <<db, log, inter, deferred, lost>>
          /\ lastTracked' = lastTracked \/ \E entities : Track(entities)
      BY <2>2 DEF HandleBaseTable, HandleDepth1, Depth2Track, Immediate, Skip, Handled
    <3>2. \A e \in Ids : lastTracked'[e] = lastTracked[e] \/ lastTracked'[e] = Len(log)
      BY <3>1, TrackRaises
    <3>3. QED
      BY <1>1, <1>2, <3>1, <3>2 DEF DeferralInv
  <2>3. CASE Depth2Defer \/ HandleDepth3Plus \/ Depth2Error
    <3>1. hand # 0 /\ (Skip \/ Defer(event)) /\ UNCHANGED <<db, log>>
      BY <2>3 DEF Depth2Defer, HandleDepth3Plus, Depth2Error, EventAtHand, Skip, Defer, Handled
    <3>2. DeferredAreFar'
      BY <1>4, OthersKeepPending DEF DeferralInv
    <3>3. CASE Skip
      BY <1>1, <1>2, <3>1, <3>3 DEF Skip, DeferralInv
    <3>4. CASE Defer(event)
      BY <1>1, <3>1, <3>2, <3>4, DeferWaits DEF DeferralInv
    <3>5. QED
      BY <3>1, <3>3, <3>4
  <2>4. QED
    BY <1>4, <2>1, <2>2, <2>3 DEF Stream
<1>5. CASE (\E n \in 0..Len(log) : Restart(n)) \/ PercolateFails
  BY <1>1, <1>2, <1>5 DEF Restart, PercolateFails, DeferralInv
<1>6. CASE Percolate
  <2>1. UNCHANGED <<db, log>>
    BY <1>6 DEF Percolate
  <2>2. QED
    BY <1>1, <1>6, <2>1, BatchKeepsPromise, PercolatorKeepsFar DEF DeferralInv
<1>7. CASE CleanupOld
  <2>1. UNCHANGED <<db, log, lastTracked, deferred, lost>> /\ Pending(inter) \subseteq Pending(inter')
    BY <1>7 DEF CleanupOld, Pending
  <2>2. DeferredWait'
    BY <2>1, WaitStays DEF DeferralInv
  <2>3. QED
    BY <1>1, <1>7, <2>1, <2>2, PercolatorKeepsFar DEF DeferralInv
<1>8. CASE UNCHANGED vars
  BY <1>1, <1>2, <1>8 DEF vars, DeferralInv
<1>9. QED
  BY <1>3, <1>4, <1>5, <1>6, <1>7, <1>8 DEF Next

\* The invariant of the deferred work, for every schema of foreign keys to _id and
\* all batch sizes.
THEOREM DeferralInvariant ==
  ASSUME ForeignKeySchema
  PROVE  Spec => []DeferralInv
<1>1. Init => DeferralInv
  <2> SUFFICES ASSUME Init PROVE DeferralInv
    OBVIOUS
  <2>1. log = <<>> /\ Len(log) = 0 /\ deferred = {} /\ \A k \in ItemKey : inter[k].state = "none"
    BY DEF Init, NoItem
  <2>2. QED
    BY <2>1 DEF DeferralInv, DeferredAreFar, OwnersStay, DeferredWait
<1>2. TypeOK /\ StreamInv /\ DeferralInv /\ [Next]_vars => DeferralInv'
  BY DeferralStep
<1>3. QED
  BY <1>1, <1>2, TypeCorrect, StreamInvariant, PTL DEF Spec

\* When stream and percolator have nothing left to do, who is still owed a refresh
\* is owed it by an event deferred onto a percolated item or cut off with its batch,
\* or by one with which the row left the entity.  The event is the last one that
\* owes the entity anything.
THEOREM LossesKnown ==
  ASSUME ForeignKeySchema
  PROVE  Spec => []LossesExplained
<1>1. TypeOK /\ StreamInv /\ StreamSettles /\ DeferralInv => LossesExplained
  <2> SUFFICES ASSUME TypeOK, StreamInv, StreamSettles, DeferralInv, Quiet,
                      NEW k \in 1..Len(log), NEW e \in log[k].owes, ~Told(e, k)
               PROVE  \E j \in deferred :
                         /\ e \in log[j].owes /\ ~Told(e, j)
                         /\ j \in lost \/ e \in log[j].left
    BY DEF LossesExplained
  <2> DEFINE n == Len(log)
             FromEnd == {i \in 0..n : n - i >= k /\ e \in log[n - i].owes}
  <2>1. n \in Nat /\ k \in Nat /\ k <= n /\ lastTracked[e] \in Nat \cup {-1}
    <3>1. n \in Nat
      BY LenProperties DEF TypeOK
    <3>2. e \in Ids
      BY EventFacts
    <3>3. lastTracked[e] \in Nat \cup {-1}
      BY <3>2 DEF TypeOK
    <3>4. QED
      BY <3>1, <3>3
  <2>2. PICK i \in FromEnd : \A m \in FromEnd : i <= m
    <3>1. FromEnd \in SUBSET Nat
      OBVIOUS
    <3>2. n - k \in 0..n /\ n - (n - k) = k
      BY <2>1
    <3>3. n - k \in FromEnd
      BY <2>1, <3>2
    <3>4. QED
      BY <3>1, <3>3, LeastNatural
  <2> DEFINE j == n - i
  <2>3. j \in 1..n /\ j >= k /\ e \in log[j].owes
    BY <2>1, <2>2
  <2>4. ~Told(e, j)
    BY <2>1, <2>3 DEF Told
  <2>5. j \in deferred
    BY <2>3, <2>4 DEF StreamSettles, Quiet
  <2>6. ~OwedLater(j, e)
    <3> SUFFICES ASSUME NEW m \in (j + 1)..n, e \in log[m].owes PROVE FALSE
      BY DEF OwedLater
    <3>1. n - m \in FromEnd
      <4>1. n - m \in 0..n /\ n - (n - m) = m /\ m >= k
        BY <2>1, <2>3
      <4>2. QED
        BY <4>1
    <3>2. i <= n - m
      BY <2>2, <3>1
    <3>3. i \in Nat /\ m \in Int /\ m >= n - i + 1
      BY <2>1, <2>2
    <3>4. QED
      BY <2>1, <3>2, <3>3
  <2>7. ItemOf(log[j]) \notin Pending(inter)
    BY DEF Quiet
  <2> HIDE DEF j
  <2>8. j \in lost \/ e \in log[j].left
    BY <2>3, <2>4, <2>5, <2>6, <2>7 DEF DeferralInv, DeferredWait
  <2>9. QED
    BY <2>3, <2>4, <2>5, <2>8
<1>2. QED
  BY <1>1, TypeCorrect, StreamInvariant, StreamCorrect, DeferralInvariant, PTL
=============================================================================
