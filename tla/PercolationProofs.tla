-------------------------- MODULE PercolationProofs --------------------------
(****************************************************************************)
(* Proofs about Percolation, for every set of rows and entities, every      *)
(* number of changes and crashes.                                           *)
(****************************************************************************)
EXTENDS Percolation, TLAPS

----------------------------------------------------------------------------
(* The inductive invariant.                                                 *)

\* What the engine does fits the event it has.
EngineFits ==
    LET ev == engine.event IN
    IF ev = None THEN ~tx["engine"].open
    ELSE /\ engine.step \in {"track", "defer"}
         /\ engine.step = "defer" \/ ev.far => ev.item \in Items
         /\ ev.item \in Items => ev.ids = Owner[ev.item]
         /\ tx["engine"].open =>
               tx["engine"].todo \cup tx["engine"].wrote =
                   IF engine.step = "track" THEN ev.ids ELSE {ev.item}

\* What the percolator writes fits its statement.
PercolatorFits ==
    LET rows == tx["percolator"].todo \cup tx["percolator"].wrote IN
    tx["percolator"].open =>
        \/ daemon = "insert" /\ rows \subseteq Entities
        \/ daemon = "update" /\ rows \cap Items \subseteq Pending(view)
        \/ daemon = "delete" /\ rows \subseteq {i \in Items : view[i].state = "percolated"}

\* A row the percolator's transaction could still write, or has written, is as
\* the transaction saw it.
ViewFresh ==
    tx["percolator"].open =>
        /\ \A i \in Items \ tx["percolator"].stale : view[i] = item[i]
        /\ \A i \in Items \cap tx["percolator"].stale : item[i].state # "none"
        /\ tx["percolator"].wrote \cap tx["percolator"].stale = {}

\* No row has two writers.
LocksExclusive == tx["engine"].wrote \cap tx["percolator"].wrote = {}

ClosedEmpty == \A p \in Process : ~tx[p].open => tx[p] = Closed

Inv ==
    /\ TypeOK /\ cutoff <= now
    /\ EngineFits /\ PercolatorFits /\ ViewFresh /\ LocksExclusive /\ ClosedEmpty

----------------------------------------------------------------------------
(* Transactions.                                                            *)

LEMMA TransactionType ==
  /\ Closed \in Transaction
  /\ Closed.open = FALSE /\ Closed.todo = {} /\ Closed.wrote = {} /\ Closed.stale = {}
  /\ \A S \in SUBSET Row :
        /\ Writing(S) \in Transaction
        /\ Writing(S).open = TRUE /\ Writing(S).todo = S
        /\ Writing(S).wrote = {} /\ Writing(S).stale = {}
BY DEF Closed, Writing, Transaction

LEMMA WriteEffect ==
  ASSUME TypeOK, NEW p \in Process, NEW row \in Row, Write(p, row)
  PROVE  /\ tx' \in [Process -> Transaction]
         /\ tx'[Other(p)] = tx[Other(p)]
         /\ tx'[p].open = tx[p].open /\ tx'[p].stale = tx[p].stale
         /\ tx'[p].todo = tx[p].todo \ {row}
         /\ tx'[p].wrote = tx[p].wrote \cup {row}
<1> DEFINE r == [tx[p] EXCEPT !.todo = @ \ {row}, !.wrote = @ \cup {row}]
<1>1. tx[p] \in Transaction
  BY DEF TypeOK
<1>2. /\ r \in Transaction
      /\ r.open = tx[p].open /\ r.stale = tx[p].stale
      /\ r.todo = tx[p].todo \ {row} /\ r.wrote = tx[p].wrote \cup {row}
  BY <1>1 DEF Transaction
<1>3. tx' = [tx EXCEPT ![p] = r]
  BY DEF Write
<1> HIDE DEF r
<1>4. /\ tx' \in [Process -> Transaction] /\ tx'[p] = r
      /\ tx'[Other(p)] = tx[Other(p)]
  BY <1>2, <1>3 DEF TypeOK, Process, Other
<1>5. QED
  BY <1>2, <1>4

LEMMA CommitEffect ==
  ASSUME TypeOK, NEW p \in Process, Commit(p)
  PROVE  /\ tx' \in [Process -> Transaction]
         /\ tx'[p] = Closed
         /\ ~tx[Other(p)].open => tx'[Other(p)] = Closed
         /\ tx[Other(p)].open =>
               /\ tx'[Other(p)].open
               /\ tx'[Other(p)].todo = tx[Other(p)].todo
               /\ tx'[Other(p)].wrote = tx[Other(p)].wrote
               /\ tx'[Other(p)].stale = tx[Other(p)].stale \cup tx[p].wrote
<1> DEFINE q == Other(p)
           r == [tx[q] EXCEPT !.stale = @ \cup tx[p].wrote]
<1>1. q \in Process /\ q # p /\ Process = {p, q}
  BY DEF Process, Other
<1>2. tx[p] \in Transaction /\ tx[q] \in Transaction
  BY <1>1 DEF TypeOK
<1>3. /\ r \in Transaction /\ r.open = tx[q].open /\ r.todo = tx[q].todo
      /\ r.wrote = tx[q].wrote /\ r.stale = tx[q].stale \cup tx[p].wrote
  BY <1>2 DEF Transaction
<1>4. tx'[p] = Closed /\ tx'[q] = IF ~tx[q].open THEN Closed ELSE r
  BY <1>1 DEF Commit
<1> HIDE DEF r
<1>5. tx' = [s \in Process |-> tx'[s]]
  BY DEF Commit
<1> HIDE DEF q
<1>6. tx' \in [Process -> Transaction]
  BY <1>1, <1>3, <1>4, <1>5, TransactionType
<1>7. QED
  BY <1>3, <1>4, <1>6 DEF q

LEMMA SetEffect ==
  ASSUME TypeOK, NEW p \in Process, NEW r \in Transaction, tx' = [tx EXCEPT ![p] = r]
  PROVE  tx' \in [Process -> Transaction] /\ tx'[p] = r /\ tx'[Other(p)] = tx[Other(p)]
BY DEF TypeOK, Process, Other

LEMMA Processes ==
  /\ "engine" \in Process /\ "percolator" \in Process
  /\ Other("engine") = "percolator" /\ Other("percolator") = "engine"
  /\ \A p \in Process : p = "engine" \/ p = "percolator"
BY DEF Process, Other

LEMMA LimitedSubset ==
  ASSUME NEW S, NEW m \in Limited(S)
  PROVE  m \subseteq S
BY DEF Limited, kSubset

----------------------------------------------------------------------------
(* Every step of the engine keeps the invariant.                            *)

LEMMA TypeFacts ==
  ASSUME TypeOK
  PROVE  /\ \A p \in Process : /\ tx[p] \in Transaction /\ tx[p].open \in BOOLEAN
                               /\ tx[p].todo \in SUBSET Row /\ tx[p].wrote \in SUBSET Row
                               /\ tx[p].stale \in SUBSET Row
         /\ \A i \in Items : /\ item[i] \in ItemRow /\ item[i].at \in Nat
                             /\ item[i].state \in {"none", "pending", "percolated"}
                             /\ view[i] \in ItemRow
BY DEF TypeOK, Transaction, ItemRow

LEMMA EventFacts ==
  ASSUME TypeOK, engine.event # None
  PROVE  /\ engine.event \in Event /\ engine.event.ids \in SUBSET Entities
         /\ engine.event.item \in Items \cup {None}
BY DEF TypeOK, Event

LEMMA EventsFacts ==
  ASSUME NEW ev \in Events
  PROVE  /\ ev \in Event /\ ev # None /\ ev.ids \in SUBSET Entities
         /\ ev.far => ev.item \in Items
         /\ ev.item \in Items => ev.ids = Owner[ev.item]
<1>1. None \notin Items /\ Near \subseteq Items /\ \A i \in Items : Owner[i] \in SUBSET Entities
  BY OwnerAssumption, RowsAssumption DEF Row
<1>2. CASE \E E \in SUBSET Entities : ev = [ids |-> E, item |-> None, far |-> FALSE]
  <2>1. PICK E \in SUBSET Entities : ev = [ids |-> E, item |-> None, far |-> FALSE]
    BY <1>2
  <2>2. ev \in Event /\ ev.far = FALSE /\ ev.item = None /\ ev.ids = E
    BY <2>1 DEF Event
  <2>3. QED
    BY <1>1, <2>2, NoneAssumption
<1>3. CASE \E i \in Items, f \in BOOLEAN : ev = [ids |-> Owner[i], item |-> i, far |-> f]
  BY <1>1, <1>3, NoneAssumption DEF Event
<1>4. QED
  BY <1>1, <1>2, <1>3 DEF Events

LEMMA ChangeInv ==
  ASSUME Inv, NEW ev \in Events, Change(ev)
  PROVE  Inv'
<1>1. /\ ev \in Event /\ ev # None /\ ev.ids \in SUBSET Entities
      /\ ev.far => ev.item \in Items
      /\ ev.item \in Items => ev.ids = Owner[ev.item]
  BY EventsFacts
<1>2. /\ engine' = [event |-> ev, step |-> IF ev.far THEN "defer" ELSE "track"]
      /\ now' = now + 1 /\ needs' = needs \cup ev.ids
      /\ UNCHANGED <<item, tx, crashes, forgotten, archive, daemon, view, cutoff, options, shutdown>>
  BY DEF Change, EngineOnly
<1>3. TypeOK' /\ (cutoff <= now)'
  BY <1>1, <1>2 DEF Inv, TypeOK
<1>4. EngineFits'
  BY <1>1, <1>2 DEF Inv, EngineFits, Change
<1>5. PercolatorFits' /\ ViewFresh' /\ LocksExclusive' /\ ClosedEmpty'
  BY <1>2 DEF Inv, PercolatorFits, ViewFresh, LocksExclusive, ClosedEmpty, Pending
<1>6. QED
  BY <1>3, <1>4, <1>5 DEF Inv

LEMMA EngineBeginInv ==
  ASSUME Inv, EngineBegin
  PROVE  Inv'
<1> DEFINE rows == IF engine.step = "track" THEN engine.event.ids ELSE {engine.event.item}
<1>1. /\ engine.event # None /\ ~tx["engine"].open
      /\ tx' = [tx EXCEPT !["engine"] = Writing(rows)]
      /\ UNCHANGED <<item, engine, now, crashes, needs, forgotten, archive, daemon, view,
                     cutoff, options, shutdown>>
  BY DEF EngineBegin, EngineOnly
<1>2. rows \in SUBSET Row
  BY <1>1, EventFacts DEF Inv, EngineFits, Row
<1> HIDE DEF rows
<1>3. /\ Writing(rows) \in Transaction /\ Writing(rows).open
      /\ Writing(rows).todo = rows /\ Writing(rows).wrote = {}
  BY <1>2, TransactionType
<1>4. /\ tx' \in [Process -> Transaction] /\ tx'["engine"] = Writing(rows)
      /\ tx'["percolator"] = tx["percolator"]
  BY <1>1, <1>3, SetEffect, Processes DEF Inv
<1>5. TypeOK' /\ (cutoff <= now)'
  BY <1>1, <1>4 DEF Inv, TypeOK
<1>6. EngineFits'
  BY <1>1, <1>3, <1>4 DEF Inv, EngineFits, rows
<1>7. PercolatorFits' /\ ViewFresh'
  BY <1>1, <1>4 DEF Inv, PercolatorFits, ViewFresh, Pending
<1>8. LocksExclusive' /\ ClosedEmpty'
  BY <1>3, <1>4, Processes DEF Inv, LocksExclusive, ClosedEmpty
<1>9. QED
  BY <1>5, <1>6, <1>7, <1>8 DEF Inv

LEMMA EngineWriteInv ==
  ASSUME Inv, NEW row \in tx["engine"].todo, Write("engine", row)
  PROVE  Inv'
<1>1. row \in Row
  BY TypeFacts, Processes DEF Inv
<1>2. /\ tx' \in [Process -> Transaction] /\ tx'["percolator"] = tx["percolator"]
      /\ tx'["engine"].open = tx["engine"].open
      /\ tx'["engine"].todo = tx["engine"].todo \ {row}
      /\ tx'["engine"].wrote = tx["engine"].wrote \cup {row}
  BY <1>1, WriteEffect, Processes DEF Inv
<1>3. /\ row \notin tx["percolator"].wrote
      /\ UNCHANGED <<item, archive, engine, daemon, view, cutoff, options, shutdown, now, crashes,
                     needs, forgotten>>
  BY Processes DEF Write, Locked
<1>4. TypeOK' /\ (cutoff <= now)'
  BY <1>2, <1>3 DEF Inv, TypeOK
<1>5. EngineFits'
  BY <1>2, <1>3 DEF Inv, EngineFits
<1>6. PercolatorFits' /\ ViewFresh'
  BY <1>2, <1>3 DEF Inv, PercolatorFits, ViewFresh, Pending
<1>7. LocksExclusive'
  BY <1>2, <1>3 DEF Inv, LocksExclusive
<1>8. tx["engine"].open
  BY Processes DEF Inv, ClosedEmpty, Closed
<1>9. ClosedEmpty'
  BY <1>2, <1>8, Processes DEF Inv, ClosedEmpty
<1>10. QED
  BY <1>4, <1>5, <1>6, <1>7, <1>9 DEF Inv

LEMMA TrackCommitsInv ==
  ASSUME Inv, TrackCommits
  PROVE  Inv'
<1>1. /\ engine.step = "track" /\ tx["engine"].open /\ tx["engine"].todo = {}
      /\ Commit("engine") /\ engine' = [event |-> None, step |-> "idle"]
      /\ needs' = needs \ tx["engine"].wrote /\ forgotten' = forgotten \ tx["engine"].wrote
      /\ UNCHANGED <<item, now, crashes, archive, daemon, view, cutoff, options, shutdown>>
  BY DEF TrackCommits, EngineOnly, EngineIdle, Done
<1>2. /\ tx' \in [Process -> Transaction] /\ tx'["engine"] = Closed
      /\ ~tx["percolator"].open => tx'["percolator"] = Closed
      /\ tx["percolator"].open =>
            /\ tx'["percolator"].open
            /\ tx'["percolator"].todo = tx["percolator"].todo
            /\ tx'["percolator"].wrote = tx["percolator"].wrote
            /\ tx'["percolator"].stale = tx["percolator"].stale \cup tx["engine"].wrote
  BY <1>1, CommitEffect, Processes DEF Inv
<1>3. engine.event # None /\ tx["engine"].wrote \subseteq Entities
  BY <1>1, EventFacts DEF Inv, EngineFits
<1>4. TypeOK' /\ (cutoff <= now)'
  BY <1>1, <1>2 DEF Inv, TypeOK
<1>5. EngineFits'
  BY <1>1, <1>2, TransactionType DEF EngineFits
<1>6. PercolatorFits'
  BY <1>1, <1>2, TransactionType DEF Inv, PercolatorFits, Pending
<1>7. ViewFresh'
  BY <1>1, <1>2, <1>3, TransactionType, RowsAssumption DEF Inv, ViewFresh, LocksExclusive
<1>8. LocksExclusive' /\ ClosedEmpty'
  BY <1>2, Processes, TransactionType DEF Inv, LocksExclusive, ClosedEmpty
<1>9. QED
  BY <1>4, <1>5, <1>6, <1>7, <1>8 DEF Inv

\* What a committed deferral does to intermediate_to_track.
LEMMA DeferEffect ==
  ASSUME Inv, DeferCommits
  PROVE  LET i == engine.event.item IN
         /\ engine.event # None /\ i \in Items /\ engine.event.ids = Owner[i]
         /\ tx["engine"].wrote = {i}
         /\ item' \in [Items -> ItemRow]
         /\ \A j \in Items \ {i} : item'[j] = item[j]
         /\ item'[i].at = now
         /\ item'[i].state = IF item[i].state = "none" THEN "pending" ELSE item[i].state
<1> DEFINE i == engine.event.item
           r == [item[i] EXCEPT !.state = IF @ = "none" THEN "pending" ELSE @, !.at = now]
<1>1. /\ engine.event # None /\ i \in Items /\ engine.event.ids = Owner[i]
      /\ tx["engine"].wrote = {i}
  BY DEF Inv, EngineFits, DeferCommits, Done
<1>2. item[i] \in ItemRow /\ now \in Nat
  BY <1>1 DEF Inv, TypeOK
<1>3. /\ r \in ItemRow /\ r.at = now
      /\ r.state = IF item[i].state = "none" THEN "pending" ELSE item[i].state
  BY <1>2 DEF ItemRow
<1>4. item' = [item EXCEPT ![i] = r]
  BY DEF DeferCommits
<1> HIDE DEF r
<1>5. /\ item' \in [Items -> ItemRow] /\ item'[i] = r
      /\ \A j \in Items \ {i} : item'[j] = item[j]
  BY <1>1, <1>3, <1>4 DEF Inv, TypeOK
<1>6. QED
  BY <1>1, <1>3, <1>5

LEMMA DeferCommitsInv ==
  ASSUME Inv, DeferCommits
  PROVE  Inv'
<1> DEFINE i == engine.event.item
<1>1. /\ Commit("engine") /\ engine' = [event |-> None, step |-> "idle"]
      /\ forgotten' = IF item[i].state = "percolated" THEN forgotten \cup Owner[i] ELSE forgotten
      /\ UNCHANGED <<needs, now, crashes, archive, daemon, view, cutoff, options, shutdown>>
  BY DEF DeferCommits, EngineOnly, EngineIdle
<1>2. /\ tx' \in [Process -> Transaction] /\ tx'["engine"] = Closed
      /\ ~tx["percolator"].open => tx'["percolator"] = Closed
      /\ tx["percolator"].open =>
            /\ tx'["percolator"].open
            /\ tx'["percolator"].todo = tx["percolator"].todo
            /\ tx'["percolator"].wrote = tx["percolator"].wrote
            /\ tx'["percolator"].stale = tx["percolator"].stale \cup tx["engine"].wrote
  BY <1>1, CommitEffect, Processes DEF Inv
<1>3. /\ i \in Items /\ tx["engine"].wrote = {i}
      /\ item' \in [Items -> ItemRow] /\ \A j \in Items \ {i} : item'[j] = item[j]
      /\ item'[i].state # "none"
  BY DeferEffect
<1>4. TypeOK' /\ (cutoff <= now)'
  BY <1>1, <1>2, <1>3, OwnerAssumption DEF Inv, TypeOK
<1>5. EngineFits'
  BY <1>1, <1>2, TransactionType DEF EngineFits
<1>6. PercolatorFits'
  BY <1>1, <1>2, TransactionType DEF Inv, PercolatorFits, Pending
<1>7. ViewFresh'
  <2>1. CASE ~tx["percolator"].open
    BY <2>1, <1>2, TransactionType DEF ViewFresh
  <2>2. CASE tx["percolator"].open
    <3>1. \A j \in Items \ tx'["percolator"].stale : view'[j] = item'[j]
      BY <2>2, <1>1, <1>2, <1>3 DEF Inv, ViewFresh
    <3>2. \A j \in Items \cap tx'["percolator"].stale : item'[j].state # "none"
      BY <2>2, <1>1, <1>2, <1>3 DEF Inv, ViewFresh
    <3>3. tx'["percolator"].wrote \cap tx'["percolator"].stale = {}
      BY <2>2, <1>2 DEF Inv, ViewFresh, LocksExclusive
    <3>4. QED
      BY <3>1, <3>2, <3>3 DEF ViewFresh
  <2>3. QED
    BY <2>1, <2>2
<1>8. LocksExclusive' /\ ClosedEmpty'
  BY <1>2, Processes, TransactionType DEF Inv, LocksExclusive, ClosedEmpty
<1>9. QED
  BY <1>4, <1>5, <1>6, <1>7, <1>8 DEF Inv

\* A failed transaction and a crash both leave the engine with its event and
\* nothing written.
LEMMA EngineAbortInv ==
  ASSUME Inv, EngineRaises \/ EngineCrashes
  PROVE  Inv'
<1>1. /\ Abort("engine")
      /\ UNCHANGED <<item, now, needs, forgotten, archive, daemon, view, cutoff, options, shutdown>>
      /\ crashes' = crashes \/ crashes' = crashes + 1
  BY DEF EngineRaises, EngineCrashes, EngineOnly
<1>2. /\ tx' \in [Process -> Transaction] /\ tx'["engine"] = Closed
      /\ tx'["percolator"] = tx["percolator"]
  BY <1>1, SetEffect, TransactionType, Processes DEF Inv, Abort
<1>3. engine.event # None
  <2>1. CASE EngineCrashes
    BY <2>1 DEF EngineCrashes
  <2>2. CASE EngineRaises
    <3>1. tx["engine"].todo # {}
      BY <2>2 DEF EngineRaises, MustAbort, Deadlocked
    <3>2. QED
      BY <3>1, Processes, TransactionType DEF Inv, ClosedEmpty, EngineFits
  <2>3. QED
    BY <2>1, <2>2
<1>4. /\ engine' \in [event : Event \cup {None}, step : {"idle", "track", "defer"}]
      /\ engine'.event = engine.event /\ engine'.step \in {"track", "defer"}
      /\ engine'.step = "defer" => engine.event.item \in Items
  BY <1>3, EventFacts DEF Inv, TypeOK, EngineFits, EngineRaises, EngineCrashes
<1>5. TypeOK' /\ (cutoff <= now)'
  BY <1>1, <1>2, <1>4 DEF Inv, TypeOK
<1>6. EngineFits'
  BY <1>2, <1>3, <1>4, TransactionType DEF Inv, EngineFits
<1>7. PercolatorFits' /\ ViewFresh'
  BY <1>1, <1>2 DEF Inv, PercolatorFits, ViewFresh, Pending
<1>8. LocksExclusive' /\ ClosedEmpty'
  BY <1>2, Processes, TransactionType DEF Inv, LocksExclusive, ClosedEmpty
<1>9. QED
  BY <1>5, <1>6, <1>7, <1>8 DEF Inv

----------------------------------------------------------------------------
(* Every step of the percolator keeps the invariant.                        *)

\* A statement: the percolator's transaction is all that changes.
LEMMA PercolatorWriteInv ==
  ASSUME Inv, NEW row \in tx["percolator"].todo, Write("percolator", row)
  PROVE  Inv'
<1>1. row \in Row
  BY TypeFacts, Processes DEF Inv
<1>2. /\ tx' \in [Process -> Transaction] /\ tx'["engine"] = tx["engine"]
      /\ tx'["percolator"].open = tx["percolator"].open
      /\ tx'["percolator"].stale = tx["percolator"].stale
      /\ tx'["percolator"].todo = tx["percolator"].todo \ {row}
      /\ tx'["percolator"].wrote = tx["percolator"].wrote \cup {row}
  BY <1>1, WriteEffect, Processes DEF Inv
<1>3. /\ row \notin tx["engine"].wrote /\ ~Conflict("percolator", row)
      /\ UNCHANGED <<item, archive, engine, daemon, view, cutoff, options, shutdown, now, crashes,
                     needs, forgotten>>
  BY Processes DEF Write, Locked
<1>4. tx["percolator"].open
  BY Processes DEF Inv, ClosedEmpty, Closed
<1>5. row \notin tx["percolator"].stale
  BY <1>1, <1>3, <1>4 DEF Conflict, Inv, ViewFresh
<1>6. TypeOK' /\ (cutoff <= now)'
  BY <1>2, <1>3 DEF Inv, TypeOK
<1>7. EngineFits' /\ LocksExclusive'
  BY <1>2, <1>3 DEF Inv, EngineFits, LocksExclusive
<1>8. PercolatorFits'
  <2>1. (tx["percolator"].todo \cup tx["percolator"].wrote)' =
           tx["percolator"].todo \cup tx["percolator"].wrote
    BY <1>2
  <2>2. QED
    BY <2>1, <1>2, <1>3, <1>4 DEF Inv, PercolatorFits, Pending
<1>9. ViewFresh'
  BY <1>2, <1>3, <1>4, <1>5 DEF Inv, ViewFresh
<1>10. ClosedEmpty'
  BY <1>2, <1>4, Processes DEF Inv, ClosedEmpty
<1>11. QED
  BY <1>6, <1>7, <1>8, <1>9, <1>10 DEF Inv

LEMMA BeginBatchInv ==
  ASSUME Inv, BeginBatch
  PROVE  Inv'
<1>1. PICK batch \in Limited(PercolationRows(item)) :
         tx' = [tx EXCEPT !["percolator"] = Writing({r[2] : r \in batch})]
  BY DEF BeginBatch
<1> DEFINE rows == {r[2] : r \in batch}
<1>2. rows \subseteq Entities
  BY LimitedSubset DEF PercolationRows
<1> HIDE DEF rows
<1>3. /\ Writing(rows) \in Transaction /\ Writing(rows).open
      /\ Writing(rows).todo = rows /\ Writing(rows).wrote = {} /\ Writing(rows).stale = {}
  BY <1>2, TransactionType DEF Row
<1>4. tx' = [tx EXCEPT !["percolator"] = Writing(rows)]
  BY <1>1 DEF rows
<1>5. /\ tx' \in [Process -> Transaction] /\ tx'["percolator"] = Writing(rows)
      /\ tx'["engine"] = tx["engine"]
  BY <1>3, <1>4, SetEffect, Processes DEF Inv
<1>6. /\ view' = item /\ daemon' = "insert"
      /\ UNCHANGED <<item, archive, cutoff, shutdown, crashes, needs, forgotten, engine, options, now>>
  BY DEF BeginBatch, Goto, DaemonOnly
<1>7. TypeOK' /\ (cutoff <= now)'
  BY <1>5, <1>6 DEF Inv, TypeOK
<1>8. EngineFits' /\ LocksExclusive'
  BY <1>3, <1>5, <1>6 DEF Inv, EngineFits, LocksExclusive
<1>9. PercolatorFits' /\ ViewFresh'
  BY <1>2, <1>3, <1>5, <1>6 DEF PercolatorFits, ViewFresh
<1>10. ClosedEmpty'
  BY <1>3, <1>5, Processes DEF Inv, ClosedEmpty
<1>11. QED
  BY <1>7, <1>8, <1>9, <1>10 DEF Inv

LEMMA BeginUpdateEffect ==
  ASSUME Inv, BeginUpdate
  PROVE  \E marked \in Oldest(view) :
            /\ marked \subseteq Pending(view)
            /\ tx' \in [Process -> Transaction] /\ tx'["engine"] = tx["engine"]
            /\ tx'["percolator"].open
            /\ tx'["percolator"].todo = marked
            /\ tx'["percolator"].wrote = tx["percolator"].wrote
            /\ tx'["percolator"].stale = tx["percolator"].stale
<1>1. PICK marked \in Oldest(view) : tx' = [tx EXCEPT !["percolator"].todo = marked]
  BY DEF BeginUpdate
<1> DEFINE r == [tx["percolator"] EXCEPT !.todo = marked]
<1>2. marked \subseteq Pending(view) /\ marked \subseteq Row
  BY LimitedSubset DEF Oldest, Pending, Row
<1>3. tx["percolator"] \in Transaction /\ tx["percolator"].open
  BY TypeFacts, Processes DEF Inv, BeginUpdate, Done
<1>4. /\ r \in Transaction /\ r.open /\ r.todo = marked
      /\ r.wrote = tx["percolator"].wrote /\ r.stale = tx["percolator"].stale
  BY <1>2, <1>3 DEF Transaction
<1>5. tx' = [tx EXCEPT !["percolator"] = r]
  BY <1>1
<1> HIDE DEF r
<1>6. /\ tx' \in [Process -> Transaction] /\ tx'["percolator"] = r
      /\ tx'["engine"] = tx["engine"]
  BY <1>4, <1>5, SetEffect, Processes DEF Inv
<1>7. QED
  BY <1>2, <1>4, <1>6

LEMMA BeginUpdateInv ==
  ASSUME Inv, BeginUpdate
  PROVE  Inv'
<1>1. PICK marked \in Oldest(view) :
         /\ marked \subseteq Pending(view)
         /\ tx' \in [Process -> Transaction] /\ tx'["engine"] = tx["engine"]
         /\ tx'["percolator"].open
         /\ tx'["percolator"].todo = marked
         /\ tx'["percolator"].wrote = tx["percolator"].wrote
         /\ tx'["percolator"].stale = tx["percolator"].stale
  BY BeginUpdateEffect
<1>2. /\ daemon = "insert" /\ daemon' = "update" /\ tx["percolator"].open
      /\ UNCHANGED <<item, archive, view, cutoff, shutdown, crashes, needs, forgotten, engine,
                     options, now>>
  BY DEF BeginUpdate, Goto, DaemonOnly, Done
<1>3. tx["percolator"].wrote \subseteq Entities
  BY <1>2 DEF Inv, PercolatorFits
<1>4. TypeOK' /\ (cutoff <= now)'
  BY <1>1, <1>2 DEF Inv, TypeOK
<1>5. EngineFits' /\ LocksExclusive'
  BY <1>1, <1>2 DEF Inv, EngineFits, LocksExclusive
<1>6. PercolatorFits'
  BY <1>1, <1>2, <1>3, RowsAssumption DEF PercolatorFits, Pending
<1>7. ViewFresh'
  BY <1>1, <1>2 DEF Inv, ViewFresh
<1>8. ClosedEmpty'
  BY <1>1, Processes DEF Inv, ClosedEmpty
<1>9. QED
  BY <1>4, <1>5, <1>6, <1>7, <1>8 DEF Inv

LEMMA BeginCleanupInv ==
  ASSUME Inv, BeginCleanup
  PROVE  Inv'
<1>1. PICK time \in cutoff..now :
         tx' = [tx EXCEPT !["percolator"] = Writing(Old(item, time))]
  BY DEF BeginCleanup
<1> DEFINE rows == Old(item, time)
<1>2. rows \subseteq Items /\ \A i \in rows : item[i].state = "percolated"
  BY DEF Old
<1> HIDE DEF rows
<1>3. /\ Writing(rows) \in Transaction /\ Writing(rows).open
      /\ Writing(rows).todo = rows /\ Writing(rows).wrote = {} /\ Writing(rows).stale = {}
  BY <1>2, TransactionType DEF Row
<1>4. tx' = [tx EXCEPT !["percolator"] = Writing(rows)]
  BY <1>1 DEF rows
<1>5. /\ tx' \in [Process -> Transaction] /\ tx'["percolator"] = Writing(rows)
      /\ tx'["engine"] = tx["engine"]
  BY <1>3, <1>4, SetEffect, Processes DEF Inv
<1>6. /\ view' = item /\ daemon' = "delete"
      /\ UNCHANGED <<item, archive, cutoff, shutdown, crashes, needs, forgotten, engine, options, now>>
  BY DEF BeginCleanup, Goto, DaemonOnly
<1>7. TypeOK' /\ (cutoff <= now)'
  BY <1>5, <1>6 DEF Inv, TypeOK
<1>8. EngineFits' /\ LocksExclusive'
  BY <1>3, <1>5, <1>6 DEF Inv, EngineFits, LocksExclusive
<1>9. PercolatorFits' /\ ViewFresh'
  BY <1>2, <1>3, <1>5, <1>6 DEF PercolatorFits, ViewFresh
<1>10. ClosedEmpty'
  BY <1>3, <1>5, Processes DEF Inv, ClosedEmpty
<1>11. QED
  BY <1>7, <1>8, <1>9, <1>10 DEF Inv

\* The percolator's transaction is gone, however it ended.
LEMMA PercolatorClosedInv ==
  ASSUME Inv, engine' = engine, item' \in [Items -> ItemRow], now' = now,
         cutoff' \in Nat, cutoff' <= now,
         archive' = archive, options' = options, shutdown' \in BOOLEAN, crashes' \in Nat,
         needs' \in SUBSET Entities, forgotten' \in SUBSET Entities,
         view' = NoItems, daemon' \in {"loop", "archiving", "sleeping", "raised"},
         tx' \in [Process -> Transaction], tx'["percolator"] = Closed,
         tx'["engine"].open = tx["engine"].open, tx'["engine"].todo = tx["engine"].todo,
         tx'["engine"].wrote = tx["engine"].wrote,
         ~tx["engine"].open => tx'["engine"] = Closed
  PROVE  Inv'
<1>1. NoItems \in [Items -> ItemRow]
  BY DEF NoItems, NoItem, ItemRow
<1>2. TypeOK' /\ (cutoff <= now)'
  BY <1>1 DEF Inv, TypeOK
<1>3. EngineFits'
  BY DEF Inv, EngineFits
<1>4. PercolatorFits' /\ ViewFresh' /\ LocksExclusive'
  BY TransactionType DEF PercolatorFits, ViewFresh, LocksExclusive
<1>5. ClosedEmpty'
  BY Processes DEF Inv, ClosedEmpty
<1>6. QED
  BY <1>2, <1>3, <1>4, <1>5 DEF Inv

LEMMA CommitBatchEffect ==
  ASSUME Inv, CommitBatch
  PROVE  LET S == tx["percolator"].wrote \cap Items IN
         /\ S \subseteq Pending(item)
         /\ S \subseteq Pending(view)
         /\ item' \in [Items -> ItemRow]
         /\ \A i \in S : item'[i].state = "percolated"
         /\ \A i \in Items \ S : item'[i] = item[i]
<1>1. /\ daemon = "update" /\ tx["percolator"].open
      /\ item' = [i \in Items |-> IF i \in tx["percolator"].wrote
                                  THEN [item[i] EXCEPT !.state = "percolated"] ELSE item[i]]
  BY DEF CommitBatch, Done
<1>2. tx["percolator"].wrote \cap Items \subseteq Pending(view)
  BY <1>1 DEF Inv, PercolatorFits
<1>3. \A i \in tx["percolator"].wrote \cap Items : item[i] = view[i]
  BY <1>1 DEF Inv, ViewFresh
<1>4. \A i \in Items : /\ [item[i] EXCEPT !.state = "percolated"] \in ItemRow
                       /\ [item[i] EXCEPT !.state = "percolated"].state = "percolated"
  <2>1. \A i \in Items : item[i] \in ItemRow
    BY TypeFacts DEF Inv
  <2>2. QED
    BY <2>1 DEF ItemRow
<1>5. item' \in [Items -> ItemRow]
  BY <1>1, <1>4, TypeFacts DEF Inv
<1>6. QED
  BY <1>1, <1>2, <1>3, <1>4, <1>5 DEF Pending

LEMMA CommitBatchInv ==
  ASSUME Inv, CommitBatch
  PROVE  Inv'
<1>1. /\ Commit("percolator") /\ view' = NoItems /\ daemon' \in {"archiving", "sleeping"}
      /\ needs' = needs \ tx["percolator"].wrote
      /\ forgotten' \subseteq forgotten \cup Owners(tx["percolator"].wrote \cap Items)
      /\ UNCHANGED <<archive, cutoff, shutdown, crashes, engine, options, now>>
  BY DEF CommitBatch, Goto, DaemonOnly
<1>2. /\ tx' \in [Process -> Transaction] /\ tx'["percolator"] = Closed
      /\ ~tx["engine"].open => tx'["engine"] = Closed
      /\ tx["engine"].open =>
            /\ tx'["engine"].open
            /\ tx'["engine"].todo = tx["engine"].todo
            /\ tx'["engine"].wrote = tx["engine"].wrote
  BY <1>1, CommitEffect, Processes DEF Inv
<1>3. /\ tx'["engine"].open = tx["engine"].open /\ tx'["engine"].todo = tx["engine"].todo
      /\ tx'["engine"].wrote = tx["engine"].wrote
  BY <1>2, TypeFacts, Processes DEF Inv, ClosedEmpty, TypeOK, Transaction
<1>4. item' \in [Items -> ItemRow]
  BY CommitBatchEffect
<1>5. /\ needs' \in SUBSET Entities /\ forgotten' \in SUBSET Entities
      /\ shutdown' \in BOOLEAN /\ crashes' \in Nat /\ cutoff' \in Nat /\ cutoff' <= now
  BY <1>1, OwnerAssumption DEF Inv, TypeOK, Owners
<1>6. QED
  BY <1>1, <1>2, <1>3, <1>4, <1>5, PercolatorClosedInv

LEMMA CommitCleanupEffect ==
  ASSUME Inv, CommitCleanup
  PROVE  LET S == tx["percolator"].wrote IN
         /\ S \subseteq Items
         /\ \A i \in S : item[i].state = "percolated" /\ item'[i] = NoItem
         /\ item' \in [Items -> ItemRow]
         /\ \A i \in Items \ S : item'[i] = item[i]
<1>1. /\ daemon = "delete" /\ tx["percolator"].open
      /\ item' = [i \in Items |-> IF i \in tx["percolator"].wrote THEN NoItem ELSE item[i]]
  BY DEF CommitCleanup, Done
<1>2. tx["percolator"].wrote \subseteq {i \in Items : view[i].state = "percolated"}
  BY <1>1 DEF Inv, PercolatorFits
<1>3. \A i \in tx["percolator"].wrote : item[i] = view[i]
  BY <1>1, <1>2 DEF Inv, ViewFresh
<1>4. NoItem \in ItemRow /\ \A i \in Items : item[i] \in ItemRow
  BY TypeFacts DEF NoItem, ItemRow, Inv
<1>5. item' \in [Items -> ItemRow]
  BY <1>1, <1>4
<1>6. QED
  BY <1>1, <1>2, <1>3, <1>5

LEMMA CommitCleanupInv ==
  ASSUME Inv, CommitCleanup
  PROVE  Inv'
<1>1. /\ Commit("percolator") /\ view' = NoItems /\ cutoff' = 0 /\ daemon' = "sleeping"
      /\ UNCHANGED <<archive, shutdown, crashes, needs, forgotten, engine, options, now>>
  BY DEF CommitCleanup, Goto, DaemonOnly
<1>2. /\ tx' \in [Process -> Transaction] /\ tx'["percolator"] = Closed
      /\ ~tx["engine"].open => tx'["engine"] = Closed
      /\ tx["engine"].open =>
            /\ tx'["engine"].open
            /\ tx'["engine"].todo = tx["engine"].todo
            /\ tx'["engine"].wrote = tx["engine"].wrote
  BY <1>1, CommitEffect, Processes DEF Inv
<1>3. /\ tx'["engine"].open = tx["engine"].open /\ tx'["engine"].todo = tx["engine"].todo
      /\ tx'["engine"].wrote = tx["engine"].wrote
  BY <1>2, TypeFacts, Processes DEF Inv, ClosedEmpty, TypeOK, Transaction
<1>4. item' \in [Items -> ItemRow]
  BY CommitCleanupEffect
<1>5. /\ needs' \in SUBSET Entities /\ forgotten' \in SUBSET Entities
      /\ shutdown' \in BOOLEAN /\ crashes' \in Nat /\ cutoff' \in Nat /\ cutoff' <= now
  BY <1>1 DEF Inv, TypeOK
<1>6. QED
  BY <1>1, <1>2, <1>3, <1>4, <1>5, PercolatorClosedInv

LEMMA PercolatorAbortInv ==
  ASSUME Inv, PercolatorRaises \/ PercolatorCrashes
  PROVE  Inv'
<1>1. /\ Abort("percolator") /\ view' = NoItems /\ cutoff' = 0 /\ daemon' \in {"raised", "loop"}
      /\ UNCHANGED <<item, archive, needs, forgotten, engine, options, now>>
      /\ shutdown' = shutdown \/ shutdown' = FALSE
      /\ crashes' = crashes \/ crashes' = crashes + 1
  BY DEF PercolatorRaises, PercolatorCrashes, Goto, DaemonOnly
<1>2. /\ tx' \in [Process -> Transaction] /\ tx'["percolator"] = Closed
      /\ tx'["engine"] = tx["engine"]
  BY <1>1, SetEffect, TransactionType, Processes DEF Inv, Abort
<1>3. /\ item' \in [Items -> ItemRow] /\ needs' \in SUBSET Entities
      /\ forgotten' \in SUBSET Entities /\ shutdown' \in BOOLEAN /\ crashes' \in Nat
  <2>1. crashes \in Nat /\ shutdown \in BOOLEAN /\ item \in [Items -> ItemRow]
    BY DEF Inv, TypeOK
  <2>2. crashes' \in Nat
    BY <1>1, <2>1
  <2>3. shutdown' \in BOOLEAN
    BY <1>1, <2>1
  <2>4. QED
    BY <1>1, <2>1, <2>2, <2>3 DEF Inv, TypeOK
<1>4. ~tx["engine"].open => tx'["engine"] = Closed
  BY <1>2, Processes DEF Inv, ClosedEmpty
<1>5. cutoff' \in Nat /\ cutoff' <= now
  BY <1>1 DEF Inv, TypeOK
<1>6. QED
  BY <1>1, <1>2, <1>3, <1>4, <1>5, PercolatorClosedInv

\* The steps between two transactions, and the signal.
LEMMA LoopInv ==
  ASSUME Inv, LoopEnds \/ CountPending \/ InsertFails \/ Archive \/ WakeUp \/ Signal
  PROVE  Inv'
<1>1. UNCHANGED <<item, tx, view, crashes, needs, forgotten, engine, options, now>>
  BY DEF LoopEnds, CountPending, InsertFails, Archive, WakeUp, Signal, DaemonOnly
<1>2. /\ archive' \in SUBSET [row : Items, at : Nat]
      /\ cutoff' \in Nat /\ cutoff' <= now /\ shutdown' \in BOOLEAN
  <2>1. CASE Archive
    <3>1. \A i \in Items : item[i].at \in Nat
      BY TypeFacts DEF Inv
    <3>2. QED
      BY <2>1, <3>1 DEF Archive, Inv, TypeOK, Old
  <2>2. CASE ~Archive
    BY <2>2 DEF LoopEnds, CountPending, InsertFails, WakeUp, Signal, Inv, TypeOK
  <2>3. QED
    BY <2>1, <2>2
<1>3. /\ daemon' \in {"loop", "counted", "insert", "update", "archiving", "archived", "delete",
                      "sleeping", "raised", "exited"}
      /\ daemon \in {"insert", "update", "delete"} => daemon' = daemon
  BY DEF LoopEnds, CountPending, InsertFails, Archive, WakeUp, Signal, Goto, Inv, TypeOK
<1>4. TypeOK' /\ (cutoff <= now)'
  BY <1>1, <1>2, <1>3 DEF Inv, TypeOK
<1>5. EngineFits' /\ ViewFresh' /\ LocksExclusive' /\ ClosedEmpty'
  BY <1>1 DEF Inv, EngineFits, ViewFresh, LocksExclusive, ClosedEmpty
<1>6. PercolatorFits'
  BY <1>1, <1>3 DEF Inv, PercolatorFits, Pending
<1>7. QED
  BY <1>4, <1>5, <1>6 DEF Inv

----------------------------------------------------------------------------
LEMMA InitInv == Init => Inv
<1> SUFFICES ASSUME Init PROVE Inv
  OBVIOUS
<1>1. NoItems \in [Items -> ItemRow]
  BY DEF NoItems, NoItem, ItemRow
<1>2. /\ tx \in [Process -> Transaction]
      /\ tx["engine"] = Closed /\ tx["percolator"] = Closed
  BY TransactionType, Processes DEF Init
<1>3. TypeOK /\ cutoff <= now
  <2>1. item \in [Items -> ItemRow] /\ view \in [Items -> ItemRow]
    BY <1>1 DEF Init
  <2>2. engine \in [event : Event \cup {None}, step : {"idle", "track", "defer"}]
    BY DEF Init
  <2>3. options \in Options /\ shutdown \in BOOLEAN
    BY DEF Init
  <2>4. /\ archive = {} /\ daemon = "loop" /\ cutoff = 0 /\ now = 0 /\ crashes = 0
        /\ needs = {} /\ forgotten = {}
    BY DEF Init
  <2>5. QED
    BY <1>2, <2>1, <2>2, <2>3, <2>4 DEF TypeOK
<1>4. EngineFits /\ PercolatorFits /\ ViewFresh /\ LocksExclusive /\ ClosedEmpty
  BY <1>2, Processes, TransactionType
     DEF Init, EngineFits, PercolatorFits, ViewFresh, LocksExclusive, ClosedEmpty
<1>5. QED
  BY <1>3, <1>4 DEF Inv

LEMMA StepInv == Inv /\ [Next]_vars => Inv'
<1> SUFFICES ASSUME Inv, [Next]_vars PROVE Inv'
  OBVIOUS
<1>1. CASE \E ev \in Events : Change(ev)
  BY <1>1, ChangeInv
<1>2. CASE Engine
  BY <1>2, EngineBeginInv, TrackCommitsInv, DeferCommitsInv, EngineAbortInv, EngineWriteInv
     DEF Engine
<1>3. CASE EngineCrashes
  BY <1>3, EngineAbortInv
<1>4. CASE Percolator
  BY <1>4, LoopInv, BeginBatchInv, BeginUpdateInv, CommitBatchInv, BeginCleanupInv,
     CommitCleanupInv, PercolatorAbortInv, PercolatorWriteInv DEF Percolator
<1>5. CASE PercolatorCrashes
  BY <1>5, PercolatorAbortInv
<1>6. CASE Signal
  BY <1>6, LoopInv
<1>7. CASE UNCHANGED vars
  BY <1>7 DEF vars, Inv, TypeOK, EngineFits, PercolatorFits, ViewFresh, LocksExclusive,
              ClosedEmpty, Pending
<1>8. QED
  BY <1>1, <1>2, <1>3, <1>4, <1>5, <1>6, <1>7 DEF Next

LEMMA AlwaysInv == Spec => []Inv
BY InitInv, StepInv, PTL DEF Spec

\* Every value of the state is of its type: in particular a failed handler never
\* defers an event that names no row, and archived rows have a time.
THEOREM TypeCorrect == Spec => []TypeOK
<1>1. Inv => TypeOK
  BY DEF Inv
<1>2. QED
  BY <1>1, AlwaysInv, PTL

----------------------------------------------------------------------------
(* A batch is whole, or cut short: whom its INSERT tells are those the rows  *)
(* its UPDATE sees lead to, because the two statements see the same rows,    *)
(* and as many of them as the LIMIT allows.                                  *)

WholeBatch ==
    LET rows == tx["percolator"].todo \cup tx["percolator"].wrote IN
    tx["percolator"].open /\ daemon \in {"insert", "update"} =>
        /\ Pending(view) \subseteq Pending(item)
        /\ rows \cap Entities \subseteq Owners(Pending(view))
        /\ Overfull(view) \/ Owners(Pending(view)) \subseteq rows

LEMMA LimitedWhole ==
  ASSUME NEW S, Cardinality(S) <= options.batch_size, NEW m \in Limited(S)
  PROVE  m = S
BY DEF Limited

LEMMA BatchRows ==
  ASSUME NEW batch \in Limited(PercolationRows(item))
  PROVE  /\ {r[2] : r \in batch} \subseteq Owners(Pending(item))
         /\ Overfull(item) \/ Owners(Pending(item)) \subseteq {r[2] : r \in batch}
<1>1. batch \subseteq PercolationRows(item)
  BY LimitedSubset
<1>2. \A i \in Items : Owner[i] \subseteq Entities
  BY OwnerAssumption
<1>3. {r[2] : r \in batch} \subseteq Owners(Pending(item))
  BY <1>1 DEF PercolationRows, Owners, Pending
<1>4. ASSUME ~Overfull(item), NEW i \in Pending(item), NEW e \in Owner[i]
      PROVE  e \in {r[2] : r \in batch}
  <2>1. batch = PercolationRows(item)
    BY <1>4, LimitedWhole DEF Overfull
  <2>2. i \in Items /\ e \in Entities
    BY <1>2, <1>4 DEF Pending
  <2>3. <<Table[i], e>> \in PercolationRows(item)
    BY <1>4, <2>2 DEF PercolationRows
  <2>4. QED
    BY <2>1, <2>3
<1>5. QED
  BY <1>3, <1>4 DEF Owners

LEMMA StepWholeBatch ==
  ASSUME Inv, WholeBatch, [Next]_vars
  PROVE  WholeBatch'
<1>1. CASE BeginBatch
  <2>1. PICK batch \in Limited(PercolationRows(item)) :
           tx' = [tx EXCEPT !["percolator"] = Writing({r[2] : r \in batch})]
    BY <1>1 DEF BeginBatch
  <2> DEFINE rows == {r[2] : r \in batch}
  <2>2. /\ rows \subseteq Owners(Pending(item))
        /\ Overfull(item) \/ Owners(Pending(item)) \subseteq rows
    BY BatchRows
  <2> HIDE DEF rows
  <2>3. tx'["percolator"] = Writing(rows)
    BY <2>1, Processes DEF Inv, TypeOK, rows
  <2>4. Writing(rows).todo \cup Writing(rows).wrote = rows
    BY DEF Writing
  <2>5. view' = item /\ item' = item /\ options' = options /\ daemon' = "insert"
    BY <1>1 DEF BeginBatch, Goto, DaemonOnly
  <2>6. Overfull(view)' <=> Overfull(item)
    BY <2>5 DEF Overfull, PercolationRows, Pending
  <2>7. Pending(view)' = Pending(item) /\ Pending(item)' = Pending(item)
    BY <2>5 DEF Pending
  <2>8. Owners(Pending(view))' = Owners(Pending(item))
    BY <2>7 DEF Owners
  <2>9. QED
    BY <2>2, <2>3, <2>4, <2>6, <2>7, <2>8 DEF WholeBatch
<1>2. CASE BeginUpdate
  <2>1. PICK marked \in Oldest(view) :
           /\ marked \subseteq Pending(view)
           /\ tx'["percolator"].todo = marked
           /\ tx'["percolator"].wrote = tx["percolator"].wrote
    BY <1>2, BeginUpdateEffect
  <2>2. /\ daemon = "insert" /\ tx["percolator"].open /\ tx["percolator"].todo = {}
        /\ UNCHANGED <<item, view, options>>
    BY <1>2 DEF BeginUpdate, Done, DaemonOnly
  <2>3. marked \cap Entities = {}
    BY <2>1, RowsAssumption DEF Pending
  <2>4. QED
    BY <2>1, <2>2, <2>3 DEF WholeBatch, Overfull, PercolationRows, Pending, Owners
<1>3. ASSUME NEW row \in tx["percolator"].todo, Write("percolator", row)
      PROVE  WholeBatch'
  <2>1. row \in Row
    BY TypeFacts, Processes DEF Inv
  <2>2. /\ tx'["percolator"].open = tx["percolator"].open
        /\ tx'["percolator"].todo = tx["percolator"].todo \ {row}
        /\ tx'["percolator"].wrote = tx["percolator"].wrote \cup {row}
    BY <1>3, <2>1, WriteEffect, Processes DEF Inv
  <2>3. UNCHANGED <<item, view, daemon, options>>
    BY <1>3 DEF Write
  <2>4. (tx["percolator"].todo \cup tx["percolator"].wrote)' =
           tx["percolator"].todo \cup tx["percolator"].wrote
    BY <2>2
  <2>5. QED
    BY <2>2, <2>3, <2>4 DEF WholeBatch, Overfull, PercolationRows, Pending, Owners
<1>4. CASE CommitBatch \/ CommitCleanup \/ PercolatorRaises \/ PercolatorCrashes
  <2>1. tx'["percolator"] = Closed
    BY <1>4, CommitEffect, SetEffect, TransactionType, Processes
       DEF Inv, CommitBatch, CommitCleanup, PercolatorRaises, PercolatorCrashes, Abort
  <2>2. QED
    BY <2>1, TransactionType DEF WholeBatch
<1>5. CASE BeginCleanup
  BY <1>5 DEF BeginCleanup, Goto, WholeBatch
<1>6. CASE LoopEnds \/ CountPending \/ InsertFails \/ Archive \/ WakeUp \/ Signal
  <2>1. UNCHANGED <<tx, item, view, options>>
    BY <1>6 DEF LoopEnds, CountPending, InsertFails, Archive, WakeUp, Signal, DaemonOnly
  <2>2. daemon' # daemon => daemon' \notin {"insert", "update"}
    BY <1>6 DEF LoopEnds, CountPending, InsertFails, Archive, WakeUp, Signal, Goto
  <2>3. QED
    BY <2>1, <2>2 DEF WholeBatch, Overfull, PercolationRows, Pending, Owners
<1>7. CASE EngineBegin \/ EngineRaises \/ EngineCrashes
            \/ (\E ev \in Events : Change(ev)) \/ UNCHANGED vars
  <2>1. UNCHANGED <<item, view, daemon, options>> /\ tx'["percolator"] = tx["percolator"]
    BY <1>7, Processes
       DEF EngineBegin, EngineRaises, EngineCrashes, Change, EngineOnly, Abort, Inv, TypeOK, vars
  <2>2. QED
    BY <2>1 DEF WholeBatch, Overfull, PercolationRows, Pending, Owners
<1>8. ASSUME NEW row \in tx["engine"].todo, Write("engine", row)
      PROVE  WholeBatch'
  <2>1. row \in Row
    BY TypeFacts, Processes DEF Inv
  <2>2. UNCHANGED <<item, view, daemon, options>> /\ tx'["percolator"] = tx["percolator"]
    BY <1>8, <2>1, WriteEffect, Processes DEF Write, Inv
  <2>3. QED
    BY <2>2 DEF WholeBatch, Overfull, PercolationRows, Pending, Owners
<1>9. CASE TrackCommits \/ DeferCommits
  <2>1. Commit("engine") /\ UNCHANGED <<view, daemon, options>>
    BY <1>9 DEF TrackCommits, DeferCommits, EngineOnly
  <2>2. /\ ~tx["percolator"].open => tx'["percolator"] = Closed
        /\ tx["percolator"].open => /\ tx'["percolator"].todo = tx["percolator"].todo
                                    /\ tx'["percolator"].wrote = tx["percolator"].wrote
    BY <2>1, CommitEffect, Processes DEF Inv
  <2>3. Pending(item) \subseteq Pending(item')
    <3>1. CASE TrackCommits
      BY <3>1 DEF TrackCommits
    <3>2. CASE DeferCommits
      BY <3>2, DeferEffect DEF Pending
    <3>3. QED
      BY <1>9, <3>1, <3>2
  <2>4. /\ Pending(view)' = Pending(view) /\ Owners(Pending(view))' = Owners(Pending(view))
        /\ Overfull(view)' <=> Overfull(view)
    BY <2>1 DEF Overfull, PercolationRows, Pending, Owners
  <2>5. ~tx["percolator"].open => ~tx'["percolator"].open
    BY <2>2, TransactionType
  <2>6. QED
    BY <2>1, <2>2, <2>3, <2>4, <2>5 DEF WholeBatch
<1>10. QED
  BY <1>1, <1>2, <1>3, <1>4, <1>5, <1>6, <1>7, <1>8, <1>9 DEF Next, Engine, Percolator

LEMMA InitWholeBatch == Init => WholeBatch
BY TransactionType, Processes DEF Init, WholeBatch

\* What a batch that commits has told and marked.
LEMMA WholeBatchCommits ==
  ASSUME Inv, WholeBatch, CommitBatch
  PROVE  LET S == tx["percolator"].wrote \cap Items
             E == tx["percolator"].wrote \cap Entities
         IN
         /\ S \subseteq Pending(view) /\ Pending(view) \subseteq Pending(item)
         /\ E \subseteq Owners(Pending(item))
         /\ Overfull(view) \/ Owners(S) \subseteq E
<1>1. /\ daemon = "update" /\ tx["percolator"].open /\ tx["percolator"].todo = {}
  BY DEF CommitBatch, Done
<1>2. /\ Pending(view) \subseteq Pending(item)
      /\ tx["percolator"].wrote \cap Entities \subseteq Owners(Pending(view))
      /\ Overfull(view) \/ Owners(Pending(view)) \subseteq tx["percolator"].wrote
  BY <1>1 DEF WholeBatch
<1>3. tx["percolator"].wrote \cap Items \subseteq Pending(view)
  BY CommitBatchEffect
<1>4. Owners(Pending(view)) \subseteq Entities /\ Owners(Pending(view)) \subseteq Owners(Pending(item))
  BY <1>2, OwnerAssumption DEF Pending, Owners
<1>5. Owners(tx["percolator"].wrote \cap Items) \subseteq Owners(Pending(view))
  BY <1>3 DEF Owners
<1>6. QED
  BY <1>2, <1>3, <1>4, <1>5

----------------------------------------------------------------------------
LEMMA StepNobodyMissed ==
  ASSUME Inv, WholeBatch, NobodyMissed, [Next]_vars
  PROVE  NobodyMissed'
<1> DEFINE InHand == IF engine.event = None THEN {} ELSE engine.event.ids
           Waiting == Owners(Pending(item))
<1>1. CASE UNCHANGED <<item, needs, forgotten>> /\ engine'.event = engine.event
  BY <1>1 DEF NobodyMissed, Owners, Pending
<1>2. ASSUME NEW ev \in Events, Change(ev)
      PROVE  NobodyMissed'
  <2>1. /\ InHand = {} /\ needs' = needs \cup ev.ids /\ engine'.event = ev
        /\ UNCHANGED <<item, forgotten>>
    BY <1>2 DEF Change
  <2>2. ev # None
    BY EventsFacts
  <2>3. Waiting' = Waiting
    BY <2>1 DEF Owners, Pending
  <2>4. QED
    BY <2>1, <2>2, <2>3 DEF NobodyMissed
<1>3. CASE TrackCommits
  <2>1. /\ needs' = needs \ tx["engine"].wrote /\ forgotten' = forgotten \ tx["engine"].wrote
        /\ item' = item /\ engine'.event = None
    BY <1>3 DEF TrackCommits, EngineIdle
  <2>2. engine.event # None /\ tx["engine"].wrote = engine.event.ids
    BY <1>3 DEF TrackCommits, Done, Inv, EngineFits
  <2>3. Waiting' = Waiting
    BY <2>1 DEF Owners, Pending
  <2>4. QED
    BY <2>1, <2>2, <2>3 DEF NobodyMissed
<1>4. CASE DeferCommits
  <2> DEFINE i == engine.event.item
  <2>1. /\ engine.event # None /\ i \in Items /\ engine.event.ids = Owner[i]
        /\ \A j \in Items \ {i} : item'[j] = item[j]
        /\ item'[i].state = IF item[i].state = "none" THEN "pending" ELSE item[i].state
    BY <1>4, DeferEffect
  <2>2. /\ needs' = needs /\ engine'.event = None
        /\ forgotten' = IF item[i].state = "percolated" THEN forgotten \cup Owner[i]
                        ELSE forgotten
    BY <1>4 DEF DeferCommits, EngineIdle
  <2>3. item[i].state \in {"none", "pending", "percolated"}
    BY <2>1, TypeFacts DEF Inv
  <2>4. Pending(item) \subseteq Pending(item')
    BY <2>1 DEF Pending
  <2>5. i \in Pending(item') \/ item[i].state = "percolated"
    BY <2>1, <2>3 DEF Pending
  <2>6. QED
    BY <2>1, <2>2, <2>4, <2>5 DEF NobodyMissed, Owners
<1>5. CASE CommitBatch
  <2> DEFINE S == tx["percolator"].wrote \cap Items
  <2>1. /\ needs' = needs \ tx["percolator"].wrote
        /\ forgotten' = (forgotten \cup (IF Overfull(view) THEN Owners(S) ELSE {}))
                          \ tx["percolator"].wrote
        /\ engine' = engine
    BY <1>5 DEF CommitBatch, DaemonOnly
  <2>2. \A j \in Items \ S : item'[j] = item[j]
    BY <1>5, CommitBatchEffect
  <2>3. Overfull(view) \/ Owners(S) \subseteq tx["percolator"].wrote
    BY <1>5, WholeBatchCommits
  <2>4. Pending(item) \ S \subseteq Pending(item')
    BY <2>2 DEF Pending
  <2>5. ASSUME NEW e \in needs', e \in Waiting
        PROVE  e \in Owners(Pending(item')) \/ e \in forgotten'
    <3>1. PICK j \in Pending(item) : e \in Owner[j]
      BY <2>5 DEF Owners
    <3>2. CASE j \in S
      <4>1. e \in Owners(S)
        BY <3>1, <3>2 DEF Owners
      <4>2. QED
        BY <2>1, <2>3, <2>5, <4>1
    <3>3. CASE j \notin S
      BY <2>4, <3>1, <3>3 DEF Owners
    <3>4. QED
      BY <3>2, <3>3
  <2>6. QED
    BY <2>1, <2>5 DEF NobodyMissed
<1>6. CASE CommitCleanup
  <2>1. UNCHANGED <<needs, forgotten, engine>>
    BY <1>6 DEF CommitCleanup, DaemonOnly
  <2>2. Pending(item) \subseteq Pending(item')
    BY <1>6, CommitCleanupEffect DEF Pending
  <2>3. QED
    BY <2>1, <2>2 DEF NobodyMissed, Owners
<1>7. CASE EngineBegin \/ EngineRaises \/ EngineCrashes
  <2>1. UNCHANGED <<item, needs, forgotten>>
    BY <1>7 DEF EngineBegin, EngineRaises, EngineCrashes
  <2>2. engine'.event = engine.event
    BY <1>7 DEF EngineBegin, EngineRaises, EngineCrashes, Inv, TypeOK
  <2>3. QED
    BY <1>1, <2>1, <2>2
<1>8. CASE \/ LoopEnds \/ CountPending \/ InsertFails \/ BeginBatch \/ BeginUpdate \/ Archive
           \/ BeginCleanup \/ PercolatorRaises \/ WakeUp \/ PercolatorCrashes \/ Signal
           \/ UNCHANGED vars \/ \E p \in Process, row \in Row : Write(p, row)
  <2>1. UNCHANGED <<item, needs, forgotten, engine>>
    BY <1>8 DEF LoopEnds, CountPending, InsertFails, BeginBatch, BeginUpdate, Archive,
                BeginCleanup, PercolatorRaises, WakeUp, PercolatorCrashes, Signal, vars,
                DaemonOnly, Write
  <2>2. QED
    BY <1>1, <2>1
<1>9. \A p \in Process : tx[p].todo \subseteq Row
  BY TypeFacts DEF Inv
<1>10. QED
  BY <1>2, <1>3, <1>4, <1>5, <1>6, <1>7, <1>8, <1>9, Processes DEF Next, Engine, Percolator

\* No interleaving of the two processes' statements, no conflict, deadlock or
\* crash between them loses anybody a change concerned: at REPEATABLE READ an
\* entity that has not been told is in the engine's hands or waits behind a
\* pending row, unless the row was deferred again after it had been marked, or
\* was marked by a batch that the LIMIT cut short.
THEOREM NobodyForgotten == Spec => []NobodyMissed
<1>1. Init => NobodyMissed
  BY DEF Init, NobodyMissed
<1>2. Inv /\ WholeBatch /\ NobodyMissed /\ [Next]_vars => (WholeBatch /\ NobodyMissed)'
  BY StepWholeBatch, StepNobodyMissed
<1>3. QED
  BY <1>1, <1>2, InitWholeBatch, AlwaysInv, PTL DEF Spec

----------------------------------------------------------------------------
(* Refinement of DeferredWork.                                              *)

LEMMA StateFacts ==
  ASSUME Inv
  PROVE  /\ W!InState("pending") = Pending(item)
         /\ \A S \in SUBSET Items : W!Owners(S) = Owners(S)
         /\ Overfull(view) => W!Overfull(Pending(view))
<1>1. W!InState("pending") = Pending(item) /\ \A S \in SUBSET Items : W!Owners(S) = Owners(S)
  BY DEF W!InState, Pending, W!Owners, Owners
<1>2. W!Rows(Pending(view)) = PercolationRows(view)
  BY DEF W!Rows, PercolationRows
<1>3. W!Cardinality(PercolationRows(view)) = Cardinality(PercolationRows(view))
  BY DEF W!Cardinality, Cardinality
<1>4. QED
  BY <1>1, <1>2, <1>3 DEF Overfull, W!Overfull

LEMMA ImplementsStep ==
  ASSUME Inv, WholeBatch, [Next]_vars
  PROVE  [W!Next]_(W!vars)
<1>1. CASE UNCHANGED <<item, needs, options>>
  BY <1>1 DEF W!vars
<1>2. ASSUME NEW ev \in Events, Change(ev)
      PROVE  W!Next
  <2>1. /\ ev.ids \in SUBSET Entities /\ needs' = needs \cup ev.ids
        /\ UNCHANGED <<item, options>>
    BY <1>2, EventsFacts DEF Change, EngineOnly
  <2>2. W!Concern(ev.ids)
    BY <2>1 DEF W!Concern
  <2>3. QED
    BY <2>1, <2>2 DEF W!Next
<1>3. CASE TrackCommits
  <2>1. needs' = needs \ tx["engine"].wrote /\ UNCHANGED <<item, options>>
    BY <1>3 DEF TrackCommits, EngineOnly
  <2>2. tx["engine"].wrote \in SUBSET Entities
    BY <1>3, EventFacts DEF TrackCommits, Done, Inv, EngineFits
  <2>3. W!Tell(tx["engine"].wrote)
    BY <2>1 DEF W!Tell
  <2>4. QED
    BY <2>2, <2>3 DEF W!Next
<1>4. CASE DeferCommits
  <2> DEFINE state == [j \in Items |-> item[j].state]
  <2>0. PICK i \in Items : i = engine.event.item
    BY <1>4, DeferEffect
  <2>1. /\ i \in Items /\ \A j \in Items \ {i} : item'[j] = item[j]
        /\ item'[i].state = IF item[i].state = "none" THEN "pending" ELSE item[i].state
    BY <1>4, <2>0, DeferEffect
  <2>2. UNCHANGED <<needs, options>>
    BY <1>4 DEF DeferCommits, EngineOnly
  <2>3. [j \in Items |-> item'[j].state] =
           [state EXCEPT ![i] = IF @ = "none" THEN "pending" ELSE @]
    BY <2>1
  <2>4. W!Defer(i)
    BY <2>2, <2>3 DEF W!Defer
  <2>5. QED
    BY <2>4 DEF W!Next
<1>5. CASE CommitBatch
  <2>0. PICK S \in SUBSET Items, E \in SUBSET Entities :
           S = tx["percolator"].wrote \cap Items /\ E = tx["percolator"].wrote \cap Entities
    OBVIOUS
  <2>1. /\ S \subseteq Pending(item) /\ Pending(view) \in SUBSET Pending(item)
        /\ E \subseteq Owners(Pending(item))
        /\ Overfull(view) \/ Owners(S) \subseteq E
    BY <1>5, <2>0, WholeBatchCommits
  <2>2. /\ \A j \in S : item'[j].state = "percolated"
        /\ \A j \in Items \ S : item'[j] = item[j]
    BY <1>5, <2>0, CommitBatchEffect
  <2>3. /\ needs' = needs \ tx["percolator"].wrote /\ needs \in SUBSET Entities
        /\ options' = options
    BY <1>5 DEF CommitBatch, DaemonOnly, Inv, TypeOK
  <2>4. needs' = needs \ E
    BY <2>0, <2>3
  <2>5. [j \in Items |-> item'[j].state] =
           [j \in Items |-> IF j \in S THEN "percolated" ELSE item[j].state]
    BY <2>2
  <2>6. /\ S \subseteq W!InState("pending") /\ E \subseteq W!Owners(W!InState("pending"))
        /\ W!Owners(S) \subseteq E \/ \E P \in SUBSET W!InState("pending") : W!Overfull(P)
    <3>1. Pending(item) \in SUBSET Items
      BY DEF Pending
    <3>2. QED
      BY <2>1, <3>1, StateFacts
  <2>7. W!Resolve(S, E)
    BY <2>3, <2>4, <2>5, <2>6 DEF W!Resolve
  <2>8. QED
    BY <2>7 DEF W!Next
<1>6. CASE CommitCleanup
  <2>0. PICK S \in SUBSET Items : S = tx["percolator"].wrote
    BY <1>6, CommitCleanupEffect
  <2>1. /\ \A j \in S : item[j].state = "percolated" /\ item'[j] = NoItem
        /\ \A j \in Items \ S : item'[j] = item[j]
    BY <1>6, <2>0, CommitCleanupEffect
  <2>2. UNCHANGED <<needs, options>>
    BY <1>6 DEF CommitCleanup, DaemonOnly
  <2>3. S \subseteq W!InState("percolated")
    BY <2>1 DEF W!InState
  <2>4. [j \in Items |-> item'[j].state] =
           [j \in Items |-> IF j \in S THEN "none" ELSE item[j].state]
    BY <2>1 DEF NoItem
  <2>5. W!Remove(S)
    BY <2>2, <2>3, <2>4 DEF W!Remove
  <2>6. QED
    BY <2>5 DEF W!Next
<1>7. CASE \/ EngineBegin \/ EngineRaises \/ EngineCrashes
           \/ LoopEnds \/ CountPending \/ InsertFails \/ BeginBatch \/ BeginUpdate \/ Archive
           \/ BeginCleanup \/ PercolatorRaises \/ WakeUp \/ PercolatorCrashes \/ Signal
           \/ UNCHANGED vars \/ \E p \in Process, row \in Row : Write(p, row)
  <2>1. UNCHANGED <<item, needs, options>>
    BY <1>7 DEF EngineBegin, EngineRaises, EngineCrashes, LoopEnds, CountPending, InsertFails,
                BeginBatch, BeginUpdate, Archive, BeginCleanup, PercolatorRaises, WakeUp,
                PercolatorCrashes, Signal, vars, Write, EngineOnly, DaemonOnly
  <2>2. QED
    BY <1>1, <2>1
<1>8. \A p \in Process : tx[p].todo \subseteq Row
  BY TypeFacts DEF Inv
<1>9. QED
  BY <1>2, <1>3, <1>4, <1>5, <1>6, <1>7, <1>8, Processes DEF Next, Engine, Percolator

\* The two processes, statement by statement and with all their failures,
\* implement DeferredWork: each batch is as one step, which tells everybody its
\* rows lead to unless what was pending exceeded the LIMIT, and only resolved rows
\* are ever removed.
THEOREM Implements == Spec => KeepsWork
<1>1. Init => W!Init
  BY OptionsAssumption DEF Init, W!Init, NoItems, NoItem
<1>2. Inv /\ WholeBatch /\ [Next]_vars => WholeBatch' /\ [W!Next]_(W!vars)
  BY StepWholeBatch, ImplementsStep
<1>3. QED
  BY <1>1, <1>2, InitWholeBatch, AlwaysInv, PTL DEF Spec, KeepsWork, W!Spec

----------------------------------------------------------------------------
(* The archive.                                                             *)

\* Between archiving and deletion, what was old stays in the archive, whatever
\* the engine defers meanwhile.
ArchiveCovers ==
    daemon \in {"archived", "delete"} =>
        \A i \in Items : item[i].state = "percolated" /\ item[i].at < cutoff =>
            [row |-> i, at |-> item[i].at] \in archive

LEMMA StepArchiveCovers ==
  ASSUME Inv, ArchiveCovers, [Next]_vars
  PROVE  ArchiveCovers'
<1>1. CASE UNCHANGED <<item, archive, cutoff>> /\
           (daemon' \in {"archived", "delete"} => daemon \in {"archived", "delete"})
  BY <1>1 DEF ArchiveCovers
<1>2. CASE Archive
  <2>1. cutoff' \in Nat /\ item' = item /\ \A i \in Items : item[i].at \in Nat
    BY <1>2, TypeFacts DEF Archive, Inv, TypeOK
  <2>2. archive' = archive \cup {[row |-> i, at |-> item[i].at] : i \in Old(item, cutoff')}
    BY <1>2 DEF Archive
  <2>3. QED
    BY <2>1, <2>2 DEF ArchiveCovers, Old
<1>3. CASE DeferCommits
  <2> DEFINE i == engine.event.item
  <2>1. /\ i \in Items /\ \A j \in Items \ {i} : item'[j] = item[j]
        /\ item'[i].at = now
    BY <1>3, DeferEffect
  <2>2. UNCHANGED <<archive, cutoff, daemon>> /\ cutoff <= now /\ cutoff \in Nat /\ now \in Nat
    BY <1>3 DEF DeferCommits, EngineOnly, Inv, TypeOK
  <2>3. ~(item'[i].at < cutoff')
    BY <2>1, <2>2
  <2>4. QED
    BY <2>1, <2>2, <2>3 DEF ArchiveCovers
<1>4. CASE CommitBatch \/ CommitCleanup \/ PercolatorRaises \/ PercolatorCrashes
  BY <1>4 DEF CommitBatch, CommitCleanup, PercolatorRaises, PercolatorCrashes, Goto, ArchiveCovers
<1>5. CASE \/ \E ev \in Events : Change(ev)
           \/ TrackCommits \/ EngineBegin \/ EngineRaises \/ EngineCrashes
           \/ UNCHANGED vars \/ \E p \in Process, row \in Row : Write(p, row)
  BY <1>1, <1>5
     DEF Change, TrackCommits, EngineBegin, EngineRaises, EngineCrashes, vars, Write, EngineOnly
<1>6. CASE \/ LoopEnds \/ CountPending \/ InsertFails \/ BeginBatch \/ BeginUpdate
           \/ BeginCleanup \/ WakeUp \/ Signal
  BY <1>1, <1>6
     DEF LoopEnds, CountPending, InsertFails, BeginBatch, BeginUpdate, BeginCleanup,
         WakeUp, Signal, Goto
<1>7. \A p \in Process : tx[p].todo \subseteq Row
  BY TypeFacts DEF Inv
<1>8. QED
  BY <1>2, <1>3, <1>4, <1>5, <1>6, <1>7, Processes DEF Next, Engine, Percolator

DeletedArchived ==
    \A i \in Items :
        item[i].state = "percolated" /\ item'[i].state = "none" =>
            [row |-> i, at |-> item[i].at] \in archive \/ item[i].at >= cutoff

LEMMA StepDeletedArchived ==
  ASSUME Inv, ArchiveCovers, [Next]_vars
  PROVE  DeletedArchived
<1>1. CASE UNCHANGED item
  BY <1>1 DEF DeletedArchived
<1>2. CASE DeferCommits
  <2>1. \A j \in Items : item[j].state = "percolated" => item'[j].state = "percolated"
    BY <1>2, DeferEffect
  <2>2. QED
    BY <2>1 DEF DeletedArchived
<1>3. CASE CommitBatch
  <2>1. \A j \in Items : item[j].state = "percolated" => item'[j].state = "percolated"
    BY <1>3, CommitBatchEffect
  <2>2. QED
    BY <2>1 DEF DeletedArchived
<1>4. CASE CommitCleanup
  <2>1. daemon = "delete"
    BY <1>4 DEF CommitCleanup
  <2>2. cutoff \in Nat /\ \A i \in Items : item[i].at \in Nat
    BY TypeFacts DEF Inv, TypeOK
  <2>3. QED
    BY <2>1, <2>2 DEF ArchiveCovers, DeletedArchived
<1>5. CASE \/ \E ev \in Events : Change(ev)
           \/ TrackCommits \/ EngineBegin \/ EngineRaises \/ EngineCrashes
           \/ LoopEnds \/ CountPending \/ InsertFails \/ BeginBatch \/ BeginUpdate \/ Archive
           \/ BeginCleanup \/ PercolatorRaises \/ WakeUp \/ PercolatorCrashes \/ Signal
           \/ UNCHANGED vars \/ \E p \in Process, row \in Row : Write(p, row)
  BY <1>1, <1>5
     DEF Change, TrackCommits, EngineBegin, EngineRaises, EngineCrashes, LoopEnds, CountPending,
         InsertFails, BeginBatch, BeginUpdate, Archive, BeginCleanup, PercolatorRaises, WakeUp,
         PercolatorCrashes, Signal, vars, Write
<1>6. \A p \in Process : tx[p].todo \subseteq Row
  BY TypeFacts DEF Inv
<1>7. QED
  BY <1>2, <1>3, <1>4, <1>5, <1>6, Processes DEF Next, Engine, Percolator

\* archive_old_items and cleanup_old_items are two transactions: what is deleted
\* is archived as it was, but for a row that grew old in between.
THEOREM DeletesTheArchived == Spec => DeletedRowsArchived
<1>1. Init => ArchiveCovers
  BY DEF Init, ArchiveCovers
<1>2. Inv /\ ArchiveCovers /\ [Next]_vars => ArchiveCovers' /\ [DeletedArchived]_vars
  BY StepArchiveCovers, StepDeletedArchived
<1>3. Spec => [][DeletedArchived]_vars
  BY <1>1, <1>2, AlwaysInv, PTL DEF Spec
<1>4. QED
  BY <1>3 DEF DeletedRowsArchived, DeletedArchived
=============================================================================
