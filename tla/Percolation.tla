------------------------------ MODULE Percolation ------------------------------
(****************************************************************************)
(* The routing engine and the percolator daemon at the two tables they      *)
(* share, transaction by transaction (db_client.py, percolator.py,          *)
(* percolator_cli.py).                                                      *)
(*                                                                          *)
(* Every transaction is REPEATABLE READ: it reads the tables as they were   *)
(* when its first statement began, locks each row it writes until it ends,  *)
(* and fails when another transaction has written the row since.  What the  *)
(* rows lead to does not change here (that is Tracker's subject); time is   *)
(* the number of changes committed to the source tables.                    *)
(****************************************************************************)
EXTENDS Naturals, FiniteSets, FiniteSetsExt

CONSTANTS
    Items,          \* the rows that may be deferred: keys of intermediate_to_track
    Entities,       \* the base entities: keys of the tracking table
    Table,          \* the table of each row
    Owner,          \* the base entities each row leads to
    Near,           \* the rows two hops away: the engine resolves them itself
    Options,        \* ways to start the daemon: --once, percolation_batch_size
    Cleanup,        \* TRUE iff the daemon runs with --cleanup
    None,
    MaxChanges,     \* bound on the changes to the source tables
    MaxCrashes      \* bound on the crashes of either process

Row == Items \cup Entities

ASSUME RowsAssumption == Items \cap Entities = {} /\ None \notin Row /\ Near \subseteq Items
ASSUME NearAssumption == \A i \in Near : \A e, f \in Owner[i] : e = f
ASSUME OwnerAssumption == Owner \in [Items -> SUBSET Entities]
ASSUME BoundsAssumption ==
    /\ MaxChanges \in Nat /\ MaxCrashes \in Nat
    /\ Cleanup \in BOOLEAN
ASSUME OptionsAssumption == Options \subseteq [once : BOOLEAN, batch_size : Nat \ {0}]

VARIABLES
    item,       \* intermediate_to_track: state and tracked_at of each row
    archive,    \* intermediate_to_track_archive
    tx,         \* the open transaction of each process
    engine,     \* the event the engine handles, and what it is doing about it
    daemon,     \* where the percolator is
    view,       \* intermediate_to_track as the percolator's open transaction sees it
    cutoff,     \* what the cycle's archiving took for old
    options,    \* what the daemon was started with
    shutdown,   \* shutdown_requested
    now,        \* the number of changes so far
    crashes,
    needs,      \* history: the entities concerned by a change and not tracked since
    forgotten   \* history: those among them whose row was deferred while marked percolated,
                \* or marked by a batch that was cut short before them

vars == <<item, archive, tx, engine, daemon, view, cutoff, options, shutdown, now, crashes,
          needs, forgotten>>

Process == {"engine", "percolator"}
Other(p) == IF p = "engine" THEN "percolator" ELSE "engine"

\* A transaction: the rows its statement has still to write, those it has
\* written, and those other transactions have committed since it began.
Transaction == [open : BOOLEAN, todo : SUBSET Row, wrote : SUBSET Row, stale : SUBSET Row]
Closed == [open |-> FALSE, todo |-> {}, wrote |-> {}, stale |-> {}]
Writing(rows) == [open |-> TRUE, todo |-> rows, wrote |-> {}, stale |-> {}]

ItemRow == [state : {"none", "pending", "percolated"}, at : Nat]
NoItem == [state |-> "none", at |-> 0]
NoItems == [i \in Items |-> NoItem]

Event == [ids : SUBSET Entities, item : Items \cup {None}, far : BOOLEAN]

ASSUME NoneAssumption == None \notin Event

Init ==
    /\ item = NoItems /\ view = NoItems
    /\ archive = {}
    /\ tx = [p \in Process |-> Closed]
    /\ engine = [event |-> None, step |-> "idle"]
    /\ daemon = "loop" /\ cutoff = 0
    /\ options \in Options /\ shutdown = FALSE
    /\ now = 0 /\ crashes = 0
    /\ needs = {} /\ forgotten = {}

----------------------------------------------------------------------------
(* Transactions.                                                            *)

\* The row was written since the transaction began.  (A row deleted since is no
\* conflict for an upsert, and nothing else meets one.)
Conflict(p, row) ==
    row \in tx[p].stale /\ ~(row \in Items /\ item[row].state = "none")

\* The row is locked: the statement waits for the other transaction to end.
Locked(p, row) == row \in tx[Other(p)].wrote

\* One row of a statement.
Write(p, row) ==
    /\ row \in tx[p].todo /\ ~Locked(p, row) /\ ~Conflict(p, row)
    /\ tx' = [tx EXCEPT ![p].todo = @ \ {row}, ![p].wrote = @ \cup {row}]
    /\ UNCHANGED <<item, archive, engine, daemon, view, cutoff, options, shutdown, now, crashes,
                   needs, forgotten>>

\* Each waits for a row of the other.
Deadlocked ==
    \E mine \in tx["engine"].todo, theirs \in tx["percolator"].todo :
        Locked("engine", mine) /\ Locked("percolator", theirs)

\* "could not serialize access due to concurrent update", or the server picks
\* one of two that wait for each other.
MustAbort(p) ==
    Deadlocked \/ \E row \in tx[p].todo : Conflict(p, row) /\ ~Locked(p, row)

Abort(p) == tx' = [tx EXCEPT ![p] = Closed]

\* What p wrote is there for everybody, and new to the other's open transaction.
Commit(p) ==
    tx' = [q \in Process |->
             IF q = p \/ ~tx[q].open THEN Closed
             ELSE [tx[q] EXCEPT !.stale = @ \cup tx[p].wrote]]

Done(p) == tx[p].open /\ tx[p].todo = {}

----------------------------------------------------------------------------
(* The routing engine.                                                      *)

EngineOnly == UNCHANGED <<archive, daemon, view, cutoff, options, shutdown>>

\* A change near the base table names entities; one further away is a row.
Events ==
    {[ids |-> E, item |-> None, far |-> FALSE] : E \in (SUBSET Entities) \ {{}}}
    \cup {[ids |-> Owner[i], item |-> i, far |-> FALSE] : i \in Near}
    \cup {[ids |-> Owner[i], item |-> i, far |-> TRUE] : i \in Items}

Change(ev) ==
    /\ engine.event = None /\ now < MaxChanges
    /\ engine' = [event |-> ev, step |-> IF ev.far THEN "defer" ELSE "track"]
    /\ needs' = needs \cup ev.ids
    /\ now' = now + 1
    /\ UNCHANGED <<item, tx, crashes, forgotten>> /\ EngineOnly

\* track_entity, track_entities, insert_intermediate: one statement each.
EngineBegin ==
    /\ engine.event # None /\ ~tx["engine"].open
    /\ tx' = [tx EXCEPT !["engine"] =
                Writing(IF engine.step = "track" THEN engine.event.ids ELSE {engine.event.item})]
    /\ UNCHANGED <<item, engine, now, crashes, needs, forgotten>> /\ EngineOnly

EngineIdle == engine' = [event |-> None, step |-> "idle"]

TrackCommits ==
    /\ engine.step = "track" /\ Done("engine")
    /\ Commit("engine") /\ EngineIdle
    /\ needs' = needs \ tx["engine"].wrote
    /\ forgotten' = forgotten \ tx["engine"].wrote
    /\ UNCHANGED <<item, now, crashes>> /\ EngineOnly

\* "DO UPDATE SET tracked_at = CURRENT_TIMESTAMP" leaves percolated as it is.
DeferCommits ==
    /\ engine.step = "defer" /\ Done("engine")
    /\ Commit("engine") /\ EngineIdle
    /\ LET i == engine.event.item IN
          /\ item' = [item EXCEPT ![i].state = IF @ = "none" THEN "pending" ELSE @,
                                  ![i].at = now]
          /\ forgotten' = IF item[i].state = "percolated" THEN forgotten \cup Owner[i]
                          ELSE forgotten
    /\ UNCHANGED <<now, crashes, needs>> /\ EngineOnly

\* Fault: every handler defers what it fails at.
EngineRaisesDeferring ==
    /\ MustAbort("engine")
    /\ Abort("engine")
    /\ engine' = [engine EXCEPT !.step = "defer"]
    /\ UNCHANGED <<item, now, crashes, needs, forgotten>> /\ EngineOnly

\* Fault: handle_event swallows the exception.
EngineRaisesSwallowed ==
    /\ MustAbort("engine")
    /\ Abort("engine") /\ EngineIdle
    /\ UNCHANGED <<item, now, crashes, needs, forgotten>> /\ EngineOnly

\* A depth-2 handler that fails to track defers the row; any other failure goes
\* up to start_streaming, and the event comes again.
EngineRaises ==
    /\ MustAbort("engine")
    /\ Abort("engine")
    /\ engine' = [engine EXCEPT !.step =
                    IF engine.event.far \/ (@ = "track" /\ engine.event.item # None)
                    THEN "defer" ELSE "track"]
    /\ UNCHANGED <<item, now, crashes, needs, forgotten>> /\ EngineOnly

EngineCrashes ==
    /\ engine.event # None /\ crashes < MaxCrashes
    /\ Abort("engine")
    /\ engine' = [engine EXCEPT !.step = IF engine.event.far THEN "defer" ELSE "track"]
    /\ crashes' = crashes + 1
    /\ UNCHANGED <<item, now, needs, forgotten>> /\ EngineOnly

Engine ==
    \/ EngineBegin \/ TrackCommits \/ DeferCommits \/ EngineRaises
    \/ \E row \in tx["engine"].todo : Write("engine", row)

----------------------------------------------------------------------------
(* The percolator.                                                          *)

DaemonOnly == UNCHANGED <<engine, options, now>>

Owners(S) == UNION {Owner[i] : i \in S}

Pending(items) == {i \in Items : items[i].state = "pending"}
Old(items, time) == {i \in Items : items[i].state = "percolated" /\ items[i].at < time}

\* The rows of the percolation query: one SELECT DISTINCT per table.
PercolationRows(items) ==
    {r \in {Table[i] : i \in Items} \X Entities :
        \E i \in Pending(items) : Table[i] = r[1] /\ r[2] \in Owner[i]}

\* LIMIT: what is left of a set, in no particular order.
Limited(S) ==
    LET size == options.batch_size IN
    IF Cardinality(S) <= size THEN {S} ELSE kSubset(size, S)

\* The INSERT does not reach every row: the LIMIT cuts it short.
Overfull(items) == ~(Cardinality(PercolationRows(items)) <= options.batch_size)

SameRowTwice(batch) == \E r, s \in batch : r # s /\ r[2] = s[2]

\* ORDER BY tracked_at LIMIT.
Oldest(items) ==
    {marked \in Limited(Pending(items)) :
        \A i \in marked, j \in Pending(items) \ marked : items[i].at <= items[j].at}

Goto(label) == daemon' = label

\* "while not shutdown_requested", then get_pending_count; with --once there is no
\* loop, and the flag is not looked at.
LoopEnds ==
    /\ daemon = "loop" /\ shutdown /\ ~options.once
    /\ Goto("exited")
    /\ UNCHANGED <<item, archive, tx, view, cutoff, shutdown, crashes, needs, forgotten>>
    /\ DaemonOnly

\* Fault: the loop does not look at the flag.
CountPendingAnyway ==
    /\ daemon = "loop"
    /\ Goto(IF Pending(item) = {} THEN "sleeping" ELSE "counted")
    /\ UNCHANGED <<item, archive, tx, view, cutoff, shutdown, crashes, needs, forgotten>>
    /\ DaemonOnly

CountPending ==
    /\ daemon = "loop" /\ (shutdown => options.once)
    /\ Goto(IF Pending(item) = {} THEN "sleeping" ELSE "counted")
    /\ UNCHANGED <<item, archive, tx, view, cutoff, shutdown, crashes, needs, forgotten>>
    /\ DaemonOnly

\* percolate_batch: the INSERT.  It cannot affect a row twice.
InsertFails ==
    /\ daemon = "counted"
    /\ \E batch \in Limited(PercolationRows(item)) : SameRowTwice(batch)
    /\ Goto("raised")
    /\ UNCHANGED <<item, archive, tx, view, cutoff, shutdown, crashes, needs, forgotten>>
    /\ DaemonOnly

BeginBatch ==
    /\ daemon = "counted"
    /\ \E batch \in Limited(PercolationRows(item)) :
          /\ ~SameRowTwice(batch)
          /\ tx' = [tx EXCEPT !["percolator"] = Writing({r[2] : r \in batch})]
    /\ view' = item
    /\ Goto("insert")
    /\ UNCHANGED <<item, archive, cutoff, shutdown, crashes, needs, forgotten>> /\ DaemonOnly

\* Fault: READ COMMITTED, the UPDATE sees what was committed since.
BeginUpdateReadCommitted ==
    /\ daemon = "insert" /\ Done("percolator")
    /\ \E marked \in Oldest(item) :
          tx' = [tx EXCEPT !["percolator"].todo = marked, !["percolator"].stale = {}]
    /\ Goto("update")
    /\ UNCHANGED <<item, archive, view, cutoff, shutdown, crashes, needs, forgotten>>
    /\ DaemonOnly

\* ... and the UPDATE, which sees what the INSERT saw.
BeginUpdate ==
    /\ daemon = "insert" /\ Done("percolator")
    /\ \E marked \in Oldest(view) : tx' = [tx EXCEPT !["percolator"].todo = marked]
    /\ Goto("update")
    /\ UNCHANGED <<item, archive, view, cutoff, shutdown, crashes, needs, forgotten>>
    /\ DaemonOnly

CommitBatch ==
    /\ daemon = "update" /\ Done("percolator")
    /\ Commit("percolator")
    /\ item' = [i \in Items |-> IF i \in tx["percolator"].wrote
                                THEN [item[i] EXCEPT !.state = "percolated"] ELSE item[i]]
    /\ needs' = needs \ tx["percolator"].wrote
    /\ forgotten' = (forgotten \cup (IF Overfull(view) THEN Owners(tx["percolator"].wrote \cap Items)
                                   ELSE {})) \ tx["percolator"].wrote
    /\ Goto(IF Cleanup THEN "archiving" ELSE "sleeping")
    /\ view' = NoItems
    /\ UNCHANGED <<archive, cutoff, shutdown, crashes>> /\ DaemonOnly

\* Fault: the rows are not committed.
ArchiveUncommitted ==
    /\ daemon = "archiving"
    /\ cutoff' \in 0..now
    /\ Goto("archived")
    /\ UNCHANGED <<item, archive, tx, view, shutdown, crashes, needs, forgotten>> /\ DaemonOnly

\* archive_old_items, a transaction of one statement that conflicts with nothing.
Archive ==
    /\ daemon = "archiving"
    /\ cutoff' \in 0..now
    /\ archive' = archive \cup {[row |-> i, at |-> item[i].at] : i \in Old(item, cutoff')}
    /\ Goto("archived")
    /\ UNCHANGED <<item, tx, view, shutdown, crashes, needs, forgotten>> /\ DaemonOnly

\* cleanup_old_items, with a NOW() of its own.
BeginCleanup ==
    /\ daemon = "archived"
    /\ \E time \in cutoff..now :
          tx' = [tx EXCEPT !["percolator"] = Writing(Old(item, time))]
    /\ view' = item
    /\ Goto("delete")
    /\ UNCHANGED <<item, archive, cutoff, shutdown, crashes, needs, forgotten>> /\ DaemonOnly

CommitCleanup ==
    /\ daemon = "delete" /\ Done("percolator")
    /\ Commit("percolator")
    /\ item' = [i \in Items |-> IF i \in tx["percolator"].wrote THEN NoItem ELSE item[i]]
    /\ Goto("sleeping")
    /\ view' = NoItems /\ cutoff' = 0
    /\ UNCHANGED <<archive, shutdown, crashes, needs, forgotten>> /\ DaemonOnly

\* "except Exception": the transaction is rolled back.
PercolatorRaises ==
    /\ MustAbort("percolator")
    /\ Abort("percolator")
    /\ Goto("raised")
    /\ view' = NoItems /\ cutoff' = 0
    /\ UNCHANGED <<item, archive, shutdown, crashes, needs, forgotten>>
    /\ DaemonOnly

\* Fault: an exception ends the loop.
WakeUpUnlessRaised ==
    /\ daemon \in {"sleeping", "raised"}
    /\ Goto(IF options.once \/ daemon = "raised" THEN "exited" ELSE "loop")
    /\ UNCHANGED <<item, archive, tx, view, cutoff, shutdown, crashes, needs, forgotten>>
    /\ DaemonOnly

\* After the interval, or sooner on a signal; with --once the process ends.
WakeUp ==
    /\ daemon \in {"sleeping", "raised"}
    /\ Goto(IF options.once THEN "exited" ELSE "loop")
    /\ UNCHANGED <<item, archive, tx, view, cutoff, shutdown, crashes, needs, forgotten>>
    /\ DaemonOnly

Percolator ==
    \/ LoopEnds \/ CountPending \/ InsertFails \/ BeginBatch \/ BeginUpdate \/ CommitBatch
    \/ Archive \/ BeginCleanup \/ CommitCleanup \/ PercolatorRaises \/ WakeUp
    \/ \E row \in tx["percolator"].todo : Write("percolator", row)

PercolatorCrashes ==
    /\ daemon # "exited" /\ crashes < MaxCrashes
    /\ Abort("percolator")
    /\ Goto("loop") /\ shutdown' = FALSE
    /\ crashes' = crashes + 1
    /\ view' = NoItems /\ cutoff' = 0
    /\ UNCHANGED <<item, archive, needs, forgotten>> /\ DaemonOnly

\* signal_handler
Signal ==
    /\ ~shutdown /\ daemon # "exited"
    /\ shutdown' = TRUE
    /\ UNCHANGED <<item, archive, tx, daemon, view, cutoff, crashes, needs, forgotten>>
    /\ DaemonOnly

Next ==
    \/ \E ev \in Events : Change(ev)
    \/ Engine \/ EngineCrashes
    \/ Percolator \/ PercolatorCrashes \/ Signal

Spec == Init /\ [][Next]_vars

\* Both processes go on with what they have begun, and the daemon wakes up.
FairSpec == Spec /\ WF_vars(Engine) /\ WF_vars(Percolator)

----------------------------------------------------------------------------
TypeOK ==
    /\ item \in [Items -> ItemRow] /\ view \in [Items -> ItemRow]
    /\ archive \in SUBSET [row : Items, at : Nat]
    /\ tx \in [Process -> Transaction]
    /\ engine \in [event : Event \cup {None}, step : {"idle", "track", "defer"}]
    /\ daemon \in {"loop", "counted", "insert", "update", "archiving", "archived", "delete",
                   "sleeping", "raised", "exited"}
    /\ cutoff \in Nat /\ now \in Nat /\ crashes \in Nat
    /\ options \in Options /\ shutdown \in BOOLEAN
    /\ needs \in SUBSET Entities /\ forgotten \in SUBSET Entities

\* Whoever has not been told since a change is reached by what is under way or
\* waits: the event in the engine's hands, or a pending row.  There are two
\* exceptions: the row was deferred again while marked percolated, or a batch cut
\* short by the LIMIT marked it and did not reach them.
NobodyMissed ==
    needs \subseteq
        Owners(Pending(item)) \cup forgotten
        \cup (IF engine.event = None THEN {} ELSE engine.event.ids)

\* Read and written transaction by transaction, the tables change as if each
\* batch were one step.
W == INSTANCE DeferredWork WITH
        state <- [i \in Items |-> item[i].state], limit <- options.batch_size
KeepsWork == W!Spec

\* A row the cleanup deletes is in the archive, or was not old enough when the
\* archiving looked.
DeletedRowsArchived ==
    [][\A i \in Items :
          item[i].state = "percolated" /\ item'[i].state = "none" =>
              [row |-> i, at |-> item[i].at] \in archive \/ item[i].at >= cutoff]_vars

\* However the processes get in each other's way, the daemon resolves all that is
\* deferred, in as many batches as it takes, unless they meet in deadlocks for
\* ever, or its statement may fail on two rows for one entity.
DeferredWorkEnds ==
    []<>(\/ Pending(item) = {} \/ Deadlocked \/ shutdown \/ options.once
         \/ \E batch \in Limited(PercolationRows(item)) : SameRowTwice(batch))

\* A signal ends the daemon (percolator_cli.py:111 and :117).
SignalObeyed == shutdown ~> (daemon = "exited" \/ ~shutdown)
=============================================================================
