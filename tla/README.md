# A formal model of cdc-dependency-tracker

The tracker keeps, for one SQL query over a base table, the set of base
entities whose result may have changed.  Changes to the tables of the query
arrive on a PostgreSQL logical replication stream.  A change near the base
table is turned into base entity ids at once; a change further away is
*deferred* into an intermediate table, and a second process, the percolator,
resolves the deferred rows later with one query per dependent table.

The property everything here is about: **no base entity whose result a change
altered is forgotten** - whatever the order of the steps of threads and
processes, the failures in between, and the further changes made to the tables
meanwhile.

The modules are read with the code; paths such as `routing.py` are those under
`src/src/cdc_dependency_tracker/`.

## Contents

| file | what it is |
|---|---|
| `JoinGraph.tla` | operators: the join graph, parent joins, the definition of a correct depth |
| `DependencyGraph.tla` | state machine of `DependencyGraph`: the breadth-first search, the walk to the base table |
| `SqlParser.tla` | state machine of `SQLParser` in front of it: which equalities of the query become joins |
| `Tracker.tla` | the running system: source tables, stream, routing, percolation |
| `Delivery.tla` | abstract specification: what the replication stream promises the routing engine |
| `ReplicationStream.tla` | reader threads, bounded queue, consumer thread, signals, restarts; implements `Delivery` |
| `DeferredWork.tla` | abstract specification: what the two processes promise about deferred rows |
| `Percolation.tla` | engine and percolator at their common tables, transaction by transaction; implements `DeferredWork` |
| `MCDependencyGraph.tla`, `MCTracker.tla`, `MCReplicationStream.tla`, `MCPercolation.tla`, `*.cfg` | instances for TLC |
| `JoinGraphProofs.tla`, `DependencyGraphProofs.tla`, `SqlParserProofs.tla`, `TrackerProofs.tla`, `TrackerDeferralProofs.tla`, `ReplicationStreamProofs.tla`, `PercolationProofs.tla` | theorems, checked by TLAPS |
| `PROJECT.json` | components, runs, mutants, the map from definitions to source lines, findings, hazards, theorems |

How they fit together:

    SqlParser --EXTENDS--> DependencyGraph --EXTENDS--> JoinGraph <--EXTENDS-- Tracker
                                                                                 |
                          ReplicationStream --implements--> Delivery <--INSTANCE-+
                          Percolation --implements--> DeferredWork

`Tracker` takes its events through `Delivery` and so runs on what
`ReplicationStream` is shown to provide.  `Tracker` knows what rows lead to and
takes a percolation batch as one step; `Percolation` keeps the rows' owners
fixed and shows that a batch behaves as one step.

## 1. The system

### Components, their state and their operations

| component | source | state | operations |
|---|---|---|---|
| SQL parser | `sql_parser.py` | the parsed query | extract aliases and joins, join graph, id column of the base table |
| dependency graph | `dependency_graph.py` | `graph`, `_depths` | constructor (`_compute_depths`), `get_depth`, `get_join_keys_for_table`, `get_parent_join`, `get_path_to_base` |
| replication stream | `logical_replication_stream.py` | message queue (at most 1000), stop, ready and connected flags, reader thread | `start_replication`, iteration, `stop` |
| replication consumer | `replication_consumer.py` | reader, retry counter, the global shutdown flag | `start_streaming`, `_consume_messages`, slot and publication set-up, `disconnect` |
| streaming manager | `streaming.py` | consumer, its thread | `_initialize_components`, `start_streaming`, `stop_streaming` |
| events | `cdc_handler.py` | one event: table, operation, old and new row | `get_id_field`, the kinds of operation |
| routing engine | `routing.py` | none of its own | `handle_event` and its four handlers by depth |
| database client | `db_client.py` | a connection pool; the two tables below | `track_entity`, `track_entities`, `insert_intermediate`, `query_parent_entity`, `transaction` |
| tracking schema | `schema.py` | tracking table, `intermediate_to_track`, archive | create, drop |
| percolation engine | `percolator.py` | the same tables | `percolate_batch`, pending count, lag, archive, cleanup |
| percolator daemon | `percolator_cli.py` | the global shutdown flag | the cycle and the loop around it |
| id column naming, configuration, command line, set-up | `utils.py`, `config.py`, `cli.py`, `setup_db.py` | none that changes | run once at start-up |

### How they interact

    source tables --commit--> slot --reader thread--> queue --consumer--> RoutingEngine.handle_event
                                                                            |            |
                                                         (depth 0, 1, most of 2)     (the rest)
                                                                            v            v
                                                                   tracking table   intermediate_to_track
                                                                            ^            |
                                                                            +--percolator+  (own process, polling)

Two processes write the two tables.  They share no lock; each statement, or
each batch, is a transaction at REPEATABLE READ.  Both also *read the source
tables*, at a time of their own, while an event describes the row at the time
it was committed.  The consumer has a second thread, connected to it by a
bounded queue; a third thread may stop it; a signal may arrive at any time.

### What is hard about it

* The parent row a depth-2 event is resolved from is read when the event is
  handled, not when the row changed.
* A deferred row is remembered by table and id; the percolator joins from where
  the row *then* is.
* `intermediate_to_track` has one row per deferred row, with a flag, and three
  writers of it: the handlers (upsert), the percolator (mark), the cleanup
  (delete).
* The two processes write the same rows: the later one waits, fails with a
  serialization error or is the victim of a deadlock, and starts over.
* The consumer fails between two transactions of one handler, or after them,
  and the stream sends events again to handlers that look at tables which have
  moved on.
* `LIMIT`, `UNION ALL` and `ON CONFLICT DO UPDATE` meet in one statement.
* Messages wait in a queue in memory, and nobody tells the library which of them
  have been handled; the check at start takes one out and puts it back at the
  end; a stream that has been given up keeps a thread and, for a while or for
  ever, the slot.

### What makes each component correct

* Parser: every join it reports is imposed by the query; plain conjunctions are
  read completely.
* Dependency graph: the search ends for every query; depths are distances; a
  parent join exists for every table reached; a path is shortest and is refused
  only where there is none.
* Stream: between slot and handler nothing is lost while the process lives, each
  message is in the line once, at most one is overtaken; an abandoned reader has
  been told to stop.
* Routing: what is resolved at once is complete; what is not is deferred; no
  event is skipped that concerns somebody.
* Intermediate table: an item stays pending until the step that tracks
  everybody its row belongs to, or as many as the batch allows.
* Percolator: its work ends; when it has ended, nobody owed is left, or the
  reason is one of the known ones; what is deleted is in the archive.

`PROJECT.json` lists the hazards one by one with line and covering property.

## 2. The modules and the code

### DependencyGraph

One behaviour is one object: the constructor runs the search, after which
`get_path_to_base` is called any number of times.  `joins` is any sequence of at
most `MaxJoins` equalities over `Tables` and `Columns` - self joins, parallel
joins, cycles and unconnected tables included.

| TLA+ | code |
|---|---|
| `DirectedJoins(joins)` | `SQLParser.get_join_graph`: each join, then its reverse |
| `depths` (-1: no key) | `_depths`, and `visited`, which always change together |
| `queue`, `current`, `scan` | the work list, the pair popped, the rest of `self.graph[table]` |
| `Dequeue`, `VisitNeighbour`, `DepthsComputed` | outer iteration, inner iteration, end of the loop |
| `StartPath(t)`, `FollowParent`, `NoParent`, `ReturnPath` | `get_path_to_base`: call, iteration, `raise`, `return` |
| `ParentJoin`, `HasParentJoin` | `get_parent_join` and when it is not `None` |

`VisitNeighbour` treats `visited` and `_depths` as one, since the code adds to
both in consecutive statements of one thread.

### SqlParser

The parser's constructor runs first and appends to `joins`; the search starts
from what it has found (`UseGraph`).  A query is sqlglot's tree, reduced to
tables with aliases, ON clauses (equalities, AND, OR, NOT, parentheses, anything
else) and selected columns.

| TLA+ | code |
|---|---|
| `EnterAlias`, `AliasesEntered` | one iteration and the end of `_extract_table_aliases` |
| `VisitJoin` | one iteration of `_extract_joins` |
| `calls` | the calls of `_process_join_condition` that recursion has still to make |
| `ProcessEquality`, `ProcessAnd`, `ProcessOther` | one call: its two branches, and none |
| `Resolve` | `_resolve_table_alias` |
| `BaseKeys`, `BaseIdColumn`, `ExtractBaseIdColumn` | `_extract_base_id_column` |

`Worlds(q)` is the meaning the parser is measured against: the truth values the
conditions can have for a row of the result.  An equality is `Implied` when
it is true in each of them.  Queries in which one alias stands for two tables in
different subqueries are excluded by the named assumption (`OneScope`): the
dictionary would keep the last.  A selected column names the base table by its
alias if it has one, since SQL does not accept the table's own name then
(`SelectAssumption`).

### Delivery and ReplicationStream

`Delivery` has a log of `sent` changes and the set `todo` of those still to be
handed over.  A change is handed over when at most one older change is still
waiting; after a failure everything from some point on comes again, and what lies
before that point and had not been handed over is `lost`.  `Tracker` takes its
events with nothing lost (section 7 says what that asks of the library).

`ReplicationStream` has the consumer thread, a record for each stream object
with its reader thread, the slot, the manager's thread and the faults.

| TLA+ | code |
|---|---|
| `Connect` | `connect()`: a new `LogicalReplicationStream`, `retry_count = 0` |
| `Iterate`, `IterateNoReader` | `__iter__` starts replication unless connected; `Reader not initialized` |
| `ReadyInTime`, `StartTimeout` | the ten seconds' wait for `_ready_event` |
| `ProbeEmpty`, `ProbeException`, `ProbeMessage`, `PutBack` | `start_replication` looks at the queue's first item and puts a message back at the end |
| `PollStopped`, `PollException`, `PollMessage` | the loop of `__iter__` |
| `Handle`, `HandlerRaises`, `BreakOnShutdown` | `_consume_messages` |
| `Raise`, `Disconnect`, `Disconnected`, `Sleep`, `LoopAgain`, `LoopEnds` | the `except` branch and the loop of `start_streaming` |
| `ReaderReady`, `Attach`, `ReaderRaises`, `Read`, `Put` | `_async_reader_thread` of one stream |
| `Signal`, `StopStreaming`, `StreamingStopped` | `signal_handler`; `stop_streaming` from another thread |
| `Commit`, `Confirm`, `ConnectionLost`, `ServerNotices`, `Restart` | server, slot, library, process (external) |

A stream object that has been given up keeps its thread; several can be alive.
No code reports to the library which messages were handled, so `Confirm` lets it
confirm to the slot whatever it has handed out, at any time: a message that waits
in the queue may be confirmed already.  When a reader attaches to the slot it gets
what comes after the last confirmed message; messages before it that were still
to be handled leave `todo` and enter the history variable `lost`.

**Abstractions.**  `_connected = False` and `self.reader = None` are one step;
`join(timeout=5)` may return at any time; an exception of the library's
constructor is one of the exceptions of `ReaderRaises`.  `KeyboardInterrupt` does
not occur, since a handler for SIGINT is installed.

### Tracker

`Depth` and `Path` are constants, assumed to be what `DependencyGraph` proves
its results to be (`DepthAssumption`, `PathAssumption`): the theorem
`DepthsCorrect` discharges the first, `PathsCorrect` the second - a path returned
takes at each table the join that `get_parent_join` gives for it.

| TLA+ | code |
|---|---|
| `db`, `Change` | the source tables; one row inserted, updated (soft deletes included) or deleted, in a transaction of its own (external) |
| `log`, `todo`, `Take(m)`, `Handled`, `Restart(n)` | the stream, as `D == INSTANCE Delivery`: an event is taken, is handed over when handled, and comes again after a failure |
| `hand` | the event `handle_event` is working on |
| `owes`, `left` of an event | history: the base entities whose result the change altered; those the row no longer leads to |
| `deferred`, `lost` | history: events a handler deferred; those of them deferred onto a percolated item or cut off by a batch's `LIMIT` |
| `lastTracked` | the tracking table's `last_tracked_at`; -1 for no row |
| `inter` | `intermediate_to_track`: per (table, id) none, pending or percolated, and `tracked_at` |
| `resolved` | the local variable `base_entity_id` of a depth-2 handler between its query and its tracking statement |
| `HandleBaseTable`, `HandleDepth1`, `HandleDepth3Plus`, `SkipUnknownTable` | the handlers of `routing.py` that make one transaction |
| `Depth2Defer`, `Depth2NoParentId`, `Depth2Query`, `Depth2Track`, `Depth2Error` | `_handle_depth_2_adaptive`: each of its ways out, split where it has committed a query and not yet the tracking statement; `Depth2Error` is `except Exception: ... deferring` |
| `Percolate`, `PercolateFails`, `CleanupOld` | the steps of `run_percolation_cycle` |
| `Upsert` | `INSERT ... ON CONFLICT DO UPDATE SET tracked_at`: the flag `percolated` is left as it is |
| `Limited`, `Oldest`, `SameRowTwice` | `LIMIT`, `ORDER BY tracked_at LIMIT`, the error of `ON CONFLICT DO UPDATE` on a second row of one statement |
| `BatchSizes`, `CutOff` | `batch_size`, any of a set in each cycle; the deferred events whose items a batch marks without reaching whom they owe |

Time is the number of changes committed so far (`Len(log)`), so
`lastTracked[e] >= k` says that `e` has been tracked since change `k`.

`Owners(db, t, id)` is the meaning of "row `id` of `t` belongs to base entity
`e`": there are rows along the table's path, each joined to the next and none
deleted.  It is the percolation query's join, so it is used both there and, in
the history field `owes`, as the definition of what a change alters.

**Abstractions.**  Ids are small natural numbers and never a value that Python
takes for false, other than NULL; only `_id` and join columns exist, and a
change that touches neither is an update from a row to the same row.  A
database time is the number of the change it follows.  Rows never change
their primary key.  A percolation batch is one step: `Percolation` shows why it
may be.  A cleanup deletes what is percolated and older than a cutoff that may
be anything, since the retention period is not related to how fast rows change.
TRUNCATE, the archive table (see `Percolation`) and transactions of more than
one row change are left out.

### Percolation

The engine and the percolator, each with at most one open transaction.  A
transaction has rows still to write, rows written and locked, and rows others
have committed since it began (`stale`).  A statement waits for a row the other
has written (`Locked`), fails on a row written since its snapshot (`Conflict`),
and one of two that wait for each other is ended (`Deadlocked`).

| TLA+ | code |
|---|---|
| `Change` | the next event in the engine's hands: entities near the base table, a row two hops away, or a row further away |
| `EngineBegin`, `Write`, `TrackCommits`, `DeferCommits` | `track_entity`, `track_entities`, `insert_intermediate`, row by row |
| `EngineRaises` | a depth-2 handler defers what it cannot track; anything else comes again |
| `options` | `--once`, and the `batch_size` both statements of a batch are limited to |
| `CountPending`, `LoopEnds`, `WakeUp` | the daemon's loop, `--once` included (with which the flag is not looked at) |
| `BeginBatch`, `BeginUpdate`, `CommitBatch`, `InsertFails` | `percolate_batch`: two statements on one snapshot |
| `Archive`, `BeginCleanup`, `CommitCleanup` | `archive_old_items`, `cleanup_old_items`, each with its own `NOW()` |
| `PercolatorRaises`, `Signal`, `EngineCrashes`, `PercolatorCrashes` | `except Exception`; the signal handler; a process dies and is started again |

History: `needs`, the entities concerned by a change and not tracked since;
`forgotten`, those whose row was deferred while it was marked percolated, or
marked by a batch that the `LIMIT` cut short (`Overfull`).  `DeferredWork` has only
the state of each item, `needs` and the size of a batch: its `Resolve` tells all
that the marked items lead to, unless what was pending leads to more rows than a
batch takes.

**Abstractions.**  BEGIN and the first statement are one step.  The engine has
one event at a time, as `for message in reader` does.  A row's owners do not
change while the model runs (that they do is `Tracker`'s subject).  Time is the
number of changes.  A query without dependent tables, for which the
percolation query is `None`, has nothing to percolate and is left out.

**Fault operators**, in all modules.  An operator whose comment starts with
"Fault:" is the definition after it with one plausible mistake.  No
specification uses them; in `PROJECT.json` each is paired with a property that
TLC finds violated when it takes that definition's place, which shows that the
property watches the code.

## 3. What the runs check

| run | instance | states | checks |
|---|---|---|---|
| `dependency_graph` | four tables; every conjunction of at most three equalities, every shape of ON clause over two of them, a thousand selections | 270 000 | parser and search composed: types, `JoinsImplied`, `DepthsOfQuery`, `IdColumnNamesKey`, loop invariant, depths consistent and equal to distances, paths shortest, refused only when unreachable; both loops end (`SearchTerminates`, `PathTerminates`) and each of their steps makes progress (`LoopsAdvance`) |
| `stream` | three messages, queue of two, three stream objects, any two kinds of fault once each | 1 460 000 (up to symmetry) | `NothingDropped`, `StreamInv`, `AbandonedIsStopped` and its inductive form `LeavingInv`, and `Delivers`: the refinement of `Delivery` |
| `stream_live` | three messages, queue of one, two stream objects, any two kinds of fault but `stop_streaming` | 276 000 | `EventuallyHandled`, `ShutdownObeyed` under `FairSpec` |
| `tracker` | the shop of `DESIGN.md` (customers, orders, order lines, products; an unrelated table), two rows per table, any two changes, one failure, batches of one or of any number | 398 000 | `DirectChangesSettled`, `StreamSettles`, `StreamInv`, `LossesExplained`, `DeferralInv`, `PendingUntilResolved` |
| `percolation` | a row of one entity's and a row of both entities', three changes, one crash, a signal, `--once` or not, batches of one or of ten | 568 000 | `NobodyMissed`, `DeletedRowsArchived`, `DeferredWorkEnds`, `SignalObeyed`, and `KeepsWork`: the refinement of `DeferredWork` |
| `tracker_redeferred`, `tracker_moved`, `tracker_union`, `stream_put_back`, `stream_stopped`, `stream_gives_up`, `stream_lost` | as small as shows it | | one documented promise each that the code does not keep (section 6) |

The properties that need a word:

* `DepthsOfQuery` - a depth is the length of a way along equalities the query
  imposes; if the ON clauses are conjunctions of qualified equalities it is the
  distance.  This is about parser and search together: a missed equality leaves
  a table without a depth, and its changes are skipped in silence.
* `StreamInv` - what the consumer has before it (`Line`: the message in hand,
  then the queue) holds exactly the messages its reader has taken that must still
  be handled, each once, at most one of them overtaken.
* `AbandonedIsStopped` - a reader thread that outlives the consumer's interest
  in it has been told to stop, unless its start timed out or `stop_streaming`
  came first.
* `LeavingInv` - why that is so: an exception is the last thing a reader puts in
  its queue, and while the consumer has a stream it neither loses it from sight
  nor is disconnected from it without setting its stop flag.
* `LoopsAdvance` - no step of the search or of the walk leaves everything as
  far from the end as it was (section 4).
* `EventuallyHandled` - every message is handled or lost, through lost connections, a
  raising handler, a late start and a restart, but for three ways it may not, each
  of which the code has: a signal; a reader the consumer has turned from that keeps
  the slot for ever (`SlotKept`), because no message comes that would make it look
  at its stop event, or because it waits in `put` for a place in a queue nobody
  empties; and the put-back that waits for ever.  Without any one of them TLC finds
  a counterexample.
* `DirectChangesSettled` - a change to the base table or one hop from it has
  told everybody concerned, the entity a row moved away from included, by the
  time its event is handled; and no restart undoes that.
* `StreamSettles` - once the stream is drained every event has told everybody
  or been deferred.  The difficult case is a depth-2 event whose parent row has
  moved or gone since: the event then tracks nobody, or somebody else, and the
  entity is saved by the parent's own event, later in the stream.
* `LossesExplained` - when the percolator has no work left either, an entity
  still not told is so for one of three reasons: the event was deferred onto an
  item already marked percolated, its item was marked in a batch whose `LIMIT` cut
  the entity off, or the row had left the entity when it was percolated.
  Everything else is excluded, for all interleavings.
* `DeferralInv` - apart from the reasons of `LossesExplained`, an entity owed
  by a deferred event has been told, or the event's item is pending, or a later
  event owes the entity again; and a row still belongs to whom it was changed for
  unless a later event owes that entity.
* `PendingUntilResolved` - no step but a percolation takes an item out of the
  pending ones, and that one tracks all owners of the item's row unless its batch
  was cut short.
* `NobodyMissed` - at the level of transactions: whoever is owed is covered by
  the event in the engine's hands or by a pending item, or is `forgotten`.
* `DeletedRowsArchived` - archiving and deleting are two transactions with two
  cutoffs: what is deleted is in the archive as it was, unless it grew old in
  between.

### Bounds

Parser and search: three equalities over four tables contain each case of the
search (a chain as long as the tables allow, a cycle, parallel joins, a self
join, an unreached component), and two levels of connectives each case of the
walk over a condition.

Stream: three messages and a queue of two let the queue be full while one
message is held and one is being put; three stream objects let one be
abandoned, one current and one made anew.  Each kind of fault happens at most
once and two kinds meet in one history (`MaxKinds`); that keeps every pair in
every order.  `stream_live` has a queue of one, which three messages fill while
one is held and one is being put, so that a reader blocked in `put` and a put-back
that blocks are among its behaviours.

Tracker: two ids per table are what the properties need: two entities to move
between, two parents to confuse.  Two changes let one event be handled against
tables changed by another, and a row be deferred, percolated and deferred again.
Longer histories, a row that is percolated, moved and deferred again among them,
are left to the theorems, which bound no number of changes.  One failure puts a
restart at every position of every history of two changes.  `BatchSizes = {1, 10}`
has a batch that every second row overfills and one that nothing does.

Percolation: two rows and two entities let two transactions lock in opposite
orders; three changes let a row be deferred, percolated, deferred and percolated
again while a cleanup runs; one crash hits either process at any point.  Batches of
one take several cycles for what is pending and cut off one of the two entities of
a row; batches of ten meet the row that both rows lead to, and deadlocks.

Failures must be bounded for TLC, and for liveness: nobody is told by a consumer
that fails for ever.  The theorems bound neither changes nor failures, except
where section 4 says so.

The runs of `Tracker`, `ReplicationStream` and `Percolation` do not check
deadlock: a bounded history ends when all has been done, as it should, and a
consumer or daemon that has been told to stop is at rest.

### Fairness

* `ParserSpec`: parser, search and walk each go on while they can; the code is
  sequential.
* `ReplicationStream!FairSpec`: weak fairness of each reader thread and of the
  consumer thread (the scheduler runs threads, and every wait but `put` has a
  timeout), of `stop_streaming` once it is called, and of the server noticing
  that a connection is gone.  None for `Confirm`, `Commit`, signals and faults.
* `Percolation!FairSpec`: weak fairness of both processes.  Deadlocks may repeat
  for ever - the server's choice of victim is not fair - and therefore
  `DeferredWorkEnds` excludes them, as it does the statement that fails.

`Tracker` has no fairness.  That its stream goes on is what `EventuallyHandled`
says with its exceptions, and that its daemon does is `DeferredWorkEnds`.

## 4. What is proved

For every value of the constants that meets the named ASSUMEs - any
number of tables, rows, messages, changes and failures - and checked by TLAPS:

`DependencyGraphProofs`
* `TypeCorrect`, `SearchInvariant`, `DepthsCorrect`: the depths satisfy
  `IsDepth` when the constructor returns.  That alone is not inductive, as it
  says nothing during the search; `SearchInv` is what holds meanwhile: the work
  list is sorted and spans two levels, and each table with a depth is in the
  list, being expanded, or has all its joins satisfied.  `DepthInv` is the two
  together.
* `DepthsCorrectDistances`: `IsDepth` makes each depth the length of a
  shortest walk.  No walk is shorter (a least counterexample over the length
  of the walk, `DepthBoundsWalk`), and one of that length exists (a least
  counterexample over the depth, `DepthHasWalk`).
* `PathsCorrect`: a path returned leads to the base table in `depths[from]`
  steps, each of them the parent join of the table it leaves; it is refused only
  for tables without a depth.
* `LoopsEnd` (`LoopsAdvance`): every step of the search lowers, in lexicographic
  order, the set of tables without a depth, the length of the work list and what
  is left of the adjacency list being scanned; every step of the walk lowers the
  depth of the table it is at.  This is the safety half of termination.  That a
  descent of this kind must stop needs an induction and that steps are taken
  needs fairness, so `SearchTerminates` and `PathTerminates` stay with TLC.

`SqlParserProofs`
* `ExtractedJoinsImplied`: every join reported is imposed by the query, however
  its conditions are nested.  The inductive invariant says that every condition
  still to be processed is true in every world; an AND passes that on to its
  sides, and nothing is taken out of an OR, a NOT or parentheses.
* `QueryGraphCorrect`: all of `DependencyGraphProofs` for the composition.
  While the parser runs the graph is as the constructor will find it (`Fresh`),
  and from then on the step lemmas of the search apply.  `QueryPathsCorrect` and
  `QueryLoopsEnd` carry over `PathsCorrect` and `LoopsEnd` in the same way.
* `ParserTypeCorrect`.
* `DepthsMeanDistances` (`DepthsOfQuery`): depths are lengths of ways along
  implied equalities, and distances if the query is conjunctive.  The second
  half says the parser reads such a query completely.  An induction over nested
  conditions is avoided in this way: `ReadInv` says that every set of conditions
  closed under AND that contains what has been extracted and what is still to be
  read contains the ON clauses.  When nothing is left to read, the smallest
  such set is a world of the query, and an equality that was not extracted is
  false in it, so it is not implied.
* `IdColumnCorrect` (`IdColumnNamesKey`), under `SelectAssumption`.

`ReplicationStreamProofs`
* `TypeCorrect`, `StreamInvariant`, `NoneDropped`, whatever the library confirms.
* `NothingLostIfAcksWait`: if no confirmation passes a message that must still be
  handled (`AcksWait`), nothing is ever lost.  The code does not see to that
  (`stream_lost`); the theorem says that nothing else is missing.
* `MaximumNeverReached`: with `max_retries` above one the consumer never gives up,
  since the counter starts again with every stream object (`RetriesStartOver`); the
  run `stream_gives_up` shows the same as a disagreement with the documentation.
* `LeavingInvariant` and `AbandonedStopped` (`AbandonedIsStopped`).  The property
  itself is not inductive, as it says nothing of the stream in use.
  `LeavingInv` adds that this stream is the consumer's reader and connected until
  it is told to stop, and that the consumer can lose it by an exception only
  after that exception, the last thing put in the queue, has been taken out: its
  reader thread has then ended.
* `Implements`: every behaviour is one of `Delivery`.  The mapping is the identity
  on the history sets `todo` and `lost`, and `sent <- wal`; what
  has to be shown is that `Handle` hands over a message with at most one older
  one left, which is `LineInv`, the inductive part of `StreamInv`.

`TrackerProofs`
* `TypeCorrect`.
* `StreamInvariant`, `DirectChangesCorrect`, `StreamCorrect`, each under
  `ForeignKeySchema`: old rows are streamed whole (REPLICA IDENTITY FULL) and a
  table at depth 1 or 2 holds its parent's `_id` in the join column.  These are
  the schemas the handlers are made for.

`StreamSettles` is not inductive.  `StreamInv` strengthens it in three ways: it
says of events *not yet handled* that they show the way to whom they concern or
that a later event of the parent table names the entity (`ShowsOwners`); of
events handled, that everybody has been told, or will be by such a later event
(`Settled`); and of a handler between its two transactions, that the answer
it holds covers the event in the same sense (`AnswerCoversOwners`).  The step
that matters is `Change`: a change to a parent row may make the answer to a
depth-2 event wrong, and the event this very change appends names both the old
and the new base entity (`ChangeOfParentNames`, `BothParentsNamed`).

`TrackerDeferralProofs`
* `PendingResolved` (`PendingUntilResolved`), for every batch size: it needs besides
  the types that only rows of tables with a depth above 0 are deferred.
* `DeferralInvariant`, and from it `LossesKnown` (`LossesExplained`), under
  `ForeignKeySchema`, for every batch size.  The invariant is about what a later
  change does to a row that waits: its owners stay, or the event that the change
  appends owes the entity in its turn (`OwnersStay`).  A chain of such events may
  be of any length; the proof of `LossesKnown` takes the last event that owes the
  entity, after which nothing can have taken it away.

`PercolationProofs`
* `TypeCorrect`, `DeletesTheArchived` (`DeletedRowsArchived`).
* `NobodyForgotten` (`NobodyMissed`) and `Implements` (`KeepsWork`), for every batch
  size.  The inductive invariant `Inv` says what the open transactions
  are about: the rows a batch writes or has written are those its snapshot `view`
  calls for (`PercolatorFits`), the engine's are its event's (`EngineFits`), a row
  whose state differs from the snapshot is `stale` (`ViewFresh`), and no row is
  written by both (`LocksExclusive`).  `WholeBatch` adds that the INSERT tells
  everybody the snapshot's pending rows lead to, or the snapshot has more than a
  batch takes, and that they are pending still.  So a batch that commits maps to
  one `Resolve` step.

Where an induction over data is needed the proofs use that a set of naturals
with a member has a least one (`LeastNatural`), and derive a contradiction from
the least counterexample.

### Only model-checked

Liveness and fairness are outside what this prover does: `SearchTerminates`,
`PathTerminates`, `EventuallyHandled`, `ShutdownObeyed`, `DeferredWorkEnds`,
`SignalObeyed`.  Every safety property of the passing runs is the subject of a
theorem.  The one hypothesis left in them is `ForeignKeySchema`, which the
instances of the runs satisfy; section 7 says what the code does without it.

## 5. Plan

Done, in this order: `DependencyGraph`, `Tracker`, `ReplicationStream` with
`Delivery`, `Tracker` over `Delivery`, `Percolation` with `DeferredWork`,
`SqlParser`.  What would come next, most important first:

1. `Percolation` with owners that change, so that `Tracker` and `Percolation`
   become one refinement instead of two that meet at `Percolate`.
2. Liveness under lost connections without end, with an abstract promise
   of the network; and liveness from the slot to the tracking table in one module,
   with `SlotKept` in place of fairness of the stream.
3. Properties for the hazards that have none: the parent row looked up by `_id`
   whatever the join names (`routing.py:203`), updates without an old row
   (`routing.py:152`), TRUNCATE, two parent joins of equal length
   (`dependency_graph.py:76`), a reader that ends without an exception, one
   alias for two tables.

## 6. Where the code and its documentation disagree

Each has a run that ends in a counterexample.

| run | the documentation says | the code does |
|---|---|---|
| `tracker_redeferred` | `schema.py:12`: rows in the table are "awaiting percolation" | a row deferred again keeps `percolated = TRUE` (`db_client.py:154`) and is passed over |
| `tracker_moved` | `DESIGN.md:19`: mutable join keys "must be taken into account" | a depth-2 row that moved is deferred with its id only; the entity it moved away from is never told |
| `tracker_union` | `percolator.py:105`: "ON CONFLICT handles them" (duplicates) | `ON CONFLICT DO UPDATE` fails on duplicates within one statement; the same rows fail in every cycle |
| `stream_put_back` | `logical_replication_stream.py:229`: "Put it back if it's a valid message" | the put waits for room in a queue that only the waiting thread empties |
| `stream_stopped` | `streaming.py:128`: "Stop the streaming consumer." | its loop finds no reader, connects again and goes on |
| `stream_gives_up` | `replication_consumer.py:45`: "Maximum reconnection attempts"; 219: "Max retries exceeded, giving up" | `connect` talks to no server and resets `retry_count`, so an unreachable server is tried for ever |
| `stream_lost` | `STREAMING.md:16`: "At-least-once delivery guarantee with WAL position tracking" | the queue takes messages off the library's hands before they are handled, and nothing tells it when they are; one that is confirmed and waits is lost when the process ends |

The paragraph behind `tracker_moved` also says that customers need reprocessing
when a product is deleted; a product is at depth 3, and its deletion is deferred
and found by no join (`left` in `LossesExplained`).

## 7. Limits of the code that the properties allow for

The properties hold with these exceptions, which are in their statements or in
a named hypothesis; each is behaviour of the code that the models contain.

* A row deleted at depth 3 or more is deferred, and the percolation query, which
  joins from the row, finds nobody (`left` in `LossesExplained`).
* With a batch at its limit the INSERT counts base entities and the UPDATE
  counts items, so items are marked whose entities were cut off (`CutShort` in
  `PendingUntilResolved`, `lost` in `LossesExplained`, `forgotten` in
  `NobodyMissed`, `Overfull` in `Resolve`).
* A table the base table refers to (its join names the base table's other
  column) tracks ids of its own (`ForeignKeySchema`).
* If the library confirms messages when it hands them out, what waits in the
  queue is lost in a crash (`lost` in `Delivery`).  The properties of `Tracker` are
  about a stream that lost nothing.
* A message put back at start is overtaken by those read meanwhile: one message
  of each stream object (`OvertakesAtMostOne`).
* A signal is obeyed only when a message arrives (`Queue # <<>>` in
  `ShutdownObeyed`).
* After a handler has failed on an idle stream the abandoned reader keeps the
  slot until it reads its next message, and the new one is refused meanwhile; if
  it waits in `put` on a full queue it keeps the slot for ever, since nobody
  empties that queue (`SlotKept`).  A reader whose start timed out, or that
  `stop_streaming` met before it was connected, is never told to stop
  (`AbandonedIsStopped`).
* An item that becomes old between archiving and deletion is deleted without
  being archived; a crash between the two archives it twice
  (`DeletedRowsArchived`).
* A base table without a selected key gets an id column guessed from its name,
  by one rule in `streaming.py` and another in `utils.py`.
* Equalities in parentheses, under OR, with an unqualified column or written
  with USING are not read (`conjunctive` in `DepthsOfQuery`).

## 8. Not modelled

* Id column naming (`utils.py`): string rules without state; the divergence
  between the two programs is listed as a hazard.
* Configuration and command line (`config.py`, `cli.py`): validation of values
  that enter the models as constants, argument parsing, exit codes.
* Set-up (`setup_db.py`, the DDL of `schema.py`, `_ensure_slot_exists`,
  `_ensure_publication_exists`): run once before anything else; slot and
  publication are the external server's.  A publication that exists is used by
  name, whatever tables it has.
* The connection pool: each process takes one connection at a time.
* `get_slot_lag`, `get_percolation_lag`, logging and metrics: they only read.
* The wire protocol, sqlglot and the library `pgoutput_decoder`, which are not
  part of the repository; what the code relies on is an external action or an
  assumption.  That the library's iterator ends without an exception, after which
  the consumer would poll for ever, is not among its modelled behaviours.
