--------------------------- MODULE DependencyGraph ---------------------------
(****************************************************************************)
(* dependency_graph.py: the object that turns the joins of the query into   *)
(* depths and paths.  The constructor runs the breadth-first search of      *)
(* _compute_depths; afterwards get_path_to_base may be called for any table *)
(* any number of times.  The two loops are taken one iteration at a time,   *)
(* because what is worth proving is that each of them is right whatever the *)
(* query is: joins is any sequence of at most MaxJoins equalities.          *)
(****************************************************************************)
EXTENDS JoinGraph

CONSTANTS
    Tables,      \* every table name that may occur
    BaseTable,   \* the base table of the tracker
    Columns,     \* column names
    MaxJoins     \* bound on the number of join conditions in the query

ASSUME BaseTableAssumption == BaseTable \in Tables
ASSUME MaxJoinsAssumption == MaxJoins \in Nat

JoinCriteria == [table : Tables, to : Tables, from_col : Columns, to_col : Columns]
QueueEntry == [table : Tables, depth : Nat]

VARIABLES
    joins,     \* the equalities of the query's ON clauses, in parse order
    depths,    \* _depths, with -1 where the dictionary has no key
    queue,     \* the search's work list of (table, depth) pairs
    current,   \* the pair being expanded
    scan,      \* positions of current's adjacency list still to visit
    phase,     \* "bfs", then "ready", "walking", "found" or "raised"
    from,      \* the argument of get_path_to_base
    node,      \* its local variable current
    path       \* the list it builds, as the edges taken

vars == <<joins, depths, queue, current, scan, phase, from, node, path>>

graph == DirectedJoins(joins)

\* Fault: depth 0 is taken for no depth (a truth test of _depths.get(t)).
VisitedIfTruthy(t) == depths[t] > 0

\* The loop keeps a set visited and a dictionary _depths and always adds to
\* both together; a table is visited when it has a depth.
Visited(t) == depths[t] # -1

\* What the constructor starts from, whatever the joins are.
Fresh ==
    /\ depths = [t \in Tables |-> IF t = BaseTable THEN 0 ELSE -1]
    /\ queue = <<[table |-> BaseTable, depth |-> 0]>>
    /\ current = [table |-> BaseTable, depth |-> 0]
    /\ scan = {}
    /\ phase = "bfs"
    /\ from = BaseTable
    /\ node = BaseTable
    /\ path = <<>>

Init ==
    /\ \E n \in 0..MaxJoins : joins \in [1..n -> JoinCriteria]
    /\ Fresh

\* Fault: the head of the work list is read and not removed.
DequeuePeeking ==
    /\ phase = "bfs" /\ scan = {} /\ queue # <<>>
    /\ current' = Head(queue)
    /\ scan' = EdgesOf(graph, Head(queue).table)
    /\ UNCHANGED <<joins, depths, queue, phase, from, node, path>>

\* queue.pop(0), and the inner loop over the table's adjacency list begins.
Dequeue ==
    /\ phase = "bfs" /\ scan = {} /\ queue # <<>>
    /\ current' = Head(queue)
    /\ queue' = Tail(queue)
    /\ scan' = EdgesOf(graph, Head(queue).table)
    /\ UNCHANGED <<joins, depths, phase, from, node, path>>

\* Faults of the inner loop: a work list used as a stack, a depth of the wrong
\* sign.  push adds a pair to the work list, step is the increment of the depth.
Visit(step, push(_)) ==
    /\ phase = "bfs" /\ scan # {}
    /\ LET to   == graph[Min(scan)].to
           next == current.depth + step
       IN  IF Visited(to)
           THEN UNCHANGED <<depths, queue>>
           ELSE /\ depths' = [depths EXCEPT ![to] = next]
                /\ queue' = push([table |-> to, depth |-> next])
    /\ scan' = scan \ {Min(scan)}
    /\ UNCHANGED <<joins, current, phase, from, node, path>>

VisitAsStack == Visit(1, LAMBDA entry : <<entry>> \o queue)
VisitWithWrongSign == Visit(-1, LAMBDA entry : Append(queue, entry))

\* One iteration of the inner loop.
VisitNeighbour ==
    /\ phase = "bfs" /\ scan # {}
    /\ LET to   == graph[Min(scan)].to
           next == current.depth + 1
       IN  \/ /\ ~Visited(to)
              /\ depths' = [depths EXCEPT ![to] = next]
              /\ queue' = Append(queue, [table |-> to, depth |-> next])
           \/ /\ Visited(to)
              /\ UNCHANGED <<depths, queue>>
    /\ scan' = scan \ {Min(scan)}
    /\ UNCHANGED <<joins, current, phase, from, node, path>>

\* The work list is empty: the constructor returns.
DepthsComputed ==
    /\ phase = "bfs" /\ scan = {} /\ queue = <<>>
    /\ phase' = "ready"
    /\ UNCHANGED <<joins, depths, queue, current, scan, from, node, path>>

\* get_path_to_base(t) is called.
StartPath(t) ==
    /\ phase \in {"ready", "found", "raised"}
    /\ from' = t
    /\ node' = t
    /\ path' = <<>>
    /\ phase' = "walking"
    /\ UNCHANGED <<joins, depths, queue, current, scan>>

\* Fault: the path is built back to front.
FollowParentReversed ==
    /\ phase = "walking" /\ node # BaseTable /\ HasParentJoin(graph, depths, node)
    /\ path' = <<ParentJoin(graph, depths, node)>> \o path
    /\ node' = ParentJoin(graph, depths, node).to
    /\ UNCHANGED <<joins, depths, queue, current, scan, phase, from>>

\* One iteration of its loop: append the parent join and move to the parent.
FollowParent ==
    /\ phase = "walking" /\ node # BaseTable /\ HasParentJoin(graph, depths, node)
    /\ path' = Append(path, ParentJoin(graph, depths, node))
    /\ node' = ParentJoin(graph, depths, node).to
    /\ UNCHANGED <<joins, depths, queue, current, scan, phase, from>>

\* Fault: the loop goes round again where it should raise.
NoParentContinues ==
    /\ phase = "walking" /\ node # BaseTable /\ ~HasParentJoin(graph, depths, node)
    /\ UNCHANGED vars

\* raise ValueError("No path ...")
NoParent ==
    /\ phase = "walking" /\ node # BaseTable /\ ~HasParentJoin(graph, depths, node)
    /\ phase' = "raised"
    /\ UNCHANGED <<joins, depths, queue, current, scan, from, node, path>>

ReturnPath ==
    /\ phase = "walking" /\ node = BaseTable
    /\ phase' = "found"
    /\ UNCHANGED <<joins, depths, queue, current, scan, from, node, path>>

Search == Dequeue \/ VisitNeighbour \/ DepthsComputed

Walk == FollowParent \/ NoParent \/ ReturnPath

Next ==
    \/ Search
    \/ Walk
    \/ \E t \in Tables : StartPath(t)

Spec == Init /\ [][Next]_vars

\* The code is sequential: once called, each loop runs until it returns.
FairSpec == Spec /\ WF_vars(Search) /\ WF_vars(Walk)

----------------------------------------------------------------------------
TypeOK ==
    /\ joins \in Seq(JoinCriteria)
    /\ depths \in [Tables -> Nat \cup {-1}]
    /\ queue \in Seq(QueueEntry)
    /\ current \in QueueEntry
    /\ scan \in SUBSET (1..Len(graph))
    /\ phase \in {"bfs", "ready", "walking", "found", "raised"}
    /\ from \in Tables
    /\ node \in Tables
    /\ path \in Seq(JoinCriteria)

\* The loop invariant of _compute_depths: the work list is in order of depth and
\* holds at most the level being expanded and the next one; a join of a table
\* already expanded ends at a table reached, at most one level further out.
SearchInv ==
    phase = "bfs" =>
        /\ \A i \in 1..Len(queue) :
              /\ depths[queue[i].table] = queue[i].depth
              /\ queue[i].depth \in current.depth..(current.depth + 1)
              /\ \A j \in 1..i : queue[j].depth <= queue[i].depth
        /\ depths[current.table] = current.depth
        /\ scan \subseteq EdgesOf(graph, current.table)
        /\ \A t \in Tables : depths[t] = 0 <=> t = BaseTable
        /\ \A t \in Tables : depths[t] > 0 => ParentEdges(graph, depths, t) # {}
        /\ \A t \in Tables : depths[t] <= current.depth + 1
        /\ \A k \in 1..Len(graph) :
              depths[graph[k].table] >= 0 =>
                  \/ \E i \in 1..Len(queue) : queue[i].table = graph[k].table
                  \/ k \in scan
                  \/ depths[graph[k].to] \in 0..(depths[graph[k].table] + 1)

\* When the constructor has returned, the depths satisfy the local condition
\* that routing (get_parent_join) and the percolation query rely on: every
\* table reached has a parent join and no join skips a level.
DepthsConsistent ==
    phase # "bfs" => IsDepth(graph, BaseTable, depths)

\* ... and each depth is the distance to the base table, the least number of
\* joins that connects the two; no walk exists for a table without a depth.
DepthsAreDistances ==
    phase = "ready" =>
        \A t \in Tables :
            /\ depths[t] >= 0 => Connected(graph, BaseTable, Tables, t, depths[t])
            /\ \A n \in 0..(Cardinality(Tables) - 1) :
                  Connected(graph, BaseTable, Tables, t, n) => depths[t] \in 0..n

\* get_path_to_base raises only for a table the joins do not connect to the
\* base table; percolator.py:57-61 drops a table's paths when it raises.
RaisesOnlyWhenUnreachable ==
    phase = "raised" => from # BaseTable /\ depths[from] = -1

\* A path returned is a chain of joins of the query from the table asked for to
\* the base table, and it is a shortest one; each step is the join that
\* get_parent_join gives for the table it leaves, so that routing and percolation
\* take the same way.
PathIsShortest ==
    phase = "found" =>
        /\ Len(path) = depths[from]
        /\ \A i \in 1..Len(path) :
              /\ \E k \in 1..Len(graph) : graph[k] = path[i]
              /\ path[i].table = (IF i = 1 THEN from ELSE path[i - 1].to)
              /\ path[i] = ParentJoin(graph, depths, path[i].table)
        /\ path # <<>> => path[Len(path)].to = BaseTable

\* Why both loops end whatever the query is: an iteration of the search reaches
\* one more table, or shortens its work list, or leaves less of an adjacency list
\* to visit; one of get_path_to_base's moves closer to the base table.
Unreached == {t \in Tables : depths[t] = -1}
SearchAdvances ==
    \/ Unreached' \subseteq Unreached /\ Unreached' # Unreached
    \/ Unreached' = Unreached /\ Len(queue') < Len(queue)
    \/ Unreached' = Unreached /\ queue' = queue /\ scan' \subseteq scan /\ scan' # scan
LoopAdvances ==
    /\ phase = "bfs" /\ phase' = "bfs" => SearchAdvances
    /\ phase = "walking" /\ phase' = "walking" => depths'[node'] \in 0..(depths[node] - 1)
LoopsAdvance == [][LoopAdvances]_<<depths, queue, scan, phase, node>>

\* The search ends for every query, cyclic join graphs included.
SearchTerminates == <>(phase # "bfs")

\* Every call of get_path_to_base returns or raises.
PathTerminates == phase = "walking" ~> phase \in {"found", "raised"}
=============================================================================
