------------------------------ MODULE JoinGraph ------------------------------
(****************************************************************************)
(* The join graph of the tracked query and the questions the tracker asks   *)
(* of it.  A join is a record [table, to, from_col, to_col], read "table    *)
(* has an equality table.from_col = to.to_col"; a directed join graph is a  *)
(* sequence of such records, in the order SQLParser.get_join_graph appends  *)
(* them.  The adjacency list graph[t] of the code is the subsequence of the *)
(* records whose table is t, so an index of the sequence also orders the    *)
(* adjacency list of every table.                                           *)
(*                                                                          *)
(* Every operator takes the graph and the depths as parameters, so that     *)
(* DependencyGraph (which computes the depths) and Tracker (which uses the  *)
(* computed ones) share them.                                               *)
(****************************************************************************)
EXTENDS Integers, Sequences, FiniteSets, FiniteSetsExt

\* The join seen from its other table.
Reversed(j) ==
    [table |-> j.to, to |-> j.table, from_col |-> j.to_col, to_col |-> j.from_col]

\* get_join_graph: each join of the query gives its forward edge and then its
\* reverse edge.
DirectedJoins(joins) ==
    [k \in 1..(2 * Len(joins)) |->
        IF k % 2 = 1 THEN joins[(k + 1) \div 2] ELSE Reversed(joins[k \div 2])]

\* Fault: the loop over the joins stops one short.
EdgesButLast(g, t) == {k \in 1..(Len(g) - 1) : g[k].table = t}

\* The positions of the adjacency list of table t.
EdgesOf(g, t) == {k \in 1..Len(g) : g[k].table = t}

\* get_join_keys_for_table: the columns of t used in any of its joins.
JoinKeys(g, t) == {g[k].from_col : k \in EdgesOf(g, t)}

\* The edges of t that lead one hop closer to the base table.
ParentEdges(g, depth, t) ==
    {k \in EdgesOf(g, t) : depth[g[k].to] = depth[t] - 1}

\* Fault: a table one hop away is taken for the base table.
HasParentJoinFromTwo(g, depth, t) == depth[t] > 1 /\ ParentEdges(g, depth, t) # {}

\* get_parent_join returns None for the base table, for a table the query does
\* not mention, and when no edge leads closer.
HasParentJoin(g, depth, t) == depth[t] > 0 /\ ParentEdges(g, depth, t) # {}

\* get_parent_join: the first edge of the adjacency list that leads closer.
ParentJoin(g, depth, t) == g[Min(ParentEdges(g, depth, t))]

----------------------------------------------------------------------------
\* What _compute_depths promises, as one condition on each table and one on
\* each edge: the base table alone has depth 0, every other table reached has
\* an edge to a table one hop closer, and no edge leaves the tables reached or
\* skips a level outwards.  (-1 is get_depth's answer for a table not reached.)
IsDepth(g, base, depth) ==
    /\ \A t \in DOMAIN depth : depth[t] = 0 <=> t = base
    /\ \A t \in DOMAIN depth : depth[t] > 0 => ParentEdges(g, depth, t) # {}
    /\ \A k \in 1..Len(g) :
          depth[g[k].table] >= 0 => depth[g[k].to] \in 0..(depth[g[k].table] + 1)

\* Tables t and base are connected by exactly n joins: the plain definition of
\* a walk in a graph, which does not look at how the code searches.
Connected(g, base, tables, t, n) ==
    \E w \in [0..n -> tables] :
        /\ w[0] = t
        /\ w[n] = base
        /\ \A i \in 0..(n - 1) :
              \E k \in 1..Len(g) : g[k].table = w[i] /\ g[k].to = w[i + 1]
=============================================================================
