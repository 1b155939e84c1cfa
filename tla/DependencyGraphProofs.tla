------------------------ MODULE DependencyGraphProofs ------------------------
(****************************************************************************)
(* Proofs about DependencyGraph, for every query and every set of tables.   *)
(****************************************************************************)
EXTENDS DependencyGraph, JoinGraphProofs

----------------------------------------------------------------------------
LEMMA GraphType ==
  ASSUME TypeOK
  PROVE  /\ Len(graph) \in Nat
         /\ DOMAIN graph = 1..Len(graph)
         /\ graph \in Seq(JoinCriteria)
         /\ \A k \in 1..Len(graph) : graph[k] \in JoinCriteria
         /\ \A k \in 1..Len(graph) : graph[k].table \in Tables /\ graph[k].to \in Tables
         /\ \A k \in 1..Len(graph) : \E m \in 1..Len(graph) : graph[m] = Reversed(graph[k])
         /\ scan \in SUBSET Nat
<1>1. /\ Len(graph) \in Nat
      /\ DOMAIN graph = 1..Len(graph)
      /\ graph \in Seq(JoinCriteria)
      /\ \A k \in 1..Len(graph) : \E m \in 1..Len(graph) : graph[m] = Reversed(graph[k])
  <2>1. joins \in Seq([table : Tables, to : Tables, from_col : Columns, to_col : Columns])
    BY DEF TypeOK, JoinCriteria
  <2>2. /\ Len(DirectedJoins(joins)) \in Nat
        /\ DOMAIN DirectedJoins(joins) = 1..Len(DirectedJoins(joins))
        /\ DirectedJoins(joins) \in
              Seq([table : Tables, to : Tables, from_col : Columns, to_col : Columns])
        /\ \A k \in 1..Len(DirectedJoins(joins)) :
              \E m \in 1..Len(DirectedJoins(joins)) :
                 DirectedJoins(joins)[m] = Reversed(DirectedJoins(joins)[k])
    BY <2>1, DirectedJoinsFacts
  <2>3. QED
    BY <2>2 DEF graph, JoinCriteria
<1>2. \A k \in 1..Len(graph) : graph[k] \in JoinCriteria
  BY <1>1
<1>3. \A k \in 1..Len(graph) : graph[k].table \in Tables /\ graph[k].to \in Tables
  BY <1>2 DEF JoinCriteria
<1>4. scan \in SUBSET Nat
  BY <1>1 DEF TypeOK
<1>5. QED
  BY <1>1, <1>2, <1>3, <1>4

\* A parent join is an edge of the table asked for, one hop closer to the base.
LEMMA ParentJoinFacts ==
  ASSUME TypeOK, NEW t \in Tables, HasParentJoin(graph, depths, t)
  PROVE  /\ ParentJoin(graph, depths, t) \in JoinCriteria
         /\ \E k \in 1..Len(graph) : graph[k] = ParentJoin(graph, depths, t)
         /\ ParentJoin(graph, depths, t).table = t
         /\ ParentJoin(graph, depths, t).to \in Tables
         /\ depths[ParentJoin(graph, depths, t).to] = depths[t] - 1
<1>1. Len(graph) \in Nat /\ ParentEdges(graph, depths, t) # {}
  BY GraphType DEF HasParentJoin
<1>2. QED
  BY <1>1, ParentJoinIsEdge, GraphType

----------------------------------------------------------------------------
LEMMA FreshTypeOK == joins \in Seq(JoinCriteria) /\ Fresh => TypeOK
<1> SUFFICES ASSUME joins \in Seq(JoinCriteria), Fresh PROVE TypeOK
  OBVIOUS
<1>1. QED
  BY BaseTableAssumption DEF Fresh, TypeOK, JoinCriteria, QueueEntry

LEMMA InitFresh == Init => joins \in Seq(JoinCriteria) /\ Fresh
  BY MaxJoinsAssumption DEF Init

LEMMA InitTypeOK == Init => TypeOK
  BY InitFresh, FreshTypeOK

LEMMA TypeStep == TypeOK /\ [Next]_vars => TypeOK'
<1> SUFFICES ASSUME TypeOK, [Next]_vars PROVE TypeOK'
  OBVIOUS
<1> USE DEF TypeOK
<1>1. CASE Dequeue
  <2>1. queue # <<>> /\ queue \in Seq(QueueEntry)
    BY <1>1 DEF Dequeue
  <2>2. EdgesOf(graph, Head(queue).table) \in SUBSET (1..Len(graph))
    BY DEF EdgesOf
  <2>3. graph' = graph
    BY <1>1 DEF Dequeue, graph
  <2>4. /\ Head(queue) \in QueueEntry
        /\ Tail(queue) \in Seq(QueueEntry)
    BY <2>1, HeadTailProperties
  <2>5. scan' \in SUBSET (1..Len(graph'))
    BY <1>1, <2>2, <2>3 DEF Dequeue
  <2>6. QED
    BY <1>1, <2>4, <2>5 DEF Dequeue
<1>2. CASE VisitNeighbour
  <2>1. Min(scan) \in scan
    BY <1>2, GraphType, MinIsMember DEF VisitNeighbour
  <2>2. graph[Min(scan)].to \in Tables
    BY <2>1, GraphType
  <2>3. graph' = graph
    BY <1>2 DEF VisitNeighbour, graph
  <2>4. current.depth + 1 \in Nat
    BY DEF QueueEntry
  <2>5. scan' \in SUBSET (1..Len(graph'))
    BY <1>2, <2>3 DEF VisitNeighbour
  <2>6. depths' \in [Tables -> Nat \cup {-1}]
    BY <1>2, <2>2, <2>4 DEF VisitNeighbour
  <2>7. queue' \in Seq(QueueEntry)
    <3> DEFINE entry == [table |-> graph[Min(scan)].to, depth |-> current.depth + 1]
    <3>1. entry \in QueueEntry
      BY <2>2, <2>4 DEF QueueEntry
    <3>2. Append(queue, entry) \in Seq(QueueEntry)
      BY <3>1, AppendProperties
    <3>3. QED
      BY <1>2, <3>2 DEF VisitNeighbour
  <2>8. QED
    BY <1>2, <2>5, <2>6, <2>7 DEF VisitNeighbour
<1>3. CASE DepthsComputed
  BY <1>3 DEF DepthsComputed, graph
<1>4. ASSUME NEW t \in Tables, StartPath(t) PROVE TypeOK'
  BY <1>4 DEF StartPath, graph
<1>5. CASE FollowParent
  BY <1>5, ParentJoinFacts DEF FollowParent, graph
<1>6. CASE NoParent
  BY <1>6 DEF NoParent, graph
<1>7. CASE ReturnPath
  BY <1>7 DEF ReturnPath, graph
<1>8. CASE UNCHANGED vars
  BY <1>8 DEF vars, graph
<1>9. QED
  BY <1>1, <1>2, <1>3, <1>4, <1>5, <1>6, <1>7, <1>8 DEF Next, Search, Walk

\* The variables keep their types.
THEOREM TypeCorrect == Spec => []TypeOK
<1>1. Init => TypeOK
  BY InitTypeOK
<1>2. TypeOK /\ [Next]_vars => TypeOK'
  BY TypeStep
<1>3. QED
  BY <1>1, <1>2, PTL DEF Spec

----------------------------------------------------------------------------
\* The breadth-first search.  SearchInv is inductive together with what the
\* constructor promises once it has returned.
DepthInv == SearchInv /\ DepthsConsistent

LEMMA ParentEdgesNonEmpty ==
  ASSUME NEW d, NEW t
  PROVE  ParentEdges(graph, d, t) # {} <=>
            \E k \in 1..Len(graph) : graph[k].table = t /\ d[graph[k].to] = d[t] - 1
  BY DEF ParentEdges, EdgesOf

LEMMA FreshDepthInv == joins \in Seq(JoinCriteria) /\ Fresh => DepthInv
<1> SUFFICES ASSUME joins \in Seq(JoinCriteria), Fresh PROVE DepthInv
  OBVIOUS
<1>1. TypeOK /\ BaseTable \in Tables
  BY FreshTypeOK, BaseTableAssumption
<1>2. \A t \in Tables : depths[t] = IF t = BaseTable THEN 0 ELSE -1
  BY DEF Fresh
<1>3. Len(queue) = 1 /\ queue[1].table = BaseTable /\ queue[1].depth = 0
  BY DEF Fresh
<1>4. \A k \in 1..Len(graph) :
         depths[graph[k].table] >= 0 => queue[1].table = graph[k].table
  <2> SUFFICES ASSUME NEW k \in 1..Len(graph), depths[graph[k].table] >= 0
               PROVE  queue[1].table = graph[k].table
    OBVIOUS
  <2>1. graph[k].table \in Tables
    BY <1>1, GraphType
  <2>2. ~(-1 >= 0)
    OBVIOUS
  <2>3. graph[k].table = BaseTable
    BY <1>2, <2>1, <2>2
  <2>4. QED
    BY <1>3, <2>3
<1>5. SearchInv
  BY <1>1, <1>2, <1>3, <1>4 DEF Fresh, SearchInv
<1>6. QED
  BY <1>5 DEF Fresh, DepthInv, DepthsConsistent

LEMMA InitDepthInv == Init => DepthInv
  BY InitFresh, FreshDepthInv

\* Popping an entry keeps the work list ordered and makes the popped table the
\* one whose joins are still to be visited.
LEMMA DequeueDepthInv ==
  ASSUME TypeOK, DepthInv, Dequeue
  PROVE  DepthInv'
<1>1. phase = "bfs" /\ phase' = "bfs" /\ scan = {} /\ graph' = graph /\ depths' = depths
  BY DEF Dequeue, graph
<1>2. SearchInv
  BY DEF DepthInv
<1>3. queue \in Seq(QueueEntry) /\ queue # <<>>
  BY DEF Dequeue, TypeOK
<1>4. /\ Len(queue) \in Nat /\ Len(queue) > 0
      /\ Len(queue') = Len(queue) - 1
      /\ \A i \in 1..Len(queue') : queue'[i] = queue[i + 1]
      /\ current' = queue[1]
  <2>1. Len(queue) \in Nat /\ Len(queue) > 0
    BY <1>3
  <2>2. Head(queue) = queue[1]
    BY <1>3
  <2>3. QED
    BY <1>3, <2>1, <2>2, HeadTailProperties DEF Dequeue
<1>5. \A i \in 1..Len(queue) : queue[i].depth \in Nat /\ queue[i].table \in Tables
  <2>1. \A i \in 1..Len(queue) : queue[i] \in QueueEntry
    BY <1>3, ElementOfSeq
  <2>2. QED
    BY <2>1 DEF QueueEntry
<1>6. \A i \in 1..Len(queue) :
         /\ depths[queue[i].table] = queue[i].depth
         /\ queue[i].depth \in current.depth..(current.depth + 1)
         /\ \A j \in 1..i : queue[j].depth <= queue[i].depth
  BY <1>1, <1>2 DEF SearchInv
<1>7. current.depth \in Nat
  BY DEF TypeOK, QueueEntry
<1>8. ASSUME NEW i \in 1..Len(queue')
      PROVE  /\ depths[queue'[i].table] = queue'[i].depth
             /\ queue'[i].depth \in current'.depth..(current'.depth + 1)
             /\ \A j \in 1..i : queue'[j].depth <= queue'[i].depth
  <2>1. i + 1 \in 1..Len(queue) /\ 1 \in 1..(i + 1) /\ 1 \in 1..Len(queue)
    BY <1>4
  <2>2. queue[1].depth <= queue[i + 1].depth /\ queue[1].depth >= current.depth
    BY <1>6, <1>7, <2>1
  <2>3. queue[i + 1].depth <= current.depth + 1
    BY <1>6, <1>7, <2>1
  <2>4. ASSUME NEW j \in 1..i PROVE queue'[j].depth <= queue'[i].depth
    <3>1. j + 1 \in 1..(i + 1) /\ j \in 1..Len(queue')
      BY <1>4
    <3>2. QED
      BY <1>4, <1>6, <2>1, <3>1
  <2>5. QED
    BY <1>4, <1>5, <1>6, <1>7, <2>1, <2>2, <2>3, <2>4
<1>9. depths[current'.table] = current'.depth
  BY <1>4, <1>6
<1>10. \A t \in Tables : depths[t] <= current'.depth + 1
  <2>1. \A t \in Tables : depths[t] <= current.depth + 1 /\ depths[t] \in Int
    BY <1>1, <1>2 DEF SearchInv, TypeOK
  <2>2. current.depth <= queue[1].depth /\ queue[1].depth \in Nat
    BY <1>4, <1>5, <1>6, <1>7
  <2>3. QED
    BY <1>4, <1>7, <2>1, <2>2
<1>11. scan' = EdgesOf(graph, current'.table)
  BY <1>3, <1>4 DEF Dequeue
<1>12. ASSUME NEW k \in 1..Len(graph), depths[graph[k].table] >= 0
       PROVE  \/ \E i \in 1..Len(queue') : queue'[i].table = graph[k].table
              \/ k \in scan'
              \/ depths[graph[k].to] \in 0..(depths[graph[k].table] + 1)
  <2>1. \/ \E i \in 1..Len(queue) : queue[i].table = graph[k].table
        \/ depths[graph[k].to] \in 0..(depths[graph[k].table] + 1)
    BY <1>1, <1>2, <1>12 DEF SearchInv
  <2>2. ASSUME NEW i \in 1..Len(queue), queue[i].table = graph[k].table
        PROVE  \/ \E j \in 1..Len(queue') : queue'[j].table = graph[k].table
               \/ k \in scan'
    <3>1. CASE i = 1
      BY <1>4, <1>11, <2>2, <3>1 DEF EdgesOf
    <3>2. CASE i # 1
      <4>1. i - 1 \in 1..Len(queue') /\ (i - 1) + 1 = i
        BY <1>4, <3>2
      <4>2. QED
        BY <1>4, <2>2, <4>1
    <3>3. QED
      BY <3>1, <3>2
  <2>3. QED
    BY <2>1, <2>2
<1>13. /\ \A t \in Tables : depths[t] = 0 <=> t = BaseTable
       /\ \A t \in Tables : depths[t] > 0 => ParentEdges(graph, depths, t) # {}
  BY <1>1, <1>2 DEF SearchInv
<1>14. SearchInv'
  BY <1>1, <1>8, <1>9, <1>10, <1>11, <1>12, <1>13 DEF SearchInv
<1>15. QED
  BY <1>1, <1>14 DEF DepthInv, DepthsConsistent

\* Visiting a neighbour: a table found for the first time is one level further
\* out than the one being expanded, and the reverse join is its parent join.
LEMMA VisitDepthInv ==
  ASSUME TypeOK, DepthInv, VisitNeighbour
  PROVE  DepthInv'
<1> DEFINE k0 == Min(scan)
<1> DEFINE to == graph[k0].to
<1> DEFINE next == current.depth + 1
<1> DEFINE entry == [table |-> to, depth |-> next]
<1>1. phase = "bfs" /\ phase' = "bfs" /\ graph' = graph /\ current' = current
  BY DEF VisitNeighbour, graph
<1>2. SearchInv
  BY DEF DepthInv
<1>3. k0 \in scan /\ k0 \in 1..Len(graph)
  BY GraphType, MinIsMember DEF VisitNeighbour, TypeOK
<1>4. graph[k0].table = current.table /\ to \in Tables /\ current.table \in Tables
  BY <1>1, <1>2, <1>3, GraphType DEF SearchInv, EdgesOf, TypeOK, QueueEntry
<1>5. scan' = scan \ {k0} /\ current.depth \in Nat /\ depths[current.table] = current.depth
  BY <1>1, <1>2 DEF VisitNeighbour, TypeOK, QueueEntry, SearchInv
<1>6. CASE Visited(to)
  <2>1. depths' = depths /\ queue' = queue
    BY <1>6 DEF VisitNeighbour, Visited
  <2>2. depths[to] \in 0..(depths[graph[k0].table] + 1)
    BY <1>1, <1>2, <1>4, <1>5, <1>6 DEF SearchInv, TypeOK, Visited
  <2>3. SearchInv'
    BY <1>1, <1>2, <1>5, <2>1, <2>2 DEF SearchInv
  <2>4. QED
    BY <1>1, <2>3 DEF DepthInv, DepthsConsistent
<1>7. CASE ~Visited(to)
  <2>1. /\ depths' = [depths EXCEPT ![to] = next]
        /\ queue' = Append(queue, entry)
        /\ depths[to] = -1
    BY <1>7 DEF VisitNeighbour, Visited
  <2>2. /\ Len(queue) \in Nat
        /\ Len(queue') = Len(queue) + 1
        /\ \A i \in 1..Len(queue) : queue'[i] = queue[i]
        /\ queue'[Len(queue) + 1] = entry
    <3>1. entry \in QueueEntry /\ queue \in Seq(QueueEntry)
      BY <1>4, <1>5 DEF QueueEntry, TypeOK
    <3>2. QED
      BY <2>1, <3>1, AppendProperties, LenProperties
  <2>3. /\ \A t \in Tables : depths'[t] = IF t = to THEN next ELSE depths[t]
        /\ \A t \in Tables : depths[t] \in Nat \cup {-1}
    BY <2>1 DEF TypeOK
  <2>4. \A i \in 1..Len(queue) :
           /\ queue[i].depth \in Nat
           /\ queue[i].table \in Tables
           /\ depths[queue[i].table] = queue[i].depth
           /\ queue[i].depth \in current.depth..next
           /\ \A j \in 1..i : queue[j].depth <= queue[i].depth
    <3>1. \A i \in 1..Len(queue) : queue[i] \in QueueEntry
      BY ElementOfSeq DEF TypeOK
    <3>2. QED
      BY <1>1, <1>2, <3>1 DEF SearchInv, QueueEntry
  <2>5. ASSUME NEW i \in 1..Len(queue')
        PROVE  /\ depths'[queue'[i].table] = queue'[i].depth
               /\ queue'[i].depth \in current.depth..next
               /\ \A j \in 1..i : queue'[j].depth <= queue'[i].depth
    <3>1. CASE i \in 1..Len(queue)
      <4>1. queue[i].table # to
        BY <2>1, <2>4, <3>1
      <4>2. \A j \in 1..i : j \in 1..Len(queue)
        BY <2>2, <3>1
      <4>3. QED
        BY <2>2, <2>3, <2>4, <3>1, <4>1, <4>2
    <3>2. CASE i = Len(queue) + 1
      <4>1. queue'[i].depth = next /\ queue'[i].table = to
        BY <2>2, <3>2
      <4>2. \A j \in 1..i : j \in 1..Len(queue) \/ j = i
        BY <2>2, <3>2
      <4>3. \A j \in 1..i : queue'[j].depth <= next
        BY <1>5, <2>2, <2>4, <4>1, <4>2
      <4>4. QED
        BY <1>4, <1>5, <2>3, <4>1, <4>3
    <3>3. QED
      BY <2>2, <3>1, <3>2
  <2>6. current.table # to
    BY <1>5, <2>1
  <2>7. depths'[current.table] = current.depth
    BY <1>4, <1>5, <2>3, <2>6
  <2>8. \A t \in Tables : depths'[t] <= next /\ (depths'[t] = 0 <=> t = BaseTable)
    BY <1>1, <1>2, <1>5, <2>1, <2>3 DEF SearchInv
  <2>9. ASSUME NEW t \in Tables, depths'[t] > 0
        PROVE  ParentEdges(graph, depths', t) # {}
    <3>1. CASE t = to
      <4>1. PICK m \in 1..Len(graph) : graph[m] = Reversed(graph[k0])
        BY <1>3, GraphType
      <4>2. graph[m].table = to /\ graph[m].to = current.table
        BY <1>4, <4>1 DEF Reversed
      <4>3. depths'[graph[m].to] = depths'[t] - 1
        BY <1>4, <1>5, <2>3, <2>7, <3>1, <4>2
      <4>4. QED
        BY <3>1, <4>2, <4>3, ParentEdgesNonEmpty
    <3>2. CASE t # to
      <4>1. depths'[t] = depths[t] /\ depths[t] \in Nat
        BY <2>3, <3>2, <2>9
      <4>2. ParentEdges(graph, depths, t) # {}
        BY <1>1, <1>2, <2>9, <4>1 DEF SearchInv
      <4>3. PICK k \in 1..Len(graph) : graph[k].table = t /\ depths[graph[k].to] = depths[t] - 1
        BY <4>2, ParentEdgesNonEmpty
      <4>4. depths[graph[k].to] # -1
        BY <2>9, <4>1, <4>3
      <4>5. graph[k].to # to /\ graph[k].to \in Tables
        BY <2>1, <4>4, GraphType
      <4>6. depths'[graph[k].to] = depths'[t] - 1
        BY <2>3, <4>1, <4>3, <4>5
      <4>7. QED
        BY <4>3, <4>6, ParentEdgesNonEmpty
    <3>3. QED
      BY <3>1, <3>2
  <2>10. ASSUME NEW k \in 1..Len(graph), depths'[graph[k].table] >= 0
         PROVE  \/ \E i \in 1..Len(queue') : queue'[i].table = graph[k].table
                \/ k \in scan'
                \/ depths'[graph[k].to] \in 0..(depths'[graph[k].table] + 1)
    <3>1. graph[k].table \in Tables /\ graph[k].to \in Tables
      BY GraphType
    <3>2. CASE graph[k].table = to
      <4>1. Len(queue) + 1 \in 1..Len(queue') /\ queue'[Len(queue) + 1].table = to
        BY <2>2
      <4>2. QED
        BY <3>2, <4>1
    <3>3. CASE k = k0
      <4>1. depths'[graph[k].table] = current.depth
        BY <1>4, <2>7, <3>3
      <4>2. depths'[graph[k].to] = next
        BY <1>4, <2>3, <3>3
      <4>3. next \in 0..(current.depth + 1)
        BY <1>5
      <4>4. QED
        BY <4>1, <4>2, <4>3
    <3>4. CASE graph[k].table # to /\ k # k0
      <4>1. depths'[graph[k].table] = depths[graph[k].table]
        BY <2>3, <3>1, <3>4
      <4>2. \/ \E i \in 1..Len(queue) : queue[i].table = graph[k].table
            \/ k \in scan
            \/ depths[graph[k].to] \in 0..(depths[graph[k].table] + 1)
        BY <1>1, <1>2, <2>10, <4>1 DEF SearchInv
      <4>3. CASE \E i \in 1..Len(queue) : queue[i].table = graph[k].table
        <5>1. \A i \in 1..Len(queue) : i \in 1..Len(queue')
          BY <2>2
        <5>2. QED
          BY <2>2, <4>3, <5>1
      <4>4. CASE k \in scan
        BY <1>5, <3>4, <4>4
      <4>5. CASE depths[graph[k].to] \in 0..(depths[graph[k].table] + 1)
        <5>1. graph[k].to # to
          BY <2>1, <4>5
        <5>2. QED
          BY <2>3, <3>1, <4>1, <4>5, <5>1
      <4>6. QED
        BY <4>2, <4>3, <4>4, <4>5
    <3>5. QED
      BY <3>2, <3>3, <3>4
  <2>11. scan' \subseteq EdgesOf(graph, current.table)
    BY <1>1, <1>2, <1>5 DEF SearchInv
  <2>12. SearchInv'
    BY <1>1, <2>5, <2>7, <2>8, <2>9, <2>10, <2>11 DEF SearchInv
  <2>13. QED
    BY <1>1, <2>12 DEF DepthInv, DepthsConsistent
<1>8. QED
  BY <1>6, <1>7

\* When the work list is empty every join of a table reached has been visited.
LEMMA ComputedDepthInv ==
  ASSUME TypeOK, DepthInv, DepthsComputed
  PROVE  DepthInv'
<1>1. phase = "bfs" /\ phase' = "ready" /\ scan = {} /\ queue = <<>> /\ Len(queue) = 0
  BY DEF DepthsComputed
<1>2. graph' = graph /\ depths' = depths /\ DOMAIN depths = Tables
  BY DEF DepthsComputed, graph, TypeOK
<1>3. SearchInv
  BY DEF DepthInv
<1>4. IsDepth(graph, BaseTable, depths)
  BY <1>1, <1>2, <1>3 DEF SearchInv, IsDepth
<1>5. QED
  BY <1>1, <1>2, <1>4 DEF DepthInv, SearchInv, DepthsConsistent

\* get_path_to_base reads the depths and changes none of them.
LEMMA WalkKeepsDepths ==
  ASSUME TypeOK, DepthInv, Walk \/ (\E t \in Tables : StartPath(t))
  PROVE  DepthInv'
<1>1. /\ phase # "bfs" /\ phase' # "bfs"
      /\ graph' = graph /\ depths' = depths
  BY DEF Walk, FollowParent, NoParent, ReturnPath, StartPath, graph
<1>2. QED
  BY <1>1 DEF DepthInv, SearchInv, DepthsConsistent

LEMMA DepthStep == TypeOK /\ DepthInv /\ [Next]_vars => DepthInv'
<1> SUFFICES ASSUME TypeOK, DepthInv, [Next]_vars PROVE DepthInv'
  OBVIOUS
<1>1. CASE Dequeue
  BY <1>1, DequeueDepthInv
<1>2. CASE VisitNeighbour
  BY <1>2, VisitDepthInv
<1>3. CASE DepthsComputed
  BY <1>3, ComputedDepthInv
<1>4. CASE Walk
  BY <1>4, WalkKeepsDepths
<1>5. CASE \E t \in Tables : StartPath(t)
  BY <1>5, WalkKeepsDepths
<1>6. CASE UNCHANGED vars
  BY <1>6 DEF vars, graph, DepthInv, SearchInv, DepthsConsistent
<1>7. QED
  BY <1>1, <1>2, <1>3, <1>4, <1>5, <1>6 DEF Next, Search

\* The loop invariant of _compute_depths holds throughout, and with it the
\* condition on the depths once the search has ended.
THEOREM SearchCorrect == Spec => []DepthInv
<1>1. Init => DepthInv
  BY InitDepthInv
<1>2. TypeOK /\ DepthInv /\ [Next]_vars => DepthInv'
  BY DepthStep
<1>3. QED
  BY <1>1, <1>2, TypeCorrect, PTL DEF Spec

\* The work list of the search stays in order of depth, two levels at most, and
\* a table expanded has no join left that skips a level.
THEOREM SearchInvariant == Spec => []SearchInv
<1>1. DepthInv => SearchInv
  BY DEF DepthInv
<1>2. QED
  BY <1>1, SearchCorrect, PTL

\* Every depth the constructor computes is right: each table reached has a
\* parent join and no join skips a level outwards.
THEOREM DepthsCorrect == Spec => []DepthsConsistent
<1>1. DepthInv => DepthsConsistent
  BY DEF DepthInv
<1>2. QED
  BY <1>1, SearchCorrect, PTL

----------------------------------------------------------------------------
\* The depths are distances.  Both halves argue from a least counterexample.

\* Along a walk to the base table the depth grows by at most one per join.
LEMMA DepthBoundsWalk ==
  ASSUME TypeOK, IsDepth(graph, BaseTable, depths),
         NEW t \in Tables, NEW n \in Nat, Connected(graph, BaseTable, Tables, t, n)
  PROVE  depths[t] \in 0..n
<1>1. PICK w \in [0..n -> Tables] :
         /\ w[0] = t
         /\ w[n] = BaseTable
         /\ \A i \in 0..(n - 1) :
               \E k \in 1..Len(graph) : graph[k].table = w[i] /\ graph[k].to = w[i + 1]
  BY DEF Connected
<1> DEFINE Far == {i \in 0..n : depths[w[n - i]] \notin 0..i}
<1>2. SUFFICES ASSUME Far # {} PROVE FALSE
  <2>1. n \notin Far
    BY <1>2
  <2>2. w[n - n] = t
    BY <1>1
  <2>3. QED
    BY <2>1, <2>2
<1>3. PICK m \in Far : \A i \in Far : m <= i
  <2>1. Far \in SUBSET Nat
    OBVIOUS
  <2>2. QED
    BY <1>2, <2>1, LeastNatural
<1>4. m # 0
  <2>1. depths[BaseTable] = 0
    BY BaseTableAssumption DEF IsDepth, TypeOK
  <2>2. w[n - 0] = BaseTable
    BY <1>1
  <2>3. QED
    BY <2>1, <2>2
<1>5. m - 1 \in 0..n /\ m - 1 \notin Far /\ m \in 1..n
  BY <1>3, <1>4
<1>6. depths[w[n - (m - 1)]] \in 0..(m - 1)
  BY <1>5
<1>7. n - m \in 0..(n - 1) /\ (n - m) + 1 = n - (m - 1)
  BY <1>5
<1>8. PICK k \in 1..Len(graph) : graph[k].table = w[n - m] /\ graph[k].to = w[n - (m - 1)]
  BY <1>1, <1>7
<1>9. PICK r \in 1..Len(graph) : graph[r] = Reversed(graph[k])
  BY GraphType
<1>10. graph[r].table = w[n - (m - 1)] /\ graph[r].to = w[n - m]
  BY <1>8, <1>9 DEF Reversed
<1>11. depths[w[n - m]] \in 0..(depths[w[n - (m - 1)]] + 1)
  BY <1>6, <1>10 DEF IsDepth
<1>12. depths[w[n - m]] \in 0..m
  BY <1>5, <1>6, <1>11
<1>13. QED
  BY <1>12

\* Following parent joins from a table reached gives a walk of depth many joins.
LEMMA DepthHasWalk ==
  ASSUME TypeOK, IsDepth(graph, BaseTable, depths), NEW t \in Tables, depths[t] >= 0
  PROVE  Connected(graph, BaseTable, Tables, t, depths[t])
<1> DEFINE Bad == {d \in Nat : \E s \in Tables :
                      depths[s] = d /\ ~Connected(graph, BaseTable, Tables, s, d)}
<1>1. SUFFICES ASSUME Bad # {} PROVE FALSE
  <2>1. depths[t] \in Nat
    BY DEF TypeOK
  <2>2. QED
    BY <1>1, <2>1
<1>2. PICK m \in Bad : \A i \in Bad : m <= i
  <2>1. Bad \in SUBSET Nat
    OBVIOUS
  <2>2. QED
    BY <1>1, <2>1, LeastNatural
<1>3. PICK s \in Tables : depths[s] = m /\ ~Connected(graph, BaseTable, Tables, s, m)
  BY <1>2
<1>4. m \in Nat
  BY <1>2
<1>5. CASE m = 0
  <2> DEFINE w == [i \in 0..0 |-> s]
  <2>1. s = BaseTable
    BY <1>3, <1>5 DEF IsDepth, TypeOK
  <2>2. w \in [0..0 -> Tables] /\ w[0] = BaseTable
    BY <2>1
  <2>3. Connected(graph, BaseTable, Tables, s, 0)
    <3>1. 0..(0 - 1) = {}
      OBVIOUS
    <3>2. QED
      BY <2>1, <2>2, <3>1 DEF Connected
  <2>4. QED
    BY <1>3, <1>5, <2>3
<1>6. CASE m > 0
  <2>1. ParentEdges(graph, depths, s) # {}
    BY <1>3, <1>6 DEF IsDepth, TypeOK
  <2>2. PICK k \in 1..Len(graph) : graph[k].table = s /\ depths[graph[k].to] = m - 1
    BY <1>3, <2>1, ParentEdgesNonEmpty
  <2>3. graph[k].to \in Tables /\ m - 1 \in Nat /\ m - 1 \notin Bad
    BY <1>2, <1>4, <1>6, GraphType
  <2>4. Connected(graph, BaseTable, Tables, graph[k].to, m - 1)
    BY <2>2, <2>3
  <2>5. PICK w \in [0..(m - 1) -> Tables] :
           /\ w[0] = graph[k].to
           /\ w[m - 1] = BaseTable
           /\ \A i \in 0..((m - 1) - 1) :
                 \E e \in 1..Len(graph) : graph[e].table = w[i] /\ graph[e].to = w[i + 1]
    BY <2>4 DEF Connected
  <2> DEFINE longer == [i \in 0..m |-> IF i = 0 THEN s ELSE w[i - 1]]
  <2>6. longer \in [0..m -> Tables] /\ longer[0] = s /\ longer[m] = BaseTable
    BY <1>4, <1>6, <2>5
  <2>7. ASSUME NEW i \in 0..(m - 1)
        PROVE  \E e \in 1..Len(graph) : graph[e].table = longer[i] /\ graph[e].to = longer[i + 1]
    <3>1. CASE i = 0
      <4>1. longer[i] = s /\ longer[i + 1] = graph[k].to
        BY <1>4, <1>6, <2>5, <3>1
      <4>2. QED
        BY <2>2, <4>1
    <3>2. CASE i # 0
      <4>1. i - 1 \in 0..((m - 1) - 1) /\ (i - 1) + 1 = i /\ i \in 0..m /\ i + 1 \in 0..m
        BY <1>4, <3>2
      <4>2. longer[i] = w[i - 1] /\ longer[i + 1] = w[(i - 1) + 1]
        BY <3>2, <4>1
      <4>3. QED
        BY <2>5, <4>1, <4>2
    <3>3. QED
      BY <3>1, <3>2
  <2>8. Connected(graph, BaseTable, Tables, s, m)
    BY <2>6, <2>7 DEF Connected
  <2>9. QED
    BY <1>3, <2>8
<1>7. QED
  BY <1>4, <1>5, <1>6

LEMMA ConsistentAreDistances == TypeOK /\ DepthsConsistent => DepthsAreDistances
<1> SUFFICES ASSUME TypeOK, DepthsConsistent, phase = "ready", NEW t \in Tables
             PROVE  /\ depths[t] >= 0 => Connected(graph, BaseTable, Tables, t, depths[t])
                    /\ \A n \in 0..(Cardinality(Tables) - 1) :
                          Connected(graph, BaseTable, Tables, t, n) => depths[t] \in 0..n
  BY DEF DepthsAreDistances
<1>1. IsDepth(graph, BaseTable, depths)
  BY DEF DepthsConsistent
<1>2. \A n \in 0..(Cardinality(Tables) - 1) : n \in Nat
  OBVIOUS
<1>3. QED
  BY <1>1, <1>2, DepthBoundsWalk, DepthHasWalk

\* get_depth is the distance to the base table, for every query.
THEOREM DepthsCorrectDistances == Spec => []DepthsAreDistances
<1>1. TypeOK /\ DepthsConsistent => DepthsAreDistances
  BY ConsistentAreDistances
<1>2. QED
  BY <1>1, TypeCorrect, DepthsCorrect, PTL

----------------------------------------------------------------------------
\* get_path_to_base.  The joins collected so far lead from the table asked for
\* to the loop's current table, and their number and its depth add up.
PathInv ==
    phase \in {"walking", "found", "raised"} =>
        /\ \A i \in 1..Len(path) :
              /\ \E k \in 1..Len(graph) : graph[k] = path[i]
              /\ path[i].table = (IF i = 1 THEN from ELSE path[i - 1].to)
              /\ path[i] = ParentJoin(graph, depths, path[i].table)
        /\ node = (IF path = <<>> THEN from ELSE path[Len(path)].to)
        /\ depths[from] >= 0 => depths[node] >= 0 /\ Len(path) + depths[node] = depths[from]
        /\ depths[from] = -1 => path = <<>>
        /\ phase = "found" => node = BaseTable
        /\ phase = "raised" => from # BaseTable /\ depths[from] = -1

\* One iteration appends the parent join of the current table.
LEMMA FollowParentPathInv ==
  ASSUME TypeOK, DepthsConsistent, PathInv, FollowParent
  PROVE  PathInv'
<1> DEFINE step == ParentJoin(graph, depths, node)
<1>1. /\ phase = "walking" /\ phase' = "walking"
      /\ graph' = graph /\ depths' = depths /\ from' = from
      /\ path' = Append(path, step)
      /\ node' = step.to
  BY DEF FollowParent, graph
<1>2. /\ step \in JoinCriteria
      /\ \E k \in 1..Len(graph) : graph[k] = step
      /\ step.table = node
      /\ step.to \in Tables
      /\ depths[step.to] = depths[node] - 1
  BY ParentJoinFacts DEF FollowParent, TypeOK
<1>3. /\ Len(path) \in Nat
      /\ Len(path') = Len(path) + 1
      /\ path' # <<>>
      /\ \A i \in 1..Len(path) : path'[i] = path[i]
      /\ path'[Len(path) + 1] = step
  BY <1>1, <1>2, AppendProperties, LenProperties DEF TypeOK
<1>4. ASSUME NEW i \in 1..Len(path')
      PROVE  /\ \E k \in 1..Len(graph) : graph[k] = path'[i]
             /\ path'[i].table = (IF i = 1 THEN from ELSE path'[i - 1].to)
             /\ path'[i] = ParentJoin(graph, depths, path'[i].table)
  <2>1. CASE i \in 1..Len(path)
    <3>1. i # 1 => i - 1 \in 1..Len(path)
      BY <1>3, <2>1
    <3>2. QED
      BY <1>1, <1>3, <2>1, <3>1 DEF PathInv
  <2>2. CASE i = Len(path) + 1
    <3>1. path = <<>> <=> i = 1
      BY <1>3, <2>2, EmptySeq DEF TypeOK
    <3>2. i # 1 => i - 1 \in 1..Len(path) /\ i - 1 = Len(path)
      BY <1>3, <2>2
    <3>3. QED
      BY <1>1, <1>2, <1>3, <2>2, <3>1, <3>2 DEF PathInv
  <2>3. i \in 1..Len(path) \/ i = Len(path) + 1
    BY <1>3
  <2>4. QED
    BY <2>1, <2>2, <2>3
<1>5. node' = path'[Len(path')].to
  BY <1>1, <1>3
<1>6. depths[node] > 0
  BY DEF FollowParent, HasParentJoin
<1>7. depths[from] # -1
  BY <1>1, <1>6 DEF PathInv
<1>8. depths[from] >= 0 => depths[step.to] >= 0 /\ Len(path') + depths[step.to] = depths[from]
  <2>1. depths[node] \in Int /\ depths[from] \in Int
    BY DEF TypeOK
  <2>2. depths[from] >= 0 => Len(path) + depths[node] = depths[from]
    BY <1>1 DEF PathInv
  <2>3. depths[step.to] = depths[node] - 1
    BY <1>2
  <2>4. Len(path') = Len(path) + 1 /\ Len(path) \in Nat
    BY <1>3
  <2> HIDE DEF step
  <2>5. QED
    BY <1>6, <2>1, <2>2, <2>3, <2>4
<1>9. QED
  BY <1>1, <1>3, <1>4, <1>5, <1>7, <1>8 DEF PathInv

LEMMA PathStep == TypeOK /\ DepthsConsistent /\ PathInv /\ [Next]_vars => PathInv'
<1> SUFFICES ASSUME TypeOK, DepthsConsistent, PathInv, [Next]_vars PROVE PathInv'
  OBVIOUS
<1>1. CASE Search
  BY <1>1 DEF Search, Dequeue, VisitNeighbour, DepthsComputed, PathInv
<1>2. ASSUME NEW t \in Tables, StartPath(t) PROVE PathInv'
  <2>1. /\ phase' = "walking" /\ path' = <<>> /\ node' = t /\ from' = t
        /\ depths' = depths /\ depths[t] \in Int
    BY <1>2 DEF StartPath, TypeOK
  <2>2. QED
    BY <2>1 DEF PathInv
<1>3. CASE FollowParent
  BY <1>3, FollowParentPathInv
<1>4. CASE NoParent
  <2>1. /\ phase = "walking" /\ phase' = "raised" /\ graph' = graph
        /\ UNCHANGED <<depths, from, node, path>>
        /\ node # BaseTable /\ ~HasParentJoin(graph, depths, node)
    BY <1>4 DEF NoParent, graph
  <2>2. depths[node] \in Nat \cup {-1} /\ depths[from] \in Nat \cup {-1} /\ DOMAIN depths = Tables
    BY DEF TypeOK
  <2>3. ~(depths[node] > 0)
    BY <2>1, <2>2 DEF DepthsConsistent, IsDepth, HasParentJoin, TypeOK
  <2>4. depths[node] # 0
    BY <2>1, <2>2 DEF DepthsConsistent, IsDepth, TypeOK
  <2>5. depths[from] = -1
    BY <2>1, <2>2, <2>3, <2>4 DEF PathInv
  <2>6. from # BaseTable
    BY <2>1, <2>5 DEF PathInv
  <2>7. QED
    BY <2>1, <2>5, <2>6 DEF PathInv
<1>5. CASE ReturnPath
  BY <1>5 DEF ReturnPath, PathInv, graph
<1>6. CASE UNCHANGED vars
  BY <1>6 DEF vars, PathInv, graph
<1>7. QED
  BY <1>1, <1>2, <1>3, <1>4, <1>5, <1>6 DEF Next, Walk

LEMMA PathInvSuffices == TypeOK /\ DepthsConsistent /\ PathInv => RaisesOnlyWhenUnreachable /\ PathIsShortest
<1> SUFFICES ASSUME TypeOK, DepthsConsistent, PathInv
             PROVE  RaisesOnlyWhenUnreachable /\ PathIsShortest
  OBVIOUS
<1>1. RaisesOnlyWhenUnreachable
  BY DEF PathInv, RaisesOnlyWhenUnreachable
<1>2. ASSUME phase = "found"
      PROVE  /\ Len(path) = depths[from]
             /\ path # <<>> => path[Len(path)].to = BaseTable
  <2>1. node = BaseTable /\ depths[BaseTable] = 0
    BY <1>2, BaseTableAssumption DEF PathInv, DepthsConsistent, IsDepth, TypeOK
  <2>2. depths[from] \in Nat \cup {-1} /\ Len(path) \in Nat
    BY LenProperties DEF TypeOK
  <2>3. depths[from] # -1
    BY <1>2, <2>1 DEF PathInv
  <2>4. QED
    BY <1>2, <2>1, <2>2, <2>3 DEF PathInv
<1>3. PathIsShortest
  BY <1>2 DEF PathInv, PathIsShortest
<1>4. QED
  BY <1>1, <1>3

\* get_path_to_base raises only for a table without a depth, and what it returns
\* is a shortest chain of joins from the table to the base table.
THEOREM PathsCorrect == Spec => [](RaisesOnlyWhenUnreachable /\ PathIsShortest)
<1>1. Init => PathInv
  BY DEF Init, Fresh, PathInv
<1>2. TypeOK /\ DepthsConsistent /\ PathInv /\ [Next]_vars => PathInv'
  BY PathStep
<1>3. TypeOK /\ DepthsConsistent /\ PathInv => RaisesOnlyWhenUnreachable /\ PathIsShortest
  BY PathInvSuffices
<1>4. QED
  BY <1>1, <1>2, <1>3, TypeCorrect, DepthsCorrect, PTL DEF Spec

----------------------------------------------------------------------------
\* One iteration of the search.
LEMMA SearchStep ==
  ASSUME TypeOK, Dequeue \/ VisitNeighbour
  PROVE  SearchAdvances
<1>1. CASE Dequeue
  <2>1. queue # <<>> /\ queue' = Tail(queue) /\ Unreached' = Unreached
    BY <1>1 DEF Dequeue, Unreached
  <2>2. Len(Tail(queue)) = Len(queue) - 1 /\ Len(queue) \in Nat
    BY <2>1, HeadTailProperties, LenProperties DEF TypeOK
  <2>3. Len(queue') < Len(queue)
    BY <2>1, <2>2
  <2>4. QED
    BY <2>1, <2>3 DEF SearchAdvances
<1>2. CASE VisitNeighbour
  <2> DEFINE to == graph[Min(scan)].to
  <2>1. Min(scan) \in scan
    BY <1>2, GraphType, MinIsMember DEF VisitNeighbour
  <2>2. to \in Tables
    BY <2>1, GraphType DEF TypeOK
  <2>3. CASE Visited(to)
    <3>1. UNCHANGED <<depths, queue>> /\ scan' = scan \ {Min(scan)}
      BY <1>2, <2>3 DEF VisitNeighbour
    <3>2. Unreached' = Unreached
      BY <3>1 DEF Unreached
    <3>3. QED
      BY <2>1, <3>1, <3>2 DEF SearchAdvances
  <2>4. CASE ~Visited(to)
    <3>1. depths' = [depths EXCEPT ![to] = current.depth + 1]
      BY <1>2, <2>4 DEF VisitNeighbour
    <3>2. current.depth + 1 # -1
      BY DEF TypeOK, QueueEntry
    <3> HIDE DEF to
    <3>3. Unreached' = Unreached \ {to} /\ to \in Unreached
      BY <2>2, <2>4, <3>1, <3>2 DEF Unreached, Visited, TypeOK
    <3>4. QED
      BY <3>3 DEF SearchAdvances
  <2>5. QED
    BY <2>3, <2>4
<1>3. QED
  BY <1>1, <1>2

\* ... and one of either loop.
LEMMA LoopStep == TypeOK /\ Next => LoopAdvances
<1> SUFFICES ASSUME TypeOK, Next PROVE LoopAdvances
  OBVIOUS
<1>1. CASE Dequeue \/ VisitNeighbour
  <2>1. phase = "bfs"
    BY <1>1 DEF Dequeue, VisitNeighbour
  <2>2. QED
    BY <1>1, <2>1, SearchStep DEF LoopAdvances
<1>2. CASE DepthsComputed \/ NoParent \/ ReturnPath
  BY <1>2 DEF DepthsComputed, NoParent, ReturnPath, LoopAdvances
<1>3. ASSUME NEW t \in Tables, StartPath(t) PROVE LoopAdvances
  BY <1>3 DEF StartPath, LoopAdvances
<1>4. CASE FollowParent
  <2>1. /\ HasParentJoin(graph, depths, node) /\ depths' = depths /\ phase = "walking"
        /\ node' = ParentJoin(graph, depths, node).to
    BY <1>4 DEF FollowParent
  <2>2. depths[node'] = depths[node] - 1 /\ depths[node] > 0 /\ depths[node] \in Int
    BY <2>1, ParentJoinFacts DEF TypeOK, HasParentJoin
  <2>3. QED
    BY <2>1, <2>2 DEF LoopAdvances
<1>5. QED
  BY <1>1, <1>2, <1>3, <1>4 DEF Next, Search, Walk

\* Both loops come to an end for every sequence of joins, cyclic ones included: no
\* iteration leaves the measure of its loop as it is, and with finitely many
\* tables each measure goes down finitely often.
THEOREM LoopsEnd == Spec => LoopsAdvance
<1>1. TypeOK /\ [Next]_vars => [LoopAdvances]_<<depths, queue, scan, phase, node>>
  BY LoopStep DEF vars
<1>2. QED
  BY <1>1, TypeCorrect, PTL DEF Spec, LoopsAdvance
=============================================================================
