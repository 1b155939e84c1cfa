--------------------------- MODULE JoinGraphProofs ---------------------------
(****************************************************************************)
(* Facts about the operators of JoinGraph, for the proofs about the modules *)
(* that extend it.                                                          *)
(****************************************************************************)
EXTENDS JoinGraph, WellFoundedInduction, SequenceTheorems, TLAPS

----------------------------------------------------------------------------
\* Least elements, so that the code's "first match in list order" denotes a
\* member of the list.

LessThan == {pair \in Nat \X Nat : pair[1] < pair[2]}

LEMMA LessThanIsWellFounded == IsWellFoundedOn(LessThan, Nat)
  BY NatLessThanWellFounded DEF OpToRel, LessThan

\* Every non-empty set of natural numbers has a least element.
LEMMA LeastNatural ==
  ASSUME NEW S \in SUBSET Nat, S # {}
  PROVE  \E k \in S : \A m \in S : k <= m
<1>1. PICK k \in S : \A m \in S : ~(<<m, k>> \in LessThan)
  BY LessThanIsWellFounded, WFMin
<1>2. ASSUME NEW m \in S PROVE k <= m
  <2>1. m \in Nat /\ k \in Nat
    OBVIOUS
  <2>2. <<m, k>> \in Nat \X Nat /\ <<m, k>>[1] = m /\ <<m, k>>[2] = k
    BY <2>1
  <2>3. ~(m < k)
    BY <1>1, <2>2 DEF LessThan
  <2>4. QED
    BY <2>1, <2>3
<1>3. QED
  BY <1>2

LEMMA MinIsMember ==
  ASSUME NEW S \in SUBSET Nat, S # {}
  PROVE  Min(S) \in S
  BY LeastNatural DEF Min

----------------------------------------------------------------------------
\* The join graph.

\* Every directed join is a join record of the query, in one of its two
\* directions, and its reverse is in the graph too.
LEMMA DirectedJoinsFacts ==
  ASSUME NEW T, NEW C,
         NEW js \in Seq([table : T, to : T, from_col : C, to_col : C])
  PROVE  LET g == DirectedJoins(js)
         IN  /\ Len(g) \in Nat
             /\ DOMAIN g = 1..Len(g)
             /\ g \in Seq([table : T, to : T, from_col : C, to_col : C])
             /\ \A k \in 1..Len(g) : \E m \in 1..Len(g) : g[m] = Reversed(g[k])
<1> DEFINE g == DirectedJoins(js)
           Criteria == [table : T, to : T, from_col : C, to_col : C]
<1>1. \A j \in Criteria : Reversed(j) \in Criteria /\ Reversed(Reversed(j)) = j
  BY DEF Reversed
<1>2. Len(js) \in Nat /\ \A i \in 1..Len(js) : js[i] \in Criteria
  <2>1. js \in Seq(Criteria)
    OBVIOUS
  <2>2. QED
    BY <2>1, LenProperties, ElementOfSeq
<1> HIDE DEF Criteria
<1>3. ASSUME NEW k \in 1..(2 * Len(js))
      PROVE  /\ k % 2 = 1 => (k + 1) \div 2 \in 1..Len(js)
             /\ k % 2 # 1 => k \div 2 \in 1..Len(js)
  BY <1>2
<1>4. g \in Seq(Criteria) /\ Len(g) = 2 * Len(js)
  <2>1. g \in [1..(2 * Len(js)) -> Criteria]
    BY <1>1, <1>2, <1>3 DEF DirectedJoins
  <2>2. QED
    BY <2>1, <1>2
<1>5. ASSUME NEW k \in 1..(2 * Len(js))
      PROVE  \E m \in 1..(2 * Len(js)) : g[m] = Reversed(g[k])
  <2>1. CASE k % 2 = 1
    <3>1. k + 1 \in 1..(2 * Len(js)) /\ (k + 1) % 2 # 1
      BY <1>2, <2>1
    <3>2. g[k] = js[(k + 1) \div 2] /\ g[k + 1] = Reversed(js[(k + 1) \div 2])
      BY <2>1, <3>1 DEF DirectedJoins
    <3>3. QED
      BY <3>1, <3>2
  <2>2. CASE k % 2 # 1
    <3>1. k - 1 \in 1..(2 * Len(js)) /\ (k - 1) % 2 = 1 /\ k - 1 + 1 = k
      BY <1>2, <2>2
    <3>2. g[k] = Reversed(js[k \div 2]) /\ g[k - 1] = js[k \div 2]
      BY <2>2, <3>1 DEF DirectedJoins
    <3>3. js[k \div 2] \in Criteria
      BY <1>2, <1>3, <2>2
    <3>4. QED
      BY <1>1, <3>1, <3>2, <3>3
  <2>3. QED
    BY <2>1, <2>2
<1>6. QED
  BY <1>2, <1>4, <1>5 DEF Criteria

\* The edges are the joins of the query in both directions, and nothing else.
LEMMA EdgesAreJoins ==
  ASSUME NEW js, Len(js) \in Nat
  PROVE  LET g == DirectedJoins(js)
         IN  /\ \A k \in 1..Len(js) :
                   /\ \E m \in 1..Len(g) : g[m] = js[k]
                   /\ \E m \in 1..Len(g) : g[m] = Reversed(js[k])
             /\ \A m \in 1..Len(g) :
                   \E k \in 1..Len(js) : g[m] = js[k] \/ g[m] = Reversed(js[k])
<1> DEFINE g == DirectedJoins(js)
           n == 2 * Len(js)
<1>1. Len(g) = n /\ n \in Nat
  <2>1. n \in Nat /\ DOMAIN g = 1..n
    BY DEF DirectedJoins
  <2>2. g \in Seq({g[m] : m \in 1..n})
    <3>1. g = [m \in 1..n |-> g[m]]
      BY DEF DirectedJoins
    <3>2. QED
      BY <2>1, <3>1
  <2>3. QED
    BY <2>1, <2>2, LenProperties
<1>2. ASSUME NEW k \in 1..Len(js)
      PROVE  /\ \E m \in 1..n : g[m] = js[k]
             /\ \E m \in 1..n : g[m] = Reversed(js[k])
  <2>1. /\ 2 * k - 1 \in 1..n /\ (2 * k - 1) % 2 = 1 /\ ((2 * k - 1) + 1) \div 2 = k
        /\ 2 * k \in 1..n /\ (2 * k) % 2 # 1 /\ (2 * k) \div 2 = k
    OBVIOUS
  <2>2. g[2 * k - 1] = js[k] /\ g[2 * k] = Reversed(js[k])
    BY <2>1 DEF DirectedJoins
  <2>3. QED
    BY <2>1, <2>2
<1>3. ASSUME NEW m \in 1..n
      PROVE  \E k \in 1..Len(js) : g[m] = js[k] \/ g[m] = Reversed(js[k])
  <2>1. CASE m % 2 = 1
    <3>1. (m + 1) \div 2 \in 1..Len(js)
      BY <2>1
    <3>2. g[m] = js[(m + 1) \div 2]
      BY <2>1 DEF DirectedJoins
    <3>3. QED
      BY <3>1, <3>2
  <2>2. CASE m % 2 # 1
    <3>1. m \div 2 \in 1..Len(js)
      BY <2>2
    <3>2. g[m] = Reversed(js[m \div 2])
      BY <2>2 DEF DirectedJoins
    <3>3. QED
      BY <3>1, <3>2
  <2>3. QED
    BY <2>1, <2>2
<1>4. QED
  BY <1>1, <1>2, <1>3

\* The first edge that leads closer to the base table is an edge of the table
\* asked for and does lead closer.
LEMMA ParentJoinIsEdge ==
  ASSUME NEW g, NEW depth, NEW t, Len(g) \in Nat, ParentEdges(g, depth, t) # {}
  PROVE  /\ \E k \in 1..Len(g) : g[k] = ParentJoin(g, depth, t)
         /\ ParentJoin(g, depth, t).table = t
         /\ depth[ParentJoin(g, depth, t).to] = depth[t] - 1
<1>1. ParentEdges(g, depth, t) \in SUBSET Nat
  BY DEF ParentEdges, EdgesOf
<1>2. Min(ParentEdges(g, depth, t)) \in ParentEdges(g, depth, t)
  BY <1>1, MinIsMember
<1>3. QED
  BY <1>2 DEF ParentJoin, ParentEdges, EdgesOf
=============================================================================
