--------------------------- MODULE SqlParserProofs ---------------------------
(****************************************************************************)
(* Theorems about SqlParser: the equalities it extracts are imposed by the  *)
(* query, and what DependencyGraphProofs shows of the search for any        *)
(* sequence of joins holds behind the parser, for every query.              *)
(****************************************************************************)
EXTENDS SqlParser, DependencyGraphProofs, FiniteSetTheorems

\* The dictionary holds aliases of the query with their tables, and every alias
\* is in it or among those still to be entered.
AliasesInv ==
    /\ \A a \in DOMAIN aliases : \E i \in DOMAIN query.from :
          query.from[i].alias = a /\ query.from[i].table = aliases[a]
    /\ \A i \in DOMAIN query.from :
          \/ query.from[i].alias \in DOMAIN aliases
          \/ \E k \in DOMAIN tables : tables[k] = query.from[i]
    /\ \A k \in DOMAIN tables : \E i \in DOMAIN query.from : tables[k] = query.from[i]
    /\ stage # "aliases" => tables = <<>>

\* Every condition waiting to be processed is true of each row of the result, and
\* so is every equality taken from one.
WalkInv ==
    /\ \A k \in DOMAIN unread : \E i \in DOMAIN query.on : unread[k] = query.on[i]
    /\ \A w \in Worlds(query) : \A i \in DOMAIN calls : w[calls[i]]
    /\ \A k \in 1..Len(joins) : joins[k] \in Implied(query)

\* The search has not begun before the parser is done; from then on it is as if
\* it had been given the joins at the start.
GraphInv ==
    /\ stage # "done" => Fresh
    /\ stage = "done" => TypeOK /\ DepthInv /\ PathInv

ParserInv ==
    /\ query \in Queries
    /\ ParserTypeOK
    /\ joins \in Seq(JoinCriteria)
    /\ AliasesInv
    /\ WalkInv
    /\ GraphInv

LEMMA QueryFacts ==
  ASSUME NEW q \in Queries
  PROVE  /\ q.from \in Seq([alias : Names, table : Tables])
         /\ OneScope(q)
         /\ q.on \in Seq(Conditions(q) \cup {NoName})
         /\ \A c \in Conditions(q) :
               /\ c.kind = "and" => c.left \in Conditions(q) /\ c.right \in Conditions(q)
               /\ c.kind = "eq" =>
                     /\ c.left.alias \in Qualifiers(q) /\ c.left.column \in Columns
                     /\ c.right.alias \in Qualifiers(q) /\ c.right.column \in Columns
  BY QueriesAssumption

\* When all aliases are entered, resolving one gives the table it stands for.
LEMMA ResolvesToTable ==
  ASSUME ParserInv, stage # "aliases", NEW a \in Qualifiers(query), a # NoName
  PROVE  Resolve(a) \in Tables /\ Resolve(a) = TableOf(query, a)
<1>1. query \in Queries /\ OneScope(query)
  BY QueryFacts DEF ParserInv
<1>2. /\ \A i \in DOMAIN query.from : query.from[i].alias \in DOMAIN aliases
      /\ \A b \in DOMAIN aliases : \E i \in DOMAIN query.from :
            query.from[i].alias = b /\ query.from[i].table = aliases[b]
      /\ \A b \in DOMAIN aliases : aliases[b] \in Tables
  <2>1. tables = <<>> /\ DOMAIN tables = {}
    BY DEF ParserInv, AliasesInv
  <2>2. QED
    BY <2>1 DEF ParserInv, AliasesInv, ParserTypeOK
<1>3. CASE a \in DOMAIN aliases
  <2>1. PICK i \in DOMAIN query.from :
          query.from[i].alias = a /\ query.from[i].table = aliases[a]
    BY <1>2, <1>3
  <2> DEFINE j == CHOOSE k \in DOMAIN query.from : query.from[k].alias = a
  <2>2. j \in DOMAIN query.from /\ query.from[j].alias = a
    BY <2>1
  <2>3. query.from[j].table = query.from[i].table
    BY <1>1, <2>1, <2>2 DEF OneScope
  <2>4. TableOf(query, a) = query.from[j].table
    BY <2>1 DEF TableOf
  <2>5. QED
    BY <1>2, <1>3, <2>1, <2>3, <2>4 DEF Resolve
<1>4. CASE a \notin DOMAIN aliases
  <2>1. ~\E i \in DOMAIN query.from : query.from[i].alias = a
    BY <1>2, <1>4
  <2>2. a \in Tables
    BY <2>1 DEF Qualifiers
  <2>3. QED
    BY <1>4, <2>1, <2>2 DEF Resolve, TableOf
<1>5. QED
  BY <1>3, <1>4

LEMMA ParserInitInv == ParserInit => ParserInv
<1> SUFFICES ASSUME ParserInit PROVE ParserInv
  OBVIOUS
<1>1. /\ query \in Queries /\ joins = <<>> /\ tables = query.from /\ aliases = <<>>
      /\ unread = query.on /\ calls = <<>> /\ stage = "aliases" /\ Fresh
  BY DEF ParserInit
<1>2. DOMAIN aliases = {} /\ DOMAIN calls = {} /\ Len(joins) = 0
  BY <1>1
<1>3. ParserTypeOK /\ joins \in Seq(JoinCriteria)
  <2>1. /\ query.from \in Seq([alias : Names, table : Tables])
        /\ query.on \in Seq(Conditions(query) \cup {NoName})
    BY <1>1, QueryFacts
  <2>2. calls \in Seq(Conditions(query)) /\ joins \in Seq(JoinCriteria)
    BY <1>1
  <2>3. QED
    BY <1>1, <1>2, <2>1, <2>2 DEF ParserTypeOK
<1>4. AliasesInv
  BY <1>1, <1>2 DEF AliasesInv
<1>5. WalkInv
  BY <1>1, <1>2 DEF WalkInv
<1>6. QED
  BY <1>1, <1>3, <1>4, <1>5 DEF ParserInv, GraphInv

LEMMA EnterAliasInv ==
  ASSUME ParserInv, EnterAlias, UNCHANGED graphVars
  PROVE  ParserInv'
<1> DEFINE new == Head(tables)
<1> DEFINE Entry == [alias : Names, table : Tables]
<1>1. /\ stage = "aliases" /\ tables # <<>> /\ tables \in Seq(Entry) /\ tables' = Tail(tables)
      /\ aliases' = [a \in DOMAIN aliases \cup {new.alias} |->
                        IF a = new.alias THEN new.table ELSE aliases[a]]
      /\ UNCHANGED <<joins, query, unread, calls, stage>>
  BY DEF EnterAlias, ParserInv, ParserTypeOK
<1>2. new \in Entry /\ Tail(tables) \in Seq(Entry)
  BY <1>1, HeadTailProperties
<1>3. /\ \A k \in DOMAIN tables' : k + 1 \in DOMAIN tables /\ tables'[k] = tables[k + 1]
      /\ \A k \in DOMAIN tables : tables[k] = new \/ (k - 1 \in DOMAIN tables' /\ tables'[k - 1] = tables[k])
      /\ 1 \in DOMAIN tables /\ tables[1] = new
  BY <1>1
<1>4. AliasesInv'
  <2>1. ASSUME NEW a \in DOMAIN aliases'
        PROVE  \E i \in DOMAIN query.from :
                  query.from[i].alias = a /\ query.from[i].table = aliases'[a]
    <3>1. CASE a = new.alias
      BY <1>1, <1>3, <3>1 DEF ParserInv, AliasesInv
    <3>2. CASE a # new.alias
      BY <1>1, <2>1, <3>2 DEF ParserInv, AliasesInv
    <3>3. QED
      BY <3>1, <3>2
  <2>2. ASSUME NEW i \in DOMAIN query.from
        PROVE  \/ query.from[i].alias \in DOMAIN aliases'
               \/ \E k \in DOMAIN tables' : tables'[k] = query.from[i]
    <3>1. CASE query.from[i].alias \in DOMAIN aliases
      BY <1>1, <3>1
    <3>2. CASE \E k \in DOMAIN tables : tables[k] = query.from[i]
      BY <1>1, <1>3, <3>2
    <3>3. QED
      BY <3>1, <3>2 DEF ParserInv, AliasesInv
  <2>3. \A k \in DOMAIN tables' : \E i \in DOMAIN query.from : tables'[k] = query.from[i]
    BY <1>3 DEF ParserInv, AliasesInv
  <2>4. query' = query /\ stage' = "aliases"
    BY <1>1
  <2>5. QED
    BY <2>1, <2>2, <2>3, <2>4 DEF AliasesInv
<1>5. ParserTypeOK'
  BY <1>1, <1>2 DEF ParserInv, ParserTypeOK
<1>6. WalkInv'
  BY <1>1 DEF ParserInv, WalkInv
<1>7. GraphInv'
  BY <1>1 DEF ParserInv, GraphInv, Fresh, graphVars
<1>8. QED
  BY <1>1, <1>4, <1>5, <1>6, <1>7 DEF ParserInv

LEMMA AliasesEnteredInv ==
  ASSUME ParserInv, AliasesEntered, UNCHANGED graphVars
  PROVE  ParserInv'
<1>1. /\ stage = "aliases" /\ tables = <<>> /\ stage' = "joins"
      /\ UNCHANGED <<joins, query, tables, aliases, unread, calls>>
  BY DEF AliasesEntered
<1>2. ParserTypeOK' /\ AliasesInv' /\ WalkInv'
  BY <1>1 DEF ParserInv, ParserTypeOK, AliasesInv, WalkInv
<1>3. GraphInv'
  BY <1>1 DEF ParserInv, GraphInv, Fresh, graphVars
<1>4. QED
  BY <1>1, <1>2, <1>3 DEF ParserInv

\* The ON clause of a join is true of every row of the result.
LEMMA VisitJoinInv ==
  ASSUME ParserInv, VisitJoin, UNCHANGED graphVars
  PROVE  ParserInv'
<1>1. /\ stage = "joins" /\ calls = <<>> /\ unread # <<>>
      /\ unread \in Seq(Conditions(query) \cup {NoName})
      /\ unread' = Tail(unread)
      /\ calls' = IF Head(unread) = NoName THEN <<>> ELSE <<Head(unread)>>
      /\ UNCHANGED <<joins, query, tables, aliases, stage>>
  BY DEF VisitJoin, ParserInv, ParserTypeOK
<1>2. /\ Head(unread) \in Conditions(query) \cup {NoName}
      /\ unread' \in Seq(Conditions(query) \cup {NoName})
  BY <1>1, HeadTailProperties
<1>3. /\ \A k \in DOMAIN unread' : k + 1 \in DOMAIN unread /\ unread'[k] = unread[k + 1]
      /\ 1 \in DOMAIN unread /\ unread[1] = Head(unread)
  BY <1>1
<1>4. calls' \in Seq(Conditions(query))
  BY <1>1, <1>2
<1>5. ASSUME NEW w \in Worlds(query), NEW i \in DOMAIN calls' PROVE w[calls'[i]]
  <2>1. Head(unread) # NoName /\ calls'[i] = Head(unread)
    BY <1>1, <1>5
  <2>2. PICK k \in DOMAIN query.on : query.on[k] = Head(unread)
    BY <1>3 DEF ParserInv, WalkInv
  <2>3. query.on[k] # NoName => w[query.on[k]]
    BY <1>5 DEF Worlds
  <2>4. QED
    BY <2>1, <2>2, <2>3
<1>6. WalkInv'
  BY <1>1, <1>3, <1>5 DEF ParserInv, WalkInv
<1>7. ParserTypeOK' /\ AliasesInv'
  BY <1>1, <1>2, <1>4 DEF ParserInv, ParserTypeOK, AliasesInv
<1>8. GraphInv'
  BY <1>1 DEF ParserInv, GraphInv, Fresh, graphVars
<1>9. QED
  BY <1>1, <1>6, <1>7, <1>8 DEF ParserInv

\* An equality that is true of every row is a join the query imposes.
LEMMA ProcessEqualityInv ==
  ASSUME ParserInv, ProcessEquality, UNCHANGED graphVars
  PROVE  ParserInv'
<1> DEFINE c == Head(calls)
<1>1. /\ stage = "joins" /\ calls # <<>> /\ c.kind = "eq"
      /\ calls \in Seq(Conditions(query)) /\ calls' = Tail(calls)
      /\ joins' = IF Qualified(c) THEN Append(joins, JoinOf(c)) ELSE joins
      /\ UNCHANGED <<query, tables, aliases, unread, stage>>
      /\ query \in Queries /\ joins \in Seq(JoinCriteria)
  BY DEF ProcessEquality, ParserInv, ParserTypeOK
<1>2. c \in Conditions(query) /\ calls' \in Seq(Conditions(query))
  BY <1>1, HeadTailProperties
<1>3. /\ \A k \in DOMAIN calls' : k + 1 \in DOMAIN calls /\ calls'[k] = calls[k + 1]
      /\ 1 \in DOMAIN calls /\ calls[1] = c
  BY <1>1
<1>4. /\ c.left.alias \in Qualifiers(query) /\ c.left.column \in Columns
      /\ c.right.alias \in Qualifiers(query) /\ c.right.column \in Columns
  BY <1>1, <1>2, QueryFacts
<1>5. ASSUME Qualified(c) PROVE JoinOf(c) \in JoinCriteria /\ JoinOf(c) \in Implied(query)
  <2>1. /\ Resolve(c.left.alias) \in Tables
        /\ Resolve(c.left.alias) = TableOf(query, c.left.alias)
        /\ Resolve(c.right.alias) \in Tables
        /\ Resolve(c.right.alias) = TableOf(query, c.right.alias)
    BY <1>1, <1>4, <1>5, ResolvesToTable DEF Qualified
  <2>2. \A w \in Worlds(query) : w[c]
    BY <1>3 DEF ParserInv, WalkInv
  <2>3. ImpliedBy(query, c)
    BY <1>1, <1>5, <2>2 DEF ImpliedBy
  <2>4. JoinOf(c) \in JoinCriteria
    BY <1>4, <2>1 DEF JoinOf, JoinCriteria
  <2>5. JoinOf(c) \in Implied(query)
    BY <1>2, <2>1, <2>3 DEF JoinOf, Implied
  <2>6. QED
    BY <2>4, <2>5
<1>6. /\ joins' \in Seq(JoinCriteria)
      /\ \A k \in 1..Len(joins') : joins'[k] \in Implied(query)
  <2>1. CASE Qualified(c)
    <3>1. joins' = Append(joins, JoinOf(c))
      BY <1>1, <2>1
    <3>2. /\ Len(joins') = Len(joins) + 1 /\ joins'[Len(joins) + 1] = JoinOf(c)
          /\ \A k \in 1..Len(joins) : joins'[k] = joins[k]
          /\ joins' \in Seq(JoinCriteria)
      BY <1>1, <1>5, <2>1, <3>1, AppendProperties
    <3>3. \A k \in 1..Len(joins) : joins[k] \in Implied(query)
      BY DEF ParserInv, WalkInv
    <3>4. Len(joins) \in Nat
      BY <1>1, LenProperties
    <3>5. QED
      BY <1>5, <2>1, <3>2, <3>3, <3>4
  <2>2. CASE ~Qualified(c)
    BY <1>1, <2>2 DEF ParserInv, WalkInv
  <2>3. QED
    BY <2>1, <2>2
<1>7. WalkInv'
  BY <1>1, <1>3, <1>6 DEF ParserInv, WalkInv
<1>8. ParserTypeOK' /\ AliasesInv'
  BY <1>1, <1>2 DEF ParserInv, ParserTypeOK, AliasesInv
<1>9. GraphInv'
  BY <1>1 DEF ParserInv, GraphInv, Fresh, graphVars
<1>10. QED
  BY <1>1, <1>6, <1>7, <1>8, <1>9 DEF ParserInv

\* Both sides of a conjunction that is true of every row are.
LEMMA ProcessAndInv ==
  ASSUME ParserInv, ProcessAnd, UNCHANGED graphVars
  PROVE  ParserInv'
<1> DEFINE c == Head(calls)
<1>1. /\ stage = "joins" /\ calls # <<>> /\ c.kind = "and"
      /\ calls \in Seq(Conditions(query))
      /\ calls' = <<c.left, c.right>> \o Tail(calls)
      /\ UNCHANGED <<joins, query, tables, aliases, unread, stage>>
      /\ query \in Queries
  BY DEF ProcessAnd, ParserInv, ParserTypeOK
<1>2. c \in Conditions(query) /\ Tail(calls) \in Seq(Conditions(query))
  BY <1>1, HeadTailProperties
<1>3. c.left \in Conditions(query) /\ c.right \in Conditions(query)
  BY <1>1, <1>2, QueryFacts
<1>4. <<c.left, c.right>> \in Seq(Conditions(query))
  BY <1>3
<1>5. calls' \in Seq(Conditions(query))
  BY <1>1, <1>2, <1>4, ConcatProperties
<1>6. /\ \A i \in DOMAIN calls' :
            \/ calls'[i] = c.left
            \/ calls'[i] = c.right
            \/ \E k \in DOMAIN calls : calls'[i] = calls[k]
      /\ 1 \in DOMAIN calls /\ calls[1] = c
  BY <1>1, <1>2
<1>7. ASSUME NEW w \in Worlds(query), NEW i \in DOMAIN calls' PROVE w[calls'[i]]
  <2>1. w[c] /\ \A k \in DOMAIN calls : w[calls[k]]
    BY <1>6 DEF ParserInv, WalkInv
  <2>2. w[c] <=> w[c.left] /\ w[c.right]
    BY <1>1, <1>2 DEF Worlds
  <2>3. QED
    BY <1>6, <2>1, <2>2
<1>8. WalkInv'
  BY <1>1, <1>7 DEF ParserInv, WalkInv
<1>9. ParserTypeOK' /\ AliasesInv'
  BY <1>1, <1>5 DEF ParserInv, ParserTypeOK, AliasesInv
<1>10. GraphInv'
  BY <1>1 DEF ParserInv, GraphInv, Fresh, graphVars
<1>11. QED
  BY <1>1, <1>8, <1>9, <1>10 DEF ParserInv

LEMMA ProcessOtherInv ==
  ASSUME ParserInv, ProcessOther, UNCHANGED graphVars
  PROVE  ParserInv'
<1>1. /\ stage = "joins" /\ calls # <<>>
      /\ calls \in Seq(Conditions(query)) /\ calls' = Tail(calls)
      /\ UNCHANGED <<joins, query, tables, aliases, unread, stage>>
  BY DEF ProcessOther, ParserInv, ParserTypeOK
<1>2. calls' \in Seq(Conditions(query))
  BY <1>1, HeadTailProperties
<1>3. \A k \in DOMAIN calls' : k + 1 \in DOMAIN calls /\ calls'[k] = calls[k + 1]
  BY <1>1
<1>4. ParserTypeOK' /\ AliasesInv' /\ WalkInv'
  BY <1>1, <1>2, <1>3 DEF ParserInv, ParserTypeOK, AliasesInv, WalkInv
<1>5. GraphInv'
  BY <1>1 DEF ParserInv, GraphInv, Fresh, graphVars
<1>6. QED
  BY <1>1, <1>4, <1>5 DEF ParserInv

\* The parser is done: the search starts from the joins found.
LEMMA ParserDoneInv ==
  ASSUME ParserInv, ExtractBaseIdColumn, UNCHANGED graphVars
  PROVE  ParserInv'
<1>1. /\ stage = "joins" /\ stage' = "done"
      /\ UNCHANGED <<joins, query, tables, aliases, unread, calls>>
  BY DEF ExtractBaseIdColumn
<1>2. joins \in Seq(JoinCriteria) /\ Fresh
  BY <1>1 DEF ParserInv, GraphInv
<1>3. TypeOK /\ DepthInv /\ PathInv
  BY <1>2, FreshTypeOK, FreshDepthInv DEF Fresh, PathInv
<1>4. UNCHANGED vars
  BY <1>1 DEF graphVars, vars
<1>5. TypeOK' /\ DepthInv' /\ PathInv'
  BY <1>3, <1>4, TypeStep, DepthStep, PathStep DEF DepthInv
<1>6. GraphInv'
  BY <1>1, <1>5 DEF GraphInv
<1>7. ParserTypeOK' /\ AliasesInv' /\ WalkInv'
  BY <1>1 DEF ParserInv, ParserTypeOK, AliasesInv, WalkInv
<1>8. QED
  BY <1>1, <1>6, <1>7 DEF ParserInv

LEMMA UseGraphInv ==
  ASSUME ParserInv, UseGraph(Next)
  PROVE  ParserInv'
<1>1. stage = "done" /\ Next /\ UNCHANGED parserVars
  BY DEF UseGraph
<1>2. joins' = joins
  BY <1>1 DEF Next, Search, Walk, Dequeue, VisitNeighbour, DepthsComputed, StartPath,
              FollowParent, NoParent, ReturnPath
<1>3. TypeOK' /\ DepthInv' /\ PathInv'
  BY <1>1, TypeStep, DepthStep, PathStep DEF ParserInv, GraphInv, DepthInv
<1>4. GraphInv' /\ ParserTypeOK' /\ AliasesInv' /\ WalkInv'
  BY <1>1, <1>2, <1>3 DEF parserVars, ParserInv, GraphInv, ParserTypeOK, AliasesInv, WalkInv
<1>5. QED
  BY <1>1, <1>2, <1>4 DEF ParserInv, parserVars

THEOREM ParserInvariant == ParserSpec => []ParserInv
<1>1. ParserInit => ParserInv
  BY ParserInitInv
<1>2. ParserInv /\ [ParserNext]_allVars => ParserInv'
  <2> SUFFICES ASSUME ParserInv, [ParserNext]_allVars PROVE ParserInv'
    OBVIOUS
  <2>1. CASE Parse
    BY <2>1, EnterAliasInv, AliasesEnteredInv, VisitJoinInv, ProcessEqualityInv,
       ProcessAndInv, ProcessOtherInv, ParserDoneInv DEF Parse
  <2>2. CASE UseGraph(Next)
    BY <2>2, UseGraphInv
  <2>3. CASE UNCHANGED allVars
    <3>1. UNCHANGED vars /\ UNCHANGED parserVars /\ joins' = joins
      BY <2>3 DEF allVars, vars
    <3>2. stage = "done" => TypeOK' /\ DepthInv' /\ PathInv'
      BY <3>1, TypeStep, DepthStep, PathStep DEF ParserInv, GraphInv, DepthInv
    <3>3. stage # "done" => Fresh'
      BY <3>1 DEF ParserInv, GraphInv, Fresh, vars
    <3>4. GraphInv' /\ ParserTypeOK' /\ AliasesInv' /\ WalkInv'
      BY <3>1, <3>2, <3>3 DEF parserVars, ParserInv, GraphInv, ParserTypeOK, AliasesInv, WalkInv
    <3>5. QED
      BY <3>1, <3>4 DEF ParserInv, parserVars
  <2>4. QED
    BY <2>1, <2>2, <2>3 DEF ParserNext
<1>3. QED
  BY <1>1, <1>2, PTL DEF ParserSpec

\* Whatever the query, each join handed to the graph is an equality that every
\* row of the query's result satisfies.
THEOREM ExtractedJoinsImplied == ParserSpec => []JoinsImplied
<1>1. ParserInv => JoinsImplied
  BY DEF ParserInv, WalkInv, JoinsImplied
<1>2. QED
  BY <1>1, ParserInvariant, PTL

\* Behind the parser, for every query: the loop invariant of the search, depths
\* that are consistent and equal to distances, shortest paths, and a path is
\* refused only to a table without a depth.
THEOREM QueryGraphCorrect ==
    ParserSpec => [](/\ TypeOK /\ ParserTypeOK
                     /\ SearchInv /\ DepthsConsistent /\ DepthsAreDistances
                     /\ RaisesOnlyWhenUnreachable /\ PathIsShortest)
<1>1. ASSUME ParserInv
      PROVE  /\ TypeOK /\ ParserTypeOK
             /\ SearchInv /\ DepthsConsistent /\ DepthsAreDistances
             /\ RaisesOnlyWhenUnreachable /\ PathIsShortest
  <2>1. TypeOK /\ DepthInv /\ PathInv
    <3>1. CASE stage = "done"
      BY <1>1, <3>1 DEF ParserInv, GraphInv
    <3>2. CASE stage # "done"
      <4>1. joins \in Seq(JoinCriteria) /\ Fresh
        BY <1>1, <3>2 DEF ParserInv, GraphInv
      <4>2. QED
        BY <4>1, FreshTypeOK, FreshDepthInv DEF Fresh, PathInv
    <3>3. QED
      BY <3>1, <3>2
  <2>2. SearchInv /\ DepthsConsistent
    BY <2>1 DEF DepthInv
  <2>3. DepthsAreDistances
    BY <2>1, <2>2, ConsistentAreDistances
  <2>4. RaisesOnlyWhenUnreachable /\ PathIsShortest
    BY <2>1, <2>2, PathInvSuffices
  <2>5. QED
    BY <1>1, <2>1, <2>2, <2>3, <2>4 DEF ParserInv
<1>2. QED
  BY <1>1, ParserInvariant, PTL

\* ... and both loops end behind the parser too: it hands the search its joins once,
\* before the first iteration.
THEOREM QueryLoopsEnd == ParserSpec => LoopsAdvance
<1>1. ParserInv /\ [ParserNext]_allVars => [LoopAdvances]_<<depths, queue, scan, phase, node>>
  <2> SUFFICES ASSUME ParserInv, [ParserNext]_allVars
               PROVE  [LoopAdvances]_<<depths, queue, scan, phase, node>>
    OBVIOUS
  <2>1. CASE Parse
    BY <2>1 DEF Parse, graphVars
  <2>2. CASE UseGraph(Next)
    BY <2>2, LoopStep DEF UseGraph, ParserInv, GraphInv
  <2>3. CASE UNCHANGED allVars
    BY <2>3 DEF allVars, vars
  <2>4. QED
    BY <2>1, <2>2, <2>3 DEF ParserNext
<1>2. QED
  BY <1>1, ParserInvariant, PTL DEF ParserSpec, LoopsAdvance

\* The types of the parser's variables, for every query.
THEOREM ParserTypeCorrect == ParserSpec => []ParserTypeOK
<1>1. ParserInv => ParserTypeOK
  BY DEF ParserInv
<1>2. QED
  BY <1>1, ParserInvariant, PTL

\* Behind the parser, a path is refused only to a table that no join connects to
\* the base table, and what is returned is a shortest chain of joins.
THEOREM QueryPathsCorrect == ParserSpec => []RaisesOnlyWhenUnreachable
<1>1. QED
  BY QueryGraphCorrect, PTL

----------------------------------------------------------------------------
\* Nothing is left out of a query whose ON clauses are conjunctions of qualified
\* equalities.  What the walk still has to show is said of every set of conditions
\* that holds what has been extracted, what waits, and each conjunction with both
\* its sides: it holds the ON clauses.  No induction over the conditions is needed.

\* The join that an equality stands for.
Meant(q, c) ==
    [table |-> TableOf(q, c.left.alias), to |-> TableOf(q, c.right.alias),
     from_col |-> c.left.column, to_col |-> c.right.column]

Extracted ==
    {c \in Conditions(query) :
        c.kind = "eq" /\ Qualified(c) /\ \E k \in 1..Len(joins) : joins[k] = Meant(query, c)}

ClosedUnderAnd(q, S) ==
    \A c \in Conditions(q) : c.kind = "and" /\ c.left \in S /\ c.right \in S => c \in S

ReadInv ==
    /\ stage = "done" => calls = <<>> /\ unread = <<>>
    /\ Conjunctive(query) =>
          \A S \in SUBSET Conditions(query) :
              /\ Extracted \subseteq S
              /\ ClosedUnderAnd(query, S)
              /\ \A i \in DOMAIN calls : calls[i] \in S
              /\ \A i \in DOMAIN unread : unread[i] \in S
              => \A i \in DOMAIN query.on : query.on[i] \in S

LEMMA InitReadInv == ParserInit => ReadInv
  BY DEF ParserInit, ReadInv

LEMMA ReadKept ==
  ASSUME ReadInv, UNCHANGED <<query, joins, calls, unread>>,
         stage' = "done" => stage = "done" \/ (calls = <<>> /\ unread = <<>>)
  PROVE  ReadInv'
<1>1. Extracted' = Extracted
  BY DEF Extracted
<1>2. QED
  BY <1>1 DEF ReadInv

LEMMA VisitJoinReads ==
  ASSUME ParserInv, ReadInv, VisitJoin
  PROVE  ReadInv'
<1>1. /\ stage = "joins" /\ stage' = stage /\ calls = <<>> /\ unread # <<>>
      /\ calls' = IF Head(unread) = NoName THEN <<>> ELSE <<Head(unread)>>
      /\ unread' = Tail(unread) /\ query' = query /\ joins' = joins
  BY DEF VisitJoin
<1>2. unread \in Seq(Conditions(query) \cup {NoName})
  BY DEF ParserInv, ParserTypeOK
<1>3. SUFFICES ASSUME Conjunctive(query), NEW S \in SUBSET Conditions(query),
                      Extracted \subseteq S, ClosedUnderAnd(query, S),
                      \A i \in DOMAIN calls' : calls'[i] \in S,
                      \A i \in DOMAIN unread' : unread'[i] \in S
               PROVE  \A i \in DOMAIN query.on : query.on[i] \in S
  <2>1. Extracted' = Extracted
    BY <1>1 DEF Extracted
  <2>2. QED
    BY <1>1, <2>1 DEF ReadInv
<1>4. 1 \in DOMAIN unread /\ unread[1] = Head(unread)
  BY <1>1, <1>2
<1>5. Head(unread) # NoName
  <2>1. PICK i \in DOMAIN query.on : unread[1] = query.on[i]
    BY <1>4 DEF ParserInv, WalkInv
  <2>2. QED
    BY <1>3, <1>4, <2>1 DEF Conjunctive
<1>6. Head(unread) \in S
  <2>1. calls' = <<Head(unread)>>
    BY <1>1, <1>5
  <2>2. 1 \in DOMAIN calls' /\ calls'[1] = Head(unread)
    BY <2>1
  <2>3. QED
    BY <1>3, <2>2
<1>7. ASSUME NEW i \in DOMAIN unread PROVE unread[i] \in S
  <2>1. CASE i = 1
    BY <1>4, <1>6, <2>1
  <2>2. CASE i # 1
    <3>1. i - 1 \in DOMAIN unread' /\ unread'[i - 1] = unread[i]
      BY <1>1, <1>2, <2>2
    <3>2. QED
      BY <1>3, <3>1
  <2>3. QED
    BY <2>1, <2>2
<1>8. \A i \in DOMAIN calls : calls[i] \in S
  BY <1>1
<1>9. QED
  BY <1>3, <1>7, <1>8 DEF ReadInv

LEMMA ProcessEqualityReads ==
  ASSUME ParserInv, ReadInv, ProcessEquality
  PROVE  ReadInv'
<1> DEFINE c == Head(calls)
<1>1. /\ stage = "joins" /\ stage' = stage /\ calls # <<>> /\ c.kind = "eq"
      /\ calls' = Tail(calls) /\ unread' = unread /\ query' = query
      /\ joins' = IF Qualified(c) THEN Append(joins, JoinOf(c)) ELSE joins
  BY DEF ProcessEquality
<1>2. /\ calls \in Seq(Conditions(query)) /\ joins \in Seq(JoinCriteria) /\ query \in Queries
      /\ c \in Conditions(query)
  <2>1. calls \in Seq(Conditions(query)) /\ joins \in Seq(JoinCriteria) /\ query \in Queries
    BY DEF ParserInv, ParserTypeOK
  <2>2. QED
    BY <1>1, <2>1, HeadTailProperties
<1>3. SUFFICES ASSUME Conjunctive(query), NEW S \in SUBSET Conditions(query),
                      Extracted' \subseteq S, ClosedUnderAnd(query, S),
                      \A i \in DOMAIN calls' : calls'[i] \in S,
                      \A i \in DOMAIN unread : unread[i] \in S
               PROVE  \A i \in DOMAIN query.on : query.on[i] \in S
  BY <1>1 DEF ReadInv
<1>4. Qualified(c)
  BY <1>1, <1>2, <1>3 DEF Conjunctive
<1>5. JoinOf(c) = Meant(query, c) /\ JoinOf(c) \in JoinCriteria
  <2>1. /\ c.left.alias \in Qualifiers(query) /\ c.right.alias \in Qualifiers(query)
        /\ c.left.column \in Columns /\ c.right.column \in Columns
    BY <1>1, <1>2, QueryFacts
  <2>2. /\ Resolve(c.left.alias) \in Tables /\ Resolve(c.right.alias) \in Tables
        /\ Resolve(c.left.alias) = TableOf(query, c.left.alias)
        /\ Resolve(c.right.alias) = TableOf(query, c.right.alias)
    BY <1>1, <1>4, <2>1, ResolvesToTable DEF Qualified
  <2>3. QED
    BY <2>1, <2>2 DEF JoinOf, Meant, JoinCriteria
<1>6. /\ Len(joins') = Len(joins) + 1 /\ joins'[Len(joins) + 1] = Meant(query, c)
      /\ \A k \in 1..Len(joins) : joins'[k] = joins[k]
      /\ Len(joins) \in Nat
  BY <1>1, <1>2, <1>4, <1>5, AppendProperties, LenProperties
<1>7. c \in S /\ Extracted \subseteq S
  <2>1. \A k \in 1..Len(joins) : k \in 1..Len(joins')
    BY <1>6
  <2>2. Len(joins) + 1 \in 1..Len(joins')
    BY <1>6
  <2>3. c \in Extracted'
    BY <1>1, <1>2, <1>4, <1>6, <2>2 DEF Extracted
  <2>4. Extracted \subseteq Extracted'
    BY <1>1, <1>6, <2>1 DEF Extracted
  <2>5. QED
    BY <1>3, <2>3, <2>4
<1>8. ASSUME NEW i \in DOMAIN calls PROVE calls[i] \in S
  <2>1. CASE i = 1
    BY <1>2, <1>7, <2>1
  <2>2. CASE i # 1
    <3>1. i - 1 \in DOMAIN calls' /\ calls'[i - 1] = calls[i]
      BY <1>1, <1>2, <2>2
    <3>2. QED
      BY <1>3, <3>1
  <2>3. QED
    BY <2>1, <2>2
<1>9. QED
  BY <1>3, <1>7, <1>8 DEF ReadInv

LEMMA ProcessAndReads ==
  ASSUME ParserInv, ReadInv, ProcessAnd
  PROVE  ReadInv'
<1> DEFINE c == Head(calls)
<1>1. /\ stage = "joins" /\ stage' = stage /\ calls # <<>> /\ c.kind = "and"
      /\ calls' = <<c.left, c.right>> \o Tail(calls)
      /\ unread' = unread /\ query' = query /\ joins' = joins
  BY DEF ProcessAnd
<1>2. calls \in Seq(Conditions(query)) /\ c \in Conditions(query)
  <2>1. calls \in Seq(Conditions(query))
    BY DEF ParserInv, ParserTypeOK
  <2>2. QED
    BY <1>1, <2>1, HeadTailProperties
<1>3. SUFFICES ASSUME Conjunctive(query), NEW S \in SUBSET Conditions(query),
                      Extracted \subseteq S, ClosedUnderAnd(query, S),
                      \A i \in DOMAIN calls' : calls'[i] \in S,
                      \A i \in DOMAIN unread : unread[i] \in S
               PROVE  \A i \in DOMAIN query.on : query.on[i] \in S
  <2>1. Extracted' = Extracted
    BY <1>1 DEF Extracted
  <2>2. QED
    BY <1>1, <2>1 DEF ReadInv
<1>4. /\ 1 \in DOMAIN calls' /\ calls'[1] = c.left
      /\ 2 \in DOMAIN calls' /\ calls'[2] = c.right
      /\ \A i \in DOMAIN calls : i # 1 => i + 1 \in DOMAIN calls' /\ calls'[i + 1] = calls[i]
  BY <1>1, <1>2
<1>5. c \in S
  BY <1>1, <1>2, <1>3, <1>4 DEF ClosedUnderAnd
<1>6. ASSUME NEW i \in DOMAIN calls PROVE calls[i] \in S
  <2>1. CASE i = 1
    BY <1>2, <1>5, <2>1
  <2>2. CASE i # 1
    BY <1>3, <1>4, <2>2
  <2>3. QED
    BY <2>1, <2>2
<1>7. QED
  BY <1>3, <1>6 DEF ReadInv

LEMMA ProcessOtherReads ==
  ASSUME ParserInv, ReadInv, ProcessOther
  PROVE  ReadInv'
<1>1. /\ stage = "joins" /\ stage' = stage /\ calls # <<>> /\ query' = query
      /\ Head(calls).kind \notin {"eq", "and"}
  BY DEF ProcessOther
<1>2. Head(calls) \in Conditions(query)
  <2>1. calls \in Seq(Conditions(query))
    BY DEF ParserInv, ParserTypeOK
  <2>2. QED
    BY <1>1, <2>1, HeadTailProperties
<1>3. ~Conjunctive(query)
  BY <1>1, <1>2 DEF Conjunctive
<1>4. QED
  BY <1>1, <1>3 DEF ReadInv

LEMMA ReadStep ==
  ASSUME ParserInv, ReadInv, [ParserNext]_allVars
  PROVE  ReadInv'
<1>1. CASE Parse
  <2>1. CASE EnterAlias \/ AliasesEntered \/ ExtractBaseIdColumn
    BY <2>1, ReadKept DEF EnterAlias, AliasesEntered, ExtractBaseIdColumn
  <2>2. QED
    BY <1>1, <2>1, VisitJoinReads, ProcessEqualityReads, ProcessAndReads, ProcessOtherReads DEF Parse
<1>2. CASE UseGraph(Next)
  <2>1. joins' = joins
    BY <1>2 DEF UseGraph, Next, Search, Walk, Dequeue, VisitNeighbour, DepthsComputed, StartPath,
                FollowParent, NoParent, ReturnPath
  <2>2. QED
    BY <1>2, <2>1, ReadKept DEF UseGraph, parserVars
<1>3. CASE UNCHANGED allVars
  BY <1>3, ReadKept DEF allVars, vars, parserVars
<1>4. QED
  BY <1>1, <1>2, <1>3 DEF ParserNext

\* When the parser is done it has extracted every join that the query imposes.
LEMMA ImpliedAreExtracted ==
  ASSUME ParserInv, ReadInv, stage = "done", Conjunctive(query), NEW j \in Implied(query)
  PROVE  \E k \in 1..Len(joins) : joins[k] = j
<1>1. PICK c \in Conditions(query) : ImpliedBy(query, c) /\ j = Meant(query, c)
  BY DEF Implied, Meant
<1>2. c.kind = "eq" /\ Qualified(c) /\ \A w \in Worlds(query) : w[c]
  BY <1>1 DEF ImpliedBy
<1> DEFINE Covers(S) == Extracted \subseteq S /\ ClosedUnderAnd(query, S)
           Least == {b \in Conditions(query) :
                        \A S \in SUBSET Conditions(query) : Covers(S) => b \in S}
           world == [b \in Conditions(query) |-> b \in Least]
<1>3. Least \in SUBSET Conditions(query) /\ Covers(Least)
  BY DEF ClosedUnderAnd, Extracted
\* What is taken out of the least set leaves a set that no longer covers.
<1>4. ASSUME NEW b \in Least PROVE ~Covers(Least \ {b})
  <2>1. Least \ {b} \in SUBSET Conditions(query) /\ b \notin Least \ {b}
    BY <1>3
  <2>2. QED
    BY <1>4, <2>1
<1>5. ASSUME NEW b \in Conditions(query), b.kind = "and"
      PROVE  b \in Least <=> b.left \in Least /\ b.right \in Least
  <2>1. ASSUME b.left \in Least, b.right \in Least PROVE b \in Least
    BY <1>3, <1>5, <2>1 DEF ClosedUnderAnd
  <2>2. ASSUME b \in Least, ~(b.left \in Least /\ b.right \in Least) PROVE FALSE
    <3>1. b \notin Extracted
      BY <1>5 DEF Extracted
    <3>2. Covers(Least \ {b})
      BY <1>3, <2>2, <3>1 DEF ClosedUnderAnd
    <3>3. QED
      BY <1>4, <2>2, <3>2
  <2>3. QED
    BY <2>1, <2>2
<1>6. \A i \in DOMAIN query.on : query.on[i] \in Least
  <2>1. calls = <<>> /\ unread = <<>> /\ DOMAIN calls = {} /\ DOMAIN unread = {}
    BY DEF ReadInv
  <2>2. QED
    BY <1>3, <2>1 DEF ReadInv
<1> HIDE DEF Least
<1>7. world \in Worlds(query)
  <2>1. world \in [Conditions(query) -> BOOLEAN]
    OBVIOUS
  <2>2. ASSUME NEW b \in Conditions(query)
        PROVE  /\ b.kind = "and" => (world[b] <=> world[b.left] /\ world[b.right])
               /\ b.kind \notin {"or", "not", "paren"}
    <3>1. b.kind = "and" \/ b.kind = "eq"
      BY DEF Conjunctive
    <3>2. query \in Queries
      BY DEF ParserInv
    <3>3. b.kind = "and" => b.left \in Conditions(query) /\ b.right \in Conditions(query)
      BY <3>2, QueryFacts
    <3>4. QED
      BY <1>5, <3>1, <3>3
  <2>3. \A i \in DOMAIN query.on : world[query.on[i]]
    BY <1>3, <1>6
  <2> HIDE DEF world
  <2>4. QED
    BY <2>1, <2>2, <2>3 DEF Worlds
<1>8. c \in Least
  BY <1>2, <1>7
<1>9. c \in Extracted
  <2> SUFFICES ASSUME c \notin Extracted PROVE FALSE
    OBVIOUS
  <2>1. Covers(Least \ {c})
    BY <1>2, <1>3 DEF ClosedUnderAnd
  <2>2. QED
    BY <1>4, <1>8, <2>1
<1>10. QED
  BY <1>1, <1>9 DEF Extracted

\* A way along equalities the query imposes is a way in the join graph, when each
\* of them is among the joins; and the other way round.
LEMMA WaysAreWalks ==
  ASSUME TypeOK, NEW js, NEW t \in Tables, NEW n \in Nat
  PROVE  /\ (\A j \in js : \E k \in 1..Len(joins) : joins[k] = j) /\ ConnectedBy(js, t, n)
               => Connected(graph, BaseTable, Tables, t, n)
         /\ (\A k \in 1..Len(joins) : joins[k] \in js) /\ Connected(graph, BaseTable, Tables, t, n)
               => ConnectedBy(js, t, n)
<1>1. Len(joins) \in Nat /\ \A k \in 1..Len(joins) : joins[k] \in JoinCriteria
  BY ElementOfSeq, LenProperties DEF TypeOK
<1>2. /\ \A k \in 1..Len(joins) :
            /\ \E m \in 1..Len(graph) : graph[m] = joins[k]
            /\ \E m \in 1..Len(graph) : graph[m] = Reversed(joins[k])
      /\ \A m \in 1..Len(graph) :
            \E k \in 1..Len(joins) : graph[m] = joins[k] \/ graph[m] = Reversed(joins[k])
  BY <1>1, EdgesAreJoins DEF graph
<1>3. ASSUME \A j \in js : \E k \in 1..Len(joins) : joins[k] = j, ConnectedBy(js, t, n)
      PROVE  Connected(graph, BaseTable, Tables, t, n)
  <2>1. PICK w \in [0..n -> Tables] :
           /\ w[0] = t /\ w[n] = BaseTable
           /\ \A i \in 0..(n - 1) : \E j \in js : {w[i], w[i + 1]} = {j.table, j.to}
    BY <1>3 DEF ConnectedBy
  <2>2. ASSUME NEW i \in 0..(n - 1)
        PROVE  \E m \in 1..Len(graph) : graph[m].table = w[i] /\ graph[m].to = w[i + 1]
    <3>1. PICK j \in js : {w[i], w[i + 1]} = {j.table, j.to}
      BY <2>1
    <3>2. PICK k \in 1..Len(joins) : joins[k] = j
      BY <1>3
    <3>3. \/ j.table = w[i] /\ j.to = w[i + 1]
          \/ j.table = w[i + 1] /\ j.to = w[i]
      BY <3>1
    <3>4. CASE j.table = w[i] /\ j.to = w[i + 1]
      <4>1. PICK m \in 1..Len(graph) : graph[m] = joins[k]
        BY <1>2
      <4>2. QED
        BY <3>2, <3>4, <4>1
    <3>5. CASE j.table = w[i + 1] /\ j.to = w[i]
      <4>1. Reversed(j).table = w[i] /\ Reversed(j).to = w[i + 1]
        BY <3>5 DEF Reversed
      <4>2. PICK m \in 1..Len(graph) : graph[m] = Reversed(joins[k])
        BY <1>2
      <4>3. QED
        BY <3>2, <4>1, <4>2
    <3>6. QED
      BY <3>3, <3>4, <3>5
  <2>3. QED
    BY <2>1, <2>2 DEF Connected
<1>4. ASSUME \A k \in 1..Len(joins) : joins[k] \in js, Connected(graph, BaseTable, Tables, t, n)
      PROVE  ConnectedBy(js, t, n)
  <2>1. PICK w \in [0..n -> Tables] :
           /\ w[0] = t /\ w[n] = BaseTable
           /\ \A i \in 0..(n - 1) :
                 \E m \in 1..Len(graph) : graph[m].table = w[i] /\ graph[m].to = w[i + 1]
    BY <1>4 DEF Connected
  <2>2. ASSUME NEW i \in 0..(n - 1)
        PROVE  \E j \in js : {w[i], w[i + 1]} = {j.table, j.to}
    <3>1. PICK m \in 1..Len(graph) : graph[m].table = w[i] /\ graph[m].to = w[i + 1]
      BY <2>1
    <3>2. PICK k \in 1..Len(joins) : graph[m] = joins[k] \/ graph[m] = Reversed(joins[k])
      BY <1>2
    <3>3. {w[i], w[i + 1]} = {joins[k].table, joins[k].to}
      BY <3>1, <3>2 DEF Reversed
    <3>4. QED
      BY <1>4, <3>3
  <2>3. QED
    BY <2>1, <2>2 DEF ConnectedBy
<1>5. QED
  BY <1>3, <1>4

\* Parser and search together: every depth is the length of a way the query
\* imposes, and in a conjunctive query no table is left out or too far away.
THEOREM DepthsMeanDistances == ParserSpec => []DepthsOfQuery
<1>1. ASSUME ParserInv, ReadInv PROVE DepthsOfQuery
  <2> SUFFICES ASSUME stage = "done", phase = "ready", NEW t \in Tables
               PROVE  /\ depths[t] >= 0 => ConnectedBy(Implied(query), t, depths[t])
                      /\ Conjunctive(query) =>
                            \A n \in 0..(Cardinality(Tables) - 1) :
                                ConnectedBy(Implied(query), t, n) => depths[t] \in 0..n
    BY DEF DepthsOfQuery
  <2>1. TypeOK /\ IsDepth(graph, BaseTable, depths)
    BY <1>1 DEF ParserInv, GraphInv, DepthInv, DepthsConsistent
  <2>2. \A k \in 1..Len(joins) : joins[k] \in Implied(query)
    BY <1>1 DEF ParserInv, WalkInv
  <2>3. ASSUME depths[t] >= 0 PROVE ConnectedBy(Implied(query), t, depths[t])
    <3>1. depths[t] \in Nat
      BY <2>1, <2>3 DEF TypeOK
    <3>2. Connected(graph, BaseTable, Tables, t, depths[t])
      BY <2>1, <2>3, DepthHasWalk
    <3>3. QED
      BY <2>1, <2>2, <3>1, <3>2, WaysAreWalks
  <2>4. ASSUME Conjunctive(query), NEW n \in 0..(Cardinality(Tables) - 1),
               ConnectedBy(Implied(query), t, n)
        PROVE  depths[t] \in 0..n
    <3>1. n \in Nat
      OBVIOUS
    <3>2. \A j \in Implied(query) : \E k \in 1..Len(joins) : joins[k] = j
      BY <1>1, <2>4, ImpliedAreExtracted
    <3>3. Connected(graph, BaseTable, Tables, t, n)
      BY <2>1, <2>4, <3>1, <3>2, WaysAreWalks
    <3>4. QED
      BY <2>1, <3>1, <3>3, DepthBoundsWalk
  <2>5. QED
    BY <2>3, <2>4
<1>2. ParserSpec => []ReadInv
  <2>1. ParserInit => ReadInv
    BY InitReadInv
  <2>2. ParserInv /\ ReadInv /\ [ParserNext]_allVars => ReadInv'
    BY ReadStep
  <2>3. QED
    BY <2>1, <2>2, ParserInvariant, PTL DEF ParserSpec
<1>3. QED
  BY <1>1, <1>2, ParserInvariant, PTL

----------------------------------------------------------------------------
\* The base table's id column.
IdColumnInv ==
    /\ query \in Queries
    /\ stage = "done" => idColumn = BaseIdColumn(query)

LEMMA IdColumnSuffices == IdColumnInv => IdColumnNamesKey
<1> SUFFICES ASSUME IdColumnInv, stage = "done" PROVE IdColumnNamesKey
  BY DEF IdColumnNamesKey
<1> DEFINE uses == {i \in DOMAIN query.from : query.from[i].table = BaseTable}
           keys == {p \in {query.select[i] : i \in DOMAIN query.select} :
                       TableOf(query, p.alias) = BaseTable /\ IsKey(p.column)}
<1>1. /\ query \in Queries /\ idColumn = BaseIdColumn(query)
      /\ query.from \in Seq([alias : Names, table : Tables]) /\ OneScope(query)
  BY QueryFacts DEF IdColumnInv
<1>2. /\ NoName \notin Columns
      /\ Len(query.select) \in Nat /\ DOMAIN query.select = 1..Len(query.select)
      /\ \A i \in DOMAIN query.select :
            /\ query.select[i].column \in Columns
            /\ query.select[i].alias = BaseTable =>
                  \E k \in DOMAIN query.from : query.from[k].alias = BaseTable
  BY <1>1, SelectAssumption
<1>3. BaseKeys(query) \in SUBSET Nat /\ uses \in SUBSET Nat
  BY <1>1, <1>2, LenProperties DEF BaseKeys
<1>4. ASSUME BaseKeys(query) # {}
      PROVE  /\ idColumn # NoName
             /\ \E p \in keys : idColumn = OutputName(p)
  <2> DEFINE m == Min(BaseKeys(query))
             u == Min(uses)
             p == query.select[m]
  <2>1. m \in BaseKeys(query)
    BY <1>3, <1>4, MinIsMember
  <2>2. /\ m \in DOMAIN query.select /\ uses # {} /\ IsKey(p.column)
        /\ p.alias = query.from[u].alias
    BY <2>1 DEF BaseKeys
  <2>3. u \in DOMAIN query.from /\ query.from[u].table = BaseTable
    BY <1>3, <2>2, MinIsMember
  <2> DEFINE j == CHOOSE i \in DOMAIN query.from : query.from[i].alias = p.alias
  <2>4. j \in DOMAIN query.from /\ query.from[j].alias = p.alias
    BY <2>2, <2>3
  <2>5. TableOf(query, p.alias) = BaseTable
    <3>1. query.from[j].table = query.from[u].table
      BY <1>1, <2>2, <2>3, <2>4 DEF OneScope
    <3>2. TableOf(query, p.alias) = query.from[j].table
      BY <2>2, <2>3 DEF TableOf
    <3>3. QED
      BY <2>3, <3>1, <3>2
  <2>6. idColumn = OutputName(p)
    BY <1>1, <1>4 DEF BaseIdColumn
  <2>7. OutputName(p) # NoName
    BY <1>2, <2>2 DEF OutputName
  <2>8. p \in keys
    BY <2>2, <2>5
  <2>9. QED
    BY <2>6, <2>7, <2>8
<1>5. ASSUME BaseKeys(query) = {}
      PROVE  idColumn = NoName /\ (keys = {} \/ Cardinality(uses) # 1)
  <2>1. idColumn = NoName
    BY <1>1, <1>5 DEF BaseIdColumn
  <2>2. ASSUME Cardinality(uses) = 1, keys # {} PROVE FALSE
    <3>1. PICK u : uses = {u}
      <4>1. DOMAIN query.from = 1..Len(query.from) /\ Len(query.from) \in Nat
        BY <1>1, LenProperties
      <4>2. IsFiniteSet(1..Len(query.from))
        BY <4>1, FS_Interval
      <4>3. IsFiniteSet(uses)
        BY <4>1, <4>2, FS_Subset
      <4>4. QED
        BY <2>2, <4>3, FS_Singleton
    <3>2. PICK i \in DOMAIN query.select :
             /\ TableOf(query, query.select[i].alias) = BaseTable
             /\ IsKey(query.select[i].column)
      BY <2>2
    <3> DEFINE a == query.select[i].alias
               j == CHOOSE k \in DOMAIN query.from : query.from[k].alias = a
    <3>3. \E k \in DOMAIN query.from : query.from[k].alias = a
      BY <1>2, <3>2 DEF TableOf
    <3>4. j \in DOMAIN query.from /\ query.from[j].alias = a
      BY <3>3
    <3>5. query.from[j].table = BaseTable
      BY <3>2, <3>3 DEF TableOf
    <3>6. j \in uses /\ j = u
      BY <3>1, <3>4, <3>5
    <3>7. Min(uses) = u
      BY <1>3, <3>1, MinIsMember
    <3>8. i \in BaseKeys(query)
      BY <3>1, <3>2, <3>4, <3>6, <3>7 DEF BaseKeys
    <3>9. QED
      BY <1>5, <3>8
  <2>3. QED
    BY <2>1, <2>2
<1>6. QED
  BY <1>4, <1>5 DEF IdColumnNamesKey

\* The id column is a name the query gives to a key of the base table, and is
\* missing only when there is none or the base table does not occur exactly once.
THEOREM IdColumnCorrect == ParserSpec => []IdColumnNamesKey
<1>1. ParserInit => IdColumnInv
  BY DEF ParserInit, IdColumnInv
<1>2. IdColumnInv /\ [ParserNext]_allVars => IdColumnInv'
  BY DEF IdColumnInv, ParserNext, Parse, UseGraph, EnterAlias, AliasesEntered, VisitJoin,
         ProcessEquality, ProcessAnd, ProcessOther, ExtractBaseIdColumn, allVars, parserVars
<1>3. QED
  BY <1>1, <1>2, IdColumnSuffices, PTL DEF ParserSpec
=============================================================================
