------------------------------ MODULE SqlParser ------------------------------
(****************************************************************************)
(* sql_parser.py in front of DependencyGraph: the streaming manager and the *)
(* percolator parse the tracked query, hand the equalities found to the     *)
(* search, and keep the name of the base table's id column.                 *)
(*                                                                          *)
(* The query is sqlglot's tree (external), reduced to what the parser looks *)
(* at: its tables in the order find_all meets them, the ON clause of each   *)
(* join and the columns selected.  A condition is an equality of columns, a *)
(* connective, or opaque.  What the conditions mean is said by Worlds, which *)
(* does not look at how the parser walks them.                              *)
(****************************************************************************)
EXTENDS DependencyGraph

CONSTANTS
    Names,          \* names of tables and aliases
    Queries,        \* records [from, on, select]
    Conditions(_),  \* the conditions of a query: its ON clauses and their parts
    NoName          \* a column without qualifier, no alias, no ON clause, None

\* One name stands for one table throughout the query: an alias used for another
\* table inside a subquery would overwrite the dictionary's entry.
OneScope(q) ==
    \A i, j \in DOMAIN q.from :
        q.from[i].alias = q.from[j].alias => q.from[i].table = q.from[j].table

\* A qualifier is an alias of the query or, as for a derived table, a table name.
Qualifiers(q) == {q.from[i].alias : i \in DOMAIN q.from} \cup Tables \cup {NoName}

ASSUME QueriesAssumption ==
    \A q \in Queries :
        /\ q.from \in Seq([alias : Names, table : Tables])
        /\ OneScope(q)
        /\ q.on \in Seq(Conditions(q) \cup {NoName})
        /\ \A c \in Conditions(q) :
              /\ c.kind = "and" => c.left \in Conditions(q) /\ c.right \in Conditions(q)
              /\ c.kind = "eq" =>
                    /\ c.left.alias \in Qualifiers(q) /\ c.left.column \in Columns
                    /\ c.right.alias \in Qualifiers(q) /\ c.right.column \in Columns
ASSUME NoNameAssumption == \A q \in Queries : NoName \notin Conditions(q)

\* A column selected from the base table is qualified by the table's alias: a table
\* that has an alias does not answer to its name.
ASSUME SelectAssumption ==
    /\ NoName \notin Columns
    /\ \A q \in Queries :
          /\ Len(q.select) \in Nat /\ DOMAIN q.select = 1..Len(q.select)
          /\ \A i \in DOMAIN q.select :
                /\ q.select[i].column \in Columns
                /\ q.select[i].alias = BaseTable =>
                      \E k \in DOMAIN q.from : q.from[k].alias = BaseTable

VARIABLES
    query,     \* parsed
    tables,    \* the tables whose aliases have still to be entered
    aliases,   \* table_aliases
    unread,    \* the joins _extract_joins has still to visit
    calls,     \* conditions of the calls of _process_join_condition to come
    stage,     \* "aliases", "joins" or "done"
    idColumn   \* base_id_column

parserVars == <<query, tables, aliases, unread, calls, stage, idColumn>>
graphVars == <<depths, queue, current, scan, phase, from, node, path>>
allVars == <<vars, parserVars>>

\* _resolve_table_alias
Resolve(alias) == IF alias \in DOMAIN aliases THEN aliases[alias] ELSE alias

Qualified(c) == c.left.alias # NoName /\ c.right.alias # NoName

JoinOf(c) ==
    [table |-> Resolve(c.left.alias), to |-> Resolve(c.right.alias),
     from_col |-> c.left.column, to_col |-> c.right.column]

IsKey(column) == column \in {"_id", "id"}

OutputName(p) == IF p.as # NoName THEN p.as ELSE p.column

\* Fault: a key is taken from whatever table is selected from.
AnyKeys(q) == {i \in DOMAIN q.select : IsKey(q.select[i].column)}

\* The columns selected that _extract_base_id_column accepts: keys of the base
\* table's alias, of the first one if there are several.
BaseKeys(q) ==
    LET uses == {i \in DOMAIN q.from : q.from[i].table = BaseTable}
    IN  {i \in DOMAIN q.select :
            /\ uses # {}
            /\ q.select[i].alias = q.from[Min(uses)].alias
            /\ IsKey(q.select[i].column)}

BaseIdColumn(q) ==
    IF BaseKeys(q) = {} THEN NoName ELSE OutputName(q.select[Min(BaseKeys(q))])

ParserInit ==
    /\ query \in Queries
    /\ joins = <<>>
    /\ tables = query.from
    /\ aliases = <<>>
    /\ unread = query.on
    /\ calls = <<>>
    /\ stage = "aliases"
    /\ idColumn = NoName
    /\ Fresh

\* Fault: the alias is entered for itself.
EnterAliasForItself ==
    /\ stage = "aliases" /\ tables # <<>>
    /\ LET new == Head(tables)
       IN  aliases' = [a \in DOMAIN aliases \cup {new.alias} |->
                          IF a = new.alias THEN new.alias ELSE aliases[a]]
    /\ tables' = Tail(tables)
    /\ UNCHANGED <<joins, query, unread, calls, stage, idColumn>>

\* One iteration of _extract_table_aliases.
EnterAlias ==
    /\ stage = "aliases" /\ tables # <<>>
    /\ LET new == Head(tables)
       IN  aliases' = [a \in DOMAIN aliases \cup {new.alias} |->
                          IF a = new.alias THEN new.table ELSE aliases[a]]
    /\ tables' = Tail(tables)
    /\ UNCHANGED <<joins, query, unread, calls, stage, idColumn>>

AliasesEntered ==
    /\ stage = "aliases" /\ tables = <<>>
    /\ stage' = "joins"
    /\ UNCHANGED <<joins, query, tables, aliases, unread, calls, idColumn>>

\* One iteration of _extract_joins; a join without an ON clause is passed over.
VisitJoin ==
    /\ stage = "joins" /\ calls = <<>> /\ unread # <<>>
    /\ calls' = IF Head(unread) = NoName THEN <<>> ELSE <<Head(unread)>>
    /\ unread' = Tail(unread)
    /\ UNCHANGED <<joins, query, tables, aliases, stage, idColumn>>

\* _process_join_condition of an equality: a join if both columns are qualified.
ProcessEquality ==
    /\ stage = "joins" /\ calls # <<>> /\ Head(calls).kind = "eq"
    /\ joins' = IF Qualified(Head(calls)) THEN Append(joins, JoinOf(Head(calls))) ELSE joins
    /\ calls' = Tail(calls)
    /\ UNCHANGED <<query, tables, aliases, unread, stage, idColumn>>

\* Fault: only one side of a conjunction is looked at.
ProcessLeftOfAnd ==
    /\ stage = "joins" /\ calls # <<>> /\ Head(calls).kind = "and"
    /\ calls' = <<Head(calls).left>> \o Tail(calls)
    /\ UNCHANGED <<joins, query, tables, aliases, unread, stage, idColumn>>

\* Fault: a disjunction is taken apart like a conjunction.
ProcessAndOr ==
    /\ stage = "joins" /\ calls # <<>> /\ Head(calls).kind \in {"and", "or"}
    /\ calls' = <<Head(calls).left, Head(calls).right>> \o Tail(calls)
    /\ UNCHANGED <<joins, query, tables, aliases, unread, stage, idColumn>>

\* ... of a conjunction: the left side, then the right side.
ProcessAnd ==
    /\ stage = "joins" /\ calls # <<>> /\ Head(calls).kind = "and"
    /\ calls' = <<Head(calls).left, Head(calls).right>> \o Tail(calls)
    /\ UNCHANGED <<joins, query, tables, aliases, unread, stage, idColumn>>

\* Disjunctions, negations, parentheses and everything else are passed over.
ProcessOther ==
    /\ stage = "joins" /\ calls # <<>> /\ Head(calls).kind \notin {"eq", "and"}
    /\ calls' = Tail(calls)
    /\ UNCHANGED <<joins, query, tables, aliases, unread, stage, idColumn>>

ExtractBaseIdColumn ==
    /\ stage = "joins" /\ calls = <<>> /\ unread = <<>>
    /\ idColumn' = BaseIdColumn(query)
    /\ stage' = "done"
    /\ UNCHANGED <<joins, query, tables, aliases, unread, calls>>

Parse ==
    /\ \/ EnterAlias
       \/ AliasesEntered
       \/ VisitJoin
       \/ ProcessEquality
       \/ ProcessAnd
       \/ ProcessOther
       \/ ExtractBaseIdColumn
    /\ UNCHANGED graphVars

\* get_join_graph and the graph's constructor come after the parser's.
UseGraph(A) == stage = "done" /\ A /\ UNCHANGED parserVars

ParserNext == Parse \/ UseGraph(Next)

\* One thread: the parser, the search and a walk each run until they return.
ParserSpec ==
    /\ ParserInit
    /\ [][ParserNext]_allVars
    /\ WF_allVars(Parse)
    /\ WF_allVars(UseGraph(Search))
    /\ WF_allVars(UseGraph(Walk))

----------------------------------------------------------------------------
\* The ways in which the conditions can be true of a row of the result: each
\* connective is true as its parts say, and every ON clause is true.
Worlds(q) ==
    {w \in [Conditions(q) -> BOOLEAN] :
        /\ \A c \in Conditions(q) :
              /\ c.kind = "and" => (w[c] <=> w[c.left] /\ w[c.right])
              /\ c.kind = "or" => (w[c] <=> w[c.left] \/ w[c.right])
              /\ c.kind = "not" => (w[c] <=> ~w[c.left])
              /\ c.kind = "paren" => (w[c] <=> w[c.left])
        /\ \A i \in DOMAIN q.on : q.on[i] # NoName => w[q.on[i]]}

\* The table an alias stands for, whatever the dictionary holds.
TableOf(q, alias) ==
    IF \E i \in DOMAIN q.from : q.from[i].alias = alias
    THEN q.from[CHOOSE i \in DOMAIN q.from : q.from[i].alias = alias].table
    ELSE alias

\* The equality of c between tables holds for every row of the result.
ImpliedBy(q, c) ==
    c.kind = "eq" /\ Qualified(c) /\ \A w \in Worlds(q) : w[c]

Implied(q) ==
    { [table |-> TableOf(q, c.left.alias), to |-> TableOf(q, c.right.alias),
       from_col |-> c.left.column, to_col |-> c.right.column] :
      c \in {b \in Conditions(q) : ImpliedBy(q, b)} }

ParserTypeOK ==
    /\ tables \in Seq([alias : Names, table : Tables])
    /\ \A a \in DOMAIN aliases : aliases[a] \in Tables
    /\ unread \in Seq(Conditions(query) \cup {NoName})
    /\ calls \in Seq(Conditions(query))
    /\ stage \in {"aliases", "joins", "done"}

\* The parser reports no equality that the query does not impose: the handlers
\* and the percolation query join by them, and one too many would miss entities.
JoinsImplied ==
    stage = "done" /\ phase = "ready" =>
        \A k \in 1..Len(joins) : joins[k] \in Implied(query)

\* Tables t and the base table are connected by exactly n equalities of js.
ConnectedBy(js, t, n) ==
    \E w \in [0..n -> Tables] :
        /\ w[0] = t
        /\ w[n] = BaseTable
        /\ \A i \in 0..(n - 1) :
              \E j \in js : {w[i], w[i + 1]} = {j.table, j.to}

\* The ON clauses are conjunctions of qualified equalities, and every join has one.
Conjunctive(q) ==
    /\ \A i \in DOMAIN q.on : q.on[i] # NoName
    /\ \A c \in Conditions(q) : c.kind = "and" \/ (c.kind = "eq" /\ Qualified(c))

\* The parser and the search together: a depth is the length of a way along
\* equalities the query imposes; and when its ON clauses are conjunctions of
\* qualified equalities the depth is the distance in the query's own meaning:
\* no table of it is left out, and none is deferred that could be resolved.
DepthsOfQuery ==
    stage = "done" /\ phase = "ready" =>
        LET meant == Implied(query)
        IN  \A t \in Tables :
                /\ depths[t] >= 0 => ConnectedBy(meant, t, depths[t])
                /\ Conjunctive(query) =>
                      \A n \in 0..(Cardinality(Tables) - 1) :
                          ConnectedBy(meant, t, n) => depths[t] \in 0..n

\* The id column is a name the query gives to a key of the base table.  It is
\* missing, and then guessed from the table's name, only when no such key is
\* selected or the base table does not occur exactly once.
IdColumnNamesKey ==
    stage = "done" =>
        LET uses == {i \in DOMAIN query.from : query.from[i].table = BaseTable}
            keys == {p \in {query.select[i] : i \in DOMAIN query.select} :
                        TableOf(query, p.alias) = BaseTable /\ IsKey(p.column)}
        IN  /\ idColumn # NoName => \E p \in keys : idColumn = OutputName(p)
            /\ idColumn = NoName => keys = {} \/ Cardinality(uses) # 1
=============================================================================
