-------------------------- MODULE MCDependencyGraph --------------------------
(****************************************************************************)
(* Small instances of DependencyGraph behind the parser.  Chains are all    *)
(* queries with an ON clause that is a conjunction of at most MaxJoins      *)
(* equalities between the four tables: every join graph DependencyGraph     *)
(* ranges over.  Forms holds ON clauses of every shape over two equalities. *)
(* Selections varies what is selected and how often the base table occurs.  *)
(****************************************************************************)
EXTENDS SqlParser

MCNames == {"c", "o", "p", "lines", "products"}
MCTables == {"customers", "orders", "lines", "products"}
MCColumns == {"_id", "ref"}

As(t, a) == [table |-> t, alias |-> a]
Col(a, c) == [alias |-> a, column |-> c]
Eq(l, r) == [kind |-> "eq", left |-> l, right |-> r]
And(l, r) == [kind |-> "and", left |-> l, right |-> r]
Or(l, r) == [kind |-> "or", left |-> l, right |-> r]
Not(c) == [kind |-> "not", left |-> c]
Paren(c) == [kind |-> "paren", left |-> c]
Opaque == [kind |-> "other"]

\* customers c JOIN orders o JOIN lines JOIN products
Shop == <<As("customers", "c"), As("orders", "o"), As("lines", "lines"), As("products", "products")>>

Key == [alias |-> "c", column |-> "_id", as |-> "customer_id"]

Query(froms, on, selected) == [from |-> froms, on |-> on, select |-> selected]

ShopAliases == {Shop[i].alias : i \in DOMAIN Shop}

Equalities == {Eq(Col(a, "_id"), Col(b, "_id")) : a \in ShopAliases, b \in ShopAliases}

Chains ==
    {Query(Shop, <<>>, <<Key>>)}
    \cup {Query(Shop, <<e>>, <<Key>>) : e \in Equalities}
    \cup {Query(Shop, <<And(e, f)>>, <<Key>>) : e \in Equalities, f \in Equalities}
    \cup {Query(Shop, <<And(And(e, f), g)>>, <<Key>>) :
             e \in Equalities, f \in Equalities, g \in Equalities}

Simple ==
    { Eq(Col("c", "_id"), Col("o", "ref")), Eq(Col("lines", "ref"), Col("o", "_id")),
      Eq(Col("products", "_id"), Col(NoName, "ref")), Opaque }

Composed ==
    {And(l, r) : l \in Simple, r \in Simple} \cup {Or(l, r) : l \in Simple, r \in Simple}
    \cup {Not(c) : c \in Simple} \cup {Paren(c) : c \in Simple}

Forms ==
    {Query(Shop, <<c, d>>, <<Key>>) : c \in Simple \cup Composed, d \in Simple \cup Composed \cup {NoName}}
    \cup {Query(Shop, <<And(c, d)>>, <<Key>>) : c \in Composed, d \in Simple \cup Composed}
    \cup {Query(Shop, <<Or(c, d)>>, <<Key>>) : c \in Composed, d \in Simple \cup Composed}

\* The base table once, not at all, and twice.
Froms ==
    { <<As("orders", "o"), As("customers", "c")>>, <<As("orders", "o")>>,
      <<As("customers", "c"), As("customers", "p"), As("orders", "o")>> }

Selected ==
    [alias : {"c", "p", "o", NoName}, column : MCColumns, as : {"customer_id", NoName}]

Selections ==
    {Query(f, <<>>, s) : f \in Froms, s \in UNION {[1..n -> Selected] : n \in 0..2}}

MCQueries == Chains \cup Forms \cup Selections

RECURSIVE Parts(_)
Parts(c) ==
    CASE c.kind \in {"and", "or"} -> {c} \cup Parts(c.left) \cup Parts(c.right)
      [] c.kind \in {"not", "paren"} -> {c} \cup Parts(c.left)
      [] OTHER -> {c}

MCConditions(q) == UNION {Parts(q.on[i]) : i \in {k \in DOMAIN q.on : q.on[k] # NoName}}
=============================================================================
