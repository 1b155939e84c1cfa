------------------------------ MODULE MCTracker ------------------------------
(****************************************************************************)
(* Small instances of Tracker for TLC.  The shop is the schema of DESIGN.md *)
(* and of the end-to-end tests: customers, their orders (depth 1), the      *)
(* lines of the orders (depth 2) and the products on the lines (depth 3).   *)
(* audit is published to the stream, but the query does not mention it.     *)
(****************************************************************************)
EXTENDS Tracker

ShopTables == {"customers", "orders", "order_lines", "products", "audit"}
ShopColumns == {"_id", "cust_id", "order_id", "product_id"}

Join(t, c, u, d) == [table |-> t, to |-> u, from_col |-> c, to_col |-> d]

ShopJoins ==
    << Join("orders", "cust_id", "customers", "_id"),
       Join("order_lines", "order_id", "orders", "_id"),
       Join("products", "_id", "order_lines", "product_id") >>

ShopDepth ==
    [t \in ShopTables |->
        CASE t = "customers" -> 0 [] t = "orders" -> 1
          [] t = "order_lines" -> 2 [] t = "products" -> 3 [] t = "audit" -> -1]

ShopPath ==
    LET toCustomers == Join("orders", "cust_id", "customers", "_id")
        toOrders == Join("order_lines", "order_id", "orders", "_id")
        toLines == Join("products", "_id", "order_lines", "product_id")
    IN  [t \in ShopTables |->
            CASE t \in {"customers", "audit"} -> <<>>
              [] t = "orders" -> <<toCustomers>>
              [] t = "order_lines" -> <<toOrders, toCustomers>>
              [] t = "products" -> <<toLines, toOrders, toCustomers>>]

\* The foreign keys, each optional (DESIGN.md:19).
ShopDomain ==
    [t \in ShopTables |-> [c \in ShopColumns |->
        CASE t = "audit" /\ c = "_id" -> {1}
          [] c = "_id" -> Ids
          [] t = "orders" /\ c = "cust_id" -> Ids \cup {NULL}
          [] t = "order_lines" /\ c \in {"order_id", "product_id"} -> Ids \cup {NULL}
          [] OTHER -> {NULL}]]

\* The same with one row per dependent table, for longer histories: the order
\* may move between the customers, the line may leave the order.  (audit has
\* no rows.)
OneOrderDomain ==
    [t \in ShopTables |-> [c \in ShopColumns |->
        CASE t = "audit" -> {}
          [] t = "customers" /\ c = "_id" -> Ids
          [] c = "_id" -> {1}
          [] t = "orders" /\ c = "cust_id" -> Ids
          [] t = "order_lines" /\ c = "order_id" -> {1, NULL}
          [] t = "order_lines" /\ c = "product_id" -> {1}
          [] OTHER -> {NULL}]]

\* The same when no join key ever changes.
FixedKeysDomain ==
    [OneOrderDomain EXCEPT !["orders"]["cust_id"] = {1}, !["order_lines"]["order_id"] = {1}]

LiveRow(id, keys) ==
    [state |-> "live",
     key |-> [c \in Columns |->
                IF c = "_id" THEN id ELSE IF c \in DOMAIN keys THEN keys[c] ELSE NULL]]

\* Two customers with an order each, one line of order 1 for product 1.
ShopDb ==
    [t \in ShopTables |-> [id \in Ids |->
        CASE t = "customers" -> LiveRow(id, <<>>)
          [] t = "orders" -> LiveRow(id, [cust_id |-> id])
          [] t = "order_lines" /\ id = 1 -> LiveRow(1, [order_id |-> 1, product_id |-> 1])
          [] t = "products" /\ id = 1 -> LiveRow(1, <<>>)
          [] OTHER -> None]]

\* One customer's order with a line and its product; customer 2 has nothing.
OneOrderDb ==
    [t \in ShopTables |-> [id \in Ids |->
        CASE t = "customers" -> LiveRow(id, <<>>)
          [] t = "orders" /\ id = 1 -> LiveRow(1, [cust_id |-> 1])
          [] t = "order_lines" /\ id = 1 -> LiveRow(1, [order_id |-> 1, product_id |-> 1])
          [] t = "products" /\ id = 1 -> LiveRow(1, <<>>)
          [] OTHER -> None]]
=============================================================================
