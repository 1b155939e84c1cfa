---------------------------- MODULE MCPercolation ----------------------------
(****************************************************************************)
(* A small instance of Percolation for TLC: a line of one customer's order  *)
(* and a product that leads to both customers.                              *)
(****************************************************************************)
EXTENDS Percolation, TLC

CONSTANTS line, product, alice, bob

Tables == line :> "lines" @@ product :> "products"
DaemonOptions ==
    {[once |-> FALSE, batch_size |-> 10], [once |-> FALSE, batch_size |-> 1],
     [once |-> TRUE, batch_size |-> 10]}
ShopOwners == line :> {alice} @@ product :> {alice, bob}
=============================================================================
