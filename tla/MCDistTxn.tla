------------------------------ MODULE MCDistTxn ------------------------------
(* Small instances of DistTxn: a transaction on two nodes, committed in two  *)
(* phases by its coordinator or by its client, and one on a single node.     *)
EXTENDS DistTxn, TLC

CONSTANTS n1, n2, t1, t2

ImplicitAndSingle == (t1 :> "implicit") @@ (t2 :> "single")
ExplicitAndSingle == (t1 :> "explicit") @@ (t2 :> "single")
BothAndOne == (t1 :> {n1, n2}) @@ (t2 :> {n1})
==============================================================================
