---------------------------- MODULE MCDistTxnBoth ----------------------------
(* Two instances of DistTxn in one run: the one of the cfg, or the same with   *)
(* a client that commits by itself and nodes that do not crash.                *)
EXTENDS MCDistTxn

VARIABLE client  \* TRUE in the behaviours of the second

Explicit == INSTANCE DistTxn WITH Kind <- ExplicitAndSingle, MaxCrashes <- 0

BothInit == client \in BOOLEAN /\ Init

BothNext ==
  /\ UNCHANGED client
  /\ \/ ~client /\ Next
     \/ client /\ Explicit!Next

BothSpec == BothInit /\ [][BothNext]_<<vars, client>>
==============================================================================
