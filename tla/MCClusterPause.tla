-------------------------- MODULE MCClusterPause --------------------------
(* Three coordinators: p and r are clients of the first, q of the second. *)
EXTENDS ClusterPause

MCCoord == {1, 2, 3}
MCHome == [s \in Session |-> IF s = "q" THEN 2 ELSE 1]
=============================================================================
