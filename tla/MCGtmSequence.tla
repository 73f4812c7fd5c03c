--------------------------- MODULE MCGtmSequence ---------------------------
(* Small sequences: one that is reserved, one with a larger increment, one that
   is ordered, and one that descends and wraps around.  A range of 4 is wide
   enough to be reserved. *)
EXTENDS GtmSequence, TLC

Opt(inc, min, max, cycle, ordered) ==
  [inc |-> inc, min |-> min, max |-> max, cycle |-> cycle, ordered |-> ordered]

MCOptions == {Opt(1, 1, 5, FALSE, FALSE), Opt(2, 1, 8, FALSE, FALSE),
              Opt(1, 1, 5, FALSE, TRUE), Opt(-1, 1, 5, TRUE, FALSE)}
Threads == Permutations(Thread)
=============================================================================
