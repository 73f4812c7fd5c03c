---------------------------- MODULE TimestampCell ----------------------------
(***************************************************************************)
(* What the timestamp of one GTM server promises to the threads of that    *)
(* server: base value and clock reading act as one cell.  A thread reads   *)
(* the clock and adds the offset in force in one step; the offset changes  *)
(* only when a new start value is set, never when the base is moved on.    *)
(***************************************************************************)
EXTENDS Integers

CONSTANTS Thread,  \* the threads of the server
          Start    \* the start values that may be set

VARIABLES clock,   \* the monotonic clock
          offset,  \* gt_global_timestamp - gt_last_cycle
          result   \* the last timestamp each thread was given

vars == <<clock, offset, result>>

Init ==
  /\ clock \in Nat
  /\ offset \in Int
  /\ result \in [Thread -> Int]

Tick ==
  /\ clock' = clock + 1
  /\ UNCHANGED <<offset, result>>

(* GetNextGlobalTimestamp and SyncGlobalTimestamp. *)
Read(t) ==
  /\ result' = [result EXCEPT ![t] = clock + offset]
  /\ UNCHANGED <<clock, offset>>

(* SetNextGlobalTimestamp(g), which read the clock a moment ago. *)
Set(g, reading) ==
  /\ offset' = g - reading
  /\ UNCHANGED <<clock, result>>

Next ==
  \/ Tick
  \/ \E t \in Thread : Read(t)
  \/ \E g \in Start, reading \in 0..clock : Set(g, reading)

Spec == Init /\ [][Next]_vars
=============================================================================
