------------------------ MODULE GtmTimestampProofs ------------------------
(***************************************************************************)
(* Proofs about GtmTimestamp: no timestamp is given out twice across       *)
(* restarts and promotions, for any number of servers and threads and any  *)
(* values of the limits that satisfy DeltaAssumption.                      *)
(*                                                                         *)
(* NoReissue is not inductive.  What makes it hold is a chain of bounds:   *)
(* a published sync time is at most one stall after the durable value      *)
(* (SyncBound), a passed check is at most SyncLimit after a published sync *)
(* time (CheckBound), and a timestamp is given at most one stall after the *)
(* check.  The bounds are written with base + x against store + lastCycle, *)
(* because base - lastCycle does not change while a server is active.      *)
(***************************************************************************)
EXTENDS GtmTimestamp, TLAPS

----------------------------------------------------------------------------
(* Clocks were read in the past; what a difference of readings needs. *)
ClocksPast == \A n \in Gtm : lastCycle[n] <= clock

(* The active server is not retired, and a standby that has replayed its log
   is ahead of its store by the delta. *)
Roles ==
  /\ primary \in Eligible
  /\ acked \subseteq Eligible
  /\ \A s \in Standbys : up[s] /\ redone[s] => base[s] >= store[s] + StartupDelta

(* While no server serves, nothing of the active process is left. *)
Idle ==
  ~Serving => /\ lastSync = 0 /\ keeper = "idle" /\ fresh
              /\ \A w \in Thread : threadSync[w] = 0 /\ checked[w] = 0

(* A time of a sync is at most one stall after the value stored everywhere. *)
Covered(x, slack) ==
  \A s \in Eligible : base[primary] + x <= store[s] + lastCycle[primary] + slack

SyncBound ==
  /\ lastSync # 0 => lastSync <= clock /\ Covered(lastSync, MaxStall)
  /\ \A w \in Thread : threadSync[w] # 0 =>
       threadSync[w] <= clock /\ Covered(threadSync[w], MaxStall)

CheckBound ==
  \A w \in Thread : checked[w] # 0 =>
    /\ checked[w] <= clock /\ clock <= checked[w] + MaxStall
    /\ Covered(checked[w], SyncLimit + MaxStall)

(* What the keeper knows between SyncGlobalTimestamp and the publication. *)
KeeperBound ==
  /\ keeper # "storing" => acked = {}
  /\ keeper = "synced" => clock <= lastCycle[primary] + MaxStall
  /\ keeper = "storing" => /\ kLast <= lastCycle[primary] + MaxStall /\ kLast <= clock
                           /\ \A s \in acked : store[s] = base[primary]
  /\ keeper # "idle" =>
       /\ issued < base[primary] + StartupDelta
       /\ lastSync <= lastCycle[primary]
       /\ \A w \in Thread :
            /\ threadSync[w] <= lastCycle[primary]
            /\ checked[w] <= lastCycle[primary] + SyncLimit

(* The active server's own value is never behind what was given out. *)
IssuedBound ==
  Serving => /\ issued + lastCycle[primary] <= base[primary] + clock
             /\ fresh => issued + lastCycle[primary] < base[primary] + clock

(* The inductive invariant; Bounds is the part that relates clock readings and
   stored values. *)
Bounds == Roles /\ Idle /\ SyncBound /\ CheckBound /\ KeeperBound /\ IssuedBound /\ NoReissue

GtmInv == TypeOK /\ ClocksPast /\ Bounds

----------------------------------------------------------------------------
(* Every step keeps the types and reads the clock in the past. *)
LEMMA TypeStep ==
  ASSUME TypeOK, ClocksPast, [Next]_vars
  PROVE  TypeOK' /\ ClocksPast'
<1> USE GtmAssumption
<1>0. CurrentGts(primary) \in Nat
  BY DEF CurrentGts, TypeOK, ClocksPast
<1>1. CASE Tick
  BY <1>1 DEF Tick, TypeOK, ClocksPast
<1>2. ASSUME NEW w \in Thread, Check(w) PROVE TypeOK' /\ ClocksPast'
  BY <1>2 DEF Check, TypeOK, ClocksPast
<1>3. ASSUME NEW w \in Thread, Issue(w) PROVE TypeOK' /\ ClocksPast'
  BY <1>0, <1>3 DEF Issue, TypeOK, ClocksPast
<1>4. CASE KeeperSync
  BY <1>0, <1>4 DEF KeeperSync, TypeOK, ClocksPast
<1>5. CASE KeeperClock
  BY <1>5 DEF KeeperClock, TypeOK, ClocksPast
<1>6. ASSUME NEW s \in Gtm, KeeperFlush(s) PROVE TypeOK' /\ ClocksPast'
  BY <1>6 DEF KeeperFlush, TypeOK, ClocksPast
<1>7. CASE KeeperPublish
  BY <1>7 DEF KeeperPublish, TypeOK, ClocksPast
<1>8. ASSUME NEW s \in Gtm, Redo(s) PROVE TypeOK' /\ ClocksPast'
  BY <1>8 DEF Redo, RestoredGts, TypeOK, ClocksPast
<1>9. ASSUME NEW n \in Gtm, Crash(n) PROVE TypeOK' /\ ClocksPast'
  <2>1. CASE n = primary
    BY <1>9, <2>1 DEF Crash, FreshProcess, TypeOK, ClocksPast
  <2>2. CASE n # primary
    BY <1>9, <2>2 DEF Crash, TypeOK, ClocksPast
  <2> QED
    BY <2>1, <2>2
<1>10. ASSUME NEW n \in Gtm, NEW set \in 0..MaxSet, Restart(n, set)
       PROVE  TypeOK' /\ ClocksPast'
  BY <1>10 DEF Restart, RestoredGts, TypeOK, ClocksPast
<1>11. ASSUME NEW s \in Gtm, Promote(s) PROVE TypeOK' /\ ClocksPast'
  BY <1>11 DEF Promote, FreshProcess, TypeOK, ClocksPast
<1>12. CASE UNCHANGED vars
  BY <1>12 DEF vars, TypeOK, ClocksPast
<1> QED
  BY <1>1, <1>2, <1>3, <1>4, <1>5, <1>6, <1>7, <1>8, <1>9, <1>10, <1>11, <1>12 DEF Next

(* Type correctness of the service (TypeOK), with or without the operator's
   care at a promotion. *)
THEOREM TypeCorrect == Spec => []TypeOK
<1>1. Init => TypeOK /\ ClocksPast
  BY GtmAssumption DEF Init, TypeOK, ClocksPast
<1> QED
  BY <1>1, TypeStep, PTL DEF Spec

(* Every step keeps the bounds, provided that the operator promotes only a
   standby that has replayed its log. *)
LEMMA BoundsStep ==
  ASSUME WaitForRedo = TRUE, TypeOK, ClocksPast, Bounds, TypeOK', [Next]_vars
  PROVE  Bounds'
<1> USE GtmAssumption, DeltaAssumption DEF TypeOK, ClocksPast, Eligible, Standbys, Serving
<1> USE DEF Bounds
<1>1. ASSUME Tick PROVE Bounds'
  <2>1. Roles'
    BY <1>1 DEF Tick, Roles
  <2>2. Idle'
    BY <1>1 DEF Tick, Idle
  <2>3. SyncBound'
    BY <1>1 DEF Tick, SyncBound, Covered
  <2>4. CheckBound'
    BY <1>1 DEF Tick, CheckBound, Covered
  <2>5. KeeperBound'
    BY <1>1 DEF Tick, KeeperBound
  <2>6. IssuedBound'
    BY <1>1 DEF Tick, IssuedBound
  <2>7. NoReissue'
    BY <1>1 DEF Tick, NoReissue
  <2> QED
    BY <2>1, <2>2, <2>3, <2>4, <2>5, <2>6, <2>7
<1>2. ASSUME NEW w \in Thread, Check(w)
      PROVE  Bounds'
  <2>1. Roles'
    BY <1>2 DEF Check, Roles
  <2>2. Idle'
    BY <1>2 DEF Check, Idle
  <2>3. SyncBound'
    BY <1>2 DEF Check, SyncBound, Covered
  <2>4. CheckBound'
    BY <1>2 DEF Check, Stale, SyncBound, CheckBound, Covered
  <2>5. KeeperBound'
    BY <1>2 DEF Check, Stale, KeeperBound
  <2>6. IssuedBound'
    BY <1>2 DEF Check, IssuedBound
  <2>7. NoReissue'
    BY <1>2 DEF Check, NoReissue
  <2> QED
    BY <2>1, <2>2, <2>3, <2>4, <2>5, <2>6, <2>7
<1>3. ASSUME NEW w \in Thread, Issue(w)
      PROVE  Bounds'
  <2>1. Roles'
    BY <1>3 DEF Issue, Roles
  <2>2. Idle'
    BY <1>3 DEF Issue, Idle
  <2>3. SyncBound'
    BY <1>3 DEF Issue, SyncBound, Covered
  <2>4. CheckBound'
    BY <1>3 DEF Issue, CheckBound, Covered
  <2>5. KeeperBound'
    BY <1>3 DEF Issue, CurrentGts, KeeperBound, CheckBound
  <2>6. IssuedBound'
    BY <1>3 DEF Issue, CurrentGts, IssuedBound
  <2>7. NoReissue'
    BY <1>3 DEF Issue, CurrentGts, NoReissue, CheckBound, Covered
  <2> QED
    BY <2>1, <2>2, <2>3, <2>4, <2>5, <2>6, <2>7
<1>4. ASSUME KeeperSync PROVE Bounds'
  <2>1. Roles'
    BY <1>4 DEF KeeperSync, Roles
  <2>2. Idle'
    BY <1>4 DEF KeeperSync, Idle
  <2>3. SyncBound'
    BY <1>4 DEF KeeperSync, CurrentGts, SyncBound, Covered
  <2>4. CheckBound'
    BY <1>4 DEF KeeperSync, CurrentGts, CheckBound, Covered
  <2>5. KeeperBound'
    BY <1>4 DEF KeeperSync, CurrentGts, KeeperBound, SyncBound, CheckBound, IssuedBound
  <2>6. IssuedBound'
    BY <1>4 DEF KeeperSync, CurrentGts, IssuedBound
  <2>7. NoReissue'
    BY <1>4 DEF KeeperSync, NoReissue
  <2> QED
    BY <2>1, <2>2, <2>3, <2>4, <2>5, <2>6, <2>7
<1>5. ASSUME KeeperClock PROVE Bounds'
  <2>1. Roles'
    BY <1>5 DEF KeeperClock, Roles
  <2>2. Idle'
    BY <1>5 DEF KeeperClock, Idle
  <2>3. SyncBound'
    BY <1>5 DEF KeeperClock, SyncBound, Covered
  <2>4. CheckBound'
    BY <1>5 DEF KeeperClock, CheckBound, Covered
  <2>5. KeeperBound'
    BY <1>5 DEF KeeperClock, KeeperBound
  <2>6. IssuedBound'
    BY <1>5 DEF KeeperClock, IssuedBound
  <2>7. NoReissue'
    BY <1>5 DEF KeeperClock, NoReissue
  <2> QED
    BY <2>1, <2>2, <2>3, <2>4, <2>5, <2>6, <2>7
<1>6. ASSUME NEW s \in Gtm, KeeperFlush(s)
      PROVE  Bounds'
  <2>1. Roles'
    BY <1>6 DEF KeeperFlush, Roles
  <2>2. Idle'
    BY <1>6 DEF KeeperFlush, Idle
  <2>3. SyncBound'
    BY <1>6 DEF KeeperFlush, SyncBound, KeeperBound, Covered
  <2>4. CheckBound'
    BY <1>6 DEF KeeperFlush, CheckBound, KeeperBound, Covered
  <2>5. KeeperBound'
    BY <1>6 DEF KeeperFlush, KeeperBound
  <2>6. IssuedBound'
    BY <1>6 DEF KeeperFlush, IssuedBound
  <2>7. NoReissue'
    BY <1>6 DEF KeeperFlush, NoReissue, KeeperBound
  <2> QED
    BY <2>1, <2>2, <2>3, <2>4, <2>5, <2>6, <2>7
<1>7. ASSUME KeeperPublish PROVE Bounds'
  <2>1. Roles'
    BY <1>7 DEF KeeperPublish, Roles
  <2>2. Idle'
    BY <1>7 DEF KeeperPublish, Idle
  <2>3. SyncBound'
    BY <1>7 DEF KeeperPublish, SyncedEverywhere, SyncBound, KeeperBound, Covered
  <2>4. CheckBound'
    BY <1>7 DEF KeeperPublish, CheckBound, Covered
  <2>5. KeeperBound'
    BY <1>7 DEF KeeperPublish, KeeperBound
  <2>6. IssuedBound'
    BY <1>7 DEF KeeperPublish, IssuedBound
  <2>7. NoReissue'
    BY <1>7 DEF KeeperPublish, NoReissue
  <2> QED
    BY <2>1, <2>2, <2>3, <2>4, <2>5, <2>6, <2>7
<1>8. ASSUME NEW s \in Gtm, Redo(s)
      PROVE  Bounds'
  <2>1. Roles'
    BY <1>8 DEF Redo, RestoredGts, Roles
  <2>2. Idle'
    BY <1>8 DEF Redo, Idle
  <2>3. SyncBound'
    BY <1>8 DEF Redo, SyncBound, Covered
  <2>4. CheckBound'
    BY <1>8 DEF Redo, CheckBound, Covered
  <2>5. KeeperBound'
    BY <1>8 DEF Redo, KeeperBound
  <2>6. IssuedBound'
    BY <1>8 DEF Redo, IssuedBound
  <2>7. NoReissue'
    BY <1>8 DEF Redo, NoReissue
  <2> QED
    BY <2>1, <2>2, <2>3, <2>4, <2>5, <2>6, <2>7
<1>9. ASSUME NEW n \in Gtm, Crash(n)
      PROVE  Bounds'
  <2>1. Roles'
    BY <1>9 DEF Crash, FreshProcess, Roles
  <2>2. Idle'
    BY <1>9 DEF Crash, FreshProcess, Idle
  <2>3. SyncBound'
    BY <1>9 DEF Crash, FreshProcess, SyncBound, Covered
  <2>4. CheckBound'
    BY <1>9 DEF Crash, FreshProcess, CheckBound, Covered
  <2>5. KeeperBound'
    BY <1>9 DEF Crash, FreshProcess, KeeperBound
  <2>6. IssuedBound'
    BY <1>9 DEF Crash, IssuedBound
  <2>7. NoReissue'
    BY <1>9 DEF Crash, NoReissue
  <2> QED
    BY <2>1, <2>2, <2>3, <2>4, <2>5, <2>6, <2>7
<1>10. ASSUME NEW n \in Gtm, NEW set \in 0..MaxSet, Restart(n, set)
      PROVE  Bounds'
  <2>1. Roles'
    BY <1>10 DEF Restart, RestoredGts, Roles
  <2>2. Idle'
    BY <1>10 DEF Restart, Idle
  <2>3. SyncBound'
    BY <1>10 DEF Restart, SyncBound, Covered, Idle
  <2>4. CheckBound'
    BY <1>10 DEF Restart, CheckBound, Covered, Idle
  <2>5. KeeperBound'
    BY <1>10 DEF Restart, KeeperBound, Idle
  <2>6. IssuedBound'
    BY <1>10 DEF Restart, RestoredGts, IssuedBound, NoReissue
  <2>7. NoReissue'
    BY <1>10 DEF Restart, NoReissue
  <2> QED
    BY <2>1, <2>2, <2>3, <2>4, <2>5, <2>6, <2>7
<1>11. ASSUME NEW s \in Gtm, Promote(s)
      PROVE  Bounds'
  <2>1. Roles'
    BY <1>11 DEF Promote, FreshProcess, Roles
  <2>2. Idle'
    BY <1>11 DEF Promote, Idle
  <2>3. SyncBound'
    BY <1>11 DEF Promote, FreshProcess, SyncBound
  <2>4. CheckBound'
    BY <1>11 DEF Promote, FreshProcess, CheckBound
  <2>5. KeeperBound'
    BY <1>11 DEF Promote, FreshProcess, KeeperBound
  <2>6. IssuedBound'
    BY <1>11 DEF Promote, IssuedBound, Roles, NoReissue
  <2>7. NoReissue'
    BY <1>11 DEF Promote, NoReissue
  <2> QED
    BY <2>1, <2>2, <2>3, <2>4, <2>5, <2>6, <2>7
<1>12. CASE UNCHANGED vars
  BY <1>12 DEF vars, Roles, Idle, SyncBound, CheckBound, KeeperBound, IssuedBound, NoReissue, Covered
<1> QED
  BY <1>1, <1>2, <1>3, <1>4, <1>5, <1>6, <1>7, <1>8, <1>9, <1>10, <1>11, <1>12 DEF Next

----------------------------------------------------------------------------
(* The inductive invariant holds in every reachable state, provided that the
   operator promotes only a standby that has replayed its log. *)
LEMMA GtmInvariant ==
  ASSUME WaitForRedo = TRUE
  PROVE  Spec => []GtmInv
<1>1. Init => GtmInv
  <2> SUFFICES ASSUME Init PROVE GtmInv
    OBVIOUS
  <2>1. TypeOK /\ ClocksPast
    BY GtmAssumption DEF Init, TypeOK, ClocksPast
  <2>2. Roles /\ Idle /\ SyncBound /\ CheckBound /\ KeeperBound
    BY GtmAssumption DEF Init, Roles, Idle, SyncBound, CheckBound, KeeperBound,
                         Eligible, Standbys, Serving
  <2>3. IssuedBound /\ NoReissue
    BY GtmAssumption, DeltaAssumption DEF Init, IssuedBound, NoReissue, Eligible, Serving
  <2> QED
    BY <2>1, <2>2, <2>3 DEF GtmInv, Bounds
<1>2. GtmInv /\ [Next]_vars => GtmInv'
  BY TypeStep, BoundsStep DEF GtmInv
<1> QED
  BY <1>1, <1>2, PTL DEF Spec

(* No server, restarted or promoted, starts at or below a timestamp that a
   client already received (NoReissue), whatever the number of servers. *)
THEOREM Takeover ==
  ASSUME WaitForRedo = TRUE
  PROVE  Spec => []NoReissue
<1>1. GtmInv => NoReissue
  BY DEF GtmInv, Bounds
<1> QED
  BY <1>1, GtmInvariant, PTL

(* The timestamps given to clients never go back, and grow strictly across a
   takeover (MonotoneIssue). *)
THEOREM Monotone ==
  ASSUME WaitForRedo = TRUE
  PROVE  Spec => MonotoneIssue
<1> DEFINE Forward == issued' >= issued /\ (fresh /\ ~fresh' => issued' > issued)
<1>1. ASSUME GtmInv, [Next]_vars PROVE [Forward]_vars
  <2> USE <1>1 DEF GtmInv, Bounds, TypeOK
  <2>1. ASSUME NEW w \in Thread, Issue(w) PROVE Forward
    BY <2>1 DEF Issue, CurrentGts, IssuedBound, Serving, ClocksPast
  <2>2. ASSUME NEW n \in Gtm, Crash(n) PROVE Forward
    BY <2>2 DEF Crash, FreshProcess
  <2>3. ASSUME NEW s \in Gtm, Promote(s) PROVE Forward
    BY <2>3 DEF Promote, FreshProcess
  <2>4. ASSUME issued' = issued, fresh' = fresh PROVE Forward
    BY <2>4
  <2>5. CASE UNCHANGED vars
    BY <2>5
  <2> QED
    BY <1>1, <2>1, <2>2, <2>3, <2>4, <2>5
    DEF Next, Tick, Check, KeeperSync, KeeperClock, KeeperFlush, KeeperPublish, Redo, Restart
<1> QED
  BY <1>1, GtmInvariant, PTL DEF Spec, MonotoneIssue

(* A request that passed its check is covered by the durable value of every
   server that may take over (CheckedIsDurable). *)
THEOREM Durable ==
  ASSUME WaitForRedo = TRUE
  PROVE  Spec => []CheckedIsDurable
<1>1. GtmInv => CheckedIsDurable
  <2> SUFFICES ASSUME GtmInv, NEW w \in Thread, checked[w] # 0, NEW s \in Eligible
               PROVE  CurrentGts(primary) <= store[s] + SyncLimit + 2 * MaxStall
    BY DEF CheckedIsDurable
  <2> QED
    BY GtmAssumption DEF GtmInv, Bounds, CheckBound, Covered, CurrentGts, TypeOK,
                         ClocksPast, Eligible
<1> QED
  BY <1>1, GtmInvariant, PTL
=============================================================================
