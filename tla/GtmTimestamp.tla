---------------------------- MODULE GtmTimestamp ----------------------------
(***************************************************************************)
(* The global timestamp (GTS) service of the GTM: one active server hands  *)
(* timestamps to coordinators and datanodes, its time keeper thread makes  *)
(* the current value durable on its own disk and on the synchronous        *)
(* standbys, and after a crash the server restarts, or a standby is        *)
(* promoted, at the last durable value plus gtm_startup_gts_delta.         *)
(*                                                                         *)
(* One clock stands for the monotonic clocks of all servers: the code only *)
(* ever uses differences of readings taken on the same server.  Threads    *)
(* and keeper belong to the active server's process; a standby serves no   *)
(* client and its keeper sleeps.                                           *)
(***************************************************************************)
EXTENDS Naturals

CONSTANTS Gtm,           \* the GTM servers: the active one and its synchronous standbys
          First,         \* the server that is active initially
          Thread,        \* worker threads of the active server
          SyncLimit,     \* GTM_SYNC_TIME_LIMIT
          StartupDelta,  \* gtm_startup_gts_delta
          MaxStall,      \* longest stall of a thread between two clock readings of one operation
          MaxSet,        \* how far above the restored value -g may set the start value
          MaxClock,      \* bound: the clock stops here
          MaxCrashes,    \* bound: how many times a server crashes
          WaitForRedo    \* does the operator promote only a standby that has replayed its log?

ASSUME GtmAssumption ==
  /\ First \in Gtm
  /\ SyncLimit \in Nat /\ StartupDelta \in Nat /\ MaxStall \in Nat
  /\ MaxSet \in Nat /\ MaxClock \in Nat /\ MaxCrashes \in Nat
  /\ WaitForRedo \in BOOLEAN

(* The defaults are 60s and 300s, so this allows stalls of up to two minutes. *)
ASSUME DeltaAssumption == SyncLimit + 2 * MaxStall < StartupDelta

VARIABLES
  clock,       \* the monotonic clock
  up,          \* is the server's process running?
  primary,     \* the server that is, or last was, active
  retired,     \* former active servers replaced by a promoted standby
  base,        \* gt_global_timestamp of each server
  lastCycle,   \* gt_last_cycle of each server
  store,       \* m_next_gts in the durable store or flushed log of each server
  redone,      \* has the server replayed the log it flushed?
  lastSync,    \* g_last_sync_gts of the active server, 0 when it never synced
  threadSync,  \* last_sync_gts cached by each thread
  checked,     \* clock reading of a thread's passed check, 0 when it is not in a request
  keeper,      \* where the time keeper is in its loop
  kLast,       \* the keeper's variable last
  acked,       \* servers that flushed the record the keeper waits for
  issued,      \* the highest timestamp ever given to a client
  fresh,       \* has the current process not given a timestamp yet?
  crashes      \* number of crashes so far

vars == <<clock, up, primary, retired, base, lastCycle, store, redone, lastSync,
          threadSync, checked, keeper, kLast, acked, issued, fresh, crashes>>

----------------------------------------------------------------------------
Eligible == Gtm \ retired        \* servers that may serve, now or after a takeover
Standbys == Eligible \ {primary}
Serving == up[primary]

\* The value GetNextGlobalTimestamp computes on server n.
CurrentGts(n) == base[n] + (clock - lastCycle[n])

\* Mutant: the test for "never synced" is forgotten.
StaleIgnoringZero(sync) == clock - sync > SyncLimit

\* CheckGtsHasSyncedToStandby: a time of the last sync that no longer counts.
Stale(sync) == sync = 0 \/ clock - sync > SyncLimit

\* Mutant: the start value leaves out the delta.
RestoredWithoutDelta(n) == store[n]

\* Mutant: the delta is applied with the wrong sign.
RestoredBelow(n) == store[n] - StartupDelta

\* GTM_RestoreStoreInfo, RedoRangeOverwrite: the value a server starts from.
RestoredGts(n) == store[n] + StartupDelta

\* Mutant: one acknowledgement is taken for all of them.
SyncedAnywhere == acked # {}

(* XLogFlush and WaitSyncComplete: the record is durable wherever it has to be.
   required_sync_num is the number of all synchronous standbys, as it is unless
   synchronous_standby_names says ANY n; with ANY n the operator of the cluster must
   promote a standby that has the record. *)
SyncedEverywhere == Eligible \subseteq acked

\* State of a process that has just become active.
FreshProcess ==
  /\ lastSync' = 0
  /\ threadSync' = [w \in Thread |-> 0]
  /\ checked' = [w \in Thread |-> 0]
  /\ keeper' = "idle"
  /\ kLast' = 0
  /\ acked' = {}
  /\ fresh' = TRUE

Init ==
  /\ clock = 1
  /\ up = [n \in Gtm |-> TRUE]
  /\ primary = First
  /\ retired = {}
  /\ store = [n \in Gtm |-> 0]
  /\ base = [n \in Gtm |-> StartupDelta]
  /\ lastCycle = [n \in Gtm |-> 1]
  /\ redone = [n \in Gtm |-> TRUE]
  /\ lastSync = 0
  /\ threadSync = [w \in Thread |-> 0]
  /\ checked = [w \in Thread |-> 0]
  /\ keeper = "idle"
  /\ kLast = 0
  /\ acked = {}
  /\ issued = 0
  /\ fresh = TRUE
  /\ crashes = 0

----------------------------------------------------------------------------
(* Time passes.  No thread stalls longer than MaxStall between the check and
   the issue of one request, nor the keeper between SyncGlobalTimestamp and
   its own reading of the clock. *)
Tick ==
  /\ clock < MaxClock
  /\ \A w \in Thread : checked[w] # 0 => clock < checked[w] + MaxStall
  /\ keeper = "synced" => clock < lastCycle[primary] + MaxStall
  /\ clock' = clock + 1
  /\ UNCHANGED <<up, primary, retired, base, lastCycle, store, redone, lastSync,
                 threadSync, checked, keeper, kLast, acked, issued, fresh, crashes>>

(* ProcessGetGTSCommand up to the check: the thread reads the clock, renews
   its cached time of the last sync when that is too old, and goes on or
   reports an error. *)
Check(w) ==
  /\ Serving
  /\ checked[w] = 0
  /\ LET sync == IF Stale(threadSync[w]) THEN lastSync ELSE threadSync[w]
     IN  /\ threadSync' = [threadSync EXCEPT ![w] = sync]
         /\ checked' = [checked EXCEPT ![w] = IF Stale(sync) THEN 0 ELSE clock]
  /\ UNCHANGED <<clock, up, primary, retired, base, lastCycle, store, redone,
                 lastSync, keeper, kLast, acked, issued, fresh, crashes>>

(* The rest of ProcessGetGTSCommand: GetNextGlobalTimestamp reads the clock
   again and the result is sent to the client. *)
Issue(w) ==
  /\ Serving
  /\ checked[w] # 0
  /\ checked' = [checked EXCEPT ![w] = 0]
  /\ issued' = CurrentGts(primary)
  /\ fresh' = FALSE
  /\ UNCHANGED <<clock, up, primary, retired, base, lastCycle, store, redone,
                 lastSync, threadSync, keeper, kLast, acked, crashes>>

----------------------------------------------------------------------------
(* GTM_ThreadTimeKeeper: SyncGlobalTimestamp moves the base to now. *)
KeeperSync ==
  /\ Serving
  /\ keeper = "idle"
  /\ base' = [base EXCEPT ![primary] = CurrentGts(primary)]
  /\ lastCycle' = [lastCycle EXCEPT ![primary] = clock]
  /\ keeper' = "synced"
  /\ UNCHANGED <<clock, up, primary, retired, store, redone, lastSync, threadSync,
                 checked, kLast, acked, issued, fresh, crashes>>

(* ... then it reads the clock once more. *)
KeeperClock ==
  /\ Serving
  /\ keeper = "synced"
  /\ kLast' = clock
  /\ keeper' = "storing"
  /\ UNCHANGED <<clock, up, primary, retired, base, lastCycle, store, redone, lastSync,
                 threadSync, checked, acked, issued, fresh, crashes>>

(* GTM_StoreGlobalTimestamp logs the header; XLogFlush makes it durable here
   (s = primary), the log receiver of a standby makes it durable there and
   acknowledges it before the standby's redo thread has replayed it. *)
KeeperFlush(s) ==
  /\ Serving
  /\ keeper = "storing"
  /\ s \in Eligible \ acked
  /\ up[s]
  /\ store' = [store EXCEPT ![s] = base[primary]]
  /\ redone' = [redone EXCEPT ![s] = (s = primary)]
  /\ acked' = acked \cup {s}
  /\ UNCHANGED <<clock, up, primary, retired, base, lastCycle, lastSync, threadSync,
                 checked, keeper, kLast, issued, fresh, crashes>>

(* BeforeReplyToClientXLogTrigger returns once the record is flushed locally
   and on the synchronous standbys; only then is the sync time published. *)
KeeperPublish ==
  /\ Serving
  /\ keeper = "storing"
  /\ SyncedEverywhere
  /\ lastSync' = kLast
  /\ keeper' = "idle"
  /\ kLast' = 0
  /\ acked' = {}
  /\ UNCHANGED <<clock, up, primary, retired, base, lastCycle, store, redone,
                 threadSync, checked, issued, fresh, crashes>>

(* RedoRangeOverwrite on a standby: SetNextGlobalTimestamp(m_next_gts + delta). *)
Redo(s) ==
  /\ s \in Standbys
  /\ up[s]
  /\ ~redone[s]
  /\ base' = [base EXCEPT ![s] = RestoredGts(s)]
  /\ lastCycle' = [lastCycle EXCEPT ![s] = clock]
  /\ redone' = [redone EXCEPT ![s] = TRUE]
  /\ UNCHANGED <<clock, up, primary, retired, store, lastSync, threadSync, checked,
                 keeper, kLast, acked, issued, fresh, crashes>>

----------------------------------------------------------------------------
(* A server stops; what it held in memory is lost, requests in progress too. *)
Crash(n) ==
  /\ n \in Eligible
  /\ up[n]
  /\ crashes < MaxCrashes
  /\ crashes' = crashes + 1
  /\ up' = [up EXCEPT ![n] = FALSE]
  /\ IF n = primary
       THEN FreshProcess
       ELSE UNCHANGED <<lastSync, threadSync, checked, keeper, kLast, acked, fresh>>
  /\ UNCHANGED <<clock, primary, retired, base, lastCycle, store, redone, issued>>

(* GTM_XLogRecoveryIfNeed and GTM_RestoreStoreInfo: the server starts with the
   saved value plus the delta, or with the higher value given with -g. *)
Restart(n, set) ==
  /\ n \in Eligible
  /\ ~up[n]
  /\ up' = [up EXCEPT ![n] = TRUE]
  /\ base' = [base EXCEPT ![n] = RestoredGts(n) + set]
  /\ lastCycle' = [lastCycle EXCEPT ![n] = clock]
  /\ redone' = [redone EXCEPT ![n] = TRUE]
  /\ UNCHANGED <<clock, primary, retired, store, lastSync, threadSync, checked,
                 keeper, kLast, acked, issued, fresh, crashes>>

(* PromoteToActive on a standby once the active server is gone for good.  The
   code stops the redo thread at once, replayed or not; waiting for it is up
   to the operator. *)
Promote(s) ==
  /\ ~Serving
  /\ s \in Standbys
  /\ up[s]
  /\ WaitForRedo => redone[s]
  /\ retired' = retired \cup {primary}
  /\ primary' = s
  /\ FreshProcess
  /\ UNCHANGED <<clock, up, base, lastCycle, store, redone, issued, crashes>>

Next ==
  \/ Tick
  \/ \E w \in Thread : Check(w)
  \/ \E w \in Thread : Issue(w)
  \/ KeeperSync
  \/ KeeperClock
  \/ \E s \in Gtm : KeeperFlush(s)
  \/ KeeperPublish
  \/ \E s \in Gtm : Redo(s)
  \/ \E n \in Gtm : Crash(n)
  \/ \E n \in Gtm, set \in 0..MaxSet : Restart(n, set)
  \/ \E s \in Gtm : Promote(s)

Spec == Init /\ [][Next]_vars

----------------------------------------------------------------------------
(* Every variable holds a value of its kind. *)
TypeOK ==
  /\ clock \in Nat \ {0}
  /\ up \in [Gtm -> BOOLEAN]
  /\ primary \in Gtm
  /\ retired \in SUBSET Gtm
  /\ base \in [Gtm -> Nat]
  /\ lastCycle \in [Gtm -> Nat]
  /\ store \in [Gtm -> Nat]
  /\ redone \in [Gtm -> BOOLEAN]
  /\ lastSync \in Nat
  /\ threadSync \in [Thread -> Nat]
  /\ checked \in [Thread -> Nat]
  /\ keeper \in {"idle", "synced", "storing"}
  /\ kLast \in Nat
  /\ acked \in SUBSET Gtm
  /\ issued \in Nat
  /\ fresh \in BOOLEAN
  /\ crashes \in Nat

(* Whichever server takes over, from what it has durably stored it starts
   above every timestamp a client ever received (GTM_RestoreStoreInfo,
   RedoRangeOverwrite against CheckGtsHasSyncedToStandby). *)
NoReissue == \A s \in Eligible : issued < store[s] + StartupDelta

(* The sequence of timestamps given to clients never goes back, and the first
   one of a restarted or promoted server is strictly above all earlier ones
   (GetNextGlobalTimestamp after GTM_RestoreStoreInfo or PromoteToActive). *)
MonotoneIssue ==
  [][/\ issued' >= issued
     /\ fresh /\ ~fresh' => issued' > issued]_vars

(* What GetNextGlobalTimestamp asserts of the timestamps it gives out (the
   error "Issued global timestamp turns around"), stated for the service as a
   whole: a promoted standby is the same service to its clients. *)
NeverTurnsAround == [][issued' >= issued]_vars

(* The active server can answer no request before its own value is durable on
   every server that may replace it: once a check passes, each of them holds a
   record at most SyncLimit plus two stalls behind the clock of the service. *)
CheckedIsDurable ==
  \A w \in Thread : checked[w] # 0 =>
    \A s \in Eligible : CurrentGts(primary) <= store[s] + SyncLimit + 2 * MaxStall
=============================================================================
