# TLA+ models of OpenTenBase

OpenTenBase is a distributed database built on PostgreSQL: clients talk to coordinators, the
data lives on datanodes, and a Global Transaction Manager (GTM) hands out the timestamps that
order transactions. This project models the part of the program on which everything else
relies and that a test hardly reaches: the timestamp service with its lock and its failover, the
sequences of the GTM, the distributed commit with the visibility rule built on it, the recovery of
in-doubt transactions, and the pausing of a cluster.

Source paths below are relative to the repository; `PROJECT.json` maps every definition to
lines.

## 1. Inventory

| Component | State | Operations | Interacts with | What is hard | What makes it correct |
|---|---|---|---|---|---|
| GTM timestamp service (`src/gtm/main/gtm_txn.c`, `main.c`, `gtm_store.c`, `gtm_xlog.c`) | base value and clock reading, durable value, time of the last sync, a cached copy of it per thread | GetGTS, time keeper loop, store, redo, restart, promote | every node asks it; synchronous standbys receive its log | crash or promotion between store and publication; stale caches; replay behind flush | timestamps never go back, also across a takeover |
| Distributed commit and visibility (`execRemote.c`, `xact.c`, `twophase.c`, `csnlog.c`, `tqual.c`, `procarray.c`) | CSN log entry of each transaction on each node, prepare and commit timestamps, the log, `maxCommitTs` | prepare, prefinish, commit, one-phase commit, abort, recover, take a snapshot, test visibility | GTM, coordinator and datanodes by messages; readers share the CSN log | a reader meets a writer in another phase on each node; a crash in between | a snapshot sees all of a transaction or nothing, and everything finished before it |
| Recovery of in-doubt transactions (`contrib/pg_clean/pg_clean.c`, `postmaster/clean2pc.c`, `twophase.c`) | 2pc files, prepared transactions and who holds them, what a pass of pg_clean has read | list, read files, look up, judge, check, finish; the launcher's loop | runs against live sessions and late commands on all nodes | everything pg_clean read may be old when it acts; every query can fail | one outcome on all nodes, the one the client was told, and no transaction left prepared |
| CSN log pages and subtransactions (`csnlog.c`, `lru.c`) | pages, parents of subtransactions | set a tree of CSNs page by page, truncate, recover | readers, checkpoints | a tree is set in several steps; pages reach the disk before the crash | a tree becomes visible at once |
| GTM timestamp lock (`gtm_txn.c`) | one spin lock per thread slot | write lock takes all, read lock its own | the time keeper and worker threads | readers and the writer interleave | base and clock reading are read together |
| GTM store and log (`gtm_store.c`, `gtm_xlog.c`, `gtm_standby.c`) | mapped store, segments, checkpoints | insert, flush, send, redo, switch segment | standbys | partial writes, segment switches | redo restores what was acknowledged |
| GTM sequences (`gtm_seq.c`) | sequence values, reserved ranges | nextval with ranges, setval, rollback of DDL | store and log | values given out before they are stored | no value twice |
| GTM resource queues and locks (`gtm_resqueue.c`, `gtm_fid.c`, `gtm_lock.c`) | queues, fids | acquire, release, clean up | sessions | a session dies while it waits | no slot is lost |
| GTM proxy and client protocol | connections | forward, encode | all | none that is its own | not modelled |
| Connection pooler (`pgxc/pool/poolmgr.c`) | pools of slots per user and node, agents, sync and async requests | acquire, release, grow, shrink, refresh | sessions, node catalogue | node changes race with connections in use, limits | no connection belongs to two sessions, sizes are right |
| Cluster pause and barriers (`pgxc/cluster/pause.c`, `pgxc/barrier/barrier.c`) | cluster lock, barrier lock on each coordinator | pause, unpause, barrier in three rounds | all coordinators | one coordinator fails half-way | no commit crosses a barrier; a failed pause is undone |
| Sharding (`pgxc/shard`, `pgxc/locator`) | shard map, its copy in shared memory | move shards, refresh, lock shards | executor, vacuum | a statement planned with the old map | rows go where the map says |
| Planner, executor, inherited PostgreSQL | | | | data dependent | not modelled |

The hazards found in this code, each with its line and the properties that watch it, are in
`PROJECT.json`.

## 2. Modules

### GtmTimestamp: the timestamp service

One active server and its synchronous standbys. `base` and `lastCycle` are
`gt_global_timestamp` and `gt_last_cycle`, `store` is `m_next_gts` in the durable store or
flushed log, `lastSync` is `g_last_sync_gts` and `threadSync` a thread's cached copy.

* A request is two steps, because it reads the clock twice: `Check`
  (CheckGtsHasSyncedToStandby) and `Issue` (GetNextGlobalTimestamp and the answer).
* The keeper's loop is `KeeperSync`, `KeeperClock`, one `KeeperFlush` per server that has to
  hold the record, and `KeeperPublish`.
* `Redo` replays the record on a standby, `Crash`, `Restart` and `Promote` are what failover
  consists of. A restarted server adds `gtm_startup_gts_delta`.

Abstractions: one clock stands for all monotonic clocks, as the code only subtracts readings of
the same server. What the code does under its per-thread lock is one step; `GtsLock` shows why that is right. A stall of a thread
between its two readings is at most `MaxStall`; `DeltaAssumption` says that the delta covers
`GTM_SYNC_TIME_LIMIT` and two stalls (the defaults are 60 s and 300 s, so two minutes each).
`WaitForRedo` says whether the operator promotes only a standby that has replayed its log.
The keeper waits for all synchronous standbys (`SyncedEverywhere`). The code waits for
`required_sync_num` of them (`gtm_xlog.c` 265-399, 4365-4396); configured with fewer than all,
a standby without the record may be promoted, and neither the run nor the theorems speak about
that.

### DistTxn: commit and visibility

Transactions of three kinds: `implicit` (the coordinator runs both phases), `explicit`
(PREPARE TRANSACTION, COMMIT PREPARED with its prefinish round) and `single` (one datanode,
one phase). `status` and `stamp` are the CSN log of each node, `wal` the last flushed record
about the transaction there, and `walTs` its timestamp. Readers take `start` from the GTM and ask each node
(`MustWait`, `Visible`: IsXidCommitedBeforeCSN). Log and CSN log are written in separate steps,
between which readers and crashes may come. `CrashRestart` is a crash with the recovery that
follows; no reader runs in between. `maxCommitTs` restarts with any value it had passed, which
allows more than redo does.

A prepared transaction may get more than one command. When COMMIT PREPARED or ROLLBACK PREPARED
failed on some nodes, the GTM still knows the gid and the client may issue another one of either
kind: `Prefinish` is enabled again, takes a new prepare timestamp, and `GetCommitTs` a new commit
timestamp or `RollbackPrepared` the way back. `reissued` records transactions given a second
command after the first had been decided; the properties that such a transaction breaks exclude
it, and section 3 says how it breaks them. Commands of the
first attempt that had not run are lost with its session, the coordinator's own part is
finished last, and a participant that no longer has the transaction answers with an error, which
`pgxc_node_remote_prefinish` does not look at (`PrefinishMark`). The model assumes that one
that still has it does not answer the prefinish round with an error.

`GtsCache` is `gts_cache_timeout` > 0 (default 0): all timestamps but those of a commit may then be
ones the node got earlier (`Timestamps`).

`LATENCY ASSUMPTION`: a timestamp counts microseconds and crosses the network before a node acts
on it, so the GTM's clock has then passed it (`Passed`). Without it the code accepts a commit
timestamp equal to the prepare timestamp, and a reader with the same start timestamp would not
have waited. With `enable_2pc_gts_optimize` the prepare timestamp is the coordinator's latest
timestamp plus one; it may lead the GTM by `MaxLead`, and a commit timestamp below it is
refused.

`MCDistTxn` gives the kinds and participants for the runs; `MCDistTxnBoth` checks two instances in
one run.

### TwoPhaseClean: in-doubt transactions

One implicit transaction on some datanodes and, if `local`, on the start node too. The session
runs the commit step by step and can fail wherever the code can; before the commit timestamp is
logged it rolls back, afterwards it leaves the transaction alone. A command already sent may
run after the session is gone, and may never have reached a node. `file` is the 2pc file: absent, with the
participants, or with the commit timestamp.

pg_clean runs at the same time, one action per query it sends: `CleanList`, `CleanOrigFile`,
`CleanOtherFile`, `CleanReread`, `CleanFirstPhase`, `CleanLookup`, then `CleanJudge`
(check_txn_global_status), `CleanRunning` and the two `CleanCheck` (recovery_a_txn), and the
commands to the datanodes and last to the start node. What it learnt is kept in variables of
its own and may be old. Nodes crash (`CrashDn`, `CrashCoord`), commands are not delivered
(`CleanUnsent`), and pg_clean itself fails between two queries (`CleanFail`).

`Prompt` says that a session is over within `clean_time_interval` of its prepare, the protection
the code relies on; `CancelSync` that a user may cancel the wait for the standby of the start
node. A node that crashes restarts at once. A gid is used once. When pg_clean cannot send a
command to one node (`pg_clean.c` 4766), those already sent to others are not awaited and may run
after the pass; `CleanUnsent` ends them within it, which the verdict of the pass allows either way.

`AtomicCommit` is what all this promises: one decision, taken for commit only while every
participant is prepared and never taken back, and participants that end once, as decided.
`TwoPhaseClean` implements it with the flush of the commit timestamp as the decision
(`ImplementsAtomicCommit`), so between the flush and the append to the 2pc file the outcome is
already fixed, although no file says so.

### GtsLock: the lock around the timestamp

`gt_in_locking` is an array of spin locks, one per thread. A reader takes its own, a writer takes
all from the first to the last and gives them back in the same order; the locks have no owner.
Every compare and swap and every access to `gt_global_timestamp`, `gt_last_cycle` and
`gt_last_issue_timestamp` is a step of its own, and every thread may run each of the three
operations: get, sync and set. `debug` is `enable_gtm_debug`, with which a get is a writer and
checks that timestamps do not go back.

`TimestampCell` is what the lock promises: reading the clock and adding the offset in force is one
step, and only a set changes the offset. `GtsLock` implements it (`ImplementsCell`); a get or
sync takes effect when it reads the clock. `GtmTimestamp` uses the cell as its atomic steps.

### GtmSequence: sequences of the GTM

One sequence. `mem` is its `GTM_SeqInfo`, from which nextval answers, `store` its
`GTM_StoredSeqInfo`, whose copies go to the `log`. A sequence with a wide range is reserved: the
image runs `SEQ_RESERVE_COUNT` values ahead, and `left` counts how many of them are left. A
request finds the sequence or loads it (`Find`, `Form`), works under `gs_lock` in one step
(`Open`, `GetNext`, `SetVal`, `Alter`), and then inserts, flushes and replies in steps of their
own, because `gs_lock` is released before (`Insert`, `Flush`, `Reply`). `Crash` forgets the
memory and keeps the log up to some record at or after the last flushed one. `era` is history:
values may repeat after CREATE, setval, RESTART or a wrap-around, and only then.

Abstractions: the range arithmetic does not overflow (the code multiplies the increment by 5000
in 64 bits). The relation lock of CREATE and ALTER SEQUENCE on the coordinator keeps other uses
away; nextval and setval overlap. ALTER keeps the direction and does not narrow the bounds:
reversing the increment leaves the stored image on the wrong side of the memory, and lowering
MAXVALUE below the reserved position makes the image forget what was given out, so `StoreAhead`
does not hold for such a change until the next reservation. START WITH and RESTART WITH a value
other than the first one are not parameters of `Open` and `Alter`; a setval that follows reaches
the same values. In the model a write through a store handle that is not yet set is dropped; in
the code the handle is then 0 and the write goes to the image of another sequence, which a model
of one sequence cannot show. setval leaves `gs_called` of the
image as it is (`GTM_StoreSetSeqValue`).

### ClusterPause: PAUSE CLUSTER

Every coordinator has a lock: `count` is `cl_process_count`, `holder` is `cl_holder_pid`, and each
backend remembers what it holds in `held` and `exHeld`. A session has a backend on every
coordinator; the local one serves the client, sends statements to the others (`inbox`) and
collects their answers (`reply`). PAUSE is `StartPause`, `Release`, `Acquire` and `Collect`; when
a coordinator fails, `Catch`, `UndoRelease` and `UndoAcquire` undo it.

`Cancel` interrupts any backend where it looks for interrupts: before it has done anything, in
AcquireClusterLock (`Waits`), or while it waits for the others. Of these only the last is inside
the PG_TRY of `pause.c` 166. For a remote backend it also stands for the cancel request that the
abort of its session sends. `Die` is SIGTERM at the same places and in an idle session that has the
cluster paused; `Exit` is the exit handler, also of a client that leaves. A client may keep its
shared lock beyond a statement, in a transaction block (`End`); not so one that runs DDL. A message to a coordinator that cannot be
sent is not modelled; the comment in `pause.c` 155-163 says what happens to a PAUSE then.

A failed PAUSE or UNPAUSE is part of the model, and what the properties say of it is limited by
the code: an error between releasing the shared lock and acquiring the exclusive one leaves
`cluster_lock_held` set without a count, and a failed UNPAUSE takes the lock exclusively with
`cluster_ex_lock_held` unset, after which nobody can unpause (`pause.c` 242-244). `failed` records
such errors by the kind of statement, and `initiator` for one between its messages and the PG_TRY;
the properties name which of them they exclude. After an error a session keeps
the shared lock while it is idle, though the comment in `postgres.c` 8844 says "If the connection
is going idle, release the cluster lock"; a PAUSE then waits until that session runs another
statement or ends (`Lingers`).

### Proofs

`GtmTimestampProofs`, `DistTxnProofs`, `GtsLockProofs`, `TwoPhaseCleanProofs`,
`ClusterPauseProofs` and `GtmSequenceProofs` extend the modules above; see section 4.

## 3. Runs

| Run | Expected | What it shows |
|---|---|---|
| `gtm_timestamp` | pass | No timestamp is given twice or goes back, through two crashes with restart or promotion; a request that passed its check is covered by a durable value on every possible successor. |
| `gtm_promote_early` | violation | With promotion before replay, the service goes back. |
| `dist_txn` | pass | An implicit and a single-node transaction, a reader and a crash, or an explicit transaction with repeated commands instead of the implicit one and no crash: atomic visibility, reads of the past, agreement, readers find the mark they have to wait for. |
| `equal_timestamps` | violation | A reader sees a transaction whose commit timestamp equals its own start. |
| `prefinish_lost` | violation | With a crash, an explicit transaction loses the prepare timestamp readers need. |
| `clean_2pc` | pass | Two crashes and a failure of pg_clean: one decision, carried out everywhere and as told (`AtomicCommit`), evidence of a commit never lost too early, nothing stays prepared. |
| `clean_sync_cancel` | violation | A cancelled wait for the standby leaves log and 2pc file in disagreement; outcomes can mix. |
| `gts_lock` | pass | Get, sync and set implement an atomic cell, every locked slot has one owner, nothing fails, and operations come to an end. |
| `gtm_sequence` | pass | Concurrent requests get distinct, ascending values within the bounds, and so do requests after crashes, as long as none overlapped before; the stored image stays ahead. |
| `seq_race` | violation | When overlapping requests come before a crash, a value is handed out twice. |
| `cluster_pause` | pass | With one session that may pause, nobody else works in a paused cluster, the count is right, the holder of a lock knows of it, PAUSE returns, and no coordinator stays paused by nobody unless an UNPAUSE, or the initiator outside of its PG_TRY, failed. |
| `pause_ddl` | violation | PAUSE and DDL from another coordinator wait for each other. |

### Bounds

* `gtm_timestamp`: two servers, one thread, limit 1, stall 1, delta 4, the smallest values
  `DeltaAssumption` allows, clock to 5, two crashes. The clock passes the limit more than once, so
  stale caches, a sync, a takeover and requests after it all occur in one behaviour; two crashes
  allow a restart and a promotion. `gtm_promote_early` needs a longer clock (9) to fall behind
  and one crash only. One thread suffices for the invariants, since threads only share what the
  keeper publishes; the theorems cover any number.
* `dist_txn`, `equal_timestamps`, `prefinish_lost`: two nodes, a transaction on both and one on one of them, one reader, clock to 4,
  one crash. Two participants are the fewest on which visibility can differ. Time 4 leaves room
  for begin, prepare, commit and read with equal and with different timestamps. Readers do not
  affect each other. CHECK_DEADLOCK is off, because a run ends when the clock stops and all
  transactions are finished.
* `clean_2pc`: three datanodes and a start node with or without local writes, two crashes, one
  failure. With three datanodes one can be finished, one prepared and one not reached; two crashes
  and a failure let a pass that fails be followed by one that is interrupted. Deadlock is
  checked: pg_clean always starts another pass.
* `gts_lock`: three threads, three operations, two start values and a clock that goes to 2. Two
  writers and a reader between their slots need three threads and three operations. Deadlock is
  not checked, because the run stops when its operations are used up.
* `gtm_sequence`: two threads, four requests, two crashes; four sequences: ascending and
  reserved, with increment 2, ordered (never reserved), and descending with CYCLE; requests for one
  and for three values; threads are symmetric.
  `Reserve` and `MinGap` are 2 (5000 and 10 in the code), so that four requests use up a
  reservation, cross the limit and wrap around. A crash comes only in histories in which no two
  requests overlapped (`Overlap`); overlapping ones are checked without a crash, and `seq_race`
  shows why.
* `cluster_pause`: three coordinators, two sessions at the first, of which one may pause, and one
  at the second; three statements and one interrupt (a cancellation or termination). Three
  coordinators are the fewest on which one obeys and one fails; the second session of the first
  coordinator shares its count with the initiator. Three statements are a PAUSE, one it has to
  wait for and one that follows, with one failure anywhere. The safety properties also hold with
  four statements and two interrupts, 1.2 million states. `pause_ddl` needs two statements only.
  Deadlock is not checked, because clients may stop.

### Fairness

`TwoPhaseClean`: weak fairness of the session, which has timeouts and error paths and ends in a
success, a rollback or an interruption; of each datanode, whose backends run the command they
received; and of pg_clean's steps, because the launcher in `clean2pc.c` starts a worker every
`auto_clean_2pc_interval` seconds. Crashes, lost commands and failures of pg_clean are not fair,
only bounded. Under these `Resolved` holds: no participant stays prepared.

`GtsLock`: weak fairness of each thread that has begun an operation: the threads are scheduled by
the operating system and spin. It is enough, since the bound on operations ends the competition
for a slot; a compare and swap does not promise more.

`ClusterPause`: weak fairness of each backend's own steps: the waiting loops poll every 100 ms,
and statements come to an end. Clients are not fair, so a client need not unpause, end its transaction
block, go on after an error or leave; `PauseReturns` therefore excepts sessions that keep the shared
lock (`Lingers`).

### Findings

* `gtm_promote_early`: PromoteToActive lets the redo thread stop at once, though the
  record it has not replayed was acknowledged to the old master. An operator who promotes after
  replay avoids it.
* `prefinish_lost`: the prepare timestamp of COMMIT PREPARED is not logged; after a restart the
  participant's mark has none and readers no longer wait.
* `clean_sync_cancel`: the commit timestamp reaches the log but not the 2pc file. pg_clean rolls
  back first, and commits the rest after a restart of the start node.
* `seq_race`: the image of a sequence is copied under `gs_lock` and logged after its release. The
  records of two requests can enter the log in the wrong order, or one is lost in a crash whose
  value was counted on by another that had nothing to log.
* `pause_ddl`: the initiator of PAUSE blocks its own coordinator before the others have agreed.
* `equal_timestamps`: the comment in `tqual.c` 3220 demands a start timestamp greater than the commit
  timestamp; the code tests "greater or equal". Of the two the code's rule is the one
  `ReadsThePast` needs, as the GTM may give both the same timestamp.

### What the conditions exclude

Some properties have a condition or an exception. For each, a cfg beside the runs lifts it, and TLC
then finds the property violated within a minute. They are no runs of `PROJECT.json`.

* `ExplicitRollback.cfg` (`MCDistTxn`, AllOrNone): COMMIT PREPARED raises an error after some nodes have
  committed (`execRemote.c` 8805), and nothing keeps the client from ROLLBACK PREPARED of the same gid
  (`utility.c` 767-778). The rest is rolled back, though `wal.sgml` 818 says that a global transaction is
  "committed on all the nodes or none of the nodes".
* `ExplicitRetry.cfg` (`MCDistTxn`, UnifiedTimestamp): a COMMIT PREPARED issued again takes new timestamps
  (`execRemote.c` 8159, 8526); the nodes that have committed keep the old ones, so a reader between
  the two sees half. The comment in `execRemote.c` 8402 says "we need commit them in unified
  timestamp".
* `GtsCacheStale.cfg` (`MCDistTxn`, ReadsThePast with `GtsCache`): a cached start timestamp
  (`gtm.c` 1898) may be older than a commit that was already answered on another node.
* `CleanSlowSession.cfg` (`TwoPhaseClean`, Agreement without `Prompt`): pg_clean's test for a live session
  (`pg_clean.c` 5408) does not recognise one that goes on under a new transaction id, and the 2pc file is not
  read again after the test. The session commits, pg_clean rolls back.
* `PauseCancel.cfg` (`MCClusterPause`, NoDanglingHolder): the initiator waits for its own coordinator
  (`pause.c` 144) after it sent PAUSE and before its PG_TRY. Canceled or terminated there it sends no
  UNPAUSE, neither then nor at exit, and the others stay paused by backends nobody commands, though
  the exit handler's comment says "We do not want a dangling value in cl_holder_pid!" (`pause.c` 323).
* `PauseTwice.cfg` (`MCClusterPause`, Exclusion with two sessions that pause): when a session that paused
  the cluster is terminated, the signal handler `die` (`postgres.c` 4875-4878) releases the exclusive
  lock and leaves `cluster_ex_lock_held` set, so that PGXCCleanClusterLock (`pause.c` 324) releases it
  once more at exit, and ReleaseClusterLock does not ask whose lock it is.

One more observation has neither: `GTM_FormSeqOfStore` publishes a sequence before its store handle
is set and its values are reserved, so that another request may use it in between. To show what goes
wrong takes that overlap and another crash: `gtm_sequence` lets no crash follow an overlap, and with one
TLC reports the shorter race of `seq_race` first.

## 4. Theorems

All theorems hold for every value of the constants that satisfies the assumptions, so for any number of servers, threads,
nodes, transactions, readers, crashes and any length of time.

**GtmTimestampProofs.** `TypeCorrect`, and if standbys are promoted only after replay
(`WaitForRedo`) `Takeover` (NoReissue), `Durable` (CheckedIsDurable) and `Monotone`
(MonotoneIssue). `NoReissue` is not inductive. `GtmInv` adds `ClocksPast`, and under `Bounds`:
`Roles` (who may serve, and that a replayed standby is ahead by the delta), `Idle` (a dead
process leaves nothing), and a chain of bounds: a published sync time is at most one stall
after the durable value (`SyncBound`), a passed check at most the limit after a sync time
(`CheckBound`), the keeper between its steps keeps both (`KeeperBound`), and the issued value
stays below the active server's (`IssuedBound`). The delta is larger than the sum of the links.

**DistTxnProofs.** `TypeCorrect`; `Outcome` (Agreement), for all kinds and crashes; as long
as marks survive crashes (`MarksSurvive`: no crashes, or no explicit transaction),
`Consistent` (SnapshotConsistent) and `Waits` (ReaderWaits); and without `GtsCache`, `Past`
(ReadsThePast). The first three speak of transactions that are not in `reissued`: commands may be
repeated, but no second one follows a decision. `ExplicitRollback.cfg` and `ExplicitRetry.cfg` show that
the exception is needed. `Past` has no such exception and no condition on crashes: its invariants
are `Finished` (what the client was told is committed everywhere, with one timestamp that the clock
has reached) and `Told` (a reader that began later has at least that timestamp).
`Core` ties what participants hold to the coordinator's phase: `Phases`, `Participants`,
`Answers`, `OnePhase`; it implies `Agreement`. `Visibility` adds the timestamps: `Stamps` (marks
carry the prepare timestamp, the commit timestamp is above it), `Readers`, `Granted` (a reader
who saw the transaction began at or after its commit timestamp) and `Refused` (one who did not
began before the commit timestamp, taken or not yet taken). `Granted` and `Refused` exclude each
other, which is `SnapshotConsistent`. `prefinish_lost` shows that `MarksSurvive` is needed, and
`GtsCacheStale.cfg` that `Past` needs its condition.

**GtsLockProofs.** `LockTypes` (TypeOK), `LockOwned` (SlotsOwned), `LockNoFailure` (NoFailure) and
`LockImplementsCell` (ImplementsCell: initial states are initial states of the cell and every
step is a step of it or a stutter), for any number of threads. Mutual exclusion follows from
`SlotsOwned`: a writer inside holds every slot. That is not inductive without the values, as
`NoFailure` depends on them: `LockInv` adds `Phases` (which steps an operation can be at) and
`Values` (outside of a write the base differs from the last cycle by `offset`, a writer half-way
through has written its part, readings are not ahead of the clock, and the last issued value is
not above what the clock gives).

**TwoPhaseCleanProofs.** `CleanTypes` (TypeOK) without conditions. Under `Prompt` and without
`CancelSync`: `CleanAgreement` (Agreement), `CleanOutcome` (OutcomeAsTold), `CleanEvidence`
(EvidenceKept), `CleanCommittedIndeed` (CommittedIndeed) and `CleanImplementsAtomicCommit`
(ImplementsAtomicCommit), for any datanodes, crashes, lost commands and failed passes of
pg_clean. `clean_sync_cancel` shows that the second condition is needed and `CleanSlowSession.cfg` the first. None of these
properties is inductive, because each verdict of pg_clean rests on answers that are old when it
acts. `CleanInv` therefore has, besides the types, `SessionInv` (what the session has learned and
what is still on its way), `DecisionInv` (the flushed commit timestamp is the decision: nobody
commits without it, nobody rolls back after it), `EvidenceInv` (the 2pc file of the start node
shows the decision as long as somebody may need it), `LockInv` (who holds a prepared
transaction) and `PassInv`, the core: for every step of a pass, what pg_clean has read so far
remains a ground for its verdict, whatever the nodes do in between. The refinement maps every
step to a decision, to the end of one participant or to a stutter.

**ClusterPauseProofs.** For finitely many sessions and any coordinators, statements and
interrupts: `PauseTypes` (TypeOK, with the bound of the count, whatever fails), `PauseCount`
(CountExact), `PauseHolder` (HolderKnows), and if one session alone pauses (`OnePauser`)
`PauseExclusion` (Exclusion). `PauseTwice.cfg` shows that the last condition is needed. `PauseInv` has the types, `FlagsInv` (what the flags of a backend say at each
of its steps), `CountInv` (the count is at most the number of backends that share the lock, and
equal if nothing failed), `ZeroInv` (no count while somebody holds the lock), `HolderInv`,
`PauserInv` and `ProtocolInv`: a remote backend works on at most the one statement its session
waits for, or on the UNPAUSE of a client that left, and holds its lock exclusively when its
session believes so. `HoldsInv`, under `OnePauser`, says that a backend that believes to hold the
lock does. Exclusion follows: each coordinator of a paused cluster has a holder, so its count is
zero, so nobody shares its lock, and a busy backend of another session would.

**GtmSequenceProofs.** `SeqTypes` (TypeOK) and `SeqInRange` (InRange) without conditions, so for
requests that overlap and crashes at any time; `SeqStoreAhead` (StoreAhead) under `Gentle`;
`SeqNoDuplicate` (NoDuplicate) and `SeqAscends` (Ascends) under `Gentle` and without `Overlap`.
The latter condition says that no crash follows requests that overlapped; they may overlap as long
as there is none, and `seq_race` shows that it is needed. `Gentle` says that the increment of a
CYCLE sequence is at most `MinGap` (`SEQ_RESERVE_MIN_GAP`) in size; sequences without CYCLE are not
restricted. A reserved range has more than `Reserve * MinGap` values, so that under `Gentle` a reservation
passes at most once through it. Beyond that, GTM_StoreReserveSeqValueIntern
(`gtm_store.c` 2226-2272), which wraps around once, may leave the image beyond the limit, with an
era that no longer counts the laps the memory may make (increment 5 in 1..5 with CYCLE and a
reservation of two values); then "the same value in the same lap" stops being meaningful, and the
proof and the run leave such sequences out.

None of the properties is inductive. `SequenceInv` has the types, `FlowInv` (the steps of the
threads fit the copies of the sequence), `OptionsInv` (both copies have the same options),
`PlacedInv` (where the value of a copy may be), `EpochInv`, and the three that carry the argument:
`AheadInv` (the image is ahead of the memory by all the values the memory has left, laps
counted), `AnswerInv` with `CalledInv` (all answers lie behind the memory, and those under way are
new) and `LogInv` (without overlap, every image that a crash may find has passed the answers). A
nextval answers values beyond the memory, hence new ones; a crash replaces the memory by an
image of the log, which `LogInv` keeps beyond the answers. `Ahead` is a recursive function; that
it keeps what one reservation keeps is an induction over a set of numbers, from the
well-foundedness of `<` (`Induction`, `AheadKeeps`).

**Only model-checked.** `Resolved`, `Drains`, `PauseReturns` and `NoStrayPause`, as liveness
under fairness is out of the prover's reach.

## 5. Not modelled

Explicit and read-only transactions in `TwoPhaseClean`, pg_clean's variants for removed nodes and
for deadlocks, the 2pc cache in shared memory (it is the file, for a reader); subtransactions;
pages of the CSN log written before a crash; several concurrent gids in one pass of pg_clean,
which handles them one after the other. The planner, the executor and code inherited from PostgreSQL are data
dependent or third party.

Of sequences: DROP, rename, the copies of CREATE DATABASE, and checkpoints of the store. Of the
pause: crashes of backends and coordinators (a remote backend that dies leaves its pid in
`cl_holder_pid`), failures to send, transaction blocks with DDL, and interrupts that arrive between
two steps and are served later than at the places `Cancel` and `Die` name. Two sessions that pause at
the same time from different coordinators block each other; no run has them. CREATE BARRIER: only `pgxc_node_remote_commit` takes the barrier lock in shared
mode (`execRemote.c` 4943) and only while it sends; the commit phase of two-phase commit
(`pgxc_node_remote_finish`) takes none, so that the exclusion described in `wal.sgml` 848-855 has
no counterpart in the code that a model could check.

## 6. Plan

1. Components not modelled yet: `CsnLog` (setting a tree of transactions page by page, recovery of
   pages), `Pooler` (acquire, release, refresh and the limits), resource queues, shard map.
