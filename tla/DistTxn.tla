------------------------------- MODULE DistTxn -------------------------------
(***************************************************************************)
(* Distributed transactions and the visibility of their effects.           *)
(*                                                                         *)
(* A transaction that wrote on several nodes commits in two phases: every  *)
(* participant marks it prepared in its CSN log with the prepare timestamp,*)
(* then the coordinator takes the commit timestamp from the GTM, then every*)
(* participant marks it committed with that timestamp.  The client may run *)
(* the two phases itself (PREPARE TRANSACTION, COMMIT PREPARED), and a     *)
(* transaction that wrote on one datanode commits there in one phase.      *)
(* A reader takes one start timestamp and decides on each node, from that  *)
(* node's CSN log alone, what it sees; if the writer is prepared and could *)
(* still commit below the start timestamp, the reader waits.               *)
(*                                                                         *)
(* gts is the clock of the GTM.  Two requests may get equal timestamps.    *)
(* LATENCY ASSUMPTION: a timestamp is a microsecond count and travels over *)
(* the network before a node acts on it, so by then the clock has passed   *)
(* it (Passed).                                                            *)
(***************************************************************************)
EXTENDS Naturals, FiniteSets

CONSTANTS Node,        \* datanodes (and coordinators) that hold data
          Txn,         \* writing transactions
          Reader,      \* reading statements, each with one snapshot
          Kind,        \* "implicit" or "explicit" two-phase commit, or "single"
          Part,        \* the nodes each transaction wrote on
          GtsCache,    \* gts_cache_timeout > 0: timestamps other than commit timestamps may be cached
          MaxLead,     \* how far latestGTS + 1 of a coordinator may lead the GTM's clock
          MaxTime,     \* bound on the clock
          MaxCrashes   \* bound on node crashes

ASSUME DistTxnAssumption ==
  /\ Kind \in [Txn -> {"implicit", "explicit", "single"}]
  /\ Part \in [Txn -> SUBSET Node]
  /\ \A t \in Txn : Kind[t] = "single" => \E n \in Node : Part[t] = {n}
  /\ GtsCache \in BOOLEAN
  /\ MaxLead \in Nat /\ MaxTime \in Nat /\ MaxCrashes \in Nat

VARIABLES
  gts,        \* clock of the GTM
  phase,      \* progress of each transaction on its coordinator
  prepTs,     \* global prepare timestamp, 0 when not set
  commitTs,   \* global commit timestamp, 0 when not set
  acked,      \* participants that answered the current round of the coordinator
  reissued,   \* prepared transactions given a second COMMIT or ROLLBACK PREPARED (history)
  status,     \* state of each transaction in the CSN log of each node
  stamp,      \* the timestamp stored with that state
  wal,        \* the last record about the transaction in the node's flushed log
  walTs,      \* the timestamp of a commit record
  maxCommit,  \* maxCommitTs in the shared memory of each node
  start,      \* start timestamp of each reader, 0 before it begins
  past,       \* transactions that had finished when the reader began
  seen,       \* answers each reader got about each transaction
  crashes

vars == <<gts, phase, prepTs, commitTs, acked, reissued, status, stamp, wal, walTs, maxCommit,
          start, past, seen, crashes>>

coordVars == <<phase, prepTs, commitTs, acked, reissued>>
readerVars == <<start, past, seen>>

----------------------------------------------------------------------------
Passed(ts) == gts > ts

\* Mutant: the cache is used although it is turned off.
TimestampsCached == 1..gts

\* GetGlobalTimestampGTMInternal for anything but a commit: the GTM's clock or,
\* with a cache, what the node got from it some time ago.
Timestamps == IF GtsCache THEN 1..gts ELSE {gts}

MaxOf(a, b) == IF a >= b THEN a ELSE b

\* CSNLogSetCSN on node n: CSN_ABORTED, a prepare mark or a commit timestamp.
SetCSN(n, t, s, ts) ==
  /\ status' = [status EXCEPT ![n][t] = s]
  /\ stamp' = [stamp EXCEPT ![n][t] = ts]

\* The phase in which the coordinator waits before it takes the commit timestamp.
LastRound(t) == IF Kind[t] = "explicit" THEN "prefinish" ELSE "preparing"

Init ==
  /\ gts = 1
  /\ phase = [t \in Txn |-> "idle"]
  /\ prepTs = [t \in Txn |-> 0]
  /\ commitTs = [t \in Txn |-> 0]
  /\ acked = [t \in Txn |-> {}]
  /\ reissued = {}
  /\ status = [n \in Node |-> [t \in Txn |-> "inprogress"]]
  /\ stamp = [n \in Node |-> [t \in Txn |-> 0]]
  /\ wal = [n \in Node |-> [t \in Txn |-> "none"]]
  /\ walTs = [n \in Node |-> [t \in Txn |-> 0]]
  /\ maxCommit = [n \in Node |-> 1]
  /\ start = [r \in Reader |-> 0]
  /\ past = [r \in Reader |-> {}]
  /\ seen = [r \in Reader |-> [t \in Txn |-> {}]]
  /\ crashes = 0

Tick ==
  /\ gts < MaxTime
  /\ gts' = gts + 1
  /\ UNCHANGED <<coordVars, status, stamp, wal, walTs, maxCommit, readerVars, crashes>>

(* The transaction gets a transaction id on the nodes it writes on. *)
Begin(t) ==
  /\ phase[t] = "idle"
  /\ phase' = [phase EXCEPT ![t] = "running"]
  /\ UNCHANGED <<gts, prepTs, commitTs, acked, reissued, status, stamp, wal, walTs, maxCommit, readerVars, crashes>>

----------------------------------------------------------------------------
(* Two-phase commit, first phase. *)

(* pgxc_node_remote_prepare: for an implicit commit the prepare timestamp is
   one more than the latest timestamp the coordinator knows (or a timestamp of
   the GTM); an explicit PREPARE TRANSACTION carries none. *)
StartPrepare(t) ==
  /\ phase[t] = "running"
  /\ Kind[t] # "single"
  /\ IF Kind[t] = "implicit"
       THEN \E p \in 1..(gts + MaxLead) : prepTs' = [prepTs EXCEPT ![t] = p]
       ELSE UNCHANGED prepTs
  /\ phase' = [phase EXCEPT ![t] = "preparing"]
  /\ UNCHANGED <<gts, commitTs, acked, reissued, status, stamp, wal, walTs, maxCommit, readerVars, crashes>>

(* PrepareTransaction on a participant up to EndPrepare: the prepare record is
   flushed, the CSN log still says in progress.  Without a prepare timestamp
   this is all, and the participant answers. *)
LogPrepare(n, t) ==
  /\ phase[t] = "preparing"
  /\ n \in Part[t]
  /\ status[n][t] = "inprogress"
  /\ wal[n][t] = "none"
  /\ wal' = [wal EXCEPT ![n][t] = "prepared"]
  /\ acked' = IF prepTs[t] = 0 THEN [acked EXCEPT ![t] = @ \cup {n}] ELSE acked
  /\ UNCHANGED <<gts, phase, prepTs, commitTs, reissued, status, stamp, walTs, maxCommit, readerVars, crashes>>

(* The rest of PrepareTransaction: the mark in the CSN log, then the answer.  A
   session that lost its node to a crash never answers. *)
MarkPrepared(n, t) ==
  /\ phase[t] = "preparing"
  /\ prepTs[t] # 0
  /\ n \in Part[t]
  /\ wal[n][t] = "prepared"
  /\ status[n][t] = "inprogress"
  /\ SetCSN(n, t, "prepared", prepTs[t])
  /\ acked' = [acked EXCEPT ![t] = @ \cup {n}]
  /\ UNCHANGED <<gts, phase, prepTs, commitTs, reissued, wal, walTs, maxCommit, readerVars, crashes>>

(* FinishRemotePreparedTransaction: COMMIT PREPARED and ROLLBACK PREPARED of an
   explicit transaction begin with pgxc_node_remote_prefinish, which takes a
   prepare timestamp and sends it to all participants.  The GTM forgets the
   transaction only after a command succeeded on all of them, so a command that
   failed on some can be followed by another one of either kind.  What an
   earlier command had not yet done on a participant is lost with its session. *)
Prefinish(t) ==
  /\ Kind[t] = "explicit"
  /\ \/ phase[t] = "preparing" /\ acked[t] = Part[t]
     \/ phase[t] \in {"prefinish", "committing"}
     \/ phase[t] = "aborting" /\ prepTs[t] # 0
  /\ \E p \in Timestamps : prepTs' = [prepTs EXCEPT ![t] = p]
  /\ commitTs' = [commitTs EXCEPT ![t] = 0]
  /\ phase' = [phase EXCEPT ![t] = "prefinish"]
  /\ acked' = [acked EXCEPT ![t] = {}]
  /\ reissued' = IF phase[t] \in {"committing", "aborting"} THEN reissued \cup {t} ELSE reissued
  /\ UNCHANGED <<gts, status, stamp, wal, walTs, maxCommit, readerVars, crashes>>

(* EndExplicitGlobalPrepare on a participant: the mark in the CSN log; the
   prepare record in the log is not rewritten.  A participant that an earlier
   command committed or rolled back does not find the transaction (LockGXact)
   and answers with an error, which pgxc_node_remote_prefinish does not look at. *)
PrefinishMark(n, t) ==
  /\ phase[t] = "prefinish"
  /\ n \in Part[t] \ acked[t]
  /\ \/ wal[n][t] = "prepared" /\ SetCSN(n, t, "prepared", prepTs[t])
     \/ wal[n][t] # "prepared" /\ UNCHANGED <<status, stamp>>
  /\ acked' = [acked EXCEPT ![t] = @ \cup {n}]
  /\ UNCHANGED <<gts, phase, prepTs, commitTs, reissued, wal, walTs, maxCommit, readerVars, crashes>>

----------------------------------------------------------------------------
(* Second phase. *)

\* Mutant: the commit timestamp is taken before all participants answered.
GetCommitTsEarly(t) ==
  /\ Kind[t] # "single"
  /\ phase[t] = LastRound(t)
  /\ acked[t] # {}
  /\ Passed(prepTs[t])
  /\ commitTs' = [commitTs EXCEPT ![t] = gts]
  /\ phase' = [phase EXCEPT ![t] = "committing"]
  /\ UNCHANGED <<gts, prepTs, acked, reissued, status, stamp, wal, walTs, maxCommit, readerVars, crashes>>

(* pgxc_node_remote_finish: all participants answered; the commit timestamp
   comes from the GTM. *)
GetCommitTs(t) ==
  /\ Kind[t] # "single"
  /\ phase[t] = LastRound(t)
  /\ acked[t] = Part[t]
  /\ Passed(prepTs[t])
  /\ commitTs' = [commitTs EXCEPT ![t] = gts]
  /\ phase' = [phase EXCEPT ![t] = "committing"]
  /\ UNCHANGED <<gts, prepTs, acked, reissued, status, stamp, wal, walTs, maxCommit, readerVars, crashes>>

(* SetGlobalCommitTimestamp refuses a commit timestamp below the prepare
   timestamp; the error aborts the transaction. *)
CommitTsRejected(t) ==
  /\ Kind[t] = "implicit"
  /\ phase[t] = "preparing"
  /\ acked[t] = Part[t]
  /\ gts < prepTs[t]
  /\ phase' = [phase EXCEPT ![t] = "aborting"]
  /\ UNCHANGED <<gts, prepTs, commitTs, acked, reissued, status, stamp, wal, walTs, maxCommit, readerVars, crashes>>

(* FinishPreparedTransaction on a participant: the commit record is flushed
   with the coordinator's timestamp (RecordTransactionCommitPrepared) ... *)
LogCommit(n, t) ==
  /\ Kind[t] # "single"
  /\ phase[t] = "committing"
  /\ n \in Part[t]
  /\ wal[n][t] = "prepared"
  /\ wal' = [wal EXCEPT ![n][t] = "committed"]
  /\ walTs' = [walTs EXCEPT ![n][t] = commitTs[t]]
  /\ maxCommit' = [maxCommit EXCEPT ![n] = MaxOf(@, commitTs[t])]
  /\ UNCHANGED <<gts, coordVars, status, stamp, readerVars, crashes>>

(* ... then TransactionIdCommitTree writes it to the CSN log and the lock that
   readers wait for is released. *)
MarkCommitted(n, t) ==
  /\ n \in Part[t]
  /\ wal[n][t] = "committed"
  /\ status[n][t] = "prepared"
  /\ SetCSN(n, t, "committed", walTs[n][t])
  /\ UNCHANGED <<gts, coordVars, wal, walTs, maxCommit, readerVars, crashes>>

(* The client learns that the transaction is committed: every participant
   committed at this command.  One that an earlier command committed answers
   "does not exist" instead (LockGXact). *)
Finish(t) ==
  /\ phase[t] = "committing"
  /\ \A n \in Part[t] : status[n][t] = "committed" /\ walTs[n][t] = commitTs[t]
  /\ phase' = [phase EXCEPT ![t] = "done"]
  /\ UNCHANGED <<gts, prepTs, commitTs, acked, reissued, status, stamp, wal, walTs, maxCommit, readerVars, crashes>>

(* An error or a ROLLBACK before the commit timestamp is taken; afterwards
   AbortTransaction leaves the participants alone. *)
Abort(t) ==
  /\ phase[t] \in {"running", "preparing", "marked"}
  /\ phase' = [phase EXCEPT ![t] = "aborting"]
  /\ UNCHANGED <<gts, prepTs, commitTs, acked, reissued, status, stamp, wal, walTs, maxCommit, readerVars, crashes>>

(* ROLLBACK PREPARED of an explicit transaction, once the prefinish round is over. *)
RollbackPrepared(t) ==
  /\ phase[t] = "prefinish"
  /\ acked[t] = Part[t]
  /\ phase' = [phase EXCEPT ![t] = "aborting"]
  /\ UNCHANGED <<gts, prepTs, commitTs, acked, reissued, status, stamp, wal, walTs, maxCommit, readerVars, crashes>>

(* ROLLBACK or ROLLBACK PREPARED on a participant that has not committed. *)
AbortOnNode(n, t) ==
  /\ phase[t] = "aborting"
  /\ n \in Part[t]
  /\ status[n][t] # "aborted"
  /\ wal[n][t] # "committed"
  /\ wal' = [wal EXCEPT ![n][t] = "aborted"]
  /\ SetCSN(n, t, "aborted", 0)
  /\ UNCHANGED <<gts, coordVars, walTs, maxCommit, readerVars, crashes>>

----------------------------------------------------------------------------
(* One-phase commit on a single datanode (RecordTransactionCommit). *)

\* Mutant: the prepare mark is left out.
SingleNoMark(n, t) ==
  /\ Kind[t] = "single"
  /\ phase[t] = "running"
  /\ n \in Part[t]
  /\ status[n][t] = "inprogress"
  /\ prepTs' = [prepTs EXCEPT ![t] = maxCommit[n]]
  /\ phase' = [phase EXCEPT ![t] = "marked"]
  /\ UNCHANGED <<gts, commitTs, acked, reissued, status, stamp, wal, walTs, maxCommit, readerVars, crashes>>

(* It marks itself prepared with maxCommitTs before it asks for a timestamp. *)
SingleMark(n, t) ==
  /\ Kind[t] = "single"
  /\ phase[t] = "running"
  /\ n \in Part[t]
  /\ status[n][t] = "inprogress"
  /\ prepTs' = [prepTs EXCEPT ![t] = maxCommit[n]]
  /\ SetCSN(n, t, "prepared", maxCommit[n])
  /\ phase' = [phase EXCEPT ![t] = "marked"]
  /\ UNCHANGED <<gts, commitTs, acked, reissued, wal, walTs, maxCommit, readerVars, crashes>>

(* CSNLogAssignCSN: the datanode takes the commit timestamp from the GTM. *)
SingleCommitTs(n, t) ==
  /\ Kind[t] = "single"
  /\ phase[t] = "marked"
  /\ n \in Part[t]
  /\ Passed(prepTs[t])
  /\ commitTs' = [commitTs EXCEPT ![t] = gts]
  /\ phase' = [phase EXCEPT ![t] = "stamped"]
  /\ UNCHANGED <<gts, prepTs, acked, reissued, status, stamp, wal, walTs, maxCommit, readerVars, crashes>>

(* SetSharedMaxCommitTs, XactLogCommitRecord and XLogFlush. *)
SingleLog(n, t) ==
  /\ phase[t] = "stamped"
  /\ n \in Part[t]
  /\ maxCommit' = [maxCommit EXCEPT ![n] = MaxOf(@, commitTs[t])]
  /\ wal' = [wal EXCEPT ![n][t] = "committed"]
  /\ walTs' = [walTs EXCEPT ![n][t] = commitTs[t]]
  /\ phase' = [phase EXCEPT ![t] = "committing"]
  /\ UNCHANGED <<gts, prepTs, commitTs, acked, reissued, status, stamp, readerVars, crashes>>

----------------------------------------------------------------------------
(* A node crashes and recovers: redo restores what its log says, prepared
   transactions are marked again with the timestamp of their prepare record
   (RecoverEndGlobalPrepare), anything else is aborted (RecoverCSNLOG).
   maxCommitTs restarts from the last checkpoint and redo of a commit advances
   it (xact_redo_commit); the model lets it restart with any value it had passed. *)
\* Mutant: the prepare record never carries the timestamp.
LoggedPrepTsNever(t) == 0

LoggedPrepTs(t) == IF Kind[t] = "explicit" THEN 0 ELSE prepTs[t]

\* Mutant: RecoverCSNLOG leaves alone what the log does not mention.
RecoveredAsLogged(w) == w

RecoveredStatus(w) == IF w = "none" THEN "aborted" ELSE w

RecoveredStamp(n, t) ==
  CASE wal[n][t] = "prepared" -> LoggedPrepTs(t)
    [] wal[n][t] = "committed" -> walTs[n][t]
    [] OTHER -> 0

CrashRestart(n, m) ==
  /\ crashes < MaxCrashes
  /\ crashes' = crashes + 1
  /\ m <= maxCommit[n]
  /\ maxCommit' = [maxCommit EXCEPT ![n] = m]
  /\ LET hit == {t \in Txn : n \in Part[t] /\ phase[t] # "idle"}
     IN  /\ status' = [status EXCEPT ![n] = [t \in Txn |->
                         IF t \in hit THEN RecoveredStatus(wal[n][t]) ELSE status[n][t]]]
         /\ stamp' = [stamp EXCEPT ![n] = [t \in Txn |->
                         IF t \in hit THEN RecoveredStamp(n, t) ELSE stamp[n][t]]]
         /\ phase' = [t \in Txn |->
                         IF t \in hit /\ Kind[t] = "single" /\ wal[n][t] = "none"
                           THEN "aborting" ELSE phase[t]]
  /\ UNCHANGED <<gts, prepTs, commitTs, acked, reissued, wal, walTs, readerVars>>

----------------------------------------------------------------------------
(* Readers. *)

(* GetGlobalTimestampFromGTM: the snapshot's start timestamp. *)
BeginRead(r) ==
  /\ start[r] = 0
  /\ \E s \in Timestamps : start' = [start EXCEPT ![r] = s]
  /\ past' = [past EXCEPT ![r] = {t \in Txn : phase[t] = "done"}]
  /\ UNCHANGED <<gts, coordVars, status, stamp, wal, walTs, maxCommit, seen, crashes>>

\* IsXidCommitedBeforeCSN on a prepared writer: wait unless the prepare
\* timestamp already rules it out; a mark without timestamp rules it out too.
MustWait(r, n, t) ==
  /\ status[n][t] = "prepared"
  /\ start[r] > stamp[n][t]
  /\ stamp[n][t] # 0

\* IsXidCommitedBeforeCSN otherwise.
Visible(r, n, t) == status[n][t] = "committed" /\ start[r] >= stamp[n][t]

(* One look at a tuple written by t on node n; a reader looks at as many tuples
   as it likes, in any order.  A reader that must wait does not answer yet. *)
Read(r, n, t) ==
  /\ start[r] # 0
  /\ Passed(start[r])
  /\ n \in Part[t]
  /\ ~MustWait(r, n, t)
  /\ seen' = [seen EXCEPT ![r][t] = @ \cup {IF Visible(r, n, t) THEN "yes" ELSE "no"}]
  /\ UNCHANGED <<gts, coordVars, status, stamp, wal, walTs, maxCommit, start, past, crashes>>

----------------------------------------------------------------------------
TxnStep(t) ==
  \/ Begin(t)
  \/ StartPrepare(t)
  \/ Prefinish(t)
  \/ GetCommitTs(t)
  \/ CommitTsRejected(t)
  \/ Finish(t)
  \/ Abort(t)
  \/ RollbackPrepared(t)

NodeStep(n, t) ==
  \/ LogPrepare(n, t)
  \/ MarkPrepared(n, t)
  \/ PrefinishMark(n, t)
  \/ LogCommit(n, t)
  \/ MarkCommitted(n, t)
  \/ AbortOnNode(n, t)
  \/ SingleMark(n, t)
  \/ SingleCommitTs(n, t)
  \/ SingleLog(n, t)

Next ==
  \/ Tick
  \/ \E t \in Txn : TxnStep(t)
  \/ \E n \in Node, t \in Txn : NodeStep(n, t)
  \/ \E n \in Node, m \in 1..MaxTime : CrashRestart(n, m)
  \/ \E r \in Reader : BeginRead(r)
  \/ \E r \in Reader, n \in Node, t \in Txn : Read(r, n, t)

Spec == Init /\ [][Next]_vars

----------------------------------------------------------------------------
(* Every variable holds a value of its kind. *)
TypeOK ==
  /\ gts \in Nat \ {0}
  /\ phase \in [Txn -> {"idle", "running", "preparing", "prefinish", "marked", "stamped",
                        "committing", "done", "aborting"}]
  /\ prepTs \in [Txn -> Nat]
  /\ commitTs \in [Txn -> Nat]
  /\ acked \in [Txn -> SUBSET Node]
  /\ reissued \subseteq Txn
  /\ status \in [Node -> [Txn -> {"inprogress", "prepared", "committed", "aborted"}]]
  /\ stamp \in [Node -> [Txn -> Nat]]
  /\ wal \in [Node -> [Txn -> {"none", "prepared", "committed", "aborted"}]]
  /\ walTs \in [Node -> [Txn -> Nat]]
  /\ maxCommit \in [Node -> Nat]
  /\ start \in [Reader -> Nat]
  /\ past \in [Reader -> SUBSET Txn]
  /\ seen \in [Reader -> [Txn -> SUBSET {"yes", "no"}]]
  /\ crashes \in Nat

(* Atomic visibility and stable snapshots: a reader gets the same answer about
   a transaction on every participant and every time it looks
   (IsXidCommitedBeforeCSN against the order of prepare mark and commit
   timestamp), unless a prepared transaction needed a second COMMIT or ROLLBACK
   PREPARED. *)
SnapshotConsistent == \A r \in Reader, t \in Txn \ reissued : seen[r][t] # {"yes", "no"}

(* A transaction whose client was told of the commit before the reader began
   is visible to that reader, on every participant. *)
ReadsThePast == \A r \in Reader : \A t \in past[r] : "no" \notin seen[r][t]

(* No transaction is committed on one participant and aborted on another,
   through any crash of a participant (RecoverPreparedTransactions,
   RecoverCSNLOG), with the same exception. *)
Agreement ==
  \A t \in Txn \ reissued : \A m, n \in Part[t] :
    ~(status[m][t] = "committed" /\ status[n][t] = "aborted")

(* The comment on the prepare mark: "guaranteeing that if start timestamp is
   larger than prepare ts, then it can see the committing status to wait for
   completion" (PrepareTransaction). *)
ReaderWaits ==
  \A r \in Reader, t \in Txn \ reissued : \A n \in Part[t] :
    commitTs[t] # 0 /\ status[n][t] = "prepared" /\ start[r] > prepTs[t] => MustWait(r, n, t)

(* "any global transactions in the cluster must either be committed on all the
   nodes or none of the nodes" (wal.sgml), of the outcomes in the flushed logs. *)
AllOrNone ==
  \A t \in Txn : \A m, n \in Part[t] : ~(wal[m][t] = "committed" /\ wal[n][t] = "aborted")

(* "we need commit them in unified timestamp" (FinishRemotePreparedTransaction):
   the participants that committed a transaction did so with one timestamp. *)
UnifiedTimestamp ==
  \A t \in Txn : \A m, n \in Part[t] :
    wal[m][t] = "committed" /\ wal[n][t] = "committed" => walTs[m][t] = walTs[n][t]

(* "T2 can see T1's modification only if T2.start > T1.commit" (the rule stated
   in IsXidCommitedBeforeCSN). *)
SeesOnlyEarlier ==
  \A r \in Reader, t \in Txn : "yes" \in seen[r][t] => start[r] > commitTs[t]
==============================================================================
