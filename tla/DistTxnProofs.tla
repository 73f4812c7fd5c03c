---------------------------- MODULE DistTxnProofs ----------------------------
(***************************************************************************)
(* Proofs about DistTxn for any number of nodes, transactions and readers. *)
(*                                                                         *)
(* Core ties what a participant holds to the phase on the coordinator and  *)
(* gives Agreement.  Visibility adds the order of timestamps.  Its heart   *)
(* is Refused: a reader that was told "not visible" began before the       *)
(* commit timestamp, taken or still to be taken.  Both say nothing about a *)
(* prepared transaction that was given a second COMMIT or ROLLBACK         *)
(* PREPARED (reissued), for which the code does not promise them; Finished *)
(* and Told, at the end, hold for those too.                               *)
(***************************************************************************)
EXTENDS DistTxn, TLAPS

----------------------------------------------------------------------------
(* What the coordinator's phase says about the timestamps and the answers. *)
Early == {"idle", "running", "preparing", "prefinish", "marked"}
Decided == {"committing", "done"}

Phases ==
  \A t \in Txn \ reissued :
    /\ acked[t] \subseteq Part[t]
    /\ phase[t] \in {"idle", "running"} => prepTs[t] = 0 /\ acked[t] = {}
    /\ phase[t] \in Early => commitTs[t] = 0
    /\ phase[t] \in Decided \cup {"stamped"} => commitTs[t] # 0
    /\ phase[t] \in {"preparing", "prefinish"} => Kind[t] # "single"
    /\ phase[t] \in {"marked", "stamped"} => Kind[t] = "single"
    /\ phase[t] = "prefinish" => Kind[t] = "explicit"
    /\ phase[t] = "preparing" => (prepTs[t] # 0 <=> Kind[t] = "implicit")
    /\ phase[t] \in Decided /\ Kind[t] # "single" => acked[t] = Part[t]

(* What a participant's log and CSN log say about the phase. *)
Participants ==
  \A t \in Txn \ reissued : \A n \in Part[t] :
    /\ wal[n][t] = "committed" => phase[t] \in Decided /\ walTs[n][t] = commitTs[t]
    /\ wal[n][t] = "aborted" => phase[t] = "aborting" /\ status[n][t] = "aborted"
    /\ status[n][t] = "aborted" => wal[n][t] \in {"none", "aborted"}
    /\ status[n][t] = "committed" => wal[n][t] = "committed" /\ stamp[n][t] = commitTs[t]
    /\ phase[t] = "prefinish" => wal[n][t] = "prepared"
    /\ phase[t] = "done" => status[n][t] = "committed"
    /\ phase[t] \in {"idle", "running"} =>
         wal[n][t] = "none" /\ status[n][t] \in {"inprogress", "aborted"}

(* What an answer of a participant is worth to the coordinator. *)
Answers ==
  \A t \in Txn \ reissued : \A n \in Part[t] :
    /\ n \in acked[t] /\ phase[t] # "aborting" => wal[n][t] \in {"prepared", "committed"}
    /\ n \in acked[t] /\ phase[t] # "aborting" /\ (Kind[t] = "implicit" \/ phase[t] # "preparing")
         => status[n][t] \in {"prepared", "committed"}

(* The one-phase commit. *)
OnePhase ==
  \A t \in Txn \ reissued : Kind[t] = "single" => \A n \in Part[t] :
    /\ phase[t] \in {"idle", "running"} => status[n][t] = "inprogress"
    /\ phase[t] \in {"marked", "stamped"} => status[n][t] = "prepared" /\ wal[n][t] = "none"
    /\ phase[t] \in Decided =>
         wal[n][t] = "committed" /\ status[n][t] \in {"prepared", "committed"}
    /\ wal[n][t] # "prepared"

Core == Phases /\ Participants /\ Answers /\ OnePhase

----------------------------------------------------------------------------
(* Timestamps: the commit timestamp is above the prepare timestamp, and a mark
   carries the prepare timestamp once the coordinator relies on it. *)
Stamps ==
  /\ \A n \in Node : maxCommit[n] # 0
  /\ \A t \in Txn \ reissued :
       /\ commitTs[t] <= gts
       /\ commitTs[t] # 0 => prepTs[t] < commitTs[t]
       /\ phase[t] \in {"prefinish", "marked", "stamped"} \cup Decided => prepTs[t] # 0
       /\ commitTs[t] # 0 => phase[t] \in Decided \cup {"stamped"}
            \/ \A n \in Part[t] : status[n][t] = "aborted"
       /\ \A n \in Part[t] :
            /\ status[n][t] = "prepared" /\ (phase[t] # "prefinish" \/ n \in acked[t])
                 => (stamp[n][t] = prepTs[t] /\ prepTs[t] # 0)
            /\ wal[n][t] = "prepared" => prepTs[t] # 0 \/ Kind[t] = "explicit"
            /\ Kind[t] = "explicit" /\ phase[t] \in {"idle", "running", "preparing"} =>
                 status[n][t] = "inprogress"

(* A reader that got an answer began in the past. *)
Readers ==
  \A r \in Reader :
    /\ start[r] <= gts
    /\ \A t \in Txn : seen[r][t] # {} => start[r] # 0 /\ start[r] < gts

Granted ==
  \A r \in Reader, t \in Txn \ reissued : "yes" \in seen[r][t] =>
    phase[t] \in Decided /\ commitTs[t] <= start[r]

Refused ==
  \A r \in Reader, t \in Txn \ reissued :
    "no" \in seen[r][t] /\ phase[t] \in Decided \cup {"stamped"} => start[r] < commitTs[t]

Visibility == Stamps /\ Readers /\ Granted /\ Refused

(* The hypothesis of the theorems about readers: a client that runs the two
   phases itself needs participants that do not crash, see PrefinishMark. *)
MarksSurvive == \A t \in Txn : Kind[t] = "explicit" => MaxCrashes = 0
----------------------------------------------------------------------------
(* Every step keeps the types. *)
LEMMA TypeStep ==
  ASSUME TypeOK, [Next]_vars
  PROVE  TypeOK'
<1> USE DistTxnAssumption
<1>1. ASSUME Tick PROVE TypeOK'
  BY <1>1 DEF Tick, coordVars, readerVars, TypeOK
<1>2. ASSUME NEW t0 \in Txn, Begin(t0) PROVE TypeOK'
  BY <1>2 DEF Begin, readerVars, TypeOK
<1>3. ASSUME NEW t0 \in Txn, StartPrepare(t0) PROVE TypeOK'
  <2>1. prepTs' \in [Txn -> Nat]
    <3>1. CASE Kind[t0] = "implicit"
      <4>1. PICK p \in 1..(gts + MaxLead) : prepTs' = [prepTs EXCEPT ![t0] = p]
        BY <1>3, <3>1 DEF StartPrepare
      <4> QED
        BY <4>1 DEF TypeOK
    <3>2. CASE Kind[t0] # "implicit"
      BY <1>3, <3>2 DEF StartPrepare, TypeOK
    <3> QED
      BY <3>1, <3>2
  <2> QED
    BY <1>3, <2>1 DEF StartPrepare, readerVars, TypeOK
<1>4. ASSUME NEW t0 \in Txn, Prefinish(t0) PROVE TypeOK'
  BY <1>4 DEF Prefinish, Timestamps, readerVars, TypeOK
<1>5. ASSUME NEW t0 \in Txn, GetCommitTs(t0) PROVE TypeOK'
  BY <1>5 DEF GetCommitTs, LastRound, Passed, readerVars, TypeOK
<1>6. ASSUME NEW t0 \in Txn, CommitTsRejected(t0) PROVE TypeOK'
  BY <1>6 DEF CommitTsRejected, readerVars, TypeOK
<1>7. ASSUME NEW t0 \in Txn, Finish(t0) PROVE TypeOK'
  BY <1>7 DEF Finish, readerVars, TypeOK
<1>8. ASSUME NEW t0 \in Txn, Abort(t0) PROVE TypeOK'
  BY <1>8 DEF Abort, readerVars, TypeOK
<1>9. ASSUME NEW n0 \in Node, NEW t0 \in Txn, LogPrepare(n0, t0) PROVE TypeOK'
  BY <1>9 DEF LogPrepare, readerVars, TypeOK
<1>10. ASSUME NEW n0 \in Node, NEW t0 \in Txn, MarkPrepared(n0, t0) PROVE TypeOK'
  BY <1>10 DEF MarkPrepared, SetCSN, readerVars, TypeOK
<1>11. ASSUME NEW n0 \in Node, NEW t0 \in Txn, PrefinishMark(n0, t0) PROVE TypeOK'
  <2>1. CASE wal[n0][t0] = "prepared"
    <3>1. SetCSN(n0, t0, "prepared", prepTs[t0])
      BY <1>11, <2>1 DEF PrefinishMark
    <3>2. status' \in [Node -> [Txn -> {"inprogress", "prepared", "committed", "aborted"}]]
      BY <3>1 DEF SetCSN, TypeOK
    <3>3. stamp' \in [Node -> [Txn -> Nat]]
      BY <3>1 DEF SetCSN, TypeOK
    <3> QED
      BY <1>11, <3>2, <3>3 DEF PrefinishMark, readerVars, TypeOK
  <2>2. CASE wal[n0][t0] # "prepared"
    BY <1>11, <2>2 DEF PrefinishMark, readerVars, TypeOK
  <2> QED
    BY <2>1, <2>2
<1>12. ASSUME NEW n0 \in Node, NEW t0 \in Txn, LogCommit(n0, t0) PROVE TypeOK'
  BY <1>12 DEF LogCommit, MaxOf, readerVars, coordVars, TypeOK
<1>13. ASSUME NEW n0 \in Node, NEW t0 \in Txn, MarkCommitted(n0, t0) PROVE TypeOK'
  BY <1>13 DEF MarkCommitted, SetCSN, readerVars, coordVars, TypeOK
<1>14. ASSUME NEW n0 \in Node, NEW t0 \in Txn, AbortOnNode(n0, t0) PROVE TypeOK'
  BY <1>14 DEF AbortOnNode, SetCSN, readerVars, coordVars, TypeOK
<1>15. ASSUME NEW n0 \in Node, NEW t0 \in Txn, SingleMark(n0, t0) PROVE TypeOK'
  BY <1>15 DEF SingleMark, SetCSN, readerVars, TypeOK
<1>16. ASSUME NEW n0 \in Node, NEW t0 \in Txn, SingleCommitTs(n0, t0) PROVE TypeOK'
  BY <1>16 DEF SingleCommitTs, Passed, readerVars, TypeOK
<1>17. ASSUME NEW n0 \in Node, NEW t0 \in Txn, SingleLog(n0, t0) PROVE TypeOK'
  BY <1>17 DEF SingleLog, MaxOf, readerVars, TypeOK
<1>18. ASSUME NEW n0 \in Node, NEW m \in 1..MaxTime, CrashRestart(n0, m) PROVE TypeOK'
  BY <1>18 DEF CrashRestart, RecoveredStatus, RecoveredStamp, LoggedPrepTs, readerVars, TypeOK
<1>19. ASSUME NEW r0 \in Reader, BeginRead(r0) PROVE TypeOK'
  BY <1>19 DEF BeginRead, Timestamps, coordVars, TypeOK
<1>20. ASSUME NEW r0 \in Reader, NEW n0 \in Node, NEW t0 \in Txn, Read(r0, n0, t0) PROVE TypeOK'
  BY <1>20 DEF Read, Visible, MustWait, coordVars, TypeOK
<1>22. ASSUME NEW t0 \in Txn, RollbackPrepared(t0) PROVE TypeOK'
  BY <1>22 DEF RollbackPrepared, readerVars, TypeOK
<1>21. CASE UNCHANGED vars
  BY <1>21 DEF vars, TypeOK
<1> QED
  BY <1>1, <1>2, <1>3, <1>4, <1>5, <1>6, <1>7, <1>8, <1>9, <1>10, <1>11, <1>12, <1>13, <1>14, <1>15, <1>16, <1>17, <1>18, <1>19, <1>20, <1>21, <1>22
  DEF Next, TxnStep, NodeStep

(* Type correctness (TypeOK), for every kind of transaction. *)
THEOREM TypeCorrect == Spec => []TypeOK
<1>1. Init => TypeOK
  BY DistTxnAssumption DEF Init, TypeOK
<1> QED
  BY <1>1, TypeStep, PTL DEF Spec

----------------------------------------------------------------------------
(* Every step keeps Core, crashes of participants included. *)
LEMMA CoreStep ==
  ASSUME TypeOK, Core, [Next]_vars
  PROVE  Core'
<1> USE DistTxnAssumption
<1>1. ASSUME Tick PROVE Core'
  <2>1. Phases'
    BY <1>1 DEF Tick, coordVars, readerVars, TypeOK, Core, Phases, Participants, Answers, OnePhase, Early, Decided
  <2>2. Participants'
    BY <1>1 DEF Tick, coordVars, readerVars, TypeOK, Core, Phases, Participants, Answers, OnePhase, Early, Decided
  <2>3. Answers'
    BY <1>1 DEF Tick, coordVars, readerVars, TypeOK, Core, Phases, Participants, Answers, OnePhase, Early, Decided
  <2>4. OnePhase'
    BY <1>1 DEF Tick, coordVars, readerVars, TypeOK, Core, Phases, Participants, Answers, OnePhase, Early, Decided
  <2> QED
    BY <2>1, <2>2, <2>3, <2>4 DEF Core
<1>2. ASSUME NEW t0 \in Txn, Begin(t0) PROVE Core'
  <2>1. Phases'
    BY <1>2 DEF Begin, readerVars, TypeOK, Core, Phases, Participants, Answers, OnePhase, Early, Decided
  <2>2. Participants'
    BY <1>2 DEF Begin, readerVars, TypeOK, Core, Phases, Participants, Answers, OnePhase, Early, Decided
  <2>3. Answers'
    BY <1>2 DEF Begin, readerVars, TypeOK, Core, Phases, Participants, Answers, OnePhase, Early, Decided
  <2>4. OnePhase'
    BY <1>2 DEF Begin, readerVars, TypeOK, Core, Phases, Participants, Answers, OnePhase, Early, Decided
  <2> QED
    BY <2>1, <2>2, <2>3, <2>4 DEF Core
<1>3. ASSUME NEW t0 \in Txn, StartPrepare(t0) PROVE Core'
  <2>1. Phases'
    BY <1>3 DEF StartPrepare, readerVars, TypeOK, Core, Phases, Participants, Answers, OnePhase, Early, Decided
  <2>2. Participants'
    BY <1>3 DEF StartPrepare, readerVars, TypeOK, Core, Phases, Participants, Answers, OnePhase, Early, Decided
  <2>3. Answers'
    BY <1>3 DEF StartPrepare, readerVars, TypeOK, Core, Phases, Participants, Answers, OnePhase, Early, Decided
  <2>4. OnePhase'
    BY <1>3 DEF StartPrepare, readerVars, TypeOK, Core, Phases, Participants, Answers, OnePhase, Early, Decided
  <2> QED
    BY <2>1, <2>2, <2>3, <2>4 DEF Core
<1>4. ASSUME NEW t0 \in Txn, Prefinish(t0) PROVE Core'
  <2>1. Phases'
    BY <1>4 DEF Prefinish, Timestamps, readerVars, TypeOK, Core, Phases, Participants, Answers, OnePhase, Early, Decided
  <2>2. Participants'
    BY <1>4 DEF Prefinish, Timestamps, readerVars, TypeOK, Core, Phases, Participants, Answers, OnePhase, Early, Decided
  <2>3. Answers'
    BY <1>4 DEF Prefinish, Timestamps, readerVars, TypeOK, Core, Phases, Participants, Answers, OnePhase, Early, Decided
  <2>4. OnePhase'
    BY <1>4 DEF Prefinish, Timestamps, readerVars, TypeOK, Core, Phases, Participants, Answers, OnePhase, Early, Decided
  <2> QED
    BY <2>1, <2>2, <2>3, <2>4 DEF Core
<1>5. ASSUME NEW t0 \in Txn, GetCommitTs(t0) PROVE Core'
  <2>1. Phases'
    BY <1>5 DEF GetCommitTs, LastRound, Passed, readerVars, TypeOK, Core, Phases, Participants, Answers, OnePhase, Early, Decided
  <2>2. Participants'
    BY <1>5 DEF GetCommitTs, LastRound, Passed, readerVars, TypeOK, Core, Phases, Participants, Answers, OnePhase, Early, Decided
  <2>3. Answers'
    BY <1>5 DEF GetCommitTs, LastRound, Passed, readerVars, TypeOK, Core, Phases, Participants, Answers, OnePhase, Early, Decided
  <2>4. OnePhase'
    BY <1>5 DEF GetCommitTs, LastRound, Passed, readerVars, TypeOK, Core, Phases, Participants, Answers, OnePhase, Early, Decided
  <2> QED
    BY <2>1, <2>2, <2>3, <2>4 DEF Core
<1>6. ASSUME NEW t0 \in Txn, CommitTsRejected(t0) PROVE Core'
  <2>1. Phases'
    BY <1>6 DEF CommitTsRejected, readerVars, TypeOK, Core, Phases, Participants, Answers, OnePhase, Early, Decided
  <2>2. Participants'
    BY <1>6 DEF CommitTsRejected, readerVars, TypeOK, Core, Phases, Participants, Answers, OnePhase, Early, Decided
  <2>3. Answers'
    BY <1>6 DEF CommitTsRejected, readerVars, TypeOK, Core, Phases, Participants, Answers, OnePhase, Early, Decided
  <2>4. OnePhase'
    BY <1>6 DEF CommitTsRejected, readerVars, TypeOK, Core, Phases, Participants, Answers, OnePhase, Early, Decided
  <2> QED
    BY <2>1, <2>2, <2>3, <2>4 DEF Core
<1>7. ASSUME NEW t0 \in Txn, Finish(t0) PROVE Core'
  <2>1. Phases'
    BY <1>7 DEF Finish, readerVars, TypeOK, Core, Phases, Participants, Answers, OnePhase, Early, Decided
  <2>2. Participants'
    BY <1>7 DEF Finish, readerVars, TypeOK, Core, Phases, Participants, Answers, OnePhase, Early, Decided
  <2>3. Answers'
    BY <1>7 DEF Finish, readerVars, TypeOK, Core, Phases, Participants, Answers, OnePhase, Early, Decided
  <2>4. OnePhase'
    BY <1>7 DEF Finish, readerVars, TypeOK, Core, Phases, Participants, Answers, OnePhase, Early, Decided
  <2> QED
    BY <2>1, <2>2, <2>3, <2>4 DEF Core
<1>8. ASSUME NEW t0 \in Txn, Abort(t0) PROVE Core'
  <2>1. Phases'
    BY <1>8 DEF Abort, readerVars, TypeOK, Core, Phases, Participants, Answers, OnePhase, Early, Decided
  <2>2. Participants'
    BY <1>8 DEF Abort, readerVars, TypeOK, Core, Phases, Participants, Answers, OnePhase, Early, Decided
  <2>3. Answers'
    BY <1>8 DEF Abort, readerVars, TypeOK, Core, Phases, Participants, Answers, OnePhase, Early, Decided
  <2>4. OnePhase'
    BY <1>8 DEF Abort, readerVars, TypeOK, Core, Phases, Participants, Answers, OnePhase, Early, Decided
  <2> QED
    BY <2>1, <2>2, <2>3, <2>4 DEF Core
<1>9. ASSUME NEW n0 \in Node, NEW t0 \in Txn, LogPrepare(n0, t0) PROVE Core'
  <2>1. Phases'
    BY <1>9 DEF LogPrepare, readerVars, TypeOK, Core, Phases, Participants, Answers, OnePhase, Early, Decided
  <2>2. Participants'
    BY <1>9 DEF LogPrepare, readerVars, TypeOK, Core, Phases, Participants, Answers, OnePhase, Early, Decided
  <2>3. Answers'
    BY <1>9 DEF LogPrepare, readerVars, TypeOK, Core, Phases, Participants, Answers, OnePhase, Early, Decided
  <2>4. OnePhase'
    BY <1>9 DEF LogPrepare, readerVars, TypeOK, Core, Phases, Participants, Answers, OnePhase, Early, Decided
  <2> QED
    BY <2>1, <2>2, <2>3, <2>4 DEF Core
<1>10. ASSUME NEW n0 \in Node, NEW t0 \in Txn, MarkPrepared(n0, t0) PROVE Core'
  <2>1. Phases'
    BY <1>10 DEF MarkPrepared, SetCSN, readerVars, TypeOK, Core, Phases, Participants, Answers, OnePhase, Early, Decided
  <2>2. Participants'
    BY <1>10 DEF MarkPrepared, SetCSN, readerVars, TypeOK, Core, Phases, Participants, Answers, OnePhase, Early, Decided
  <2>3. Answers'
    BY <1>10 DEF MarkPrepared, SetCSN, readerVars, TypeOK, Core, Phases, Participants, Answers, OnePhase, Early, Decided
  <2>4. OnePhase'
    BY <1>10 DEF MarkPrepared, SetCSN, readerVars, TypeOK, Core, Phases, Participants, Answers, OnePhase, Early, Decided
  <2> QED
    BY <2>1, <2>2, <2>3, <2>4 DEF Core
<1>11. ASSUME NEW n0 \in Node, NEW t0 \in Txn, PrefinishMark(n0, t0) PROVE Core'
  <2>1. Phases'
    BY <1>11 DEF PrefinishMark, SetCSN, readerVars, TypeOK, Core, Phases, Participants, Answers, OnePhase, Early, Decided
  <2>2. Participants'
    BY <1>11 DEF PrefinishMark, SetCSN, readerVars, TypeOK, Core, Phases, Participants, Answers, OnePhase, Early, Decided
  <2>3. Answers'
    <3>1. CASE wal[n0][t0] = "prepared"
      BY <1>11, <3>1 DEF PrefinishMark, SetCSN, readerVars, TypeOK, Core, Phases, Participants, Answers, OnePhase, Early, Decided
    <3>2. CASE wal[n0][t0] # "prepared"
      <4>1. t0 \in reissued
        BY <1>11, <3>2 DEF PrefinishMark, Core, Participants
      <4> QED
        BY <1>11, <3>2, <4>1 DEF PrefinishMark, readerVars, TypeOK, Core, Phases, Participants, Answers, OnePhase, Early, Decided
    <3> QED
      BY <3>1, <3>2
  <2>4. OnePhase'
    BY <1>11 DEF PrefinishMark, SetCSN, readerVars, TypeOK, Core, Phases, Participants, Answers, OnePhase, Early, Decided
  <2> QED
    BY <2>1, <2>2, <2>3, <2>4 DEF Core
<1>12. ASSUME NEW n0 \in Node, NEW t0 \in Txn, LogCommit(n0, t0) PROVE Core'
  <2>1. Phases'
    BY <1>12 DEF LogCommit, MaxOf, readerVars, coordVars, TypeOK, Core, Phases, Participants, Answers, OnePhase, Early, Decided
  <2>2. Participants'
    BY <1>12 DEF LogCommit, MaxOf, readerVars, coordVars, TypeOK, Core, Phases, Participants, Answers, OnePhase, Early, Decided
  <2>3. Answers'
    BY <1>12 DEF LogCommit, MaxOf, readerVars, coordVars, TypeOK, Core, Phases, Participants, Answers, OnePhase, Early, Decided
  <2>4. OnePhase'
    BY <1>12 DEF LogCommit, MaxOf, readerVars, coordVars, TypeOK, Core, Phases, Participants, Answers, OnePhase, Early, Decided
  <2> QED
    BY <2>1, <2>2, <2>3, <2>4 DEF Core
<1>13. ASSUME NEW n0 \in Node, NEW t0 \in Txn, MarkCommitted(n0, t0) PROVE Core'
  <2>1. Phases'
    BY <1>13 DEF MarkCommitted, SetCSN, readerVars, coordVars, TypeOK, Core, Phases, Participants, Answers, OnePhase, Early, Decided
  <2>2. Participants'
    BY <1>13 DEF MarkCommitted, SetCSN, readerVars, coordVars, TypeOK, Core, Phases, Participants, Answers, OnePhase, Early, Decided
  <2>3. Answers'
    BY <1>13 DEF MarkCommitted, SetCSN, readerVars, coordVars, TypeOK, Core, Phases, Participants, Answers, OnePhase, Early, Decided
  <2>4. OnePhase'
    BY <1>13 DEF MarkCommitted, SetCSN, readerVars, coordVars, TypeOK, Core, Phases, Participants, Answers, OnePhase, Early, Decided
  <2> QED
    BY <2>1, <2>2, <2>3, <2>4 DEF Core
<1>14. ASSUME NEW n0 \in Node, NEW t0 \in Txn, AbortOnNode(n0, t0) PROVE Core'
  <2>1. Phases'
    BY <1>14 DEF AbortOnNode, SetCSN, readerVars, coordVars, TypeOK, Core, Phases, Participants, Answers, OnePhase, Early, Decided
  <2>2. Participants'
    BY <1>14 DEF AbortOnNode, SetCSN, readerVars, coordVars, TypeOK, Core, Phases, Participants, Answers, OnePhase, Early, Decided
  <2>3. Answers'
    BY <1>14 DEF AbortOnNode, SetCSN, readerVars, coordVars, TypeOK, Core, Phases, Participants, Answers, OnePhase, Early, Decided
  <2>4. OnePhase'
    BY <1>14 DEF AbortOnNode, SetCSN, readerVars, coordVars, TypeOK, Core, Phases, Participants, Answers, OnePhase, Early, Decided
  <2> QED
    BY <2>1, <2>2, <2>3, <2>4 DEF Core
<1>15. ASSUME NEW n0 \in Node, NEW t0 \in Txn, SingleMark(n0, t0) PROVE Core'
  <2>1. Phases'
    BY <1>15 DEF SingleMark, SetCSN, readerVars, TypeOK, Core, Phases, Participants, Answers, OnePhase, Early, Decided
  <2>2. Participants'
    BY <1>15 DEF SingleMark, SetCSN, readerVars, TypeOK, Core, Phases, Participants, Answers, OnePhase, Early, Decided
  <2>3. Answers'
    BY <1>15 DEF SingleMark, SetCSN, readerVars, TypeOK, Core, Phases, Participants, Answers, OnePhase, Early, Decided
  <2>4. OnePhase'
    BY <1>15 DEF SingleMark, SetCSN, readerVars, TypeOK, Core, Phases, Participants, Answers, OnePhase, Early, Decided
  <2> QED
    BY <2>1, <2>2, <2>3, <2>4 DEF Core
<1>16. ASSUME NEW n0 \in Node, NEW t0 \in Txn, SingleCommitTs(n0, t0) PROVE Core'
  <2>1. Phases'
    BY <1>16 DEF SingleCommitTs, Passed, readerVars, TypeOK, Core, Phases, Participants, Answers, OnePhase, Early, Decided
  <2>2. Participants'
    BY <1>16 DEF SingleCommitTs, Passed, readerVars, TypeOK, Core, Phases, Participants, Answers, OnePhase, Early, Decided
  <2>3. Answers'
    BY <1>16 DEF SingleCommitTs, Passed, readerVars, TypeOK, Core, Phases, Participants, Answers, OnePhase, Early, Decided
  <2>4. OnePhase'
    BY <1>16 DEF SingleCommitTs, Passed, readerVars, TypeOK, Core, Phases, Participants, Answers, OnePhase, Early, Decided
  <2> QED
    BY <2>1, <2>2, <2>3, <2>4 DEF Core
<1>17. ASSUME NEW n0 \in Node, NEW t0 \in Txn, SingleLog(n0, t0) PROVE Core'
  <2>1. Phases'
    BY <1>17 DEF SingleLog, MaxOf, readerVars, TypeOK, Core, Phases, Participants, Answers, OnePhase, Early, Decided
  <2>2. Participants'
    BY <1>17 DEF SingleLog, MaxOf, readerVars, TypeOK, Core, Phases, Participants, Answers, OnePhase, Early, Decided
  <2>3. Answers'
    BY <1>17 DEF SingleLog, MaxOf, readerVars, TypeOK, Core, Phases, Participants, Answers, OnePhase, Early, Decided
  <2>4. OnePhase'
    BY <1>17 DEF SingleLog, MaxOf, readerVars, TypeOK, Core, Phases, Participants, Answers, OnePhase, Early, Decided
  <2> QED
    BY <2>1, <2>2, <2>3, <2>4 DEF Core
<1>18. ASSUME NEW n0 \in Node, NEW m \in 1..MaxTime, CrashRestart(n0, m) PROVE Core'
  <2>1. Phases'
    BY <1>18 DEF CrashRestart, RecoveredStatus, RecoveredStamp, LoggedPrepTs, readerVars, TypeOK, Core, Phases, Participants, Answers, OnePhase, Early, Decided
  <2>2. Participants'
    BY <1>18 DEF CrashRestart, RecoveredStatus, RecoveredStamp, LoggedPrepTs, readerVars, TypeOK, Core, Phases, Participants, Answers, OnePhase, Early, Decided
  <2>3. Answers'
    BY <1>18 DEF CrashRestart, RecoveredStatus, RecoveredStamp, LoggedPrepTs, readerVars, TypeOK, Core, Phases, Participants, Answers, OnePhase, Early, Decided
  <2>4. OnePhase'
    BY <1>18 DEF CrashRestart, RecoveredStatus, RecoveredStamp, LoggedPrepTs, readerVars, TypeOK, Core, Phases, Participants, Answers, OnePhase, Early, Decided
  <2> QED
    BY <2>1, <2>2, <2>3, <2>4 DEF Core
<1>19. ASSUME NEW r0 \in Reader, BeginRead(r0) PROVE Core'
  <2>1. Phases'
    BY <1>19 DEF BeginRead, Timestamps, coordVars, TypeOK, Core, Phases, Participants, Answers, OnePhase, Early, Decided
  <2>2. Participants'
    BY <1>19 DEF BeginRead, Timestamps, coordVars, TypeOK, Core, Phases, Participants, Answers, OnePhase, Early, Decided
  <2>3. Answers'
    BY <1>19 DEF BeginRead, Timestamps, coordVars, TypeOK, Core, Phases, Participants, Answers, OnePhase, Early, Decided
  <2>4. OnePhase'
    BY <1>19 DEF BeginRead, Timestamps, coordVars, TypeOK, Core, Phases, Participants, Answers, OnePhase, Early, Decided
  <2> QED
    BY <2>1, <2>2, <2>3, <2>4 DEF Core
<1>20. ASSUME NEW r0 \in Reader, NEW n0 \in Node, NEW t0 \in Txn, Read(r0, n0, t0) PROVE Core'
  <2>1. Phases'
    BY <1>20 DEF Read, Visible, MustWait, coordVars, TypeOK, Core, Phases, Participants, Answers, OnePhase, Early, Decided
  <2>2. Participants'
    BY <1>20 DEF Read, Visible, MustWait, coordVars, TypeOK, Core, Phases, Participants, Answers, OnePhase, Early, Decided
  <2>3. Answers'
    BY <1>20 DEF Read, Visible, MustWait, coordVars, TypeOK, Core, Phases, Participants, Answers, OnePhase, Early, Decided
  <2>4. OnePhase'
    BY <1>20 DEF Read, Visible, MustWait, coordVars, TypeOK, Core, Phases, Participants, Answers, OnePhase, Early, Decided
  <2> QED
    BY <2>1, <2>2, <2>3, <2>4 DEF Core
<1>22. ASSUME NEW t0 \in Txn, RollbackPrepared(t0) PROVE Core'
  <2>1. Phases'
    BY <1>22 DEF RollbackPrepared, readerVars, TypeOK, Core, Phases, Participants, Answers, OnePhase, Early, Decided
  <2>2. Participants'
    BY <1>22 DEF RollbackPrepared, readerVars, TypeOK, Core, Phases, Participants, Answers, OnePhase, Early, Decided
  <2>3. Answers'
    BY <1>22 DEF RollbackPrepared, readerVars, TypeOK, Core, Phases, Participants, Answers, OnePhase, Early, Decided
  <2>4. OnePhase'
    BY <1>22 DEF RollbackPrepared, readerVars, TypeOK, Core, Phases, Participants, Answers, OnePhase, Early, Decided
  <2> QED
    BY <2>1, <2>2, <2>3, <2>4 DEF Core
<1>21. CASE UNCHANGED vars
  BY <1>21 DEF vars, TypeOK, Core, Phases, Participants, Answers, OnePhase, Early, Decided
<1> QED
  BY <1>1, <1>2, <1>3, <1>4, <1>5, <1>6, <1>7, <1>8, <1>9, <1>10, <1>11, <1>12, <1>13, <1>14, <1>15, <1>16, <1>17, <1>18, <1>19, <1>20, <1>21, <1>22
  DEF Next, TxnStep, NodeStep

(* Agreement of the participants on the outcome, for every kind of transaction
   and any number of crashes, unless a prepared transaction was given a second
   command (Agreement). *)
THEOREM Outcome == Spec => []Agreement
<1>1. Init => TypeOK /\ Core
  BY DistTxnAssumption DEF Init, TypeOK, Core, Phases, Participants, Answers, OnePhase,
                           Early, Decided
<1>2. TypeOK /\ Core => Agreement
  BY DistTxnAssumption DEF Agreement, TypeOK, Core, Phases, Participants, Answers, OnePhase, Decided
<1> QED
  BY <1>1, <1>2, TypeStep, CoreStep, PTL DEF Spec

----------------------------------------------------------------------------
(* Every step keeps Visibility as long as prepare marks survive crashes. *)
LEMMA VisibilityStep ==
  ASSUME MarksSurvive, TypeOK, Core, Visibility, [Next]_vars
  PROVE  Visibility'
<1> USE DistTxnAssumption DEF MarksSurvive
<1>1. ASSUME Tick PROVE Visibility'
  <2>1. Stamps'
    BY <1>1 DEF Tick, coordVars, readerVars, TypeOK, Core, Phases, Participants, Answers, OnePhase, Early, Decided, Visibility, Stamps
  <2>2. Readers'
    BY <1>1 DEF Tick, coordVars, readerVars, TypeOK, Core, Phases, Participants, OnePhase, Decided, Visibility, Readers, Stamps
  <2>3. Granted'
    BY <1>1 DEF Tick, coordVars, readerVars, TypeOK, Core, Phases, Participants, OnePhase, Early, Decided, Visibility, Granted
  <2>4. Refused'
    BY <1>1 DEF Tick, coordVars, readerVars, TypeOK, Core, Phases, Decided, Visibility, Readers, Refused
  <2> QED
    BY <2>1, <2>2, <2>3, <2>4 DEF Visibility
<1>2. ASSUME NEW t0 \in Txn, Begin(t0) PROVE Visibility'
  <2>1. Stamps'
    BY <1>2 DEF Begin, readerVars, TypeOK, Core, Phases, Participants, Answers, OnePhase, Early, Decided, Visibility, Stamps
  <2>2. Readers'
    BY <1>2 DEF Begin, readerVars, TypeOK, Core, Phases, Participants, OnePhase, Decided, Visibility, Readers, Stamps
  <2>3. Granted'
    BY <1>2 DEF Begin, readerVars, TypeOK, Core, Phases, Participants, OnePhase, Early, Decided, Visibility, Granted
  <2>4. Refused'
    BY <1>2 DEF Begin, readerVars, TypeOK, Core, Phases, Decided, Visibility, Readers, Refused
  <2> QED
    BY <2>1, <2>2, <2>3, <2>4 DEF Visibility
<1>3. ASSUME NEW t0 \in Txn, StartPrepare(t0) PROVE Visibility'
  <2>1. Stamps'
    <3>1. CASE Kind[t0] = "implicit"
      <4>1. PICK p \in 1..(gts + MaxLead) : prepTs' = [prepTs EXCEPT ![t0] = p]
        BY <1>3, <3>1 DEF StartPrepare
      <4> QED
        BY <1>3, <3>1, <4>1
        DEF StartPrepare, TypeOK, Core, Phases, Participants, Early, Decided, Visibility, Stamps
    <3>2. CASE Kind[t0] # "implicit"
      BY <1>3, <3>2
      DEF StartPrepare, TypeOK, Core, Phases, Participants, Early, Decided, Visibility, Stamps
    <3> QED
      BY <3>1, <3>2
  <2>2. Readers'
    BY <1>3 DEF StartPrepare, readerVars, TypeOK, Core, Phases, Participants, OnePhase, Decided, Visibility, Readers, Stamps
  <2>3. Granted'
    BY <1>3 DEF StartPrepare, readerVars, TypeOK, Core, Phases, Participants, OnePhase, Early, Decided, Visibility, Granted
  <2>4. Refused'
    BY <1>3 DEF StartPrepare, readerVars, TypeOK, Core, Phases, Decided, Visibility, Readers, Refused
  <2> QED
    BY <2>1, <2>2, <2>3, <2>4 DEF Visibility
<1>4. ASSUME NEW t0 \in Txn, Prefinish(t0) PROVE Visibility'
  <2>1. Stamps'
    BY <1>4 DEF Prefinish, Timestamps, readerVars, TypeOK, Core, Phases, Participants, Answers, OnePhase, Early, Decided, Visibility, Stamps
  <2>2. Readers'
    BY <1>4 DEF Prefinish, Timestamps, readerVars, TypeOK, Core, Phases, Participants, OnePhase, Decided, Visibility, Readers, Stamps
  <2>3. Granted'
    BY <1>4 DEF Prefinish, Timestamps, readerVars, TypeOK, Core, Phases, Participants, OnePhase, Early, Decided, Visibility, Granted
  <2>4. Refused'
    BY <1>4 DEF Prefinish, Timestamps, readerVars, TypeOK, Core, Phases, Decided, Visibility, Readers, Refused
  <2> QED
    BY <2>1, <2>2, <2>3, <2>4 DEF Visibility
<1>5. ASSUME NEW t0 \in Txn, GetCommitTs(t0) PROVE Visibility'
  <2>1. Stamps'
    BY <1>5 DEF GetCommitTs, LastRound, Passed, readerVars, TypeOK, Core, Phases, Participants, Answers, OnePhase, Early, Decided, Visibility, Stamps
  <2>2. Readers'
    BY <1>5 DEF GetCommitTs, LastRound, Passed, readerVars, TypeOK, Core, Phases, Participants, OnePhase, Decided, Visibility, Readers, Stamps
  <2>3. Granted'
    BY <1>5 DEF GetCommitTs, LastRound, Passed, readerVars, TypeOK, Core, Phases, Participants, OnePhase, Early, Decided, Visibility, Granted
  <2>4. Refused'
    BY <1>5 DEF GetCommitTs, LastRound, Passed, readerVars, TypeOK, Core, Phases, Decided, Visibility, Readers, Refused
  <2> QED
    BY <2>1, <2>2, <2>3, <2>4 DEF Visibility
<1>6. ASSUME NEW t0 \in Txn, CommitTsRejected(t0) PROVE Visibility'
  <2>1. Stamps'
    BY <1>6 DEF CommitTsRejected, readerVars, TypeOK, Core, Phases, Participants, Answers, OnePhase, Early, Decided, Visibility, Stamps
  <2>2. Readers'
    BY <1>6 DEF CommitTsRejected, readerVars, TypeOK, Core, Phases, Participants, OnePhase, Decided, Visibility, Readers, Stamps
  <2>3. Granted'
    BY <1>6 DEF CommitTsRejected, readerVars, TypeOK, Core, Phases, Participants, OnePhase, Early, Decided, Visibility, Granted
  <2>4. Refused'
    BY <1>6 DEF CommitTsRejected, readerVars, TypeOK, Core, Phases, Decided, Visibility, Readers, Refused
  <2> QED
    BY <2>1, <2>2, <2>3, <2>4 DEF Visibility
<1>7. ASSUME NEW t0 \in Txn, Finish(t0) PROVE Visibility'
  <2>1. Stamps'
    BY <1>7 DEF Finish, readerVars, TypeOK, Core, Phases, Participants, Answers, OnePhase, Early, Decided, Visibility, Stamps
  <2>2. Readers'
    BY <1>7 DEF Finish, readerVars, TypeOK, Core, Phases, Participants, OnePhase, Decided, Visibility, Readers, Stamps
  <2>3. Granted'
    BY <1>7 DEF Finish, readerVars, TypeOK, Core, Phases, Participants, OnePhase, Early, Decided, Visibility, Granted
  <2>4. Refused'
    BY <1>7 DEF Finish, readerVars, TypeOK, Core, Phases, Decided, Visibility, Readers, Refused
  <2> QED
    BY <2>1, <2>2, <2>3, <2>4 DEF Visibility
<1>8. ASSUME NEW t0 \in Txn, Abort(t0) PROVE Visibility'
  <2>1. Stamps'
    BY <1>8 DEF Abort, readerVars, TypeOK, Core, Phases, Participants, Answers, OnePhase, Early, Decided, Visibility, Stamps
  <2>2. Readers'
    BY <1>8 DEF Abort, readerVars, TypeOK, Core, Phases, Participants, OnePhase, Decided, Visibility, Readers, Stamps
  <2>3. Granted'
    BY <1>8 DEF Abort, readerVars, TypeOK, Core, Phases, Participants, OnePhase, Early, Decided, Visibility, Granted
  <2>4. Refused'
    BY <1>8 DEF Abort, readerVars, TypeOK, Core, Phases, Decided, Visibility, Readers, Refused
  <2> QED
    BY <2>1, <2>2, <2>3, <2>4 DEF Visibility
<1>9. ASSUME NEW n0 \in Node, NEW t0 \in Txn, LogPrepare(n0, t0) PROVE Visibility'
  <2>1. Stamps'
    BY <1>9 DEF LogPrepare, readerVars, TypeOK, Core, Phases, Participants, Answers, OnePhase, Early, Decided, Visibility, Stamps
  <2>2. Readers'
    BY <1>9 DEF LogPrepare, readerVars, TypeOK, Core, Phases, Participants, OnePhase, Decided, Visibility, Readers, Stamps
  <2>3. Granted'
    BY <1>9 DEF LogPrepare, readerVars, TypeOK, Core, Phases, Participants, OnePhase, Early, Decided, Visibility, Granted
  <2>4. Refused'
    BY <1>9 DEF LogPrepare, readerVars, TypeOK, Core, Phases, Decided, Visibility, Readers, Refused
  <2> QED
    BY <2>1, <2>2, <2>3, <2>4 DEF Visibility
<1>10. ASSUME NEW n0 \in Node, NEW t0 \in Txn, MarkPrepared(n0, t0) PROVE Visibility'
  <2>1. Stamps'
    BY <1>10 DEF MarkPrepared, SetCSN, readerVars, TypeOK, Core, Phases, Participants, Answers, OnePhase, Early, Decided, Visibility, Stamps
  <2>2. Readers'
    BY <1>10 DEF MarkPrepared, SetCSN, readerVars, TypeOK, Core, Phases, Participants, OnePhase, Decided, Visibility, Readers, Stamps
  <2>3. Granted'
    BY <1>10 DEF MarkPrepared, SetCSN, readerVars, TypeOK, Core, Phases, Participants, OnePhase, Early, Decided, Visibility, Granted
  <2>4. Refused'
    BY <1>10 DEF MarkPrepared, SetCSN, readerVars, TypeOK, Core, Phases, Decided, Visibility, Readers, Refused
  <2> QED
    BY <2>1, <2>2, <2>3, <2>4 DEF Visibility
<1>11. ASSUME NEW n0 \in Node, NEW t0 \in Txn, PrefinishMark(n0, t0) PROVE Visibility'
  <2>1. Stamps'
    <3>1. CASE wal[n0][t0] = "prepared"
      <4>1. SetCSN(n0, t0, "prepared", prepTs[t0])
        BY <1>11, <3>1 DEF PrefinishMark
      <4> QED
        BY <1>11, <4>1 DEF PrefinishMark, SetCSN, readerVars, TypeOK, Core, Phases, Participants, Decided, Visibility, Stamps
    <3>2. CASE wal[n0][t0] # "prepared"
      <4>1. t0 \in reissued
        BY <1>11, <3>2 DEF PrefinishMark, Core, Participants
      <4> QED
        BY <1>11, <3>2, <4>1 DEF PrefinishMark, readerVars, TypeOK, Core, Phases, Participants, Decided, Visibility, Stamps
    <3> QED
      BY <3>1, <3>2
  <2>2. Readers'
    BY <1>11 DEF PrefinishMark, SetCSN, readerVars, TypeOK, Core, Phases, Participants, OnePhase, Decided, Visibility, Readers, Stamps
  <2>3. Granted'
    BY <1>11 DEF PrefinishMark, SetCSN, readerVars, TypeOK, Core, Phases, Participants, OnePhase, Early, Decided, Visibility, Granted
  <2>4. Refused'
    BY <1>11 DEF PrefinishMark, SetCSN, readerVars, TypeOK, Core, Phases, Decided, Visibility, Readers, Refused
  <2> QED
    BY <2>1, <2>2, <2>3, <2>4 DEF Visibility
<1>12. ASSUME NEW n0 \in Node, NEW t0 \in Txn, LogCommit(n0, t0) PROVE Visibility'
  <2>1. Stamps'
    BY <1>12 DEF LogCommit, MaxOf, readerVars, coordVars, TypeOK, Core, Phases, Participants, Answers, OnePhase, Early, Decided, Visibility, Stamps
  <2>2. Readers'
    BY <1>12 DEF LogCommit, MaxOf, readerVars, coordVars, TypeOK, Core, Phases, Participants, OnePhase, Decided, Visibility, Readers, Stamps
  <2>3. Granted'
    BY <1>12 DEF LogCommit, MaxOf, readerVars, coordVars, TypeOK, Core, Phases, Participants, OnePhase, Early, Decided, Visibility, Granted
  <2>4. Refused'
    BY <1>12 DEF LogCommit, MaxOf, readerVars, coordVars, TypeOK, Core, Phases, Decided, Visibility, Readers, Refused
  <2> QED
    BY <2>1, <2>2, <2>3, <2>4 DEF Visibility
<1>13. ASSUME NEW n0 \in Node, NEW t0 \in Txn, MarkCommitted(n0, t0) PROVE Visibility'
  <2>1. Stamps'
    BY <1>13 DEF MarkCommitted, SetCSN, readerVars, coordVars, TypeOK, Core, Phases, Participants, Answers, OnePhase, Early, Decided, Visibility, Stamps
  <2>2. Readers'
    BY <1>13 DEF MarkCommitted, SetCSN, readerVars, coordVars, TypeOK, Core, Phases, Participants, OnePhase, Decided, Visibility, Readers, Stamps
  <2>3. Granted'
    BY <1>13 DEF MarkCommitted, SetCSN, readerVars, coordVars, TypeOK, Core, Phases, Participants, OnePhase, Early, Decided, Visibility, Granted
  <2>4. Refused'
    BY <1>13 DEF MarkCommitted, SetCSN, readerVars, coordVars, TypeOK, Core, Phases, Decided, Visibility, Readers, Refused
  <2> QED
    BY <2>1, <2>2, <2>3, <2>4 DEF Visibility
<1>14. ASSUME NEW n0 \in Node, NEW t0 \in Txn, AbortOnNode(n0, t0) PROVE Visibility'
  <2>1. Stamps'
    BY <1>14 DEF AbortOnNode, SetCSN, readerVars, coordVars, TypeOK, Core, Phases, Participants, Answers, OnePhase, Early, Decided, Visibility, Stamps
  <2>2. Readers'
    BY <1>14 DEF AbortOnNode, SetCSN, readerVars, coordVars, TypeOK, Core, Phases, Participants, OnePhase, Decided, Visibility, Readers, Stamps
  <2>3. Granted'
    BY <1>14 DEF AbortOnNode, SetCSN, readerVars, coordVars, TypeOK, Core, Phases, Participants, OnePhase, Early, Decided, Visibility, Granted
  <2>4. Refused'
    BY <1>14 DEF AbortOnNode, SetCSN, readerVars, coordVars, TypeOK, Core, Phases, Decided, Visibility, Readers, Refused
  <2> QED
    BY <2>1, <2>2, <2>3, <2>4 DEF Visibility
<1>15. ASSUME NEW n0 \in Node, NEW t0 \in Txn, SingleMark(n0, t0) PROVE Visibility'
  <2>1. Stamps'
    BY <1>15 DEF SingleMark, SetCSN, readerVars, TypeOK, Core, Phases, Participants, Answers, OnePhase, Early, Decided, Visibility, Stamps
  <2>2. Readers'
    BY <1>15 DEF SingleMark, SetCSN, readerVars, TypeOK, Core, Phases, Participants, OnePhase, Decided, Visibility, Readers, Stamps
  <2>3. Granted'
    BY <1>15 DEF SingleMark, SetCSN, readerVars, TypeOK, Core, Phases, Participants, OnePhase, Early, Decided, Visibility, Granted
  <2>4. Refused'
    BY <1>15 DEF SingleMark, SetCSN, readerVars, TypeOK, Core, Phases, Decided, Visibility, Readers, Refused
  <2> QED
    BY <2>1, <2>2, <2>3, <2>4 DEF Visibility
<1>16. ASSUME NEW n0 \in Node, NEW t0 \in Txn, SingleCommitTs(n0, t0) PROVE Visibility'
  <2>1. Stamps'
    BY <1>16 DEF SingleCommitTs, Passed, readerVars, TypeOK, Core, Phases, Participants, Answers, OnePhase, Early, Decided, Visibility, Stamps
  <2>2. Readers'
    BY <1>16 DEF SingleCommitTs, Passed, readerVars, TypeOK, Core, Phases, Participants, OnePhase, Decided, Visibility, Readers, Stamps
  <2>3. Granted'
    BY <1>16 DEF SingleCommitTs, Passed, readerVars, TypeOK, Core, Phases, Participants, OnePhase, Early, Decided, Visibility, Granted
  <2>4. Refused'
    BY <1>16 DEF SingleCommitTs, Passed, readerVars, TypeOK, Core, Phases, Decided, Visibility, Readers, Refused
  <2> QED
    BY <2>1, <2>2, <2>3, <2>4 DEF Visibility
<1>17. ASSUME NEW n0 \in Node, NEW t0 \in Txn, SingleLog(n0, t0) PROVE Visibility'
  <2>1. Stamps'
    BY <1>17 DEF SingleLog, MaxOf, readerVars, TypeOK, Core, Phases, Participants, Answers, OnePhase, Early, Decided, Visibility, Stamps
  <2>2. Readers'
    BY <1>17 DEF SingleLog, MaxOf, readerVars, TypeOK, Core, Phases, Participants, OnePhase, Decided, Visibility, Readers, Stamps
  <2>3. Granted'
    BY <1>17 DEF SingleLog, MaxOf, readerVars, TypeOK, Core, Phases, Participants, OnePhase, Early, Decided, Visibility, Granted
  <2>4. Refused'
    BY <1>17 DEF SingleLog, MaxOf, readerVars, TypeOK, Core, Phases, Decided, Visibility, Readers, Refused
  <2> QED
    BY <2>1, <2>2, <2>3, <2>4 DEF Visibility
<1>18. ASSUME NEW n0 \in Node, NEW m \in 1..MaxTime, CrashRestart(n0, m) PROVE Visibility'
  <2>1. Stamps'
    <3>1. \A n \in Node : maxCommit'[n] # 0
      BY <1>18 DEF CrashRestart, TypeOK, Visibility, Stamps
    <3>2. \A t \in Txn : Kind[t] # "explicit"
      BY <1>18 DEF CrashRestart, TypeOK
    <3>3. ASSUME NEW t \in Txn \ reissued, NEW n \in Part[t]
          PROVE  /\ status'[n][t] = "prepared" => stamp'[n][t] = prepTs[t] /\ prepTs[t] # 0
                 /\ wal[n][t] = "prepared" => prepTs[t] # 0
      <4>1. n \in Node /\ phase[t] # "prefinish"
        BY <3>2, <3>3 DEF Core, Phases
      <4>2. CASE n = n0 /\ phase[t] # "idle"
        <5>1. status'[n][t] = RecoveredStatus(wal[n][t]) /\ stamp'[n][t] = RecoveredStamp(n, t)
          BY <1>18, <3>3, <4>1, <4>2 DEF CrashRestart, TypeOK
        <5> QED
          BY <3>2, <3>3, <4>1, <5>1
          DEF RecoveredStatus, RecoveredStamp, LoggedPrepTs, TypeOK, Visibility, Stamps
      <4>3. CASE ~(n = n0 /\ phase[t] # "idle")
        <5>1. status'[n][t] = status[n][t] /\ stamp'[n][t] = stamp[n][t]
          BY <1>18, <3>3, <4>1, <4>3 DEF CrashRestart, TypeOK
        <5> QED
          BY <3>2, <3>3, <4>1, <5>1 DEF Visibility, Stamps
      <4> QED
        BY <4>2, <4>3
    <3>4. ASSUME NEW t \in Txn \ reissued
          PROVE  /\ phase'[t] \in {"prefinish", "marked", "stamped"} \cup Decided => prepTs[t] # 0
                 /\ commitTs[t] # 0 => phase'[t] \in Decided \cup {"stamped"}
                      \/ \A n \in Part[t] : status'[n][t] = "aborted"
      <4>1. phase'[t] = phase[t] \/ phase'[t] = "aborting"
        BY <1>18 DEF CrashRestart, TypeOK
      <4>2. CASE phase'[t] = phase[t] /\ phase[t] \in Decided \cup {"stamped"}
        BY <4>2 DEF Visibility, Stamps
      <4>3. CASE phase'[t] = phase[t] /\ phase[t] \notin Decided \cup {"stamped"}
        BY <1>18, <4>3 DEF CrashRestart, RecoveredStatus, TypeOK, Core, Participants, Phases, Early, Decided, Visibility, Stamps
      <4>4. CASE phase'[t] = "aborting" /\ phase[t] # "aborting"
        BY <1>18, <4>4 DEF CrashRestart, RecoveredStatus, TypeOK, Decided
      <4> QED
        BY <4>1, <4>2, <4>3, <4>4
    <3> QED
      BY <1>18, <3>1, <3>2, <3>3, <3>4 DEF CrashRestart, Visibility, Stamps
  <2>2. Readers'
    BY <1>18 DEF CrashRestart, RecoveredStatus, RecoveredStamp, LoggedPrepTs, readerVars, TypeOK, Core, Phases, Participants, OnePhase, Decided, Visibility, Readers, Stamps
  <2>3. Granted'
    BY <1>18 DEF CrashRestart, RecoveredStatus, RecoveredStamp, LoggedPrepTs, readerVars, TypeOK, Core, Phases, Participants, OnePhase, Early, Decided, Visibility, Granted
  <2>4. Refused'
    BY <1>18 DEF CrashRestart, RecoveredStatus, RecoveredStamp, LoggedPrepTs, readerVars, TypeOK, Core, Phases, Decided, Visibility, Readers, Refused
  <2> QED
    BY <2>1, <2>2, <2>3, <2>4 DEF Visibility
<1>19. ASSUME NEW r0 \in Reader, BeginRead(r0) PROVE Visibility'
  <2>1. Stamps'
    BY <1>19 DEF BeginRead, Timestamps, coordVars, TypeOK, Core, Phases, Participants, Answers, OnePhase, Early, Decided, Visibility, Stamps
  <2>2. Readers'
    BY <1>19 DEF BeginRead, Timestamps, coordVars, TypeOK, Core, Phases, Participants, OnePhase, Decided, Visibility, Readers, Stamps
  <2>3. Granted'
    BY <1>19 DEF BeginRead, Timestamps, coordVars, TypeOK, Core, Phases, Participants, OnePhase, Early, Decided, Visibility, Granted
  <2>4. Refused'
    BY <1>19 DEF BeginRead, Timestamps, coordVars, TypeOK, Core, Phases, Decided, Visibility, Readers, Refused
  <2> QED
    BY <2>1, <2>2, <2>3, <2>4 DEF Visibility
<1>20. ASSUME NEW r0 \in Reader, NEW n0 \in Node, NEW t0 \in Txn, Read(r0, n0, t0) PROVE Visibility'
  <2>1. Stamps'
    BY <1>20 DEF Read, Visible, MustWait, coordVars, TypeOK, Core, Phases, Participants, Answers, OnePhase, Early, Decided, Visibility, Stamps
  <2>2. Readers'
    BY <1>20 DEF Read, Passed, coordVars, TypeOK, Visibility, Readers
  <2>3. Granted'
    BY <1>20 DEF Read, Visible, MustWait, coordVars, TypeOK, Core, Phases, Participants, OnePhase, Early, Decided, Visibility, Granted
  <2>4. Refused'
    <3>1. ASSUME t0 \notin reissued, phase[t0] \in Decided \cup {"stamped"}, ~Visible(r0, n0, t0)
          PROVE  start[r0] < commitTs[t0]
      <4>1. n0 \in Part[t0] /\ ~MustWait(r0, n0, t0)
        BY <1>20 DEF Read
      <4>2. status[n0][t0] \in {"prepared", "committed"}
        BY <3>1, <4>1 DEF TypeOK, Core, Phases, Answers, OnePhase, Decided
      <4> QED
        BY <3>1, <4>1, <4>2
        DEF Visible, MustWait, TypeOK, Core, Phases, Participants, Visibility, Stamps, Decided
    <3> QED
      BY <1>20, <3>1 DEF Read, coordVars, TypeOK, Visibility, Refused
  <2> QED
    BY <2>1, <2>2, <2>3, <2>4 DEF Visibility
<1>22. ASSUME NEW t0 \in Txn, RollbackPrepared(t0) PROVE Visibility'
  <2>1. Stamps'
    BY <1>22 DEF RollbackPrepared, readerVars, TypeOK, Core, Phases, Participants, Answers, OnePhase, Early, Decided, Visibility, Stamps
  <2>2. Readers'
    BY <1>22 DEF RollbackPrepared, readerVars, TypeOK, Core, Phases, Participants, OnePhase, Decided, Visibility, Readers, Stamps
  <2>3. Granted'
    BY <1>22 DEF RollbackPrepared, readerVars, TypeOK, Core, Phases, Participants, OnePhase, Early, Decided, Visibility, Granted
  <2>4. Refused'
    BY <1>22 DEF RollbackPrepared, readerVars, TypeOK, Core, Phases, Decided, Visibility, Readers, Refused
  <2> QED
    BY <2>1, <2>2, <2>3, <2>4 DEF Visibility
<1>21. CASE UNCHANGED vars
  BY <1>21 DEF vars, TypeOK, Core, Phases, Participants, Answers, OnePhase, Early, Decided, Visibility, Stamps, Readers, Granted, Refused
<1> QED
  BY <1>1, <1>2, <1>3, <1>4, <1>5, <1>6, <1>7, <1>8, <1>9, <1>10, <1>11, <1>12, <1>13, <1>14, <1>15, <1>16, <1>17, <1>18, <1>19, <1>20, <1>21, <1>22
  DEF Next, TxnStep, NodeStep

(* The invariant behind the theorems about readers. *)
DistInv == TypeOK /\ Core /\ Visibility

(* It holds in every reachable state. *)
LEMMA DistInvariant ==
  ASSUME MarksSurvive
  PROVE  Spec => []DistInv
<1>1. Init => DistInv
  BY DistTxnAssumption DEF Init, DistInv, TypeOK, Core, Phases, Participants, Answers, OnePhase,
       Early, Decided, Visibility, Stamps, Readers, Granted, Refused
<1>2. DistInv /\ [Next]_vars => DistInv'
  BY TypeStep, CoreStep, VisibilityStep DEF DistInv
<1> QED
  BY <1>1, <1>2, PTL DEF Spec

(* Atomic visibility and stable snapshots, for any number of nodes,
   transactions and readers, with cached timestamps and without, unless a
   prepared transaction was given a second command (SnapshotConsistent). *)
THEOREM Consistent ==
  ASSUME MarksSurvive
  PROVE  Spec => []SnapshotConsistent
<1>1. DistInv => SnapshotConsistent
  <2> SUFFICES ASSUME DistInv, NEW r \in Reader, NEW t \in Txn \ reissued,
                      seen[r][t] = {"yes", "no"}
               PROVE  FALSE
    BY DEF SnapshotConsistent
  <2>1. phase[t] \in Decided /\ commitTs[t] <= start[r]
    BY DEF DistInv, Visibility, Granted
  <2>2. start[r] < commitTs[t]
    BY <2>1 DEF DistInv, Visibility, Refused
  <2> QED
    BY <2>1, <2>2 DEF DistInv, TypeOK
<1> QED
  BY <1>1, DistInvariant, PTL

(* A reader above the prepare timestamp finds a mark it waits for (ReaderWaits). *)
THEOREM Waits ==
  ASSUME MarksSurvive
  PROVE  Spec => []ReaderWaits
<1>1. DistInv => ReaderWaits
  <2> SUFFICES ASSUME DistInv, NEW r \in Reader, NEW t \in Txn \ reissued, NEW n \in Part[t],
                      commitTs[t] # 0, status[n][t] = "prepared", start[r] > prepTs[t]
               PROVE  MustWait(r, n, t)
    BY DEF ReaderWaits
  <2>1. phase[t] \in Decided \cup {"stamped"}
    BY DEF DistInv, Visibility, Stamps
  <2>2. stamp[n][t] = prepTs[t] /\ prepTs[t] # 0
    BY <2>1 DEF DistInv, Visibility, Stamps, Decided
  <2> QED
    BY <2>2 DEF MustWait
<1> QED
  BY <1>1, DistInvariant, PTL

----------------------------------------------------------------------------
(* What a finished transaction left behind, and what a reader that began
   afterwards was told about it.  This needs neither surviving marks nor a
   single command per prepared transaction. *)
Finished ==
  \A t \in Txn :
    /\ commitTs[t] <= gts
    /\ phase[t] = "done" => \A n \in Part[t] :
         /\ wal[n][t] = "committed" /\ walTs[n][t] = commitTs[t]
         /\ status[n][t] = "committed" /\ stamp[n][t] = commitTs[t]
    /\ phase[t] \in {"marked", "stamped"} => Kind[t] = "single"
    /\ Kind[t] = "single" /\ phase[t] \in {"idle", "running", "marked", "stamped"}
         => \A n \in Part[t] : wal[n][t] = "none"
    /\ \A n \in Part[t] : status[n][t] = "committed" => stamp[n][t] = walTs[n][t] /\ wal[n][t] = "committed"

Told ==
  \A r \in Reader :
    /\ start[r] = 0 => past[r] = {} /\ \A t \in Txn : seen[r][t] = {}
    /\ \A t \in past[r] :
         phase[t] = "done" /\ commitTs[t] <= start[r] /\ "no" \notin seen[r][t]

(* Every step keeps Finished. *)
LEMMA FinishedStep ==
  ASSUME TypeOK, Finished, [Next]_vars
  PROVE  Finished'
<1> USE DistTxnAssumption
<1>1. ASSUME Tick PROVE Finished'
  BY <1>1 DEF Tick, coordVars, readerVars, TypeOK, Finished
<1>2. ASSUME NEW t0 \in Txn, Begin(t0) PROVE Finished'
  BY <1>2 DEF Begin, readerVars, TypeOK, Finished
<1>3. ASSUME NEW t0 \in Txn, StartPrepare(t0) PROVE Finished'
  BY <1>3 DEF StartPrepare, readerVars, TypeOK, Finished
<1>4. ASSUME NEW t0 \in Txn, Prefinish(t0) PROVE Finished'
  BY <1>4 DEF Prefinish, readerVars, TypeOK, Finished
<1>5. ASSUME NEW t0 \in Txn, GetCommitTs(t0) PROVE Finished'
  BY <1>5 DEF GetCommitTs, LastRound, Passed, readerVars, TypeOK, Finished
<1>6. ASSUME NEW t0 \in Txn, CommitTsRejected(t0) PROVE Finished'
  BY <1>6 DEF CommitTsRejected, readerVars, TypeOK, Finished
<1>7. ASSUME NEW t0 \in Txn, Finish(t0) PROVE Finished'
  BY <1>7 DEF Finish, readerVars, TypeOK, Finished
<1>8. ASSUME NEW t0 \in Txn, Abort(t0) PROVE Finished'
  BY <1>8 DEF Abort, readerVars, TypeOK, Finished
<1>9. ASSUME NEW t0 \in Txn, RollbackPrepared(t0) PROVE Finished'
  BY <1>9 DEF RollbackPrepared, readerVars, TypeOK, Finished
<1>10. ASSUME NEW n0 \in Node, NEW t0 \in Txn, LogPrepare(n0, t0) PROVE Finished'
  BY <1>10 DEF LogPrepare, readerVars, TypeOK, Finished
<1>11. ASSUME NEW n0 \in Node, NEW t0 \in Txn, MarkPrepared(n0, t0) PROVE Finished'
  BY <1>11 DEF MarkPrepared, SetCSN, readerVars, TypeOK, Finished
<1>12. ASSUME NEW n0 \in Node, NEW t0 \in Txn, PrefinishMark(n0, t0) PROVE Finished'
  <2>1. CASE wal[n0][t0] = "prepared"
    <3>1. SetCSN(n0, t0, "prepared", prepTs[t0])
      BY <1>12, <2>1 DEF PrefinishMark
    <3> QED
      BY <1>12, <2>1, <3>1 DEF PrefinishMark, SetCSN, TypeOK, Finished
  <2>2. CASE wal[n0][t0] # "prepared"
    BY <1>12, <2>2 DEF PrefinishMark, TypeOK, Finished
  <2> QED
    BY <2>1, <2>2
<1>13. ASSUME NEW n0 \in Node, NEW t0 \in Txn, LogCommit(n0, t0) PROVE Finished'
  BY <1>13 DEF LogCommit, coordVars, readerVars, TypeOK, Finished
<1>14. ASSUME NEW n0 \in Node, NEW t0 \in Txn, MarkCommitted(n0, t0) PROVE Finished'
  BY <1>14 DEF MarkCommitted, SetCSN, coordVars, readerVars, TypeOK, Finished
<1>15. ASSUME NEW n0 \in Node, NEW t0 \in Txn, AbortOnNode(n0, t0) PROVE Finished'
  BY <1>15 DEF AbortOnNode, SetCSN, coordVars, readerVars, TypeOK, Finished
<1>16. ASSUME NEW n0 \in Node, NEW t0 \in Txn, SingleMark(n0, t0) PROVE Finished'
  BY <1>16 DEF SingleMark, SetCSN, readerVars, TypeOK, Finished
<1>17. ASSUME NEW n0 \in Node, NEW t0 \in Txn, SingleCommitTs(n0, t0) PROVE Finished'
  BY <1>17 DEF SingleCommitTs, readerVars, TypeOK, Finished
<1>18. ASSUME NEW n0 \in Node, NEW t0 \in Txn, SingleLog(n0, t0) PROVE Finished'
  BY <1>18 DEF SingleLog, readerVars, TypeOK, Finished
<1>19. ASSUME NEW n0 \in Node, NEW m \in 1..MaxTime, CrashRestart(n0, m) PROVE Finished'
  BY <1>19 DEF CrashRestart, RecoveredStatus, RecoveredStamp, readerVars, TypeOK, Finished
<1>20. ASSUME NEW r0 \in Reader, BeginRead(r0) PROVE Finished'
  BY <1>20 DEF BeginRead, coordVars, TypeOK, Finished
<1>21. ASSUME NEW r0 \in Reader, NEW n0 \in Node, NEW t0 \in Txn, Read(r0, n0, t0) PROVE Finished'
  BY <1>21 DEF Read, coordVars, TypeOK, Finished
<1>22. CASE UNCHANGED vars
  BY <1>22 DEF vars, TypeOK, Finished
<1> QED
  BY <1>1, <1>2, <1>3, <1>4, <1>5, <1>6, <1>7, <1>8, <1>9, <1>10, <1>11, <1>12, <1>13, <1>14, <1>15, <1>16, <1>17, <1>18, <1>19, <1>20, <1>21, <1>22
  DEF Next, TxnStep, NodeStep

(* A finished transaction stays finished, with its timestamp. *)
LEMMA StaysDone ==
  ASSUME TypeOK, Finished, [Next]_vars, NEW t \in Txn, phase[t] = "done"
  PROVE  phase'[t] = "done" /\ commitTs'[t] = commitTs[t]
<1>1. ASSUME NEW n \in Node, NEW m \in 1..MaxTime, CrashRestart(n, m)
      PROVE  phase'[t] = "done" /\ commitTs'[t] = commitTs[t]
  BY <1>1 DEF CrashRestart, TypeOK, Finished
<1>2. ASSUME NEW t0 \in Txn, TxnStep(t0)
      PROVE  phase'[t] = "done" /\ commitTs'[t] = commitTs[t]
  BY <1>2 DEF TxnStep, Begin, StartPrepare, Prefinish, GetCommitTs, LastRound, CommitTsRejected,
              Finish, Abort, RollbackPrepared, TypeOK
<1>3. ASSUME NEW n0 \in Node, NEW t0 \in Txn, NodeStep(n0, t0)
      PROVE  phase'[t] = "done" /\ commitTs'[t] = commitTs[t]
  BY <1>3 DEF NodeStep, LogPrepare, MarkPrepared, PrefinishMark, LogCommit, MarkCommitted,
              AbortOnNode, SingleMark, SingleCommitTs, SingleLog, coordVars, TypeOK
<1> QED
  BY <1>1, <1>2, <1>3 DEF Next, Tick, BeginRead, Read, coordVars, vars

(* Every step keeps Told when timestamps are not cached. *)
LEMMA ToldStep ==
  ASSUME ~GtsCache, TypeOK, Finished, Told, [Next]_vars
  PROVE  Told'
<1>1. ASSUME NEW r0 \in Reader, BeginRead(r0) PROVE Told'
  BY <1>1 DEF BeginRead, Timestamps, coordVars, TypeOK, Finished, Told
<1>2. ASSUME NEW r0 \in Reader, NEW n0 \in Node, NEW t0 \in Txn, Read(r0, n0, t0) PROVE Told'
  <2>1. t0 \in past[r0] => Visible(r0, n0, t0)
    BY <1>2, DistTxnAssumption DEF Read, Visible, TypeOK, Finished, Told
  <2> QED
    BY <1>2, <2>1 DEF Read, coordVars, TypeOK, Told
<1>3. ASSUME UNCHANGED readerVars PROVE Told'
  <2>1. \A r \in Reader : \A t \in past[r] : t \in Txn
    BY DEF TypeOK
  <2> QED
    BY <1>3, <2>1, StaysDone DEF readerVars, Told
<1>4. CASE \E t0 \in Txn : TxnStep(t0)
  BY <1>3, <1>4 DEF TxnStep, Begin, StartPrepare, Prefinish, GetCommitTs, CommitTsRejected, Finish,
              Abort, RollbackPrepared
<1>5. CASE \E n0 \in Node, t0 \in Txn : NodeStep(n0, t0)
  BY <1>3, <1>5 DEF NodeStep, LogPrepare, MarkPrepared, PrefinishMark, LogCommit, MarkCommitted,
              AbortOnNode, SingleMark, SingleCommitTs, SingleLog
<1> QED
  BY <1>1, <1>2, <1>3, <1>4, <1>5 DEF Next, Tick, CrashRestart, vars, readerVars

(* What was committed before the reader began is visible to it, through crashes
   and re-issued commands, as long as timestamps are not cached (ReadsThePast). *)
THEOREM Past ==
  ASSUME ~GtsCache
  PROVE  Spec => []ReadsThePast
<1>1. Init => TypeOK /\ Finished /\ Told
  BY DistTxnAssumption DEF Init, TypeOK, Finished, Told
<1>2. TypeOK /\ Finished /\ Told /\ [Next]_vars => (TypeOK /\ Finished /\ Told)'
  BY TypeStep, FinishedStep, ToldStep
<1>3. Told => ReadsThePast
  BY DEF Told, ReadsThePast
<1> QED
  BY <1>1, <1>2, <1>3, PTL DEF Spec
==============================================================================
