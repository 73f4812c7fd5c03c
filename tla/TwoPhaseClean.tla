---------------------------- MODULE TwoPhaseClean ----------------------------
(***************************************************************************)
(* One implicit distributed transaction whose coordinator may fail at any  *)
(* point, and pg_clean, which finishes what the coordinator left prepared. *)
(*                                                                         *)
(* The start node keeps the outcome in its 2pc file: the participants      *)
(* first, the commit timestamp once it is decided.  The session sends one  *)
(* command at a time to every datanode; a command already sent may run     *)
(* after the session is gone.  pg_clean lists the prepared transactions of *)
(* every node, reads the 2pc file, looks up the nodes it did not find      *)
(* prepared, judges, checks, and finishes the prepared nodes, the start    *)
(* node last.  Each of its queries is a step of its own.                   *)
(***************************************************************************)
EXTENDS Naturals, FiniteSets

CONSTANTS Dn,           \* the datanodes the transaction wrote on
          Coord,        \* the start node
          LocalWrites,  \* may the transaction also have written on the start node?
          Prompt,       \* is a session over within clean_time_interval of its prepare?
          CancelSync,   \* may a user cancel the wait for the standby of the start node?
          MaxCrashes,   \* bound on node crashes
          MaxFails      \* bound on failures of pg_clean and its connections

ASSUME CleanAssumption ==
  /\ Coord \notin Dn
  /\ IsFiniteSet(Dn)
  /\ LocalWrites \subseteq BOOLEAN /\ LocalWrites # {}
  /\ Prompt \in BOOLEAN /\ CancelSync \in BOOLEAN
  /\ MaxCrashes \in Nat /\ MaxFails \in Nat

VARIABLES
  local,    \* XactWriteLocalNode: did the transaction write on the start node?
  session,  \* where the coordinator's session is
  ok,       \* datanodes that answered its current command with success
  cmd,      \* the command on its way to each datanode
  part,     \* state of the transaction on each node
  file,     \* the node's 2pc file: none, without or with the commit timestamp
  lock,     \* who holds the prepared transaction on each datanode (locking_backend)
  walTs,    \* is the commit timestamp in the flushed log of the start node?
  pc,       \* where pg_clean is in its pass
  todo,     \* the nodes it still has to visit in this step
  vstat,    \* txn_stat: what it knows of each node
  vts,      \* global_commit_timestamp: did it read one?
  after,    \* after_first_phase
  gone,     \* did it find no 2pc file, so that global_txn_stat is aborted?
  op,       \* what it decided
  bad,      \* did a node refuse in this round?
  crashes,
  fails

sessionVars == <<local, session, ok>>
nodeVars == <<cmd, part, file, lock, walTs>>
cleanVars == <<pc, todo, vstat, vts, after, gone, op, bad>>
vars == <<sessionVars, nodeVars, cleanVars, crashes, fails>>

----------------------------------------------------------------------------
Node == Dn \cup {Coord}
Part == IF local THEN Node ELSE Dn
Over == {"done", "rolledback", "interrupted"}

Init ==
  /\ local \in LocalWrites
  /\ session = "active"
  /\ ok = {}
  /\ cmd = [n \in Dn |-> "none"]
  /\ part = [n \in Node |-> IF n = Coord /\ ~local THEN "none" ELSE "active"]
  /\ file = [n \in Node |-> "none"]
  /\ lock = [n \in Dn |-> "free"]
  /\ walTs = FALSE
  /\ pc = "idle"
  /\ todo = {}
  /\ vstat = [n \in Node |-> "initial"]
  /\ vts = FALSE
  /\ after = FALSE
  /\ gone = FALSE
  /\ op = "none"
  /\ bad = FALSE
  /\ crashes = 0
  /\ fails = 0

----------------------------------------------------------------------------
(* The coordinator's session: CommitTransaction, or AbortTransaction. *)

(* pgxc_node_remote_prepare. *)
SendPrepare ==
  /\ session = "active"
  /\ session' = "preparing"
  /\ cmd' = [n \in Dn |-> "prepare"]
  /\ UNCHANGED <<local, ok, part, file, lock, walTs, cleanVars, crashes, fails>>

(* All datanodes are prepared.  A start node that wrote prepares itself
   (EndPrepare), any other only records the participants (PrePrepare_Remote);
   the 2pc file says the same in both cases. *)
AllPrepared ==
  /\ session = "preparing"
  /\ ok = Dn
  /\ session' = "prepared"
  /\ ok' = {}
  /\ part' = IF local THEN [part EXCEPT ![Coord] = "prepared"] ELSE part
  /\ file' = [file EXCEPT ![Coord] = "nodes"]
  /\ UNCHANGED <<local, cmd, lock, walTs, cleanVars, crashes, fails>>

\* Mutant: the commit timestamp is not flushed.
FlushCommitTsLazily ==
  /\ session = "prepared"
  /\ session' = "logging"
  /\ UNCHANGED <<local, ok, cmd, part, file, lock, walTs, cleanVars, crashes, fails>>

(* pgxc_node_remote_finish has the commit timestamp; from here on nothing rolls
   back.  record_2pc_commit_timestamp flushes it to the log ... *)
FlushCommitTs ==
  /\ session = "prepared"
  /\ session' = "logging"
  /\ walTs' = TRUE
  /\ UNCHANGED <<local, ok, cmd, part, file, lock, cleanVars, crashes, fails>>

(* ... and, once the standby has it, appends it to the 2pc file. *)
AppendCommitTs ==
  /\ session = "logging"
  /\ session' = "finishing"
  /\ file' = [file EXCEPT ![Coord] = "ts"]
  /\ UNCHANGED <<local, ok, cmd, part, lock, walTs, cleanVars, crashes, fails>>

(* COMMIT PREPARED goes to the datanodes; those it cannot be sent to are skipped. *)
SendCommit ==
  /\ session = "finishing"
  /\ session' = "waiting"
  /\ \E sent \in SUBSET Dn :
       cmd' = [n \in Dn |-> IF n \in sent THEN "commit" ELSE cmd[n]]
  /\ UNCHANGED <<local, ok, part, file, lock, walTs, cleanVars, crashes, fails>>

(* All answered: the start node commits its own part (FinishPreparedTransaction)
   or drops its 2pc file (remove_2pc_records), and the client is told. *)
Complete ==
  /\ session = "waiting"
  /\ ok = Dn
  /\ local => part[Coord] = "prepared"
  /\ session' = "done"
  /\ part' = IF local THEN [part EXCEPT ![Coord] = "committed"] ELSE part
  /\ file' = [file EXCEPT ![Coord] = "none"]
  /\ UNCHANGED <<local, ok, cmd, lock, walTs, cleanVars, crashes, fails>>

\* Mutant: the commit timestamp in the log does not stop a rollback.
AbortAnyway ==
  /\ session \in {"active", "preparing", "prepared", "logging", "finishing", "waiting"}
  /\ session' = "aborting"
  /\ \E sent \in SUBSET {n \in Dn : cmd[n] = "none"} :
       cmd' = [n \in Dn |-> IF n \in sent THEN "rollback" ELSE cmd[n]]
  /\ UNCHANGED <<local, ok, part, file, lock, walTs, cleanVars, crashes, fails>>

(* AbortTransaction while it can abort: ROLLBACK goes to the datanodes whose
   connection still works. *)
Abort ==
  /\ session \in {"active", "preparing", "prepared"}
  /\ session' = "aborting"
  /\ \E sent \in SUBSET {n \in Dn : cmd[n] = "none"} :
       cmd' = [n \in Dn |-> IF n \in sent THEN "rollback" ELSE cmd[n]]
  /\ UNCHANGED <<local, ok, part, file, lock, walTs, cleanVars, crashes, fails>>

(* ... then the start node's own part is rolled back. *)
AbortLocal ==
  /\ session = "aborting"
  /\ session' = "rolledback"
  /\ IF part[Coord] \in {"active", "prepared"}
       THEN /\ part' = [part EXCEPT ![Coord] = "aborted"]
            /\ file' = [file EXCEPT ![Coord] = "none"]
       ELSE UNCHANGED <<part, file>>
  /\ UNCHANGED <<local, ok, cmd, lock, walTs, cleanVars, crashes, fails>>

(* AbortTransaction when it cannot: "2PC is interrupted, it will be committed or
   rollbacked automatically later". *)
Interrupt ==
  /\ session \in {"finishing", "waiting"} \cup (IF CancelSync THEN {"logging"} ELSE {})
  /\ session' = "interrupted"
  /\ UNCHANGED <<local, ok, nodeVars, cleanVars, crashes, fails>>

SessionStep ==
  \/ SendPrepare
  \/ AllPrepared
  \/ FlushCommitTs
  \/ AppendCommitTs
  \/ SendCommit
  \/ Complete
  \/ Abort
  \/ AbortLocal
  \/ Interrupt

----------------------------------------------------------------------------
(* The datanodes. *)

\* A datanode answers the session's current command.
Answer(n) ==
  /\ cmd' = [cmd EXCEPT ![n] = "none"]
  /\ ok' = IF session \in {"preparing", "waiting"} THEN ok \cup {n} ELSE ok

\* FinishPreparedTransaction ends the part of node n; its 2pc file goes with it.
FinishPrepared(n, outcome) ==
  /\ part' = [part EXCEPT ![n] = outcome]
  /\ file' = [file EXCEPT ![n] = "none"]

(* PREPARE TRANSACTION: EndPrepare writes the 2pc file and the prepare record. *)
DnPrepare(n) ==
  /\ cmd[n] = "prepare"
  /\ part[n] = "active"
  /\ part' = [part EXCEPT ![n] = "prepared"]
  /\ file' = [file EXCEPT ![n] = "nodes"]
  /\ Answer(n)
  /\ UNCHANGED <<local, session, lock, walTs, cleanVars, crashes, fails>>

(* COMMIT PREPARED: LockGXact, then the commit timestamp is recorded ... *)
DnLock(n) ==
  /\ cmd[n] = "commit"
  /\ part[n] = "prepared"
  /\ lock[n] = "free"
  /\ lock' = [lock EXCEPT ![n] = "session"]
  /\ file' = [file EXCEPT ![n] = "ts"]
  /\ UNCHANGED <<sessionVars, cmd, part, walTs, cleanVars, crashes, fails>>

(* ... then the transaction is committed. *)
DnCommit(n) ==
  /\ cmd[n] = "commit"
  /\ lock[n] = "session"
  /\ lock' = [lock EXCEPT ![n] = "free"]
  /\ FinishPrepared(n, "committed")
  /\ Answer(n)
  /\ UNCHANGED <<local, session, walTs, cleanVars, crashes, fails>>

(* ROLLBACK or ROLLBACK PREPARED. *)
DnRollback(n) ==
  /\ cmd[n] = "rollback"
  /\ part[n] \in {"active", "prepared"}
  /\ lock[n] = "free"
  /\ FinishPrepared(n, "aborted")
  /\ Answer(n)
  /\ UNCHANGED <<local, session, lock, walTs, cleanVars, crashes, fails>>

(* The command fails: the transaction is not, or no longer, in the state it
   wants (undefined object) or someone else holds it (busy). *)
DnRefuse(n) ==
  /\ \/ cmd[n] = "prepare" /\ part[n] # "active"
     \/ cmd[n] = "commit" /\ (part[n] # "prepared" \/ lock[n] = "clean")
     \/ cmd[n] = "rollback" /\ (part[n] \notin {"active", "prepared"} \/ lock[n] = "clean")
  /\ cmd' = [cmd EXCEPT ![n] = "none"]
  /\ UNCHANGED <<sessionVars, part, file, lock, walTs, cleanVars, crashes, fails>>

(* The session is gone and left nothing to do: the backend ends its transaction. *)
DnOrphan(n) ==
  /\ session \in Over
  /\ cmd[n] = "none"
  /\ part[n] = "active"
  /\ part' = [part EXCEPT ![n] = "aborted"]
  /\ UNCHANGED <<sessionVars, cmd, file, lock, walTs, cleanVars, crashes, fails>>

NodeStep(n) ==
  \/ DnPrepare(n)
  \/ DnLock(n)
  \/ DnCommit(n)
  \/ DnRollback(n)
  \/ DnRefuse(n)
  \/ DnOrphan(n)

----------------------------------------------------------------------------
(* Crashes.  A node restarts at once; prepared parts and flushed records survive. *)

(* A datanode does not flush the commit timestamp on its own; the command it was
   running is lost, be it the session's or pg_clean's. *)
CrashDn(n) ==
  /\ crashes < MaxCrashes
  /\ crashes' = crashes + 1
  /\ part' = [part EXCEPT ![n] = IF @ = "active" THEN "aborted" ELSE @]
  /\ \E f \in {"nodes", file[n]} :
       file' = [file EXCEPT ![n] = IF part[n] = "prepared" THEN f ELSE "none"]
  /\ cmd' = [cmd EXCEPT ![n] = "none"]
  /\ lock' = [lock EXCEPT ![n] = "free"]
  /\ IF pc = "finish" /\ n \in todo
       THEN todo' = todo \ {n} /\ bad' = TRUE
       ELSE UNCHANGED <<todo, bad>>
  /\ UNCHANGED <<sessionVars, walTs, pc, vstat, vts, after, gone, op, fails>>

(* What redo makes of the start node's 2pc file: a flushed commit timestamp is
   appended again, an unflushed record of the participants or of the removal
   may be lost. *)
RedoneFile ==
  IF local
    THEN IF part[Coord] # "prepared" THEN {"none"} ELSE {IF walTs THEN "ts" ELSE "nodes"}
    ELSE CASE walTs /\ file[Coord] = "none" -> {"none", "ts"}
           [] walTs /\ file[Coord] # "none" -> {"ts"}
           [] OTHER -> {"none", file[Coord]}

CrashCoord ==
  /\ crashes < MaxCrashes
  /\ crashes' = crashes + 1
  /\ session' = IF session \in Over THEN session ELSE "interrupted"
  /\ part' = [part EXCEPT ![Coord] = IF @ = "active" THEN "aborted" ELSE @]
  /\ \E f \in RedoneFile : file' = [file EXCEPT ![Coord] = f]
  /\ UNCHANGED <<local, ok, cmd, lock, walTs, cleanVars, fails>>

----------------------------------------------------------------------------
(* pg_clean.  A pass ends in EndPass, whether it did something or not. *)

EndPass ==
  /\ pc' = "idle"
  /\ todo' = {}
  /\ vstat' = [n \in Node |-> "initial"]
  /\ vts' = FALSE
  /\ after' = FALSE
  /\ gone' = FALSE
  /\ op' = "none"
  /\ bad' = FALSE

\* The status pgxc_is_committed reports for the transaction on node n (getTxnStatus).
TxnStatus(n) == IF part[n] \in {"committed", "aborted"} THEN part[n] ELSE "initial"

\* GetTransactionPartNodes found file f: does it hold a commit timestamp?
ReadFile(f, next) ==
  /\ vts' = (f = "ts")
  /\ pc' = next

(* A pass that will find the transaction older than clean_time_interval begins. *)
CleanBegin ==
  /\ pc = "idle"
  /\ Prompt => session \in Over
  /\ pc' = "list"
  /\ todo' = Node
  /\ UNCHANGED <<sessionVars, nodeVars, vstat, vts, after, gone, op, bad, crashes, fails>>

(* getTxnInfoOnNodesAll: the prepared transactions of the coordinators, then of
   the datanodes. *)
CleanList(n) ==
  /\ pc = "list"
  /\ n \in todo
  /\ n # Coord => Coord \notin todo
  /\ vstat' = [vstat EXCEPT ![n] = IF part[n] = "prepared" THEN "prepared" ELSE @]
  /\ todo' = todo \ {n}
  /\ UNCHANGED <<sessionVars, nodeVars, pc, vts, after, gone, op, bad, crashes, fails>>

CleanListed ==
  /\ pc = "list"
  /\ todo = {}
  /\ IF \E n \in Node : vstat[n] = "prepared"
       THEN pc' = "origfile" /\ UNCHANGED <<todo, vstat, vts, after, gone, op, bad>>
       ELSE EndPass
  /\ UNCHANGED <<sessionVars, nodeVars, crashes, fails>>

(* getTxnInfoOnOtherNodes: the 2pc file of the start node that the gid names ... *)
CleanOrigFile ==
  /\ pc = "origfile"
  /\ ReadFile(file[Coord], IF file[Coord] = "none" THEN "otherfile" ELSE "first")
  /\ UNCHANGED <<sessionVars, nodeVars, todo, vstat, after, gone, op, bad, crashes, fails>>

(* ... or else the first one found elsewhere; without any, the start node is
   unknown and the transaction is left alone ... *)
CleanOtherFile ==
  /\ pc = "otherfile"
  /\ LET found == {n \in Dn : file[n] # "none"}
     IN  \/ \E n \in found :
              /\ ReadFile(file[n], IF file[n] = "ts" THEN "first" ELSE "reread")
              /\ UNCHANGED <<todo, vstat, after, gone, op, bad>>
         \/ found = {} /\ EndPass
  /\ UNCHANGED <<sessionVars, nodeVars, crashes, fails>>

(* ... and if that one has no commit timestamp, the start node's again; when it
   has none, the transaction did not pass the prepare phase. *)
CleanReread ==
  /\ pc = "reread"
  /\ ReadFile(file[Coord], IF file[Coord] = "none" THEN "judge" ELSE "first")
  /\ gone' = (file[Coord] = "none")
  /\ UNCHANGED <<sessionVars, nodeVars, todo, vstat, after, op, bad, crashes, fails>>

\* Mutant: the first phase counts as over without a commit timestamp.
FirstPhaseEasily ==
  /\ pc = "first"
  /\ vstat' = vstat
  /\ after' = TRUE
  /\ todo' = {n \in Dn : vstat[n] = "initial"}
  /\ pc' = "lookup"
  /\ UNCHANGED <<sessionVars, nodeVars, vts, gone, op, bad, crashes, fails>>

(* CheckFirstPhase. *)
CleanFirstPhase ==
  /\ pc = "first"
  /\ vstat' = IF local /\ vstat[Coord] = "initial"
                THEN [vstat EXCEPT ![Coord] = TxnStatus(Coord)] ELSE vstat
  /\ after' = (vts /\ (local => vstat'[Coord] = "prepared"))
  /\ todo' = {n \in Dn : vstat[n] = "initial"}
  /\ pc' = "lookup"
  /\ UNCHANGED <<sessionVars, nodeVars, vts, gone, op, bad, crashes, fails>>

(* Get2PCXidByGid and getTxnStatus on a participant not found prepared: its xid
   is in its 2pc file; after the first phase a missing file means committed. *)
CleanLookup(n) ==
  /\ pc = "lookup"
  /\ n \in todo
  /\ todo' = todo \ {n}
  /\ vstat' = [vstat EXCEPT ![n] =
                 CASE file[n] # "none" -> TxnStatus(n)
                   [] file[n] = "none" /\ after -> "committed"
                   [] OTHER -> @]
  /\ UNCHANGED <<sessionVars, nodeVars, pc, vts, after, gone, op, bad, crashes, fails>>

CleanLookedUp ==
  /\ pc = "lookup"
  /\ todo = {}
  /\ pc' = "judge"
  /\ UNCHANGED <<sessionVars, nodeVars, todo, vstat, vts, after, gone, op, bad, crashes, fails>>

\* The flags check_txn_global_status collects; a start node of unknown state
\* counts as aborted.
SawPrepared == \E n \in Part : vstat[n] = "prepared"
SawCommitted == \E n \in Part : vstat[n] = "committed"
SawAborted ==
  \/ gone
  \/ \E n \in Part : vstat[n] = "aborted"
  \/ local /\ vstat[Coord] = "initial"
SawMix == SawCommitted /\ SawAborted

\* Mutant: the recorded commit timestamp is not looked at.
VerdictHasty ==
  CASE SawMix -> "none"
    [] ~SawPrepared -> "none"
    [] SawCommitted -> "committed"
    [] OTHER -> "aborted"

\* Mutant: nothing is recovered when all participants remain prepared.
VerdictStays ==
  CASE SawMix -> "none"
    [] ~SawPrepared -> "none"
    [] SawCommitted \/ vts -> "committed"
    [] OTHER -> "prepared"

\* check_txn_global_status, for a transaction older than clean_time_interval.
Verdict ==
  CASE SawMix -> "none"
    [] ~SawPrepared -> "none"
    [] SawCommitted \/ vts -> "committed"
    [] OTHER -> "aborted"

(* recover2PC; clean_2PC_iscommit refuses to commit without a commit timestamp. *)
CleanJudge ==
  /\ pc = "judge"
  /\ IF Verdict = "none" \/ (Verdict = "committed" /\ ~vts)
       THEN EndPass
       ELSE /\ op' = Verdict
            /\ pc' = "running"
            /\ UNCHANGED <<todo, vstat, vts, after, gone, bad>>
  /\ UNCHANGED <<sessionVars, nodeVars, crashes, fails>>

\* is_xid_running_on_node: does a backend of the start node still have the start
\* xid?  A session that prepared its own node goes on under a new xid.
StartXidRunning == session \notin Over /\ (local => part[Coord] = "active")

(* recovery_a_txn: not while the start xid is running ... *)
CleanRunning ==
  /\ pc = "running"
  /\ IF StartXidRunning
       THEN EndPass
       ELSE pc' = "check" /\ UNCHANGED <<todo, vstat, vts, after, gone, op, bad>>
  /\ UNCHANGED <<sessionVars, nodeVars, crashes, fails>>

(* ... nor while a node found prepared is no longer, or is being finished; it asks
   twice, before and after FinishGIDGTM. *)
CleanCheck ==
  /\ pc \in {"check", "recheck"}
  /\ IF \A n \in Part : vstat[n] = "prepared" =>
            part[n] = "prepared" /\ (n \in Dn => lock[n] = "free")
       THEN /\ pc' = IF pc = "check" THEN "recheck" ELSE "finish"
            /\ todo' = IF pc = "check" THEN {} ELSE {n \in Dn : vstat[n] = "prepared"}
            /\ UNCHANGED <<vstat, vts, after, gone, op, bad>>
       ELSE EndPass
  /\ UNCHANGED <<sessionVars, nodeVars, crashes, fails>>

----------------------------------------------------------------------------
(* clean_2PC_iscommit: COMMIT or ROLLBACK PREPARED on the datanodes found
   prepared, in parallel. *)

\* A datanode records the commit timestamp before it commits for pg_clean too.
CleanDnLock(n) ==
  /\ pc = "finish"
  /\ op = "committed"
  /\ n \in todo
  /\ part[n] = "prepared"
  /\ lock[n] = "free"
  /\ lock' = [lock EXCEPT ![n] = "clean"]
  /\ file' = [file EXCEPT ![n] = "ts"]
  /\ UNCHANGED <<sessionVars, cmd, part, walTs, cleanVars, crashes, fails>>

CleanDn(n) ==
  /\ pc = "finish"
  /\ n \in todo
  /\ part[n] = "prepared"
  /\ lock[n] = IF op = "committed" THEN "clean" ELSE "free"
  /\ lock' = [lock EXCEPT ![n] = "free"]
  /\ FinishPrepared(n, op)
  /\ todo' = todo \ {n}
  /\ UNCHANGED <<sessionVars, cmd, walTs, pc, vstat, vts, after, gone, op, bad, crashes, fails>>

(* The datanode finds the transaction gone or busy. *)
CleanRefused(n) ==
  /\ pc = "finish"
  /\ n \in todo
  /\ part[n] # "prepared" \/ lock[n] = "session"
  /\ todo' = todo \ {n}
  /\ bad' = TRUE
  /\ UNCHANGED <<sessionVars, nodeVars, pc, vstat, vts, after, gone, op, crashes, fails>>

(* The command does not reach the datanode.  The code then gives up the
   transaction without the answers to commands that it has sent already, which may
   run later; here they end within the pass, like those of a pass that went well. *)
CleanUnsent(n) ==
  /\ pc = "finish"
  /\ n \in todo
  /\ lock[n] # "clean"
  /\ fails < MaxFails
  /\ fails' = fails + 1
  /\ todo' = todo \ {n}
  /\ bad' = TRUE
  /\ UNCHANGED <<sessionVars, nodeVars, pc, vstat, vts, after, gone, op, crashes>>

\* Mutant: the start node is finished although a datanode failed.
FinishedRegardless ==
  /\ pc = "finish"
  /\ todo = {}
  /\ IF vstat[Coord] # "prepared"
       THEN EndPass
       ELSE pc' = "orig" /\ UNCHANGED <<todo, vstat, vts, after, gone, op, bad>>
  /\ UNCHANGED <<sessionVars, nodeVars, crashes, fails>>

(* An error of any datanode ends the pass before the start node. *)
CleanFinished ==
  /\ pc = "finish"
  /\ todo = {}
  /\ IF bad \/ vstat[Coord] # "prepared"
       THEN EndPass
       ELSE pc' = "orig" /\ UNCHANGED <<todo, vstat, vts, after, gone, op, bad>>
  /\ UNCHANGED <<sessionVars, nodeVars, crashes, fails>>

(* "last commit or rollback on origcoord if it participate this txn, since after
   commit the 2pc file is deleted on origcoord". *)
CleanOrig ==
  /\ pc = "orig"
  /\ IF part[Coord] = "prepared" THEN FinishPrepared(Coord, op) ELSE UNCHANGED <<part, file>>
  /\ EndPass
  /\ UNCHANGED <<sessionVars, cmd, lock, walTs, crashes, fails>>

(* pg_clean itself fails between two of its queries: a node does not answer, or
   its worker dies.  The launcher starts another one. *)
CleanFail ==
  /\ pc # "idle"
  /\ \A n \in Dn : lock[n] # "clean"
  /\ fails < MaxFails
  /\ fails' = fails + 1
  /\ EndPass
  /\ UNCHANGED <<sessionVars, nodeVars, crashes>>

CleanStep ==
  \/ CleanBegin
  \/ \E n \in Node : CleanList(n)
  \/ CleanListed
  \/ CleanOrigFile
  \/ CleanOtherFile
  \/ CleanReread
  \/ CleanFirstPhase
  \/ \E n \in Dn : CleanLookup(n)
  \/ CleanLookedUp
  \/ CleanJudge
  \/ CleanRunning
  \/ CleanCheck
  \/ \E n \in Dn : CleanDnLock(n)
  \/ \E n \in Dn : CleanDn(n)
  \/ \E n \in Dn : CleanRefused(n)
  \/ CleanFinished
  \/ CleanOrig

Next ==
  \/ SessionStep
  \/ \E n \in Dn : NodeStep(n)
  \/ CleanStep
  \/ \E n \in Dn : CrashDn(n)
  \/ CrashCoord
  \/ \E n \in Dn : CleanUnsent(n)
  \/ CleanFail

(* A session never hangs for ever (Abort or Interrupt end it), the backends of the
   datanodes run, and the launcher of clean2pc starts pg_clean again and again. *)
Spec ==
  /\ Init
  /\ [][Next]_vars
  /\ WF_vars(SessionStep)
  /\ \A n \in Dn : WF_vars(NodeStep(n))
  /\ WF_vars(CleanStep)

----------------------------------------------------------------------------
(* Every variable holds a value of its kind. *)
TypeOK ==
  /\ local \in BOOLEAN
  /\ session \in {"active", "preparing", "prepared", "logging", "finishing", "waiting",
                  "aborting"} \cup Over
  /\ ok \in SUBSET Dn
  /\ cmd \in [Dn -> {"none", "prepare", "commit", "rollback"}]
  /\ part \in [Node -> {"none", "active", "prepared", "committed", "aborted"}]
  /\ file \in [Node -> {"none", "nodes", "ts"}]
  /\ lock \in [Dn -> {"free", "session", "clean"}]
  /\ walTs \in BOOLEAN
  /\ pc \in {"idle", "list", "origfile", "otherfile", "reread", "first", "lookup", "judge",
             "running", "check", "recheck", "finish", "orig"}
  /\ todo \in SUBSET Node
  /\ vstat \in [Node -> {"initial", "prepared", "committed", "aborted"}]
  /\ vts \in BOOLEAN /\ after \in BOOLEAN /\ gone \in BOOLEAN /\ bad \in BOOLEAN
  /\ op \in {"none", "committed", "aborted"}
  /\ crashes \in Nat /\ fails \in Nat

(* The transaction is never committed on one node and aborted on another, whoever
   finished it there: the session, a late command of it, or pg_clean
   (check_txn_global_status). *)
Agreement ==
  \A m, n \in Part : ~(part[m] = "committed" /\ part[n] = "aborted")

(* What the client was told is what happens: after success no node ever aborts,
   after a rollback none ever commits (CommitTransaction, AbortTransaction). *)
OutcomeAsTold ==
  /\ session = "done" => \A n \in Part : part[n] = "committed"
  /\ session = "rolledback" => \A n \in Part : part[n] # "committed"

(* While one node has committed and another is still prepared, the 2pc file of the
   start node holds the commit timestamp that the rest must commit with
   (record_2pc_commit_timestamp, clean_2PC_iscommit finishing the start node last). *)
EvidenceKept ==
  (\E m, n \in Part : part[m] = "committed" /\ part[n] = "prepared") => file[Coord] = "ts"

(* A node that pg_clean takes for committed, be it only because the node has no 2pc
   file any more after the first phase, is committed (Get2PCXidByGid in
   getTxnInfoOnOtherNodes). *)
CommittedIndeed == \A n \in Part : vstat[n] = "committed" => part[n] = "committed"

(* No participant stays prepared, holding its locks, for ever. *)
Resolved == <>[](\A n \in Part : part[n] # "prepared")

----------------------------------------------------------------------------
\* The flush of the commit timestamp on the start node decides for commit; the
\* first rollback, or the end of a session that rolls back, decides for abort.
Decision ==
  IF walTs THEN "commit"
  ELSE IF session = "rolledback" \/ \E n \in Node : part[n] = "aborted" THEN "abort"
  ELSE "none"

Told ==
  CASE session = "done" -> "commit" [] session = "rolledback" -> "abort" [] OTHER -> "none"

Atomic == INSTANCE AtomicCommit WITH decision <- Decision, told <- Told

(* Session, datanodes and pg_clean together carry out one decision, which is
   taken when record_2pc_commit_timestamp has flushed the commit timestamp:
   before that no node commits, after that none rolls back, whatever crashes. *)
ImplementsAtomicCommit == Atomic!Spec
==============================================================================
