------------------------ MODULE TwoPhaseCleanProofs ------------------------
(***************************************************************************)
(* Proofs about TwoPhaseClean for any set of datanodes, any number of      *)
(* crashes and any number of failures of pg_clean: one outcome on all      *)
(* nodes, the one the client was told, and the refinement of AtomicCommit. *)
(*                                                                         *)
(* Two hypotheses come with every safety theorem.  Prompt: pg_clean does   *)
(* not find a transaction older than clean_time_interval whose session is  *)
(* still at work.  ~CancelSync: nobody cancels the wait for the standby    *)
(* while the commit timestamp is being recorded.  Type correctness needs   *)
(* neither.                                                                *)
(*                                                                         *)
(* The inductive invariant has five parts.  SessionInv says what the       *)
(* session has learned and sent, DecisionInv that the flushed commit       *)
(* timestamp decides, EvidenceInv that the 2pc file of the start node      *)
(* shows it as long as somebody needs it, LockInv who may hold a prepared  *)
(* transaction, and PassInv that what pg_clean has read remains a valid    *)
(* ground for its verdict although the nodes go on.                        *)
(***************************************************************************)
EXTENDS TwoPhaseClean, TLAPS

----------------------------------------------------------------------------
(* The session: where it is, what its datanodes have answered, what is still on
   its way to them. *)
SessionInv ==
  /\ session \notin Over => pc = "idle"
  /\ session \in {"active", "prepared", "logging", "finishing"} => ok = {}
  /\ \A n \in Dn : part[n] # "none"
  /\ part[Coord] = "none" <=> ~local
  /\ local /\ session \in {"active", "preparing"} => part[Coord] = "active"
  /\ local /\ session \in {"prepared", "logging", "finishing", "waiting"} =>
       part[Coord] = "prepared"
  /\ session = "preparing" => \A n \in ok : part[n] = "prepared" /\ cmd[n] = "none"
  /\ session = "prepared" => \A n \in Dn : part[n] = "prepared"
  /\ session = "waiting" => \A n \in ok : part[n] = "committed"
  /\ \A n \in Dn :
       /\ session \in {"active", "prepared"} => cmd[n] = "none"
       /\ cmd[n] = "prepare" => ~walTs
       /\ cmd[n] = "commit" => walTs /\ session \in {"waiting", "done", "interrupted"}
       /\ cmd[n] = "rollback" => ~walTs /\ session \in {"aborting", "rolledback", "interrupted"}

(* The flushed commit timestamp is the decision. *)
DecisionInv ==
  /\ walTs => session \in {"logging", "finishing", "waiting", "done", "interrupted"}
  /\ session \in {"logging", "finishing", "waiting", "done"} => walTs
  /\ walTs => \A n \in Part : part[n] \in {"prepared", "committed"}
  /\ \A n \in Node : part[n] = "committed" =>
       walTs /\ session \in {"waiting", "done", "interrupted"}
  /\ \A n \in Node : file[n] = "ts" => walTs

\* The decision may have to be read from the 2pc file of the start node.
Needed == walTs /\ session = "interrupted" /\ (local => part[Coord] = "prepared")

\* Nothing is left to do after a commit.
Finished == session = "done" \/ (local /\ part[Coord] = "committed")

(* The evidence of the decision is there as long as it is needed. *)
EvidenceInv ==
  /\ session \in {"prepared", "logging"} => file[Coord] # "none"
  /\ session \in {"finishing", "waiting"} => file[Coord] = "ts"
  /\ Needed => file[Coord] = "ts"
  /\ Finished => \A n \in Part : part[n] = "committed"

(* A prepared transaction is held by the command that is finishing it. *)
LockInv ==
  \A n \in Dn :
    /\ lock[n] = "session" => part[n] = "prepared" /\ cmd[n] = "commit"
    /\ lock[n] = "clean" =>
         part[n] = "prepared" /\ pc = "finish" /\ op = "committed" /\ n \in todo

Deciding == {"running", "check", "recheck", "finish", "orig"}

(* What pg_clean knows.  After the decision a node it did not find prepared has
   committed, and it has read the decision if anybody still needs it. *)
PassInv ==
  /\ pc = "idle" => \A n \in Node : vstat[n] = "initial"
  /\ vts => walTs
  /\ after => vts /\ pc \in {"lookup", "judge"} \cup Deciding
  /\ pc \in Deciding <=> op # "none"
  /\ op = "committed" => vts
  /\ op = "aborted" => ~walTs
  /\ pc = "lookup" => todo \subseteq {n \in Dn : vstat[n] # "prepared"}
  /\ Needed => pc \notin {"otherfile", "reread"}
  /\ Needed /\ pc \in {"first", "lookup", "judge"} => vts
  /\ Finished => \A n \in Node : vstat[n] # "prepared"
  /\ walTs /\ pc # "idle" =>
       \A n \in Part : vstat[n] # "prepared" /\ (pc = "list" => n \notin todo) =>
         part[n] = "committed"
  /\ pc = "finish" /\ ~bad =>
       \A n \in Dn \ todo : vstat[n] = "prepared" => part[n] = op
  /\ pc = "orig" /\ op = "committed" => \A n \in Dn : part[n] = "committed"
  /\ CommittedIndeed

(* The inductive invariant. *)
CleanInv == TypeOK /\ SessionInv /\ DecisionInv /\ EvidenceInv /\ LockInv /\ PassInv

----------------------------------------------------------------------------
(* What a step keeps of the types also needs that a pass that finishes nodes has
   decided. *)
TypeInv == TypeOK /\ (pc \in Deciding => op # "none")

\* The part of the types that the end of a pass sets.
PassTypes ==
  /\ pc \in {"idle", "list", "origfile", "otherfile", "reread", "first", "lookup", "judge",
            "running", "check", "recheck", "finish", "orig"}
  /\ todo \in SUBSET Node
  /\ vstat \in [Node -> {"initial", "prepared", "committed", "aborted"}]
  /\ vts \in BOOLEAN /\ after \in BOOLEAN /\ gone \in BOOLEAN /\ bad \in BOOLEAN
  /\ op \in {"none", "committed", "aborted"}

(* The end of a pass sets all that pg_clean knows. *)
LEMMA EndPassTypes ==
  ASSUME EndPass
  PROVE  PassTypes' /\ pc' = "idle"
BY DEF EndPass, PassTypes

(* Every step keeps the types. *)
LEMMA TypeStep ==
  ASSUME TypeInv, [Next]_vars
  PROVE  TypeInv'
<1> USE CleanAssumption DEF TypeInv, TypeOK, Deciding, Over, Node, sessionVars, nodeVars, cleanVars
<1>1. CASE SendPrepare
  BY <1>1 DEF SendPrepare
<1>2. CASE AllPrepared
  BY <1>2 DEF AllPrepared
<1>3. CASE FlushCommitTs
  BY <1>3 DEF FlushCommitTs
<1>4. CASE AppendCommitTs
  BY <1>4 DEF AppendCommitTs
<1>5. CASE SendCommit
  BY <1>5 DEF SendCommit
<1>6. CASE Complete
  BY <1>6 DEF Complete
<1>7. CASE Abort
  BY <1>7 DEF Abort
<1>8. CASE AbortLocal
  BY <1>8 DEF AbortLocal
<1>9. CASE Interrupt
  BY <1>9 DEF Interrupt
<1>10. ASSUME NEW n \in Dn, DnPrepare(n) PROVE TypeInv'
  BY <1>10 DEF DnPrepare, Answer
<1>11. ASSUME NEW n \in Dn, DnLock(n) PROVE TypeInv'
  BY <1>11 DEF DnLock
<1>12. ASSUME NEW n \in Dn, DnCommit(n) PROVE TypeInv'
  BY <1>12 DEF DnCommit, Answer, FinishPrepared
<1>13. ASSUME NEW n \in Dn, DnRollback(n) PROVE TypeInv'
  BY <1>13 DEF DnRollback, Answer, FinishPrepared
<1>14. ASSUME NEW n \in Dn, DnRefuse(n) PROVE TypeInv'
  BY <1>14 DEF DnRefuse
<1>15. ASSUME NEW n \in Dn, DnOrphan(n) PROVE TypeInv'
  BY <1>15 DEF DnOrphan
<1>16. CASE CleanBegin
  BY <1>16 DEF CleanBegin
<1>17. ASSUME NEW n \in Node, CleanList(n) PROVE TypeInv'
  BY <1>17 DEF CleanList
<1>18. CASE CleanListed
  <2>1. CASE EndPass
    BY <1>18, <2>1, EndPassTypes DEF CleanListed, PassTypes
  <2>2. CASE pc' = "origfile" /\ UNCHANGED <<todo, vstat, vts, after, gone, op, bad>>
    BY <1>18, <2>2 DEF CleanListed
  <2> QED
    BY <1>18, <2>1, <2>2 DEF CleanListed
<1>19. CASE CleanOrigFile
  BY <1>19 DEF CleanOrigFile, ReadFile
<1>20. CASE CleanOtherFile
  <2>1. CASE EndPass
    BY <1>20, <2>1, EndPassTypes DEF CleanOtherFile, PassTypes
  <2>2. ASSUME NEW n \in Dn, ReadFile(file[n], IF file[n] = "ts" THEN "first" ELSE "reread"),
               UNCHANGED <<todo, vstat, after, gone, op, bad>>
        PROVE  TypeInv'
    BY <1>20, <2>2 DEF CleanOtherFile, ReadFile
  <2> QED
    BY <1>20, <2>1, <2>2 DEF CleanOtherFile
<1>21. CASE CleanReread
  BY <1>21 DEF CleanReread, ReadFile
<1>22. CASE CleanFirstPhase
  BY <1>22 DEF CleanFirstPhase, TxnStatus
<1>23. ASSUME NEW n \in Dn, CleanLookup(n) PROVE TypeInv'
  BY <1>23 DEF CleanLookup, TxnStatus
<1>24. CASE CleanLookedUp
  BY <1>24 DEF CleanLookedUp
<1>25. CASE CleanJudge
  BY <1>25 DEF CleanJudge, EndPass, Verdict
<1>26. CASE CleanRunning
  <2>1. CASE EndPass
    BY <1>26, <2>1, EndPassTypes DEF CleanRunning, PassTypes
  <2>2. CASE pc' = "check" /\ UNCHANGED <<todo, vstat, vts, after, gone, op, bad>>
    BY <1>26, <2>2 DEF CleanRunning
  <2> QED
    BY <1>26, <2>1, <2>2 DEF CleanRunning
<1>27. CASE CleanCheck
  <2>1. CASE EndPass
    BY <1>27, <2>1, EndPassTypes DEF CleanCheck, PassTypes
  <2>2. CASE /\ pc' = IF pc = "check" THEN "recheck" ELSE "finish"
             /\ todo' = IF pc = "check" THEN {} ELSE {n \in Dn : vstat[n] = "prepared"}
             /\ UNCHANGED <<vstat, vts, after, gone, op, bad>>
    BY <1>27, <2>2 DEF CleanCheck
  <2> QED
    BY <1>27, <2>1, <2>2 DEF CleanCheck
<1>28. ASSUME NEW n \in Dn, CleanDnLock(n) PROVE TypeInv'
  BY <1>28 DEF CleanDnLock
<1>29. ASSUME NEW n \in Dn, CleanDn(n) PROVE TypeInv'
  BY <1>29 DEF CleanDn, FinishPrepared
<1>30. ASSUME NEW n \in Dn, CleanRefused(n) PROVE TypeInv'
  BY <1>30 DEF CleanRefused
<1>31. CASE CleanFinished
  BY <1>31 DEF CleanFinished, EndPass
<1>32. CASE CleanOrig
  <2>1. PassTypes' /\ pc' = "idle"
    BY <1>32, EndPassTypes DEF CleanOrig
  <2> QED
    BY <1>32, <2>1 DEF CleanOrig, FinishPrepared, PassTypes
<1>33. ASSUME NEW n \in Dn, CrashDn(n) PROVE TypeInv'
  <2>1. PICK f \in {"nodes", file[n]} :
          file' = [file EXCEPT ![n] = IF part[n] = "prepared" THEN f ELSE "none"]
    BY <1>33 DEF CrashDn
  <2>2. file' \in [Node -> {"none", "nodes", "ts"}]
    BY <2>1
  <2>3. todo' \in SUBSET Node /\ bad' \in BOOLEAN
    BY <1>33 DEF CrashDn
  <2> QED
    BY <1>33, <2>2, <2>3 DEF CrashDn
<1>34. CASE CrashCoord
  BY <1>34 DEF CrashCoord, RedoneFile
<1>35. ASSUME NEW n \in Dn, CleanUnsent(n) PROVE TypeInv'
  BY <1>35 DEF CleanUnsent
<1>36. CASE CleanFail
  <2>1. PassTypes' /\ pc' = "idle"
    BY <1>36, EndPassTypes DEF CleanFail
  <2> QED
    BY <1>36, <2>1 DEF CleanFail, PassTypes
<1>37. CASE UNCHANGED vars
  BY <1>37 DEF vars
<1> QED
  BY <1>1, <1>2, <1>3, <1>4, <1>5, <1>6, <1>7, <1>8, <1>9, <1>10, <1>11, <1>12, <1>13,
     <1>14, <1>15, <1>16, <1>17, <1>18, <1>19, <1>20, <1>21, <1>22, <1>23, <1>24,
     <1>25, <1>26, <1>27, <1>28, <1>29, <1>30, <1>31, <1>32, <1>33, <1>34, <1>35,
     <1>36, <1>37
  DEF Next, SessionStep, NodeStep, CleanStep

(* Every variable keeps its type, whatever pg_clean and the session do
   (the 2pc file, the lock of a prepared transaction, the verdicts). *)
THEOREM CleanTypes == Spec => []TypeOK
<1>1. Init => TypeInv
  <2> SUFFICES ASSUME Init PROVE TypeInv
    OBVIOUS
  <2>1. local \in BOOLEAN
    BY CleanAssumption, Zenon DEF Init
  <2> QED
    BY <2>1 DEF Init, TypeInv, TypeOK, Deciding, Over, Node
<1>2. TypeInv /\ [Next]_vars => TypeInv'
  BY TypeStep
<1>3. TypeInv => TypeOK
  BY DEF TypeInv
<1> QED
  BY <1>1, <1>2, <1>3, PTL DEF Spec

----------------------------------------------------------------------------
(* The steps in which pg_clean only reads, thinks, or gives up. *)
Observes ==
  \/ CleanBegin
  \/ \E n \in Node : CleanList(n)
  \/ CleanListed
  \/ CleanOrigFile
  \/ CleanOtherFile
  \/ CleanReread
  \/ CleanFirstPhase
  \/ \E n \in Dn : CleanLookup(n)
  \/ CleanLookedUp
  \/ CleanJudge
  \/ CleanRunning
  \/ CleanCheck
  \/ \E n \in Dn : CleanRefused(n)
  \/ CleanFinished
  \/ \E n \in Dn : CleanUnsent(n)
  \/ CleanFail

(* They change no node, and are taken only when the session is over. *)
LEMMA ObservesOnly ==
  ASSUME Prompt, SessionInv, Observes
  PROVE  session \in Over /\ UNCHANGED <<sessionVars, nodeVars>>
<1>1. CASE CleanBegin
  BY <1>1 DEF CleanBegin, SessionInv
<1>2. ASSUME NEW n \in Node, CleanList(n)
      PROVE  session \in Over /\ UNCHANGED <<sessionVars, nodeVars>>
  BY <1>2 DEF CleanList, SessionInv
<1>3. CASE CleanListed
  BY <1>3 DEF CleanListed, SessionInv
<1>4. CASE CleanOrigFile
  BY <1>4 DEF CleanOrigFile, SessionInv
<1>5. CASE CleanOtherFile
  BY <1>5 DEF CleanOtherFile, SessionInv
<1>6. CASE CleanReread
  BY <1>6 DEF CleanReread, SessionInv
<1>7. CASE CleanFirstPhase
  BY <1>7 DEF CleanFirstPhase, SessionInv
<1>8. ASSUME NEW n \in Dn, CleanLookup(n)
      PROVE  session \in Over /\ UNCHANGED <<sessionVars, nodeVars>>
  BY <1>8 DEF CleanLookup, SessionInv
<1>9. CASE CleanLookedUp
  BY <1>9 DEF CleanLookedUp, SessionInv
<1>10. CASE CleanJudge
  BY <1>10 DEF CleanJudge, SessionInv
<1>11. CASE CleanRunning
  BY <1>11 DEF CleanRunning, SessionInv
<1>12. CASE CleanCheck
  BY <1>12 DEF CleanCheck, SessionInv
<1>13. ASSUME NEW n \in Dn, CleanRefused(n)
      PROVE  session \in Over /\ UNCHANGED <<sessionVars, nodeVars>>
  BY <1>13 DEF CleanRefused, SessionInv
<1>14. CASE CleanFinished
  BY <1>14 DEF CleanFinished, SessionInv
<1>15. ASSUME NEW n \in Dn, CleanUnsent(n)
      PROVE  session \in Over /\ UNCHANGED <<sessionVars, nodeVars>>
  BY <1>15 DEF CleanUnsent, SessionInv
<1>16. CASE CleanFail
  BY <1>16 DEF CleanFail, SessionInv
<1> QED
  BY <1>1, <1>2, <1>3, <1>4, <1>5, <1>6, <1>7, <1>8, <1>9, <1>10, <1>11, <1>12, <1>13,
     <1>14, <1>15, <1>16
  DEF Observes

(* What the session knows stays true. *)
LEMMA SessionStepInv ==
  ASSUME Prompt, TypeOK, SessionInv, DecisionInv, PassInv, [Next]_vars
  PROVE  SessionInv'
<1> USE CleanAssumption DEF SessionInv, TypeOK, Over, Node, sessionVars, nodeVars, cleanVars
<1>1. CASE SendPrepare
  BY <1>1 DEF SendPrepare, DecisionInv
<1>2. CASE AllPrepared
  BY <1>2 DEF AllPrepared
<1>3. CASE FlushCommitTs
  BY <1>3 DEF FlushCommitTs
<1>4. CASE AppendCommitTs
  BY <1>4 DEF AppendCommitTs
<1>5. CASE SendCommit
  BY <1>5 DEF SendCommit, DecisionInv
<1>6. CASE Complete
  BY <1>6 DEF Complete
<1>7. CASE Abort
  BY <1>7 DEF Abort, DecisionInv
<1>8. CASE AbortLocal
  BY <1>8 DEF AbortLocal
<1>9. CASE Interrupt
  BY <1>9 DEF Interrupt
<1>10. ASSUME NEW n \in Dn, DnPrepare(n) PROVE SessionInv'
  BY <1>10 DEF DnPrepare, Answer, DecisionInv
<1>11. ASSUME NEW n \in Dn, DnLock(n) PROVE SessionInv'
  BY <1>11 DEF DnLock
<1>12. ASSUME NEW n \in Dn, DnCommit(n) PROVE SessionInv'
  BY <1>12 DEF DnCommit, Answer, FinishPrepared
<1>13. ASSUME NEW n \in Dn, DnRollback(n) PROVE SessionInv'
  BY <1>13 DEF DnRollback, Answer, FinishPrepared
<1>14. ASSUME NEW n \in Dn, DnRefuse(n) PROVE SessionInv'
  BY <1>14 DEF DnRefuse
<1>15. ASSUME NEW n \in Dn, DnOrphan(n) PROVE SessionInv'
  BY <1>15 DEF DnOrphan
<1>16. ASSUME NEW n \in Dn, CleanDnLock(n) PROVE SessionInv'
  BY <1>16 DEF CleanDnLock
<1>17. ASSUME NEW n \in Dn, CleanDn(n) PROVE SessionInv'
  BY <1>17 DEF CleanDn, FinishPrepared, PassInv, Deciding
<1>18. CASE CleanOrig
  BY <1>18 DEF CleanOrig, FinishPrepared, PassInv, Deciding, EndPass
<1>19. ASSUME NEW n \in Dn, CrashDn(n) PROVE SessionInv'
  BY <1>19 DEF CrashDn
<1>20. CASE CrashCoord
  BY <1>20 DEF CrashCoord, RedoneFile
<1>21. CASE Observes
  BY <1>21, ObservesOnly
<1>22. CASE UNCHANGED vars
  BY <1>22 DEF vars
<1> QED
  BY <1>1, <1>2, <1>3, <1>4, <1>5, <1>6, <1>7, <1>8, <1>9, <1>10, <1>11, <1>12, <1>13,
     <1>14, <1>15, <1>16, <1>17, <1>18, <1>19, <1>20, <1>21, <1>22
  DEF Next, SessionStep, NodeStep, CleanStep, Observes

(* Only the flushed commit timestamp lets a node commit, and it lets none abort. *)
LEMMA DecisionStepInv ==
  ASSUME Prompt, TypeOK, SessionInv, DecisionInv, PassInv, [Next]_vars
  PROVE  DecisionInv'
<1> USE CleanAssumption DEF DecisionInv, SessionInv, TypeOK, Part, Over, Node,
      sessionVars, nodeVars, cleanVars
<1>1. CASE SendPrepare
  BY <1>1 DEF SendPrepare
<1>2. CASE AllPrepared
  BY <1>2 DEF AllPrepared
<1>3. CASE FlushCommitTs
  BY <1>3 DEF FlushCommitTs
<1>4. CASE AppendCommitTs
  BY <1>4 DEF AppendCommitTs
<1>5. CASE SendCommit
  BY <1>5 DEF SendCommit
<1>6. CASE Complete
  BY <1>6 DEF Complete
<1>7. CASE Abort
  BY <1>7 DEF Abort
<1>8. CASE AbortLocal
  BY <1>8 DEF AbortLocal
<1>9. CASE Interrupt
  BY <1>9 DEF Interrupt
<1>10. ASSUME NEW n \in Dn, DnPrepare(n) PROVE DecisionInv'
  BY <1>10 DEF DnPrepare, Answer
<1>11. ASSUME NEW n \in Dn, DnLock(n) PROVE DecisionInv'
  BY <1>11 DEF DnLock
<1>12. ASSUME NEW n \in Dn, DnCommit(n) PROVE DecisionInv'
  BY <1>12 DEF DnCommit, Answer, FinishPrepared
<1>13. ASSUME NEW n \in Dn, DnRollback(n) PROVE DecisionInv'
  BY <1>13 DEF DnRollback, Answer, FinishPrepared
<1>14. ASSUME NEW n \in Dn, DnRefuse(n) PROVE DecisionInv'
  BY <1>14 DEF DnRefuse
<1>15. ASSUME NEW n \in Dn, DnOrphan(n) PROVE DecisionInv'
  BY <1>15 DEF DnOrphan
<1>16. ASSUME NEW n \in Dn, CleanDnLock(n) PROVE DecisionInv'
  BY <1>16 DEF CleanDnLock, PassInv
<1>17. ASSUME NEW n \in Dn, CleanDn(n) PROVE DecisionInv'
  BY <1>17 DEF CleanDn, FinishPrepared, PassInv, Deciding
<1>18. CASE CleanOrig
  BY <1>18 DEF CleanOrig, FinishPrepared, PassInv, Deciding
<1>19. ASSUME NEW n \in Dn, CrashDn(n) PROVE DecisionInv'
  BY <1>19 DEF CrashDn
<1>20. CASE CrashCoord
  BY <1>20 DEF CrashCoord, RedoneFile
<1>21. CASE Observes
  BY <1>21, ObservesOnly
<1>22. CASE UNCHANGED vars
  BY <1>22 DEF vars
<1> QED
  BY <1>1, <1>2, <1>3, <1>4, <1>5, <1>6, <1>7, <1>8, <1>9, <1>10, <1>11, <1>12, <1>13,
     <1>14, <1>15, <1>16, <1>17, <1>18, <1>19, <1>20, <1>21, <1>22
  DEF Next, SessionStep, NodeStep, CleanStep, Observes

(* The 2pc file of the start node outlives the last node that needs it. *)
LEMMA EvidenceStepInv ==
  ASSUME Prompt, ~CancelSync, TypeOK, SessionInv, DecisionInv, EvidenceInv, PassInv, [Next]_vars
  PROVE  EvidenceInv'
<1> USE CleanAssumption DEF EvidenceInv, Needed, Finished, SessionInv, DecisionInv, TypeOK,
      Part, Over, Node, sessionVars, nodeVars, cleanVars
<1>1. CASE SendPrepare
  BY <1>1 DEF SendPrepare
<1>2. CASE AllPrepared
  BY <1>2 DEF AllPrepared
<1>3. CASE FlushCommitTs
  BY <1>3 DEF FlushCommitTs
<1>4. CASE AppendCommitTs
  BY <1>4 DEF AppendCommitTs
<1>5. CASE SendCommit
  BY <1>5 DEF SendCommit
<1>6. CASE Complete
  BY <1>6 DEF Complete
<1>7. CASE Abort
  BY <1>7 DEF Abort
<1>8. CASE AbortLocal
  BY <1>8 DEF AbortLocal
<1>9. CASE Interrupt
  BY <1>9 DEF Interrupt
<1>10. ASSUME NEW n \in Dn, DnPrepare(n) PROVE EvidenceInv'
  BY <1>10 DEF DnPrepare, Answer
<1>11. ASSUME NEW n \in Dn, DnLock(n) PROVE EvidenceInv'
  BY <1>11 DEF DnLock
<1>12. ASSUME NEW n \in Dn, DnCommit(n) PROVE EvidenceInv'
  BY <1>12 DEF DnCommit, Answer, FinishPrepared
<1>13. ASSUME NEW n \in Dn, DnRollback(n) PROVE EvidenceInv'
  BY <1>13 DEF DnRollback, Answer, FinishPrepared
<1>14. ASSUME NEW n \in Dn, DnRefuse(n) PROVE EvidenceInv'
  BY <1>14 DEF DnRefuse
<1>15. ASSUME NEW n \in Dn, DnOrphan(n) PROVE EvidenceInv'
  BY <1>15 DEF DnOrphan
<1>16. ASSUME NEW n \in Dn, CleanDnLock(n) PROVE EvidenceInv'
  BY <1>16 DEF CleanDnLock, PassInv
<1>17. ASSUME NEW n \in Dn, CleanDn(n) PROVE EvidenceInv'
  BY <1>17 DEF CleanDn, FinishPrepared, PassInv, Deciding
<1>18. CASE CleanOrig
  BY <1>18 DEF CleanOrig, FinishPrepared, PassInv, Deciding
<1>19. ASSUME NEW n \in Dn, CrashDn(n) PROVE EvidenceInv'
  BY <1>19 DEF CrashDn
<1>20. CASE CrashCoord
  BY <1>20 DEF CrashCoord, RedoneFile
<1>21. CASE Observes
  BY <1>21, ObservesOnly
<1>22. CASE UNCHANGED vars
  BY <1>22 DEF vars
<1> QED
  BY <1>1, <1>2, <1>3, <1>4, <1>5, <1>6, <1>7, <1>8, <1>9, <1>10, <1>11, <1>12, <1>13,
     <1>14, <1>15, <1>16, <1>17, <1>18, <1>19, <1>20, <1>21, <1>22
  DEF Next, SessionStep, NodeStep, CleanStep, Observes

(* A prepared transaction that is held stays prepared until its holder ends it. *)
LEMMA LockStepInv ==
  ASSUME Prompt, TypeOK, SessionInv, LockInv, PassInv, [Next]_vars
  PROVE  LockInv'
<1> USE CleanAssumption DEF LockInv, SessionInv, TypeOK, Over, Node,
      sessionVars, nodeVars, cleanVars
<1>1. CASE SendPrepare
  BY <1>1 DEF SendPrepare
<1>2. CASE AllPrepared
  BY <1>2 DEF AllPrepared
<1>3. CASE FlushCommitTs
  BY <1>3 DEF FlushCommitTs
<1>4. CASE AppendCommitTs
  BY <1>4 DEF AppendCommitTs
<1>5. CASE SendCommit
  BY <1>5 DEF SendCommit
<1>6. CASE Complete
  BY <1>6 DEF Complete
<1>7. CASE Abort
  BY <1>7 DEF Abort
<1>8. CASE AbortLocal
  BY <1>8 DEF AbortLocal
<1>9. CASE Interrupt
  BY <1>9 DEF Interrupt
<1>10. ASSUME NEW n \in Dn, DnPrepare(n) PROVE LockInv'
  BY <1>10 DEF DnPrepare, Answer
<1>11. ASSUME NEW n \in Dn, DnLock(n) PROVE LockInv'
  BY <1>11 DEF DnLock
<1>12. ASSUME NEW n \in Dn, DnCommit(n) PROVE LockInv'
  BY <1>12 DEF DnCommit, Answer, FinishPrepared
<1>13. ASSUME NEW n \in Dn, DnRollback(n) PROVE LockInv'
  BY <1>13 DEF DnRollback, Answer, FinishPrepared
<1>14. ASSUME NEW n \in Dn, DnRefuse(n) PROVE LockInv'
  BY <1>14 DEF DnRefuse
<1>15. ASSUME NEW n \in Dn, DnOrphan(n) PROVE LockInv'
  BY <1>15 DEF DnOrphan
<1>16. ASSUME NEW n \in Dn, CleanDnLock(n) PROVE LockInv'
  BY <1>16 DEF CleanDnLock
<1>17. ASSUME NEW n \in Dn, CleanDn(n) PROVE LockInv'
  BY <1>17 DEF CleanDn, FinishPrepared
<1>18. CASE CleanOrig
  BY <1>18 DEF CleanOrig, FinishPrepared
<1>19. ASSUME NEW n \in Dn, CrashDn(n) PROVE LockInv'
  BY <1>19 DEF CrashDn
<1>20. CASE CrashCoord
  BY <1>20 DEF CrashCoord, RedoneFile
<1>21. CASE Observes
  <2>1. CASE CleanBegin
    BY <2>1 DEF CleanBegin
  <2>2. ASSUME NEW n \in Node, CleanList(n) PROVE LockInv'
    BY <2>2 DEF CleanList
  <2>3. CASE CleanListed
    BY <2>3 DEF CleanListed, EndPass
  <2>4. CASE CleanOrigFile
    BY <2>4 DEF CleanOrigFile, ReadFile
  <2>5. CASE CleanOtherFile
    BY <2>5 DEF CleanOtherFile, ReadFile, EndPass
  <2>6. CASE CleanReread
    BY <2>6 DEF CleanReread, ReadFile
  <2>7. CASE CleanFirstPhase
    BY <2>7 DEF CleanFirstPhase, TxnStatus
  <2>8. ASSUME NEW n \in Dn, CleanLookup(n) PROVE LockInv'
    BY <2>8 DEF CleanLookup, TxnStatus
  <2>9. CASE CleanLookedUp
    BY <2>9 DEF CleanLookedUp
  <2>10. CASE CleanJudge
    BY <2>10 DEF CleanJudge, EndPass, Verdict
  <2>11. CASE CleanRunning
    BY <2>11 DEF CleanRunning, EndPass
  <2>12. CASE CleanCheck
    BY <2>12 DEF CleanCheck, EndPass
  <2>13. ASSUME NEW n \in Dn, CleanRefused(n) PROVE LockInv'
    BY <2>13 DEF CleanRefused
  <2>14. CASE CleanFinished
    BY <2>14 DEF CleanFinished, EndPass
  <2>15. ASSUME NEW n \in Dn, CleanUnsent(n) PROVE LockInv'
    BY <2>15 DEF CleanUnsent
  <2>16. CASE CleanFail
    BY <2>16 DEF CleanFail, EndPass
  <2> QED
    BY <1>21, <2>1, <2>2, <2>3, <2>4, <2>5, <2>6, <2>7, <2>8, <2>9, <2>10, <2>11, <2>12,
       <2>13, <2>14, <2>15, <2>16
    DEF Observes
<1>22. CASE UNCHANGED vars
  BY <1>22 DEF vars
<1> QED
  BY <1>1, <1>2, <1>3, <1>4, <1>5, <1>6, <1>7, <1>8, <1>9, <1>10, <1>11, <1>12, <1>13,
     <1>14, <1>15, <1>16, <1>17, <1>18, <1>19, <1>20, <1>21, <1>22
  DEF Next, SessionStep, NodeStep, CleanStep, Observes

(* What pg_clean has read remains a valid ground for what it does. *)
LEMMA PassStepInv ==
  ASSUME Prompt, TypeOK, SessionInv, DecisionInv, EvidenceInv, LockInv, PassInv, [Next]_vars
  PROVE  PassInv'
<1> USE CleanAssumption DEF PassInv, SessionInv, DecisionInv, EvidenceInv, Needed, Finished,
      CommittedIndeed, Deciding, TypeOK, Part, Over, Node, sessionVars, nodeVars, cleanVars
<1>1. CASE SendPrepare
  BY <1>1 DEF SendPrepare
<1>2. CASE AllPrepared
  BY <1>2 DEF AllPrepared
<1>3. CASE FlushCommitTs
  BY <1>3 DEF FlushCommitTs
<1>4. CASE AppendCommitTs
  BY <1>4 DEF AppendCommitTs
<1>5. CASE SendCommit
  BY <1>5 DEF SendCommit
<1>6. CASE Complete
  BY <1>6 DEF Complete
<1>7. CASE Abort
  BY <1>7 DEF Abort
<1>8. CASE AbortLocal
  BY <1>8 DEF AbortLocal
<1>9. CASE Interrupt
  BY <1>9 DEF Interrupt
<1>10. ASSUME NEW n \in Dn, DnPrepare(n) PROVE PassInv'
  BY <1>10 DEF DnPrepare, Answer
<1>11. ASSUME NEW n \in Dn, DnLock(n) PROVE PassInv'
  BY <1>11 DEF DnLock
<1>12. ASSUME NEW n \in Dn, DnCommit(n) PROVE PassInv'
  BY <1>12 DEF DnCommit, Answer, FinishPrepared
<1>13. ASSUME NEW n \in Dn, DnRollback(n) PROVE PassInv'
  BY <1>13 DEF DnRollback, Answer, FinishPrepared
<1>14. ASSUME NEW n \in Dn, DnRefuse(n) PROVE PassInv'
  BY <1>14 DEF DnRefuse
<1>15. ASSUME NEW n \in Dn, DnOrphan(n) PROVE PassInv'
  BY <1>15 DEF DnOrphan
<1>16. ASSUME NEW n \in Dn, CleanDnLock(n) PROVE PassInv'
  BY <1>16 DEF CleanDnLock
<1>17. ASSUME NEW n \in Dn, CleanDn(n) PROVE PassInv'
  BY <1>17 DEF CleanDn, FinishPrepared
<1>18. CASE CleanOrig
  BY <1>18 DEF CleanOrig, FinishPrepared, EndPass
<1>19. ASSUME NEW n \in Dn, CrashDn(n) PROVE PassInv'
  BY <1>19 DEF CrashDn
<1>20. CASE CrashCoord
  BY <1>20 DEF CrashCoord, RedoneFile
<1>21. CASE Observes
  <2>1. CASE CleanBegin
    BY <2>1 DEF CleanBegin
  <2>2. ASSUME NEW n \in Node, CleanList(n) PROVE PassInv'
    BY <2>2 DEF CleanList
  <2>3. CASE CleanListed
    BY <2>3 DEF CleanListed, EndPass
  <2>4. CASE CleanOrigFile
    BY <2>4 DEF CleanOrigFile, ReadFile
  <2>5. CASE CleanOtherFile
    BY <2>5 DEF CleanOtherFile, ReadFile, EndPass
  <2>6. CASE CleanReread
    BY <2>6 DEF CleanReread, ReadFile
  <2>7. CASE CleanFirstPhase
    BY <2>7 DEF CleanFirstPhase, TxnStatus
  <2>8. ASSUME NEW n \in Dn, CleanLookup(n) PROVE PassInv'
    BY <2>8 DEF CleanLookup, TxnStatus
  <2>9. CASE CleanLookedUp
    BY <2>9 DEF CleanLookedUp
  <2>10. CASE CleanJudge
    BY <2>10 DEF CleanJudge, EndPass, Verdict, SawMix, SawPrepared, SawCommitted
  <2>11. CASE CleanRunning
    BY <2>11 DEF CleanRunning, EndPass
  <2>12. CASE CleanCheck
    BY <2>12 DEF CleanCheck, EndPass
  <2>13. ASSUME NEW n \in Dn, CleanRefused(n) PROVE PassInv'
    BY <2>13 DEF CleanRefused
  <2>14. CASE CleanFinished
    BY <2>14 DEF CleanFinished, EndPass
  <2>15. ASSUME NEW n \in Dn, CleanUnsent(n) PROVE PassInv'
    BY <2>15 DEF CleanUnsent
  <2>16. CASE CleanFail
    BY <2>16 DEF CleanFail, EndPass
  <2> QED
    BY <1>21, <2>1, <2>2, <2>3, <2>4, <2>5, <2>6, <2>7, <2>8, <2>9, <2>10, <2>11, <2>12,
       <2>13, <2>14, <2>15, <2>16
    DEF Observes
<1>22. CASE UNCHANGED vars
  BY <1>22 DEF vars
<1> QED
  BY <1>1, <1>2, <1>3, <1>4, <1>5, <1>6, <1>7, <1>8, <1>9, <1>10, <1>11, <1>12, <1>13,
     <1>14, <1>15, <1>16, <1>17, <1>18, <1>19, <1>20, <1>21, <1>22
  DEF Next, SessionStep, NodeStep, CleanStep, Observes

(* The inductive invariant holds in every reachable state. *)
LEMMA CleanInvariant ==
  ASSUME Prompt, ~CancelSync
  PROVE  Spec => []CleanInv
<1>1. Init => CleanInv
  <2> SUFFICES ASSUME Init PROVE CleanInv
    OBVIOUS
  <2>1. TypeOK
    <3>1. local \in BOOLEAN
      BY CleanAssumption, Zenon DEF Init
    <3> QED
      BY <3>1 DEF Init, TypeOK, Over, Node
  <2>2. SessionInv /\ DecisionInv
    BY CleanAssumption DEF Init, SessionInv, DecisionInv, Part, Over, Node
  <2>3. EvidenceInv /\ LockInv
    BY CleanAssumption DEF Init, EvidenceInv, LockInv, Needed, Finished, Node
  <2>4. PassInv
    BY CleanAssumption
    DEF Init, PassInv, Needed, Finished, CommittedIndeed, Deciding, Part, Node
  <2> QED
    BY <2>1, <2>2, <2>3, <2>4 DEF CleanInv
<1>2. CleanInv /\ [Next]_vars => CleanInv'
  <2> SUFFICES ASSUME CleanInv, [Next]_vars PROVE CleanInv'
    OBVIOUS
  <2>1. TypeOK'
    BY TypeStep DEF CleanInv, TypeInv, PassInv
  <2> QED
    BY <2>1, SessionStepInv, DecisionStepInv, EvidenceStepInv, LockStepInv, PassStepInv
    DEF CleanInv
<1> QED
  BY <1>1, <1>2, PTL DEF Spec

(* One outcome on all nodes: the session, its late commands and pg_clean never
   commit here and roll back there, whatever fails and in whatever order
   (Agreement; check_txn_global_status). *)
THEOREM CleanAgreement ==
  ASSUME Prompt, ~CancelSync
  PROVE  Spec => []Agreement
<1>1. CleanInv => Agreement
  BY DEF CleanInv, DecisionInv, Agreement, Part, Node
<1> QED
  BY <1>1, CleanInvariant, PTL

(* What the client was told happens on every node (OutcomeAsTold;
   CommitTransaction and AbortTransaction). *)
THEOREM CleanOutcome ==
  ASSUME Prompt, ~CancelSync
  PROVE  Spec => []OutcomeAsTold
<1>1. CleanInv => OutcomeAsTold
  BY DEF CleanInv, DecisionInv, EvidenceInv, Finished, OutcomeAsTold, Part, Node
<1> QED
  BY <1>1, CleanInvariant, PTL

(* As long as a node is prepared after another has committed, the start node's 2pc
   file has the commit timestamp (EvidenceKept; record_2pc_commit_timestamp). *)
THEOREM CleanEvidence ==
  ASSUME Prompt, ~CancelSync
  PROVE  Spec => []EvidenceKept
<1>1. CleanInv => EvidenceKept
  <2> SUFFICES ASSUME CleanInv, NEW m \in Part, NEW n \in Part,
                      part[m] = "committed", part[n] = "prepared"
               PROVE  file[Coord] = "ts"
    BY DEF EvidenceKept
  <2>1. walTs /\ session \in {"waiting", "done", "interrupted"}
    BY DEF CleanInv, DecisionInv, Part, Node
  <2>2. ~Finished
    BY DEF CleanInv, EvidenceInv
  <2>3. session = "interrupted" => Needed
    BY <2>1, <2>2 DEF CleanInv, DecisionInv, Needed, Finished, Part, Node
  <2> QED
    BY <2>1, <2>2, <2>3 DEF CleanInv, EvidenceInv, Finished
<1> QED
  BY <1>1, CleanInvariant, PTL

(* A node that pg_clean takes for committed is committed, although a missing 2pc
   file is all it may know of it (CommittedIndeed; Get2PCXidByGid). *)
THEOREM CleanCommittedIndeed ==
  ASSUME Prompt, ~CancelSync
  PROVE  Spec => []CommittedIndeed
<1>1. CleanInv => CommittedIndeed
  BY DEF CleanInv, PassInv
<1> QED
  BY <1>1, CleanInvariant, PTL

----------------------------------------------------------------------------
(* A step that ends no participant, decides nothing and tells the client nothing
   is a stuttering step of AtomicCommit. *)
LEMMA Stutters ==
  ASSUME UNCHANGED <<part, walTs>>,
         session' = "done" <=> session = "done",
         session' = "rolledback" <=> session = "rolledback"
  PROVE  UNCHANGED <<part, Decision, Told>>
BY DEF Decision, Told

(* A participant rolls back and the client is not told: allowed unless the commit
   timestamp is flushed. *)
LEMMA AbortsOne ==
  ASSUME TypeOK, NEW n \in Node, ~walTs, walTs' = walTs,
         part[n] \in {"active", "prepared"}, part' = [part EXCEPT ![n] = "aborted"],
         session' = "done" <=> session = "done",
         session' = "rolledback" <=> session = "rolledback"
  PROVE  Atomic!Next
<1>1. Decision # "commit" /\ Decision' = "abort" /\ Told' = Told
  BY DEF Decision, Told, TypeOK
<1>2. Atomic!Abort(n)
  BY <1>1 DEF Atomic!Abort
<1> QED
  BY <1>1, <1>2 DEF Atomic!Next

(* A participant commits and the client is not told: allowed once the commit
   timestamp is flushed. *)
LEMMA CommitsOne ==
  ASSUME NEW n \in Node, walTs, walTs' = walTs,
         part[n] = "prepared", part' = [part EXCEPT ![n] = "committed"],
         UNCHANGED session
  PROVE  Atomic!Next
<1>1. Decision = "commit" /\ Decision' = "commit" /\ Told' = Told
  BY DEF Decision, Told
<1>2. Atomic!Commit(n)
  BY <1>1 DEF Atomic!Commit
<1> QED
  BY <1>1, <1>2 DEF Atomic!Next

(* Every step of the session, the datanodes and pg_clean is a step of
   AtomicCommit or changes nothing there. *)
LEMMA AtomicStep ==
  ASSUME Prompt, CleanInv, [Next]_vars
  PROVE  [Atomic!Next]_<<part, Decision, Told>>
<1> USE CleanAssumption DEF CleanInv, sessionVars, nodeVars
<1>1. CASE SendPrepare \/ AppendCommitTs \/ SendCommit \/ Abort \/ Interrupt
  BY <1>1, Stutters DEF SendPrepare, AppendCommitTs, SendCommit, Abort, Interrupt
<1>2. CASE AllPrepared
  <2>1. CASE local
    <3>1. part[Coord] = "active" /\ part' = [part EXCEPT ![Coord] = "prepared"]
      BY <1>2, <2>1 DEF AllPrepared, SessionInv
    <3>2. Decision' = Decision /\ Told' = Told
      BY <1>2, <3>1 DEF AllPrepared, Decision, Told, TypeOK, Node
    <3>3. Atomic!Prepare(Coord)
      BY <3>1, <3>2 DEF Atomic!Prepare
    <3> QED
      BY <3>3 DEF Atomic!Next, Node
  <2>2. CASE ~local
    BY <1>2, <2>2, Stutters DEF AllPrepared
  <2> QED
    BY <2>1, <2>2
<1>3. CASE FlushCommitTs
  <2>1. \A n \in Part : part[n] = "prepared"
    BY <1>3 DEF FlushCommitTs, SessionInv, Part, Node
  <2>2. \A n \in Node : part[n] # "none" => part[n] = "prepared"
    BY <2>1 DEF SessionInv, Part, Node
  <2>3. Decision = "none" /\ Decision' = "commit" /\ Told' = Told
    BY <1>3, <2>2 DEF FlushCommitTs, Decision, Told, DecisionInv
  <2>4. Atomic!DecideCommit
    BY <1>3, <2>2, <2>3 DEF FlushCommitTs, Atomic!DecideCommit, Atomic!Participant
  <2> QED
    BY <2>4 DEF Atomic!Next
<1>4. CASE Complete
  <2>1. walTs /\ Decision = "commit" /\ Decision' = "commit"
    BY <1>4 DEF Complete, DecisionInv, Decision
  <2>2. Told = "none" /\ Told' = "commit"
    BY <1>4 DEF Complete, Told
  <2>3. \A n \in Dn : part[n] = "committed"
    BY <1>4 DEF Complete, SessionInv
  <2>4. \A n \in Node : part[n] # "none" => part'[n] = "committed"
    BY <1>4, <2>3 DEF Complete, SessionInv, TypeOK, Node
  <2>5. Atomic!TellCommit
    BY <2>2, <2>4 DEF Atomic!TellCommit, Atomic!Participant
  <2>6. CASE local
    <3>1. Atomic!Commit(Coord)
      BY <1>4, <2>1, <2>6 DEF Complete, Atomic!Commit
    <3> QED
      BY <2>5, <3>1 DEF Atomic!Next, Node
  <2>7. CASE ~local
    BY <1>4, <2>1, <2>5, <2>7 DEF Complete, Atomic!Next
  <2> QED
    BY <2>6, <2>7
<1>5. CASE AbortLocal
  <2>1. ~walTs /\ ~walTs'
    BY <1>5 DEF AbortLocal, DecisionInv
  <2>2. Decision # "commit" /\ Decision' = "abort"
    BY <1>5, <2>1 DEF AbortLocal, Decision
  <2>3. Told = "none" /\ Told' = "abort"
    BY <1>5 DEF AbortLocal, Told
  <2>4. Atomic!TellAbort
    BY <2>2, <2>3 DEF Atomic!TellAbort
  <2>5. CASE part[Coord] \in {"active", "prepared"}
    <3>1. Atomic!Abort(Coord)
      BY <1>5, <2>2, <2>5 DEF AbortLocal, Atomic!Abort
    <3> QED
      BY <2>4, <3>1 DEF Atomic!Next, Node
  <2>6. CASE part[Coord] \notin {"active", "prepared"}
    BY <1>5, <2>4, <2>6 DEF AbortLocal, Atomic!Next
  <2> QED
    BY <2>5, <2>6
<1>6. ASSUME NEW n \in Dn, DnPrepare(n) PROVE Atomic!Next
  <2>1. Decision' = Decision /\ Told' = Told
    BY <1>6 DEF DnPrepare, Decision, Told, TypeOK, Node
  <2>2. Atomic!Prepare(n)
    BY <1>6, <2>1 DEF DnPrepare, Atomic!Prepare
  <2> QED
    BY <2>2 DEF Atomic!Next, Node
<1>7. ASSUME NEW n \in Dn, DnLock(n) \/ DnRefuse(n) \/ CleanDnLock(n)
      PROVE  UNCHANGED <<part, Decision, Told>>
  BY <1>7, Stutters DEF DnLock, DnRefuse, CleanDnLock
<1>8. ASSUME NEW n \in Dn, DnCommit(n) PROVE Atomic!Next
  BY <1>8, CommitsOne DEF DnCommit, FinishPrepared, SessionInv, LockInv, Node
<1>9. ASSUME NEW n \in Dn, DnRollback(n) PROVE Atomic!Next
  BY <1>9, AbortsOne DEF DnRollback, FinishPrepared, SessionInv, Node
<1>10. ASSUME NEW n \in Dn, DnOrphan(n) PROVE Atomic!Next
  <2>1. ~walTs
    BY <1>10 DEF DnOrphan, DecisionInv, Part, Node
  <2> QED
    BY <1>10, <2>1, AbortsOne DEF DnOrphan, Node
<1>11. ASSUME NEW n \in Dn, CrashDn(n) PROVE [Atomic!Next]_<<part, Decision, Told>>
  <2>1. CASE part[n] = "active"
    <3>1. ~walTs
      BY <2>1 DEF DecisionInv, Part, Node
    <3>2. part' = [part EXCEPT ![n] = "aborted"]
      BY <1>11, <2>1 DEF CrashDn
    <3> QED
      BY <1>11, <2>1, <3>1, <3>2, AbortsOne DEF CrashDn, Node
  <2>2. CASE part[n] # "active"
    <3>1. part' = part
      BY <1>11, <2>2 DEF CrashDn, TypeOK, Node
    <3> QED
      BY <1>11, <3>1, Stutters DEF CrashDn
  <2> QED
    BY <2>1, <2>2
<1>12. CASE CrashCoord
  <2>1. /\ session' = "done" <=> session = "done"
        /\ session' = "rolledback" <=> session = "rolledback"
    BY <1>12 DEF CrashCoord, Over
  <2>2. CASE part[Coord] = "active"
    <3>1. ~walTs
      BY <2>2 DEF DecisionInv, SessionInv, Part, Node
    <3>2. part' = [part EXCEPT ![Coord] = "aborted"]
      BY <1>12, <2>2 DEF CrashCoord
    <3> QED
      BY <1>12, <2>1, <2>2, <3>1, <3>2, AbortsOne DEF CrashCoord, Node
  <2>3. CASE part[Coord] # "active"
    <3>1. part' = part
      BY <1>12, <2>3 DEF CrashCoord, TypeOK, Node
    <3> QED
      BY <1>12, <2>1, <3>1, Stutters DEF CrashCoord
  <2> QED
    BY <2>2, <2>3
<1>13. ASSUME NEW n \in Dn, CleanDn(n) PROVE Atomic!Next
  <2>1. op \in {"committed", "aborted"}
    BY <1>13 DEF CleanDn, PassInv, Deciding, TypeOK
  <2>2. CASE op = "committed"
    BY <1>13, <2>2, CommitsOne DEF CleanDn, FinishPrepared, PassInv, Node
  <2>3. CASE op = "aborted"
    BY <1>13, <2>3, AbortsOne DEF CleanDn, FinishPrepared, PassInv, Node
  <2> QED
    BY <2>1, <2>2, <2>3
<1>14. CASE CleanOrig
  <2>1. op \in {"committed", "aborted"}
    BY <1>14 DEF CleanOrig, PassInv, Deciding, TypeOK
  <2>2. CASE part[Coord] = "prepared"
    <3>1. CASE op = "committed"
      BY <1>14, <2>2, <3>1, CommitsOne DEF CleanOrig, FinishPrepared, PassInv, Node
    <3>2. CASE op = "aborted"
      BY <1>14, <2>2, <3>2, AbortsOne DEF CleanOrig, FinishPrepared, PassInv, Node
    <3> QED
      BY <2>1, <3>1, <3>2
  <2>3. CASE part[Coord] # "prepared"
    BY <1>14, <2>3, Stutters DEF CleanOrig
  <2> QED
    BY <2>2, <2>3
<1>15. CASE Observes
  BY <1>15, ObservesOnly, Stutters
<1>16. CASE UNCHANGED vars
  BY <1>16, Stutters DEF vars
<1> QED
  BY <1>1, <1>2, <1>3, <1>4, <1>5, <1>6, <1>7, <1>8, <1>9, <1>10, <1>11, <1>12, <1>13,
     <1>14, <1>15, <1>16
  DEF Next, SessionStep, NodeStep, CleanStep, Observes

(* Session, datanodes and pg_clean together implement the atomic commitment of
   AtomicCommit: the flush of the commit timestamp in record_2pc_commit_timestamp
   is the one decision (ImplementsAtomicCommit). *)
THEOREM CleanImplementsAtomicCommit ==
  ASSUME Prompt, ~CancelSync
  PROVE  Spec => ImplementsAtomicCommit
<1>1. Init => Atomic!Init
  <2> SUFFICES ASSUME Init PROVE Atomic!Init
    OBVIOUS
  <2>1. part \in [Node -> {"none", "active"}]
    BY DEF Init
  <2>2. Decision = "none" /\ Told = "none"
    BY DEF Init, Decision, Told
  <2> QED
    BY <2>1, <2>2 DEF Atomic!Init
<1>2. CleanInv /\ [Next]_vars => [Atomic!Next]_<<part, Decision, Told>>
  BY AtomicStep
<1> QED
  BY <1>1, <1>2, CleanInvariant, PTL
  DEF Spec, ImplementsAtomicCommit, Atomic!Spec, Atomic!vars
=============================================================================
