------------------------- MODULE ClusterPauseProofs -------------------------
(***************************************************************************)
(* Proofs about ClusterPause for any number of coordinators, sessions and  *)
(* statements.  The count of a cluster lock is right as long as nothing    *)
(* failed, and never too high otherwise; the holder of a lock knows of it; *)
(* and if one session alone uses PAUSE CLUSTER, nobody else works while    *)
(* the cluster is paused.                                                  *)
(*                                                                         *)
(* The inductive invariant PauseInv has seven parts.  Types are the types; *)
(* FlagsInv relates the flags of a backend to where it is; CountInv        *)
(* relates the shared count to the flags of all backends, and ZeroInv to   *)
(* the holder; HolderInv says that a holder knows that it is one;          *)
(* ProtocolInv says what the initiator of a PAUSE may conclude from the    *)
(* answers of the others; PauserInv keeps PAUSE to the sessions that may   *)
(* use it.  HoldsInv, that who believes to hold a lock holds it, needs     *)
(* that one session alone pauses: a session that is terminated releases    *)
(* the lock twice, in die and in PGXCCleanClusterLock, and the second time *)
(* may release that of another.                                            *)
(***************************************************************************)
EXTENDS ClusterPause, FiniteSetTheorems, TLAPS

----------------------------------------------------------------------------
Statement == {"query", "ddl", "pause", "unpause"}
Label == {"idle", "lock", "run", "wait", "end", "release", "acquire", "undo", "redo", "exit"}

(* The types of all variables; the bound of the count comes from CountInv. *)
Types ==
  /\ holder \in [Coord -> Backend \cup {Nobody}]
  /\ count \in [Coord -> Nat]
  /\ held \in [Backend -> BOOLEAN] /\ exHeld \in [Backend -> BOOLEAN]
  /\ pc \in [Backend -> Label]
  /\ stmt \in [Backend -> Statement]
  /\ inbox \in [Backend -> Seq({"ddl", "pause", "unpause"})]
  /\ reply \in [Backend -> {"none", "ok", "error"}]

(* What the flags of a backend say of it at each of its steps. *)
FlagsInv ==
  \A b \in Backend :
    /\ exHeld[b] => held[b]
    /\ pc[b] \in {"run", "wait", "end", "release", "acquire", "undo", "redo"} => held[b]
    /\ pc[b] = "lock" => ~held[b]
    /\ pc[b] \in {"wait", "undo", "redo", "exit"} => Local(b)
    /\ pc[b] = "wait" => stmt[b] # "query"
    /\ pc[b] \in {"release", "acquire", "undo", "redo"} => stmt[b] \in {"pause", "unpause"}
    /\ pc[b] \in {"release", "acquire"} => (exHeld[b] <=> stmt[b] = "unpause")
    /\ pc[b] \in {"wait", "undo", "redo", "end"} /\ stmt[b] = "pause" => exHeld[b]
    /\ pc[b] \in {"wait", "undo", "redo"} /\ stmt[b] = "unpause" => ~exHeld[b]
    /\ pc[b] \in {"undo", "redo"} => stmt[b] \in failed

\* Does the backend count on the shared lock?
Shares(b) == held[b] /\ ~exHeld[b] /\ ~(stmt[b] = "pause" /\ pc[b] = "acquire")

Sharing(c) ==
  {b \in Backend : /\ b[2] = c /\ held[b] /\ ~exHeld[b]
                   /\ ~(stmt[b] = "pause" /\ pc[b] = "acquire")}

(* The count never exceeds the number of backends that share the lock, and is that
   number if nothing has failed. *)
CountInv ==
  \A c \in Coord :
    /\ count[c] <= Cardinality(Sharing(c))
    /\ failed = {} => count[c] = Cardinality(Sharing(c))

(* The count is zero while somebody holds the lock. *)
ZeroInv == \A c \in Coord : holder[c] # Nobody => count[c] = 0

(* The holder is a backend of the coordinator, and knows that it is the holder. *)
HolderInv ==
  /\ \A c \in Coord : holder[c] # Nobody => holder[c][2] = c
  /\ HolderKnows

\* What a remote backend has received and not yet answered.
Working(r) == inbox[r] # <<>> \/ pc[r] # "idle"
Work(r) == IF inbox[r] # <<>> THEN Head(inbox[r]) ELSE stmt[r]

\* The local backend is in the course of statement s, which it has sent.
Sent(b, s) == stmt[b] = s /\ pc[b] \in {"release", "acquire", "wait"}

(* A remote backend r of the session of b works on at most one statement, the one
   its session waits for or the UNPAUSE of a client that left; and it has the
   exclusive lock if its session believes so. *)
Pair(b, r) ==
  /\ inbox[r] # <<>> => pc[r] = "idle" /\ Tail(inbox[r]) = <<>>
  /\ pc[r] # "idle" => stmt[r] # "query"
  /\ Working(r) =>
       /\ reply[r] = "none"
       /\ \/ Sent(b, Work(r))
          \/ Work(r) = "unpause" /\ ~exHeld[b] /\ pc[b] \in {"idle", "lock", "run", "end", "exit"}
  /\ exHeld[b] /\ pc[b] \in {"idle", "run", "end", "exit"} => ~Working(r) /\ exHeld[r]
  /\ exHeld[b] /\ Sent(b, "ddl") => exHeld[r]
  /\ Sent(b, "pause") /\ ~Working(r) => exHeld[r]

(* So it is for all sessions as long as nothing has failed. *)
ProtocolInv ==
  failed = {} =>
    \A b \in Backend, r \in Backend : Local(b) /\ r \in Remotes(b) => Pair(b, r)

(* Only sessions that may pause do. *)
PauserInv ==
  /\ \A b \in Backend :
       /\ stmt[b] \in {"pause", "unpause"} => b[1] \in Pausers
       /\ b[1] \in Pausers \/ inbox[b] \in Seq({"ddl"})
       /\ exHeld[b] => b[1] \in Pausers
  /\ \A c \in Coord : holder[c] # Nobody => holder[c][1] \in Pausers

\* One session alone uses PAUSE and UNPAUSE CLUSTER.
OnePauser == \A s, t \in Pausers : s = t

\* Does the backend believe that it holds the exclusive lock, and not give it back?
Claims(b) == exHeld[b] /\ pc[b] \notin {"acquire", "exit"}

(* As long as nothing has failed, a backend that believes so holds it. *)
HoldsInv ==
  failed = {} => \A b \in Backend : Claims(b) => holder[b[2]] = b

----------------------------------------------------------------------------
(* Nobody is no backend. *)
LEMMA NobodyElse == Nobody \notin Backend
BY DEF Nobody, Backend

(* A backend runs on a coordinator, for a session. *)
LEMMA BackendParts ==
  ASSUME NEW b \in Backend
  PROVE  b[1] \in Session /\ b[2] \in Coord /\ b = <<b[1], b[2]>>
BY DEF Backend

(* Going on keeps the type of pc. *)
LEMMA GotoTypes ==
  ASSUME Types, NEW b \in Backend, NEW l \in Label, Goto(b, l)
  PROVE  pc' \in [Backend -> Label]
BY DEF Types, Goto

(* Going idle with an answer keeps the types of pc and reply. *)
LEMMA DoneTypes ==
  ASSUME Types, NEW b \in Backend, NEW a \in {"ok", "error"}, Done(b, a)
  PROVE  pc' \in [Backend -> Label] /\ reply' \in [Backend -> {"none", "ok", "error"}]
BY DEF Types, Done, Goto, Label

(* Sending keeps the types of inbox and reply. *)
LEMMA SendTypes ==
  ASSUME Types, NEW b \in Backend, NEW s \in {"ddl", "pause", "unpause"}, SendAll(b, s)
  PROVE  /\ inbox' \in [Backend -> Seq({"ddl", "pause", "unpause"})]
         /\ reply' \in [Backend -> {"none", "ok", "error"}]
<1>1. \A r \in Backend : Append(inbox[r], s) \in Seq({"ddl", "pause", "unpause"})
  BY DEF Types
<1> QED
  BY <1>1 DEF Types, SendAll

(* Counting down and up keeps the type of the count. *)
LEMMA CountTypes ==
  ASSUME Types, NEW c \in Coord
  PROVE  /\ Decremented(c) \in [Coord -> Nat]
         /\ [count EXCEPT ![c] = @ + 1] \in [Coord -> Nat]
BY DEF Types, Decremented

(* Every step keeps the types. *)
LEMMA TypesStep ==
  ASSUME Types, [Next]_vars
  PROVE  Types'
<1> USE PauseAssumption, BackendParts DEF Types, Label, Statement, lock, flags
<1>1. ASSUME NEW b \in Backend, RemoteStatement(b) PROVE Types'
  BY <1>1 DEF RemoteStatement, Read, Goto
<1>2. ASSUME NEW b \in Backend, NEW s \in Statement, ClientStatement(b, s) PROVE Types'
  BY <1>2 DEF ClientStatement, Read, Goto
<1>3. ASSUME NEW b \in Backend, Lock(b) PROVE Types'
  BY <1>3 DEF Lock, Goto
<1>4. ASSUME NEW b \in Backend, Execute(b) PROVE Types'
  BY <1>4, GotoTypes, SendTypes DEF Execute
<1>5. ASSUME NEW b \in Backend, ExecuteFails(b) PROVE Types'
  BY <1>5 DEF ExecuteFails, Done, Goto
<1>6. ASSUME NEW b \in Backend, End(b) PROVE Types'
  <2>1. pc' \in [Backend -> Label] /\ reply' \in [Backend -> {"none", "ok", "error"}]
    BY <1>6, DoneTypes DEF End, Fail
  <2>2. count' \in [Coord -> Nat] /\ held' \in [Backend -> BOOLEAN]
    <3>1. CASE UNCHANGED <<count, held>>
      BY <3>1
    <3>2. CASE count' = Decremented(b[2]) /\ held' = [held EXCEPT ![b] = FALSE]
      BY <3>2, CountTypes
    <3> QED
      BY <1>6, <3>1, <3>2 DEF End
  <2> QED
    BY <1>6, <2>1, <2>2 DEF End
<1>7. ASSUME NEW b \in Backend, StartPause(b) PROVE Types'
  BY <1>7, GotoTypes, SendTypes DEF StartPause
<1>8. ASSUME NEW b \in Backend, Release(b) PROVE Types'
  <2>1. pc' \in [Backend -> Label] /\ reply' \in [Backend -> {"none", "ok", "error"}]
    BY <1>8, DoneTypes, GotoTypes DEF Release, Fail
  <2>2. count' \in [Coord -> Nat] /\ holder' \in [Coord -> Backend \cup {Nobody}]
    BY <1>8, CountTypes DEF Release
  <2> QED
    BY <1>8, <2>1, <2>2 DEF Release
<1>9. ASSUME NEW b \in Backend, Acquire(b) PROVE Types'
  <2>1. pc' \in [Backend -> Label] /\ reply' \in [Backend -> {"none", "ok", "error"}]
    BY <1>9, DoneTypes, GotoTypes DEF Acquire, Fail
  <2>2. count' \in [Coord -> Nat]
    <3>1. count' = count \/ count' = [count EXCEPT ![b[2]] = count[b[2]] + 1]
      BY <1>9 DEF Acquire
    <3>2. [count EXCEPT ![b[2]] = count[b[2]] + 1] \in [Coord -> Nat]
      OBVIOUS
    <3> QED
      BY <3>1, <3>2, Zenon
  <2>4. holder' \in [Coord -> Backend \cup {Nobody}]
    BY <1>9 DEF Acquire
  <2>3. exHeld' \in [Backend -> BOOLEAN]
    BY <1>9 DEF Acquire
  <2> QED
    BY <1>9, <2>1, <2>2, <2>3, <2>4 DEF Acquire
<1>10. ASSUME NEW b \in Backend, Collect(b) PROVE Types'
  BY <1>10 DEF Collect, Goto
<1>11. ASSUME NEW b \in Backend, Catch(b) PROVE Types'
  <2>1. pc' \in [Backend -> Label]
    BY <1>11, GotoTypes DEF Catch, WaitFails
  <2>2. /\ inbox' \in [Backend -> Seq({"ddl", "pause", "unpause"})]
        /\ reply' \in [Backend -> {"none", "ok", "error"}]
    BY <1>11, SendTypes DEF Catch, WaitFails, Salvage
  <2> QED
    BY <1>11, <2>1, <2>2 DEF Catch
<1>12. ASSUME NEW b \in Backend, UndoRelease(b) PROVE Types'
  <2>1. count' \in [Coord -> Nat] /\ holder' \in [Coord -> Backend \cup {Nobody}]
    BY <1>12, CountTypes DEF UndoRelease
  <2> QED
    BY <1>12, <2>1, GotoTypes DEF UndoRelease
<1>13. ASSUME NEW b \in Backend, UndoAcquire(b) PROVE Types'
  <2>1. count' \in [Coord -> Nat] /\ holder' \in [Coord -> Backend \cup {Nobody}]
    BY <1>13, CountTypes DEF UndoAcquire
  <2>2. exHeld' \in [Backend -> BOOLEAN]
    BY <1>13 DEF UndoAcquire
  <2> QED
    BY <1>13, <2>1, <2>2, GotoTypes DEF UndoAcquire
<1>14. ASSUME NEW b \in Backend, Cancel(b) PROVE Types'
  <2>1. pc' \in [Backend -> Label]
    BY <1>14, GotoTypes, DoneTypes DEF Cancel, Fail, WaitFails
  <2>2. /\ inbox' \in [Backend -> Seq({"ddl", "pause", "unpause"})]
        /\ reply' \in [Backend -> {"none", "ok", "error"}]
    BY <1>14, SendTypes, DoneTypes DEF Cancel, Fail, WaitFails, Salvage
  <2> QED
    BY <1>14, <2>1, <2>2 DEF Cancel
<1>15. ASSUME NEW b \in Backend, Die(b) PROVE Types'
  BY <1>15 DEF Die, Goto
<1>16. ASSUME NEW b \in Backend, Exit(b) PROVE Types'
  <2>1. count' \in [Coord -> Nat]
    BY <1>16, CountTypes DEF Exit
  <2>3. holder' \in [Coord -> Backend \cup {Nobody}]
    BY <1>16 DEF Exit, ReleasedAtExit
  <2>2. /\ inbox' \in [Backend -> Seq({"ddl", "pause", "unpause"})]
        /\ reply' \in [Backend -> {"none", "ok", "error"}]
    BY <1>16, SendTypes DEF Exit
  <2> QED
    BY <1>16, <2>1, <2>2, <2>3, GotoTypes DEF Exit
<1>17. CASE UNCHANGED vars
  BY <1>17 DEF vars
<1> QED
  BY <1>1, <1>2, <1>3, <1>4, <1>5, <1>6, <1>7, <1>8, <1>9, <1>10, <1>11, <1>12, <1>13,
     <1>14, <1>15, <1>16, <1>17
  DEF Next, Step, Statement

(* The flags stay in step with the program. *)
LEMMA FlagsStep ==
  ASSUME Types, FlagsInv, [Next]_vars
  PROVE  FlagsInv'
<1> USE BackendParts DEF FlagsInv, Types, lock, flags
<1>1. ASSUME NEW b \in Backend, RemoteStatement(b) PROVE FlagsInv'
  BY <1>1 DEF RemoteStatement, Read, Goto
<1>2. ASSUME NEW b \in Backend, NEW s \in Statement, ClientStatement(b, s) PROVE FlagsInv'
  BY <1>2 DEF ClientStatement, Read, Goto
<1>3. ASSUME NEW b \in Backend, Lock(b) PROVE FlagsInv'
  BY <1>3 DEF Lock, Goto
<1>4. ASSUME NEW b \in Backend, Execute(b) PROVE FlagsInv'
  BY <1>4 DEF Execute, Goto, SendAll
<1>5. ASSUME NEW b \in Backend, ExecuteFails(b) PROVE FlagsInv'
  BY <1>5 DEF ExecuteFails, Done, Goto
<1>6. ASSUME NEW b \in Backend, End(b) PROVE FlagsInv'
  BY <1>6 DEF End, Done, Fail, Goto, Decremented
<1>7. ASSUME NEW b \in Backend, StartPause(b) PROVE FlagsInv'
  BY <1>7 DEF StartPause, Goto, SendAll
<1>8. ASSUME NEW b \in Backend, Release(b) PROVE FlagsInv'
  BY <1>8 DEF Release, Done, Fail, Goto, Decremented
<1>9. ASSUME NEW b \in Backend, Acquire(b) PROVE FlagsInv'
  BY <1>9 DEF Acquire, Done, Fail, Goto
<1>10. ASSUME NEW b \in Backend, Collect(b) PROVE FlagsInv'
  BY <1>10 DEF Collect, Goto
<1>0. ASSUME NEW b \in Backend, WaitFails(b), UNCHANGED <<held, exHeld, stmt>>
      PROVE  FlagsInv'
  <2>1. /\ pc[b] = "wait"
        /\ failed \subseteq failed' /\ stmt[b] \in failed'
        /\ \/ pc' = [pc EXCEPT ![b] = "idle"]
           \/ pc' = [pc EXCEPT ![b] = "undo"] /\ stmt[b] # "ddl"
    BY <1>0 DEF WaitFails, Failure, Goto
  <2> QED
    BY <1>0, <2>1 DEF Statement, Local
<1>11. ASSUME NEW b \in Backend, Catch(b) PROVE FlagsInv'
  BY <1>0, <1>11 DEF Catch
<1>12. ASSUME NEW b \in Backend, UndoRelease(b) PROVE FlagsInv'
  BY <1>12 DEF UndoRelease, Goto, Decremented
<1>13. ASSUME NEW b \in Backend, UndoAcquire(b) PROVE FlagsInv'
  BY <1>13 DEF UndoAcquire, Goto
<1>14. ASSUME NEW b \in Backend, Cancel(b) PROVE FlagsInv'
  <2>1. CASE WaitFails(b)
    BY <1>0, <1>14, <2>1 DEF Cancel
  <2>2. CASE Fail(b)
    BY <1>14, <2>2 DEF Cancel, Done, Fail, Goto
  <2> QED
    BY <1>14, <2>1, <2>2 DEF Cancel
<1>15. ASSUME NEW b \in Backend, Die(b) PROVE FlagsInv'
  BY <1>15 DEF Die, Goto
<1>16. ASSUME NEW b \in Backend, Exit(b) PROVE FlagsInv'
  BY <1>16 DEF Exit, Goto, SendAll, ReleasedAtExit, Decremented
<1>17. CASE UNCHANGED vars
  BY <1>17 DEF vars
<1> QED
  BY <1>1, <1>2, <1>3, <1>4, <1>5, <1>6, <1>7, <1>8, <1>9, <1>10, <1>11, <1>12, <1>13,
     <1>14, <1>15, <1>16, <1>17
  DEF Next, Step, Statement

(* Who takes the lock exclusively finds the count at zero, and it stays there. *)
LEMMA ZeroStep ==
  ASSUME Types, ZeroInv, [Next]_vars
  PROVE  ZeroInv'
<1> USE BackendParts, NobodyElse DEF ZeroInv, Types, lock, flags
<1>1. ASSUME NEW b \in Backend, RemoteStatement(b) PROVE ZeroInv'
  BY <1>1 DEF RemoteStatement, Read, Goto
<1>2. ASSUME NEW b \in Backend, NEW s \in Statement, ClientStatement(b, s) PROVE ZeroInv'
  BY <1>2 DEF ClientStatement, Read, Goto
<1>3. ASSUME NEW b \in Backend, Lock(b) PROVE ZeroInv'
  BY <1>3 DEF Lock, Goto, SharedFree
<1>4. ASSUME NEW b \in Backend, Execute(b) PROVE ZeroInv'
  BY <1>4 DEF Execute, Goto, SendAll
<1>5. ASSUME NEW b \in Backend, ExecuteFails(b) PROVE ZeroInv'
  BY <1>5 DEF ExecuteFails, Done, Goto
<1>6. ASSUME NEW b \in Backend, End(b) PROVE ZeroInv'
  BY <1>6 DEF End, Done, Fail, Goto, Decremented
<1>7. ASSUME NEW b \in Backend, StartPause(b) PROVE ZeroInv'
  BY <1>7 DEF StartPause, Goto, SendAll
<1>8. ASSUME NEW b \in Backend, Release(b) PROVE ZeroInv'
  BY <1>8 DEF Release, Done, Fail, Goto, Decremented
<1>9. ASSUME NEW b \in Backend, Acquire(b) PROVE ZeroInv'
  BY <1>9 DEF Acquire, Done, Fail, Goto, SharedFree, ExclusiveFree
<1>10. ASSUME NEW b \in Backend, Collect(b) PROVE ZeroInv'
  BY <1>10 DEF Collect, Goto
<1>11. ASSUME NEW b \in Backend, Catch(b) PROVE ZeroInv'
  BY <1>11 DEF Catch
<1>12. ASSUME NEW b \in Backend, UndoRelease(b) PROVE ZeroInv'
  BY <1>12 DEF UndoRelease, Goto, Decremented
<1>13. ASSUME NEW b \in Backend, UndoAcquire(b) PROVE ZeroInv'
  BY <1>13 DEF UndoAcquire, Goto, SharedFree, ExclusiveFree
<1>14. ASSUME NEW b \in Backend, Cancel(b) PROVE ZeroInv'
  BY <1>14 DEF Cancel
<1>15. ASSUME NEW b \in Backend, Die(b) PROVE ZeroInv'
  BY <1>15 DEF Die, Goto
<1>16. ASSUME NEW b \in Backend, Exit(b) PROVE ZeroInv'
  BY <1>16 DEF Exit, Goto, SendAll, ReleasedAtExit, Decremented
<1>17. CASE UNCHANGED vars
  BY <1>17 DEF vars
<1> QED
  BY <1>1, <1>2, <1>3, <1>4, <1>5, <1>6, <1>7, <1>8, <1>9, <1>10, <1>11, <1>12, <1>13,
     <1>14, <1>15, <1>16, <1>17
  DEF Next, Step, Statement

----------------------------------------------------------------------------
(* The backends of one coordinator are finitely many. *)
LEMMA BackendsFinite ==
  ASSUME NEW c, NEW S \in SUBSET (Session \X {c})
  PROVE  /\ IsFiniteSet(S) /\ Cardinality(S) \in Nat
         /\ Cardinality(S) <= Cardinality(Session)
<1>1. IsFiniteSet(Session) /\ Cardinality(Session) \in Nat
  BY PauseAssumption, FS_CardinalityType
<1>2. IsFiniteSet({c}) /\ Cardinality({c}) = 1
  BY FS_Singleton
<1>3. /\ IsFiniteSet(Session \X {c})
      /\ Cardinality(Session \X {c}) = Cardinality(Session) * Cardinality({c})
  BY <1>1, <1>2, FS_Product
<1>4. Cardinality(Session \X {c}) = Cardinality(Session)
  BY <1>1, <1>2, <1>3
<1>5. IsFiniteSet(S) /\ Cardinality(S) <= Cardinality(Session \X {c})
  BY <1>3, FS_Subset
<1> QED
  BY <1>4, <1>5, FS_CardinalityType

(* The backends that share the lock of c are backends of c. *)
LEMMA SharingThere ==
  ASSUME NEW c \in Coord
  PROVE  Sharing(c) \in SUBSET (Session \X {c}) /\ Sharing(c)' \in SUBSET (Session \X {c})
<1>1. \A b \in Backend : b[2] = c => b \in Session \X {c}
  BY DEF Backend
<1> QED
  BY <1>1 DEF Sharing

\* A step of backend b does not touch the others.
Alone(b) ==
  \A x \in Backend \ {b} :
    held'[x] = held[x] /\ exHeld'[x] = exHeld[x] /\ stmt'[x] = stmt[x] /\ pc'[x] = pc[x]

(* The number of backends that share a lock changes with the one that moves. *)
LEMMA Moves ==
  ASSUME NEW b \in Backend, Alone(b)
  PROVE  /\ \A d \in Coord : d # b[2] => Sharing(d)' = Sharing(d)
         /\ (Shares(b)' <=> Shares(b)) => Sharing(b[2])' = Sharing(b[2])
         /\ ~Shares(b) /\ Shares(b)' =>
              Cardinality(Sharing(b[2]))' = Cardinality(Sharing(b[2])) + 1
         /\ Shares(b) /\ ~Shares(b)' =>
              Cardinality(Sharing(b[2]))' = Cardinality(Sharing(b[2])) - 1
         /\ Shares(b) => Cardinality(Sharing(b[2])) >= 1
<1> DEFINE c == b[2]
<1>0. c \in Coord
  BY BackendParts
<1>1. IsFiniteSet(Sharing(c)) /\ Cardinality(Sharing(c)) \in Nat
  BY <1>0, SharingThere, BackendsFinite
<1>2. b \in Sharing(c) <=> Shares(b)
  BY DEF Sharing, Shares
<1>3. \A d \in Coord : d # c => Sharing(d)' = Sharing(d)
  BY DEF Sharing, Alone
<1>4. (Shares(b)' <=> Shares(b)) => Sharing(c)' = Sharing(c)
  BY DEF Sharing, Shares, Alone
<1>5. ASSUME ~Shares(b), Shares(b)'
      PROVE  Cardinality(Sharing(c))' = Cardinality(Sharing(c)) + 1
  <2>1. Sharing(c)' = Sharing(c) \cup {b}
    BY <1>5 DEF Sharing, Shares, Alone
  <2> QED
    BY <1>1, <1>2, <1>5, <2>1, FS_AddElement
<1>6. ASSUME Shares(b), ~Shares(b)'
      PROVE  Cardinality(Sharing(c))' = Cardinality(Sharing(c)) - 1
  <2>1. Sharing(c)' = Sharing(c) \ {b}
    BY <1>6 DEF Sharing, Shares, Alone
  <2> QED
    BY <1>1, <1>2, <1>6, <2>1, FS_RemoveElement
<1>7. Shares(b) => Cardinality(Sharing(c)) >= 1
  BY <1>1, <1>2, FS_EmptySet
<1> QED
  BY <1>3, <1>4, <1>5, <1>6, <1>7

(* The count follows: it goes up with a backend that joins and down with one that
   leaves; only after a failure may a backend join unseen, or the count go down
   although nobody left. *)
LEMMA CountFollows ==
  ASSUME Types, CountInv, ZeroInv, NEW b \in Backend, Alone(b), failed \subseteq failed',
         \/ count' = count /\ (Shares(b)' <=> Shares(b))
         \/ count' = count /\ Shares(b)' /\ failed' # {}
         \/ count' = [count EXCEPT ![b[2]] = count[b[2]] + 1] /\ ~Shares(b) /\ Shares(b)'
         \/ count' = Decremented(b[2]) /\ Shares(b) /\ ~Shares(b)'
         \/ count' = Decremented(b[2]) /\ (Shares(b)' <=> Shares(b)) /\ failed' # {}
         \/ count' = count /\ Shares(b) /\ count[b[2]] = 0
  PROVE  CountInv'
<1> SUFFICES ASSUME NEW c \in Coord
             PROVE  /\ count'[c] <= Cardinality(Sharing(c))'
                    /\ failed' = {} => count'[c] = Cardinality(Sharing(c))'
  BY DEF CountInv
<1>1. Cardinality(Sharing(c)) \in Nat /\ Cardinality(Sharing(c))' \in Nat /\ count[c] \in Nat
  BY SharingThere, BackendsFinite DEF Types
<1>2. /\ count[c] <= Cardinality(Sharing(c))
      /\ failed' = {} => count[c] = Cardinality(Sharing(c))
  BY DEF CountInv
<1>3. CASE c # b[2]
  BY <1>2, <1>3, Moves, BackendParts DEF Types, Decremented
<1>4. CASE c = b[2]
  BY <1>1, <1>2, <1>4, Moves DEF Types, Decremented
<1> QED
  BY <1>3, <1>4

(* Every step keeps the count. *)
LEMMA CountStep ==
  ASSUME Types, FlagsInv, CountInv, ZeroInv, [Next]_vars
  PROVE  CountInv'
<1> USE BackendParts DEF Types, FlagsInv, Shares, lock, flags
<1>1. ASSUME NEW b \in Backend, RemoteStatement(b) PROVE CountInv'
  <2>1. Alone(b)
    BY <1>1 DEF Alone, RemoteStatement, Read, Goto
  <2> QED
    BY <1>1, <2>1, CountFollows DEF RemoteStatement, Read, Goto
<1>2. ASSUME NEW b \in Backend, NEW s \in Statement, ClientStatement(b, s) PROVE CountInv'
  <2>1. Alone(b)
    BY <1>2 DEF Alone, ClientStatement, Read, Goto
  <2> QED
    BY <1>2, <2>1, CountFollows DEF ClientStatement, Read, Goto
<1>3. ASSUME NEW b \in Backend, Lock(b) PROVE CountInv'
  <2>1. Alone(b)
    BY <1>3 DEF Alone, Lock, Goto
  <2> QED
    BY <1>3, <2>1, CountFollows DEF Lock, Goto
<1>4. ASSUME NEW b \in Backend, Execute(b) PROVE CountInv'
  <2>1. Alone(b)
    BY <1>4 DEF Alone, Execute, Goto
  <2> QED
    BY <1>4, <2>1, CountFollows DEF Execute, Goto
<1>5. ASSUME NEW b \in Backend, ExecuteFails(b) PROVE CountInv'
  <2>1. Alone(b)
    BY <1>5 DEF Alone, ExecuteFails, Done, Goto
  <2> QED
    BY <1>5, <2>1, CountFollows DEF ExecuteFails, Done, Goto
<1>6. ASSUME NEW b \in Backend, End(b) PROVE CountInv'
  <2>1. Alone(b)
    BY <1>6 DEF Alone, End, Done, Fail, Goto
  <2> QED
    BY <1>6, <2>1, CountFollows DEF End, Done, Fail, Goto
<1>7. ASSUME NEW b \in Backend, StartPause(b) PROVE CountInv'
  <2>1. Alone(b)
    BY <1>7 DEF Alone, StartPause, Goto
  <2> QED
    BY <1>7, <2>1, CountFollows DEF StartPause, Goto
<1>8. ASSUME NEW b \in Backend, Release(b) PROVE CountInv'
  <2>1. Alone(b)
    BY <1>8 DEF Alone, Release, Done, Fail, Goto
  <2> QED
    BY <1>8, <2>1, CountFollows DEF Release, Done, Fail, Failure, Goto
<1>9. ASSUME NEW b \in Backend, Acquire(b) PROVE CountInv'
  <2>1. Alone(b)
    BY <1>9 DEF Alone, Acquire, Done, Fail, Goto
  <2> QED
    BY <1>9, <2>1, CountFollows DEF Acquire, Done, Fail, Failure, Goto
<1>10. ASSUME NEW b \in Backend, Collect(b) PROVE CountInv'
  <2>1. Alone(b)
    BY <1>10 DEF Alone, Collect, Goto
  <2> QED
    BY <1>10, <2>1, CountFollows DEF Collect, Goto
<1>11. ASSUME NEW b \in Backend, Catch(b) PROVE CountInv'
  <2>1. Alone(b)
    BY <1>11 DEF Alone, Catch, WaitFails, Goto
  <2> QED
    BY <1>11, <2>1, CountFollows DEF Catch, WaitFails, Goto
<1>12. ASSUME NEW b \in Backend, UndoRelease(b) PROVE CountInv'
  <2>1. Alone(b)
    BY <1>12 DEF Alone, UndoRelease, Goto
  <2> QED
    BY <1>12, <2>1, CountFollows DEF UndoRelease, Goto
<1>13. ASSUME NEW b \in Backend, UndoAcquire(b) PROVE CountInv'
  <2>1. Alone(b)
    BY <1>13 DEF Alone, UndoAcquire, Goto
  <2> QED
    BY <1>13, <2>1, CountFollows DEF UndoAcquire, Goto
<1>14. ASSUME NEW b \in Backend, Cancel(b) PROVE CountInv'
  <2>1. Alone(b)
    BY <1>14 DEF Alone, Cancel, Done, Fail, WaitFails, Goto
  <2>2. /\ count' = count /\ failed \subseteq failed' /\ UNCHANGED <<held, exHeld, stmt>>
        /\ pc[b] = "acquire" => failed' # {}
        /\ pc'[b] # "acquire"
    BY <1>14 DEF Cancel, Done, Fail, Failure, WaitFails, Goto
  <2> QED
    BY <2>1, <2>2, CountFollows
<1>15. ASSUME NEW b \in Backend, Die(b) PROVE CountInv'
  <2>1. Alone(b)
    BY <1>15 DEF Alone, Die, Goto
  <2>2. /\ count' = count /\ failed \subseteq failed' /\ UNCHANGED <<held, exHeld, stmt>>
        /\ pc[b] = "acquire" => failed' # {}
        /\ pc'[b] # "acquire"
    BY <1>15 DEF Die, Failure, Goto
  <2> QED
    BY <2>1, <2>2, CountFollows
<1>16. ASSUME NEW b \in Backend, Exit(b) PROVE CountInv'
  <2>1. Alone(b) /\ failed' = failed /\ ~Shares(b)'
    BY <1>16 DEF Alone, Exit, Goto
  <2>2. CASE exHeld[b]
    BY <1>16, <2>1, <2>2, CountFollows DEF Exit
  <2>4. CASE ~exHeld[b] /\ ~held[b]
    BY <1>16, <2>1, <2>4, CountFollows DEF Exit
  <2>3. CASE ~exHeld[b] /\ held[b]
    <3>1. Shares(b)
      BY <1>16, <2>3 DEF Exit
    <3>2. CASE holder[b[2]] = Nobody
      BY <1>16, <2>1, <2>3, <3>1, <3>2, CountFollows DEF Exit
    <3>3. CASE holder[b[2]] # Nobody
      BY <1>16, <2>1, <2>3, <3>1, <3>3, CountFollows DEF Exit, ZeroInv
    <3> QED
      BY <3>2, <3>3
  <2> QED
    BY <2>2, <2>3, <2>4
<1>17. CASE UNCHANGED vars
  BY <1>17 DEF vars, CountInv, Sharing
<1> QED
  BY <1>1, <1>2, <1>3, <1>4, <1>5, <1>6, <1>7, <1>8, <1>9, <1>10, <1>11, <1>12, <1>13,
     <1>14, <1>15, <1>16, <1>17
  DEF Next, Step, Statement

----------------------------------------------------------------------------
(* The holder follows: a backend gives up its flag only when its coordinator has no
   holder, and becomes the holder with the flag set, unless an UNPAUSE failed. *)
LEMMA HolderFollows ==
  ASSUME Types, HolderInv, NEW b \in Backend, failed \subseteq failed',
         \A x \in Backend \ {b} : exHeld'[x] = exHeld[x],
         \/ holder' = holder /\ exHeld'[b] = exHeld[b]
         \/ holder' = holder /\ holder[b[2]] = Nobody
         \/ holder' = [holder EXCEPT ![b[2]] = Nobody]
         \/ holder' = [holder EXCEPT ![b[2]] = b] /\ (exHeld'[b] \/ "unpause" \in failed')
  PROVE  HolderInv'
<1>1. ASSUME NEW c \in Coord, holder'[c] # Nobody
      PROVE  /\ holder'[c][2] = c
             /\ "unpause" \notin failed' => exHeld'[holder'[c]]
  <2>1. holder[c] # Nobody => holder[c] \in Backend /\ holder[c][2] = c
    BY DEF Types, HolderInv
  <2>2. holder[c] # Nobody /\ "unpause" \notin failed => exHeld[holder[c]]
    BY DEF HolderInv, HolderKnows
  <2>3. CASE c = b[2]
    BY <1>1, <2>1, <2>2, <2>3, NobodyElse DEF Types
  <2>4. CASE c # b[2]
    BY <1>1, <2>1, <2>2, <2>4, BackendParts DEF Types
  <2> QED
    BY <2>3, <2>4
<1> QED
  BY <1>1 DEF HolderInv, HolderKnows

(* Every step leaves the lock with a backend that knows of it. *)
LEMMA HolderStep ==
  ASSUME Types, FlagsInv, ZeroInv, HolderInv, [Next]_vars
  PROVE  HolderInv'
<1> USE BackendParts DEF Types, FlagsInv, lock, flags
<1>1. ASSUME NEW b \in Backend, RemoteStatement(b) PROVE HolderInv'
  BY <1>1, HolderFollows DEF RemoteStatement, Read
<1>2. ASSUME NEW b \in Backend, NEW s \in Statement, ClientStatement(b, s) PROVE HolderInv'
  BY <1>2, HolderFollows DEF ClientStatement, Read
<1>3. ASSUME NEW b \in Backend, Lock(b) PROVE HolderInv'
  BY <1>3, HolderFollows DEF Lock
<1>4. ASSUME NEW b \in Backend, Execute(b) PROVE HolderInv'
  BY <1>4, HolderFollows DEF Execute
<1>5. ASSUME NEW b \in Backend, ExecuteFails(b) PROVE HolderInv'
  BY <1>5, HolderFollows DEF ExecuteFails
<1>6. ASSUME NEW b \in Backend, End(b) PROVE HolderInv'
  BY <1>6, HolderFollows DEF End, Fail
<1>7. ASSUME NEW b \in Backend, StartPause(b) PROVE HolderInv'
  BY <1>7, HolderFollows DEF StartPause
<1>8. ASSUME NEW b \in Backend, Release(b) PROVE HolderInv'
  BY <1>8, HolderFollows DEF Release, Fail
<1>9. ASSUME NEW b \in Backend, Acquire(b) PROVE HolderInv'
  BY <1>9, HolderFollows DEF Acquire, Fail, SharedFree
<1>10. ASSUME NEW b \in Backend, Collect(b) PROVE HolderInv'
  BY <1>10, HolderFollows DEF Collect
<1>11. ASSUME NEW b \in Backend, Catch(b) PROVE HolderInv'
  BY <1>11, HolderFollows DEF Catch, WaitFails
<1>12. ASSUME NEW b \in Backend, UndoRelease(b) PROVE HolderInv'
  BY <1>12, HolderFollows DEF UndoRelease
<1>13. ASSUME NEW b \in Backend, UndoAcquire(b) PROVE HolderInv'
  BY <1>13, HolderFollows DEF UndoAcquire, SharedFree
<1>14. ASSUME NEW b \in Backend, Cancel(b) PROVE HolderInv'
  BY <1>14, HolderFollows DEF Cancel, Fail, WaitFails
<1>15. ASSUME NEW b \in Backend, Die(b) PROVE HolderInv'
  BY <1>15, HolderFollows DEF Die
<1>16. ASSUME NEW b \in Backend, Exit(b) PROVE HolderInv'
  <2>1. exHeld[b] => holder'[b[2]] = Nobody
    BY <1>16, NobodyElse DEF Exit, ReleasedAtExit, ExclusiveSane, ZeroInv
  <2> QED
    BY <1>16, <2>1, HolderFollows DEF Exit, ReleasedAtExit
<1>17. CASE UNCHANGED vars
  BY <1>17 DEF vars, HolderInv, HolderKnows
<1> QED
  BY <1>1, <1>2, <1>3, <1>4, <1>5, <1>6, <1>7, <1>8, <1>9, <1>10, <1>11, <1>12, <1>13,
     <1>14, <1>15, <1>16, <1>17
  DEF Next, Step, Statement

----------------------------------------------------------------------------
(* What a pair of backends is in does not depend on the others. *)
LEMMA PairFrame ==
  ASSUME NEW l \in Backend, NEW r \in Backend, Pair(l, r),
         pc'[l] = pc[l], stmt'[l] = stmt[l], exHeld'[l] = exHeld[l],
         pc'[r] = pc[r], stmt'[r] = stmt[r], exHeld'[r] = exHeld[r],
         inbox'[r] = inbox[r], reply'[r] = reply[r]
  PROVE  Pair(l, r)'
BY DEF Pair, Working, Work, Sent

(* The local backend of a session is none of its remote ones, and no other local
   backend sends to them. *)
LEMMA OneLocal ==
  ASSUME NEW l \in Backend, NEW r \in Backend, Local(l), r \in Remotes(l),
         NEW b \in Backend, Local(b)
  PROVE  b # r /\ (b # l => r \notin Remotes(b))
BY BackendParts DEF Local, Remotes

(* A remote backend that is idle gets a statement. *)
LEMMA SendFollows ==
  ASSUME Types, NEW l \in Backend, NEW r \in Backend, r \in Remotes(l),
         inbox[r] = <<>>, NEW s \in Statement, SendAll(l, s)
  PROVE  /\ inbox'[r] # <<>> /\ Head(inbox'[r]) = s /\ Tail(inbox'[r]) = <<>>
         /\ reply'[r] = "none"
<1>1. inbox'[r] = Append(<<>>, s) /\ reply'[r] = "none"
  BY DEF SendAll
<1>2. Append(<<>>, s) = <<s>>
  OBVIOUS
<1> QED
  BY <1>1, <1>2

(* As long as nothing fails, an answer means what the initiator takes it for. *)
LEMMA PairStep ==
  ASSUME Types, FlagsInv, failed' = {}, NEW l \in Backend, NEW r \in Backend,
         Local(l), r \in Remotes(l), Pair(l, r), [Next]_vars
  PROVE  Pair(l, r)'
<1> USE BackendParts, OneLocal DEF Types, FlagsInv, Pair, Working, Work, Sent, lock, flags
<1>1. ASSUME NEW b \in Backend, RemoteStatement(b) PROVE Pair(l, r)'
  BY <1>1 DEF RemoteStatement, Read, Goto
<1>2. ASSUME NEW b \in Backend, NEW s \in Statement, ClientStatement(b, s) PROVE Pair(l, r)'
  <2>1. CASE b = l
    BY <1>2, <2>1 DEF ClientStatement, Read, Goto
  <2>2. CASE b # l
    BY <1>2, <2>2, PairFrame DEF ClientStatement, Read, Goto
  <2> QED
    BY <2>1, <2>2
<1>3. ASSUME NEW b \in Backend, Lock(b) PROVE Pair(l, r)'
  BY <1>3 DEF Lock, Goto
<1>4. ASSUME NEW b \in Backend, Execute(b) PROVE Pair(l, r)'
  <2>1. CASE b = l /\ stmt[l] = "ddl"
    BY <1>4, <2>1, SendFollows DEF Execute, Goto, Connected, Statement
  <2>2. CASE b = l /\ stmt[l] # "ddl"
    BY <1>4, <2>2 DEF Execute, Goto
  <2>3. CASE b = r
    BY <1>4, <2>3 DEF Execute, Goto
  <2>4. CASE b # l /\ b # r
    <3>1. inbox'[r] = inbox[r] /\ reply'[r] = reply[r]
      BY <1>4, <2>4 DEF Execute, SendAll
    <3> QED
      BY <1>4, <2>4, <3>1, PairFrame DEF Execute, Goto
  <2> QED
    BY <2>1, <2>2, <2>3, <2>4
<1>5. ASSUME NEW b \in Backend, ExecuteFails(b) PROVE Pair(l, r)'
  BY <1>5 DEF ExecuteFails, Done, Goto
<1>6. ASSUME NEW b \in Backend, End(b) PROVE Pair(l, r)'
  <2>1. CASE b = l
    BY <1>6, <2>1 DEF End, Done, Fail, Goto
  <2>2. CASE b = r
    BY <1>6, <2>2 DEF End, Done, Fail, Goto
  <2>3. CASE b # l /\ b # r
    BY <1>6, <2>3, PairFrame DEF End, Done, Fail, Goto
  <2> QED
    BY <2>1, <2>2, <2>3
<1>7. ASSUME NEW b \in Backend, StartPause(b) PROVE Pair(l, r)'
  <2>1. CASE b = l /\ ((stmt[l] = "pause") = exHeld[l])
    BY <1>7, <2>1 DEF StartPause, Goto
  <2>2. CASE b = l /\ ~((stmt[l] = "pause") = exHeld[l])
    BY <1>7, <2>2, SendFollows DEF StartPause, Goto, Connected, Statement
  <2>3. CASE b = r
    BY <1>7, <2>3 DEF StartPause, Goto
  <2>4. CASE b # l /\ b # r
    <3>1. inbox'[r] = inbox[r] /\ reply'[r] = reply[r]
      BY <1>7, <2>4 DEF StartPause, SendAll
    <3> QED
      BY <1>7, <2>4, <3>1, PairFrame DEF StartPause, Goto
  <2> QED
    BY <2>1, <2>2, <2>3, <2>4
<1>8. ASSUME NEW b \in Backend, Release(b) PROVE Pair(l, r)'
  <2>1. ~Fail(b)
    BY <1>8 DEF Release, Fail, Failure
  <2>2. CASE b = l
    BY <1>8, <2>1, <2>2 DEF Release, Goto
  <2>3. CASE b = r
    BY <1>8, <2>1, <2>3 DEF Release, Goto
  <2>4. CASE b # l /\ b # r
    BY <1>8, <2>1, <2>4, PairFrame DEF Release, Goto
  <2> QED
    BY <2>2, <2>3, <2>4
<1>9. ASSUME NEW b \in Backend, Acquire(b) PROVE Pair(l, r)'
  <2>1. ~Fail(b)
    BY <1>9 DEF Acquire, Fail, Failure
  <2>2. CASE b = l
    BY <1>9, <2>1, <2>2 DEF Acquire, Goto
  <2>3. CASE b = r
    BY <1>9, <2>1, <2>3 DEF Acquire, Goto
  <2>4. CASE b # l /\ b # r
    BY <1>9, <2>1, <2>4, PairFrame DEF Acquire, Goto
  <2> QED
    BY <2>2, <2>3, <2>4
<1>10. ASSUME NEW b \in Backend, Collect(b) PROVE Pair(l, r)'
  <2>1. CASE b = l
    <3>1. ~Working(r) /\ (exHeld[l] => exHeld[r])
      BY <1>10, <2>1 DEF Collect, Statement
    <3> QED
      BY <1>10, <2>1, <3>1 DEF Collect, Goto
  <2>2. CASE b # l
    BY <1>10, <2>2, PairFrame DEF Collect, Goto
  <2> QED
    BY <2>1, <2>2
<1>0. ASSUME NEW b \in Backend, WaitFails(b) PROVE FALSE
  BY <1>0 DEF WaitFails, Failure
<1>11. ASSUME NEW b \in Backend, Catch(b) PROVE Pair(l, r)'
  BY <1>0, <1>11 DEF Catch
<1>12. ASSUME NEW b \in Backend, UndoRelease(b) PROVE Pair(l, r)'
  BY <1>12 DEF UndoRelease, Goto, Decremented
<1>13. ASSUME NEW b \in Backend, UndoAcquire(b) PROVE Pair(l, r)'
  BY <1>13 DEF UndoAcquire, Goto
<1>14. ASSUME NEW b \in Backend, Cancel(b) PROVE Pair(l, r)'
  <2>1. Fail(b) /\ UNCHANGED <<held, exHeld, stmt, inbox>> /\ stmt[b] = "query"
    BY <1>0, <1>14 DEF Cancel, Fail, Failure
  <2>2. pc[b] \in {"run", "lock"}
    BY <1>0, <1>14, <2>1 DEF Cancel, Waits
  <2> QED
    BY <2>1, <2>2 DEF Fail, Done, Goto
<1>15. ASSUME NEW b \in Backend, Die(b) PROVE Pair(l, r)'
  <2>1. CASE b = l
    <3>1. pc[l] \in {"idle", "run", "lock"}
      BY <1>15, <2>1 DEF Die, Waits, Failure
    <3> QED
      BY <1>15, <2>1, <3>1 DEF Die, Goto
  <2>2. CASE b # l
    BY <1>15, <2>2, PairFrame DEF Die, Goto
  <2> QED
    BY <2>1, <2>2
<1>16. ASSUME NEW b \in Backend, Exit(b) PROVE Pair(l, r)'
  <2>1. CASE b = l /\ exHeld[l]
    BY <1>16, <2>1, SendFollows DEF Exit, Goto, Statement
  <2>2. CASE b = l /\ ~exHeld[l]
    BY <1>16, <2>2 DEF Exit, Goto
  <2>3. CASE b # l
    <3>1. inbox'[r] = inbox[r] /\ reply'[r] = reply[r]
      BY <1>16, <2>3 DEF Exit, SendAll
    <3> QED
      BY <1>16, <2>3, <3>1, PairFrame DEF Exit, Goto
  <2> QED
    BY <2>1, <2>2, <2>3
<1>17. CASE UNCHANGED vars
  BY <1>17 DEF vars
<1> HIDE DEF Pair, Types, FlagsInv, lock, flags
<1> QED
  BY <1>1, <1>2, <1>3, <1>4, <1>5, <1>6, <1>7, <1>8, <1>9, <1>10, <1>11, <1>12, <1>13,
     <1>14, <1>15, <1>16, <1>17
  DEF Next, Step, Statement

(* No failure is forgotten. *)
LEMMA FailedGrows ==
  ASSUME [Next]_vars
  PROVE  failed \subseteq failed'
<1>1. ASSUME NEW b \in Backend, Step(b) PROVE failed \subseteq failed'
  BY <1>1 DEF Step, RemoteStatement, Read, Lock, Execute, End, Done, Fail, StartPause, Release,
     Acquire, Collect, Catch, WaitFails, UndoRelease, UndoAcquire, Exit
<1>2. ASSUME NEW b \in Backend, NEW s, ClientStatement(b, s) PROVE failed \subseteq failed'
  BY <1>2 DEF ClientStatement, Read
<1>3. ASSUME NEW b \in Backend, ExecuteFails(b) \/ Cancel(b) \/ Die(b) \/ Exit(b)
      PROVE  failed \subseteq failed'
  BY <1>3 DEF ExecuteFails, Cancel, Fail, WaitFails, Die, Exit
<1>4. CASE UNCHANGED vars
  BY <1>4 DEF vars
<1> QED
  BY <1>1, <1>2, <1>3, <1>4 DEF Next

(* Every step keeps the protocol between the backends of a session. *)
LEMMA ProtocolStep ==
  ASSUME Types, FlagsInv, ProtocolInv, [Next]_vars
  PROVE  ProtocolInv'
<1> SUFFICES ASSUME failed' = {}, NEW l \in Backend, NEW r \in Backend, Local(l), r \in Remotes(l)
             PROVE  Pair(l, r)'
  BY DEF ProtocolInv, Local, Remotes
<1>1. Pair(l, r)
  BY FailedGrows DEF ProtocolInv
<1> QED
  BY <1>1, PairStep

(* DDL alone may be sent by every session. *)
LEMMA OnlyDdl ==
  ASSUME NEW q \in Seq({"ddl"})
  PROVE  Append(q, "ddl") \in Seq({"ddl"})
OBVIOUS

(* No step makes a session pause that may not. *)
LEMMA PauserStep ==
  ASSUME Types, FlagsInv, PauserInv, [Next]_vars
  PROVE  PauserInv'
<1> USE BackendParts DEF Types, PauserInv, lock, flags
<1>1. ASSUME NEW b \in Backend, RemoteStatement(b) PROVE PauserInv'
  <2>1. inbox[b] \in Seq({"ddl"}) => Head(inbox[b]) = "ddl" /\ Tail(inbox[b]) \in Seq({"ddl"})
    BY <1>1 DEF RemoteStatement
  <2> QED
    BY <1>1, <2>1 DEF RemoteStatement, Read
<1>2. ASSUME NEW b \in Backend, NEW s \in Statement, ClientStatement(b, s) PROVE PauserInv'
  BY <1>2 DEF ClientStatement, Read, Goto
<1>3. ASSUME NEW b \in Backend, Lock(b) PROVE PauserInv'
  BY <1>3 DEF Lock, Goto
<1>4. ASSUME NEW b \in Backend, Execute(b) PROVE PauserInv'
  <2>1. \A x \in Backend : x[1] \in Pausers \/ inbox'[x] \in Seq({"ddl"})
    BY <1>4, OnlyDdl DEF Execute, SendAll, Remotes
  <2> QED
    BY <1>4, <2>1 DEF Execute
<1>5. ASSUME NEW b \in Backend, ExecuteFails(b) PROVE PauserInv'
  BY <1>5 DEF ExecuteFails, Done, Goto
<1>6. ASSUME NEW b \in Backend, End(b) PROVE PauserInv'
  BY <1>6 DEF End, Done, Fail, Goto, Decremented
<1>7. ASSUME NEW b \in Backend, StartPause(b) PROVE PauserInv'
  <2>1. \A x \in Backend : x[1] \in Pausers \/ inbox'[x] \in Seq({"ddl"})
    BY <1>7, OnlyDdl DEF StartPause, SendAll, Remotes
  <2> QED
    BY <1>7, <2>1 DEF StartPause
<1>8. ASSUME NEW b \in Backend, Release(b) PROVE PauserInv'
  BY <1>8 DEF Release, Done, Fail, Goto, Decremented
<1>9. ASSUME NEW b \in Backend, Acquire(b) PROVE PauserInv'
  BY <1>9 DEF Acquire, Done, Fail, Goto
<1>10. ASSUME NEW b \in Backend, Collect(b) PROVE PauserInv'
  BY <1>10 DEF Collect, Goto
<1>0. ASSUME NEW b \in Backend, WaitFails(b), NEW x \in Backend
      PROVE  x[1] \in Pausers \/ inbox'[x] \in Seq({"ddl"})
  BY <1>0 DEF WaitFails, Salvage, SendAll, Remotes
<1>11. ASSUME NEW b \in Backend, Catch(b) PROVE PauserInv'
  <2>1. \A x \in Backend : x[1] \in Pausers \/ inbox'[x] \in Seq({"ddl"})
    BY <1>0, <1>11 DEF Catch
  <2> QED
    BY <1>11, <2>1 DEF Catch
<1>12. ASSUME NEW b \in Backend, UndoRelease(b) PROVE PauserInv'
  BY <1>12 DEF UndoRelease, Goto, Decremented
<1>13. ASSUME NEW b \in Backend, UndoAcquire(b) PROVE PauserInv'
  <2>1. holder' = holder \/ (holder' = [holder EXCEPT ![b[2]] = b] /\ b[1] \in Pausers)
    BY <1>13 DEF UndoAcquire, FlagsInv
  <2>2. \A c \in Coord : holder'[c] # Nobody => holder'[c][1] \in Pausers
    BY <2>1
  <2>3. \A x \in Backend : exHeld'[x] => exHeld[x]
    BY <1>13 DEF UndoAcquire
  <2> QED
    BY <1>13, <2>2, <2>3 DEF UndoAcquire
<1>14. ASSUME NEW b \in Backend, Cancel(b) PROVE PauserInv'
  <2>1. \A x \in Backend : x[1] \in Pausers \/ inbox'[x] \in Seq({"ddl"})
    BY <1>0, <1>14 DEF Cancel
  <2> QED
    BY <1>14, <2>1 DEF Cancel
<1>15. ASSUME NEW b \in Backend, Die(b) PROVE PauserInv'
  BY <1>15 DEF Die, Goto
<1>16. ASSUME NEW b \in Backend, Exit(b) PROVE PauserInv'
  <2>1. \A x \in Backend : x[1] \in Pausers \/ inbox'[x] \in Seq({"ddl"})
    BY <1>16 DEF Exit, SendAll, Remotes
  <2> QED
    BY <1>16, <2>1, NobodyElse DEF Exit, ReleasedAtExit
<1>17. CASE UNCHANGED vars
  BY <1>17 DEF vars
<1> QED
  BY <1>1, <1>2, <1>3, <1>4, <1>5, <1>6, <1>7, <1>8, <1>9, <1>10, <1>11, <1>12, <1>13,
     <1>14, <1>15, <1>16, <1>17
  DEF Next, Step, Statement

----------------------------------------------------------------------------
(* If one session alone pauses, a coordinator has one backend that may. *)
LEMMA OneExclusive ==
  ASSUME OnePauser, NEW b \in Backend, NEW x \in Backend, b[1] \in Pausers, x[1] \in Pausers,
         b[2] = x[2]
  PROVE  b = x
BY BackendParts DEF OnePauser

(* The claims follow the holder: who claims the lock anew has it, and only a backend
   of the session that pauses changes the holder. *)
LEMMA HoldsFollows ==
  ASSUME OnePauser, Types, PauserInv, HoldsInv, NEW b \in Backend, failed \subseteq failed',
         \A x \in Backend \ {b} : exHeld'[x] = exHeld[x] /\ pc'[x] = pc[x],
         \/ failed' # {}
         \/ holder' = holder /\ (Claims(b)' => Claims(b))
         \/ /\ b[1] \in Pausers /\ (Claims(b)' => holder'[b[2]] = b)
            /\ \A c \in Coord \ {b[2]} : holder'[c] = holder[c]
  PROVE  HoldsInv'
<1> SUFFICES ASSUME failed' = {}, NEW x \in Backend, Claims(x)'
             PROVE  holder'[x[2]] = x
  BY DEF HoldsInv
<1>1. failed = {}
  OBVIOUS
<1>2. CASE x = b
  BY <1>1, <1>2 DEF HoldsInv
<1>3. CASE x # b
  <2>1. Claims(x) /\ holder[x[2]] = x /\ x[1] \in Pausers
    BY <1>1, <1>3 DEF Claims, HoldsInv, PauserInv
  <2> QED
    BY <1>3, <2>1, OneExclusive, BackendParts
<1> QED
  BY <1>2, <1>3

(* If one session alone pauses, its backends hold the locks that they believe to hold. *)
LEMMA HoldsStep ==
  ASSUME OnePauser, Types, FlagsInv, PauserInv, HoldsInv, [Next]_vars
  PROVE  HoldsInv'
<1> USE BackendParts, HoldsFollows, FailedGrows DEF Types, FlagsInv, PauserInv, Claims, lock, flags
<1>1. ASSUME NEW b \in Backend, RemoteStatement(b) PROVE HoldsInv'
  BY <1>1 DEF RemoteStatement, Read, Goto
<1>2. ASSUME NEW b \in Backend, NEW s \in Statement, ClientStatement(b, s) PROVE HoldsInv'
  BY <1>2 DEF ClientStatement, Read, Goto
<1>3. ASSUME NEW b \in Backend, Lock(b) PROVE HoldsInv'
  BY <1>3 DEF Lock, Goto
<1>4. ASSUME NEW b \in Backend, Execute(b) PROVE HoldsInv'
  BY <1>4 DEF Execute, Goto
<1>5. ASSUME NEW b \in Backend, ExecuteFails(b) PROVE HoldsInv'
  BY <1>5 DEF ExecuteFails, Done, Goto
<1>6. ASSUME NEW b \in Backend, End(b) PROVE HoldsInv'
  BY <1>6 DEF End, Done, Fail, Goto
<1>7. ASSUME NEW b \in Backend, StartPause(b) PROVE HoldsInv'
  BY <1>7 DEF StartPause, Goto
<1>8. ASSUME NEW b \in Backend, Release(b) PROVE HoldsInv'
  BY <1>8 DEF Release, Done, Fail, Failure, Goto
<1>9. ASSUME NEW b \in Backend, Acquire(b) PROVE HoldsInv'
  BY <1>9 DEF Acquire, Done, Fail, Failure, Goto
<1>10. ASSUME NEW b \in Backend, Collect(b) PROVE HoldsInv'
  BY <1>10 DEF Collect, Goto
<1>11. ASSUME NEW b \in Backend, Catch(b) PROVE HoldsInv'
  BY <1>11 DEF Catch, WaitFails, Failure, Goto
<1>12. ASSUME NEW b \in Backend, UndoRelease(b) PROVE HoldsInv'
  BY <1>12 DEF UndoRelease, Goto
<1>13. ASSUME NEW b \in Backend, UndoAcquire(b) PROVE HoldsInv'
  BY <1>13 DEF UndoAcquire, Goto
<1>14. ASSUME NEW b \in Backend, Cancel(b) PROVE HoldsInv'
  <2>1. \A x \in Backend \ {b} : exHeld'[x] = exHeld[x] /\ pc'[x] = pc[x]
    BY <1>14 DEF Cancel, Done, Fail, WaitFails, Goto
  <2>2. failed' # {} \/ (holder' = holder /\ (Claims(b)' => Claims(b)))
    BY <1>14 DEF Cancel, Done, Fail, Failure, WaitFails, Waits, Goto
  <2> QED
    BY <2>1, <2>2
<1>15. ASSUME NEW b \in Backend, Die(b) PROVE HoldsInv'
  BY <1>15 DEF Die, Goto
<1>16. ASSUME NEW b \in Backend, Exit(b) PROVE HoldsInv'
  BY <1>16 DEF Exit, ReleasedAtExit, Goto
<1>17. CASE UNCHANGED vars
  BY <1>17 DEF vars, HoldsInv
<1> QED
  BY <1>1, <1>2, <1>3, <1>4, <1>5, <1>6, <1>7, <1>8, <1>9, <1>10, <1>11, <1>12, <1>13,
     <1>14, <1>15, <1>16, <1>17
  DEF Next, Step, Statement

----------------------------------------------------------------------------
\* The inductive invariant, whoever pauses.
PauseInv == Types /\ FlagsInv /\ ZeroInv /\ CountInv /\ HolderInv /\ ProtocolInv /\ PauserInv

(* It holds at the start. *)
LEMMA PauseInit ==
  ASSUME Init
  PROVE  PauseInv /\ HoldsInv
<1> USE DEF Init
<1>1. Types
  BY PauseAssumption DEF Types, Label, Statement
<1>2. FlagsInv /\ ZeroInv /\ HolderInv /\ HoldsInv
  BY DEF FlagsInv, ZeroInv, HolderInv, HolderKnows, HoldsInv, Claims
<1>3. CountInv
  <2>1. ASSUME NEW c \in Coord PROVE Sharing(c) = {}
    BY DEF Sharing
  <2>2. Cardinality({}) = 0
    BY FS_EmptySet
  <2>3. ASSUME NEW c \in Coord PROVE Cardinality(Sharing(c)) = 0 /\ count[c] = 0
    BY <2>1, <2>2
  <2> QED
    BY <2>3 DEF CountInv
<1>4. ProtocolInv
  BY DEF ProtocolInv, Pair, Working, Sent, Remotes
<1>5. PauserInv
  BY DEF PauserInv
<1> QED
  BY <1>1, <1>2, <1>3, <1>4, <1>5 DEF PauseInv

(* Every step keeps it. *)
LEMMA PauseStep ==
  ASSUME PauseInv, [Next]_vars
  PROVE  PauseInv'
BY TypesStep, FlagsStep, ZeroStep, CountStep, HolderStep, ProtocolStep, PauserStep DEF PauseInv

(* It holds in every state. *)
LEMMA PauseAlways == Spec => []PauseInv
<1>1. Init => PauseInv
  BY PauseInit
<1>2. PauseInv /\ [Next]_vars => PauseInv'
  BY PauseStep
<1> QED
  BY <1>1, <1>2, PTL DEF Spec

(* With one session that pauses, the backends have the locks that they claim, in
   every state. *)
LEMMA HoldsAlways ==
  ASSUME OnePauser
  PROVE  Spec => []HoldsInv
<1>1. Init => HoldsInv
  BY PauseInit
<1>2. PauseInv /\ HoldsInv /\ [Next]_vars => HoldsInv'
  BY HoldsStep DEF PauseInv
<1> QED
  BY <1>1, <1>2, PauseAlways, PTL DEF Spec

(* The variables of the cluster locks keep their types; above all, cl_process_count
   never exceeds the number of sessions, whatever fails and whoever is canceled. *)
THEOREM PauseTypes == Spec => []TypeOK
<1>1. ASSUME PauseInv PROVE TypeOK
  <2>1. ASSUME NEW c \in Coord PROVE count[c] \in 0..Cardinality(Session)
    <3>1. /\ Cardinality(Sharing(c)) \in Nat
          /\ Cardinality(Sharing(c)) <= Cardinality(Session)
      BY SharingThere, BackendsFinite
    <3>2. count[c] \in Nat /\ count[c] <= Cardinality(Sharing(c))
      BY <1>1 DEF PauseInv, Types, CountInv
    <3>3. Cardinality(Session) \in Nat
      BY PauseAssumption, FS_CardinalityType
    <3> QED
      BY <3>1, <3>2, <3>3
  <2> QED
    BY <1>1, <2>1 DEF PauseInv, Types, TypeOK, Label
<1> QED
  BY <1>1, PauseAlways, PTL

(* cl_process_count is the number of backends that count on the shared lock, as
   long as no PAUSE or UNPAUSE has failed. *)
THEOREM PauseCount == Spec => []CountExact
<1>1. ASSUME PauseInv PROVE CountExact
  BY <1>1 DEF PauseInv, CountInv, CountExact, Sharing
<1> QED
  BY <1>1, PauseAlways, PTL

(* The backend in cl_holder_pid knows that it holds the lock, unless an UNPAUSE has
   failed, however many sessions pause and exit. *)
THEOREM PauseHolder == Spec => []HolderKnows
<1>1. ASSUME PauseInv PROVE HolderKnows
  BY <1>1 DEF PauseInv, HolderInv
<1> QED
  BY <1>1, PauseAlways, PTL

(* If one session alone uses PAUSE CLUSTER, no other session processes a statement
   on any coordinator from the return of its PAUSE to its UNPAUSE. *)
THEOREM PauseExclusion ==
  ASSUME OnePauser
  PROVE  Spec => []Exclusion
<1>1. ASSUME PauseInv, HoldsInv PROVE Exclusion
  <2> SUFFICES ASSUME failed = {}, NEW s \in Session, Paused(s),
                      NEW b \in Backend, b[1] # s, Busy(b)
               PROVE  FALSE
    BY DEF Exclusion
  <2> DEFINE l == <<s, Home[s]>>
             r == <<s, b[2]>>
  <2>1. l \in Backend /\ r \in Backend /\ Local(l) /\ b[2] \in Coord
    BY PauseAssumption, BackendParts DEF Backend, Local
  <2>2. exHeld[l] /\ pc[l] \in {"idle", "run", "end"}
    BY DEF Paused
  <2>3. exHeld[r] /\ pc[r] \notin {"acquire", "exit"}
    <3>1. CASE r = l
      BY <2>2, <3>1
    <3>2. CASE r # l
      <4>1. Pair(l, r)
        BY <1>1, <2>1, <3>2 DEF PauseInv, ProtocolInv, Remotes
      <4> QED
        BY <2>2, <4>1 DEF Pair, Working
    <3> QED
      BY <3>1, <3>2
  <2>4. holder[b[2]] # Nobody
    BY <1>1, <2>1, <2>3, NobodyElse DEF HoldsInv, Claims
  <2>5. Sharing(b[2]) = {}
    <3>1. Cardinality(Sharing(b[2])) = 0
      BY <1>1, <2>1, <2>4 DEF PauseInv, ZeroInv, CountInv
    <3>2. IsFiniteSet(Sharing(b[2]))
      BY <2>1, SharingThere, BackendsFinite
    <3> QED
      BY <3>1, <3>2, FS_EmptySet
  <2>6. held[b] /\ ~(stmt[b] = "pause" /\ pc[b] = "acquire")
    BY <1>1 DEF PauseInv, FlagsInv, Busy
  <2>7. ~exHeld[b]
    BY <1>1, <2>1, <2>3 DEF PauseInv, PauserInv, OnePauser
  <2> QED
    BY <2>5, <2>6, <2>7 DEF Sharing
<1> QED
  BY <1>1, PauseAlways, HoldsAlways, PTL
=============================================================================
