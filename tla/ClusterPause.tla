---------------------------- MODULE ClusterPause ----------------------------
(***************************************************************************)
(* PAUSE CLUSTER and UNPAUSE CLUSTER.  Every coordinator has a cluster     *)
(* lock in shared memory: the number of its backends that process a        *)
(* command (cl_process_count) and the backend that paused it               *)
(* (cl_holder_pid).  A backend takes the lock in shared mode before a      *)
(* command and gives it back when it goes idle outside of a transaction.   *)
(* The session that runs PAUSE CLUSTER sends the command to its backends   *)
(* on all other coordinators, gives back its own shared lock, waits until  *)
(* it has the lock exclusively, and then waits for the answers.            *)
(*                                                                         *)
(* A session s has a backend <<s, c>> on every coordinator c; the one on   *)
(* Home[s] serves its client, the others get statements from that one.     *)
(***************************************************************************)
EXTENDS Integers, Sequences, FiniteSets

CONSTANTS Coord, Session, Home,
          Pausers,        \* sessions that may use PAUSE and UNPAUSE CLUSTER
          DdlSessions,    \* sessions whose statements run on all coordinators
          MaxStatements,  \* bound: statements of the clients
          MaxCancels      \* bound: canceled and terminated backends

ASSUME PauseAssumption ==
  /\ Home \in [Session -> Coord] /\ IsFiniteSet(Session)
  /\ Pausers \subseteq Session /\ DdlSessions \subseteq Session
  /\ MaxStatements \in Nat /\ MaxCancels \in Nat

Backend == Session \X Coord
Nobody == <<>>

VARIABLES
  holder,   \* cl_holder_pid of each coordinator
  count,    \* cl_process_count of each coordinator
  held,     \* cluster_lock_held of each backend
  exHeld,   \* cluster_ex_lock_held of each backend
  pc,       \* the next step of each backend
  stmt,     \* the statement of each backend
  inbox,    \* statements sent to a remote backend and not yet read
  reply,    \* the last answer of a remote backend
  stmts, cancels,
  failed    \* history: the kinds of statements other than queries that failed;
            \* "initiator" if one failed between its messages and the PG_TRY

lock == <<holder, count>>
flags == <<held, exHeld>>
vars == <<holder, count, held, exHeld, pc, stmt, inbox, reply, stmts, cancels, failed>>

Local(b) == b[2] = Home[b[1]]
Remotes(b) == {r \in Backend : r[1] = b[1] /\ r # b}

Init ==
  /\ holder = [c \in Coord |-> Nobody]
  /\ count = [c \in Coord |-> 0]
  /\ held = [b \in Backend |-> FALSE]
  /\ exHeld = [b \in Backend |-> FALSE]
  /\ pc = [b \in Backend |-> "idle"]
  /\ stmt = [b \in Backend |-> "query"]
  /\ inbox = [b \in Backend |-> <<>>]
  /\ reply = [b \in Backend |-> "none"]
  /\ stmts = 0 /\ cancels = 0 /\ failed = {}

Goto(b, label) == pc' = [pc EXCEPT ![b] = label]

\* get_handles: the other backends of the session are done with what they got
\* before; the answers to a failed statement have been discarded.
Connected(b) == \A r \in Remotes(b) : pc[r] = "idle" /\ inbox[r] = <<>>

\* The statement s goes to the other backends of the session.
SendAll(b, s) ==
  /\ inbox' = [r \in Backend |-> IF r \in Remotes(b) THEN Append(inbox[r], s) ELSE inbox[r]]
  /\ reply' = [r \in Backend |-> IF r \in Remotes(b) THEN "none" ELSE reply[r]]

\* A backend goes idle; a remote one answers.
Done(b, answer) ==
  /\ Goto(b, "idle")
  /\ reply' = [reply EXCEPT ![b] = IF Local(b) THEN @ ELSE answer]

\* What the failure of b now is recorded as.
Failure(b) ==
  ({stmt[b]} \ {"query"}) \cup
  {i \in {"initiator"} : Local(b) /\ pc[b] \in {"release", "acquire"}}

\* An error: the loop of PostgresMain starts over, the flags stay as they are.
Fail(b) ==
  /\ Done(b, "error")
  /\ failed' = failed \cup Failure(b)

----------------------------------------------------------------------------
\* Mutant: a session that is paused is not kept out.
SharedFreeAlways(c) == TRUE

\* AcquireClusterLock(false) need not wait.
SharedFree(c) == holder[c] = Nobody

\* Mutant: the running commands are not waited for.
ExclusiveFreeEarly(c) == TRUE

(* AcquireClusterLock(true) need not wait: nobody processes a command, or
   somebody holds the lock already, which is an error. *)
ExclusiveFree(c) == count[c] = 0 \/ holder[c] # Nobody

(* Does b wait in AcquireClusterLock?  Only there it checks for interrupts. *)
Waits(b) ==
  /\ pc[b] \in {"lock", "acquire", "redo"}
  /\ IF <<pc[b], stmt[b]>> \in {<<"acquire", "pause">>, <<"redo", "unpause">>}
       THEN ~ExclusiveFree(b[2]) ELSE ~SharedFree(b[2])

\* Mutant: the count is not given back.
DecrementedNot(c) == count

\* Mutant: a count of zero is not looked for.
DecrementedBelow(c) == [count EXCEPT ![c] = @ - 1]

\* ReleaseClusterLock(false): the count never gets negative.
Decremented(c) == [count EXCEPT ![c] = IF @ > 0 THEN @ - 1 ELSE 0]

\* ReleaseClusterLock(true) refuses an inconsistent state.
ExclusiveSane(c) == count[c] <= 1 /\ holder[c] # Nobody

----------------------------------------------------------------------------
(* PostgresMain reads a command and needs the lock unless it holds it. *)
Read(b, s) ==
  /\ pc[b] = "idle"
  /\ stmt' = [stmt EXCEPT ![b] = s]
  /\ Goto(b, IF held[b] \/ exHeld[b] THEN "run" ELSE "lock")
  /\ UNCHANGED <<lock, flags, cancels, failed>>

ClientStatement(b, s) ==
  /\ Local(b)
  /\ stmts < MaxStatements /\ stmts' = stmts + 1
  /\ s = "ddl" => b[1] \in DdlSessions
  /\ s \in {"pause", "unpause"} => b[1] \in Pausers
  /\ Read(b, s)
  /\ UNCHANGED <<inbox, reply>>

RemoteStatement(b) ==
  /\ inbox[b] # <<>>
  /\ Read(b, Head(inbox[b]))
  /\ inbox' = [inbox EXCEPT ![b] = Tail(@)]
  /\ UNCHANGED <<reply, stmts>>

Lock(b) ==
  /\ pc[b] = "lock" /\ SharedFree(b[2])
  /\ count' = [count EXCEPT ![b[2]] = @ + 1]
  /\ held' = [held EXCEPT ![b] = TRUE]
  /\ Goto(b, "run")
  /\ UNCHANGED <<holder, exHeld, stmt, inbox, reply, stmts, cancels, failed>>

(* A statement with its transaction; DDL runs on the other coordinators too. *)
Execute(b) ==
  /\ pc[b] = "run" /\ stmt[b] \in {"query", "ddl"}
  /\ IF stmt[b] = "ddl" /\ Local(b)
       THEN Connected(b) /\ SendAll(b, "ddl") /\ Goto(b, "wait")
       ELSE Goto(b, "end") /\ UNCHANGED <<inbox, reply>>
  /\ UNCHANGED <<lock, flags, stmt, stmts, cancels, failed>>

ExecuteFails(b) ==
  /\ pc[b] = "run" /\ stmt[b] = "query"
  /\ Done(b, "error")
  /\ UNCHANGED <<lock, flags, stmt, inbox, stmts, cancels, failed>>

(* The end of the loop of PostgresMain: outside of a transaction the shared lock
   is released.  A client may have opened a transaction block, which keeps it. *)
End(b) ==
  /\ pc[b] = "end"
  /\ \/ /\ exHeld[b] \/ (Local(b) /\ stmt[b] # "ddl")
        /\ Done(b, "ok") /\ UNCHANGED <<count, held, failed>>
     \/ /\ ~exHeld[b] /\ holder[b[2]] = Nobody
        /\ count' = Decremented(b[2])
        /\ held' = [held EXCEPT ![b] = FALSE]
        /\ Done(b, "ok") /\ UNCHANGED failed
     \/ /\ ~exHeld[b] /\ holder[b[2]] # Nobody
        /\ Fail(b) /\ UNCHANGED <<count, held>>
  /\ UNCHANGED <<holder, exHeld, stmt, inbox, stmts, cancels>>

----------------------------------------------------------------------------
(* HandleClusterPause up to the local lock: nothing to do, or the initiator
   sends the command to the other coordinators. *)
StartPause(b) ==
  /\ pc[b] = "run" /\ stmt[b] \in {"pause", "unpause"}
  /\ IF (stmt[b] = "pause") = exHeld[b]
       THEN Goto(b, "end") /\ UNCHANGED <<inbox, reply>>
       ELSE /\ Goto(b, "release")
            /\ IF Local(b) THEN Connected(b) /\ SendAll(b, stmt[b]) ELSE UNCHANGED <<inbox, reply>>
  /\ UNCHANGED <<lock, flags, stmt, stmts, cancels, failed>>

(* ReleaseClusterLock(pause ? false : true) *)
Release(b) ==
  LET c == b[2] IN
  /\ pc[b] = "release"
  /\ IF stmt[b] = "pause"
       THEN IF holder[c] # Nobody THEN Fail(b) /\ UNCHANGED lock
            ELSE /\ count' = Decremented(c)
                 /\ Goto(b, "acquire") /\ UNCHANGED <<holder, reply, failed>>
       ELSE IF ~ExclusiveSane(c) THEN Fail(b) /\ UNCHANGED lock
            ELSE /\ holder' = [holder EXCEPT ![c] = Nobody]
                 /\ Goto(b, "acquire") /\ UNCHANGED <<count, reply, failed>>
  /\ UNCHANGED <<flags, stmt, inbox, stmts, cancels>>

(* AcquireClusterLock(pause ? true : false) and cluster_ex_lock_held *)
Acquire(b) ==
  LET c == b[2] IN
  /\ pc[b] = "acquire"
  /\ \/ /\ stmt[b] = "pause" /\ ExclusiveFree(c)
        /\ IF holder[c] # Nobody
             THEN Fail(b) /\ UNCHANGED <<lock, exHeld>>
             ELSE /\ holder' = [holder EXCEPT ![c] = b]
                  /\ exHeld' = [exHeld EXCEPT ![b] = TRUE]
                  /\ Goto(b, IF Local(b) THEN "wait" ELSE "end")
                  /\ UNCHANGED <<count, reply, failed>>
     \/ /\ stmt[b] = "unpause" /\ SharedFree(c)
        /\ count' = [count EXCEPT ![c] = @ + 1]
        /\ exHeld' = [exHeld EXCEPT ![b] = FALSE]
        /\ Goto(b, IF Local(b) THEN "wait" ELSE "end")
        /\ UNCHANGED <<holder, reply, failed>>
  /\ UNCHANGED <<held, stmt, inbox, stmts, cancels>>

(* All other coordinators have answered. *)
Collect(b) ==
  /\ pc[b] = "wait"
  /\ \A r \in Remotes(b) : reply[r] = "ok"
  /\ Goto(b, "end")
  /\ UNCHANGED <<lock, flags, stmt, inbox, reply, stmts, cancels, failed>>

\* Mutant: a failed PAUSE is undone on this coordinator only.
SalvageNone(b) == UNCHANGED <<inbox, reply>>

\* UNPAUSE for those that obeyed a PAUSE that failed elsewhere.
Salvage(b) ==
  IF stmt[b] = "pause" THEN SendAll(b, "unpause") ELSE UNCHANGED <<inbox, reply>>

(* An error while b waits for the others: PG_CATCH, up to the local lock. *)
WaitFails(b) ==
  /\ pc[b] = "wait"
  /\ failed' = failed \cup Failure(b)
  /\ IF stmt[b] = "ddl" THEN Goto(b, "idle") /\ UNCHANGED <<inbox, reply>>
     ELSE Salvage(b) /\ Goto(b, "undo")

Catch(b) ==
  /\ \E r \in Remotes(b) : reply[r] = "error"
  /\ WaitFails(b)
  /\ UNCHANGED <<lock, flags, stmt, stmts, cancels>>

(* ReleaseClusterLock(pause ? true : false) of PG_CATCH *)
UndoRelease(b) ==
  LET c == b[2] IN
  /\ pc[b] = "undo"
  /\ IF stmt[b] = "pause"
       THEN IF ~ExclusiveSane(c) THEN Goto(b, "idle") /\ UNCHANGED lock
            ELSE /\ holder' = [holder EXCEPT ![c] = Nobody]
                 /\ Goto(b, "redo") /\ UNCHANGED count
       ELSE IF holder[c] # Nobody THEN Goto(b, "idle") /\ UNCHANGED lock
            ELSE /\ count' = Decremented(c)
                 /\ Goto(b, "redo") /\ UNCHANGED holder
  /\ UNCHANGED <<flags, stmt, inbox, reply, stmts, cancels, failed>>

(* AcquireClusterLock(pause ? false : true) of PG_CATCH, cluster_ex_lock_held =
   false, PG_RE_THROW *)
UndoAcquire(b) ==
  LET c == b[2] IN
  /\ pc[b] = "redo"
  /\ IF stmt[b] = "pause"
       THEN /\ SharedFree(c)
            /\ count' = [count EXCEPT ![c] = @ + 1]
            /\ exHeld' = [exHeld EXCEPT ![b] = FALSE]
            /\ UNCHANGED holder
       ELSE /\ ExclusiveFree(c)
            /\ holder' = IF holder[c] = Nobody THEN [holder EXCEPT ![c] = b] ELSE holder
            /\ UNCHANGED <<count, exHeld>>  \* it is false already
  /\ Goto(b, "idle")
  /\ UNCHANGED <<held, stmt, inbox, reply, stmts, cancels, failed>>

----------------------------------------------------------------------------
(* A statement is canceled, by its client or, on a remote backend, by the abort of
   its session: before it has done anything, while it waits for the cluster lock, or
   while it waits for the others.  Of these the last alone is within the PG_TRY; an
   initiator that is canceled in AcquireClusterLock sends no UNPAUSE. *)
Cancel(b) ==
  /\ cancels < MaxCancels /\ cancels' = cancels + 1
  /\ \/ (pc[b] = "run" \/ Waits(b)) /\ Fail(b) /\ UNCHANGED inbox
     \/ WaitFails(b)
  /\ UNCHANGED <<lock, flags, stmt, stmts>>

(* SIGTERM, where the session looks for it: the handler die releases an exclusive
   lock, the flags stay.  The exit is not an error: no PG_CATCH runs. *)
Die(b) ==
  /\ Local(b)
  /\ cancels < MaxCancels /\ cancels' = cancels + 1
  /\ \/ pc[b] = "idle" /\ exHeld[b] /\ UNCHANGED failed
     \/ (pc[b] \in {"run", "wait"} \/ Waits(b)) /\ failed' = failed \cup Failure(b)
  /\ IF exHeld[b] THEN ExclusiveSane(b[2]) /\ holder' = [holder EXCEPT ![b[2]] = Nobody]
     ELSE UNCHANGED holder
  /\ Goto(b, "exit")
  /\ UNCHANGED <<count, flags, stmt, inbox, reply, stmts>>

\* Mutant: only the other coordinators are released.
ReleasedAtExitNot(c) == holder

\* The ReleaseClusterLock(true) at the end of PGXCCleanClusterLock.
ReleasedAtExit(c) ==
  IF ExclusiveSane(c) THEN [holder EXCEPT ![c] = Nobody] ELSE holder

(* The client leaves, or the backend exits after SIGTERM: PGXCCleanClusterLock.
   It goes by the flags, also where a PAUSE has given the count back already.  The
   session then stands for the next client. *)
Exit(b) ==
  LET c == b[2] IN
  /\ Local(b)
  /\ pc[b] = "exit" \/ (pc[b] = "idle" /\ (held[b] \/ exHeld[b]))
  /\ IF exHeld[b]
       THEN /\ SendAll(b, "unpause")
            /\ holder' = ReleasedAtExit(c)
            /\ UNCHANGED count
       ELSE /\ count' = IF held[b] /\ holder[c] = Nobody THEN Decremented(c) ELSE count
            /\ UNCHANGED <<holder, inbox, reply>>
  /\ held' = [held EXCEPT ![b] = FALSE]
  /\ exHeld' = [exHeld EXCEPT ![b] = FALSE]
  /\ Goto(b, "idle")
  /\ UNCHANGED <<stmt, stmts, cancels, failed>>

\* What a backend does by itself, without its client.
Step(b) ==
  \/ RemoteStatement(b) \/ Lock(b) \/ Execute(b) \/ End(b)
  \/ StartPause(b) \/ Release(b) \/ Acquire(b) \/ Collect(b)
  \/ Catch(b) \/ UndoRelease(b) \/ UndoAcquire(b)
  \/ (pc[b] = "exit" /\ Exit(b))

Next ==
  \E b \in Backend :
    \/ Step(b)
    \/ \E s \in {"query", "ddl", "pause", "unpause"} : ClientStatement(b, s)
    \/ ExecuteFails(b) \/ Cancel(b) \/ Die(b) \/ Exit(b)

Spec == Init /\ [][Next]_vars /\ \A b \in Backend : WF_vars(Step(b))

----------------------------------------------------------------------------
\* PAUSE CLUSTER has returned to the client of session s.
Paused(s) ==
  LET b == <<s, Home[s]>> IN exHeld[b] /\ pc[b] \in {"idle", "run", "end"}

\* Does a backend process a statement other than PAUSE or UNPAUSE?
Busy(b) == stmt[b] \in {"query", "ddl"} /\ pc[b] \in {"run", "wait", "end"}

\* A session that is idle and has the shared lock: in a transaction, or after an error.
Lingers == \E b \in Backend : pc[b] = "idle" /\ held[b] /\ ~exHeld[b]

\* The variables keep their types.
TypeOK ==
  /\ holder \in [Coord -> Backend \cup {Nobody}]
  /\ count \in [Coord -> 0..Cardinality(Session)]
  /\ held \in [Backend -> BOOLEAN] /\ exHeld \in [Backend -> BOOLEAN]
  /\ pc \in [Backend -> {"idle", "lock", "run", "wait", "end", "release", "acquire",
                         "undo", "redo", "exit"}]
  /\ reply \in [Backend -> {"none", "ok", "error"}]

(* While a session has the cluster paused, no other session processes a
   statement on any coordinator, as long as no PAUSE or UNPAUSE has failed. *)
Exclusion ==
  failed = {} => \A s \in Session : Paused(s) => \A b \in Backend : b[1] # s => ~Busy(b)

(* cl_process_count is the number of backends that count on the shared lock,
   as long as no PAUSE or UNPAUSE has failed. *)
CountExact ==
  failed = {} => \A c \in Coord :
    count[c] = Cardinality({b \in Backend :
                 /\ b[2] = c /\ held[b] /\ ~exHeld[b]
                 /\ ~(stmt[b] = "pause" /\ pc[b] = "acquire")})

(* The backend whose pid is in cl_holder_pid knows that it holds the lock, so
   that an UNPAUSE reaches it, unless an UNPAUSE has failed. *)
HolderKnows ==
  "unpause" \notin failed =>
    \A c \in Coord : holder[c] # Nobody => exHeld[holder[c]]

\* A session in the course of PAUSE CLUSTER.
Pausing(b) ==
  stmt[b] = "pause" /\ pc[b] \in {"run", "release", "acquire", "wait", "undo", "redo"}

(* PAUSE CLUSTER returns, with success or an error, unless idle sessions keep the
   shared lock for ever, in a transaction block or after an error. *)
PauseReturns ==
  \A s \in Pausers : LET b == <<s, Home[s]>> IN Pausing(b) ~> (~Pausing(b) \/ []Lingers)

\* The pause of coordinator c ends, or somebody has the cluster paused.
PauseEnds(c) ==
  holder[c] = Nobody \/ (\E s \in Session : Paused(s)) \/ []Lingers

(* A coordinator does not stay paused when no session has the cluster paused: a
   PAUSE that failed on one coordinator is undone on the others, and so is the PAUSE
   of a session that ends.  Excepted are an UNPAUSE that failed, for which the code
   asks for manual intervention, and an initiator that failed before its PG_TRY. *)
NoStrayPause ==
  \A c \in Coord :
    (holder[c] # Nobody /\ failed \cap {"unpause", "initiator"} = {}) ~>
      (PauseEnds(c) \/ failed \cap {"unpause", "initiator"} # {})

(* No coordinator stays paused by nobody, whenever the initiator is canceled or
   ends: its cleanup is to leave no dangling cl_holder_pid. *)
NoDanglingHolder ==
  \A c \in Coord :
    (holder[c] # Nobody /\ "unpause" \notin failed) ~>
      (PauseEnds(c) \/ "unpause" \in failed)
=============================================================================
