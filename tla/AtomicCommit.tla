---------------------------- MODULE AtomicCommit ----------------------------
(***************************************************************************)
(* What a distributed transaction promises, whoever finishes it.  There is *)
(* one decision.  A commit is decided only while every participant is      *)
(* prepared, and is never taken back; the first participant that aborts,   *)
(* or a client that is told of a rollback, decides for abort.  A           *)
(* participant ends once, and as decided.                                  *)
(***************************************************************************)
CONSTANT Node

VARIABLES part,      \* state of the transaction on each node
          decision,  \* none, commit or abort
          told       \* what the client was told

vars == <<part, decision, told>>

Participant == {n \in Node : part[n] # "none"}

Init ==
  /\ part \in [Node -> {"none", "active"}]
  /\ decision = "none"
  /\ told = "none"

Prepare(n) ==
  /\ part[n] = "active"
  /\ part' = [part EXCEPT ![n] = "prepared"]
  /\ UNCHANGED <<decision, told>>

DecideCommit ==
  /\ decision = "none"
  /\ \A n \in Participant : part[n] = "prepared"
  /\ decision' = "commit"
  /\ UNCHANGED <<part, told>>

Commit(n) ==
  /\ decision = "commit"
  /\ part[n] = "prepared"
  /\ part' = [part EXCEPT ![n] = "committed"]
  /\ UNCHANGED decision

Abort(n) ==
  /\ decision # "commit"
  /\ part[n] \in {"active", "prepared"}
  /\ part' = [part EXCEPT ![n] = "aborted"]
  /\ decision' = "abort"

\* The client hears of success only when all are committed.
TellCommit ==
  /\ told = "none" /\ told' = "commit"
  /\ \A n \in Participant : part'[n] = "committed"

TellAbort ==
  /\ told = "none" /\ told' = "abort"
  /\ decision # "commit" /\ decision' = "abort"

(* A client may be told in the step that ends the last participant. *)
Next ==
  \/ \E n \in Node : Prepare(n)
  \/ DecideCommit
  \/ \E n \in Node : Commit(n) /\ (TellCommit \/ UNCHANGED told)
  \/ \E n \in Node : Abort(n) /\ (TellAbort \/ UNCHANGED told)
  \/ TellCommit /\ UNCHANGED <<part, decision>>
  \/ TellAbort /\ UNCHANGED part

Spec == Init /\ [][Next]_vars
=============================================================================
