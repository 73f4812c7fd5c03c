------------------------------- MODULE GtsLock -------------------------------
(***************************************************************************)
(* The lock around the timestamp of a GTM server.  It consists of one spin *)
(* lock per thread slot.  A reader takes the lock of its own slot; a       *)
(* writer takes all of them, from the first to the last, and releases them *)
(* in the same order.  The locks do not know who holds them.               *)
(*                                                                         *)
(* Every thread of the server has a slot of its own (GTM_ThreadAdd) and    *)
(* may run each of the three operations: get (GetNextGlobalTimestamp),     *)
(* sync (SyncGlobalTimestamp) and set (SetNextGlobalTimestamp).  Every     *)
(* access to shared memory is a step of its own.  With enable_gtm_debug a  *)
(* get takes the write lock and compares its result with the last one.     *)
(***************************************************************************)
EXTENDS Integers

CONSTANTS N,         \* GTM_MAX_THREADS
          Start,     \* the start values that may be set
          MaxClock,  \* bound: the clock stops here
          MaxOps     \* bound: how many operations are begun

ASSUME LockAssumption ==
  /\ N \in Nat \ {0}
  /\ Start \subseteq Nat \ {0}
  /\ MaxClock \in Nat /\ MaxOps \in Nat

Thread == 1..N

VARIABLES
  debug,      \* enable_gtm_debug, fixed when the server starts
  clock,      \* CLOCK_MONOTONIC_RAW
  lock,       \* gt_in_locking
  base,       \* gt_global_timestamp
  lastCycle,  \* gt_last_cycle
  lastIssue,  \* gt_last_issue_timestamp
  pc,         \* the next step of each thread
  op,         \* the operation a thread runs, or ran last
  slot,       \* the loop variable i of AcquireWriteLock and ReleaseWriteLock
  now,        \* the clock reading of a thread's operation
  delta,      \* delta of GetNextGlobalTimestamp
  gts,        \* the result of a thread's last get or sync
  arg,        \* the argument of a thread's set
  ops,        \* number of operations begun
  offset      \* history: base - lastCycle after the last complete write

shared == <<lock, base, lastCycle, lastIssue>>
local == <<op, slot, now, delta, gts, arg>>
vars == <<debug, clock, lock, base, lastCycle, lastIssue, pc, op, slot, now, delta,
          gts, arg, ops, offset>>

----------------------------------------------------------------------------
\* Does the operation take the write lock?
Writer(t) == op[t] # "get" \/ debug

\* Mutant: the loop of a writer runs one slot too far.
LastSlotPast(t) == IF Writer(t) THEN N + 1 ELSE t

\* Mutant: the loop of a writer ends one slot early.
LastSlotShort(t) == IF Writer(t) /\ N > 1 THEN N - 1 ELSE t

\* The last slot that AcquireWriteLock or AcquireReadLock takes.
LastSlot(t) == IF Writer(t) THEN N ELSE t

\* Mutant: the loop of ReleaseWriteLock ends one slot early.
LastReleaseShort(t) == IF Writer(t) /\ N > 1 THEN N - 1 ELSE t

\* The last slot that ReleaseWriteLock or ReleaseReadLock gives back.
LastRelease(t) == IF Writer(t) THEN N ELSE t

\* Where an operation starts once it has its lock.
FirstStep(t) == IF op[t] = "set" THEN "base" ELSE "clock"

Init ==
  /\ debug \in BOOLEAN
  /\ clock = 0
  /\ lock = [s \in Thread |-> 0]
  /\ base \in Start
  /\ lastCycle = 0
  /\ lastIssue = base - 1
  /\ pc = [t \in Thread |-> "idle"]
  /\ op = [t \in Thread |-> "get"]
  /\ slot = [t \in Thread |-> 1]
  /\ now = [t \in Thread |-> 0]
  /\ delta = [t \in Thread |-> 0]
  /\ gts = [t \in Thread |-> 0]
  /\ arg = [t \in Thread |-> 0]
  /\ ops = 0
  /\ offset = base - lastCycle

Goto(t, label) == pc' = [pc EXCEPT ![t] = label]

----------------------------------------------------------------------------
Tick ==
  /\ clock < MaxClock
  /\ clock' = clock + 1
  /\ UNCHANGED <<debug, shared, pc, local, ops, offset>>

(* A thread begins an operation; the loop starts at the first slot, a reader
   at its own. *)
Begin(t, o, g) ==
  /\ pc[t] = "idle"
  /\ ops < MaxOps
  /\ ops' = ops + 1
  /\ op' = [op EXCEPT ![t] = o]
  /\ arg' = [arg EXCEPT ![t] = g]
  /\ slot' = [slot EXCEPT ![t] = IF o = "get" /\ ~debug THEN t ELSE 1]
  /\ Goto(t, "acquire")
  /\ UNCHANGED <<debug, clock, shared, now, delta, gts, offset>>

(* A compare and swap that succeeds; one that fails changes nothing. *)
Acquire(t) ==
  /\ pc[t] = "acquire"
  /\ lock[slot[t]] = 0
  /\ lock' = [lock EXCEPT ![slot[t]] = 1]
  /\ IF slot[t] = LastSlot(t)
       THEN /\ Goto(t, FirstStep(t))
            /\ slot' = [slot EXCEPT ![t] = IF Writer(t) THEN 1 ELSE t]
       ELSE /\ slot' = [slot EXCEPT ![t] = @ + 1]
            /\ UNCHANGED pc
  /\ UNCHANGED <<debug, clock, base, lastCycle, lastIssue, op, now, delta, gts, arg,
                 ops, offset>>

ReadClock(t) ==
  /\ pc[t] = "clock"
  /\ now' = [now EXCEPT ![t] = clock]
  /\ Goto(t, IF op[t] = "sync" THEN "base" ELSE "cycle")
  /\ UNCHANGED <<debug, clock, shared, op, slot, delta, gts, arg, ops, offset>>

----------------------------------------------------------------------------
(* delta = now - gt_last_cycle *)
GetCycle(t) ==
  /\ pc[t] = "cycle" /\ op[t] = "get"
  /\ delta' = [delta EXCEPT ![t] = now[t] - lastCycle]
  /\ Goto(t, "base")
  /\ UNCHANGED <<debug, clock, shared, op, slot, now, gts, arg, ops, offset>>

(* gts = gt_global_timestamp + delta *)
GetBase(t) ==
  /\ pc[t] = "base" /\ op[t] = "get"
  /\ gts' = [gts EXCEPT ![t] = base + delta[t]]
  /\ Goto(t, IF debug THEN "check" ELSE "release")
  /\ UNCHANGED <<debug, clock, shared, op, slot, now, delta, arg, ops, offset>>

(* With enable_gtm_debug: elog(ERROR) leaves before the lock is released. *)
GetCheck(t) ==
  /\ pc[t] = "check"
  /\ IF gts[t] < lastIssue
       THEN Goto(t, "failed") /\ UNCHANGED lastIssue
       ELSE Goto(t, "release") /\ lastIssue' = gts[t]
  /\ UNCHANGED <<debug, clock, lock, base, lastCycle, local, ops, offset>>

----------------------------------------------------------------------------
\* Mutant: the base is moved by the time since the server started.
SyncedBaseAbsolute(t) == base + now[t]

\* The value SyncGlobalTimestamp moves the base to.
SyncedBase(t) == base + (now[t] - lastCycle)

SyncBase(t) ==
  /\ pc[t] = "base" /\ op[t] = "sync"
  /\ base' = SyncedBase(t)
  /\ Goto(t, "cycle")
  /\ UNCHANGED <<debug, clock, lock, lastCycle, lastIssue, local, ops, offset>>

SyncCycle(t) ==
  /\ pc[t] = "cycle" /\ op[t] = "sync"
  /\ lastCycle' = now[t]
  /\ gts' = [gts EXCEPT ![t] = base]
  /\ offset' = base - now[t]
  /\ Goto(t, "release")
  /\ UNCHANGED <<debug, clock, lock, base, lastIssue, op, slot, now, delta, arg, ops>>

(* SetNextGlobalTimestamp writes the base before it reads the clock. *)
SetBase(t) ==
  /\ pc[t] = "base" /\ op[t] = "set"
  /\ base' = arg[t]
  /\ Goto(t, "clock")
  /\ UNCHANGED <<debug, clock, lock, lastCycle, lastIssue, local, ops, offset>>

\* Mutant: the last issued value is left alone.
LastIssueKept(t) == lastIssue

\* What SetNextGlobalTimestamp writes to gt_last_issue_timestamp.
LastIssueAfterSet(t) == arg[t] - 1

SetCycle(t) ==
  /\ pc[t] = "cycle" /\ op[t] = "set"
  /\ lastCycle' = now[t]
  /\ lastIssue' = LastIssueAfterSet(t)
  /\ offset' = base - now[t]
  /\ Goto(t, "release")
  /\ UNCHANGED <<debug, clock, lock, base, local, ops>>

----------------------------------------------------------------------------
(* One round of ReleaseWriteLock, or ReleaseReadLock: a lock that is not taken
   is an error. *)
Release(t) ==
  /\ pc[t] = "release"
  /\ IF lock[slot[t]] # 1
       THEN Goto(t, "failed") /\ UNCHANGED <<lock, slot>>
       ELSE /\ lock' = [lock EXCEPT ![slot[t]] = 0]
            /\ IF slot[t] = LastRelease(t)
                 THEN Goto(t, "idle") /\ UNCHANGED slot
                 ELSE slot' = [slot EXCEPT ![t] = @ + 1] /\ UNCHANGED pc
  /\ UNCHANGED <<debug, clock, base, lastCycle, lastIssue, op, now, delta, gts, arg,
                 ops, offset>>

\* The steps of an operation that has begun.
Step(t) ==
  \/ Acquire(t) \/ ReadClock(t)
  \/ GetCycle(t) \/ GetBase(t) \/ GetCheck(t)
  \/ SyncBase(t) \/ SyncCycle(t)
  \/ SetBase(t) \/ SetCycle(t)
  \/ Release(t)

Next ==
  \/ Tick
  \/ \E t \in Thread, o \in {"get", "sync"} : Begin(t, o, 0)
  \/ \E t \in Thread, g \in Start : Begin(t, "set", g)
  \/ \E t \in Thread : Step(t)

Fairness == \A t \in Thread : WF_vars(Step(t))

Spec == Init /\ [][Next]_vars /\ Fairness

----------------------------------------------------------------------------
Label == {"idle", "acquire", "clock", "cycle", "base", "check", "release", "failed"}
Inside == {"clock", "cycle", "base", "check"}

(* Every variable holds a value of its kind. *)
TypeOK ==
  /\ debug \in BOOLEAN
  /\ clock \in Nat
  /\ lock \in [Thread -> {0, 1}]
  /\ base \in Int /\ lastCycle \in Int /\ lastIssue \in Int /\ offset \in Int
  /\ pc \in [Thread -> Label]
  /\ op \in [Thread -> {"get", "sync", "set"}]
  /\ slot \in [Thread -> Thread]
  /\ now \in [Thread -> Nat]
  /\ delta \in [Thread -> Int]
  /\ gts \in [Thread -> Int]
  /\ arg \in [Thread -> Nat]
  /\ ops \in Nat

\* The slots a thread has taken and not yet given back.
Held(t) ==
  IF Writer(t)
    THEN {s \in Thread : \/ pc[t] = "acquire" /\ s < slot[t]
                         \/ pc[t] \in Inside
                         \/ pc[t] = "release" /\ slot[t] <= s}
    ELSE {s \in Thread : s = t /\ pc[t] \in Inside \cup {"release"}}

(* The spin locks record no owner, and yet each taken one belongs to exactly
   one thread: a thread that counts on a slot finds it locked, no two threads
   count on the same one, and none is left locked by nobody
   (AcquireWriteLock, AcquireReadLock and their releases). *)
SlotsOwned ==
  \A s \in Thread :
    /\ lock[s] = 1 <=> \E t \in Thread : s \in Held(t)
    /\ \A t, u \in Thread : s \in Held(t) /\ s \in Held(u) => t = u

(* No operation ends in an error: a lock is locked when it is released, and
   the check of enable_gtm_debug never sees a timestamp below the one issued
   before it, which would leave all slots locked for ever. *)
NoFailure == \A t \in Thread : pc[t] # "failed"

(* Every operation that has begun comes to its end once no new ones arrive:
   writers that meet each other, or readers, never wait in a circle. *)
Drains == (ops = MaxOps) ~> (\A t \in Thread : pc[t] = "idle")

----------------------------------------------------------------------------
\* A get or sync counts as done when it reads the clock under its lock.
Result ==
  [t \in Thread |->
     IF \/ op[t] = "get" /\ pc[t] \in {"cycle", "base"}
        \/ op[t] = "sync" /\ pc[t] \in {"base", "cycle"}
       THEN now[t] + offset
       ELSE gts[t]]

Cell == INSTANCE TimestampCell WITH result <- Result

(* The lock makes an atomic cell of base and clock reading: whatever the
   interleaving, a get or sync returns the clock plus the one offset that was
   in force when it read the clock (GetNextGlobalTimestamp and
   SyncGlobalTimestamp against each other and SetNextGlobalTimestamp). *)
ImplementsCell == Cell!Spec
=============================================================================
