--------------------------- MODULE GtsLockProofs ---------------------------
(***************************************************************************)
(* Proofs about GtsLock for any number of threads: the spin locks exclude  *)
(* writers from everybody else although they record no owner, no operation *)
(* fails, and the whole implements the atomic cell of TimestampCell.       *)
(*                                                                         *)
(* The inductive invariant has three parts.  Phases says where the loop    *)
(* variable stands in each phase of an operation, SlotsOwned who holds     *)
(* which slot, and Values what base, lastCycle and the private variables   *)
(* of the operations under way have to do with each other.  Exclusion, the *)
(* fact that Values is preserved by the steps of other threads, follows    *)
(* from the first two.                                                     *)
(***************************************************************************)
EXTENDS GtsLock, TLAPS

----------------------------------------------------------------------------
(* Where an operation stands in its loops. *)
Phases ==
  \A t \in Thread :
    /\ ~Writer(t) /\ pc[t] \in Inside \cup {"acquire", "release"} => slot[t] = t
    /\ Writer(t) /\ pc[t] \in Inside => slot[t] = 1
    /\ pc[t] = "check" => op[t] = "get" /\ debug
    /\ op[t] = "set" => arg[t] \in Start

\* A writer between its two writes.
Mid(t) ==
  \/ op[t] = "sync" /\ pc[t] = "cycle"
  \/ op[t] = "set" /\ pc[t] \in {"clock", "cycle"}

(* The offset in force, and what each operation under way has made of it. *)
Values ==
  /\ (\A t \in Thread : ~Mid(t)) => base - lastCycle = offset
  /\ clock + offset >= lastIssue
  /\ \A t \in Thread :
       /\ now[t] <= clock
       /\ op[t] = "sync" /\ pc[t] = "cycle" => base - now[t] = offset
       /\ op[t] = "set" /\ pc[t] \in {"clock", "cycle"} => base = arg[t]
       /\ op[t] = "get" /\ pc[t] = "base" => delta[t] = now[t] - lastCycle
       /\ op[t] = "get" /\ pc[t] \in {"cycle", "base"} => now[t] + offset >= lastIssue
       /\ pc[t] = "check" => gts[t] = now[t] + offset /\ gts[t] >= lastIssue

(* The inductive invariant. *)
LockInv == TypeOK /\ Phases /\ SlotsOwned /\ NoFailure /\ Values

----------------------------------------------------------------------------
(* A thread inside its section excludes every writer from its own. *)
LEMMA Exclusion ==
  ASSUME TypeOK, Phases, SlotsOwned,
         NEW t \in Thread, NEW u \in Thread,
         pc[t] \in Inside, pc[u] \in Inside, Writer(u)
  PROVE  t = u
<1>1. t \in Held(t)
  BY DEF Held, Thread
<1>2. t \in Held(u)
  BY DEF Held, Thread
<1> QED
  BY <1>1, <1>2 DEF SlotsOwned

(* The slots are numbered from 1 to N. *)
LEMMA SlotNumbers ==
  /\ 1 \in Thread /\ N \in Thread
  /\ \A s \in Thread : s \in Nat /\ 1 <= s /\ s <= N /\ (s # N => s + 1 \in Thread)
BY LockAssumption DEF Thread

(* Every step keeps the types. *)
LEMMA TypeStep ==
  ASSUME TypeOK, Phases, [Next]_vars
  PROVE  TypeOK'
<1> USE LockAssumption, SlotNumbers
<1>1. CASE Tick
  BY <1>1 DEF Tick, TypeOK, shared, local
<1>2. ASSUME NEW t \in Thread, NEW o \in {"get", "sync"}, Begin(t, o, 0) PROVE TypeOK'
  BY <1>2 DEF Begin, Goto, TypeOK, shared, Label
<1>3. ASSUME NEW t \in Thread, NEW g \in Start, Begin(t, "set", g) PROVE TypeOK'
  BY <1>3 DEF Begin, Goto, TypeOK, shared, Label
<1>4. ASSUME NEW t \in Thread, Step(t) PROVE TypeOK'
  <2>0. /\ slot[t] \in Thread
        /\ pc[t] = "acquire" /\ slot[t] # LastSlot(t) => slot[t] + 1 \in Thread
        /\ pc[t] = "release" /\ slot[t] # LastRelease(t) => slot[t] + 1 \in Thread
    BY DEF TypeOK, Phases, LastSlot, LastRelease
  <2>1. CASE Acquire(t)
    BY <2>0, <2>1 DEF Acquire, Goto, TypeOK, Label, FirstStep
  <2>2. CASE ReadClock(t)
    BY <2>2 DEF ReadClock, Goto, TypeOK, shared, Label
  <2>3. CASE GetCycle(t)
    BY <2>3 DEF GetCycle, Goto, TypeOK, shared, Label
  <2>4. CASE GetBase(t)
    BY <2>4 DEF GetBase, Goto, TypeOK, shared, Label
  <2>5. CASE GetCheck(t)
    BY <2>5 DEF GetCheck, Goto, TypeOK, local, Label
  <2>6. CASE SyncBase(t)
    BY <2>6 DEF SyncBase, SyncedBase, Goto, TypeOK, local, Label
  <2>7. CASE SyncCycle(t)
    BY <2>7 DEF SyncCycle, Goto, TypeOK, Label
  <2>8. CASE SetBase(t)
    BY <2>8 DEF SetBase, Goto, TypeOK, local, Label
  <2>9. CASE SetCycle(t)
    BY <2>9 DEF SetCycle, LastIssueAfterSet, Goto, TypeOK, local, Label
  <2>10. CASE Release(t)
    BY <2>0, <2>10 DEF Release, Goto, TypeOK, Label
  <2> QED
    BY <1>4, <2>1, <2>2, <2>3, <2>4, <2>5, <2>6, <2>7, <2>8, <2>9, <2>10 DEF Step
<1>5. CASE UNCHANGED vars
  BY <1>5 DEF vars, TypeOK
<1> QED
  BY <1>1, <1>2, <1>3, <1>4, <1>5 DEF Next

(* Every step keeps the loop variables in phase with the program counters. *)
LEMMA PhasesStep ==
  ASSUME TypeOK, Phases, [Next]_vars
  PROVE  Phases'
<1> USE LockAssumption, SlotNumbers DEF Phases, Writer, Inside
<1>1. CASE Tick
  BY <1>1 DEF Tick, shared, local
<1>2. ASSUME NEW t \in Thread, NEW o \in {"get", "sync"}, Begin(t, o, 0) PROVE Phases'
  BY <1>2 DEF Begin, Goto, TypeOK, shared
<1>3. ASSUME NEW t \in Thread, NEW g \in Start, Begin(t, "set", g) PROVE Phases'
  BY <1>3 DEF Begin, Goto, TypeOK, shared
<1>4. ASSUME NEW t \in Thread, Step(t) PROVE Phases'
  <2>1. CASE Acquire(t)
    BY <2>1 DEF Acquire, LastSlot, Goto, TypeOK, FirstStep
  <2>2. CASE ReadClock(t)
    BY <2>2 DEF ReadClock, Goto, TypeOK, shared
  <2>3. CASE GetCycle(t)
    BY <2>3 DEF GetCycle, Goto, TypeOK, shared
  <2>4. CASE GetBase(t)
    BY <2>4 DEF GetBase, Goto, TypeOK, shared
  <2>5. CASE GetCheck(t)
    BY <2>5 DEF GetCheck, Goto, TypeOK, local
  <2>6. CASE SyncBase(t)
    BY <2>6 DEF SyncBase, Goto, TypeOK, local
  <2>7. CASE SyncCycle(t)
    BY <2>7 DEF SyncCycle, Goto, TypeOK
  <2>8. CASE SetBase(t)
    BY <2>8 DEF SetBase, Goto, TypeOK, local
  <2>9. CASE SetCycle(t)
    BY <2>9 DEF SetCycle, Goto, TypeOK, local
  <2>10. CASE Release(t)
    BY <2>10 DEF Release, LastRelease, Goto, TypeOK
  <2> QED
    BY <1>4, <2>1, <2>2, <2>3, <2>4, <2>5, <2>6, <2>7, <2>8, <2>9, <2>10 DEF Step
<1>5. CASE UNCHANGED vars
  BY <1>5 DEF vars
<1> QED
  BY <1>1, <1>2, <1>3, <1>4, <1>5 DEF Next

(* A thread that goes on inside its section, or from there to the release,
   holds the slots it held. *)
LEMMA HeldInside ==
  ASSUME TypeOK, Phases, NEW t \in Thread, NEW label \in Inside \cup {"release"},
         pc[t] \in Inside, Goto(t, label), UNCHANGED <<debug, op, slot>>
  PROVE  \A u \in Thread : Held(u)' = Held(u)
<1> SUFFICES ASSUME NEW u \in Thread PROVE Held(u)' = Held(u)
  OBVIOUS
<1>1. Writer(u)' <=> Writer(u)
  BY DEF Writer
<1>2. CASE u # t
  <2>1. pc'[u] = pc[u] /\ slot'[u] = slot[u]
    BY <1>2 DEF Goto, TypeOK
  <2> QED
    BY <1>1, <2>1 DEF Held
<1>3. CASE u = t
  <2>1. pc'[u] = label /\ slot'[u] = slot[u]
    BY <1>3 DEF Goto, TypeOK
  <2>2. CASE Writer(u)
    <3>1. slot[u] = 1
      BY <1>3, <2>2 DEF Phases
    <3>2. Held(u) = Thread
      BY <1>3, <2>2 DEF Held
    <3>3. Held(u)' = Thread
      BY <1>1, <2>1, <2>2, <3>1, SlotNumbers DEF Held
    <3> QED
      BY <3>2, <3>3
  <2>3. CASE ~Writer(u)
    BY <1>1, <1>3, <2>1, <2>3 DEF Held
  <2> QED
    BY <2>2, <2>3
<1> QED
  BY <1>2, <1>3

(* Ownership is kept when locks and held slots stay as they are. *)
LEMMA OwnedStable ==
  ASSUME SlotsOwned, UNCHANGED lock, \A u \in Thread : Held(u)' = Held(u)
  PROVE  SlotsOwned'
BY DEF SlotsOwned

(* A thread that keeps its place keeps its slots. *)
LEMMA HeldOther ==
  ASSUME NEW u \in Thread, debug' = debug,
         pc'[u] = pc[u], slot'[u] = slot[u], op'[u] = op[u]
  PROVE  Held(u)' = Held(u)
BY DEF Held, Writer

(* Taking a free slot adds it to the slots of one thread. *)
LEMMA AcquireHeld ==
  ASSUME TypeOK, Phases, NEW t \in Thread, Acquire(t)
  PROVE  /\ slot[t] \in Thread
         /\ Held(t)' = Held(t) \cup {slot[t]}
         /\ \A u \in Thread : u # t => Held(u)' = Held(u)
<1> USE SlotNumbers
<1>0. (Writer(t)' <=> Writer(t)) /\ slot[t] \in Thread /\ pc[t] = "acquire"
  BY DEF Acquire, Writer, TypeOK
<1>1. \A u \in Thread : u # t => Held(u)' = Held(u)
  <2>1. SUFFICES ASSUME NEW u \in Thread, u # t PROVE Held(u)' = Held(u)
    OBVIOUS
  <2>2. pc'[u] = pc[u] /\ slot'[u] = slot[u] /\ op'[u] = op[u] /\ debug' = debug
    BY <2>1 DEF Acquire, Goto, TypeOK
  <2> QED
    BY <2>2, HeldOther
<1>2. CASE ~Writer(t)
  <2>1. slot[t] = t /\ pc'[t] \in Inside
    BY <1>0, <1>2 DEF Acquire, Goto, LastSlot, FirstStep, TypeOK, Phases, Inside
  <2>2. Held(t) = {}
    BY <1>0, <1>2 DEF Held, Inside
  <2>3. Held(t)' = {t}
    BY <1>0, <1>2, <2>1 DEF Held
  <2> QED
    BY <1>0, <1>1, <2>1, <2>2, <2>3
<1>3. CASE Writer(t) /\ slot[t] # N
  <2>1. pc'[t] = "acquire" /\ slot'[t] = slot[t] + 1
    BY <1>0, <1>3 DEF Acquire, LastSlot, TypeOK
  <2>2. Held(t) = {s \in Thread : s < slot[t]}
    BY <1>0, <1>3 DEF Held, Inside
  <2>3. Held(t)' = {s \in Thread : s < slot[t] + 1}
    BY <1>0, <1>3, <2>1 DEF Held, Inside
  <2>4. \A s \in Thread : s < slot[t] + 1 <=> s < slot[t] \/ s = slot[t]
    BY <1>0
  <2> QED
    BY <1>0, <1>1, <2>2, <2>3, <2>4
<1>4. CASE Writer(t) /\ slot[t] = N
  <2>1. pc'[t] \in Inside
    BY <1>0, <1>4 DEF Acquire, Goto, LastSlot, FirstStep, TypeOK, Inside
  <2>2. Held(t) = {s \in Thread : s < N}
    BY <1>0, <1>4 DEF Held, Inside
  <2>3. Held(t)' = Thread
    BY <1>0, <1>4, <2>1 DEF Held
  <2>4. \A s \in Thread : s < N \/ s = N
    BY LockAssumption
  <2> QED
    BY <1>0, <1>1, <1>4, <2>2, <2>3, <2>4
<1> QED
  BY <1>2, <1>3, <1>4

(* Giving back a slot takes it from the slots of one thread, which held it. *)
LEMMA ReleaseHeld ==
  ASSUME TypeOK, Phases, SlotsOwned, NEW t \in Thread, Release(t)
  PROVE  /\ slot[t] \in Held(t) /\ lock[slot[t]] = 1
         /\ Held(t)' = Held(t) \ {slot[t]}
         /\ \A u \in Thread : u # t => Held(u)' = Held(u)
<1> USE SlotNumbers
<1>0. (Writer(t)' <=> Writer(t)) /\ slot[t] \in Thread /\ pc[t] = "release"
  BY DEF Release, Writer, TypeOK
<1>1. \A u \in Thread : u # t => Held(u)' = Held(u)
  <2>1. SUFFICES ASSUME NEW u \in Thread, u # t PROVE Held(u)' = Held(u)
    OBVIOUS
  <2>2. pc'[u] = pc[u] /\ slot'[u] = slot[u] /\ op'[u] = op[u] /\ debug' = debug
    BY <2>1 DEF Release, Goto, TypeOK
  <2> QED
    BY <2>2, HeldOther
<1>2. slot[t] \in Held(t)
  <2>1. CASE Writer(t)
    BY <1>0, <2>1 DEF Held
  <2>2. CASE ~Writer(t)
    BY <1>0, <2>2 DEF Phases, Held
  <2> QED
    BY <2>1, <2>2
<1>3. lock[slot[t]] = 1
  BY <1>0, <1>2 DEF SlotsOwned
<1>4. CASE ~Writer(t)
  <2>1. slot[t] = t /\ pc'[t] = "idle"
    BY <1>0, <1>3, <1>4 DEF Release, Goto, LastRelease, TypeOK, Phases
  <2>2. Held(t) = {t}
    BY <1>0, <1>4 DEF Held
  <2>3. Held(t)' = {}
    BY <1>0, <1>4, <2>1 DEF Held, Inside
  <2> QED
    BY <1>1, <1>2, <1>3, <2>1, <2>2, <2>3
<1>5. CASE Writer(t) /\ slot[t] # N
  <2>1. pc'[t] = "release" /\ slot'[t] = slot[t] + 1
    BY <1>0, <1>3, <1>5 DEF Release, LastRelease, TypeOK
  <2>2. Held(t) = {s \in Thread : slot[t] <= s}
    BY <1>0, <1>5 DEF Held, Inside
  <2>3. Held(t)' = {s \in Thread : slot[t] + 1 <= s}
    BY <1>0, <1>5, <2>1 DEF Held, Inside
  <2>4. ASSUME NEW s \in Thread PROVE slot[t] + 1 <= s <=> slot[t] <= s /\ s # slot[t]
    <3>1. s \in Nat /\ slot[t] \in Nat
      BY <1>0
    <3> HIDE SlotNumbers
    <3> QED
      BY <3>1
  <2> QED
    BY <1>1, <1>2, <1>3, <2>2, <2>3, <2>4
<1>6. CASE Writer(t) /\ slot[t] = N
  <2>1. pc'[t] = "idle"
    BY <1>0, <1>3, <1>6 DEF Release, Goto, LastRelease, TypeOK
  <2>2. Held(t) = {s \in Thread : N <= s}
    BY <1>0, <1>6 DEF Held, Inside
  <2>3. Held(t)' = {}
    BY <1>0, <1>6, <2>1 DEF Held, Inside
  <2>4. \A s \in Thread : N <= s => s = N
    BY LockAssumption
  <2> QED
    BY <1>1, <1>2, <1>3, <1>6, <2>2, <2>3, <2>4
<1> QED
  BY <1>4, <1>5, <1>6

(* Every step keeps the slots owned. *)
LEMMA OwnedStep ==
  ASSUME TypeOK, Phases, SlotsOwned, Values, [Next]_vars
  PROVE  SlotsOwned'
<1>1. CASE Tick
  BY <1>1, OwnedStable DEF Tick, shared, local, Held, Writer
<1>2. ASSUME NEW t \in Thread, NEW o, NEW g, Begin(t, o, g) PROVE SlotsOwned'
  <2>1. \A u \in Thread : u # t => Held(u)' = Held(u)
    BY <1>2 DEF Begin, Goto, TypeOK, Held, Writer
  <2>2. Held(t) = {}
    BY <1>2 DEF Begin, Held, Inside
  <2>3. Held(t)' = {}
    <3>1. pc'[t] = "acquire" /\ op'[t] = o /\ debug' = debug
          /\ slot'[t] = IF o = "get" /\ ~debug THEN t ELSE 1
      BY <1>2 DEF Begin, Goto, TypeOK
    <3>2. CASE o = "get" /\ ~debug
      <4>1. ~Writer(t)'
        BY <3>1, <3>2 DEF Writer
      <4> QED
        BY <3>1, <4>1 DEF Held, Inside
    <3>3. CASE ~(o = "get" /\ ~debug)
      <4>1. Writer(t)'
        BY <3>1, <3>3 DEF Writer
      <4>2. \A s \in Thread : ~(s < 1)
        BY SlotNumbers
      <4> QED
        BY <3>1, <3>3, <4>1, <4>2 DEF Held, Inside
    <3> QED
      BY <3>2, <3>3
  <2> QED
    BY <1>2, <2>1, <2>2, <2>3, OwnedStable DEF Begin, shared
<1>3. ASSUME NEW t \in Thread, Step(t) PROVE SlotsOwned'
  <2>1. CASE Acquire(t)
    <3>1. /\ slot[t] \in Thread
          /\ Held(t)' = Held(t) \cup {slot[t]}
          /\ \A u \in Thread : u # t => Held(u)' = Held(u)
      BY <2>1, AcquireHeld
    <3>2. lock[slot[t]] = 0 /\ lock' = [lock EXCEPT ![slot[t]] = 1]
      BY <2>1 DEF Acquire
    <3>3. \A u \in Thread : slot[t] \notin Held(u)
      BY <3>1, <3>2 DEF SlotsOwned
    <3>4. \A s \in Thread : lock'[s] = IF s = slot[t] THEN 1 ELSE lock[s]
      BY <3>1, <3>2 DEF TypeOK
    <3>5. \A u, s \in Thread :
             s \in Held(u)' <=> s \in Held(u) \/ (u = t /\ s = slot[t])
      BY <3>1
    <3> QED
      BY <3>1, <3>3, <3>4, <3>5 DEF SlotsOwned
  <2>2. CASE Release(t)
    <3>1. /\ slot[t] \in Held(t) /\ lock[slot[t]] = 1
          /\ Held(t)' = Held(t) \ {slot[t]}
          /\ \A u \in Thread : u # t => Held(u)' = Held(u)
      BY <2>2, ReleaseHeld
    <3>2. lock' = [lock EXCEPT ![slot[t]] = 0]
      BY <2>2, <3>1 DEF Release
    <3>3. slot[t] \in Thread
      BY DEF TypeOK
    <3>4. \A s \in Thread : lock'[s] = IF s = slot[t] THEN 0 ELSE lock[s]
      BY <3>2, <3>3 DEF TypeOK
    <3>5. \A u, s \in Thread :
             s \in Held(u)' <=> s \in Held(u) /\ ~(u = t /\ s = slot[t])
      BY <3>1
    <3> QED
      BY <3>1, <3>3, <3>4, <3>5 DEF SlotsOwned
  <2>3. CASE ~Acquire(t) /\ ~Release(t)
    <3> USE <1>3, <2>3, HeldInside, OwnedStable DEF Step, Inside, shared, local
    <3>1. CASE ReadClock(t)
      BY <3>1 DEF ReadClock
    <3>2. CASE GetCycle(t)
      BY <3>2 DEF GetCycle
    <3>3. CASE GetBase(t)
      BY <3>3 DEF GetBase
    <3>4. CASE SyncBase(t)
      BY <3>4 DEF SyncBase
    <3>5. CASE SyncCycle(t)
      BY <3>5 DEF SyncCycle
    <3>6. CASE SetBase(t)
      BY <3>6 DEF SetBase
    <3>7. CASE SetCycle(t)
      BY <3>7 DEF SetCycle
    <3>8. CASE GetCheck(t)
      BY <3>8 DEF GetCheck, Values, TypeOK
    <3> QED
      BY <3>1, <3>2, <3>3, <3>4, <3>5, <3>6, <3>7, <3>8
  <2> QED
    BY <2>1, <2>2, <2>3
<1>4. CASE UNCHANGED vars
  BY <1>4, OwnedStable DEF vars, Held, Writer
<1> QED
  BY <1>1, <1>2, <1>3, <1>4 DEF Next

(* A writer inside its section is alone there, so that the offset in force is
   what base and lastCycle say whenever another kind of step looks at them. *)
LEMMA NobodyMid ==
  ASSUME LockInv, NEW t \in Thread, pc[t] \in Inside, ~Mid(t)
  PROVE  base - lastCycle = offset
<1>1. \A u \in Thread : Mid(u) => pc[u] \in Inside /\ Writer(u)
  BY DEF Mid, Inside, Writer
<1>2. \A u \in Thread : ~Mid(u)
  BY <1>1, Exclusion DEF LockInv
<1> QED
  BY <1>2 DEF LockInv, Values

(* Every step keeps the relation between base, lastCycle, the clock readings
   and the results of the operations under way. *)
LEMMA ValuesStep ==
  ASSUME LockInv, [Next]_vars
  PROVE  Values'
<1> USE LockAssumption DEF LockInv
<1>1. CASE Tick
  BY <1>1 DEF Tick, Values, Mid, TypeOK, shared, local
<1>2. ASSUME NEW t \in Thread, NEW o, NEW g, Begin(t, o, g) PROVE Values'
  BY <1>2 DEF Begin, Goto, Values, Mid, TypeOK, shared
<1>3. ASSUME NEW t \in Thread, Step(t) PROVE Values'
  <2>1. CASE Acquire(t)
    BY <2>1 DEF Acquire, Goto, FirstStep, Values, Mid, TypeOK
  <2>2. CASE ReadClock(t)
    BY <2>2 DEF ReadClock, Goto, Values, Mid, TypeOK, shared
  <2>3. CASE GetCycle(t)
    BY <2>3 DEF GetCycle, Goto, Values, Mid, TypeOK, shared
  <2>4. CASE GetBase(t)
    <3>1. base - lastCycle = offset
      BY <2>4, NobodyMid DEF GetBase, Inside, Mid
    <3> QED
      BY <2>4, <3>1 DEF GetBase, Goto, Values, Mid, TypeOK, shared
  <2>5. CASE GetCheck(t)
    <3>1. \A u \in Thread : pc[u] \in Inside => u = t
      BY <2>5, Exclusion DEF GetCheck, Inside, Phases, Writer
    <3> QED
      BY <2>5, <3>1 DEF GetCheck, Goto, Values, Mid, TypeOK, local, Inside
  <2>6. CASE SyncBase(t)
    <3>1. \A u \in Thread : pc[u] \in Inside => u = t
      BY <2>6, Exclusion DEF SyncBase, Inside, Writer
    <3>2. base - lastCycle = offset
      BY <2>6, NobodyMid DEF SyncBase, Inside, Mid
    <3> QED
      BY <2>6, <3>1, <3>2 DEF SyncBase, SyncedBase, Goto, Values, Mid, TypeOK, local, Inside
  <2>7. CASE SyncCycle(t)
    <3>1. \A u \in Thread : pc[u] \in Inside => u = t
      BY <2>7, Exclusion DEF SyncCycle, Inside, Writer
    <3> QED
      BY <2>7, <3>1 DEF SyncCycle, Goto, Values, Mid, TypeOK, Inside
  <2>8. CASE SetBase(t)
    <3>1. \A u \in Thread : pc[u] \in Inside => u = t
      BY <2>8, Exclusion DEF SetBase, Inside, Writer
    <3> QED
      BY <2>8, <3>1 DEF SetBase, Goto, Values, Mid, TypeOK, local, Inside
  <2>9. CASE SetCycle(t)
    <3>1. \A u \in Thread : pc[u] \in Inside => u = t
      BY <2>9, Exclusion DEF SetCycle, Inside, Writer
    <3> QED
      BY <2>9, <3>1 DEF SetCycle, LastIssueAfterSet, Goto, Values, Mid, TypeOK, local, Inside
  <2>10. CASE Release(t)
    BY <2>10 DEF Release, Goto, Values, Mid, TypeOK
  <2> QED
    BY <1>3, <2>1, <2>2, <2>3, <2>4, <2>5, <2>6, <2>7, <2>8, <2>9, <2>10 DEF Step
<1>4. CASE UNCHANGED vars
  BY <1>4 DEF vars, Values, Mid
<1> QED
  BY <1>1, <1>2, <1>3, <1>4 DEF Next

(* Every step keeps operations from failing. *)
LEMMA NoFailureStep ==
  ASSUME LockInv, [Next]_vars
  PROVE  NoFailure'
<1> USE DEF LockInv
<1>1. CASE Tick
  BY <1>1 DEF Tick, NoFailure
<1>2. ASSUME NEW t \in Thread, NEW o, NEW g, Begin(t, o, g) PROVE NoFailure'
  BY <1>2 DEF Begin, Goto, NoFailure, TypeOK
<1>3. ASSUME NEW t \in Thread, Step(t) PROVE NoFailure'
  <2>1. CASE Release(t)
    BY <2>1, ReleaseHeld DEF Release, Goto, NoFailure, TypeOK
  <2>2. CASE GetCheck(t)
    BY <2>2 DEF GetCheck, Goto, NoFailure, TypeOK, Values
  <2>3. CASE ~Release(t) /\ ~GetCheck(t)
    BY <1>3, <2>3 DEF Step, Acquire, FirstStep, ReadClock, GetCycle, GetBase, SyncBase,
       SyncCycle, SetBase, SetCycle, Goto, NoFailure, TypeOK
  <2> QED
    BY <2>1, <2>2, <2>3
<1>4. CASE UNCHANGED vars
  BY <1>4 DEF vars, NoFailure
<1> QED
  BY <1>1, <1>2, <1>3, <1>4 DEF Next

----------------------------------------------------------------------------
(* Initially nothing is locked and the offset is that of the start value. *)
LEMMA InitInv == Init => LockInv
<1> SUFFICES ASSUME Init PROVE LockInv
  OBVIOUS
<1> USE LockAssumption, SlotNumbers
<1>1. TypeOK /\ NoFailure
  BY DEF Init, TypeOK, Label, NoFailure
<1>2. Phases
  BY DEF Init, Phases, Inside
<1>3. SlotsOwned
  <2>1. \A t \in Thread : Held(t) = {}
    BY DEF Init, Held, Inside
  <2> QED
    BY <2>1 DEF Init, SlotsOwned
<1>4. Values
  BY <1>1 DEF Init, Values, Mid, TypeOK
<1> QED
  BY <1>1, <1>2, <1>3, <1>4 DEF LockInv

(* LockInv is inductive, hence an invariant. *)
LEMMA Invariance == Spec => []LockInv
<1>1. LockInv /\ [Next]_vars => LockInv'
  BY TypeStep, PhasesStep, OwnedStep, NoFailureStep, ValuesStep DEF LockInv
<1> QED
  BY InitInv, <1>1, PTL DEF Spec

(* The types of all variables, for any number of threads. *)
THEOREM LockTypes == Spec => []TypeOK
<1>1. LockInv => TypeOK
  BY DEF LockInv
<1> QED
  BY Invariance, <1>1, PTL

(* Spin locks without owners, one per slot, make a lock with exactly one owner
   of every taken slot (AcquireWriteLock, AcquireReadLock). *)
THEOREM LockOwned == Spec => []SlotsOwned
<1>1. LockInv => SlotsOwned
  BY DEF LockInv
<1> QED
  BY Invariance, <1>1, PTL

(* Neither the releases nor the check of enable_gtm_debug ever report their
   error, so that no error leaves the locks taken. *)
THEOREM LockNoFailure == Spec => []NoFailure
<1>1. LockInv => NoFailure
  BY DEF LockInv
<1> QED
  BY Invariance, <1>1, PTL

----------------------------------------------------------------------------
(* Results stay when neither they nor their ingredients change. *)
LEMMA ResultKept ==
  ASSUME \A t \in Thread : Result'[t] = Result[t]
  PROVE  Result' = Result
BY DEF Result

(* Every step of an operation is a step of the cell or none. *)
LEMMA CellStep ==
  ASSUME LockInv, NEW t \in Thread, Step(t)
  PROVE  [Cell!Next]_<<clock, offset, Result>>
<1> USE DEF LockInv
<1>0. ASSUME UNCHANGED <<clock, offset>>, \A u \in Thread : Result'[u] = Result[u]
      PROVE  UNCHANGED <<clock, offset, Result>>
  BY <1>0, ResultKept
<1>1. CASE Acquire(t)
  <2>1. \A u \in Thread : Result'[u] = Result[u]
    BY <1>1 DEF Acquire, Goto, FirstStep, TypeOK, Result
  <2> QED
    BY <1>0, <1>1, <2>1 DEF Acquire
<1>2. CASE ReadClock(t)
  <2>1. CASE op[t] = "set"
    <3>1. \A u \in Thread : Result'[u] = Result[u]
      BY <1>2, <2>1 DEF ReadClock, Goto, TypeOK, Result
    <3> QED
      BY <1>0, <1>2, <3>1 DEF ReadClock
  <2>2. CASE op[t] # "set"
    <3>1. Result'[t] = clock + offset
      BY <1>2, <2>2 DEF ReadClock, Goto, TypeOK, Result
    <3>2. \A u \in Thread : u # t => Result'[u] = Result[u]
      BY <1>2 DEF ReadClock, Goto, TypeOK, Result
    <3>3. Result' = [Result EXCEPT ![t] = clock + offset]
      BY <3>1, <3>2 DEF Result
    <3>4. Cell!Read(t)
      BY <1>2, <3>3 DEF ReadClock, Cell!Read
    <3> QED
      BY <3>4 DEF Cell!Next
  <2> QED
    BY <2>1, <2>2
<1>3. CASE GetCycle(t)
  <2>1. \A u \in Thread : Result'[u] = Result[u]
    BY <1>3 DEF GetCycle, Goto, TypeOK, Result
  <2> QED
    BY <1>0, <1>3, <2>1 DEF GetCycle
<1>4. CASE GetBase(t)
  <2>1. base - lastCycle = offset
    BY <1>4, NobodyMid DEF GetBase, Inside, Mid
  <2>2. base + delta[t] = now[t] + offset
    BY <1>4, <2>1 DEF GetBase, Values, TypeOK
  <2>3. \A u \in Thread : Result'[u] = Result[u]
    BY <1>4, <2>2 DEF GetBase, Goto, TypeOK, Result
  <2> QED
    BY <1>0, <1>4, <2>3 DEF GetBase
<1>5. CASE GetCheck(t)
  <2>1. \A u \in Thread : Result'[u] = Result[u]
    BY <1>5 DEF GetCheck, Goto, local, TypeOK, Result
  <2> QED
    BY <1>0, <1>5, <2>1 DEF GetCheck
<1>6. CASE SyncBase(t)
  <2>1. \A u \in Thread : Result'[u] = Result[u]
    BY <1>6 DEF SyncBase, Goto, local, TypeOK, Result
  <2> QED
    BY <1>0, <1>6, <2>1 DEF SyncBase
<1>7. CASE SyncCycle(t)
  <2>1. base - now[t] = offset /\ base = now[t] + offset
    BY <1>7 DEF SyncCycle, Values, TypeOK
  <2>2. \A u \in Thread : Result'[u] = Result[u]
    BY <1>7, <2>1 DEF SyncCycle, Goto, TypeOK, Result
  <2> QED
    BY <1>0, <1>7, <2>1, <2>2 DEF SyncCycle
<1>8. CASE SetBase(t)
  <2>1. \A u \in Thread : Result'[u] = Result[u]
    BY <1>8 DEF SetBase, Goto, local, TypeOK, Result
  <2> QED
    BY <1>0, <1>8, <2>1 DEF SetBase
<1>9. CASE SetCycle(t)
  <2>1. \A u \in Thread : pc[u] \in Inside => u = t
    BY <1>9, Exclusion DEF SetCycle, Inside, Writer
  <2>2. \A u \in Thread : Result'[u] = Result[u]
    BY <1>9, <2>1 DEF SetCycle, Goto, local, Inside, TypeOK, Result
  <2>3. arg[t] \in Start /\ now[t] \in 0..clock /\ offset' = arg[t] - now[t]
    BY <1>9 DEF SetCycle, Phases, Values, TypeOK
  <2>4. Cell!Set(arg[t], now[t])
    BY <1>9, <2>2, <2>3, ResultKept DEF SetCycle, Cell!Set
  <2> QED
    BY <2>3, <2>4 DEF Cell!Next
<1>10. CASE Release(t)
  <2>1. \A u \in Thread : Result'[u] = Result[u]
    BY <1>10 DEF Release, Goto, TypeOK, Result
  <2> QED
    BY <1>0, <1>10, <2>1 DEF Release
<1> QED
  BY <1>1, <1>2, <1>3, <1>4, <1>5, <1>6, <1>7, <1>8, <1>9, <1>10 DEF Step

(* The lock implements the atomic cell: every get and sync returns the clock
   plus the offset in force at one moment of it, for any number of threads
   (GetNextGlobalTimestamp, SyncGlobalTimestamp, SetNextGlobalTimestamp). *)
THEOREM LockImplementsCell == Spec => ImplementsCell
<1>1. Init => Cell!Init
  BY LockAssumption DEF Init, Cell!Init, Result
<1>2. LockInv /\ [Next]_vars => [Cell!Next]_<<clock, offset, Result>>
  <2> SUFFICES ASSUME LockInv, [Next]_vars PROVE [Cell!Next]_<<clock, offset, Result>>
    OBVIOUS
  <2>1. CASE Tick
    BY <2>1 DEF Tick, shared, local, Result, Cell!Next, Cell!Tick
  <2>2. ASSUME NEW t \in Thread, NEW o, NEW g, Begin(t, o, g)
        PROVE  [Cell!Next]_<<clock, offset, Result>>
    <3>1. \A u \in Thread : Result'[u] = Result[u]
      BY <2>2 DEF Begin, Goto, TypeOK, LockInv, Result
    <3> QED
      BY <2>2, <3>1, ResultKept DEF Begin
  <2>3. ASSUME NEW t \in Thread, Step(t) PROVE [Cell!Next]_<<clock, offset, Result>>
    BY <2>3, CellStep
  <2>4. CASE UNCHANGED vars
    BY <2>4 DEF vars, Result
  <2> QED
    BY <2>1, <2>2, <2>3, <2>4 DEF Next
<1> QED
  BY Invariance, <1>1, <1>2, PTL DEF Spec, ImplementsCell, Cell!Spec, Cell!vars
=============================================================================
