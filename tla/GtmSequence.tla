---------------------------- MODULE GtmSequence ----------------------------
(***************************************************************************)
(* A sequence of the GTM.  A server keeps it twice: in GTM_SeqInfo (mem),  *)
(* from which nextval answers, and in the store image GTM_StoredSeqInfo    *)
(* (store), of which every change is copied into the log.  A sequence with *)
(* a wide range is "reserved": its image runs up to SEQ_RESERVE_COUNT      *)
(* values ahead of the memory, so that only one nextval in that many must  *)
(* write to the log.  Both copies are lost in a crash, and the image is    *)
(* rebuilt from the log.                                                   *)
(*                                                                         *)
(* The threads of the server run requests.  A request works under the      *)
(* sequence's gs_lock and collects copies of the image; after the lock is  *)
(* released it inserts them into the log, flushes the log up to there (and *)
(* waits for the synchronous standbys), and replies.  A request that       *)
(* collected nothing replies at once.                                      *)
(*                                                                         *)
(* era is a history field: it changes where values may begin to repeat,    *)
(* when the sequence is created or set (epoch) or wraps around (lap).      *)
(***************************************************************************)
EXTENDS Integers, Sequences, FiniteSets

CONSTANTS Thread,
          Options,     \* options of CREATE and ALTER SEQUENCE
          Counts,      \* how many values a nextval may ask for
          Reserve,     \* SEQ_RESERVE_COUNT
          MinGap,      \* SEQ_RESERVE_MIN_GAP
          Overlap,     \* may a crash follow requests that overlapped?
          SetValues,   \* values of setval
          MaxOps,      \* bound: requests
          MaxCrashes   \* bound: crashes

ASSUME SequenceAssumption ==
  /\ Reserve \in Nat \ {0} /\ MinGap \in Nat \ {0}
  /\ Counts \subseteq Nat \ {0}
  /\ Options \subseteq [inc : Int \ {0}, min : Int, max : Int, cycle : BOOLEAN,
                        ordered : BOOLEAN]  \* ordered: NOCACHE and ORDER
  /\ \A o \in Options : o.min < o.max
  /\ Overlap \in BOOLEAN /\ SetValues \subseteq Int
  /\ MaxOps \in Nat /\ MaxCrashes \in Nat

VARIABLES
  mem,      \* the GTM_SeqInfo in the hash table, or None
  store,    \* the GTM_StoredSeqInfo, or None
  log,      \* the images in the log, the oldest first
  flushed,  \* how many of them are on disk
  pc,       \* the next step of each thread
  req,      \* the request of each thread
  buf,      \* the image a thread registered last, or None
  pos,      \* where a thread's record ends in the log
  answer,   \* the values nextval is about to answer
  given,    \* history: the values answered, each with its era
  twice,    \* history: was a value answered twice in one era?
  epochs,   \* history: number of epochs
  overlapped, \* history: did two requests overlap?
  ops, crashes

thread == <<pc, req, buf, pos, answer>>
history == <<given, twice, epochs, overlapped>>
vars == <<mem, store, log, flushed, thread, history, ops, crashes>>

None == [none |-> TRUE]
Idle == [op |-> "none"]

----------------------------------------------------------------------------
\* SEQ_IS_ASCENDING
Ascending(s) == s.inc > 0

\* Values in the order in which the sequence s produces them.
Before(s, v, w) == IF Ascending(s) THEN v < w ELSE w < v

\* The last value a sequence may reach, and the one where it starts over.
Limit(s) == IF Ascending(s) THEN s.max ELSE s.min
Origin(s) == IF Ascending(s) THEN s.min ELSE s.max

NextLap(era) == [era EXCEPT !.lap = @ + 1]

\* Mutant: the limit itself is not respected.
FitsLoose(s, v, d) == ~Before(s, Limit(s), v)

\* Can the value v move on by d without passing the limit?
Fits(s, v, d) == ~Before(s, Limit(s) - d, v)

\* Mutant: a step of one, whatever the increment.
ReservedAheadShort(s) ==
  IF Fits(s, s.value, Reserve) THEN [s EXCEPT !.value = @ + Reserve, !.called = TRUE]
  ELSE [s EXCEPT !.value = Limit(s), !.called = TRUE]

(* GTM_StoreReserveSeqValue: the image runs ahead.  At the limit it wraps or
   stays, in steps of the values rather than of the increment. *)
ReservedAhead(s) ==
  LET d == s.inc * Reserve IN
  IF Fits(s, s.value, d) THEN [s EXCEPT !.value = @ + d, !.called = TRUE]
  ELSE IF s.cycle
    THEN [s EXCEPT !.value = Origin(s) + (d - (Limit(s) - s.value)),
                   !.called = TRUE, !.era = NextLap(@)]
    ELSE [s EXCEPT !.value = Limit(s), !.called = TRUE]

\* n reservations in a row.
Ahead(s, n) ==
  LET after[i \in 0..n] == IF i = 0 THEN s ELSE ReservedAhead(after[i - 1])
  IN after[n]

\* Is a sequence with these bounds wide enough to be reserved?
Wide(o) == o.max - o.min >= Reserve * MinGap

\* The GTM_SeqInfo made from an image: how many values are left, and is the handle set?
InMemory(s, left, linked) ==
  [inc |-> s.inc, min |-> s.min, max |-> s.max, cycle |-> s.cycle, value |-> s.value,
   called |-> s.called, reserved |-> s.reserved, era |-> s.era, left |-> left, linked |-> linked]

WithOptions(s, o) ==
  [s EXCEPT !.inc = o.inc, !.min = o.min, !.max = o.max, !.cycle = o.cycle]

NewEra == [epoch |-> epochs + 1, lap |-> 0]

Durable(n) == IF n = 0 THEN None ELSE log[n]

----------------------------------------------------------------------------
Init ==
  /\ mem = None /\ store = None
  /\ log = <<>> /\ flushed = 0
  /\ pc = [t \in Thread |-> "idle"]
  /\ req = [t \in Thread |-> Idle]
  /\ buf = [t \in Thread |-> None]
  /\ pos = [t \in Thread |-> 0]
  /\ answer = [t \in Thread |-> {}]
  /\ given = {} /\ twice = FALSE /\ epochs = 0 /\ overlapped = FALSE
  /\ ops = 0 /\ crashes = 0

(* A message arrives and XLogBeginInsert empties the thread's buffer.  CREATE
   and ALTER SEQUENCE lock the sequence's relation against all other uses. *)
Request(t, r) ==
  /\ pc[t] = "idle" /\ ops < MaxOps
  /\ (r.op = "open") <=> (store = None)
  /\ \A u \in Thread : pc[u] # "idle" => {r.op, req[u].op} \subseteq {"next", "set"}
  /\ pc' = [pc EXCEPT ![t] = IF r.op = "open" THEN "run" ELSE "find"]
  /\ req' = [req EXCEPT ![t] = r]
  /\ buf' = [buf EXCEPT ![t] = None]
  /\ answer' = [answer EXCEPT ![t] = {}]
  /\ ops' = ops + 1
  /\ overlapped' = (overlapped \/ \E u \in Thread \ {t} : pc[u] # "idle")
  /\ UNCHANGED <<mem, store, log, flushed, pos, given, twice, epochs, crashes>>

(* seq_find_seqinfo; when it fails GTM_FormSeqOfStore loads the image and puts
   it into the hash table, before it knows the handle of the image. *)
Find(t) ==
  /\ pc[t] = "find"
  /\ IF mem # None
       THEN pc' = [pc EXCEPT ![t] = "run"] /\ UNCHANGED mem
       ELSE /\ mem' = InMemory(store, 0, FALSE)
            /\ pc' = [pc EXCEPT ![t] = "form"]
  /\ UNCHANGED <<store, log, flushed, req, buf, pos, answer, history, ops, crashes>>

(* The rest of GTM_FormSeqOfStore, which takes no lock of the sequence. *)
Form(t) ==
  /\ pc[t] = "form"
  /\ IF mem.reserved
       THEN /\ store' = ReservedAhead(store)
            /\ mem' = [mem EXCEPT !.linked = TRUE, !.left = Reserve]
            /\ buf' = [buf EXCEPT ![t] = store']
       ELSE /\ mem' = [mem EXCEPT !.linked = TRUE]
            /\ UNCHANGED <<store, buf>>
  /\ pc' = [pc EXCEPT ![t] = "run"]
  /\ UNCHANGED <<log, flushed, req, pos, answer, history, ops, crashes>>

(* The image becomes s and a copy of it is registered.  A sequence without its
   handle writes to the image with handle 0; that image is another sequence's, which
   a model of one sequence does not have. *)
Register(t, s, linked) ==
  IF linked
    THEN /\ store' = s
         /\ buf' = [buf EXCEPT ![t] = s]
         /\ pc' = [pc EXCEPT ![t] = "insert"]
    ELSE UNCHANGED <<store, buf>> /\ pc' = [pc EXCEPT ![t] = "insert"]

----------------------------------------------------------------------------
(* GTM_SeqOpen of a sequence that starts where its options let it by default: START
   WITH another value is CREATE followed by setval. *)
Open(t) ==
  LET o == req[t].options
      reserved == ~o.ordered /\ Wide(o)
      new == [inc |-> o.inc, min |-> o.min, max |-> o.max, cycle |-> o.cycle,
              value |-> Origin(o), called |-> FALSE, reserved |-> reserved,
              era |-> NewEra]
  IN /\ pc[t] = "run" /\ req[t].op = "open"
     /\ mem' = InMemory(new, IF reserved THEN Reserve ELSE 0, TRUE)
     /\ Register(t, IF reserved THEN ReservedAhead(new) ELSE new, TRUE)
     /\ epochs' = epochs + 1
     /\ UNCHANGED <<log, flushed, req, pos, answer, given, twice, overlapped, ops, crashes>>

\* The first value of a nextval, and the era it belongs to.
First(m) ==
  IF ~m.called THEN m.value
  ELSE IF Fits(m, m.value, m.inc) THEN m.value + m.inc ELSE Origin(m)

FirstEra(m) ==
  IF ~m.called \/ Fits(m, m.value, m.inc) THEN m.era ELSE NextLap(m.era)

\* get_rangemax: how many of the n values fit.
UsedCount(m, n) ==
  CHOOSE k \in 1..n :
    /\ k = 1 \/ Fits(m, First(m), (k - 1) * m.inc)
    /\ k = n \/ ~Fits(m, First(m), k * m.inc)

\* How often the loop reserves until some are left.
Rounds(left) == IF left > 0 THEN 0 ELSE (-left) \div Reserve + 1

(* GTM_SeqGetNext: an error at the limit drops what the request registered. *)
GetNextFails(t) ==
  /\ pc[t] = "run" /\ req[t].op = "next"
  /\ mem.called /\ ~Fits(mem, mem.value, mem.inc) /\ ~mem.cycle
  /\ pc' = [pc EXCEPT ![t] = "idle"]
  /\ UNCHANGED <<mem, store, log, flushed, req, buf, pos, answer, history, ops, crashes>>

GetNext(t) ==
  LET first == First(mem)
      used == UsedCount(mem, req[t].n)
      last == first + (used - 1) * mem.inc
      rounds == IF mem.reserved THEN Rounds(mem.left - used) ELSE 0
      marked == [store EXCEPT !.called = @ \/ ~mem.called]
      new == IF mem.reserved THEN Ahead(marked, rounds)
             ELSE [marked EXCEPT !.value = last, !.called = TRUE, !.era = FirstEra(mem)]
  IN /\ pc[t] = "run" /\ req[t].op = "next"
     /\ ~mem.called \/ Fits(mem, mem.value, mem.inc) \/ mem.cycle
     /\ mem' = [mem EXCEPT !.value = last, !.called = TRUE, !.era = FirstEra(mem),
                           !.left = IF mem.reserved THEN @ - used + rounds * Reserve ELSE @]
     /\ answer' = [answer EXCEPT ![t] =
                     {<<FirstEra(mem), first + k * mem.inc>> : k \in 0..(used - 1)}]
     /\ IF ~mem.called \/ rounds > 0 \/ ~mem.reserved
          THEN Register(t, new, mem.linked)
          ELSE UNCHANGED <<store, buf>> /\ pc' = [pc EXCEPT ![t] = "insert"]
     /\ UNCHANGED <<log, flushed, req, pos, history, ops, crashes>>

\* Mutant: setval leaves the reservation as it was.
SetAheadForgotten(s, reserved) == s

\* The image after its value was set or restarted, if the sequence is reserved.
SetAhead(s, reserved) == IF reserved THEN ReservedAhead(s) ELSE s

(* GTM_SeqSetVal: the image's gs_called is left alone. *)
SetVal(t) ==
  LET v == req[t].value
      set == [store EXCEPT !.value = v, !.era = NewEra]
  IN /\ pc[t] = "run" /\ req[t].op = "set"
     /\ mem' = [mem EXCEPT !.value = v, !.called = req[t].called, !.era = NewEra,
                           !.left = IF mem.reserved THEN Reserve ELSE @]
     /\ Register(t, SetAhead(set, mem.reserved), mem.linked)
     /\ epochs' = epochs + 1
     /\ UNCHANGED <<log, flushed, req, pos, answer, given, twice, overlapped, ops, crashes>>

(* GTM_SeqAlter with GTM_StoreSeqAlter and GTM_JudgeReserve.  NOCACHE ORDER
   turns the reservation off in memory only.  RESTART goes back to the start value;
   for RESTART WITH another, setval stands in. *)
Alter(t) ==
  LET o == req[t].options
      restart == req[t].restart
      reserved == ~o.ordered /\ Wide(o)
      Restarted(s) ==
        IF restart THEN [s EXCEPT !.called = FALSE, !.value = Origin(o), !.era = NewEra]
        ELSE s
      m == Restarted(WithOptions(mem, o))
      altered == Restarted(WithOptions(store, o))
      judged == [altered EXCEPT !.reserved = IF ~o.ordered THEN reserved
                                             ELSE IF restart THEN FALSE ELSE @]
  IN /\ pc[t] = "run" /\ req[t].op = "alter"
     /\ mem' = [m EXCEPT !.reserved = reserved,
                         !.left = IF ~reserved THEN @ ELSE IF restart THEN Reserve ELSE 0]
     /\ Register(t, SetAhead(judged, restart /\ reserved), mem.linked)
     /\ epochs' = IF restart THEN epochs + 1 ELSE epochs
     /\ UNCHANGED <<log, flushed, req, pos, answer, given, twice, overlapped, ops, crashes>>

----------------------------------------------------------------------------
(* BeforeReplyToClientXLogTrigger: XLogInsert, unless nothing was registered *)
Insert(t) ==
  /\ pc[t] = "insert"
  /\ IF buf[t] = None
       THEN pc' = [pc EXCEPT ![t] = "reply"] /\ UNCHANGED <<log, pos>>
       ELSE /\ log' = Append(log, buf[t])
            /\ pos' = [pos EXCEPT ![t] = Len(log) + 1]
            /\ pc' = [pc EXCEPT ![t] = "flush"]
  /\ UNCHANGED <<mem, store, flushed, req, buf, answer, history, ops, crashes>>

\* Mutant: the reply does not wait for the flush.
FlushedUpToNone(t) == flushed

\* Mutant: the log is flushed beyond what was inserted.
FlushedUpToPast(t) == pos[t] + 1

FlushedUpTo(t) == IF flushed < pos[t] THEN pos[t] ELSE flushed

(* XLogFlush and WaitSyncComplete *)
Flush(t) ==
  /\ pc[t] = "flush"
  /\ flushed' = FlushedUpTo(t)
  /\ pc' = [pc EXCEPT ![t] = "reply"]
  /\ UNCHANGED <<mem, store, log, req, buf, pos, answer, history, ops, crashes>>

Reply(t) ==
  /\ pc[t] = "reply"
  /\ given' = given \cup answer[t]
  /\ twice' = (twice \/ given \cap answer[t] # {})
  /\ pc' = [pc EXCEPT ![t] = "idle"]
  /\ req' = [req EXCEPT ![t] = Idle]
  /\ buf' = [buf EXCEPT ![t] = None]
  /\ answer' = [answer EXCEPT ![t] = {}]
  /\ UNCHANGED <<mem, store, log, flushed, pos, epochs, overlapped, ops, crashes>>

(* The server crashes and recovers, or a synchronous standby takes over: the
   image is what the log has kept, which may be more than was flushed. *)
Crash(n) ==
  /\ crashes < MaxCrashes
  /\ Overlap \/ ~overlapped
  /\ crashes' = crashes + 1
  /\ mem' = None
  /\ store' = Durable(n)
  /\ log' = IF n = 0 THEN <<>> ELSE <<log[n]>>
  /\ flushed' = Len(log')
  /\ pc' = [t \in Thread |-> "idle"]
  /\ req' = [t \in Thread |-> Idle]
  /\ buf' = [t \in Thread |-> None]
  /\ pos' = [t \in Thread |-> 0]
  /\ answer' = [t \in Thread |-> {}]
  /\ UNCHANGED <<history, ops>>

----------------------------------------------------------------------------
\* What a client knows of the sequence.
Current == IF mem # None THEN mem ELSE store

(* The coordinator checks that setval stays within the bounds.  Bound: ALTER
   keeps the direction and does not narrow the bounds. *)
Settable(v) == store # None /\ v \in Current.min..Current.max
Alterable(o) ==
  /\ store # None
  /\ Ascending(o) <=> Ascending(Current)
  /\ o.min <= Current.min /\ Current.max <= o.max

Requests(t) ==
  \/ \E o \in Options : Request(t, [op |-> "open", options |-> o])
  \/ \E n \in Counts : Request(t, [op |-> "next", n |-> n])
  \/ \E v \in SetValues, c \in BOOLEAN :
       Settable(v) /\ Request(t, [op |-> "set", value |-> v, called |-> c])
  \/ \E o \in Options, r \in BOOLEAN :
       Alterable(o) /\ Request(t, [op |-> "alter", options |-> o, restart |-> r])

Next ==
  \/ \E t \in Thread :
       \/ Requests(t) \/ Find(t) \/ Form(t)
       \/ Open(t) \/ GetNext(t) \/ GetNextFails(t) \/ SetVal(t) \/ Alter(t)
       \/ Insert(t) \/ Flush(t) \/ Reply(t)
  \/ \E n \in flushed..Len(log) : Crash(n)

Spec == Init /\ [][Next]_vars

----------------------------------------------------------------------------
ImageType ==
  [inc : Int \ {0}, min : Int, max : Int, cycle : BOOLEAN, value : Int,
   called : BOOLEAN, reserved : BOOLEAN, era : [epoch : Nat, lap : Nat]]

MemoryType ==
  [inc : Int \ {0}, min : Int, max : Int, cycle : BOOLEAN, value : Int,
   called : BOOLEAN, reserved : BOOLEAN, era : [epoch : Nat, lap : Nat],
   left : Nat, linked : BOOLEAN]

\* The variables keep their types; what a thread does next fits its request.
TypeOK ==
  /\ store \in ImageType \cup {None}
  /\ log \in Seq(ImageType) /\ flushed \in 0..Len(log)
  /\ mem \in MemoryType \cup {None}
  /\ \A t \in Thread :
       /\ pc[t] \in {"idle", "find", "form", "run", "insert", "flush", "reply"}
       /\ buf[t] \in ImageType \cup {None}
       /\ pc[t] = "flush" => pos[t] \in 1..Len(log)
       /\ pc[t] \in {"form", "run"} => store # None \/ req[t].op = "open"

(* Two calls of nextval never get the same value, however they interleave and
   even when the GTM crashes between them, until the sequence is set, restarted
   or wraps around. *)
NoDuplicate == ~twice

(* The stored image is never behind the memory: all the values memory may still
   hand out without telling the log lie before the image's.  Requests may
   overlap, as long as none of them has to load the sequence. *)
StoreAhead ==
  (mem # None /\ mem.linked /\ mem.era = store.era /\ (overlapped => crashes = 0)) =>
    /\ (\E g \in given : g[1] = mem.era) => store.called
    /\ ~Before(mem, store.value, mem.value)
    /\ mem.reserved => \/ store.value = Limit(mem)
                       \/ ~Before(mem, store.value, mem.value + mem.left * mem.inc)

(* nextval answers values within the bounds the sequence has at that time. *)
InRange ==
  [][\A t \in Thread : GetNext(t) =>
       \A a \in answer'[t] : a[2] \in mem.min..mem.max]_vars

(* A nextval that begins after another was answered gets later values, also
   after a crash. *)
Ascends ==
  [][\A t \in Thread : GetNext(t) =>
       \A g \in given, a \in answer'[t] : g[1] = a[1] => Before(mem, g[2], a[2])]_vars
=============================================================================
