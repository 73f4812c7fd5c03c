------------------------- MODULE GtmSequenceProofs -------------------------
(***************************************************************************)
(* Proofs about GtmSequence, for every number of threads, set of options,  *)
(* size of a reservation and number of requests and crashes.               *)
(*                                                                         *)
(* The argument: nextval answers only values beyond the memory, so that no *)
(* value is answered twice as long as all that was answered lies behind    *)
(* the memory (AnswerInv).  A crash loses the memory and replaces it by an *)
(* image of the log, so every image that a crash may find must have passed *)
(* the answers too (LogInv).  Those images are copies of the store, and    *)
(* the store is ahead of the memory by the values the memory may hand out  *)
(* without writing to the log (AheadInv).  In a sequence that wraps around *)
(* "ahead" counts laps, which is sound only if a reservation passes at     *)
(* most once through the range (Gentle, PlacedInv).                        *)
(*                                                                         *)
(* What Ahead computes for any number of reservations is proved by         *)
(* induction over a set of numbers (Induction, AheadKeeps).                *)
(***************************************************************************)
EXTENDS GtmSequence, WellFoundedInduction, TLAPS

----------------------------------------------------------------------------
Era == [epoch : Nat, lap : Nat]
Label == {"idle", "find", "form", "run", "insert", "flush", "reply"}
AnyRequest ==
  [op : {"open"}, options : Options] \cup [op : {"next"}, n : Counts]
    \cup [op : {"set"}, value : SetValues, called : BOOLEAN]
    \cup [op : {"alter"}, options : Options, restart : BOOLEAN]

(* The types of all variables. *)
Types ==
  /\ mem \in MemoryType \cup {None} /\ store \in ImageType \cup {None}
  /\ log \in Seq(ImageType) /\ flushed \in 0..Len(log)
  /\ pc \in [Thread -> Label]
  /\ req \in [Thread -> AnyRequest \cup {Idle}]
  /\ buf \in [Thread -> ImageType \cup {None}]
  /\ pos \in [Thread -> Nat]
  /\ answer \in [Thread -> SUBSET (Era \X Int)]
  /\ given \subseteq Era \X Int
  /\ twice \in BOOLEAN /\ overlapped \in BOOLEAN
  /\ epochs \in Nat /\ ops \in Nat /\ crashes \in Nat

\* A thread that has not yet done its request.
Begun(t) == pc[t] \in {"find", "form", "run"}

\* What a thread may rely on at each of its steps.
FlowOf(t) ==
  /\ pc[t] # "idle" => req[t] # Idle
  /\ pc[t] = "run" /\ req[t].op = "open" => store = None
  /\ pc[t] = "run" /\ req[t].op # "open" => mem # None
  /\ pc[t] \in {"find", "form"} => req[t].op # "open" /\ store # None
  /\ pc[t] = "form" => mem # None /\ ~mem.linked
  /\ pc[t] = "flush" => pos[t] \in 1..Len(log)

\* How the requests of two threads exclude each other.
Apart(t, u) ==
  /\ pc[t] = "form" => pc[u] # "form"
  /\ pc[t] # "idle" /\ pc[u] # "idle" => {req[t].op, req[u].op} \subseteq {"next", "set"}
  /\ ~overlapped => pc[t] = "idle" \/ pc[u] = "idle"

(* The steps of the threads and the copies of the sequence fit each other. *)
FlowInv ==
  /\ mem # None => store # None
  /\ mem # None /\ ~mem.linked => \E t \in Thread : pc[t] = "form"
  /\ \A t \in Thread : FlowOf(t)
  /\ \A t, u \in Thread : t # u => Apart(t, u)

\* Two copies of a sequence have the same options.
SameOptions(m, s) == m.inc = s.inc /\ m.min = s.min /\ m.max = s.max /\ m.cycle = s.cycle

\* Do the options of an ALTER SEQUENCE keep the direction and not narrow the bounds?
Widens(o, s) == (Ascending(o) <=> Ascending(s)) /\ o.min <= s.min /\ s.max <= o.max

(* The memory and the image have the same options, and a request fits them. *)
OptionsInv ==
  /\ mem # None => SameOptions(mem, store)
  /\ \A t \in Thread : Begun(t) =>
       /\ req[t].op = "set" => req[t].value \in store.min..store.max
       /\ req[t].op = "alter" => Widens(req[t].options, store)

(* No increment of a sequence that wraps around takes a reservation further than
   once through its range.  GTM_StoreReserveSeqValue wraps once, so that otherwise
   the image may end up beyond the limit, and its era does not tell how often the
   memory may wrap around before the next reservation. *)
Gentle == \A o \in Options : o.cycle => -MinGap <= o.inc /\ o.inc <= MinGap

(* Where the value of a copy may be. *)
Placed(s) ==
  /\ s.min < s.max
  /\ s.reserved => Wide(s)
  /\ ~Before(s, s.value, Origin(s))
  /\ ~s.called => ~Before(s, Limit(s), s.value)
  /\ Gentle => ~Before(s, Limit(s), s.value) /\ (s.cycle => -MinGap <= s.inc /\ s.inc <= MinGap)

PlacedInv ==
  /\ mem # None => Placed(mem)
  /\ store # None => Placed(store)
  /\ \A n \in 1..Len(log) : Placed(log[n])
  /\ \A t \in Thread : buf[t] # None => Placed(buf[t])

(* No era is ahead of the number of epochs. *)
EpochInv ==
  /\ mem # None => mem.era.epoch <= epochs
  /\ store # None => store.era.epoch <= epochs
  /\ \A n \in 1..Len(log) : log[n].era.epoch <= epochs
  /\ \A t \in Thread : buf[t] # None => buf[t].era.epoch <= epochs
  /\ \A g \in given : g[1].epoch <= epochs
  /\ \A t \in Thread : \A a \in answer[t] : a[1].epoch <= epochs

\* From where the sequence starts over to its limit.
Span(s) == Limit(s) - Origin(s)

(* The image s is ahead of the memory m by all the values m has left; in a sequence
   that wraps around laps count. *)
AheadOf(s, m) ==
  /\ m.era.epoch = s.era.epoch /\ m.era.lap <= s.era.lap
  /\ m.era.lap = s.era.lap => ~Before(m, s.value, m.value)
  /\ m.reserved =>
       /\ m.left > 0 => s.called
       /\ m.cycle => ~Before(m, s.value + (s.era.lap - m.era.lap) * Span(m),
                                m.value + m.left * m.inc)
       /\ ~m.cycle /\ m.era.lap = s.era.lap =>
            s.value = Limit(m) \/ ~Before(m, s.value, m.value + m.left * m.inc)

\* Overlapping requests have not met a sequence that is being loaded.
Regular == overlapped => crashes = 0

(* So it is for memory and image unless the sequence is being loaded. *)
AheadInv ==
  Gentle /\ Regular =>
    /\ crashes = 0 => (mem = None => store = None) /\ \A t \in Thread : pc[t] # "form"
    /\ mem # None /\ ~mem.linked => mem = InMemory(store, 0, FALSE)
    /\ mem # None /\ mem.linked => AheadOf(store, mem)

\* The answer a lies behind a copy s of the sequence.
Behind(a, s) ==
  \/ a[1].epoch < s.era.epoch
  \/ a[1].epoch = s.era.epoch /\ a[1].lap < s.era.lap
  \/ a[1] = s.era /\ s.called /\ ~Before(s, s.value, a[2])

Covers(s, A) == \A a \in A : s # None /\ Behind(a, s)

\* No crash replaced the memory by an image that overlapping requests left behind.
Safe == Gentle /\ (Regular \/ ~Overlap)

(* All answers lie behind the memory, or the image if there is no memory; the ones
   that are under way are new. *)
AnswerInv ==
  Safe =>
    /\ Covers(Current, given) /\ \A t \in Thread : Covers(Current, answer[t])
    /\ \A t \in Thread : given \cap answer[t] = {}
    /\ \A t, u \in Thread : t # u => answer[t] \cap answer[u] = {}
    /\ \A t \in Thread : Begun(t) => answer[t] = {}
    /\ ~twice

(* The values answered in the current era are behind an image that was called. *)
CalledInv ==
  Gentle /\ Regular /\ mem # None /\ mem.linked /\ mem.era = store.era =>
    /\ \A g \in given : g[1] = mem.era => store.called
    /\ \A t \in Thread : \A a \in answer[t] : a[1] = mem.era => store.called

\* The sequence is at its end.
Stuck == mem # None /\ mem.called /\ ~Fits(mem, mem.value, mem.inc) /\ ~mem.cycle

\* What the log has of a thread's request.
LoggedOf(t) ==
  /\ pc[t] \in {"run", "insert"} /\ buf[t] # None => buf[t] = store
  /\ pc[t] \in {"find", "form"} => buf[t] = None
  /\ pc[t] = "insert" /\ buf[t] = None => store = Durable(Len(log))
  /\ pc[t] = "flush" => pos[t] = Len(log)
  /\ pc[t] # "idle" => Covers(store, answer[t])
  /\ pc[t] \in {"flush", "reply"} => Covers(Durable(Len(log)), answer[t])

(* As long as requests do not overlap, the log has all that was answered. *)
LogInv ==
  Gentle /\ ~overlapped =>
    /\ \A n \in flushed..Len(log) : Covers(Durable(n), given)
    /\ \/ store = Durable(Len(log)) \/ Stuck
       \/ \E t \in Thread : pc[t] \in {"run", "insert"} /\ buf[t] = store
    /\ (\A t \in Thread : pc[t] # "flush") => flushed = Len(log)
    /\ \A t \in Thread : LoggedOf(t)
----------------------------------------------------------------------------
(* None is no copy of a sequence. *)
LEMMA NoneElse == None \notin ImageType /\ None \notin MemoryType
BY DEF None, ImageType, MemoryType

(* Induction over the natural numbers, for sets of them. *)
LEMMA Induction ==
  ASSUME NEW S, S \subseteq Nat, 0 \in S, \A i \in S : i + 1 \in S
  PROVE  S = Nat
<1> DEFINE T == Nat \ S
<1> SUFFICES ASSUME T # {} PROVE FALSE
  OBVIOUS
<1>1. PICK x \in T : \A y \in T : ~ (<<y, x>> \in OpToRel(<, Nat))
  BY WFMin, NatLessThanWellFounded
<1>2. x # 0 /\ x - 1 \in Nat /\ x - 1 < x
  OBVIOUS
<1>3. <<x - 1, x>> \in OpToRel(<, Nat)
  BY <1>2 DEF OpToRel
<1>4. x - 1 \in S
  BY <1>1, <1>2, <1>3
<1> QED
  BY <1>4, <1>2

\* n reservations in a row, as a function of n.
IsRun(f, s, n) ==
  f = [i \in 0..n |-> IF i = 0 THEN s ELSE ReservedAhead(f[i - 1])]

(* There is such a function. *)
LEMMA RunExists ==
  ASSUME NEW s
  PROVE  \A n \in Nat : \E f : IsRun(f, s, n)
<1> DEFINE S == {n \in Nat : \E f : IsRun(f, s, n)}
<1>1. 0 \in S
  <2> DEFINE f == [i \in 0..0 |-> s]
  <2>1. IsRun(f, s, 0)
    BY DEF IsRun
  <2> QED
    BY <2>1
<1>2. ASSUME NEW n \in S PROVE n + 1 \in S
  <2>1. PICK f : IsRun(f, s, n)
    OBVIOUS
  <2> DEFINE g == [i \in 0..(n + 1) |-> IF i = n + 1 THEN ReservedAhead(f[n]) ELSE f[i]]
  <2>2. ASSUME NEW i \in 0..(n + 1)
        PROVE  g[i] = IF i = 0 THEN s ELSE ReservedAhead(g[i - 1])
    <3>1. CASE i = n + 1
      BY <3>1
    <3>2. CASE i \in 0..n
      <4>1. f[i] = IF i = 0 THEN s ELSE ReservedAhead(f[i - 1])
        BY <2>1, <3>2 DEF IsRun
      <4>2. g[i] = f[i] /\ (i # 0 => g[i - 1] = f[i - 1])
        BY <3>2
      <4> QED
        BY <4>1, <4>2
    <3> QED
      BY <3>1, <3>2
  <2>3. g = [i \in 0..(n + 1) |-> IF i = 0 THEN s ELSE ReservedAhead(g[i - 1])]
    BY <2>2
  <2>4. IsRun(g, s, n + 1)
    BY <2>3 DEF IsRun
  <2> QED
    BY <2>4
<1>3. S = Nat
  BY <1>1, <1>2, Induction
<1> QED
  BY <1>3

(* So the recursion of Ahead is what it looks like. *)
LEMMA AheadRun ==
  ASSUME NEW s, NEW n \in Nat
  PROVE  \E f : /\ Ahead(s, n) = f[n] /\ f[0] = s
                /\ \A i \in 1..n : f[i] = ReservedAhead(f[i - 1])
<1> DEFINE f == CHOOSE g : IsRun(g, s, n)
<1>1. IsRun(f, s, n)
  BY RunExists
<1>2. Ahead(s, n) = f[n]
  BY DEF Ahead, IsRun
<1> HIDE DEF f
<1>3. \A i \in 0..n : f[i] = IF i = 0 THEN s ELSE ReservedAhead(f[i - 1])
  BY <1>1 DEF IsRun
<1>4. f[0] = s /\ \A i \in 1..n : f[i] = ReservedAhead(f[i - 1])
  BY <1>3
<1> QED
  BY <1>2, <1>4

(* A property of the number of reservations that each of them keeps. *)
LEMMA AheadKeeps ==
  ASSUME NEW F, NEW s \in F[0], \A i \in Nat : \A x \in F[i] : ReservedAhead(x) \in F[i + 1],
         NEW n \in Nat
  PROVE  Ahead(s, n) \in F[n]
<1>1. PICK f : /\ Ahead(s, n) = f[n] /\ f[0] = s
               /\ \A i \in 1..n : f[i] = ReservedAhead(f[i - 1])
  BY AheadRun
<1> DEFINE T == {i \in Nat : i \in 0..n => f[i] \in F[i]}
<1>2. 0 \in T
  BY <1>1
<1>3. ASSUME NEW i \in T PROVE i + 1 \in T
  <2>1. CASE i + 1 \in 1..n
    <3>1. f[i] \in F[i] /\ f[i + 1] = ReservedAhead(f[i])
      BY <1>1, <2>1
    <3> QED
      BY <3>1
  <2>2. CASE i + 1 \notin 1..n
    BY <2>2
  <2> QED
    BY <2>1, <2>2
<1>4. T = Nat
  BY <1>2, <1>3, Induction
<1> QED
  BY <1>1, <1>4

----------------------------------------------------------------------------
\* What a reservation, or n of them, do to an image s.
Reserved(r, s, n) ==
  /\ r \in ImageType /\ SameOptions(r, s) /\ r.reserved = s.reserved
  /\ r.era.epoch = s.era.epoch /\ s.era.lap <= r.era.lap
  /\ n > 0 => r.called
  /\ n = 0 => r = s
  /\ ~s.cycle => /\ r.era.lap = s.era.lap
                 /\ r.value = s.value + n * (s.inc * Reserve) \/ r.value = Limit(s)
  /\ s.cycle => r.value + (r.era.lap - s.era.lap) * Span(s) = s.value + n * (s.inc * Reserve)

(* An image with another value is an image. *)
LEMMA ImageUpdate ==
  ASSUME NEW s \in ImageType, NEW v \in Int, NEW c \in BOOLEAN, NEW e \in Era
  PROVE  /\ [s EXCEPT !.value = v, !.called = c] \in ImageType
         /\ [s EXCEPT !.value = v, !.called = c, !.era = e] \in ImageType
BY DEF ImageType, Era

(* One reservation. *)
LEMMA ReserveOnce ==
  ASSUME NEW s \in ImageType
  PROVE  Reserved(ReservedAhead(s), s, 1)
<1> DEFINE d == s.inc * Reserve
           r == ReservedAhead(s)
<1>0. d \in Int
  BY SequenceAssumption DEF ImageType
<1>1. /\ s.inc \in Int /\ s.min \in Int /\ s.max \in Int /\ s.value \in Int
      /\ s.era \in [epoch : Nat, lap : Nat] /\ s.cycle \in BOOLEAN
  BY DEF ImageType
<1>2. Limit(s) \in Int /\ Origin(s) \in Int
  BY <1>1 DEF Limit, Origin
<1>6. s.value + d \in Int /\ Origin(s) + (d - (Limit(s) - s.value)) \in Int
  <2> HIDE DEF d
  <2> QED
    BY <1>0, <1>1, <1>2
<1>3. CASE Fits(s, s.value, d)
  <2>1. r = [s EXCEPT !.value = s.value + d, !.called = TRUE]
    BY <1>3 DEF ReservedAhead
  <2>2. r \in ImageType
    BY <1>6, <2>1, ImageUpdate, Zenon DEF ImageType, Era
  <2> QED
    BY <1>0, <1>1, <1>2, <2>1, <2>2 DEF Reserved, SameOptions, Span, ImageType
<1>4. CASE ~Fits(s, s.value, d) /\ s.cycle
  <2>1. r = [s EXCEPT !.value = Origin(s) + (d - (Limit(s) - s.value)), !.called = TRUE,
                      !.era = NextLap(s.era)]
    BY <1>4 DEF ReservedAhead
  <2>2. NextLap(s.era) \in Era
    BY <1>1 DEF NextLap, Era
  <2>3. r \in ImageType
    <3>1. \A v \in Int, e \in Era :
            [s EXCEPT !.value = v, !.called = TRUE, !.era = e] \in ImageType
      BY ImageUpdate
    <3> HIDE DEF d, r
    <3> QED
      BY <1>6, <2>1, <2>2, <3>1, Zenon
  <2>4. /\ r.value = Origin(s) + (d - (Limit(s) - s.value)) /\ r.era = NextLap(s.era)
        /\ r.called /\ SameOptions(r, s) /\ r.reserved = s.reserved
    BY <2>1 DEF SameOptions, ImageType
  <2>5. r.era.lap = s.era.lap + 1 /\ r.era.epoch = s.era.epoch
    BY <2>4, <1>1 DEF NextLap
  <2> QED
    BY <1>0, <1>1, <1>2, <1>4, <2>3, <2>4, <2>5 DEF Reserved, Span
<1>5. CASE ~Fits(s, s.value, d) /\ ~s.cycle
  <2>1. r = [s EXCEPT !.value = Limit(s), !.called = TRUE]
    BY <1>5 DEF ReservedAhead
  <2>2. r \in ImageType
    BY <1>1, <1>2, <2>1 DEF ImageType
  <2> QED
    BY <1>1, <1>2, <1>5, <2>1, <2>2 DEF Reserved, SameOptions, ImageType
<1> QED
  BY <1>3, <1>4, <1>5

(* n reservations. *)
LEMMA ReserveTimes ==
  ASSUME NEW s \in ImageType, NEW n \in Nat
  PROVE  Reserved(Ahead(s, n), s, n)
<1> DEFINE F == [i \in Nat |-> {x \in ImageType : Reserved(x, s, i)}]
           d == s.inc * Reserve
<1>0. /\ s.inc \in Int \ {0} /\ s.min \in Int /\ s.max \in Int /\ s.value \in Int
      /\ s.era.lap \in Nat /\ s.cycle \in BOOLEAN
  BY DEF ImageType
<1>1. s \in F[0]
  BY <1>0, SequenceAssumption DEF Reserved, SameOptions, Span, Limit, Origin
<1>2. ASSUME NEW i \in Nat, NEW x \in F[i] PROVE ReservedAhead(x) \in F[i + 1]
  <2> DEFINE r == ReservedAhead(x)
  <2> SUFFICES Reserved(r, s, i + 1)
    BY DEF Reserved
  <2>1. x \in ImageType /\ Reserved(x, s, i)
    OBVIOUS
  <2>2. Reserved(r, x, 1)
    BY <2>1, ReserveOnce
  <2> HIDE DEF r
  <2>3. /\ SameOptions(r, s) /\ r.reserved = s.reserved /\ r.called /\ r \in ImageType
        /\ r.era.epoch = s.era.epoch /\ s.era.lap <= r.era.lap
    BY <2>1, <2>2 DEF Reserved, SameOptions, ImageType
  <2>4. Limit(x) = Limit(s) /\ Span(x) = Span(s) /\ x.inc = s.inc /\ x.cycle = s.cycle
    BY <2>1 DEF Reserved, SameOptions, Span, Limit, Origin, Ascending
  <2>5. d \in Int /\ Span(s) \in Int /\ x.value \in Int /\ r.value \in Int
        /\ x.era.lap \in Nat /\ r.era.lap \in Nat /\ Limit(s) \in Int
    BY <1>0, <2>1, <2>3, SequenceAssumption DEF ImageType, Span, Limit, Origin
  <2>6. CASE s.cycle
    <3>1. /\ x.value + (x.era.lap - s.era.lap) * Span(s) = s.value + i * d
          /\ r.value + (r.era.lap - x.era.lap) * Span(s) = x.value + 1 * d
      BY <2>1, <2>2, <2>4, <2>6 DEF Reserved
    <3>2. r.value + (r.era.lap - s.era.lap) * Span(s) = s.value + (i + 1) * d
      <4> HIDE DEF d
      <4> QED
        BY <1>0, <2>5, <3>1
    <3> QED
      BY <2>3, <2>6, <3>2 DEF Reserved
  <2>7. CASE ~s.cycle
    <3>1. /\ r.era.lap = s.era.lap
          /\ x.value = s.value + i * d \/ x.value = Limit(s)
          /\ r.value = x.value + 1 * d \/ r.value = Limit(s)
      BY <2>1, <2>2, <2>4, <2>7 DEF Reserved
    <3>2. x.value = Limit(s) => r.value = Limit(s)
      <4>1. Ascending(s) => d > 0
        BY <1>0, SequenceAssumption DEF Ascending
      <4>2. ~Ascending(s) => d < 0
        BY <1>0, SequenceAssumption DEF Ascending
      <4>3. Ascending(x) <=> Ascending(s)
        BY <2>4 DEF Ascending
      <4>4. x.inc * Reserve = d
        BY <2>4
      <4> HIDE DEF d
      <4>5. x.value = Limit(s) => ~Fits(x, x.value, d)
        BY <2>4, <2>5, <4>1, <4>2, <4>3 DEF Fits, Before
      <4>6. x.value = Limit(s) => r = [x EXCEPT !.value = Limit(x), !.called = TRUE]
        BY <2>4, <2>7, <4>4, <4>5 DEF r, ReservedAhead
      <4> QED
        BY <2>1, <2>4, <4>6 DEF ImageType
    <3>3. r.value = s.value + (i + 1) * d \/ r.value = Limit(s)
      <4> HIDE DEF d
      <4> QED
        BY <1>0, <2>5, <3>1, <3>2
    <3> QED
      BY <2>3, <2>7, <3>1, <3>3 DEF Reserved
  <2> QED
    BY <2>6, <2>7
<1>3. Ahead(s, n) \in F[n]
  BY <1>1, <1>2, AheadKeeps
<1> QED
  BY <1>3

----------------------------------------------------------------------------
(* A product grows with its factors. *)
LEMMA Products ==
  ASSUME NEW a \in Int, NEW b \in Int, NEW c \in Int, a <= b
  PROVE  /\ a * c \in Int /\ b * c \in Int
         /\ c >= 0 => a * c <= b * c
         /\ c <= 0 => b * c <= a * c
<1>1. (b - a) * c = b * c - a * c
  OBVIOUS
<1>2. c >= 0 => (b - a) * c >= 0
  OBVIOUS
<1>3. c <= 0 => (b - a) * c <= 0
  OBVIOUS
<1> QED
  BY <1>1, <1>2, <1>3

(* get_rangemax finds how many values fit. *)
LEMMA UsedFits ==
  ASSUME NEW m, NEW n \in Nat \ {0}
  PROVE  LET k == UsedCount(m, n) IN
         /\ k \in 1..n
         /\ k = 1 \/ Fits(m, First(m), (k - 1) * m.inc)
         /\ k = n \/ ~Fits(m, First(m), k * m.inc)
<1> DEFINE P(k) == k = 1 \/ Fits(m, First(m), (k - 1) * m.inc)
           Q(k) == k = n \/ ~Fits(m, First(m), k * m.inc)
<1>1. \E k \in 1..n : P(k) /\ Q(k)
  <2> SUFFICES ASSUME \A k \in 1..n : P(k) => ~Q(k)
               PROVE  FALSE
    OBVIOUS
  <2> DEFINE S == {i \in Nat : i + 1 \in 1..n /\ P(i + 1)}
  <2>1. 0 \in S
    OBVIOUS
  <2>2. ASSUME NEW i \in S PROVE i + 1 \in S
    <3>1. i + 1 \in 1..n /\ ~Q(i + 1)
      OBVIOUS
    <3>2. i + 1 # n /\ Fits(m, First(m), (i + 1) * m.inc)
      BY <3>1
    <3>3. (i + 1) + 1 \in 1..n /\ ((i + 1) + 1) - 1 = i + 1
      BY <3>1, <3>2
    <3> QED
      BY <3>2, <3>3
  <2>3. S = Nat
    <3> HIDE DEF S
    <3>1. S \subseteq Nat
      BY DEF S
    <3> QED
      BY <2>1, <2>2, <3>1, Induction
  <2>4. n \in S
    BY <2>3
  <2> QED
    BY <2>4
<1>2. UsedCount(m, n) = CHOOSE k \in 1..n : P(k) /\ Q(k)
  BY DEF UsedCount
<1> HIDE DEF P, Q
<1>3. UsedCount(m, n) \in 1..n /\ P(UsedCount(m, n)) /\ Q(UsedCount(m, n))
  BY <1>1, <1>2
<1> QED
  BY <1>3 DEF P, Q

\* What nextval does to the memory m: the first and the last of its values.
Last(m, n) == First(m) + (UsedCount(m, n) - 1) * m.inc

(* The first value of a nextval. *)
LEMMA FirstValue ==
  ASSUME NEW m \in MemoryType, Placed(m), ~m.called \/ Fits(m, m.value, m.inc) \/ m.cycle
  PROVE  /\ First(m) \in m.min..m.max /\ FirstEra(m) \in Era
         /\ FirstEra(m).epoch = m.era.epoch
         /\ m.called /\ FirstEra(m) = m.era => Before(m, m.value, First(m))
         /\ FirstEra(m) = m.era \/ FirstEra(m).lap = m.era.lap + 1
<1>1. /\ m.inc \in Int \ {0} /\ m.min \in Int /\ m.max \in Int /\ m.value \in Int
      /\ m.era \in Era /\ m.called \in BOOLEAN /\ m.min < m.max
  BY DEF MemoryType, Placed, Era
<1>2. NextLap(m.era) \in Era /\ NextLap(m.era).epoch = m.era.epoch
      /\ NextLap(m.era).lap = m.era.lap + 1
  BY <1>1 DEF NextLap, Era
<1>3. NextLap(m.era) # m.era
  BY <1>1, <1>2 DEF Era
<1>4. CASE ~m.called
  BY <1>1, <1>4 DEF First, FirstEra, Placed, Before, Limit, Origin, Ascending
<1>5. CASE m.called /\ Fits(m, m.value, m.inc)
  BY <1>1, <1>5 DEF First, FirstEra, Placed, Fits, Before, Limit, Origin, Ascending
<1>6. CASE m.called /\ ~Fits(m, m.value, m.inc)
  BY <1>1, <1>2, <1>3, <1>6 DEF First, FirstEra, Origin
<1> QED
  BY <1>4, <1>5, <1>6

(* The other values of a nextval. *)
LEMMA NextValues ==
  ASSUME NEW m \in MemoryType, Placed(m), NEW n \in Nat \ {0},
         ~m.called \/ Fits(m, m.value, m.inc) \/ m.cycle
  PROVE  /\ UsedCount(m, n) \in 1..n
         /\ Last(m, n) \in m.min..m.max
         /\ \A k \in 0..(UsedCount(m, n) - 1) :
              /\ First(m) + k * m.inc \in m.min..m.max
              /\ ~Before(m, First(m) + k * m.inc, First(m))
              /\ ~Before(m, Last(m, n), First(m) + k * m.inc)
<1> DEFINE used == UsedCount(m, n)
           first == First(m)
<1>1. /\ m.inc \in Int \ {0} /\ m.min \in Int /\ m.max \in Int /\ m.min < m.max
      /\ first \in m.min..m.max
  BY FirstValue DEF MemoryType, Placed
<1>2. used \in 1..n /\ (used = 1 \/ Fits(m, first, (used - 1) * m.inc))
  BY UsedFits
<1> HIDE DEF used, first
<1>3. ASSUME NEW k \in 0..(used - 1)
      PROVE  /\ first + k * m.inc \in m.min..m.max
             /\ ~Before(m, first + k * m.inc, first)
             /\ ~Before(m, first + (used - 1) * m.inc, first + k * m.inc)
  <2>1. /\ k * m.inc \in Int /\ (used - 1) * m.inc \in Int
        /\ m.inc >= 0 => 0 <= k * m.inc /\ k * m.inc <= (used - 1) * m.inc
        /\ m.inc <= 0 => 0 >= k * m.inc /\ k * m.inc >= (used - 1) * m.inc
    BY <1>1, <1>2, Products
  <2> DEFINE x == k * m.inc
             y == (used - 1) * m.inc
  <2>2. used = 1 => y = 0
    BY <1>1
  <2>3. x \in Int /\ y \in Int /\ (m.inc >= 0 => 0 <= x /\ x <= y)
        /\ (m.inc <= 0 => 0 >= x /\ x >= y) /\ (y = 0 \/ Fits(m, first, y))
    BY <1>2, <2>1, <2>2
  <2> HIDE DEF x, y
  <2>4. /\ first + x \in m.min..m.max /\ ~Before(m, first + x, first)
        /\ ~Before(m, first + y, first + x)
    BY <1>1, <2>3 DEF Fits, Before, Limit, Ascending
  <2> QED
    BY <2>4 DEF x, y
<1>4. used - 1 \in 0..(used - 1)
  BY <1>2
<1> QED
  BY <1>2, <1>3, <1>4 DEF Last, used, first

(* A reservation keeps an image in its place. *)
LEMMA ReservePlaced ==
  ASSUME NEW s \in ImageType, Placed(s), Wide(s)
  PROVE  Placed(ReservedAhead(s))
<1> DEFINE d == s.inc * Reserve
           r == ReservedAhead(s)
<1>1. /\ s.inc \in Int \ {0} /\ s.min \in Int /\ s.max \in Int /\ s.value \in Int
      /\ s.min < s.max
  BY DEF ImageType, Placed
<1>2. r \in ImageType /\ SameOptions(r, s) /\ r.reserved = s.reserved /\ r.called
  BY ReserveOnce DEF Reserved
<1>3. d \in Int /\ (Ascending(s) => d > 0) /\ (~Ascending(s) => d < 0)
  BY <1>1, SequenceAssumption DEF Ascending
<1>4. /\ Limit(r) = Limit(s) /\ Origin(r) = Origin(s)
      /\ Limit(s) \in Int /\ Origin(s) \in Int
      /\ Ascending(r) <=> Ascending(s)
  BY <1>1, <1>2 DEF SameOptions, Limit, Origin, Ascending
<1>5. \/ Fits(s, s.value, d) /\ r.value = s.value + d
      \/ ~Fits(s, s.value, d) /\ s.cycle /\ r.value = Origin(s) + (d - (Limit(s) - s.value))
      \/ r.value = Limit(s)
  BY DEF ReservedAhead, ImageType
<1>6. Gentle /\ s.cycle =>
        (Ascending(s) => d <= s.max - s.min) /\ (~Ascending(s) => -d <= s.max - s.min)
  <2> SUFFICES ASSUME Gentle, s.cycle
               PROVE  (Ascending(s) => d <= s.max - s.min)
                        /\ (~Ascending(s) => -d <= s.max - s.min)
    OBVIOUS
  <2>1. -MinGap <= s.inc /\ s.inc <= MinGap /\ Reserve \in Nat /\ MinGap \in Nat
    BY SequenceAssumption DEF Placed
  <2>2. s.inc * Reserve <= MinGap * Reserve /\ (-MinGap) * Reserve <= s.inc * Reserve
    BY <1>1, <2>1, Products
  <2>3. Reserve * MinGap = MinGap * Reserve /\ (-MinGap) * Reserve = -(MinGap * Reserve)
        /\ MinGap * Reserve \in Int
    BY <2>1
  <2>4. s.max - s.min >= Reserve * MinGap
    BY DEF Wide
  <2> QED
    BY <1>1, <1>3, <2>2, <2>3, <2>4
<1>7. Wide(r)
  BY <1>2 DEF Wide, SameOptions
<1> HIDE DEF d, r
<1>8. ~Before(r, r.value, Origin(r))
  BY <1>1, <1>3, <1>4, <1>5 DEF Placed, Fits, Before, Limit, Origin
<1>9. Gentle => ~Before(r, Limit(r), r.value)
  BY <1>1, <1>3, <1>4, <1>5, <1>6 DEF Placed, Fits, Before, Limit, Origin
<1>10. Gentle => (r.cycle => -MinGap <= r.inc /\ r.inc <= MinGap)
  BY <1>2 DEF Placed, SameOptions
<1>11. r.min < r.max
  BY <1>1, <1>2 DEF SameOptions
<1>12. Placed(r)
  BY <1>2, <1>7, <1>8, <1>9, <1>10, <1>11 DEF Placed
<1> QED
  BY <1>12 DEF r

(* And so do n of them. *)
LEMMA AheadPlaced ==
  ASSUME NEW s \in ImageType, Placed(s), Wide(s), NEW n \in Nat
  PROVE  Placed(Ahead(s, n))
<1> DEFINE F == [i \in Nat |-> {x \in ImageType : Placed(x) /\ Wide(x)}]
<1>1. s \in F[0]
  OBVIOUS
<1>2. ASSUME NEW i \in Nat, NEW x \in F[i] PROVE ReservedAhead(x) \in F[i + 1]
  <2>1. x \in ImageType /\ Placed(x) /\ Wide(x)
    OBVIOUS
  <2>2. ReservedAhead(x) \in ImageType /\ SameOptions(ReservedAhead(x), x)
    BY <2>1, ReserveOnce DEF Reserved
  <2>3. Placed(ReservedAhead(x)) /\ Wide(ReservedAhead(x))
    BY <2>1, <2>2, ReservePlaced DEF Wide, SameOptions
  <2> QED
    BY <2>2, <2>3
<1>3. Ahead(s, n) \in F[n]
  BY <1>1, <1>2, AheadKeeps
<1> QED
  BY <1>3

(* The loop of GTM_SeqGetNext ends with values left. *)
LEMMA RoundsEnough ==
  ASSUME NEW left \in Int
  PROVE  Rounds(left) \in Nat /\ left + Rounds(left) * Reserve > 0
<1>1. Reserve \in Nat \ {0}
  BY SequenceAssumption
<1>2. CASE left > 0
  BY <1>1, <1>2 DEF Rounds
<1>3. CASE left <= 0
  <2> DEFINE q == (-left) \div Reserve
  <2>1. q \in Nat /\ -left < (q + 1) * Reserve
    BY <1>1, <1>3
  <2>2. Rounds(left) = q + 1
    BY <1>3 DEF Rounds
  <2> HIDE DEF q
  <2> QED
    BY <1>1, <2>1, <2>2
<1> QED
  BY <1>2, <1>3

----------------------------------------------------------------------------
(* A sequence in memory has the fields of an image, and some of its own. *)
LEMMA MemoryFields ==
  ASSUME NEW s \in ImageType, NEW left \in Nat, NEW linked \in BOOLEAN
  PROVE  LET m == InMemory(s, left, linked) IN
         /\ m \in MemoryType /\ SameOptions(m, s) /\ m.value = s.value /\ m.called = s.called
         /\ m.era = s.era /\ m.reserved = s.reserved /\ m.left = left /\ m.linked = linked
BY DEF ImageType, MemoryType, InMemory, SameOptions

(* Which copies of the sequence exist for a thread at work. *)
LEMMA Exists ==
  ASSUME Types, FlowInv, NEW t \in Thread
  PROVE  /\ mem # None => mem \in MemoryType /\ store \in ImageType
         /\ store # None => store \in ImageType
         /\ pc[t] = "form" => mem # None /\ store # None
         /\ pc[t] = "find" => store # None
         /\ pc[t] = "run" /\ req[t].op # "open" => mem # None /\ store # None
         /\ pc[t] = "run" /\ req[t].op = "open" => mem = None /\ store = None
         /\ pc[t] # "idle" => req[t] \in AnyRequest
BY DEF Types, FlowInv, FlowOf

(* GTM_FormSeqOfStore *)
LEMMA FormEffect ==
  ASSUME Types, FlowInv, NEW t \in Thread, Form(t)
  PROVE  /\ mem \in MemoryType /\ store \in ImageType
         /\ mem' \in MemoryType /\ SameOptions(mem', mem) /\ mem'.value = mem.value
         /\ mem'.called = mem.called /\ mem'.era = mem.era /\ mem'.reserved = mem.reserved
         /\ mem'.linked /\ mem'.left = IF mem.reserved THEN Reserve ELSE mem.left
         /\ mem.reserved => store' = ReservedAhead(store) /\ buf' = [buf EXCEPT ![t] = store']
         /\ ~mem.reserved => UNCHANGED <<store, buf>>
<1>1. mem \in MemoryType /\ store \in ImageType
  BY Exists DEF Form
<1>2. CASE mem.reserved
  <2>1. mem' = [mem EXCEPT !.linked = TRUE, !.left = Reserve]
    BY <1>2 DEF Form
  <2> QED
    BY <1>1, <1>2, <2>1, SequenceAssumption DEF Form, MemoryType, SameOptions
<1>3. CASE ~mem.reserved
  <2>1. mem' = [mem EXCEPT !.linked = TRUE]
    BY <1>3 DEF Form
  <2> QED
    BY <1>1, <1>3, <2>1 DEF Form, MemoryType, SameOptions
<1> QED
  BY <1>2, <1>3

\* The image of a new sequence.
Fresh(o) ==
  [inc |-> o.inc, min |-> o.min, max |-> o.max, cycle |-> o.cycle, value |-> Origin(o),
   called |-> FALSE, reserved |-> ~o.ordered /\ Wide(o), era |-> NewEra]

(* GTM_SeqOpen *)
LEMMA OpenEffect ==
  ASSUME Types, FlowInv, NEW t \in Thread, Open(t)
  PROVE  LET o == req[t].options IN
         /\ o \in Options /\ mem = None /\ store = None
         /\ Fresh(o) \in ImageType
         /\ mem' = InMemory(Fresh(o), IF Fresh(o).reserved THEN Reserve ELSE 0, TRUE)
         /\ mem' \in MemoryType
         /\ store' = IF Fresh(o).reserved THEN ReservedAhead(Fresh(o)) ELSE Fresh(o)
         /\ store' \in ImageType
         /\ buf' = [buf EXCEPT ![t] = store']
<1> DEFINE o == req[t].options
<1>1. o \in Options /\ mem = None /\ store = None
  BY Exists DEF Open, AnyRequest
<1>2. /\ o.inc \in Int \ {0} /\ o.min \in Int /\ o.max \in Int /\ o.cycle \in BOOLEAN
      /\ o.ordered \in BOOLEAN
  BY <1>1, SequenceAssumption
<1>3. Origin(o) \in Int /\ (~o.ordered /\ Wide(o)) \in BOOLEAN /\ NewEra \in [epoch : Nat, lap : Nat]
  BY <1>2 DEF Types, Origin, NewEra
<1>4. Fresh(o) \in ImageType /\ Fresh(o).reserved = (~o.ordered /\ Wide(o))
  BY <1>2, <1>3 DEF Fresh, ImageType
<1>5. /\ mem' = InMemory(Fresh(o), IF Fresh(o).reserved THEN Reserve ELSE 0, TRUE)
      /\ store' = IF Fresh(o).reserved THEN ReservedAhead(Fresh(o)) ELSE Fresh(o)
      /\ buf' = [buf EXCEPT ![t] = store']
  BY <1>4 DEF Open, Register, Fresh
<1>6. (IF Fresh(o).reserved THEN Reserve ELSE 0) \in Nat
  BY SequenceAssumption
<1>7. mem' \in MemoryType
  BY <1>4, <1>5, <1>6, MemoryFields
<1>8. store' \in ImageType
  BY <1>4, <1>5, ReserveOnce DEF Reserved
<1> QED
  BY <1>1, <1>4, <1>5, <1>7, <1>8

\* What is left after n values were taken, and how often the loop reserved.
Taken(m, n) == m.left - UsedCount(m, n)
Times(m, n) == IF m.reserved THEN Rounds(Taken(m, n)) ELSE 0

Marked(m, s) == [s EXCEPT !.called = @ \/ ~m.called]

(* GTM_SeqGetNext; if the handle is set the new image can be written down without
   asking whether it was registered. *)
LEMMA GetNextEffect ==
  ASSUME Types, FlowInv, mem # None => Placed(mem), NEW t \in Thread, GetNext(t)
  PROVE  LET n == req[t].n IN
         /\ n \in Nat \ {0} /\ mem \in MemoryType /\ Placed(mem) /\ store \in ImageType
         /\ UsedCount(mem, n) \in 1..n /\ Times(mem, n) \in Nat
         /\ ~mem.called \/ Fits(mem, mem.value, mem.inc) \/ mem.cycle
         /\ mem' \in MemoryType /\ SameOptions(mem', mem) /\ mem'.value = Last(mem, n)
         /\ mem'.called /\ mem'.era = FirstEra(mem) /\ mem'.reserved = mem.reserved
         /\ mem'.linked = mem.linked
         /\ mem'.left = IF mem.reserved THEN Taken(mem, n) + Times(mem, n) * Reserve ELSE mem.left
         /\ answer' = [answer EXCEPT ![t] =
              {<<FirstEra(mem), First(mem) + k * mem.inc>> : k \in 0..(UsedCount(mem, n) - 1)}]
         /\ Marked(mem, store) \in ImageType
         /\ mem.linked =>
              store' = IF mem.reserved THEN Ahead(Marked(mem, store), Times(mem, n))
                       ELSE [Marked(mem, store) EXCEPT !.value = Last(mem, n), !.called = TRUE,
                                                       !.era = FirstEra(mem)]
         /\ ~mem.linked => store' = store
         /\ store' \in ImageType
         /\ (buf' = buf /\ store' = store) \/ buf' = [buf EXCEPT ![t] = store']
<1> DEFINE n == req[t].n
           used == UsedCount(mem, n)
           new == IF mem.reserved THEN Ahead(Marked(mem, store), Times(mem, n))
                  ELSE [Marked(mem, store) EXCEPT !.value = Last(mem, n), !.called = TRUE,
                                                  !.era = FirstEra(mem)]
<1>1. n \in Nat \ {0} /\ mem \in MemoryType /\ store \in ImageType /\ Placed(mem)
  BY Exists, SequenceAssumption DEF GetNext, AnyRequest
<1>2. ~mem.called \/ Fits(mem, mem.value, mem.inc) \/ mem.cycle
  BY DEF GetNext
<1>3. /\ used \in Nat /\ Last(mem, n) \in Int /\ FirstEra(mem) \in Era /\ mem.left \in Nat
  BY <1>1, <1>2, NextValues, FirstValue DEF MemoryType
<1>4. Times(mem, n) \in Nat /\ (mem.reserved => Taken(mem, n) + Times(mem, n) * Reserve \in Nat)
  <2>1. Taken(mem, n) \in Int
    BY <1>3 DEF Taken
  <2>2. Rounds(Taken(mem, n)) \in Nat /\ Taken(mem, n) + Rounds(Taken(mem, n)) * Reserve > 0
    BY <2>1, RoundsEnough
  <2>3. \A k \in Nat : k * Reserve \in Int
    BY SequenceAssumption
  <2> QED
    BY <2>1, <2>2, <2>3 DEF Times
<1>5. mem' = [mem EXCEPT !.value = Last(mem, n), !.called = TRUE, !.era = FirstEra(mem),
                         !.left = IF mem.reserved THEN Taken(mem, n) + Times(mem, n) * Reserve
                                  ELSE mem.left]
  BY DEF GetNext, Last, Taken, Times
<1>6. /\ mem' \in MemoryType /\ SameOptions(mem', mem) /\ mem'.value = Last(mem, n)
      /\ mem'.called /\ mem'.era = FirstEra(mem) /\ mem'.reserved = mem.reserved
      /\ mem'.linked = mem.linked
      /\ mem'.left = IF mem.reserved THEN Taken(mem, n) + Times(mem, n) * Reserve ELSE mem.left
  <2> DEFINE l == IF mem.reserved THEN Taken(mem, n) + Times(mem, n) * Reserve ELSE mem.left
  <2>1. l \in Nat
    BY <1>3, <1>4
  <2> HIDE DEF l, n
  <2> QED
    BY <1>1, <1>3, <1>5, <2>1 DEF MemoryType, SameOptions, Era, l
<1>7. Marked(mem, store) \in ImageType
  BY <1>1 DEF Marked, ImageType, MemoryType
<1>8. new \in ImageType
  <2>1. CASE mem.reserved
    BY <1>4, <1>7, <2>1, ReserveTimes DEF Reserved
  <2>2. CASE ~mem.reserved
    <3>1. \A v \in Int, e \in Era :
            [Marked(mem, store) EXCEPT !.value = v, !.called = TRUE, !.era = e] \in ImageType
      BY <1>7, ImageUpdate
    <3> QED
      BY <1>3, <2>2, <3>1
  <2> QED
    BY <2>1, <2>2
<1>9. /\ ~mem.called \/ Times(mem, n) > 0 \/ ~mem.reserved => Register(t, new, mem.linked)
      /\ mem.called /\ ~(Times(mem, n) > 0) /\ mem.reserved => UNCHANGED <<store, buf>>
  BY DEF GetNext, Marked, Last, Taken, Times
<1>10. mem.called /\ ~(Times(mem, n) > 0) /\ mem.reserved => new = store
  <2> SUFFICES ASSUME mem.called, ~(Times(mem, n) > 0), mem.reserved PROVE new = store
    OBVIOUS
  <2>1. Times(mem, n) = 0
    BY <1>4
  <2>2. Ahead(Marked(mem, store), 0) = Marked(mem, store)
    BY <1>7, ReserveTimes DEF Reserved
  <2>3. Marked(mem, store) = store
    BY <1>1 DEF Marked, ImageType
  <2> QED
    BY <2>1, <2>2, <2>3
<1> HIDE DEF new
<1>11. /\ mem.linked => store' = new
       /\ ~mem.linked => store' = store
       /\ (buf' = buf /\ store' = store) \/ buf' = [buf EXCEPT ![t] = store']
  BY <1>9, <1>10 DEF Register
<1>12. store' \in ImageType
  BY <1>1, <1>8, <1>11
<1>13. answer' = [answer EXCEPT ![t] =
         {<<FirstEra(mem), First(mem) + k * mem.inc>> : k \in 0..(UsedCount(mem, n) - 1)}]
  BY DEF GetNext
<1>14. UsedCount(mem, n) \in 1..n
  BY <1>1, <1>2, NextValues
<1> QED
  BY <1>1, <1>2, <1>4, <1>6, <1>7, <1>11, <1>12, <1>13, <1>14 DEF new

\* The image with its value set.
SetTo(s, v) == [s EXCEPT !.value = v, !.era = NewEra]

(* GTM_SeqSetVal *)
LEMMA SetValEffect ==
  ASSUME Types, FlowInv, NEW t \in Thread, SetVal(t)
  PROVE  LET v == req[t].value IN
         /\ v \in Int /\ req[t].called \in BOOLEAN
         /\ mem \in MemoryType /\ store \in ImageType
         /\ mem' \in MemoryType /\ SameOptions(mem', mem) /\ mem'.value = v
         /\ mem'.called = req[t].called /\ mem'.era = NewEra /\ mem'.reserved = mem.reserved
         /\ mem'.linked = mem.linked
         /\ mem'.left = IF mem.reserved THEN Reserve ELSE mem.left
         /\ SetTo(store, v) \in ImageType
         /\ mem.linked => /\ store' = SetAhead(SetTo(store, v), mem.reserved)
                          /\ buf' = [buf EXCEPT ![t] = store']
         /\ ~mem.linked => store' = store
         /\ store' \in ImageType
         /\ (buf' = buf /\ store' = store) \/ buf' = [buf EXCEPT ![t] = store']
<1> DEFINE v == req[t].value
<1>1. mem \in MemoryType /\ store \in ImageType /\ req[t] \in AnyRequest /\ req[t].op = "set"
  BY Exists DEF SetVal
<1>2. v \in Int /\ req[t].called \in BOOLEAN
  BY <1>1, SequenceAssumption DEF AnyRequest
<1>3. NewEra \in [epoch : Nat, lap : Nat]
  BY DEF Types, NewEra
<1>4. mem' = [mem EXCEPT !.value = v, !.called = req[t].called, !.era = NewEra,
                         !.left = IF mem.reserved THEN Reserve ELSE mem.left]
  BY DEF SetVal
<1>5. /\ mem' \in MemoryType /\ SameOptions(mem', mem) /\ mem'.value = v
      /\ mem'.called = req[t].called /\ mem'.era = NewEra /\ mem'.reserved = mem.reserved
      /\ mem'.linked = mem.linked /\ mem'.left = IF mem.reserved THEN Reserve ELSE mem.left
  BY <1>1, <1>2, <1>3, <1>4, SequenceAssumption DEF MemoryType, SameOptions
<1>6. SetTo(store, v) \in ImageType
  BY <1>1, <1>2, <1>3 DEF SetTo, ImageType
<1>7. SetAhead(SetTo(store, v), mem.reserved) \in ImageType
  BY <1>6, ReserveOnce DEF SetAhead, Reserved
<1>8. Register(t, SetAhead(SetTo(store, v), mem.reserved), mem.linked)
  BY DEF SetVal, SetTo
<1> QED
  BY <1>1, <1>2, <1>5, <1>6, <1>7, <1>8 DEF Register

\* The image altered and judged.
Restarted(s, o, r) ==
  IF r THEN [s EXCEPT !.called = FALSE, !.value = Origin(o), !.era = NewEra] ELSE s
Judged(s, o, r) ==
  [Restarted(WithOptions(s, o), o, r) EXCEPT
     !.reserved = IF ~o.ordered THEN ~o.ordered /\ Wide(o) ELSE IF r THEN FALSE ELSE @]

(* GTM_SeqAlter; it works alone, so that the handle is set. *)
LEMMA AlterEffect ==
  ASSUME Types, FlowInv, NEW t \in Thread, Alter(t)
  PROVE  LET o == req[t].options
             r == req[t].restart
             j == Judged(store, o, r)
         IN
         /\ o \in Options /\ r \in BOOLEAN /\ mem \in MemoryType /\ store \in ImageType
         /\ mem.linked /\ mem' \in MemoryType /\ SameOptions(mem', o) /\ mem'.linked
         /\ mem'.value = IF r THEN Origin(o) ELSE mem.value
         /\ mem'.called = IF r THEN FALSE ELSE mem.called
         /\ mem'.era = IF r THEN NewEra ELSE mem.era
         /\ mem'.reserved = (~o.ordered /\ Wide(o))
         /\ mem'.left = IF mem'.reserved THEN (IF r THEN Reserve ELSE 0) ELSE mem.left
         /\ j \in ImageType /\ SameOptions(j, o)
         /\ j.value = IF r THEN Origin(o) ELSE store.value
         /\ j.called = IF r THEN FALSE ELSE store.called
         /\ j.era = IF r THEN NewEra ELSE store.era
         /\ j.reserved => Wide(o) \/ store.reserved
         /\ store' = SetAhead(j, r /\ mem'.reserved)
         /\ store' \in ImageType
         /\ buf' = [buf EXCEPT ![t] = store']
<1> DEFINE o == req[t].options
           r == req[t].restart
           j == Judged(store, o, r)
<1>1. mem \in MemoryType /\ store \in ImageType /\ req[t] \in AnyRequest /\ req[t].op = "alter"
  BY Exists DEF Alter
<1>2. o \in Options /\ r \in BOOLEAN
  BY <1>1 DEF AnyRequest
<1>3. /\ o.inc \in Int \ {0} /\ o.min \in Int /\ o.max \in Int /\ o.cycle \in BOOLEAN
      /\ o.ordered \in BOOLEAN
  BY <1>2, SequenceAssumption
<1>4. /\ Origin(o) \in Int /\ (~o.ordered /\ Wide(o)) \in BOOLEAN
      /\ NewEra \in [epoch : Nat, lap : Nat]
  BY <1>3 DEF Types, Origin, NewEra
<1>5. mem.linked
  <2>1. mem # None /\ pc[t] = "run"
    BY <1>1, NoneElse DEF Alter
  <2> QED
    BY <1>1, <2>1 DEF FlowInv, Apart
<1> DEFINE m == Restarted(WithOptions(mem, o), o, r)
<1>6. mem' = [m EXCEPT !.reserved = ~o.ordered /\ Wide(o),
                       !.left = IF ~(~o.ordered /\ Wide(o)) THEN m.left
                                ELSE IF r THEN Reserve ELSE 0]
  BY DEF Alter, Restarted
<1>7. /\ m \in MemoryType /\ SameOptions(m, o) /\ m.linked = mem.linked /\ m.left = mem.left
      /\ m.value = IF r THEN Origin(o) ELSE mem.value
      /\ m.called = IF r THEN FALSE ELSE mem.called
      /\ m.era = IF r THEN NewEra ELSE mem.era
  <2> HIDE DEF o, r
  <2>1. CASE r
    BY <1>1, <1>3, <1>4, <2>1 DEF Restarted, WithOptions, MemoryType, SameOptions
  <2>2. CASE ~r
    BY <1>1, <1>3, <2>2 DEF Restarted, WithOptions, MemoryType, SameOptions
  <2> QED
    BY <2>1, <2>2
<1>8. /\ mem' \in MemoryType /\ SameOptions(mem', o) /\ mem'.linked = mem.linked
      /\ mem'.value = m.value /\ mem'.called = m.called /\ mem'.era = m.era
      /\ mem'.reserved = (~o.ordered /\ Wide(o))
      /\ mem'.left = IF mem'.reserved THEN (IF r THEN Reserve ELSE 0) ELSE m.left
  <2> DEFINE w == ~o.ordered /\ Wide(o)
  <2>1. w \in BOOLEAN
    BY <1>4
  <2> HIDE DEF o, r, m, w
  <2> QED
    BY <1>6, <1>7, <2>1, SequenceAssumption DEF MemoryType, SameOptions, w
<1> DEFINE a == Restarted(WithOptions(store, o), o, r)
<1>9. /\ a \in ImageType /\ SameOptions(a, o) /\ a.reserved = store.reserved
      /\ a.value = IF r THEN Origin(o) ELSE store.value
      /\ a.called = IF r THEN FALSE ELSE store.called
      /\ a.era = IF r THEN NewEra ELSE store.era
  <2> HIDE DEF o, r
  <2>1. CASE r
    BY <1>1, <1>3, <1>4, <2>1 DEF Restarted, WithOptions, ImageType, SameOptions
  <2>2. CASE ~r
    BY <1>1, <1>3, <2>2 DEF Restarted, WithOptions, ImageType, SameOptions
  <2> QED
    BY <2>1, <2>2
<1>10. /\ j \in ImageType /\ SameOptions(j, o) /\ j.value = a.value /\ j.called = a.called
       /\ j.era = a.era /\ (j.reserved => Wide(o) \/ store.reserved)
  <2> DEFINE w == IF ~o.ordered THEN ~o.ordered /\ Wide(o) ELSE IF r THEN FALSE ELSE a.reserved
  <2>1. w \in BOOLEAN
    BY <1>4, <1>9 DEF ImageType
  <2>2. j = [a EXCEPT !.reserved = w]
    BY DEF Judged
  <2>3. w => Wide(o) \/ store.reserved
    BY <1>9
  <2> HIDE DEF o, r, a, w, j
  <2> QED
    BY <1>9, <2>1, <2>2, <2>3 DEF ImageType, SameOptions
<1>11. SetAhead(j, r /\ mem'.reserved) \in ImageType
  BY <1>10, ReserveOnce DEF SetAhead, Reserved
<1>12. Register(t, SetAhead(j, r /\ mem'.reserved), mem.linked)
  <2>1. Register(t, SetAhead(j, r /\ (~o.ordered /\ Wide(o))), mem.linked)
    BY DEF Alter, Judged, Restarted
  <2>2. (~o.ordered /\ Wide(o)) = mem'.reserved
    BY <1>8
  <2> QED
    BY <2>1, <2>2
<1>13. store' = SetAhead(j, r /\ mem'.reserved) /\ buf' = [buf EXCEPT ![t] = store']
  BY <1>5, <1>12 DEF Register
<1> HIDE DEF m, a, j, o, r
<1>14. /\ mem'.linked
       /\ mem'.value = IF r THEN Origin(o) ELSE mem.value
       /\ mem'.called = IF r THEN FALSE ELSE mem.called
       /\ mem'.era = IF r THEN NewEra ELSE mem.era
       /\ mem'.left = IF mem'.reserved THEN (IF r THEN Reserve ELSE 0) ELSE mem.left
       /\ j.value = IF r THEN Origin(o) ELSE store.value
       /\ j.called = IF r THEN FALSE ELSE store.called
       /\ j.era = IF r THEN NewEra ELSE store.era
  BY <1>5, <1>7, <1>8, <1>9, <1>10
<1> QED
  BY <1>1, <1>2, <1>5, <1>8, <1>10, <1>11, <1>13, <1>14 DEF o, r, j

----------------------------------------------------------------------------
\* A client's request arrives.
Arrives(t, r) ==
  /\ r \in AnyRequest /\ Request(t, r)
  /\ r.op = "set" => Settable(r.value)
  /\ r.op = "alter" => Alterable(r.options)

(* Every request arrives as one of the four. *)
LEMMA Arrival ==
  ASSUME NEW t \in Thread, Requests(t)
  PROVE  \E r \in AnyRequest : Arrives(t, r)
<1>1. CASE \E o \in Options : Request(t, [op |-> "open", options |-> o])
  <2>1. PICK o \in Options : Request(t, [op |-> "open", options |-> o])
    BY <1>1
  <2> DEFINE r == [op |-> "open", options |-> o]
  <2>2. r \in AnyRequest /\ r.op = "open"
    BY DEF AnyRequest
  <2> QED
    BY <2>1, <2>2 DEF Arrives
<1>2. CASE \E n \in Counts : Request(t, [op |-> "next", n |-> n])
  <2>1. PICK n \in Counts : Request(t, [op |-> "next", n |-> n])
    BY <1>2
  <2> DEFINE r == [op |-> "next", n |-> n]
  <2>2. r \in AnyRequest /\ r.op = "next"
    BY DEF AnyRequest
  <2> QED
    BY <2>1, <2>2 DEF Arrives
<1>3. CASE \E v \in SetValues, c \in BOOLEAN :
             Settable(v) /\ Request(t, [op |-> "set", value |-> v, called |-> c])
  <2>1. PICK v \in SetValues, c \in BOOLEAN :
               Settable(v) /\ Request(t, [op |-> "set", value |-> v, called |-> c])
    BY <1>3
  <2> DEFINE r == [op |-> "set", value |-> v, called |-> c]
  <2>2. r \in AnyRequest /\ r.op = "set" /\ r.value = v
    BY DEF AnyRequest
  <2> QED
    BY <2>1, <2>2 DEF Arrives
<1>4. CASE \E o \in Options, x \in BOOLEAN :
             Alterable(o) /\ Request(t, [op |-> "alter", options |-> o, restart |-> x])
  <2>1. PICK o \in Options, x \in BOOLEAN :
               Alterable(o) /\ Request(t, [op |-> "alter", options |-> o, restart |-> x])
    BY <1>4
  <2> DEFINE r == [op |-> "alter", options |-> o, restart |-> x]
  <2>2. r \in AnyRequest /\ r.op = "alter" /\ r.options = o
    BY DEF AnyRequest
  <2> QED
    BY <2>1, <2>2 DEF Arrives
<1> QED
  BY <1>1, <1>2, <1>3, <1>4 DEF Requests

(* What a crash leaves. *)
LEMMA CrashEffect ==
  ASSUME Types, NEW n \in flushed..Len(log), Crash(n)
  PROVE  /\ n \in 0..Len(log) /\ mem' = None
         /\ store' = Durable(n) /\ store' \in ImageType \cup {None}
         /\ n # 0 => store' = log[n]
         /\ log' \in Seq(ImageType) /\ flushed' = Len(log') /\ flushed' \in 0..Len(log')
         /\ n = 0 => store' = None /\ log' = <<>> /\ Len(log') = 0
         /\ n # 0 => store' \in ImageType /\ log' = <<log[n]>> /\ Len(log') = 1 /\ log'[1] = log[n]
         /\ \A t \in Thread : /\ pc'[t] = "idle" /\ req'[t] = Idle /\ buf'[t] = None
                              /\ pos'[t] = 0 /\ answer'[t] = {}
<1>1. log \in Seq(ImageType) /\ Len(log) \in Nat /\ flushed \in 0..Len(log)
  BY DEF Types
<1>2. n \in 0..Len(log)
  BY <1>1
<1>3. n # 0 => log[n] \in ImageType
  BY <1>1, <1>2
<1>4. CASE n = 0
  BY <1>2, <1>4 DEF Crash, Durable
<1>5. CASE n # 0
  BY <1>2, <1>3, <1>5 DEF Crash, Durable
<1> QED
  BY <1>4, <1>5

(* A request that was done goes on to the log. *)
LEMMA Worked ==
  ASSUME NEW t \in Thread, Open(t) \/ GetNext(t) \/ SetVal(t) \/ Alter(t)
  PROVE  pc' = [pc EXCEPT ![t] = "insert"] /\ pc[t] = "run"
<1>1. \A s, l : Register(t, s, l) => pc' = [pc EXCEPT ![t] = "insert"]
  BY DEF Register
<1>2. CASE Open(t)
  BY <1>1, <1>2 DEF Open
<1>3. CASE GetNext(t)
  BY <1>1, <1>3 DEF GetNext
<1>4. CASE SetVal(t)
  BY <1>1, <1>4 DEF SetVal
<1>5. CASE Alter(t)
  BY <1>1, <1>5 DEF Alter
<1> QED
  BY <1>2, <1>3, <1>4, <1>5

(* The types of the variables are kept. *)
LEMMA TypesStep ==
  ASSUME Types, FlowInv, PlacedInv, [Next]_vars
  PROVE  Types'
<1>1. CASE UNCHANGED vars
  BY <1>1 DEF Types, vars, thread, history
<1>2. ASSUME NEW t \in Thread, NEW r \in AnyRequest, Arrives(t, r) PROVE Types'
  <2>1. /\ pc' \in [Thread -> Label] /\ req' \in [Thread -> AnyRequest \cup {Idle}]
        /\ buf' \in [Thread -> ImageType \cup {None}]
        /\ answer' \in [Thread -> SUBSET (Era \X Int)]
    BY <1>2 DEF Types, Arrives, Request, Label
  <2>2. overlapped' \in BOOLEAN /\ ops' \in Nat
    BY <1>2 DEF Types, Arrives, Request
  <2> QED
    BY <1>2, <2>1, <2>2 DEF Types, Arrives, Request
<1>3. ASSUME NEW t \in Thread, Find(t) PROVE Types'
  <2>1. mem' \in MemoryType \cup {None}
    <3>1. CASE mem = None
      <4>1. store \in ImageType /\ mem' = InMemory(store, 0, FALSE)
        BY <1>3, <3>1, Exists DEF Find
      <4> QED
        BY <4>1, MemoryFields
    <3>2. CASE mem # None
      BY <1>3, <3>2 DEF Find, Types
    <3> QED
      BY <3>1, <3>2
  <2>2. pc' \in [Thread -> Label]
    BY <1>3 DEF Types, Find, Label
  <2> QED
    BY <1>3, <2>1, <2>2 DEF Types, Find, history
<1>4. ASSUME NEW t \in Thread, Form(t) PROVE Types'
  <2>1. mem' \in MemoryType
    BY <1>4, FormEffect
  <2>2. store' \in ImageType
    BY <1>4, FormEffect, ReserveOnce DEF Reserved
  <2>3. buf' \in [Thread -> ImageType \cup {None}]
    BY <1>4, <2>2, FormEffect DEF Types
  <2>4. pc' \in [Thread -> Label]
    BY <1>4 DEF Types, Form, Label
  <2> QED
    BY <1>4, <2>1, <2>2, <2>3, <2>4 DEF Types, Form, history
<1>5. ASSUME NEW t \in Thread, Open(t) PROVE Types'
  <2>1. mem' \in MemoryType /\ store' \in ImageType /\ buf' = [buf EXCEPT ![t] = store']
    BY <1>5, OpenEffect
  <2>2. buf' \in [Thread -> ImageType \cup {None}]
    BY <2>1 DEF Types
  <2>3. pc' \in [Thread -> Label]
    BY <1>5, Worked DEF Types, Label
  <2>4. epochs' \in Nat
    BY <1>5 DEF Types, Open
  <2> QED
    BY <1>5, <2>1, <2>2, <2>3, <2>4 DEF Types, Open
<1>6. ASSUME NEW t \in Thread, GetNext(t) PROVE Types'
  <2>1. /\ mem' \in MemoryType /\ store' \in ImageType
        /\ buf' = buf \/ buf' = [buf EXCEPT ![t] = store']
    BY <1>6, GetNextEffect DEF PlacedInv
  <2>2. buf' \in [Thread -> ImageType \cup {None}]
    BY <2>1 DEF Types
  <2>3. pc' \in [Thread -> Label]
    BY <1>6, Worked DEF Types, Label
  <2>4. answer' \in [Thread -> SUBSET (Era \X Int)]
    <3> DEFINE n == req[t].n
               A == {<<FirstEra(mem), First(mem) + k * mem.inc>> : k \in 0..(UsedCount(mem, n) - 1)}
    <3>1. mem \in MemoryType /\ Placed(mem) /\ n \in Nat \ {0}
          /\ (~mem.called \/ Fits(mem, mem.value, mem.inc) \/ mem.cycle)
          /\ answer' = [answer EXCEPT ![t] = A]
      BY <1>6, GetNextEffect, NoneElse DEF PlacedInv
    <3>2. FirstEra(mem) \in Era /\ mem.min \in Int /\ mem.max \in Int
      BY <3>1, FirstValue DEF MemoryType
    <3>3. \A k \in 0..(UsedCount(mem, n) - 1) : First(mem) + k * mem.inc \in mem.min..mem.max
      BY <3>1, NextValues
    <3> HIDE DEF n
    <3>4. A \subseteq Era \X Int
      BY <3>2, <3>3
    <3> HIDE DEF A
    <3> QED
      BY <3>1, <3>4 DEF Types
  <2> QED
    BY <1>6, <2>1, <2>2, <2>3, <2>4 DEF Types, GetNext, history
<1>7. ASSUME NEW t \in Thread, GetNextFails(t) PROVE Types'
  BY <1>7 DEF Types, GetNextFails, Label, history
<1>8. ASSUME NEW t \in Thread, SetVal(t) PROVE Types'
  <2>1. /\ mem' \in MemoryType /\ store' \in ImageType
        /\ buf' = buf \/ buf' = [buf EXCEPT ![t] = store']
    BY <1>8, SetValEffect
  <2>2. buf' \in [Thread -> ImageType \cup {None}]
    BY <2>1 DEF Types
  <2>3. pc' \in [Thread -> Label]
    BY <1>8, Worked DEF Types, Label
  <2>4. epochs' \in Nat
    BY <1>8 DEF Types, SetVal
  <2> QED
    BY <1>8, <2>1, <2>2, <2>3, <2>4 DEF Types, SetVal
<1>9. ASSUME NEW t \in Thread, Alter(t) PROVE Types'
  <2>1. mem' \in MemoryType /\ store' \in ImageType /\ buf' = [buf EXCEPT ![t] = store']
    BY <1>9, AlterEffect
  <2>2. buf' \in [Thread -> ImageType \cup {None}]
    BY <2>1 DEF Types
  <2>3. pc' \in [Thread -> Label]
    BY <1>9, Worked DEF Types, Label
  <2>4. epochs' \in Nat
    BY <1>9 DEF Types, Alter
  <2> QED
    BY <1>9, <2>1, <2>2, <2>3, <2>4 DEF Types, Alter
<1>10. ASSUME NEW t \in Thread, Insert(t) PROVE Types'
  <2>1. CASE buf[t] = None
    BY <1>10, <2>1 DEF Types, Insert, Label, history
  <2>2. CASE buf[t] # None
    <3>1. buf[t] \in ImageType
      BY <2>2 DEF Types
    <3>2. /\ log' = Append(log, buf[t]) /\ flushed' = flushed
          /\ pos' = [pos EXCEPT ![t] = Len(log) + 1] /\ pc' = [pc EXCEPT ![t] = "flush"]
      BY <1>10, <2>2 DEF Insert
    <3>3. log \in Seq(ImageType) /\ Len(log) \in Nat /\ flushed \in 0..Len(log)
      BY DEF Types
    <3>4. log' \in Seq(ImageType) /\ Len(log') = Len(log) + 1
      BY <3>1, <3>2, <3>3
    <3>5. flushed' \in 0..Len(log')
      BY <3>2, <3>3, <3>4
    <3>6. pos' \in [Thread -> Nat] /\ pc' \in [Thread -> Label]
      BY <3>2, <3>3 DEF Types, Label
    <3> QED
      BY <1>10, <3>4, <3>5, <3>6 DEF Types, Insert, history
  <2> QED
    BY <2>1, <2>2
<1>11. ASSUME NEW t \in Thread, Flush(t) PROVE Types'
  <2>1. pos[t] \in 1..Len(log)
    BY <1>11 DEF Flush, FlowInv, FlowOf
  <2>2. flushed' \in 0..Len(log')
    BY <1>11, <2>1 DEF Types, Flush, FlushedUpTo
  <2>3. pc' \in [Thread -> Label]
    BY <1>11 DEF Types, Flush, Label
  <2> QED
    BY <1>11, <2>2, <2>3 DEF Types, Flush, history
<1>12. ASSUME NEW t \in Thread, Reply(t) PROVE Types'
  <2>1. /\ pc' \in [Thread -> Label] /\ req' \in [Thread -> AnyRequest \cup {Idle}]
        /\ buf' \in [Thread -> ImageType \cup {None}]
        /\ answer' \in [Thread -> SUBSET (Era \X Int)]
    BY <1>12 DEF Types, Reply, Label
  <2>2. given' \subseteq Era \X Int /\ twice' \in BOOLEAN
    BY <1>12 DEF Types, Reply
  <2> QED
    BY <1>12, <2>1, <2>2 DEF Types, Reply
<1>13. ASSUME NEW n \in flushed..Len(log), Crash(n) PROVE Types'
  <2>1. /\ mem' = None /\ store' \in ImageType \cup {None}
        /\ log' \in Seq(ImageType) /\ flushed' \in 0..Len(log')
    BY <1>13, CrashEffect
  <2>2. /\ pc' \in [Thread -> Label] /\ req' \in [Thread -> AnyRequest \cup {Idle}]
        /\ buf' \in [Thread -> ImageType \cup {None}] /\ pos' \in [Thread -> Nat]
        /\ answer' \in [Thread -> SUBSET (Era \X Int)] /\ crashes' \in Nat
    BY <1>13 DEF Types, Crash, Label
  <2> QED
    BY <1>13, <2>1, <2>2 DEF Types, Crash, history
<1> QED
  BY <1>1, <1>2, <1>3, <1>4, <1>5, <1>6, <1>7, <1>8, <1>9, <1>10, <1>11, <1>12, <1>13, Arrival
  DEF Next

(* The steps of the threads and the copies of the sequence keep fitting each other. *)
LEMMA FlowStep ==
  ASSUME Types, FlowInv, PlacedInv, Types', [Next]_vars
  PROVE  FlowInv'
<1>1. CASE UNCHANGED vars
  BY <1>1 DEF FlowInv, FlowOf, Apart, vars, thread, history
<1>2. ASSUME NEW t \in Thread, NEW r \in AnyRequest, Arrives(t, r) PROVE FlowInv'
  <2>1. /\ pc[t] = "idle" /\ (r.op = "open" <=> store = None) /\ UNCHANGED <<mem, store, log, pos>>
        /\ \A u \in Thread : pc[u] # "idle" => {r.op, req[u].op} \subseteq {"next", "set"}
        /\ pc' = [pc EXCEPT ![t] = IF r.op = "open" THEN "run" ELSE "find"]
        /\ req' = [req EXCEPT ![t] = r]
        /\ overlapped' = (overlapped \/ \E u \in Thread \ {t} : pc[u] # "idle")
    BY <1>2 DEF Arrives, Request
  <2>2. pc'[t] \in {"run", "find"} /\ req'[t] = r /\ \A u \in Thread \ {t} : pc'[u] = pc[u] /\ req'[u] = req[u]
    BY <2>1 DEF Types
  <2>3. r # Idle
    BY DEF Idle, AnyRequest
  <2>4. FlowOf(t)'
    BY <2>1, <2>2, <2>3 DEF FlowOf, Types
  <2>5. \A u \in Thread \ {t} : FlowOf(u)'
    BY <2>1, <2>2 DEF FlowOf, FlowInv
  <2>6. \A u, w \in Thread : u # w => Apart(u, w)'
    BY <2>1, <2>2 DEF Apart, FlowInv, Types
  <2>7. mem' # None /\ ~mem'.linked => \E u \in Thread : pc'[u] = "form"
    BY <2>1, <2>2 DEF FlowInv
  <2> QED
    BY <2>1, <2>4, <2>5, <2>6, <2>7 DEF FlowInv
<1>3. ASSUME NEW t \in Thread, Find(t) PROVE FlowInv'
  <2>1. UNCHANGED <<store, log, req, pos, overlapped>> /\ pc[t] = "find" /\ store # None /\ store \in ImageType
    BY <1>3, Exists DEF Find, history
  <2>2. CASE mem # None
    <3>1. pc' = [pc EXCEPT ![t] = "run"] /\ mem' = mem
      BY <1>3, <2>2 DEF Find
    <3>2. pc'[t] = "run" /\ \A u \in Thread \ {t} : pc'[u] = pc[u]
      BY <3>1 DEF Types
    <3>3. \A u \in Thread : FlowOf(u)'
      BY <2>1, <2>2, <3>1, <3>2 DEF FlowOf, FlowInv
    <3>4. \A u, w \in Thread : u # w => Apart(u, w)'
      BY <2>1, <3>2 DEF Apart, FlowInv
    <3> QED
      BY <2>1, <3>1, <3>2, <3>3, <3>4 DEF FlowInv
  <2>3. CASE mem = None
    <3>1. pc' = [pc EXCEPT ![t] = "form"] /\ mem' = InMemory(store, 0, FALSE)
      BY <1>3, <2>3 DEF Find
    <3>2. pc'[t] = "form" /\ \A u \in Thread \ {t} : pc'[u] = pc[u] /\ pc[u] # "form"
      BY <2>3, <3>1 DEF Types, FlowInv, FlowOf
    <3>3. mem' # None /\ ~mem'.linked
      <4>1. mem' \in MemoryType
        BY <2>1, <3>1, MemoryFields
      <4> QED
        BY <3>1, <4>1, NoneElse DEF InMemory
    <3>4. \A u \in Thread : FlowOf(u)'
      BY <2>1, <2>3, <3>2, <3>3 DEF FlowOf, FlowInv
    <3>5. \A u, w \in Thread : u # w => Apart(u, w)'
      BY <2>1, <3>2 DEF Apart, FlowInv
    <3> QED
      BY <2>1, <3>2, <3>4, <3>5 DEF FlowInv
  <2> QED
    BY <2>2, <2>3
<1>4. ASSUME NEW t \in Thread, Form(t) PROVE FlowInv'
  <2>1. /\ UNCHANGED <<log, req, pos, overlapped>> /\ pc[t] = "form"
        /\ pc' = [pc EXCEPT ![t] = "run"]
    BY <1>4 DEF Form, history
  <2>2. /\ mem' \in MemoryType /\ mem'.linked /\ store \in ImageType /\ store' \in ImageType
    BY <1>4, FormEffect, ReserveOnce DEF Reserved
  <2>3. mem' # None /\ store # None /\ store' # None
    BY <2>2, NoneElse
  <2>4. pc'[t] = "run" /\ \A u \in Thread \ {t} : pc'[u] = pc[u] /\ pc[u] # "form"
    BY <2>1 DEF Types, FlowInv, Apart
  <2>5. \A u \in Thread : FlowOf(u)'
    BY <2>1, <2>3, <2>4 DEF FlowOf, FlowInv
  <2>6. \A u, w \in Thread : u # w => Apart(u, w)'
    BY <2>1, <2>4 DEF Apart, FlowInv
  <2> QED
    BY <2>2, <2>3, <2>5, <2>6 DEF FlowInv
<1>5. ASSUME NEW t \in Thread, Open(t) \/ Alter(t) PROVE FlowInv'
  <2>1. /\ UNCHANGED <<log, req, pos, overlapped>> /\ req[t].op \in {"open", "alter"}
        /\ pc' = [pc EXCEPT ![t] = "insert"] /\ pc[t] = "run"
    BY <1>5, Worked DEF Open, Alter
  <2>2. mem' \in MemoryType /\ mem'.linked /\ store' \in ImageType
    <3>1. CASE Open(t)
      <4> DEFINE o == req[t].options
                 l == IF Fresh(o).reserved THEN Reserve ELSE 0
      <4>1. l \in Nat
        BY SequenceAssumption
      <4>2. Fresh(o) \in ImageType /\ mem' = InMemory(Fresh(o), l, TRUE) /\ store' \in ImageType
        BY <3>1, OpenEffect
      <4> HIDE DEF o, l
      <4> QED
        BY <4>1, <4>2, MemoryFields
    <3>2. CASE Alter(t)
      BY <3>2, AlterEffect
    <3> QED
      BY <1>5, <3>1, <3>2
  <2>3. mem' # None /\ store' # None
    BY <2>2, NoneElse
  <2>4. pc'[t] = "insert" /\ \A u \in Thread \ {t} : pc'[u] = pc[u] /\ pc[u] = "idle"
    BY <2>1 DEF Types, FlowInv, Apart
  <2>5. \A u \in Thread : FlowOf(u)'
    BY <2>1, <2>3, <2>4 DEF FlowOf, FlowInv
  <2>6. \A u, w \in Thread : u # w => Apart(u, w)'
    BY <2>1, <2>4 DEF Apart, FlowInv
  <2> QED
    BY <2>2, <2>3, <2>5, <2>6 DEF FlowInv
<1>6. ASSUME NEW t \in Thread, GetNext(t) \/ SetVal(t) PROVE FlowInv'
  <2>1. /\ UNCHANGED <<log, req, pos, overlapped>>
        /\ pc' = [pc EXCEPT ![t] = "insert"] /\ pc[t] = "run"
    BY <1>6, Worked DEF GetNext, SetVal, history
  <2>2. /\ mem \in MemoryType /\ mem' \in MemoryType /\ mem'.linked = mem.linked
        /\ store \in ImageType /\ store' \in ImageType
    BY <1>6, GetNextEffect, SetValEffect DEF PlacedInv
  <2>3. mem # None /\ mem' # None /\ store # None /\ store' # None
    BY <2>2, NoneElse
  <2>4. pc'[t] = "insert" /\ \A u \in Thread \ {t} : pc'[u] = pc[u]
    BY <2>1 DEF Types
  <2>5. \A u \in Thread : FlowOf(u)'
    BY <2>1, <2>2, <2>3, <2>4 DEF FlowOf, FlowInv
  <2>6. \A u, w \in Thread : u # w => Apart(u, w)'
    BY <2>1, <2>4 DEF Apart, FlowInv
  <2>7. ~mem'.linked => \E u \in Thread : pc'[u] = "form"
    BY <2>1, <2>2, <2>3, <2>4 DEF FlowInv
  <2> QED
    BY <2>3, <2>5, <2>6, <2>7 DEF FlowInv
<1>7. ASSUME NEW t \in Thread, GetNextFails(t) \/ Insert(t) \/ Flush(t) \/ Reply(t)
      PROVE  FlowInv'
  <2>1. /\ UNCHANGED <<mem, store, overlapped>> /\ pc[t] \in {"run", "insert", "flush", "reply"}
        /\ pc'[t] \in {"idle", "reply", "flush"} /\ \A u \in Thread \ {t} : pc'[u] = pc[u]
        /\ pc'[t] # "idle" => req' = req
        /\ \A u \in Thread \ {t} : req'[u] = req[u] /\ pos'[u] = pos[u]
    BY <1>7 DEF GetNextFails, Insert, Flush, Reply, Types, history
  <2>2. Len(log) \in Nat /\ Len(log') \in Nat /\ Len(log) <= Len(log') /\ (pc'[t] = "flush" => pos'[t] \in 1..Len(log'))
    <3>1. CASE Insert(t) /\ buf[t] # None
      <4>1. buf[t] \in ImageType /\ log \in Seq(ImageType)
        BY <3>1 DEF Types
      <4>2. log' = Append(log, buf[t]) /\ pos' = [pos EXCEPT ![t] = Len(log) + 1]
        BY <3>1 DEF Insert
      <4>3. Len(log') = Len(log) + 1 /\ pos'[t] = Len(log) + 1 /\ Len(log) \in Nat
        BY <4>1, <4>2 DEF Types
      <4> QED
        BY <4>3
    <3>2. CASE ~(Insert(t) /\ buf[t] # None)
      <4>1. log' = log /\ pc'[t] # "flush"
        BY <1>7, <3>2 DEF GetNextFails, Insert, Flush, Reply, Types
      <4>2. log \in Seq(ImageType)
        BY DEF Types
      <4> QED
        BY <4>1, <4>2
    <3> QED
      BY <3>1, <3>2
  <2>3. FlowOf(t)'
    BY <2>1, <2>2 DEF FlowOf, FlowInv
  <2>4. \A u \in Thread \ {t} : FlowOf(u)'
    BY <2>1, <2>2 DEF FlowOf, FlowInv
  <2>5. \A u, w \in Thread : u # w => Apart(u, w)'
    BY <2>1 DEF Apart, FlowInv
  <2>6. mem' # None /\ ~mem'.linked => \E u \in Thread : pc'[u] = "form"
    BY <2>1 DEF FlowInv
  <2> QED
    BY <2>1, <2>3, <2>4, <2>5, <2>6 DEF FlowInv
<1>8. ASSUME NEW n \in flushed..Len(log), Crash(n) PROVE FlowInv'
  <2>1. mem' = None /\ \A t \in Thread : pc'[t] = "idle"
    BY <1>8, CrashEffect
  <2> QED
    BY <2>1 DEF FlowInv, FlowOf, Apart
<1> QED
  BY <1>1, <1>2, <1>3, <1>4, <1>5, <1>6, <1>7, <1>8, Arrival DEF Next

(* The memory and the image keep the same options. *)
LEMMA OptionsStep ==
  ASSUME Types, FlowInv, PlacedInv, OptionsInv, Types', FlowInv', [Next]_vars
  PROVE  OptionsInv'
<1> USE DEF SameOptions
<1>1. CASE UNCHANGED vars
  BY <1>1 DEF OptionsInv, Begun, Widens, vars, thread, history
<1>2. ASSUME NEW t \in Thread, NEW r \in AnyRequest, Arrives(t, r) PROVE OptionsInv'
  <2>1. /\ UNCHANGED <<mem, store>> /\ req' = [req EXCEPT ![t] = r]
        /\ \A u \in Thread \ {t} : pc'[u] = pc[u]
    BY <1>2 DEF Arrives, Request, Types
  <2>2. req'[t] = r /\ \A u \in Thread \ {t} : req'[u] = req[u]
    BY <2>1 DEF Types
  <2>3. r.op = "set" => r.value \in store.min..store.max
    BY <1>2 DEF Arrives, Settable, Current, OptionsInv
  <2>4. r.op = "alter" => Widens(r.options, store)
    BY <1>2 DEF Arrives, Alterable, Current, OptionsInv, Widens, Ascending
  <2> QED
    BY <2>1, <2>2, <2>3, <2>4 DEF OptionsInv, Begun, Widens
<1>3. ASSUME NEW t \in Thread, Find(t) \/ GetNextFails(t) \/ Insert(t) \/ Flush(t) \/ Reply(t)
      PROVE  OptionsInv'
  <2>1. store' = store /\ \A u \in Thread : Begun(u)' => Begun(u) /\ req'[u] = req[u]
    BY <1>3 DEF Find, GetNextFails, Insert, Flush, Reply, Begun, Types
  <2>2. mem' # None => SameOptions(mem', store)
    <3>1. CASE mem' = mem
      BY <3>1 DEF OptionsInv
    <3>2. CASE mem' # mem
      BY <1>3, <3>2 DEF Find, GetNextFails, Insert, Flush, Reply, InMemory
    <3> QED
      BY <3>1, <3>2
  <2> QED
    BY <2>1, <2>2 DEF OptionsInv, Widens
<1>4. ASSUME NEW t \in Thread, Form(t) \/ GetNext(t) \/ SetVal(t) PROVE OptionsInv'
  <2>1. req' = req /\ \A u \in Thread : Begun(u)' => Begun(u)
    <3>1. CASE Form(t)
      BY <3>1 DEF Form, Begun, Types
    <3>2. CASE GetNext(t) \/ SetVal(t)
      BY <3>2, Worked DEF GetNext, SetVal, Begun, Types
    <3> QED
      BY <1>4, <3>1, <3>2
  <2>2. mem \in MemoryType /\ store \in ImageType /\ mem # None /\ SameOptions(mem, store)
    BY <1>4, FormEffect, GetNextEffect, SetValEffect, NoneElse DEF PlacedInv, OptionsInv
  <2>3. SameOptions(mem', mem)
    BY <1>4, FormEffect, GetNextEffect, SetValEffect DEF PlacedInv
  <2>4. SameOptions(store', store)
    <3>1. CASE Form(t)
      BY <3>1, FormEffect, ReserveOnce DEF Reserved
    <3>2. CASE GetNext(t)
      <4> DEFINE n == req[t].n
      <4>1. /\ Marked(mem, store) \in ImageType /\ SameOptions(Marked(mem, store), store)
        BY <2>2, <3>2, GetNextEffect DEF PlacedInv, Marked, ImageType
      <4>2. Times(mem, n) \in Nat
        BY <3>2, GetNextEffect DEF PlacedInv
      <4>3. SameOptions(Ahead(Marked(mem, store), Times(mem, n)), store)
        BY <4>1, <4>2, ReserveTimes DEF Reserved
      <4>4. \A v, c, e : SameOptions([Marked(mem, store) EXCEPT !.value = v, !.called = c, !.era = e], store)
        BY <4>1 DEF ImageType
      <4>5. CASE ~mem.linked
        BY <3>2, <4>5, GetNextEffect DEF PlacedInv
      <4>6. CASE mem.linked
        <5>1. store' = IF mem.reserved THEN Ahead(Marked(mem, store), Times(mem, n))
                       ELSE [Marked(mem, store) EXCEPT !.value = Last(mem, n), !.called = TRUE,
                                                       !.era = FirstEra(mem)]
          BY <3>2, <4>6, GetNextEffect DEF PlacedInv
        <5> QED
          BY <4>3, <4>4, <5>1
      <4> QED
        BY <4>5, <4>6
    <3>3. CASE SetVal(t)
      <4> DEFINE v == req[t].value
      <4>1. SetTo(store, v) \in ImageType /\ SameOptions(SetTo(store, v), store)
        BY <2>2, <3>3, SetValEffect DEF SetTo, ImageType
      <4>2. SameOptions(SetAhead(SetTo(store, v), mem.reserved), store)
        BY <4>1, ReserveOnce DEF Reserved, SetAhead
      <4> QED
        BY <3>3, <4>2, SetValEffect
    <3> QED
      BY <1>4, <3>1, <3>2, <3>3
  <2> QED
    BY <2>1, <2>2, <2>3, <2>4 DEF OptionsInv, Widens, Ascending
<1>5. ASSUME NEW t \in Thread, Open(t) \/ Alter(t) PROVE OptionsInv'
  <2>1. req[t].op \in {"open", "alter"} /\ pc' = [pc EXCEPT ![t] = "insert"] /\ pc[t] = "run"
    BY <1>5, Worked DEF Open, Alter
  <2>2. \A u \in Thread : ~Begun(u)'
    BY <2>1 DEF FlowInv, Apart, Begun, Types
  <2>3. SameOptions(mem', store')
    <3> DEFINE o == req[t].options
    <3>1. CASE Open(t)
      <4>1. /\ Fresh(o) \in ImageType
            /\ mem' = InMemory(Fresh(o), IF Fresh(o).reserved THEN Reserve ELSE 0, TRUE)
            /\ store' = IF Fresh(o).reserved THEN ReservedAhead(Fresh(o)) ELSE Fresh(o)
        BY <3>1, OpenEffect
      <4>2. SameOptions(mem', Fresh(o))
        BY <4>1 DEF InMemory
      <4>3. SameOptions(store', Fresh(o))
        BY <4>1, ReserveOnce DEF Reserved
      <4> QED
        BY <4>2, <4>3
    <3>2. CASE Alter(t)
      <4> DEFINE r == req[t].restart
                 j == Judged(store, o, r)
      <4>1. /\ SameOptions(mem', o) /\ j \in ImageType /\ SameOptions(j, o)
            /\ store' = SetAhead(j, r /\ mem'.reserved)
        BY <3>2, AlterEffect
      <4> HIDE DEF j, o
      <4>2. SameOptions(store', j)
        BY <4>1, ReserveOnce DEF Reserved, SetAhead
      <4> QED
        BY <4>1, <4>2
    <3> QED
      BY <1>5, <3>1, <3>2
  <2> QED
    BY <2>2, <2>3 DEF OptionsInv
<1>6. ASSUME NEW n \in flushed..Len(log), Crash(n) PROVE OptionsInv'
  <2>1. mem' = None /\ \A t \in Thread : pc'[t] = "idle"
    BY <1>6, CrashEffect
  <2> QED
    BY <2>1 DEF OptionsInv, Begun
<1> QED
  BY <1>1, <1>2, <1>3, <1>4, <1>5, <1>6, Arrival DEF Next

----------------------------------------------------------------------------
\* What a sequence that wraps around has for its increment.
Mild(s) == Gentle => (s.cycle => -MinGap <= s.inc /\ s.inc <= MinGap)

(* A value within the bounds is in its place. *)
LEMMA PlacedAt ==
  ASSUME NEW s \in ImageType \cup MemoryType, s.min < s.max, s.value \in s.min..s.max,
         s.reserved => Wide(s), Mild(s)
  PROVE  Placed(s)
<1>1. s.inc \in Int \ {0} /\ s.min \in Int /\ s.max \in Int /\ s.value \in Int
  BY DEF ImageType, MemoryType
<1> QED
  BY <1>1 DEF Placed, Mild, Before, Limit, Origin, Ascending

(* It remains so in a copy, and when the sequence has been called. *)
LEMMA PlacedCopy ==
  ASSUME NEW s \in ImageType \cup MemoryType, NEW m \in ImageType \cup MemoryType,
         Placed(s), SameOptions(m, s), m.value = s.value, s.called => m.called,
         m.reserved => s.reserved
  PROVE  Placed(m)
BY DEF Placed, SameOptions, Before, Limit, Origin, Ascending, Wide

(* The images and the memory stay in their places. *)
LEMMA PlacedStep ==
  ASSUME Types, FlowInv, PlacedInv, OptionsInv, Types', FlowInv', [Next]_vars
  PROVE  PlacedInv'
<1>1. CASE UNCHANGED vars
  BY <1>1 DEF PlacedInv, vars, thread
\* The log and the other threads are as they were.
<1>2. ASSUME NEW t \in Thread, log' = log, store' \in ImageType, Placed(store'),
             mem' \in MemoryType, Placed(mem'),
             buf' = buf \/ buf' = [buf EXCEPT ![t] = store']
      PROVE  PlacedInv'
  BY <1>2 DEF PlacedInv, Types
<1>3. mem # None => /\ mem \in MemoryType /\ store \in ImageType /\ store # None
                    /\ Placed(mem) /\ Placed(store) /\ SameOptions(mem, store)
                    /\ (Wide(mem) <=> Wide(store)) /\ (mem.reserved => Wide(store))
  BY DEF Types, FlowInv, PlacedInv, OptionsInv, SameOptions, Wide, Placed
<1>4. ASSUME NEW t \in Thread, NEW r \in AnyRequest, Arrives(t, r) PROVE PlacedInv'
  BY <1>4 DEF Arrives, Request, PlacedInv, Types
<1>5. ASSUME NEW t \in Thread, Find(t) PROVE PlacedInv'
  <2>1. UNCHANGED <<store, log, buf>> /\ store \in ImageType /\ Placed(store)
    BY <1>5, Exists DEF Find, PlacedInv
  <2>2. CASE mem # None
    BY <1>5, <2>1, <2>2 DEF Find, PlacedInv
  <2>3. CASE mem = None
    <3>1. mem' = InMemory(store, 0, FALSE)
      BY <1>5, <2>3 DEF Find
    <3>2. /\ mem' \in MemoryType /\ SameOptions(mem', store) /\ mem'.value = store.value
          /\ mem'.called = store.called /\ mem'.reserved = store.reserved
      <4>1. mem' \in MemoryType
        BY <2>1, <3>1, MemoryFields
      <4> QED
        BY <3>1, <4>1 DEF InMemory, SameOptions
    <3>3. Placed(mem')
      BY <2>1, <3>2, PlacedCopy
    <3> QED
      BY <2>1, <3>3 DEF PlacedInv
  <2> QED
    BY <2>2, <2>3
<1>6. ASSUME NEW t \in Thread, Form(t) PROVE PlacedInv'
  <2>1. mem # None /\ log' = log
    BY <1>6, Exists DEF Form
  <2>2. /\ mem' \in MemoryType /\ SameOptions(mem', mem) /\ mem'.value = mem.value
        /\ mem'.called = mem.called /\ mem'.reserved = mem.reserved
        /\ mem.reserved => store' = ReservedAhead(store) /\ buf' = [buf EXCEPT ![t] = store']
        /\ ~mem.reserved => UNCHANGED <<store, buf>>
    BY <1>6, FormEffect
  <2>3. Placed(mem')
    BY <1>3, <2>1, <2>2, PlacedCopy
  <2>4. Placed(store') /\ store' \in ImageType
    BY <1>3, <2>1, <2>2, ReservePlaced, ReserveOnce DEF Reserved
  <2> QED
    BY <1>2, <2>1, <2>2, <2>3, <2>4
<1>7. ASSUME NEW t \in Thread, Open(t) PROVE PlacedInv'
  <2> DEFINE o == req[t].options
             f == Fresh(o)
  <2>1. /\ o \in Options /\ f \in ImageType
        /\ mem' = InMemory(f, IF f.reserved THEN Reserve ELSE 0, TRUE) /\ mem' \in MemoryType
        /\ store' = IF f.reserved THEN ReservedAhead(f) ELSE f
        /\ store' \in ImageType
        /\ buf' = [buf EXCEPT ![t] = store']
    BY <1>7, OpenEffect
  <2>2. /\ o.inc \in Int \ {0} /\ o.min \in Int /\ o.max \in Int /\ o.min < o.max /\ Mild(o)
    BY <2>1, SequenceAssumption DEF Mild, Gentle
  <2>3. SameOptions(f, o) /\ f.value = Origin(o) /\ (f.reserved => Wide(o))
    BY DEF Fresh, SameOptions
  <2>4. SameOptions(mem', f) /\ mem'.value = f.value /\ mem'.called = f.called /\ mem'.reserved = f.reserved
    BY <2>1 DEF InMemory, SameOptions
  <2>5. log' = log
    BY <1>7 DEF Open
  <2> HIDE DEF o, f
  <2>6. f.value \in f.min..f.max /\ f.min < f.max /\ (f.reserved => Wide(f)) /\ Mild(f)
    BY <2>2, <2>3 DEF SameOptions, Origin, Wide, Mild
  <2>7. Placed(f)
    BY <2>1, <2>6, PlacedAt
  <2>8. Placed(mem')
    BY <2>1, <2>4, <2>7, PlacedCopy
  <2>9. Placed(store')
    BY <2>1, <2>6, <2>7, ReservePlaced
  <2> QED
    BY <1>2, <2>1, <2>5, <2>8, <2>9
<1>8. ASSUME NEW t \in Thread, GetNext(t) PROVE PlacedInv'
  <2> DEFINE n == req[t].n
             k == Marked(mem, store)
  <2>1. log' = log /\ mem # None
    BY <1>8, Exists DEF GetNext
  <2>2. /\ n \in Nat \ {0} /\ Times(mem, n) \in Nat /\ mem' \in MemoryType
        /\ SameOptions(mem', mem) /\ mem'.value = Last(mem, n) /\ mem'.reserved = mem.reserved
        /\ (~mem.called \/ Fits(mem, mem.value, mem.inc) \/ mem.cycle)
        /\ k \in ImageType
        /\ mem.linked => store' = IF mem.reserved THEN Ahead(k, Times(mem, n))
                                  ELSE [k EXCEPT !.value = Last(mem, n), !.called = TRUE,
                                                 !.era = FirstEra(mem)]
        /\ ~mem.linked => store' = store
        /\ store' \in ImageType
        /\ buf' = buf \/ buf' = [buf EXCEPT ![t] = store']
    BY <1>8, GetNextEffect DEF PlacedInv
  <2>3. /\ SameOptions(k, store) /\ k.value = store.value /\ k.reserved = store.reserved
        /\ (store.called => k.called)
    BY <1>3, <2>1 DEF Marked, ImageType, SameOptions
  <2>4. Last(mem, n) \in mem.min..mem.max
    BY <1>3, <2>1, <2>2, NextValues
  <2> HIDE DEF n, k
  <2>5. Placed(mem')
    <3>1. /\ mem'.min < mem'.max /\ mem'.value \in mem'.min..mem'.max
          /\ (mem'.reserved => Wide(mem')) /\ Mild(mem')
      BY <1>3, <2>1, <2>2, <2>4 DEF SameOptions, Placed, Wide, Mild
    <3> QED
      BY <2>2, <3>1, PlacedAt
  <2>6. Placed(store')
    <3>1. CASE ~mem.linked
      BY <1>3, <2>1, <2>2, <3>1
    <3>2. CASE mem.linked /\ mem.reserved
      <4>1. Placed(k) /\ Wide(k)
        <5>1. Placed(k)
          BY <1>3, <2>1, <2>2, <2>3, PlacedCopy
        <5>2. Wide(k)
          BY <1>3, <2>1, <2>3, <3>2 DEF SameOptions, Wide
        <5> QED
          BY <5>1, <5>2
      <4> QED
        BY <2>2, <3>2, <4>1, AheadPlaced
    <3>3. CASE mem.linked /\ ~mem.reserved
      <4>1. store' = [k EXCEPT !.value = Last(mem, n), !.called = TRUE, !.era = FirstEra(mem)]
        BY <2>2, <3>3
      <4>2. SameOptions(store', k) /\ store'.value = Last(mem, n) /\ store'.reserved = k.reserved
        BY <2>2, <4>1 DEF SameOptions, ImageType
      <4>3. /\ store'.min < store'.max /\ store'.value \in store'.min..store'.max
            /\ (store'.reserved => Wide(store')) /\ Mild(store')
        BY <1>3, <2>1, <2>3, <2>4, <4>2 DEF SameOptions, Placed, Wide, Mild
      <4> QED
        BY <2>2, <4>3, PlacedAt
    <3> QED
      BY <3>1, <3>2, <3>3
  <2> QED
    BY <1>2, <2>1, <2>2, <2>5, <2>6
<1>9. ASSUME NEW t \in Thread, SetVal(t) PROVE PlacedInv'
  <2> DEFINE v == req[t].value
             s == SetTo(store, v)
  <2>1. log' = log /\ mem # None /\ v \in store.min..store.max
    BY <1>9, Exists DEF SetVal, OptionsInv, Begun
  <2>2. /\ mem' \in MemoryType /\ SameOptions(mem', mem) /\ mem'.value = v
        /\ mem'.reserved = mem.reserved /\ s \in ImageType
        /\ mem.linked => store' = SetAhead(s, mem.reserved)
        /\ ~mem.linked => store' = store
        /\ store' \in ImageType
        /\ buf' = buf \/ buf' = [buf EXCEPT ![t] = store']
    BY <1>9, SetValEffect
  <2>3. SameOptions(s, store) /\ s.value = v /\ s.reserved = store.reserved
    BY <1>3, <2>1 DEF SetTo, ImageType, SameOptions
  <2> HIDE DEF s, v
  <2>4. Placed(mem')
    <3>1. /\ mem'.min < mem'.max /\ mem'.value \in mem'.min..mem'.max
          /\ (mem'.reserved => Wide(mem')) /\ Mild(mem')
      BY <1>3, <2>1, <2>2 DEF SameOptions, Placed, Wide, Mild
    <3> QED
      BY <2>2, <3>1, PlacedAt
  <2>5. Placed(s) /\ (mem.reserved => Wide(s))
    <3>1. /\ s.min < s.max /\ s.value \in s.min..s.max
          /\ (s.reserved => Wide(s)) /\ Mild(s) /\ (mem.reserved => Wide(s))
      BY <1>3, <2>1, <2>3 DEF SameOptions, Placed, Wide, Mild
    <3> QED
      BY <2>2, <3>1, PlacedAt
  <2>6. Placed(store')
    BY <1>3, <2>1, <2>2, <2>5, ReservePlaced DEF SetAhead
  <2> QED
    BY <1>2, <2>1, <2>2, <2>4, <2>6
<1>10. ASSUME NEW t \in Thread, Alter(t) PROVE PlacedInv'
  <2> DEFINE o == req[t].options
             r == req[t].restart
             j == Judged(store, o, r)
  <2>1. log' = log /\ mem # None /\ Widens(o, store)
    BY <1>10, Exists DEF Alter, OptionsInv, Begun
  <2>2. /\ o \in Options /\ r \in BOOLEAN /\ mem' \in MemoryType /\ SameOptions(mem', o)
        /\ mem'.value = IF r THEN Origin(o) ELSE mem.value
        /\ mem'.called = IF r THEN FALSE ELSE mem.called
        /\ mem'.reserved = (~o.ordered /\ Wide(o))
        /\ j \in ImageType /\ SameOptions(j, o)
        /\ j.value = IF r THEN Origin(o) ELSE store.value
        /\ j.called = IF r THEN FALSE ELSE store.called
        /\ j.reserved => Wide(o) \/ store.reserved
        /\ store' = SetAhead(j, r /\ mem'.reserved)
        /\ store' \in ImageType
        /\ buf' = [buf EXCEPT ![t] = store']
    BY <1>10, AlterEffect
  <2>3. /\ o.inc \in Int \ {0} /\ o.min \in Int /\ o.max \in Int /\ o.min < o.max /\ Mild(o)
    BY <2>2, SequenceAssumption DEF Mild, Gentle
  <2> HIDE DEF o, r, j
  <2>4. store.reserved => Wide(o)
    <3>1. /\ store.min \in Int /\ store.max \in Int /\ Reserve * MinGap \in Int
          /\ (store.reserved => store.max - store.min >= Reserve * MinGap)
          /\ o.min <= store.min /\ store.max <= o.max
      BY <1>3, <2>1, SequenceAssumption DEF ImageType, Placed, Wide, Widens
    <3> QED
      BY <2>3, <3>1 DEF Wide
  <2>5. ASSUME NEW s \in ImageType \cup MemoryType, Placed(s), SameOptions(s, store),
               NEW z \in ImageType \cup MemoryType, SameOptions(z, o), z.reserved => Wide(o),
               z.value = IF r THEN Origin(o) ELSE s.value, z.called = IF r THEN FALSE ELSE s.called
        PROVE  Placed(z)
    <3>1. z.min < z.max /\ (z.reserved => Wide(z)) /\ Mild(z)
      BY <2>3, <2>5 DEF SameOptions, Wide, Mild
    <3>2. CASE r
      <4>1. z.value \in z.min..z.max
        BY <2>3, <2>5, <3>2 DEF SameOptions, Origin
      <4> QED
        BY <3>1, <4>1, PlacedAt
    <3>3. CASE ~r
      <4>1. /\ s.inc \in Int \ {0} /\ s.min \in Int /\ s.max \in Int /\ s.value \in Int
            /\ z.value = s.value /\ z.called = s.called
            /\ o.min <= s.min /\ s.max <= o.max /\ (o.inc > 0 <=> s.inc > 0)
            /\ z.inc = o.inc /\ z.min = o.min /\ z.max = o.max
        BY <2>1, <2>5, <3>3 DEF ImageType, MemoryType, Widens, SameOptions, Ascending
      <4>2. /\ ~Before(z, z.value, Origin(z))
            /\ (~z.called => ~Before(z, Limit(z), z.value))
            /\ (Gentle => ~Before(z, Limit(z), z.value))
        BY <2>3, <2>5, <4>1 DEF Placed, Before, Limit, Origin, Ascending
      <4> QED
        BY <3>1, <4>2 DEF Placed, Mild
    <3> QED
      BY <2>2, <3>2, <3>3
  <2>6. Placed(mem')
    BY <1>3, <2>1, <2>2, <2>5
  <2>7. Placed(j)
    <3>1. SameOptions(store, store)
      BY DEF SameOptions
    <3> QED
      BY <1>3, <2>1, <2>2, <2>4, <2>5, <3>1
  <2>8. mem'.reserved => Wide(j)
    BY <2>2 DEF Wide, SameOptions
  <2>9. Placed(store')
    BY <2>2, <2>7, <2>8, ReservePlaced DEF SetAhead
  <2> QED
    BY <1>2, <2>1, <2>2, <2>6, <2>9
<1>11. ASSUME NEW t \in Thread, Insert(t) PROVE PlacedInv'
  <2>1. UNCHANGED <<mem, store, buf>> /\ log \in Seq(ImageType)
    BY <1>11 DEF Insert, Types
  <2>2. CASE buf[t] = None
    BY <1>11, <2>1, <2>2 DEF Insert, PlacedInv
  <2>3. CASE buf[t] # None
    <3>1. log' = Append(log, buf[t]) /\ buf[t] \in ImageType /\ Placed(buf[t])
      BY <1>11, <2>3 DEF Insert, Types, PlacedInv
    <3>2. \A n \in 1..Len(log') : log'[n] = IF n \in 1..Len(log) THEN log[n] ELSE buf[t]
      BY <2>1, <3>1
    <3> QED
      BY <2>1, <3>1, <3>2 DEF PlacedInv
  <2> QED
    BY <2>2, <2>3
<1>12. ASSUME NEW t \in Thread, GetNextFails(t) \/ Flush(t) \/ Reply(t) PROVE PlacedInv'
  BY <1>12 DEF GetNextFails, Flush, Reply, PlacedInv, Types
<1>13. ASSUME NEW n \in flushed..Len(log), Crash(n) PROVE PlacedInv'
  <2>1. n = 0 => store' = None /\ Len(log') = 0
    BY <1>13, CrashEffect
  <2>2. n # 0 => n \in 1..Len(log) /\ store' = log[n] /\ Len(log') = 1 /\ log'[1] = log[n]
    BY <1>13, CrashEffect DEF Types
  <2>3. mem' = None /\ \A t \in Thread : buf'[t] = None
    BY <1>13, CrashEffect
  <2> QED
    BY <2>1, <2>2, <2>3 DEF PlacedInv
<1> QED
  BY <1>1, <1>4, <1>5, <1>6, <1>7, <1>8, <1>9, <1>10, <1>11, <1>12, <1>13, Arrival DEF Next

(* No era runs ahead of the number of epochs. *)
LEMMA EpochStep ==
  ASSUME Types, FlowInv, PlacedInv, EpochInv, Types', FlowInv', [Next]_vars
  PROVE  EpochInv'
<1>1. CASE UNCHANGED vars
  BY <1>1 DEF EpochInv, vars, thread, history
\* The log and the other threads are as they were.
<1>2. ASSUME NEW t \in Thread, log' = log, given' = given, epochs' \in {epochs, epochs + 1},
             store' \in ImageType, store'.era.epoch <= epochs',
             mem' \in MemoryType, mem'.era.epoch <= epochs',
             buf' = buf \/ buf' = [buf EXCEPT ![t] = store'],
             \/ answer' = answer
             \/ \E A : answer' = [answer EXCEPT ![t] = A] /\ \A a \in A : a[1].epoch <= epochs'
      PROVE  EpochInv'
  <2>1. /\ log \in Seq(ImageType) /\ given \subseteq Era \X Int /\ epochs \in Nat
        /\ buf \in [Thread -> ImageType \cup {None}] /\ answer \in [Thread -> SUBSET (Era \X Int)]
    BY DEF Types
  <2>2. \A x \in ImageType : x.era.epoch \in Nat
    BY DEF ImageType
  <2>3. \A e \in Era : e.epoch \in Nat
    BY DEF Era
  <2>4. \A n \in 1..Len(log') : log'[n].era.epoch <= epochs'
    <3>1. \A n \in 1..Len(log) : log[n].era.epoch \in Nat /\ log[n].era.epoch <= epochs
      BY <2>1, <2>2 DEF EpochInv
    <3> QED
      BY <1>2, <2>1, <3>1
  <2>5. \A u \in Thread : buf'[u] # None => buf'[u].era.epoch <= epochs'
    <3>1. \A u \in Thread : buf[u] # None => buf[u].era.epoch \in Nat /\ buf[u].era.epoch <= epochs
      BY <2>1, <2>2 DEF EpochInv
    <3>2. \A u \in Thread : buf[u] # None => buf[u].era.epoch <= epochs'
      BY <1>2, <2>1, <3>1
    <3> QED
      BY <1>2, <2>1, <3>2
  <2>6. \A g \in given' : g[1].epoch <= epochs'
    <3>1. \A g \in given : g[1].epoch \in Nat /\ g[1].epoch <= epochs
      BY <2>1, <2>3 DEF EpochInv
    <3> QED
      BY <1>2, <2>1, <3>1
  <2>7. \A u \in Thread : \A a \in answer'[u] : a[1].epoch <= epochs'
    <3>1. \A u \in Thread : \A a \in answer[u] : a[1].epoch \in Nat /\ a[1].epoch <= epochs
      BY <2>1, <2>3 DEF EpochInv
    <3>2. \A u \in Thread : \A a \in answer[u] : a[1].epoch <= epochs'
      BY <1>2, <2>1, <3>1
    <3> QED
      BY <1>2, <2>1, <3>2
  <2> QED
    BY <1>2, <2>4, <2>5, <2>6, <2>7 DEF EpochInv
<1>3. /\ epochs \in Nat /\ (store # None => store \in ImageType /\ store.era.epoch <= epochs)
      /\ (mem # None => /\ mem \in MemoryType /\ mem.era.epoch <= epochs
                        /\ store \in ImageType /\ store.era.epoch <= epochs)
      /\ NewEra \in Era /\ NewEra.epoch = epochs + 1
  BY DEF Types, FlowInv, EpochInv, NewEra, Era
<1>4. ASSUME NEW t \in Thread, NEW r \in AnyRequest, Arrives(t, r) PROVE EpochInv'
  BY <1>4 DEF Arrives, Request, EpochInv, Types
<1>5. ASSUME NEW t \in Thread, Find(t) PROVE EpochInv'
  <2>1. UNCHANGED <<store, log, buf, given, answer, epochs>> /\ store # None
    BY <1>5, Exists DEF Find, history
  <2>2. mem' # None => mem'.era.epoch <= epochs
    <3>1. CASE mem # None
      BY <1>3, <1>5, <3>1 DEF Find
    <3>2. CASE mem = None
      BY <1>3, <1>5, <2>1, <3>2 DEF Find, InMemory
    <3> QED
      BY <3>1, <3>2
  <2> QED
    BY <2>1, <2>2 DEF EpochInv
<1>6. ASSUME NEW t \in Thread, Form(t) PROVE EpochInv'
  <2>1. mem # None /\ UNCHANGED <<log, given, answer, epochs>>
    BY <1>6, Exists DEF Form, history
  <2>2. mem' \in MemoryType /\ mem'.era = mem.era
    BY <1>6, FormEffect
  <2>3. store' \in ImageType /\ store'.era.epoch = store.era.epoch
    BY <1>3, <1>6, <2>1, FormEffect, ReserveOnce DEF Reserved
  <2>4. buf' = buf \/ buf' = [buf EXCEPT ![t] = store']
    BY <1>6, FormEffect
  <2> QED
    BY <1>2, <1>3, <2>1, <2>2, <2>3, <2>4
<1>7. ASSUME NEW t \in Thread, Open(t) PROVE EpochInv'
  <2> DEFINE o == req[t].options
             f == Fresh(o)
  <2>1. UNCHANGED <<log, given, answer>> /\ epochs' = epochs + 1
    BY <1>7 DEF Open
  <2>2. /\ f \in ImageType /\ mem' = InMemory(f, IF f.reserved THEN Reserve ELSE 0, TRUE)
        /\ mem' \in MemoryType
        /\ store' = IF f.reserved THEN ReservedAhead(f) ELSE f
        /\ store' \in ImageType
        /\ buf' = [buf EXCEPT ![t] = store']
    BY <1>7, OpenEffect
  <2>3. f.era = NewEra
    BY DEF Fresh
  <2> HIDE DEF f
  <2>4. mem'.era = NewEra /\ store'.era.epoch = NewEra.epoch
    BY <2>2, <2>3, ReserveOnce DEF InMemory, Reserved
  <2>5. mem'.era.epoch <= epochs' /\ store'.era.epoch <= epochs'
    BY <1>3, <2>1, <2>4
  <2> QED
    BY <1>2, <2>1, <2>2, <2>5
<1>8. ASSUME NEW t \in Thread, GetNext(t) PROVE EpochInv'
  <2> DEFINE n == req[t].n
             k == Marked(mem, store)
             A == {<<FirstEra(mem), First(mem) + i * mem.inc>> : i \in 0..(UsedCount(mem, n) - 1)}
  <2>1. UNCHANGED <<log, given, epochs>> /\ mem # None
    BY <1>8, Exists DEF GetNext, history
  <2>2. /\ n \in Nat \ {0} /\ Placed(mem) /\ Times(mem, n) \in Nat /\ mem' \in MemoryType
        /\ mem'.era = FirstEra(mem)
        /\ (~mem.called \/ Fits(mem, mem.value, mem.inc) \/ mem.cycle)
        /\ answer' = [answer EXCEPT ![t] = A]
        /\ k \in ImageType
        /\ mem.linked => store' = IF mem.reserved THEN Ahead(k, Times(mem, n))
                                  ELSE [k EXCEPT !.value = Last(mem, n), !.called = TRUE,
                                                 !.era = FirstEra(mem)]
        /\ ~mem.linked => store' = store
        /\ store' \in ImageType
        /\ buf' = buf \/ buf' = [buf EXCEPT ![t] = store']
    BY <1>8, GetNextEffect DEF PlacedInv
  <2>3. FirstEra(mem).epoch = mem.era.epoch
    BY <1>3, <2>1, <2>2, FirstValue
  <2>4. \A a \in A : a[1].epoch <= epochs'
    BY <1>3, <2>1, <2>3
  <2>5. k.era = store.era
    BY <1>3, <2>1 DEF Marked, ImageType
  <2> HIDE DEF n, k, A
  <2>6. store'.era.epoch <= epochs
    <3>1. CASE ~mem.linked
      BY <1>3, <2>1, <2>2, <3>1
    <3>2. CASE mem.linked /\ mem.reserved
      <4>1. store' = Ahead(k, Times(mem, n))
        BY <2>2, <3>2
      <4>2. store'.era.epoch = k.era.epoch
        BY <2>2, <4>1, ReserveTimes DEF Reserved
      <4> QED
        BY <1>3, <2>1, <2>5, <4>2
    <3>3. CASE mem.linked /\ ~mem.reserved
      <4>1. store' = [k EXCEPT !.value = Last(mem, n), !.called = TRUE, !.era = FirstEra(mem)]
        BY <2>2, <3>3
      <4>2. store'.era = FirstEra(mem)
        BY <2>2, <4>1 DEF ImageType
      <4> QED
        BY <1>3, <2>1, <2>3, <4>2
    <3> QED
      BY <3>1, <3>2, <3>3
  <2>7. mem'.era.epoch <= epochs' /\ store'.era.epoch <= epochs'
    BY <1>3, <2>1, <2>2, <2>3, <2>6
  <2> QED
    BY <1>2, <2>1, <2>2, <2>4, <2>7
<1>9. ASSUME NEW t \in Thread, SetVal(t) PROVE EpochInv'
  <2> DEFINE s == SetTo(store, req[t].value)
  <2>1. UNCHANGED <<log, given, answer>> /\ epochs' = epochs + 1 /\ mem # None
    BY <1>9, Exists DEF SetVal
  <2>2. /\ mem' \in MemoryType /\ mem'.era = NewEra /\ s \in ImageType
        /\ mem.linked => store' = SetAhead(s, mem.reserved)
        /\ ~mem.linked => store' = store
        /\ store' \in ImageType
        /\ buf' = buf \/ buf' = [buf EXCEPT ![t] = store']
    BY <1>9, SetValEffect
  <2>3. s.era = NewEra
    BY <1>3, <2>1 DEF SetTo, ImageType
  <2> HIDE DEF s
  <2>4. SetAhead(s, mem.reserved).era.epoch = NewEra.epoch
    BY <2>2, <2>3, ReserveOnce DEF SetAhead, Reserved
  <2>5. store'.era.epoch \in {store.era.epoch, NewEra.epoch} /\ store.era.epoch \in Nat
    BY <1>3, <2>1, <2>2, <2>4 DEF ImageType
  <2>6. mem'.era.epoch <= epochs' /\ store'.era.epoch <= epochs'
    BY <1>3, <2>1, <2>2, <2>5
  <2> QED
    BY <1>2, <2>1, <2>2, <2>6
<1>10. ASSUME NEW t \in Thread, Alter(t) PROVE EpochInv'
  <2> DEFINE r == req[t].restart
             j == Judged(store, req[t].options, r)
  <2>1. UNCHANGED <<log, given, answer>> /\ mem # None /\ epochs' = IF r THEN epochs + 1 ELSE epochs
    BY <1>10, Exists DEF Alter
  <2>2. /\ r \in BOOLEAN /\ mem' \in MemoryType /\ mem'.era = IF r THEN NewEra ELSE mem.era
        /\ j \in ImageType /\ j.era = IF r THEN NewEra ELSE store.era
        /\ store' = SetAhead(j, r /\ mem'.reserved)
        /\ store' \in ImageType
        /\ buf' = [buf EXCEPT ![t] = store']
    BY <1>10, AlterEffect
  <2> HIDE DEF r, j
  <2>3. store'.era.epoch = j.era.epoch
    BY <2>2, ReserveOnce DEF SetAhead, Reserved
  <2>4. mem'.era.epoch <= epochs' /\ store'.era.epoch <= epochs' /\ epochs' \in {epochs, epochs + 1}
    BY <1>3, <2>1, <2>2, <2>3
  <2> QED
    BY <1>2, <2>1, <2>2, <2>4
<1>11. ASSUME NEW t \in Thread, Insert(t) PROVE EpochInv'
  <2>1. UNCHANGED <<mem, store, buf, given, answer, epochs>> /\ log \in Seq(ImageType)
    BY <1>11 DEF Insert, Types, history
  <2>2. CASE buf[t] = None
    BY <1>11, <2>1, <2>2 DEF Insert, EpochInv
  <2>3. CASE buf[t] # None
    <3>1. log' = Append(log, buf[t]) /\ buf[t] \in ImageType /\ buf[t].era.epoch <= epochs
      BY <1>11, <2>3 DEF Insert, Types, EpochInv
    <3>2. \A n \in 1..Len(log') : log'[n] = IF n \in 1..Len(log) THEN log[n] ELSE buf[t]
      BY <2>1, <3>1
    <3> QED
      BY <2>1, <3>1, <3>2 DEF EpochInv
  <2> QED
    BY <2>2, <2>3
<1>12. ASSUME NEW t \in Thread, GetNextFails(t) \/ Flush(t) PROVE EpochInv'
  BY <1>12 DEF GetNextFails, Flush, EpochInv, Types, history
<1>13. ASSUME NEW t \in Thread, Reply(t) PROVE EpochInv'
  BY <1>13 DEF Reply, EpochInv, Types
<1>14. ASSUME NEW n \in flushed..Len(log), Crash(n) PROVE EpochInv'
  <2>1. n = 0 => store' = None /\ Len(log') = 0
    BY <1>14, CrashEffect
  <2>2. n # 0 => n \in 1..Len(log) /\ store' = log[n] /\ Len(log') = 1 /\ log'[1] = log[n]
    BY <1>14, CrashEffect DEF Types
  <2>3. mem' = None /\ \A t \in Thread : buf'[t] = None /\ answer'[t] = {}
    BY <1>14, CrashEffect
  <2>4. epochs' = epochs /\ given' = given
    BY <1>14 DEF Crash, history
  <2> QED
    BY <2>1, <2>2, <2>3, <2>4 DEF EpochInv
<1> QED
  BY <1>1, <1>4, <1>5, <1>6, <1>7, <1>8, <1>9, <1>10, <1>11, <1>12, <1>13, <1>14, Arrival DEF Next

----------------------------------------------------------------------------
(* An image that was just reserved is ahead of a memory at the place where it was. *)
LEMMA AheadCopy ==
  ASSUME NEW s \in ImageType, NEW m \in MemoryType, NEW n \in Nat, NEW r, Reserved(r, s, n),
         SameOptions(m, s), m.era = s.era, m.value = s.value, m.reserved => m.left = n * Reserve,
         ~Before(s, Limit(s), s.value)
  PROVE  AheadOf(r, m)
<1> DEFINE d == n * (s.inc * Reserve)
           x == (r.era.lap - s.era.lap) * Span(s)
           y == m.left * m.inc
<1>1. /\ s.inc \in Int \ {0} /\ s.min \in Int /\ s.max \in Int /\ s.value \in Int /\ Reserve \in Nat
      /\ s.era.lap \in Nat /\ s.era.epoch \in Nat /\ s.cycle \in BOOLEAN /\ m.left \in Nat
      /\ m.inc = s.inc /\ m.min = s.min /\ m.max = s.max /\ m.cycle = s.cycle
      /\ r.value \in Int /\ r.era.lap \in Nat
  BY SequenceAssumption DEF ImageType, MemoryType, Reserved, SameOptions
<1>2. d \in Int /\ (s.inc > 0 => d >= 0) /\ (s.inc < 0 => d <= 0)
  <2>1. n * Reserve \in Nat
    BY <1>1
  <2>2. d = (n * Reserve) * s.inc
    BY <1>1
  <2>3. /\ (s.inc >= 0 => 0 * s.inc <= (n * Reserve) * s.inc)
        /\ (s.inc <= 0 => (n * Reserve) * s.inc <= 0 * s.inc)
        /\ (n * Reserve) * s.inc \in Int
    BY <1>1, <2>1, Products
  <2> QED
    BY <1>1, <2>2, <2>3
<1>3. m.reserved => y = d
  BY <1>1
<1>4. Span(s) \in Int /\ Span(m) = Span(s) /\ x \in Int /\ (r.era.lap = s.era.lap => x = 0)
  BY <1>1 DEF Span, Limit, Origin, Ascending
<1>5. /\ r.era.epoch = s.era.epoch /\ s.era.lap <= r.era.lap /\ (n > 0 => r.called)
      /\ (~s.cycle => r.era.lap = s.era.lap /\ (r.value = s.value + d \/ r.value = Limit(s)))
      /\ (s.cycle => r.value + x = s.value + d)
  BY DEF Reserved
<1>6. y \in Int /\ (m.left > 0 /\ m.reserved => n > 0)
  BY <1>1
<1> HIDE DEF d, x, y
<1>7. ASSUME m.era.lap = r.era.lap PROVE ~Before(m, r.value, m.value)
  BY <1>1, <1>2, <1>4, <1>5, <1>7 DEF Before, Limit, Ascending
<1>8. ASSUME m.reserved, m.cycle PROVE ~Before(m, r.value + x, m.value + y)
  BY <1>1, <1>2, <1>3, <1>5, <1>8 DEF Before
<1>9. ASSUME m.reserved, ~m.cycle PROVE r.value = Limit(m) \/ ~Before(m, r.value, m.value + y)
  BY <1>1, <1>2, <1>3, <1>5, <1>9 DEF Before, Limit, Ascending
<1> QED
  BY <1>1, <1>4, <1>5, <1>6, <1>7, <1>8, <1>9 DEF AheadOf, x, y

(* No reservation leaves an image as it was. *)
LEMMA ReservedNot ==
  ASSUME NEW s \in ImageType
  PROVE  Reserved(s, s, 0)
<1>1. /\ s.inc \in Int \ {0} /\ s.min \in Int /\ s.max \in Int /\ s.value \in Int /\ Reserve \in Nat
      /\ s.era.lap \in Nat
  BY SequenceAssumption DEF ImageType
<1>2. s.inc * Reserve \in Int /\ Span(s) \in Int
  BY <1>1 DEF Span, Limit, Origin
<1>3. 0 * (s.inc * Reserve) = 0 /\ (s.era.lap - s.era.lap) * Span(s) = 0
  BY <1>1, <1>2
<1> QED
  BY <1>1, <1>3 DEF Reserved, SameOptions

(* How far a nextval takes the memory, with laps counted. *)
LEMMA NextMoves ==
  ASSUME NEW m \in MemoryType, Placed(m), NEW n \in Nat \ {0},
         ~m.called \/ Fits(m, m.value, m.inc) \/ m.cycle
  PROVE  LET moved == IF FirstEra(m) = m.era THEN Last(m, n) ELSE Last(m, n) + Span(m) IN
         /\ ~Before(m, m.value + UsedCount(m, n) * m.inc, moved)
         /\ FirstEra(m) # m.era => Before(m, Limit(m), m.value + m.inc)
<1> DEFINE used == UsedCount(m, n)
           u == used * m.inc
           w == (used - 1) * m.inc
<1>1. /\ m.inc \in Int \ {0} /\ m.min \in Int /\ m.max \in Int /\ m.value \in Int
      /\ m.era \in Era /\ m.called \in BOOLEAN
  BY DEF MemoryType, Era
<1>2. used \in Nat
  BY NextValues
<1>3. u \in Int /\ w \in Int /\ w = u - m.inc
  BY <1>1, <1>2
<1>4. Last(m, n) = First(m) + w
  BY DEF Last
<1> HIDE DEF used, u, w
<1>5. NextLap(m.era) # m.era
  BY <1>1 DEF NextLap, Era
<1>6. CASE ~m.called
  BY <1>1, <1>3, <1>4, <1>6 DEF First, FirstEra, Before, Ascending, u, used
<1>7. CASE m.called /\ Fits(m, m.value, m.inc)
  BY <1>1, <1>3, <1>4, <1>7 DEF First, FirstEra, Before, Ascending, u, used
<1>8. CASE m.called /\ ~Fits(m, m.value, m.inc)
  <2>1. First(m) = Origin(m) /\ FirstEra(m) # m.era /\ Before(m, Limit(m) - m.inc, m.value)
    BY <1>5, <1>8 DEF First, FirstEra, Fits
  <2>2. Last(m, n) + Span(m) = Limit(m) + u - m.inc
    BY <1>1, <1>3, <1>4, <2>1 DEF Span, Limit, Origin
  <2>3. Before(m, Limit(m), m.value + m.inc) /\ ~Before(m, m.value + u, Limit(m) + u - m.inc)
    BY <1>1, <1>3, <2>1 DEF Before, Limit, Ascending
  <2> QED
    BY <2>1, <2>2, <2>3 DEF u, used
<1> QED
  BY <1>1, <1>6, <1>7, <1>8

(* A nextval of a reserved sequence leaves the image ahead: its loop reserves until
   some values are left. *)
LEMMA AheadNext ==
  ASSUME Gentle, NEW s \in ImageType, NEW m \in MemoryType, NEW n \in Nat \ {0}, NEW k \in ImageType,
         NEW r \in ImageType, NEW e \in MemoryType,
         Placed(m), ~m.called \/ Fits(m, m.value, m.inc) \/ m.cycle, m.reserved,
         AheadOf(s, m), SameOptions(m, s),
         SameOptions(k, s), k.value = s.value, k.era = s.era, k.called = (s.called \/ ~m.called),
         Times(m, n) \in Nat, Reserved(r, k, Times(m, n)), Placed(r),
         SameOptions(e, m), e.value = Last(m, n), e.era = FirstEra(m), e.reserved,
         e.left = Taken(m, n) + Times(m, n) * Reserve
  PROVE  AheadOf(r, e) /\ r.called
<1> DEFINE used == UsedCount(m, n)
           T == Times(m, n)
           d == T * (k.inc * Reserve)        \* how far the image moves,
           u == used * m.inc                 \* and the memory
           y == m.left * m.inc
           z == e.left * e.inc
           a == s.era.lap - m.era.lap
           b == r.era.lap - k.era.lap
           c == r.era.lap - e.era.lap
           span == Span(m)
           moved == IF FirstEra(m) = m.era THEN Last(m, n) ELSE Last(m, n) + span
<1>1. /\ m.inc \in Int \ {0} /\ m.min \in Int /\ m.max \in Int /\ m.value \in Int /\ Reserve \in Nat
      /\ m.era.lap \in Nat /\ m.era.epoch \in Nat /\ m.cycle \in BOOLEAN /\ m.left \in Nat
      /\ m.called \in BOOLEAN /\ s.called \in BOOLEAN
      /\ r.value \in Int /\ r.era.lap \in Nat /\ s.value \in Int /\ s.era.lap \in Nat /\ s.era.epoch \in Nat
      /\ e.value \in Int /\ e.era.lap \in Nat /\ e.left \in Nat
  BY SequenceAssumption DEF ImageType, MemoryType
<1>2. /\ s.inc = m.inc /\ k.inc = m.inc /\ e.inc = m.inc /\ e.cycle = m.cycle /\ k.cycle = m.cycle
      /\ Limit(k) = Limit(m) /\ Limit(e) = Limit(m) /\ Limit(r) = Limit(m)
      /\ Span(k) = span /\ Span(e) = span /\ r.inc = m.inc
  BY DEF SameOptions, Limit, Origin, Span, Ascending, Reserved
<1>3. used \in Nat \ {0} /\ T \in Nat /\ Last(m, n) \in m.min..m.max
  BY NextValues
<1>4. e.left > 0
  <2>1. Taken(m, n) \in Int /\ T = Rounds(Taken(m, n))
    BY <1>1, <1>3 DEF Taken, Times
  <2> QED
    BY <2>1, RoundsEnough
<1>5. /\ d \in Int /\ u \in Int /\ y \in Int /\ z \in Int /\ z = y - u + d
      /\ (m.inc > 0 => d >= 0 /\ u >= m.inc /\ z >= m.inc)
      /\ (m.inc < 0 => d <= 0 /\ u <= m.inc /\ z <= m.inc)
  <2>1. /\ u \in Int /\ (m.inc >= 0 => 1 * m.inc <= u) /\ (m.inc <= 0 => u <= 1 * m.inc)
    BY <1>1, <1>3, Products
  <2>2. /\ z \in Int /\ (m.inc >= 0 => 1 * m.inc <= z) /\ (m.inc <= 0 => z <= 1 * m.inc)
    BY <1>1, <1>2, <1>4, Products
  <2>3. T * Reserve \in Nat /\ d = (T * Reserve) * m.inc
    BY <1>1, <1>2, <1>3
  <2>4. /\ d \in Int /\ (m.inc >= 0 => 0 * m.inc <= d) /\ (m.inc <= 0 => d <= 0 * m.inc)
    BY <1>1, <2>3, Products
  <2>5. y \in Int
    BY <1>1
  <2>6. e.left = m.left - used + T * Reserve
    BY DEF Taken
  <2>7. z = (m.left - used + T * Reserve) * m.inc
    BY <1>2, <2>6
  <2>8. z = y - u + d
    BY <1>1, <1>3, <2>3, <2>7
  <2> QED
    BY <1>1, <2>1, <2>2, <2>4, <2>5, <2>8
<1>6. /\ a \in Nat /\ b \in Nat /\ c \in Int /\ span \in Int
      /\ m.era.epoch = s.era.epoch /\ r.era.epoch = s.era.epoch
      /\ e.era.epoch = m.era.epoch
      /\ (e.era = m.era /\ c = a + b) \/ (e.era # m.era /\ c = a + b - 1 /\ m.cycle)
  <2>1. a \in Nat /\ b \in Nat /\ c \in Int /\ m.era.epoch = s.era.epoch /\ r.era.epoch = s.era.epoch
    BY <1>1 DEF AheadOf, Reserved
  <2>2. span \in Int
    BY <1>1 DEF Span, Limit, Origin
  <2>3. /\ e.era.epoch = m.era.epoch /\ (e.era = m.era \/ e.era.lap = m.era.lap + 1)
        /\ (e.era # m.era => m.cycle)
    BY FirstValue DEF FirstEra
  <2>4. k.era.lap = s.era.lap /\ (e.era = m.era => e.era.lap = m.era.lap)
    OBVIOUS
  <2>5. /\ e.era.lap = m.era.lap => c = a + b
        /\ e.era.lap = m.era.lap + 1 => c = a + b - 1
    BY <1>1, <2>4
  <2> QED
    BY <2>1, <2>2, <2>3, <2>4, <2>5
<1>7. /\ a * span \in Int /\ b * span \in Int /\ c * span \in Int
      /\ e.era = m.era => c * span = a * span + b * span
      /\ e.era # m.era => c * span = a * span + b * span - span
      /\ (a = 0 => a * span = 0) /\ (b = 0 => b * span = 0) /\ (c = 0 => c * span = 0)
  BY <1>6
<1>8. /\ moved \in Int /\ ~Before(m, m.value + u, moved)
      /\ e.era = m.era => moved = e.value
      /\ e.era # m.era => moved = e.value + span /\ Before(m, Limit(m), m.value + m.inc)
  BY <1>1, <1>3, <1>6, NextMoves
<1>9. /\ m.left > 0 => s.called
      /\ m.cycle => ~Before(m, s.value + a * span, m.value + y)
      /\ ~m.cycle /\ a = 0 => s.value = Limit(m) \/ ~Before(m, s.value, m.value + y)
  <2>1. /\ m.left > 0 => s.called
        /\ m.cycle => ~Before(m, s.value + a * span, m.value + y)
        /\ ~m.cycle /\ m.era.lap = s.era.lap =>
             s.value = Limit(m) \/ ~Before(m, s.value, m.value + y)
    BY DEF AheadOf
  <2>2. a = 0 => m.era.lap = s.era.lap
    BY <1>1
  <2> QED
    BY <2>1, <2>2
<1>10. /\ T > 0 => r.called
       /\ T = 0 => r = k
       /\ ~m.cycle => b = 0 /\ (r.value = s.value + d \/ r.value = Limit(m))
       /\ m.cycle => r.value + b * span = s.value + d
  BY <1>1, <1>2 DEF Reserved
<1>11. ~Before(m, Limit(m), r.value) /\ ~Before(m, Limit(m), e.value)
  <2>1. ~Before(m, Limit(m), r.value)
    BY <1>2 DEF Placed, Before, Ascending
  <2>2. ~Before(m, Limit(m), e.value)
    BY <1>1, <1>3 DEF Before, Limit, Ascending
  <2> QED
    BY <2>1, <2>2
<1>12. r.called
  <2>1. T = 0 => m.left > 0
    <3>1. e.left = m.left - used + T * Reserve
      BY DEF Taken
    <3> QED
      BY <1>1, <1>3, <1>4, <3>1
  <2> QED
    <3>1. CASE T = 0
      <4>1. s.called
        BY <1>9, <2>1, <3>1
      <4>2. k.called
        BY <4>1
      <4> QED
        BY <1>10, <3>1, <4>2
    <3>2. CASE T > 0
      BY <1>10, <3>2
    <3> QED
      BY <1>3, <3>1, <3>2
<1>13. Limit(m) \in Int
  BY <1>1 DEF Limit
<1> DEFINE A == a * span
           B == b * span
           C == c * span
           l == Limit(m)
<1>14. /\ A \in Int /\ B \in Int /\ C \in Int /\ l \in Int
       /\ (e.era = m.era => C = A + B) /\ (e.era # m.era => C = A + B - span)
       /\ (a = 0 => A = 0) /\ (b = 0 => B = 0) /\ (c = 0 => C = 0)
       /\ (m.cycle => ~Before(m, s.value + A, m.value + y))
       /\ (m.cycle => r.value + B = s.value + d)
  BY <1>7, <1>9, <1>10, <1>13
<1> HIDE DEF used, T, d, u, y, z, a, b, c, span, moved, A, B, C, l
<1>15. ASSUME m.cycle PROVE ~Before(m, r.value + C, e.value + z)
  <2>1. CASE e.era = m.era
    BY <1>1, <1>5, <1>6, <1>8, <1>14, <1>15, <2>1 DEF Before
  <2>2. CASE e.era # m.era
    BY <1>1, <1>5, <1>6, <1>8, <1>14, <1>15, <2>2 DEF Before
  <2> QED
    BY <2>1, <2>2
<1>16. c >= 0
  <2>1. CASE e.era = m.era
    BY <1>6, <2>1
  <2>2. CASE e.era # m.era
    <3> SUFFICES ASSUME a = 0, b = 0 PROVE FALSE
      BY <1>6, <2>2
    <3>1. C = -span /\ m.cycle
      BY <1>6, <1>14, <2>2
    <3>2. ~Before(m, r.value - span, e.value + z)
      BY <1>1, <1>6, <1>15, <3>1
    <3>3. A = 0 /\ B = 0 /\ r.value = s.value + d /\ ~Before(m, s.value, m.value + y)
      BY <1>1, <1>14, <3>1
    <3>4. Before(m, l, m.value + m.inc) /\ ~Before(m, l, r.value)
      BY <1>8, <1>11, <2>2 DEF l
    <3> QED
      BY <1>1, <1>5, <1>14, <3>3, <3>4 DEF Before, Ascending
  <2> QED
    BY <2>1, <2>2
<1>17. ASSUME ~m.cycle, c = 0 PROVE r.value = l \/ ~Before(m, r.value, e.value + z)
  <2>1. e.era = m.era /\ a = 0 /\ b = 0
    BY <1>6, <1>17
  <2>2. s.value = l \/ ~Before(m, s.value, m.value + y)
    BY <1>9, <1>17, <2>1 DEF l
  <2>3. r.value = s.value + d \/ r.value = l
    BY <1>10, <1>17 DEF l
  <2>4. ~Before(m, l, r.value) /\ ~Before(m, m.value + u, e.value)
    BY <1>8, <1>11, <2>1 DEF l
  <2> QED
    BY <1>1, <1>5, <1>14, <2>2, <2>3, <2>4 DEF Before, Ascending
<1>18. ASSUME c = 0 PROVE ~Before(m, r.value, e.value)
  <2>1. CASE m.cycle
    <3>1. ~Before(m, r.value, e.value + z)
      BY <1>1, <1>14, <1>15, <1>18, <2>1
    <3> QED
      BY <1>1, <1>5, <3>1 DEF Before, Ascending
  <2>2. CASE ~m.cycle
    <3>1. r.value = l \/ ~Before(m, r.value, e.value + z)
      BY <1>17, <1>18, <2>2
    <3>2. ~Before(m, l, e.value)
      BY <1>11 DEF l
    <3> QED
      BY <1>1, <1>5, <1>14, <3>1, <3>2 DEF Before, Ascending
  <2> QED
    BY <2>1, <2>2
<1>19. \A v, w : Before(e, v, w) = Before(m, v, w)
  BY <1>2 DEF Before, Ascending
<1>20. /\ e.era.epoch = r.era.epoch /\ e.era.lap <= r.era.lap
       /\ (e.era.lap = r.era.lap => c = 0)
  BY <1>1, <1>6, <1>16 DEF c
<1> QED
  BY <1>2, <1>12, <1>15, <1>17, <1>18, <1>19, <1>20 DEF AheadOf, C, c, z, span, l

----------------------------------------------------------------------------
(* What is regular after a step was so before it. *)
LEMMA RegularStep ==
  ASSUME Types, [Next]_vars
  PROVE  /\ Regular' => Regular
         /\ Safe' => Safe
         /\ ~overlapped' => ~overlapped
<1> DEFINE Goal == /\ overlapped' \in BOOLEAN /\ (~overlapped' => ~overlapped)
                   /\ crashes' = crashes \/ crashes' = crashes + 1
<1>0. crashes \in Nat /\ overlapped \in BOOLEAN
  BY DEF Types
<1>1. ASSUME UNCHANGED vars PROVE Goal
  BY <1>0, <1>1 DEF vars, history
<1>2. ASSUME NEW t \in Thread, NEW r \in AnyRequest, Arrives(t, r) PROVE Goal
  BY <1>0, <1>2 DEF Arrives, Request
<1>3. ASSUME NEW t \in Thread,
             \/ Find(t) \/ Form(t) \/ GetNextFails(t) \/ Insert(t) \/ Flush(t) \/ Reply(t)
             \/ Open(t) \/ GetNext(t) \/ SetVal(t) \/ Alter(t)
      PROVE  Goal
  <2>1. UNCHANGED <<overlapped, crashes>>
    <3>1. CASE Find(t) \/ Form(t) \/ GetNextFails(t) \/ Insert(t) \/ Flush(t) \/ Reply(t)
      BY <3>1 DEF Find, Form, GetNextFails, Insert, Flush, Reply, history
    <3>2. CASE Open(t)
      BY <3>2 DEF Open
    <3>3. CASE GetNext(t)
      BY <3>3 DEF GetNext, history
    <3>4. CASE SetVal(t)
      BY <3>4 DEF SetVal
    <3>5. CASE Alter(t)
      BY <3>5 DEF Alter
    <3> QED
      BY <1>3, <3>1, <3>2, <3>3, <3>4, <3>5
  <2> QED
    BY <1>0, <2>1
<1>4. ASSUME NEW n \in flushed..Len(log), Crash(n) PROVE Goal
  BY <1>0, <1>4 DEF Crash, history
<1>5. Goal
  BY <1>1, <1>2, <1>3, <1>4, Arrival DEF Next
<1>6. Regular' => Regular
  BY <1>0, <1>5 DEF Regular
<1> QED
  BY <1>0, <1>5, <1>6 DEF Safe

(* In a regular state no thread works on a sequence without its handle. *)
LEMMA Linked ==
  ASSUME Types, FlowInv, AheadInv, Gentle, Regular, NEW t \in Thread, pc[t] \notin {"idle", "form"},
         mem # None
  PROVE  mem.linked
<1> SUFFICES ASSUME ~mem.linked PROVE FALSE
  OBVIOUS
<1>1. PICK u \in Thread : pc[u] = "form"
  BY DEF FlowInv
<1>2. crashes # 0
  BY <1>1 DEF AheadInv
<1>3. ~overlapped
  BY <1>2 DEF Regular
<1> QED
  BY <1>1, <1>3 DEF FlowInv, Apart

(* GTM_SeqGetNext in a regular state. *)
LEMMA GetNextAhead ==
  ASSUME Types, FlowInv, PlacedInv, OptionsInv, AheadInv, PlacedInv', Gentle, Regular,
         NEW t \in Thread, GetNext(t)
  PROVE  mem.linked /\ AheadOf(store', mem') /\ store'.called
<1> DEFINE n == req[t].n
           k == Marked(mem, store)
<1>1. mem # None /\ mem.linked
  <2>1. mem # None /\ pc[t] = "run"
    BY Exists, Worked DEF GetNext
  <2> QED
    BY <2>1, Linked
<1>2. /\ n \in Nat \ {0} /\ mem \in MemoryType /\ Placed(mem) /\ store \in ImageType
      /\ Times(mem, n) \in Nat /\ mem' \in MemoryType
      /\ SameOptions(mem', mem) /\ mem'.value = Last(mem, n) /\ mem'.reserved = mem.reserved
      /\ mem'.called /\ mem'.era = FirstEra(mem)
      /\ mem'.left = IF mem.reserved THEN Taken(mem, n) + Times(mem, n) * Reserve ELSE mem.left
      /\ (~mem.called \/ Fits(mem, mem.value, mem.inc) \/ mem.cycle)
      /\ k \in ImageType
      /\ mem.linked => store' = IF mem.reserved THEN Ahead(k, Times(mem, n))
                                ELSE [k EXCEPT !.value = Last(mem, n), !.called = TRUE,
                                               !.era = FirstEra(mem)]
      /\ store' \in ImageType
  BY GetNextEffect DEF PlacedInv
<1>3. /\ SameOptions(k, store) /\ k.value = store.value /\ k.era = store.era
      /\ k.called = (store.called \/ ~mem.called)
  BY <1>2 DEF Marked, ImageType, SameOptions
<1>4. SameOptions(mem, store) /\ AheadOf(store, mem)
  BY <1>1 DEF OptionsInv, AheadInv
<1>5. Placed(store')
  BY <1>2, NoneElse DEF PlacedInv
<1> HIDE DEF n, k
<1>6. CASE mem.reserved
  <2>1. Reserved(store', k, Times(mem, n))
    BY <1>1, <1>2, <1>6, ReserveTimes
  <2> QED
    BY <1>1, <1>2, <1>3, <1>4, <1>5, <1>6, <2>1, AheadNext
<1>7. CASE ~mem.reserved
  <2>1. store'.value = Last(mem, n) /\ store'.called /\ store'.era = FirstEra(mem)
    BY <1>1, <1>2, <1>7 DEF ImageType
  <2>2. FirstEra(mem).lap \in Nat /\ Last(mem, n) \in Int
    BY <1>2, <2>1 DEF ImageType
  <2> QED
    BY <1>1, <1>2, <1>7, <2>1, <2>2 DEF AheadOf, Before
<1> QED
  BY <1>2, <1>6, <1>7

(* The image stays ahead of the memory. *)
LEMMA AheadStep ==
  ASSUME Types, FlowInv, PlacedInv, OptionsInv, AheadInv,
         Types', FlowInv', PlacedInv', [Next]_vars
  PROVE  AheadInv'
<1> DEFINE Goal == /\ crashes' = 0 => /\ mem' = None => store' = None
                                      /\ \A t \in Thread : pc'[t] # "form"
                   /\ mem' # None /\ ~mem'.linked => mem' = InMemory(store', 0, FALSE)
                   /\ mem' # None /\ mem'.linked => AheadOf(store', mem')
<1> SUFFICES ASSUME Gentle, Regular' PROVE Goal
  BY DEF AheadInv, Regular, AheadOf, InMemory, Before, Span, Limit, Origin, Ascending
<1>1. /\ Regular
      /\ crashes = 0 => (mem = None => store = None) /\ \A t \in Thread : pc[t] # "form"
      /\ mem # None /\ ~mem.linked => mem = InMemory(store, 0, FALSE)
      /\ mem # None /\ mem.linked => AheadOf(store, mem)
  BY RegularStep DEF AheadInv
<1>2. CASE UNCHANGED vars
  BY <1>1, <1>2 DEF vars, thread
<1>3. ASSUME NEW t \in Thread,
             \/ \E r \in AnyRequest : Arrives(t, r)
             \/ GetNextFails(t) \/ Insert(t) \/ Flush(t) \/ Reply(t)
      PROVE  Goal
  <2>1. UNCHANGED <<mem, store, crashes>> /\ \A u \in Thread : pc'[u] = "form" => pc[u] = "form"
    BY <1>3 DEF Arrives, Request, GetNextFails, Insert, Flush, Reply, Types
  <2> QED
    BY <1>1, <2>1
<1>4. ASSUME NEW t \in Thread, Find(t) PROVE Goal
  <2>1. store' = store /\ store # None /\ crashes' = crashes
    BY <1>4, Exists DEF Find
  <2>2. CASE mem # None
    <3>1. mem' = mem /\ pc' = [pc EXCEPT ![t] = "run"]
      BY <1>4, <2>2 DEF Find
    <3> QED
      BY <1>1, <2>1, <3>1 DEF Types
  <2>3. CASE mem = None
    <3>1. mem' = InMemory(store, 0, FALSE) /\ crashes # 0
      BY <1>1, <1>4, <2>1, <2>3 DEF Find
    <3>2. ~mem'.linked
      BY <3>1 DEF InMemory
    <3> QED
      BY <2>1, <3>1, <3>2
  <2> QED
    BY <2>2, <2>3
<1>5. ASSUME NEW t \in Thread, Form(t) PROVE Goal
  <2>1. pc[t] = "form" /\ mem # None /\ ~mem.linked /\ store # None
    BY <1>5, Exists DEF Form, FlowInv, FlowOf
  <2>2. mem = InMemory(store, 0, FALSE) /\ crashes # 0 /\ crashes' = crashes
    BY <1>1, <1>5, <2>1 DEF Form
  <2>3. /\ store \in ImageType /\ mem' \in MemoryType /\ SameOptions(mem', mem)
        /\ mem'.value = mem.value /\ mem'.era = mem.era /\ mem'.reserved = mem.reserved
        /\ mem'.linked /\ mem'.left = IF mem.reserved THEN Reserve ELSE mem.left
        /\ mem.reserved => store' = ReservedAhead(store)
        /\ ~mem.reserved => store' = store
    BY <1>5, FormEffect
  <2>4. SameOptions(mem', store) /\ mem'.value = store.value /\ mem'.era = store.era
    BY <2>2, <2>3 DEF SameOptions, InMemory
  <2>5. ~Before(store, Limit(store), store.value)
    BY <2>1 DEF PlacedInv, Placed
  <2>6. AheadOf(store', mem')
    <3>1. CASE mem.reserved
      <4>1. Reserved(store', store, 1) /\ mem'.left = 1 * Reserve
        BY <2>3, <3>1, ReserveOnce, SequenceAssumption
      <4> QED
        BY <2>3, <2>4, <2>5, <4>1, AheadCopy
    <3>2. CASE ~mem.reserved
      <4>1. Reserved(store', store, 0) /\ ~mem'.reserved
        BY <2>3, <3>2, ReservedNot
      <4> QED
        BY <2>3, <2>4, <2>5, <4>1, AheadCopy
    <3> QED
      BY <3>1, <3>2
  <2> QED
    BY <2>2, <2>3, <2>6
<1>6. ASSUME NEW t \in Thread, Open(t) PROVE Goal
  <2> DEFINE f == Fresh(req[t].options)
  <2>1. /\ f \in ImageType /\ mem' = InMemory(f, IF f.reserved THEN Reserve ELSE 0, TRUE)
        /\ mem' \in MemoryType /\ store' \in ImageType
        /\ store' = IF f.reserved THEN ReservedAhead(f) ELSE f
        /\ req[t].options \in Options
    BY <1>6, OpenEffect
  <2>2. f.value = Origin(f) /\ f.min \in Int /\ f.max \in Int /\ f.min < f.max
    BY <2>1, SequenceAssumption DEF Fresh, Origin, Ascending
  <2> HIDE DEF f
  <2>3. /\ SameOptions(mem', f) /\ mem'.value = f.value /\ mem'.era = f.era /\ mem'.linked
        /\ mem'.reserved = f.reserved /\ (mem'.reserved => mem'.left = Reserve)
    BY <2>1 DEF InMemory, SameOptions
  <2>4. ~Before(f, Limit(f), f.value)
    BY <2>2 DEF Before, Limit, Origin
  <2>5. AheadOf(store', mem')
    <3>1. CASE f.reserved
      <4>1. Reserved(store', f, 1) /\ mem'.left = 1 * Reserve
        <5>1. store' = ReservedAhead(f) /\ mem'.left = Reserve
          BY <2>1, <2>3, <3>1
        <5> QED
          <6>1. Reserved(ReservedAhead(f), f, 1)
            BY <2>1, ReserveOnce
          <6>2. Reserve = 1 * Reserve
            BY SequenceAssumption
          <6> QED
            BY <5>1, <6>1, <6>2
      <4> QED
        BY <2>1, <2>3, <2>4, <4>1, AheadCopy
    <3>2. CASE ~f.reserved
      <4>1. Reserved(store', f, 0) /\ ~mem'.reserved
        BY <2>1, <2>3, <3>2, ReservedNot
      <4> QED
        BY <2>1, <2>3, <2>4, <4>1, AheadCopy
    <3> QED
      BY <3>1, <3>2
  <2>6. crashes' = crashes /\ pc' = [pc EXCEPT ![t] = "insert"]
    BY <1>6, Worked DEF Open
  <2> QED
    BY <1>1, <2>1, <2>3, <2>5, <2>6, NoneElse DEF Types
<1>7. ASSUME NEW t \in Thread, GetNext(t) PROVE Goal
  <2>1. mem.linked /\ AheadOf(store', mem')
    BY <1>1, <1>7, GetNextAhead
  <2>2. mem' \in MemoryType /\ mem'.linked = mem.linked
    BY <1>7, GetNextEffect DEF PlacedInv
  <2>3. crashes' = crashes /\ pc' = [pc EXCEPT ![t] = "insert"]
    BY <1>7, Worked DEF GetNext
  <2> QED
    BY <1>1, <2>1, <2>2, <2>3, NoneElse DEF Types
<1>8. ASSUME NEW t \in Thread, SetVal(t) PROVE Goal
  <2> DEFINE v == req[t].value
             s == SetTo(store, v)
  <2>1. mem # None /\ pc[t] = "run" /\ v \in store.min..store.max
    BY <1>8, Exists DEF SetVal, OptionsInv, Begun
  <2>2. mem.linked
    BY <1>1, <2>1, Linked
  <2>3. /\ store \in ImageType /\ mem' \in MemoryType /\ SameOptions(mem', mem) /\ mem'.value = v
        /\ mem'.era = NewEra /\ mem'.reserved = mem.reserved /\ mem'.linked = mem.linked
        /\ mem'.left = IF mem.reserved THEN Reserve ELSE mem.left
        /\ s \in ImageType
        /\ store' = SetAhead(s, mem.reserved)
    BY <1>8, <2>2, SetValEffect
  <2>4. SameOptions(s, store) /\ s.value = v /\ s.era = NewEra
    BY <2>3 DEF SetTo, ImageType, SameOptions
  <2>5. SameOptions(mem, store)
    BY <2>1 DEF OptionsInv
  <2> HIDE DEF s, v
  <2>6. SameOptions(mem', s)
    BY <2>3, <2>4, <2>5 DEF SameOptions
  <2>7. ~Before(s, Limit(s), s.value)
    BY <2>1, <2>3, <2>4 DEF Before, Limit, SameOptions, ImageType
  <2>8. AheadOf(store', mem')
    <3>1. CASE mem.reserved
      <4>1. Reserved(store', s, 1) /\ mem'.left = 1 * Reserve
        BY <2>3, <3>1, ReserveOnce, SequenceAssumption DEF SetAhead
      <4> QED
        BY <2>3, <2>4, <2>6, <2>7, <4>1, AheadCopy
    <3>2. CASE ~mem.reserved
      <4>1. Reserved(store', s, 0) /\ ~mem'.reserved
        BY <2>3, <3>2, ReservedNot DEF SetAhead
      <4> QED
        BY <2>3, <2>4, <2>6, <2>7, <4>1, AheadCopy
    <3> QED
      BY <3>1, <3>2
  <2>9. crashes' = crashes /\ pc' = [pc EXCEPT ![t] = "insert"]
    BY <1>8, Worked DEF SetVal
  <2> QED
    BY <1>1, <2>2, <2>3, <2>8, <2>9, NoneElse DEF Types
<1>9. ASSUME NEW t \in Thread, Alter(t) PROVE Goal
  <2> DEFINE o == req[t].options
             r == req[t].restart
             j == Judged(store, o, r)
  <2>1. mem # None /\ pc[t] = "run" /\ Widens(o, store)
    BY <1>9, Exists DEF Alter, OptionsInv, Begun
  <2>2. /\ o \in Options /\ r \in BOOLEAN /\ mem \in MemoryType /\ store \in ImageType
        /\ mem.linked /\ mem' \in MemoryType /\ SameOptions(mem', o) /\ mem'.linked
        /\ mem'.value = IF r THEN Origin(o) ELSE mem.value
        /\ mem'.era = IF r THEN NewEra ELSE mem.era
        /\ mem'.left = IF mem'.reserved THEN (IF r THEN Reserve ELSE 0) ELSE mem.left
        /\ j \in ImageType /\ SameOptions(j, o)
        /\ j.value = IF r THEN Origin(o) ELSE store.value
        /\ j.era = IF r THEN NewEra ELSE store.era
        /\ store' = SetAhead(j, r /\ mem'.reserved)
        /\ store' \in ImageType
    BY <1>9, AlterEffect
  <2>3. SameOptions(mem', j)
    BY <2>2 DEF SameOptions
  <2>4. o.min \in Int /\ o.max \in Int /\ o.min < o.max /\ o.inc \in Int \ {0}
    BY <2>2, SequenceAssumption
  <2> HIDE DEF o, r, j
  <2>5. AheadOf(store', mem')
    <3>1. CASE r
      <4>1. ~Before(j, Limit(j), j.value)
        BY <2>2, <2>4, <3>1 DEF Before, Limit, Origin, Ascending, SameOptions
      <4>2. mem'.value = j.value /\ mem'.era = j.era
        BY <2>2, <3>1
      <4>3. CASE mem'.reserved
        <5>1. Reserved(store', j, 1) /\ mem'.left = 1 * Reserve
          BY <2>2, <3>1, <4>3, ReserveOnce, SequenceAssumption DEF SetAhead
        <5> QED
          BY <2>2, <2>3, <4>1, <4>2, <5>1, AheadCopy
      <4>4. CASE ~mem'.reserved
        <5>1. Reserved(store', j, 0)
          BY <2>2, <4>4, ReservedNot DEF SetAhead
        <5> QED
          BY <2>2, <2>3, <4>1, <4>2, <4>4, <5>1, AheadCopy
      <4> QED
        BY <4>3, <4>4
    <3>2. CASE ~r
      <4>1. /\ store' = j /\ store'.value = store.value /\ store'.era = store.era
            /\ mem'.value = mem.value /\ mem'.era = mem.era
            /\ mem'.reserved => mem'.left = 0
        BY <2>2, <3>2 DEF SetAhead
      <4>2. AheadOf(store, mem) /\ SameOptions(mem, store)
        BY <1>1, <2>1, <2>2 DEF OptionsInv
      <4>3. \A v, w : Before(mem', v, w) = Before(mem, v, w)
        BY <2>1, <2>2, <4>2 DEF Before, Ascending, Widens, SameOptions
      <4> DEFINE a == store'.era.lap - mem'.era.lap
                 span == Span(mem')
                 A == a * span
      <4>4. /\ mem'.era.epoch = store'.era.epoch /\ a \in Nat
            /\ (a = 0 => ~Before(mem', store'.value, mem'.value))
        BY <2>2, <4>1, <4>2, <4>3 DEF AheadOf, ImageType, MemoryType
      <4>5. /\ mem'.inc \in Int \ {0} /\ mem'.min \in Int /\ mem'.max \in Int /\ mem'.value \in Int
            /\ store'.value \in Int /\ mem'.era.lap \in Nat /\ store'.era.lap \in Nat
            /\ mem'.min < mem'.max
        BY <2>2, <2>4 DEF ImageType, MemoryType, SameOptions
      <4>6. ~Before(mem', Limit(mem'), mem'.value) /\ ~Before(mem', store'.value, Origin(mem'))
        <5>1. Placed(mem') /\ Placed(store')
          BY <2>2, NoneElse DEF PlacedInv
        <5>2. SameOptions(mem', store')
          BY <2>3, <4>1
        <5> QED
          BY <5>1, <5>2 DEF Placed, Before, Origin, Limit, Ascending, SameOptions
      <4>7. ~Before(mem', store'.value + A, mem'.value)
        <5>1. CASE a = 0
          <6>1. A = 0
            BY <4>5, <5>1 DEF Span, Limit, Origin
          <6> QED
            BY <4>4, <4>5, <5>1, <6>1
        <5>2. CASE a >= 1
          <6>1. span \in Int
            BY <4>5 DEF Span, Limit, Origin
          <6>2. /\ A \in Int /\ (span >= 0 => 1 * span <= A) /\ (span <= 0 => A <= 1 * span)
            BY <4>4, <5>2, <6>1, Products
          <6> HIDE DEF a, A
          <6> QED
            BY <4>5, <4>6, <6>1, <6>2 DEF Before, Span, Limit, Origin, Ascending
        <5> QED
          BY <4>4, <5>1, <5>2
      <4>8. mem'.reserved => mem'.left * mem'.inc = 0 /\ ~(mem'.left > 0)
        BY <4>1, <4>5
      <4>9. mem'.value + 0 = mem'.value
        BY <4>5
      <4>10. /\ mem'.era.lap <= store'.era.lap
             /\ (mem'.era.lap = store'.era.lap => ~Before(mem', store'.value, mem'.value))
        BY <4>4, <4>5
      <4> HIDE DEF span
      <4>11. mem'.reserved /\ mem'.cycle => ~Before(mem', store'.value + A, mem'.value + mem'.left * mem'.inc)
        BY <4>7, <4>8, <4>9
      <4>12. mem'.reserved /\ mem'.era.lap = store'.era.lap =>
               ~Before(mem', store'.value, mem'.value + mem'.left * mem'.inc)
        BY <4>8, <4>9, <4>10
      <4> QED
        BY <4>4, <4>8, <4>10, <4>11, <4>12 DEF AheadOf, span
    <3> QED
      BY <2>2, <3>1, <3>2
  <2>6. crashes' = crashes /\ pc' = [pc EXCEPT ![t] = "insert"]
    BY <1>9, Worked DEF Alter
  <2> QED
    BY <1>1, <2>2, <2>5, <2>6, NoneElse DEF Types
<1>10. ASSUME NEW n \in flushed..Len(log), Crash(n) PROVE Goal
  <2>1. mem' = None /\ \A t \in Thread : pc'[t] = "idle"
    BY <1>10, CrashEffect
  <2>2. crashes' # 0
    BY <1>10 DEF Crash, Types
  <2> QED
    BY <2>1, <2>2
<1> QED
  BY <1>2, <1>3, <1>4, <1>5, <1>6, <1>7, <1>8, <1>9, <1>10, Arrival DEF Next

----------------------------------------------------------------------------
(* The values of a nextval are new: they lie beyond the memory, and behind it when
   it has been moved. *)
LEMMA NextAnswers ==
  ASSUME Types, FlowInv, PlacedInv, NEW t \in Thread, GetNext(t)
  PROVE  /\ \A g \in Era \X Int : Behind(g, mem) => Behind(g, mem')
         /\ \A a \in answer'[t] :
              /\ a \in Era \X Int /\ a[2] \in mem.min..mem.max
              /\ Behind(a, mem') /\ ~Behind(a, mem)
              /\ a[1] = mem'.era /\ ~Before(mem, mem'.value, a[2])
              /\ \A g \in Era \X Int : Behind(g, mem) /\ g[1] = a[1] => Before(mem, g[2], a[2])
<1> DEFINE n == req[t].n
           used == UsedCount(mem, n)
           A == {<<FirstEra(mem), First(mem) + k * mem.inc>> : k \in 0..(used - 1)}
<1>1. /\ n \in Nat \ {0} /\ mem \in MemoryType /\ Placed(mem)
      /\ (~mem.called \/ Fits(mem, mem.value, mem.inc) \/ mem.cycle)
      /\ SameOptions(mem', mem) /\ mem'.value = Last(mem, n) /\ mem'.called /\ mem'.era = FirstEra(mem)
      /\ answer' = [answer EXCEPT ![t] = A]
  BY GetNextEffect DEF PlacedInv
<1>2. answer'[t] = A
  BY <1>1 DEF Types
<1>3. /\ mem.inc \in Int \ {0} /\ mem.min \in Int /\ mem.max \in Int /\ mem.value \in Int
      /\ mem.era \in Era /\ mem.called \in BOOLEAN
  BY <1>1 DEF MemoryType, Era
<1>4. /\ First(mem) \in mem.min..mem.max /\ FirstEra(mem) \in Era
      /\ FirstEra(mem).epoch = mem.era.epoch
      /\ mem.called /\ FirstEra(mem) = mem.era => Before(mem, mem.value, First(mem))
      /\ FirstEra(mem) = mem.era \/ FirstEra(mem).lap = mem.era.lap + 1
  BY <1>1, FirstValue
<1>5. /\ used \in 1..n /\ Last(mem, n) \in mem.min..mem.max
      /\ \A k \in 0..(used - 1) :
           /\ First(mem) + k * mem.inc \in mem.min..mem.max
           /\ ~Before(mem, First(mem) + k * mem.inc, First(mem))
           /\ ~Before(mem, Last(mem, n), First(mem) + k * mem.inc)
  BY <1>1, NextValues
<1>6. \A v, w : Before(mem', v, w) = Before(mem, v, w)
  BY <1>1 DEF SameOptions, Before, Ascending
<1>7. ~Before(mem, Last(mem, n), First(mem))
  <2>1. 0 \in 0..(used - 1) /\ First(mem) + 0 * mem.inc = First(mem)
    BY <1>1, <1>3, <1>4, <1>5
  <2> QED
    BY <1>5, <2>1
<1>8. \A e \in Era : e.epoch \in Nat /\ e.lap \in Nat
  BY DEF Era
<1> HIDE DEF used
<1>9. ASSUME NEW g \in Era \X Int, Behind(g, mem)
      PROVE  /\ Behind(g, mem')
             /\ g[1] = FirstEra(mem) => Before(mem, g[2], First(mem))
  <2>1. g[1] \in Era /\ g[2] \in Int
    OBVIOUS
  <2>2. CASE FirstEra(mem) = mem.era
    <3>1. ASSUME g[1] = mem.era PROVE mem.called /\ ~Before(mem, mem.value, g[2])
      BY <1>3, <1>8, <1>9, <3>1 DEF Behind
    <3>2. ASSUME g[1] = mem.era
          PROVE  Before(mem, g[2], First(mem)) /\ ~Before(mem, Last(mem, n), g[2])
      BY <1>3, <1>4, <1>5, <1>7, <2>1, <2>2, <3>1, <3>2 DEF Before
    <3> QED
      BY <1>1, <1>6, <1>9, <2>2, <3>2 DEF Behind
  <2>3. CASE FirstEra(mem).lap = mem.era.lap + 1
    <3>1. FirstEra(mem).epoch = mem.era.epoch /\ mem.era.lap \in Nat /\ mem.era.epoch \in Nat
          /\ g[1].lap \in Nat /\ g[1].epoch \in Nat
      BY <1>3, <1>4, <1>8, <2>1
    <3>2. g[1].epoch < mem.era.epoch \/ (g[1].epoch = mem.era.epoch /\ g[1].lap < mem.era.lap + 1)
      BY <1>9, <3>1 DEF Behind
    <3>3. g[1] # FirstEra(mem)
      BY <2>3, <3>1, <3>2
    <3> QED
      BY <1>1, <2>3, <3>1, <3>2, <3>3 DEF Behind
  <2> QED
    BY <1>4, <2>2, <2>3
<1>10. ASSUME NEW a \in A
       PROVE  /\ a[1] = FirstEra(mem) /\ a[2] \in mem.min..mem.max /\ a \in Era \X Int
              /\ ~Before(mem, a[2], First(mem)) /\ ~Before(mem, Last(mem, n), a[2])
  BY <1>3, <1>4, <1>5
<1> HIDE DEF A
<1>11. ASSUME NEW a \in A
       PROVE  /\ Behind(a, mem') /\ ~Behind(a, mem)
              /\ \A g \in Era \X Int : Behind(g, mem) /\ g[1] = a[1] => Before(mem, g[2], a[2])
  <2>1. Behind(a, mem')
    BY <1>1, <1>6, <1>10 DEF Behind
  <2>2. \A g \in Era \X Int : Behind(g, mem) /\ g[1] = a[1] => Before(mem, g[2], a[2])
    BY <1>3, <1>4, <1>9, <1>10 DEF Before
  <2>3. ~Before(mem, a[2], a[2])
    BY <1>3, <1>10 DEF Before
  <2> QED
    BY <1>10, <2>1, <2>2, <2>3
<1> QED
  BY <1>1, <1>2, <1>9, <1>10, <1>11 DEF Behind

(* In a regular state what lies behind the memory lies behind the image. *)
LEMMA StoreCovers ==
  ASSUME Types, FlowInv, OptionsInv, AheadInv, CalledInv, AnswerInv, Gentle, Regular
  PROVE  Covers(store, given)
<1>1. Covers(Current, given)
  BY DEF AnswerInv, Safe
<1>2. CASE mem = None
  BY <1>1, <1>2 DEF Current
<1>3. CASE mem # None /\ ~mem.linked
  <2>1. mem = InMemory(store, 0, FALSE) /\ Current = mem /\ store # None
    BY <1>3 DEF AheadInv, Current, FlowInv
  <2>2. mem.era = store.era /\ mem.called = store.called /\ mem.value = store.value /\ mem.inc = store.inc
    BY <2>1 DEF InMemory
  <2> QED
    BY <1>1, <2>1, <2>2 DEF Covers, Behind, Before, Ascending
<1>4. CASE mem # None /\ mem.linked
  <2>1. /\ AheadOf(store, mem) /\ Current = mem /\ store # None /\ SameOptions(mem, store)
        /\ mem \in MemoryType /\ store \in ImageType
    BY <1>4 DEF AheadInv, Current, FlowInv, OptionsInv, Types
  <2>2. /\ mem.era \in Era /\ store.era \in Era /\ mem.value \in Int /\ store.value \in Int
        /\ mem.inc \in Int \ {0} /\ mem.inc = store.inc
    BY <2>1 DEF MemoryType, ImageType, SameOptions, Era
  <2>3. \A e \in Era : e.epoch \in Nat /\ e.lap \in Nat
    BY DEF Era
  <2>4. mem.era.lap = store.era.lap => mem.era = store.era
    BY <2>1, <2>2 DEF AheadOf, Era
  <2> SUFFICES ASSUME NEW g \in given PROVE Behind(g, store)
    BY <2>1 DEF Covers
  <2>5. Behind(g, mem) /\ g \in Era \X Int
    BY <1>1, <2>1 DEF Covers, Types
  <2>6. g[1] \in Era /\ g[2] \in Int
    BY <2>5
  <2>7. CASE mem.era.lap = store.era.lap
    <3>1. ~Before(mem, store.value, mem.value) /\ (g[1] = mem.era => store.called)
      BY <1>4, <2>1, <2>4, <2>7 DEF AheadOf, CalledInv
    <3>2. ~Before(mem, mem.value, g[2]) => ~Before(store, store.value, g[2])
      BY <2>2, <2>6, <3>1 DEF Before, Ascending
    <3> QED
      BY <2>4, <2>5, <2>7, <3>1, <3>2 DEF Behind
  <2>8. CASE mem.era.lap # store.era.lap
    <3>1. mem.era.epoch = store.era.epoch /\ mem.era.lap <= store.era.lap
      BY <2>1 DEF AheadOf
    <3>2. g[1].epoch \in Nat /\ g[1].lap \in Nat /\ mem.era.lap \in Nat /\ store.era.lap \in Nat /\ mem.era.epoch \in Nat
      BY <2>2, <2>3, <2>6
    <3> QED
      BY <2>5, <2>8, <3>1, <3>2 DEF Behind
  <2> QED
    BY <2>7, <2>8
<1> QED
  BY <1>2, <1>3, <1>4

(* An image that answers have reached stays marked as called. *)
LEMMA CalledStep ==
  ASSUME Types, FlowInv, PlacedInv, OptionsInv, EpochInv, AheadInv, AnswerInv, CalledInv,
         Types', FlowInv', PlacedInv', [Next]_vars
  PROVE  CalledInv'
<1> DEFINE Known == given \cup UNION {answer[u] : u \in Thread}
           Knew == given' \cup UNION {answer'[u] : u \in Thread}
<1> SUFFICES ASSUME Gentle, Regular', mem' # None, mem'.linked, mem'.era = store'.era
             PROVE  \A g \in Knew : g[1] = mem'.era => store'.called
  BY DEF CalledInv, Regular
<1>1. Regular /\ \A g \in Known : g \in Era \X Int /\ g[1].epoch <= epochs
  BY RegularStep DEF Types, EpochInv
<1>2. mem # None /\ mem.linked /\ mem.era = store.era => \A g \in Known : g[1] = mem.era => store.called
  BY <1>1 DEF CalledInv
<1>3. NewEra.epoch = epochs + 1 /\ epochs \in Nat
  BY DEF NewEra, Types
<1>4. ASSUME Knew \subseteq Known, mem'.era = NewEra
      PROVE  \A g \in Knew : g[1] = mem'.era => store'.called
  <2>1. \A g \in Knew : g[1] # NewEra
    BY <1>1, <1>3, <1>4
  <2> QED
    BY <1>4, <2>1
<1>5. ASSUME Knew \subseteq Known, mem' = mem, store' = store
      PROVE  \A g \in Knew : g[1] = mem'.era => store'.called
  BY <1>2, <1>5
<1>6. CASE UNCHANGED vars
  <2>1. UNCHANGED <<mem, store, given, answer>>
    BY <1>6 DEF vars, thread, history
  <2>2. Knew \subseteq Known
    BY <2>1
  <2> QED
    BY <1>5, <2>1, <2>2
<1>7. ASSUME NEW t \in Thread, \/ \E r \in AnyRequest : Arrives(t, r)
                               \/ GetNextFails(t) \/ Insert(t) \/ Flush(t) \/ Reply(t)
      PROVE  \A g \in Knew : g[1] = mem'.era => store'.called
  <2>1. /\ UNCHANGED <<mem, store>>
        /\ given' \subseteq given \cup answer[t] /\ \A u \in Thread : answer'[u] \subseteq answer[u]
    BY <1>7 DEF Arrives, Request, GetNextFails, Insert, Flush, Reply, Types, history
  <2>2. Knew \subseteq Known
    BY <2>1
  <2> QED
    BY <1>5, <2>1, <2>2
<1>8. ASSUME NEW t \in Thread, Find(t)
      PROVE  \A g \in Knew : g[1] = mem'.era => store'.called
  <2>1. UNCHANGED <<store, given, answer>> /\ (mem # None => mem' = mem)
        /\ (mem = None => mem' = InMemory(store, 0, FALSE))
    BY <1>8 DEF Find, history
  <2>2. mem # None
    BY <2>1 DEF InMemory
  <2>3. Knew \subseteq Known
    BY <2>1
  <2> QED
    BY <1>5, <2>1, <2>2, <2>3
<1>9. ASSUME NEW t \in Thread, Form(t)
      PROVE  \A g \in Knew : g[1] = mem'.era => store'.called
  <2>1. UNCHANGED <<given, answer>> /\ mem # None /\ ~mem.linked
    BY <1>9 DEF Form, history, FlowInv, FlowOf
  <2>2. mem = InMemory(store, 0, FALSE)
    BY <1>1, <2>1 DEF AheadInv
  <2>3. /\ store \in ImageType /\ mem'.era = mem.era
        /\ mem.reserved => store' = ReservedAhead(store)
        /\ ~mem.reserved => store' = store
    BY <1>9, FormEffect
  <2>4. CASE mem.reserved
    BY <2>3, <2>4, ReserveOnce DEF Reserved
  <2>5. CASE ~mem.reserved
    <3>1. \A g \in Known : Behind(g, mem)
      BY <1>1, <2>1 DEF AnswerInv, Safe, Covers, Current
    <3>2. mem \in MemoryType /\ mem.called = store.called
      BY <2>1, <2>2 DEF Types, InMemory
    <3>3. mem.era.lap \in Nat /\ mem.era.epoch \in Nat
      BY <3>2 DEF MemoryType
    <3>4. \A g \in Known : g[1] = mem.era => mem.called
      BY <3>1, <3>3 DEF Behind
    <3>5. Knew \subseteq Known
      BY <2>1
    <3> QED
      BY <2>3, <2>5, <3>2, <3>4, <3>5
  <2> QED
    BY <2>4, <2>5
<1>10. ASSUME NEW t \in Thread, GetNext(t)
       PROVE  \A g \in Knew : g[1] = mem'.era => store'.called
  BY <1>1, <1>10, GetNextAhead
<1>11. ASSUME NEW t \in Thread, Open(t)
       PROVE  \A g \in Knew : g[1] = mem'.era => store'.called
  <2>1. UNCHANGED <<given, answer>>
    BY <1>11 DEF Open
  <2>2. Knew \subseteq Known
    BY <2>1
  <2>3. mem'.era = NewEra
    <3> DEFINE f == Fresh(req[t].options)
    <3>1. mem' = InMemory(f, IF f.reserved THEN Reserve ELSE 0, TRUE)
      BY <1>11, OpenEffect
    <3>2. f.era = NewEra
      BY DEF Fresh
    <3> HIDE DEF f
    <3> QED
      BY <3>1, <3>2 DEF InMemory
  <2> QED
    BY <1>4, <2>2, <2>3
<1>12. ASSUME NEW t \in Thread, SetVal(t)
       PROVE  \A g \in Knew : g[1] = mem'.era => store'.called
  <2>1. UNCHANGED <<given, answer>>
    BY <1>12 DEF SetVal
  <2>2. Knew \subseteq Known
    BY <2>1
  <2>3. mem'.era = NewEra
    BY <1>12, SetValEffect
  <2> QED
    BY <1>4, <2>2, <2>3
<1>13. ASSUME NEW t \in Thread, Alter(t)
       PROVE  \A g \in Knew : g[1] = mem'.era => store'.called
  <2> DEFINE r == req[t].restart
             j == Judged(store, req[t].options, r)
  <2>1. UNCHANGED <<given, answer>>
    BY <1>13 DEF Alter
  <2>2. Knew \subseteq Known
    BY <2>1
  <2>3. /\ r \in BOOLEAN /\ mem \in MemoryType /\ mem.linked /\ mem'.era = IF r THEN NewEra ELSE mem.era
        /\ j.called = IF r THEN FALSE ELSE store.called
        /\ j.era = IF r THEN NewEra ELSE store.era
        /\ store' = SetAhead(j, r /\ mem'.reserved)
    BY <1>13, AlterEffect
  <2> HIDE DEF r, j
  <2>4. CASE r
    BY <1>4, <2>2, <2>3, <2>4
  <2>5. CASE ~r
    <3>1. store' = j /\ store'.era = store.era /\ store'.called = store.called /\ mem'.era = mem.era
      BY <2>3, <2>5 DEF SetAhead
    <3>2. mem # None
      BY <2>3, NoneElse
    <3> QED
      BY <1>2, <2>2, <2>3, <3>1, <3>2
  <2> QED
    BY <2>3, <2>4, <2>5
<1>14. ASSUME NEW n \in flushed..Len(log), Crash(n) PROVE FALSE
  BY <1>14, CrashEffect
<1> QED
  BY <1>6, <1>7, <1>8, <1>9, <1>10, <1>11, <1>12, <1>13, <1>14, Arrival DEF Next

(* All answers stay behind, and the new ones are new. *)
LEMMA AnswerStep ==
  ASSUME Types, FlowInv, PlacedInv, OptionsInv, EpochInv, AheadInv, AnswerInv, LogInv,
         Types', FlowInv', [Next]_vars
  PROVE  AnswerInv'
<1> DEFINE Known == given \cup UNION {answer[u] : u \in Thread}
           Goal == /\ Covers(Current', given') /\ \A u \in Thread : Covers(Current', answer'[u])
                   /\ \A u \in Thread : given' \cap answer'[u] = {}
                   /\ \A u, w \in Thread : u # w => answer'[u] \cap answer'[w] = {}
                   /\ \A u \in Thread : Begun(u)' => answer'[u] = {}
                   /\ ~twice'
<1> SUFFICES ASSUME Safe' PROVE Goal
  BY DEF AnswerInv, Safe, Covers, Behind, Before, Ascending, Current
<1>1. /\ Safe /\ ~twice /\ Covers(Current, Known) /\ Known \subseteq Era \X Int
      /\ \A u \in Thread : given \cap answer[u] = {}
      /\ \A u, w \in Thread : u # w => answer[u] \cap answer[w] = {}
      /\ \A u \in Thread : Begun(u) => answer[u] = {}
      /\ \A g \in Known : g[1].epoch <= epochs
  BY RegularStep DEF Types, EpochInv, AnswerInv, Covers
<1>2. NewEra.epoch = epochs + 1 /\ epochs \in Nat
  BY DEF NewEra, Types
<1>3. \A e \in Era : e.epoch \in Nat /\ e.lap \in Nat
  BY DEF Era
\* The answers are as they were, and still lie behind.
<1>4. ASSUME UNCHANGED <<given, answer, twice>>, \A u \in Thread : Begun(u)' => Begun(u),
             Covers(Current', Known)
      PROVE  Goal
  BY <1>1, <1>4 DEF Covers
<1>5. CASE UNCHANGED vars
  <2>1. UNCHANGED <<given, answer, twice, mem, store>> /\ pc' = pc
    BY <1>5 DEF vars, thread, history
  <2> QED
    BY <1>1, <1>4, <2>1 DEF Begun, Current
<1>6. ASSUME NEW t \in Thread, NEW r \in AnyRequest, Arrives(t, r) PROVE Goal
  <2>1. /\ UNCHANGED <<mem, store, given, twice>> /\ answer' = [answer EXCEPT ![t] = {}]
        /\ \A u \in Thread : u # t => pc'[u] = pc[u]
    BY <1>6 DEF Arrives, Request, Types
  <2>2. answer'[t] = {} /\ \A u \in Thread : u # t => answer'[u] = answer[u]
    BY <2>1 DEF Types
  <2>3. Current' = Current
    BY <2>1 DEF Current
  <2> QED
    BY <1>1, <2>1, <2>2, <2>3 DEF Covers, Begun
<1>7. ASSUME NEW t \in Thread, GetNextFails(t) \/ Insert(t) \/ Flush(t) PROVE Goal
  <2>1. /\ UNCHANGED <<mem, store, given, twice, answer>>
        /\ pc'[t] \notin {"find", "form", "run"} /\ \A u \in Thread : u # t => pc'[u] = pc[u]
    BY <1>7 DEF GetNextFails, Insert, Flush, Types, history
  <2>2. Current' = Current /\ \A u \in Thread : Begun(u)' => Begun(u)
    BY <2>1 DEF Current, Begun
  <2> QED
    BY <1>1, <1>4, <2>1, <2>2
<1>8. ASSUME NEW t \in Thread, Reply(t) PROVE Goal
  <2>1. /\ UNCHANGED <<mem, store>> /\ answer' = [answer EXCEPT ![t] = {}]
        /\ given' = given \cup answer[t] /\ twice' = (twice \/ given \cap answer[t] # {})
        /\ \A u \in Thread : u # t => pc'[u] = pc[u]
    BY <1>8 DEF Reply, Types
  <2>2. answer'[t] = {} /\ \A u \in Thread : u # t => answer'[u] = answer[u]
    BY <2>1 DEF Types
  <2>3. Current' = Current
    BY <2>1 DEF Current
  <2>4. Covers(Current', given') /\ \A u \in Thread : Covers(Current', answer'[u])
    BY <1>1, <2>1, <2>2, <2>3 DEF Covers
  <2>5. \A u \in Thread : given' \cap answer'[u] = {}
    BY <1>1, <2>1, <2>2
  <2>6. \A u, w \in Thread : u # w => answer'[u] \cap answer'[w] = {}
    BY <1>1, <2>2
  <2>7. ~twice'
    BY <1>1, <2>1
  <2>8. \A u \in Thread : Begun(u)' => answer'[u] = {}
    BY <1>1, <2>1, <2>2 DEF Begun
  <2> QED
    BY <2>4, <2>5, <2>6, <2>7, <2>8
<1>9. ASSUME NEW t \in Thread, Find(t) PROVE Goal
  <2>1. /\ UNCHANGED <<store, given, twice, answer>> /\ pc[t] = "find" /\ store # None
        /\ store \in ImageType
        /\ \A u \in Thread : u # t => pc'[u] = pc[u]
    BY <1>9, Exists DEF Find, Types, history
  <2>2. \A u \in Thread : Begun(u)' => Begun(u)
    BY <2>1 DEF Begun
  <2>3. Covers(Current', Known)
    <3>1. CASE mem # None
      BY <1>1, <1>9, <2>1, <3>1 DEF Find, Current
    <3>2. CASE mem = None
      <4>1. mem' = InMemory(store, 0, FALSE) /\ Current = store
        BY <1>9, <3>2 DEF Find, Current
      <4>2. mem' # None
        <5>1. mem' \in MemoryType
          BY <2>1, <4>1, MemoryFields
        <5> QED
          BY <5>1, NoneElse
      <4>3. mem'.era = store.era /\ mem'.called = store.called /\ mem'.value = store.value /\ mem'.inc = store.inc
        BY <4>1 DEF InMemory
      <4>4. \A g \in Known : Behind(g, store)
        BY <1>1, <4>1 DEF Covers
      <4>5. \A g \in Known : Behind(g, mem')
        BY <4>3, <4>4 DEF Behind, Before, Ascending
      <4> QED
        BY <4>2, <4>5 DEF Covers, Current
    <3> QED
      BY <3>1, <3>2
  <2> QED
    BY <1>4, <2>1, <2>2, <2>3
<1>10. ASSUME NEW t \in Thread, Form(t) PROVE Goal
  <2>1. /\ UNCHANGED <<given, twice, answer>> /\ pc[t] = "form" /\ mem # None
        /\ \A u \in Thread : u # t => pc'[u] = pc[u]
    BY <1>10, Exists DEF Form, Types, history
  <2>2. \A u \in Thread : Begun(u)' => Begun(u)
    BY <2>1 DEF Begun
  <2>3. /\ mem' \in MemoryType /\ SameOptions(mem', mem) /\ mem'.value = mem.value
        /\ mem'.called = mem.called /\ mem'.era = mem.era
    BY <1>10, FormEffect
  <2>4. \A g \in Known : Behind(g, mem)
    BY <1>1, <2>1 DEF Covers, Current
  <2>5. \A g \in Known : Behind(g, mem')
    BY <2>3, <2>4 DEF Behind, Before, Ascending, SameOptions
  <2>6. Covers(Current', Known)
    BY <2>3, <2>5, NoneElse DEF Covers, Current
  <2> QED
    BY <1>4, <2>1, <2>2, <2>6
<1>11. ASSUME NEW t \in Thread, Open(t) \/ SetVal(t) \/ Alter(t) PROVE Goal
  <2>1. /\ UNCHANGED <<given, twice, answer>> /\ pc' = [pc EXCEPT ![t] = "insert"]
    BY <1>11, Worked DEF Open, SetVal, Alter
  <2>2. \A u \in Thread : Begun(u)' => Begun(u)
    BY <2>1 DEF Begun, Types
  <2>3. mem' \in MemoryType
    BY <1>11, OpenEffect, SetValEffect, AlterEffect
  <2>4. \A g \in Known : Behind(g, mem')
    <3>1. CASE Open(t)
      <4>1. Current = None
        BY <3>1, OpenEffect DEF Current
      <4> QED
        BY <1>1, <4>1 DEF Covers
    <3>2. ASSUME mem'.era = NewEra PROVE \A g \in Known : Behind(g, mem')
      <4>1. \A g \in Known : g[1].epoch \in Nat
        BY <1>1, <1>3
      <4> QED
        BY <1>1, <1>2, <3>2, <4>1 DEF Behind
    <3>3. CASE SetVal(t)
      BY <3>2, <3>3, SetValEffect
    <3>4. CASE Alter(t)
      <4> DEFINE o == req[t].options
                 r == req[t].restart
      <4>1. mem # None /\ Widens(o, store) /\ SameOptions(mem, store)
        BY <3>4, Exists DEF Alter, OptionsInv, Begun
      <4>2. /\ SameOptions(mem', o) /\ r \in BOOLEAN
            /\ mem'.value = IF r THEN Origin(o) ELSE mem.value
            /\ mem'.called = IF r THEN FALSE ELSE mem.called
            /\ mem'.era = IF r THEN NewEra ELSE mem.era
        BY <3>4, AlterEffect
      <4> HIDE DEF o, r
      <4>3. CASE r
        BY <3>2, <4>2, <4>3
      <4>4. CASE ~r
        <5>1. \A g \in Known : Behind(g, mem)
          BY <1>1, <4>1 DEF Covers, Current
        <5>2. \A v, w : Before(mem', v, w) = Before(mem, v, w)
          BY <4>1, <4>2 DEF Before, Ascending, Widens, SameOptions
        <5>3. mem'.value = mem.value /\ mem'.called = mem.called /\ mem'.era = mem.era
          BY <4>2, <4>4
        <5> QED
          BY <5>1, <5>2, <5>3 DEF Behind
      <4> QED
        BY <4>2, <4>3, <4>4
    <3> QED
      BY <1>11, <3>1, <3>3, <3>4
  <2>5. Covers(Current', Known)
    BY <2>3, <2>4, NoneElse DEF Covers, Current
  <2> QED
    BY <1>4, <2>1, <2>2, <2>5
<1>12. ASSUME NEW t \in Thread, GetNext(t) PROVE Goal
  <2>1. UNCHANGED <<given, twice>> /\ pc' = [pc EXCEPT ![t] = "insert"] /\ mem # None
    BY <1>12, Worked, Exists DEF GetNext, history
  <2>2. mem' \in MemoryType /\ \A u \in Thread : u # t => answer'[u] = answer[u]
    BY <1>12, GetNextEffect DEF PlacedInv, Types
  <2>3. \A g \in Known : Behind(g, mem) /\ Behind(g, mem')
    BY <1>1, <1>12, <2>1, NextAnswers DEF Covers, Current
  <2>4. \A a \in answer'[t] : Behind(a, mem') /\ ~Behind(a, mem)
    BY <1>12, NextAnswers
  <2>5. Known \cap answer'[t] = {}
    BY <2>3, <2>4
  <2>6. Current' = mem' /\ mem' # None
    BY <2>2, NoneElse DEF Current
  <2>7. Covers(Current', given') /\ \A u \in Thread : Covers(Current', answer'[u])
    BY <2>1, <2>2, <2>3, <2>4, <2>6 DEF Covers
  <2>8. \A u \in Thread : given' \cap answer'[u] = {}
    BY <1>1, <2>1, <2>2, <2>5
  <2>9. \A u, w \in Thread : u # w => answer'[u] \cap answer'[w] = {}
    BY <1>1, <2>2, <2>5
  <2>10. \A u \in Thread : Begun(u)' => answer'[u] = {}
    BY <1>1, <2>1, <2>2 DEF Begun, Types
  <2> QED
    BY <1>1, <2>1, <2>7, <2>8, <2>9, <2>10
<1>13. ASSUME NEW n \in flushed..Len(log), Crash(n) PROVE Goal
  <2>1. UNCHANGED <<given, twice>> /\ ~overlapped /\ Gentle
    <3>1. UNCHANGED <<given, twice, overlapped>> /\ (Overlap \/ ~overlapped) /\ crashes' = crashes + 1
      BY <1>13 DEF Crash, history
    <3>2. Gentle /\ (Regular' \/ ~Overlap)
      BY DEF Safe
    <3> QED
      BY <3>1, <3>2 DEF Regular, Types
  <2>2. /\ mem' = None /\ store' = Durable(n)
        /\ \A u \in Thread : pc'[u] = "idle" /\ answer'[u] = {}
    BY <1>13, CrashEffect
  <2>3. Covers(store', given)
    BY <2>1, <2>2 DEF LogInv
  <2>4. Current' = store'
    BY <2>2 DEF Current
  <2> QED
    BY <1>1, <2>1, <2>2, <2>3, <2>4 DEF Covers, Begun
<1> QED
  BY <1>5, <1>6, <1>7, <1>8, <1>9, <1>10, <1>11, <1>12, <1>13, Arrival DEF Next

(* The log keeps all that was answered. *)
LEMMA LogStep ==
  ASSUME Types, FlowInv, PlacedInv, OptionsInv, AheadInv, CalledInv, AnswerInv, LogInv,
         Types', FlowInv', PlacedInv', [Next]_vars
  PROVE  LogInv'
<1> DEFINE Goal == /\ \A n \in flushed'..Len(log') : Covers(Durable(n)', given')
                   /\ \/ store' = Durable(Len(log))' \/ Stuck'
                      \/ \E u \in Thread : pc'[u] \in {"run", "insert"} /\ buf'[u] = store'
                   /\ (\A u \in Thread : pc'[u] # "flush") => flushed' = Len(log')
                   /\ \A u \in Thread : LoggedOf(u)'
<1> SUFFICES ASSUME Gentle, ~overlapped' PROVE Goal
  BY DEF LogInv, Durable, Covers, Behind, Before, Ascending
<1>1. /\ ~overlapped /\ Regular
      /\ \A n \in flushed..Len(log) : Covers(Durable(n), given)
      /\ \/ store = Durable(Len(log)) \/ Stuck
         \/ \E u \in Thread : pc[u] \in {"run", "insert"} /\ buf[u] = store
      /\ (\A u \in Thread : pc[u] # "flush") => flushed = Len(log)
      /\ \A u \in Thread : LoggedOf(u)
      /\ \A u \in Thread : Begun(u) => answer[u] = {}
  BY RegularStep DEF LogInv, AnswerInv, Safe, Regular
<1>2. \A t, u \in Thread : t # u => (pc[t] = "idle" \/ pc[u] = "idle") /\ (pc'[t] = "idle" \/ pc'[u] = "idle")
  BY <1>1 DEF FlowInv, Apart
<1>3. log \in Seq(ImageType) /\ Len(log) \in Nat /\ flushed \in 0..Len(log)
  BY DEF Types
<1>4. CASE UNCHANGED vars
  <2>1. UNCHANGED <<mem, store, log, flushed, pc, buf, pos, answer, given>>
    BY <1>4 DEF vars, thread, history
  <2> QED
    BY <1>1, <2>1 DEF LoggedOf, Durable, Stuck, Covers, Behind, Before, Ascending
\* A thread works, and neither the log nor what was answered changes.
<1>5. ASSUME NEW t \in Thread, UNCHANGED <<log, flushed, given>>, pc[t] # "flush", pc'[t] \notin {"flush", "idle"},
             LoggedOf(t)',
             \/ store' = Durable(Len(log)) \/ Stuck'
             \/ pc'[t] \in {"run", "insert"} /\ buf'[t] = store',
             \A u \in Thread : u # t => pc[u] = "idle"
      PROVE  Goal
  <2>1. \A u \in Thread : u # t => pc'[u] = "idle"
    BY <1>2, <1>5
  <2>2. \A u \in Thread : LoggedOf(u)'
    BY <1>5, <2>1 DEF LoggedOf
  <2>3. \A n : Durable(n)' = Durable(n)
    BY <1>5 DEF Durable
  <2>4. flushed' = Len(log')
    BY <1>1, <1>5
  <2> QED
    BY <1>1, <1>5, <2>2, <2>3, <2>4
<1>6. ASSUME NEW t \in Thread, NEW r \in AnyRequest, Arrives(t, r) PROVE Goal
  <2>1. /\ UNCHANGED <<mem, store, log, flushed, given>> /\ pc[t] = "idle"
        /\ overlapped' = (overlapped \/ \E u \in Thread \ {t} : pc[u] # "idle")
        /\ pc'[t] \in {"run", "find"} /\ buf'[t] = None /\ answer'[t] = {}
    BY <1>6 DEF Arrives, Request, Types
  <2>2. \A u \in Thread : pc[u] = "idle"
    BY <2>1
  <2>3. store' = Durable(Len(log)) \/ Stuck'
    <3>1. store = Durable(Len(log)) \/ Stuck
      BY <1>1, <2>2
    <3> QED
      BY <2>1, <3>1 DEF Stuck
  <2>4. LoggedOf(t)'
    BY <2>1 DEF LoggedOf, Covers
  <2> QED
    BY <1>5, <2>1, <2>2, <2>3, <2>4
<1>7. ASSUME NEW t \in Thread, Find(t) PROVE Goal
  <2>1. /\ UNCHANGED <<store, log, flushed, given, buf, answer>> /\ pc[t] = "find"
        /\ pc'[t] \in {"run", "form"} /\ (mem # None => mem' = mem)
    BY <1>7 DEF Find, Types, history
  <2>2. \A u \in Thread : u # t => pc[u] = "idle"
    BY <1>2, <2>1
  <2>3. answer[t] = {} /\ buf[t] = None
    BY <1>1, <2>1 DEF Begun, LoggedOf
  <2>4. LoggedOf(t)'
    BY <2>1, <2>3 DEF LoggedOf, Covers
  <2>5. store' = Durable(Len(log)) \/ Stuck'
    <3>1. store = Durable(Len(log)) \/ Stuck
      BY <1>1, <2>1, <2>2
    <3> QED
      BY <2>1, <3>1 DEF Stuck
  <2> QED
    BY <1>5, <2>1, <2>2, <2>4, <2>5
<1>8. ASSUME NEW t \in Thread, Form(t) PROVE Goal
  <2>1. /\ UNCHANGED <<log, flushed, given, answer>> /\ pc[t] = "form" /\ pc'[t] = "run" /\ mem # None
    BY <1>8, Exists DEF Form, Types, history
  <2>2. \A u \in Thread : u # t => pc[u] = "idle"
    BY <1>2, <2>1
  <2>3. answer[t] = {} /\ buf[t] = None
    BY <1>1, <2>1 DEF Begun, LoggedOf
  <2>4. /\ mem \in MemoryType /\ store \in ImageType
        /\ mem' \in MemoryType /\ SameOptions(mem', mem) /\ mem'.value = mem.value
        /\ mem'.called = mem.called
        /\ mem.reserved => buf' = [buf EXCEPT ![t] = store']
        /\ ~mem.reserved => UNCHANGED <<store, buf>>
    BY <1>8, FormEffect
  <2>5. Stuck => Stuck'
    BY <2>4, NoneElse DEF Stuck, Fits, Limit, Before, Ascending, SameOptions
  <2>6. CASE mem.reserved
    <3>1. buf'[t] = store'
      BY <2>4, <2>6 DEF Types
    <3>2. LoggedOf(t)'
      BY <2>1, <2>3, <3>1 DEF LoggedOf, Covers
    <3> QED
      BY <1>5, <2>1, <2>2, <3>1, <3>2
  <2>7. CASE ~mem.reserved
    <3>1. store' = store /\ buf' = buf
      BY <2>4, <2>7
    <3>2. LoggedOf(t)'
      BY <2>1, <2>3, <3>1 DEF LoggedOf, Covers
    <3>3. store = Durable(Len(log)) \/ Stuck
      BY <1>1, <2>1, <2>2
    <3> QED
      BY <1>5, <2>1, <2>2, <2>5, <3>1, <3>2, <3>3
  <2> QED
    BY <2>6, <2>7
<1>9. ASSUME NEW t \in Thread, Open(t) \/ SetVal(t) \/ Alter(t) PROVE Goal
  <2>1. /\ UNCHANGED <<log, flushed, given, answer>> /\ pc[t] = "run" /\ pc' = [pc EXCEPT ![t] = "insert"]
    BY <1>9, Worked DEF Open, SetVal, Alter
  <2>2. \A u \in Thread : u # t => pc[u] = "idle"
    BY <1>2, <2>1
  <2>3. answer[t] = {}
    BY <1>1, <2>1 DEF Begun
  <2>4. buf' = [buf EXCEPT ![t] = store'] /\ store' \in ImageType
    <3>1. CASE Open(t)
      BY <3>1, OpenEffect
    <3>2. CASE SetVal(t)
      <4>1. mem # None
        BY <3>2, Exists DEF SetVal
      <4>2. mem.linked
        BY <1>1, <2>1, <4>1, Linked
      <4> QED
        BY <3>2, <4>2, SetValEffect
    <3>3. CASE Alter(t)
      BY <3>3, AlterEffect
    <3> QED
      BY <1>9, <3>1, <3>2, <3>3
  <2>5. buf'[t] = store' /\ store' # None /\ pc'[t] = "insert"
    BY <2>1, <2>4, NoneElse DEF Types
  <2>6. LoggedOf(t)'
    BY <2>1, <2>3, <2>5 DEF LoggedOf, Covers
  <2> QED
    BY <1>5, <2>1, <2>2, <2>5, <2>6
<1>10. ASSUME NEW t \in Thread, GetNext(t) PROVE Goal
  <2>1. /\ UNCHANGED <<log, flushed, given>> /\ pc[t] = "run" /\ pc' = [pc EXCEPT ![t] = "insert"]
        /\ ~Stuck
    BY <1>10, Worked DEF GetNext, history, Stuck
  <2>2. \A u \in Thread : u # t => pc[u] = "idle"
    BY <1>2, <2>1
  <2>3. /\ mem \in MemoryType /\ mem' \in MemoryType /\ store \in ImageType /\ store' \in ImageType
        /\ SameOptions(mem', mem)
        /\ (buf' = buf /\ store' = store) \/ buf' = [buf EXCEPT ![t] = store']
    BY <1>10, GetNextEffect DEF PlacedInv
  <2>4. store # None /\ store' # None /\ mem # None
    BY <2>3, NoneElse
  <2>5. Covers(store', answer'[t])
    <3>1. AheadOf(store', mem') /\ store'.called
      BY <1>1, <1>10, GetNextAhead
    <3>2. mem.inc = mem'.inc /\ mem.inc = store.inc /\ store'.inc = mem.inc
      <4>1. SameOptions(mem', store')
        BY <2>3, <2>4, OptionsStep, NoneElse DEF OptionsInv
      <4>2. SameOptions(mem, store)
        BY <2>4 DEF OptionsInv
      <4> QED
        BY <2>3, <4>1, <4>2 DEF SameOptions
    <3>3. /\ mem.inc \in Int /\ store'.value \in Int /\ mem'.value \in Int
          /\ mem'.era \in Era /\ store'.era \in Era
      BY <2>3 DEF MemoryType, ImageType, Era
    <3> SUFFICES ASSUME NEW a \in answer'[t] PROVE Behind(a, store')
      BY <2>4 DEF Covers
    <3>4. a[1] = mem'.era /\ ~Before(mem, mem'.value, a[2]) /\ a \in Era \X Int
      BY <1>10, NextAnswers
    <3>5. CASE mem'.era.lap = store'.era.lap
      <4>1. mem'.era = store'.era
        BY <3>1, <3>3, <3>5 DEF AheadOf, Era
      <4>2. ~Before(mem', store'.value, mem'.value)
        BY <3>1, <3>5 DEF AheadOf
      <4>3. ~Before(store', store'.value, a[2])
        BY <3>2, <3>3, <3>4, <4>2 DEF Before, Ascending
      <4> QED
        BY <3>1, <3>4, <4>1, <4>3 DEF Behind
    <3>6. CASE mem'.era.lap # store'.era.lap
      <4>1. mem'.era.epoch = store'.era.epoch /\ mem'.era.lap <= store'.era.lap
        BY <3>1 DEF AheadOf
      <4>2. mem'.era.lap \in Nat /\ store'.era.lap \in Nat
        BY <3>3 DEF Era
      <4> QED
        BY <3>4, <3>6, <4>1, <4>2 DEF Behind
    <3> QED
      BY <3>5, <3>6
  <2>6. pc'[t] = "insert" /\ (buf'[t] = store' \/ (buf'[t] = buf[t] /\ store' = store))
    BY <2>1, <2>3 DEF Types
  <2>7. buf[t] = store \/ (buf[t] = None /\ store = Durable(Len(log)))
    <3>1. buf[t] # None => buf[t] = store
      BY <1>1, <2>1 DEF LoggedOf
    <3>2. store = Durable(Len(log)) \/ buf[t] = store
      BY <1>1, <2>1, <2>2
    <3> QED
      BY <3>1, <3>2
  <2>8. buf'[t] = store' \/ (buf'[t] = None /\ store' = Durable(Len(log)))
    BY <2>6, <2>7
  <2>9. LoggedOf(t)'
    <3>1. Durable(Len(log))' = Durable(Len(log))
      BY <2>1 DEF Durable
    <3>2. Covers(store', answer'[t]) = (Covers(store, answer[t]))'
      OBVIOUS
    <3> QED
      BY <2>4, <2>5, <2>6, <2>8, <3>1 DEF LoggedOf
  <2> QED
    BY <1>5, <2>1, <2>2, <2>6, <2>8, <2>9
<1>11. ASSUME NEW t \in Thread, GetNextFails(t) PROVE Goal
  <2>1. /\ UNCHANGED <<mem, store, log, flushed, given, buf, pos, answer>> /\ pc[t] = "run"
        /\ pc'[t] = "idle" /\ \A u \in Thread : u # t => pc'[u] = pc[u]
    BY <1>11 DEF GetNextFails, Types, history
  <2>2. mem # None
    BY <1>11, Exists DEF GetNextFails
  <2>3. Stuck'
    BY <1>11, <2>1, <2>2 DEF GetNextFails, Stuck
  <2>4. \A u \in Thread : pc'[u] = "idle"
    BY <1>2, <2>1
  <2>5. \A n : Durable(n)' = Durable(n)
    BY <2>1 DEF Durable
  <2>6. \A u \in Thread : LoggedOf(u)'
    BY <2>4 DEF LoggedOf
  <2>7. flushed = Len(log)
    BY <1>1, <1>2, <2>1
  <2> QED
    BY <1>1, <2>1, <2>3, <2>5, <2>6, <2>7
<1>12. ASSUME NEW t \in Thread, Insert(t) PROVE Goal
  <2>1. /\ UNCHANGED <<mem, store, flushed, given, buf, answer>> /\ pc[t] = "insert"
        /\ LoggedOf(t)
    BY <1>1, <1>12 DEF Insert, history
  <2>2. \A u \in Thread : u # t => pc[u] = "idle"
    BY <1>2, <2>1
  <2>3. CASE buf[t] = None
    <3>1. log' = log /\ pc'[t] = "reply" /\ store = Durable(Len(log))
      BY <1>12, <2>1, <2>3 DEF Insert, Types, LoggedOf
    <3>2. Durable(Len(log))' = Durable(Len(log))
      BY <3>1 DEF Durable
    <3>3. LoggedOf(t)'
      BY <2>1, <3>1, <3>2 DEF LoggedOf
    <3> QED
      BY <1>5, <2>1, <2>2, <3>1, <3>3
  <2>4. CASE buf[t] # None
    <3>1. /\ log' = Append(log, buf[t]) /\ pos' = [pos EXCEPT ![t] = Len(log) + 1]
          /\ pc' = [pc EXCEPT ![t] = "flush"]
      BY <1>12, <2>4 DEF Insert
    <3>2. buf[t] = store /\ buf[t] \in ImageType /\ Covers(store, answer[t])
      BY <2>1, <2>4 DEF LoggedOf, Types
    <3>3. Len(log') = Len(log) + 1 /\ log'[Len(log) + 1] = store
          /\ \A n \in 1..Len(log) : log'[n] = log[n]
      BY <1>3, <3>1, <3>2
    <3>4. pos'[t] = Len(log') /\ pc'[t] = "flush"
      BY <3>1, <3>3 DEF Types
    <3>5. Durable(Len(log))' = store
      BY <1>3, <3>3 DEF Durable
    <3>6. Covers(store, given)
      BY <1>1, StoreCovers
    <3>7. \A n \in flushed'..Len(log') : Covers(Durable(n)', given')
      <4> SUFFICES ASSUME NEW n \in flushed'..Len(log') PROVE Covers(Durable(n)', given)
        BY <2>1
      <4>1. CASE n = Len(log')
        BY <3>5, <3>6, <4>1 DEF Durable
      <4>2. CASE n # Len(log')
        <5>1. n \in flushed..Len(log) /\ n \in 0..Len(log)
          BY <1>3, <2>1, <3>3, <4>2
        <5>2. Durable(n)' = Durable(n)
          BY <3>3, <5>1 DEF Durable
        <5> QED
          BY <1>1, <5>1, <5>2
      <4> QED
        BY <4>1, <4>2
    <3>8. LoggedOf(t)'
      BY <2>1, <3>2, <3>4, <3>5 DEF LoggedOf
    <3>9. \A u \in Thread : LoggedOf(u)'
      <4>1. \A u \in Thread : u # t => pc'[u] = "idle"
        BY <1>2, <3>4
      <4> QED
        BY <3>8, <4>1 DEF LoggedOf
    <3> QED
      BY <2>1, <3>4, <3>5, <3>7, <3>9
  <2> QED
    BY <2>3, <2>4
<1>13. ASSUME NEW t \in Thread, Flush(t) PROVE Goal
  <2>1. /\ UNCHANGED <<mem, store, log, given, buf, answer>> /\ pc[t] = "flush" /\ LoggedOf(t)
        /\ pc'[t] = "reply" /\ flushed' = FlushedUpTo(t)
    BY <1>1, <1>13 DEF Flush, Types, history
  <2>2. pos[t] = Len(log)
    BY <2>1 DEF LoggedOf
  <2>3. flushed' = Len(log)
    BY <1>3, <2>1, <2>2 DEF FlushedUpTo
  <2>4. \A u \in Thread : u # t => pc[u] = "idle" /\ pc'[u] = "idle"
    BY <1>2, <2>1
  <2>5. \A n : Durable(n)' = Durable(n)
    BY <2>1 DEF Durable
  <2>6. LoggedOf(t)'
    BY <2>1, <2>5 DEF LoggedOf
  <2>7. \A u \in Thread : LoggedOf(u)'
    BY <2>4, <2>6 DEF LoggedOf
  <2>8. store' = Durable(Len(log))' \/ Stuck'
    BY <1>1, <2>1, <2>4, <2>5 DEF Stuck
  <2>9. Len(log) \in flushed..Len(log) /\ flushed'..Len(log') \subseteq flushed..Len(log)
    BY <1>3, <2>1, <2>3
  <2> QED
    BY <1>1, <2>1, <2>3, <2>5, <2>7, <2>8, <2>9
<1>14. ASSUME NEW t \in Thread, Reply(t) PROVE Goal
  <2>1. /\ UNCHANGED <<mem, store, log, flushed>> /\ pc[t] = "reply" /\ LoggedOf(t)
        /\ pc'[t] = "idle" /\ given' = given \cup answer[t]
        /\ \A u \in Thread : u # t => pc'[u] = pc[u]
    BY <1>1, <1>14 DEF Reply, Types
  <2>2. \A u \in Thread : (u # t => pc[u] = "idle") /\ pc'[u] = "idle"
    BY <1>2, <2>1
  <2>3. flushed = Len(log)
    BY <1>1, <2>1, <2>2
  <2>4. \A n : Durable(n)' = Durable(n)
    BY <2>1 DEF Durable
  <2>5. Covers(Durable(Len(log)), given')
    <3>1. Covers(Durable(Len(log)), answer[t])
      BY <2>1 DEF LoggedOf
    <3>2. Covers(Durable(Len(log)), given)
      BY <1>1, <1>3, <2>3
    <3> QED
      BY <2>1, <3>1, <3>2 DEF Covers
  <2>6. \A n \in flushed'..Len(log') : n = Len(log)
    BY <1>3, <2>1, <2>3
  <2>7. \A u \in Thread : LoggedOf(u)'
    BY <2>2 DEF LoggedOf
  <2>8. store' = Durable(Len(log))' \/ Stuck'
    BY <1>1, <2>1, <2>2, <2>4 DEF Stuck
  <2> QED
    BY <2>1, <2>3, <2>4, <2>5, <2>6, <2>7, <2>8
<1>15. ASSUME NEW n \in flushed..Len(log), Crash(n) PROVE Goal
  <2>1. /\ store' = Durable(n) /\ flushed' = Len(log')
        /\ n = 0 => store' = None /\ Len(log') = 0
        /\ n # 0 => store' = log[n] /\ Len(log') = 1 /\ log'[1] = log[n]
        /\ \A u \in Thread : pc'[u] = "idle"
    BY <1>15, CrashEffect
  <2>2. given' = given
    BY <1>15 DEF Crash, history
  <2>3. Durable(Len(log))' = store'
    BY <2>1 DEF Durable
  <2>4. Covers(store', given')
    BY <1>1, <2>1, <2>2
  <2>5. \A i \in flushed'..Len(log') : i = Len(log')
    BY <2>1
  <2>6. \A u \in Thread : LoggedOf(u)'
    BY <2>1 DEF LoggedOf
  <2>7. \A i \in flushed'..Len(log') : Covers(Durable(i)', given')
    BY <2>3, <2>4, <2>5 DEF Durable
  <2> QED
    BY <2>1, <2>3, <2>6, <2>7
<1> QED
  BY <1>4, <1>6, <1>7, <1>8, <1>9, <1>10, <1>11, <1>12, <1>13, <1>14, <1>15, Arrival DEF Next

----------------------------------------------------------------------------
(* The inductive invariant. *)
SequenceInv ==
  /\ Types /\ FlowInv /\ OptionsInv /\ PlacedInv /\ EpochInv
  /\ AheadInv /\ CalledInv /\ AnswerInv /\ LogInv

(* A server that starts without the sequence satisfies it. *)
LEMMA SequenceInit ==
  ASSUME Init
  PROVE  SequenceInv
<1>1. Types
  <2>1. <<>> \in Seq(ImageType) /\ Len(log) = 0
    BY DEF Init
  <2>2. log \in Seq(ImageType) /\ flushed \in 0..Len(log)
    BY <2>1 DEF Init
  <2>3. pc \in [Thread -> Label] /\ req \in [Thread -> AnyRequest \cup {Idle}]
    BY DEF Init, Label
  <2>4. buf \in [Thread -> ImageType \cup {None}] /\ pos \in [Thread -> Nat]
    BY DEF Init
  <2>5. answer \in [Thread -> SUBSET (Era \X Int)]
    BY DEF Init
  <2> QED
    BY <2>2, <2>3, <2>4, <2>5 DEF Init, Types
<1>2. FlowInv /\ OptionsInv
  BY DEF Init, FlowInv, FlowOf, Apart, OptionsInv, Begun
<1>3. PlacedInv /\ EpochInv
  BY DEF Init, PlacedInv, EpochInv
<1>4. AheadInv /\ CalledInv /\ AnswerInv
  BY DEF Init, AheadInv, CalledInv, AnswerInv, Covers, Current
<1>5. LogInv
  BY DEF Init, LogInv, LoggedOf, Covers, Durable
<1> QED
  BY <1>1, <1>2, <1>3, <1>4, <1>5 DEF SequenceInv

(* Every step keeps it. *)
LEMMA SequenceStep ==
  ASSUME SequenceInv, [Next]_vars
  PROVE  SequenceInv'
<1> USE DEF SequenceInv
<1>1. Types'
  BY TypesStep
<1>2. FlowInv'
  BY <1>1, FlowStep
<1>3. OptionsInv' /\ PlacedInv' /\ EpochInv'
  BY <1>1, <1>2, OptionsStep, PlacedStep, EpochStep
<1>4. AheadInv'
  BY <1>1, <1>2, <1>3, AheadStep
<1>5. CalledInv' /\ AnswerInv' /\ LogInv'
  BY <1>1, <1>2, <1>3, CalledStep, AnswerStep, LogStep
<1> QED
  BY <1>1, <1>2, <1>3, <1>4, <1>5

(* The invariant holds in every reachable state. *)
THEOREM SequenceInvariant == Spec => []SequenceInv
<1>1. Init => SequenceInv
  BY SequenceInit
<1>2. SequenceInv /\ [Next]_vars => SequenceInv'
  BY SequenceStep
<1> QED
  BY <1>1, <1>2, PTL DEF Spec

(* The variables keep their types, and what a thread does next fits its request:
   GTM_SeqGetNext, GTM_SeqSetVal and GTM_SeqAlter always find the sequence. *)
THEOREM SeqTypes == Spec => []TypeOK
<1>1. SequenceInv => TypeOK
  BY DEF SequenceInv, Types, FlowInv, FlowOf, TypeOK, Label
<1> QED
  BY <1>1, SequenceInvariant, PTL

(* nextval answers values within the bounds the sequence has at that time, for every
   sequence, whatever was altered, and with any number of crashes. *)
THEOREM SeqInRange == Spec => InRange
<1> DEFINE A == \A t \in Thread : GetNext(t) => \A a \in answer'[t] : a[2] \in mem.min..mem.max
<1>1. SequenceInv /\ [Next]_vars => [A]_vars
  BY NextAnswers DEF SequenceInv
<1> QED
  BY <1>1, SequenceInvariant, PTL DEF Spec, InRange

(* The stored image is never behind the memory, for every number of threads and every
   interleaving, if no reservation of a sequence that wraps around passes through
   more than its range. *)
THEOREM SeqStoreAhead ==
  ASSUME Gentle
  PROVE  Spec => []StoreAhead
<1>1. SequenceInv => StoreAhead
  <2> SUFFICES ASSUME SequenceInv, mem # None, mem.linked, mem.era = store.era, Regular
               PROVE  /\ (\E g \in given : g[1] = mem.era) => store.called
                      /\ ~Before(mem, store.value, mem.value)
                      /\ mem.reserved =>
                           \/ store.value = Limit(mem)
                           \/ ~Before(mem, store.value, mem.value + mem.left * mem.inc)
    BY DEF StoreAhead, Regular
  <2>1. AheadOf(store, mem) /\ mem \in MemoryType /\ store \in ImageType
    BY DEF SequenceInv, AheadInv, Types, FlowInv
  <2>2. (\E g \in given : g[1] = mem.era) => store.called
    BY DEF SequenceInv, CalledInv
  <2>3. ~Before(mem, store.value, mem.value)
    BY <2>1 DEF AheadOf
  <2>4. ASSUME mem.reserved, mem.cycle
        PROVE  ~Before(mem, store.value, mem.value + mem.left * mem.inc)
    <3>1. store.value \in Int /\ store.era.lap \in Nat /\ Span(mem) \in Int
      BY <2>1 DEF MemoryType, ImageType, Span, Limit, Origin
    <3>2. store.value + (store.era.lap - mem.era.lap) * Span(mem) = store.value
      BY <3>1
    <3> QED
      BY <2>1, <2>4, <3>2 DEF AheadOf
  <2>5. ASSUME mem.reserved, ~mem.cycle
        PROVE  store.value = Limit(mem) \/ ~Before(mem, store.value, mem.value + mem.left * mem.inc)
    BY <2>1, <2>5 DEF AheadOf
  <2> QED
    BY <2>2, <2>3, <2>4, <2>5
<1> QED
  BY <1>1, SequenceInvariant, PTL

(* Two calls of nextval never get the same value in one era, if no crash follows
   requests that overlapped and no reservation of a sequence that wraps around passes
   through more than its range. *)
THEOREM SeqNoDuplicate ==
  ASSUME Gentle, ~Overlap
  PROVE  Spec => []NoDuplicate
<1>1. SequenceInv => NoDuplicate
  BY DEF SequenceInv, AnswerInv, Safe, NoDuplicate
<1> QED
  BY <1>1, SequenceInvariant, PTL

(* Under the same assumptions a nextval that begins after another was answered gets
   later values, also after a crash. *)
THEOREM SeqAscends ==
  ASSUME Gentle, ~Overlap
  PROVE  Spec => Ascends
<1> DEFINE A == \A t \in Thread : GetNext(t) =>
                  \A g \in given, a \in answer'[t] : g[1] = a[1] => Before(mem, g[2], a[2])
<1>1. SequenceInv /\ [Next]_vars => [A]_vars
  <2> SUFFICES ASSUME SequenceInv, NEW t \in Thread, GetNext(t), NEW g \in given, NEW a \in answer'[t],
                      g[1] = a[1]
               PROVE  Before(mem, g[2], a[2])
    OBVIOUS
  <2>1. mem # None
    BY Exists DEF GetNext, SequenceInv
  <2>2. Behind(g, mem) /\ g \in Era \X Int
    BY <2>1 DEF SequenceInv, AnswerInv, Safe, Covers, Current, Types
  <2> QED
    BY <2>2, NextAnswers DEF SequenceInv
<1> QED
  BY <1>1, SequenceInvariant, PTL DEF Spec, Ascends
=============================================================================
