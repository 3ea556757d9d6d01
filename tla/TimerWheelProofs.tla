--------------------------- MODULE TimerWheelProofs ----------------------------
(***************************************************************************)
(* Proofs about TimerWheel, for any layout of the wheel, any number of     *)
(* timers and of threads in tick(), and any clock.  That the wheel keeps   *)
(* time - no timer is passed over, none runs early, and those of one       *)
(* advance run in order - holds for any layout whose levels fit together,  *)
(* as long as no deadline wraps around the u64 it is kept in.              *)
(***************************************************************************)
EXTENDS TimerWheel, FiniteSetTheorems, SequenceTheorems, WellFoundedInduction, TLAPS

--------------------------------------------------------------------------------
(***************************************************************************)
(* Lemmas about the helpers of the model.                                  *)
(***************************************************************************)
LessNat == {ss \in Nat \X Nat : ss[1] < ss[2]}

\* The natural numbers are well founded, as a set of pairs.
LEMMA LessNatWellFounded == IsWellFoundedOn(LessNat, Nat)
BY NatLessThanWellFounded, Zenon DEF OpToRel, LessNat

\* Min is the smallest element of a set of ticks.
LEMMA MinIsLeast ==
    ASSUME NEW S, S \subseteq Nat, S # {}
    PROVE  Min(S) \in S /\ \A x \in S : Min(S) <= x
<1>1. PICK x \in S : \A y \in S : ~(<<y, x>> \in LessNat)
  BY LessNatWellFounded, WFMin
<1>2. ASSUME NEW y \in S
      PROVE  x <= y
  <2>1. ~(<<y, x>> \in LessNat)
    BY <1>1
  <2>2. <<y, x>> \in Nat \X Nat /\ <<y, x>>[1] = y /\ <<y, x>>[2] = x
    OBVIOUS
  <2>3. ~(y < x)
    BY <2>1, <2>2, Zenon DEF LessNat
  <2>. QED  BY <2>3
<1>. QED  BY <1>2 DEF Min

\* The smallest of what an Option knows and some ticks.
LEMMA MinTickType ==
    ASSUME NEW S, S \subseteq Nat
    PROVE  /\ MinTick(S) \in Nat \cup {None}
           /\ S = {} => MinTick(S) = None
           /\ S # {} => MinTick(S) \in S /\ \A x \in S : MinTick(S) <= x
BY MinIsLeast DEF MinTick

\* What is known of an optional tick is a set of at most one tick.
LEMMA KnownType ==
    ASSUME NEW opt \in OptTick
    PROVE  /\ Known(opt) \subseteq Nat
           /\ opt = None => Known(opt) = {}
           /\ opt # None => Known(opt) = {opt}
BY DEF Known, OptTick

\* The lowest level that reaches delta ticks ahead exists.
LEMMA LevelForDeltaType ==
    ASSUME NEW delta \in Nat
    PROVE  /\ LevelForDelta(delta) \in Levels
           /\ delta < Reach(LevelForDelta(delta)) \/ LevelForDelta(delta) = NumLevels - 1
           /\ \A k \in 0 .. LevelForDelta(delta) - 1 : delta >= Reach(k)
<1> USE LayoutAssumption
<1> DEFINE Reaching == {l \in Levels : delta < Reach(l) \/ l = NumLevels - 1}
<1>1. ASSUME NEW l \in Levels
      PROVE  Reach(l) \in Nat
  BY DEF Reach
<1>2. PICK lowest \in Reaching : \A l \in Reaching : lowest <= l
  <2>1. Reaching \subseteq Nat /\ NumLevels - 1 \in Reaching
    BY DEF Levels
  <2> HIDE DEF Reaching
  <2>. QED  BY <2>1, MinIsLeast
<1>3. ASSUME NEW k \in 0 .. lowest - 1
      PROVE  delta >= Reach(k)
  <2>1. k \in Levels /\ ~(lowest <= k)
    BY <1>2 DEF Levels
  <2>2. k \notin Reaching
    BY <1>2, <2>1
  <2>3. ~(delta < Reach(k))
    BY <2>1, <2>2
  <2>. QED  BY <1>1, <2>1, <2>3
<1>4. lowest \in Levels /\ (delta < Reach(lowest) \/ lowest = NumLevels - 1)
  BY <1>2
<1>. QED  BY <1>3, <1>4 DEF LevelForDelta

\* A deadline that is not too far has a cell of the wheel.
LEMMA CellOfIsCell ==
    ASSUME NEW c \in Nat, NEW deadline \in Nat
    PROVE  CellOf(c, deadline) \in Cells
<1> USE LayoutAssumption
<1>1. Monus(deadline, c) \in Nat
  BY DEF Monus
<1>2. LevelForDelta(Monus(deadline, c)) \in Levels
  BY <1>1, LevelForDeltaType
<1>3. ASSUME NEW l \in Levels
      PROVE  <<l, SlotOf(l, deadline)>> \in Cells
  <2>1. LevelSize[l] \in Nat \ {0} /\ Span[l] \in Nat \ {0}
    BY <1>3
  <2>2. deadline \div Span[l] \in Int
    BY <2>1
  <2>3. SlotOf(l, deadline) \in 0 .. LevelSize[l] - 1
    BY <2>1, <2>2 DEF SlotOf
  <2>. QED  BY <2>3 DEF Cells
<1>. QED  BY <1>2, <1>3 DEF CellOf

\* The slot under the cursor is a slot of the wheel.
LEMMA CursorCellIsCell ==
    ASSUME NEW c \in Nat, NEW l \in Levels
    PROVE  <<l, SlotOf(l, c)>> \in Cells
<1>1. LevelSize[l] \in Nat \ {0} /\ Span[l] \in Nat \ {0}
  BY LayoutAssumption
<1>2. c \div Span[l] \in Int
  BY <1>1
<1>3. SlotOf(l, c) \in 0 .. LevelSize[l] - 1
  BY <1>1, <1>2 DEF SlotOf
<1>. QED  BY <1>3 DEF Cells

\* EntriesOf lists the timers it is given, each of them once.
LEMMA EntriesOfOrder ==
    ASSUME TypeOK, NEW S, S \subseteq Live, IsFiniteSet(S), NEW order \in Orders(S)
    PROVE  /\ EntriesOf(order) \in Seq(Entry)
           /\ IdsOf(Elements(EntriesOf(order))) = S
           /\ \A i, j \in DOMAIN EntriesOf(order) :
                 EntriesOf(order)[i].id = EntriesOf(order)[j].id => i = j
           /\ EntriesOf(order) = << >> => S = {}
<1>1. PICK n \in Nat : n = Cardinality(S)
  <2>1. Cardinality(S) \in Nat
    BY FS_CardinalityType
  <2>. QED  BY <2>1
<1>2. order \in [1 .. n -> S] /\ DOMAIN order = 1 .. n
  BY <1>1 DEF Orders
<1>3. ASSUME NEW id \in S
      PROVE  EntryOf(id) \in Entry /\ EntryOf(id).id = id
  <2>1. timers[id] \in Timer /\ id \in TimerIds
    BY <1>3 DEF TypeOK
  <2>2. EntryOf(id).id = id
    BY DEF EntryOf
  <2>. QED  BY <2>1, <2>2 DEF EntryOf, Entry, Timer
<1>4. EntriesOf(order) = [i \in 1 .. n |-> EntryOf(order[i])]
  BY <1>2 DEF EntriesOf
<1>5. EntriesOf(order) \in [1 .. n -> Entry]
  BY <1>2, <1>3, <1>4
<1>6. EntriesOf(order) \in Seq(Entry)
  BY <1>5, SeqDef
<1>7. DOMAIN EntriesOf(order) = 1 .. n /\ \A i \in 1 .. n : EntriesOf(order)[i].id = order[i]
  BY <1>2, <1>3, <1>4
<1>8. IdsOf(Elements(EntriesOf(order))) = S
  <2>1. \A id \in S : \E i \in 1 .. n : order[i] = id
    BY <1>2 DEF Orders
  <2>2. ASSUME NEW e \in Elements(EntriesOf(order))
        PROVE  e.id \in S
    BY <1>2, <1>7 DEF Elements
  <2>3. ASSUME NEW id \in S
        PROVE  \E e \in Elements(EntriesOf(order)) : e.id = id
    BY <1>7, <2>1 DEF Elements
  <2>. QED  BY <2>2, <2>3 DEF IdsOf
<1>9. \A i, j \in 1 .. n : EntriesOf(order)[i].id = EntriesOf(order)[j].id => i = j
  <2>1. \A i, j \in 1 .. n : order[i] = order[j] => i = j
    BY <1>2 DEF Orders
  <2>. QED  BY <1>7, <2>1
<1>10. EntriesOf(order) = << >> => S = {}
  <2>1. ASSUME EntriesOf(order) = << >>, NEW id \in S
        PROVE  FALSE
    <3>1. PICK e \in Elements(EntriesOf(order)) : e.id = id
      BY <1>8 DEF IdsOf
    <3>. QED  BY <2>1, <3>1, EmptySeq DEF Elements
  <2>. QED  BY <2>1
<1>. QED  BY <1>6, <1>7, <1>8, <1>9, <1>10

\* No two entries of a batch are of the same timer.
Distinct(batch) ==
    \A i, j \in DOMAIN batch : batch[i].id = batch[j].id => i = j

\* An empty batch has no timers.
LEMMA NoEntries ==
    /\ << >> \in Seq(Entry)
    /\ IdsOf(Elements(<< >>)) = {}
    /\ Elements(<< >>) = {}
    /\ Distinct(<< >>)
BY EmptySeq DEF IdsOf, Elements, Distinct

\* Batches with no timer in common, one after the other.
LEMMA ConcatEntries ==
    ASSUME NEW a \in Seq(Entry), NEW b \in Seq(Entry)
    PROVE  /\ a \o b \in Seq(Entry)
           /\ Elements(a \o b) = Elements(a) \cup Elements(b)
           /\ IdsOf(Elements(a \o b)) = IdsOf(Elements(a)) \cup IdsOf(Elements(b))
           /\ (Distinct(a) /\ Distinct(b) /\ IdsOf(Elements(a)) \cap IdsOf(Elements(b)) = {})
                 => Distinct(a \o b)
<1>1. PICK c \in Seq(Entry) : c = a \o b
  BY ConcatProperties
<1>2. PICK m \in Nat : m = Len(a)
  BY LenProperties
<1>3. PICK n \in Nat : n = Len(b)
  BY LenProperties
<1>4. DOMAIN a = 1 .. m /\ DOMAIN b = 1 .. n /\ DOMAIN c = 1 .. m + n
  BY <1>1, <1>2, <1>3, LenProperties, ConcatProperties
<1>5. \A i \in 1 .. m + n : c[i] = IF i <= m THEN a[i] ELSE b[i - m]
  BY <1>1, <1>2, <1>3, ConcatProperties
<1>6. \A i \in 1 .. m : i \in 1 .. m + n /\ c[i] = a[i]
  BY <1>5
<1>7. \A i \in 1 .. n : m + i \in 1 .. m + n /\ c[m + i] = b[i]
  BY <1>5
<1>8. \A i \in 1 .. m + n : (i \in 1 .. m /\ c[i] = a[i]) \/ (i - m \in 1 .. n /\ c[i] = b[i - m])
  BY <1>5
<1>9. Elements(c) = Elements(a) \cup Elements(b)
  <2>1. \A x \in Elements(a) : x \in Elements(c)
    BY <1>4, <1>6 DEF Elements
  <2>2. \A x \in Elements(b) : x \in Elements(c)
    BY <1>4, <1>7 DEF Elements
  <2>3. \A x \in Elements(c) : x \in Elements(a) \/ x \in Elements(b)
    BY <1>4, <1>8 DEF Elements
  <2>. QED  BY <2>1, <2>2, <2>3
<1>10. IdsOf(Elements(c)) = IdsOf(Elements(a)) \cup IdsOf(Elements(b))
  BY <1>9 DEF IdsOf
<1>11. ASSUME Distinct(a), Distinct(b), IdsOf(Elements(a)) \cap IdsOf(Elements(b)) = {}
       PROVE  Distinct(c)
  <2>1. \A i \in 1 .. m, j \in 1 .. n : a[i].id # b[j].id
    BY <1>4, <1>11 DEF IdsOf, Elements
  <2>2. \A i, j \in 1 .. m : a[i].id = a[j].id => i = j
    BY <1>4, <1>11 DEF Distinct
  <2>3. \A i, j \in 1 .. n : b[i].id = b[j].id => i = j
    BY <1>4, <1>11 DEF Distinct
  <2>4. ASSUME NEW i \in 1 .. m + n, NEW j \in 1 .. m + n, c[i].id = c[j].id
        PROVE  i = j
    <3>1. CASE i <= m /\ j <= m
      BY <1>6, <2>2, <2>4, <3>1
    <3>2. CASE ~(i <= m) /\ ~(j <= m)
      <4>1. i - m \in 1 .. n /\ j - m \in 1 .. n /\ b[i - m].id = b[j - m].id
        BY <1>5, <2>4, <3>2
      <4>. QED  BY <2>3, <4>1
    <3>3. CASE i <= m /\ ~(j <= m)
      <4>1. i \in 1 .. m /\ j - m \in 1 .. n /\ a[i].id = b[j - m].id
        BY <1>5, <2>4, <3>3
      <4>. QED  BY <2>1, <4>1
    <3>4. CASE ~(i <= m) /\ j <= m
      <4>1. j \in 1 .. m /\ i - m \in 1 .. n /\ a[j].id = b[i - m].id
        BY <1>5, <2>4, <3>4
      <4>. QED  BY <2>1, <4>1
    <3>. QED  BY <3>1, <3>2, <3>3, <3>4
  <2>. QED  BY <1>4, <2>4 DEF Distinct
<1>. QED  BY <1>1, <1>9, <1>10, <1>11

\* The rest of a batch, without the entry that ran.
LEMMA TailEntries ==
    ASSUME NEW s \in Seq(Entry), s # << >>
    PROVE  /\ Head(s) \in Entry /\ Head(s) \in Elements(s)
           /\ Tail(s) \in Seq(Entry)
           /\ Elements(Tail(s)) \subseteq Elements(s)
           /\ Elements(s) = {Head(s)} \cup Elements(Tail(s))
           /\ Distinct(s) => Distinct(Tail(s)) /\ Head(s).id \notin IdsOf(Elements(Tail(s)))
<1>1. PICK rest \in Seq(Entry) : rest = Tail(s)
  BY HeadTailProperties
<1>2. PICK n \in Nat \ {0} : n = Len(s)
  BY EmptySeq
<1>3. Len(rest) = n - 1 /\ \A i \in 1 .. n - 1 : rest[i] = s[i + 1]
  BY <1>1, <1>2, HeadTailProperties
<1>4. DOMAIN s = 1 .. n /\ DOMAIN rest = 1 .. n - 1
  BY <1>2, <1>3, LenProperties
<1>5. Head(s) = s[1] /\ Head(s) \in Entry
  BY <1>2, ElementOfSeq
<1>6. Head(s) \in Elements(s)
  BY <1>4, <1>5 DEF Elements
<1>7. \A i \in 1 .. n - 1 : i + 1 \in 1 .. n /\ rest[i] = s[i + 1]
  BY <1>3
<1>8. \A i \in 1 .. n : s[i] = s[1] \/ (i - 1 \in 1 .. n - 1 /\ s[i] = rest[i - 1])
  BY <1>3
<1>9. Elements(rest) \subseteq Elements(s)
  BY <1>4, <1>7 DEF Elements
<1>10. Elements(s) = {Head(s)} \cup Elements(rest)
  BY <1>4, <1>5, <1>6, <1>8, <1>9 DEF Elements
<1>11. ASSUME Distinct(s)
       PROVE  Distinct(rest) /\ Head(s).id \notin IdsOf(Elements(rest))
  <2>1. \A i, j \in 1 .. n : s[i].id = s[j].id => i = j
    BY <1>4, <1>11 DEF Distinct
  <2>2. \A i, j \in 1 .. n - 1 : rest[i].id = rest[j].id => i = j
    BY SMTT(30), <1>7, <2>1
  <2>3. \A i \in 1 .. n - 1 : rest[i].id # s[1].id
    BY <1>7, <2>1
  <2>. QED  BY <1>4, <1>5, <2>2, <2>3 DEF Distinct, IdsOf, Elements
<1>. QED  BY <1>1, <1>5, <1>6, <1>9, <1>10, <1>11

--------------------------------------------------------------------------------
(***************************************************************************)
(* What the shared parts of the actions do to the state.                   *)
(***************************************************************************)
\* insert_into_wheel keeps the types.
LEMMA InsertType ==
    ASSUME NEW cells \in [Cells -> SUBSET TimerIds], NEW over \in SUBSET TimerIds,
           NEW overMin \in OptTick, NEW c \in Nat, NEW ids \in SUBSET TimerIds,
           NEW deadline \in [ids -> Nat],
           InsertIntoWheel(cells, over, overMin, c, ids, deadline)
    PROVE  /\ levels' \in [Cells -> SUBSET TimerIds]
           /\ overflow' \subseteq TimerIds
           /\ overflow_min_deadline' \in OptTick
<1>1. levels' \in [Cells -> SUBSET TimerIds]
  BY DEF InsertIntoWheel, Placed
<1>2. overflow' \subseteq TimerIds
  BY DEF InsertIntoWheel, Overflowing
<1>3. Known(overMin) \cup {deadline[id] : id \in Overflowing(c, ids, deadline)} \subseteq Nat
  BY KnownType DEF Overflowing
<1>4. overflow_min_deadline' \in OptTick
  BY <1>3, MinTickType DEF InsertIntoWheel, OptTick
<1>. QED  BY <1>1, <1>2, <1>4

\* DeadlinesOf is about live timers.
LEMMA DeadlinesOfType ==
    ASSUME TypeOK, NEW ids, ids \subseteq Live
    PROVE  DeadlinesOf(ids) \in [ids -> Nat] /\ \A id \in ids : DeadlinesOf(ids)[id] = Deadline(id)
<1>1. ids \cap Live = ids
  OBVIOUS
<1>2. \A id \in ids : timers[id] \in Timer
  BY DEF TypeOK
<1>. QED  BY <1>1, <1>2 DEF DeadlinesOf, Deadline, Timer

\* Adding timers that are not live.
LEMMA AddTimersType ==
    ASSUME TypeOK, timer_count = Cardinality(Live),
           NEW D \in SUBSET TimerIds, D \cap Live = {},
           NEW new \in [D -> Timer], AddTimers(new)
    PROVE  /\ Live' = Live \cup D
           /\ timers' \in [Live' -> Timer]
           /\ \A id \in Live : timers'[id] = timers[id]
           /\ \A id \in D : timers'[id] = new[id]
           /\ timer_count' = Cardinality(Live') /\ timer_count' \in Nat
           /\ levels' \in [Cells -> SUBSET TimerIds]
           /\ overflow' \subseteq TimerIds
           /\ overflow_min_deadline' \in OptTick
           /\ earliest_deadline' \in OptTick
<1>1. DOMAIN new = D
  OBVIOUS
<1>2. timers' = [id \in Live \cup D |-> IF id \in D THEN new[id] ELSE timers[id]]
  BY <1>1 DEF AddTimers
<1>3. Live' = Live \cup D
  BY <1>2 DEF Live
<1>4. /\ \A id \in D : timers'[id] = new[id] /\ new[id] \in Timer
      /\ \A id \in Live : timers'[id] = timers[id] /\ timers[id] \in Timer
  BY <1>2 DEF TypeOK
<1>5. timers' \in [Live' -> Timer]
  BY <1>2, <1>3, <1>4
<1>6. timer_count' = Cardinality(Live') /\ timer_count' \in Nat
  <2>1. IsFiniteSet(Live) /\ IsFiniteSet(D)
    BY TimerAssumption, FS_Subset DEF TypeOK
  <2>2. /\ Cardinality(Live \cup D) = Cardinality(Live) + Cardinality(D) - Cardinality(Live \cap D)
        /\ Cardinality(Live \cap D) = 0
        /\ Cardinality(Live) \in Nat /\ Cardinality(D) \in Nat
    <3>1. Live \cap D = {}
      OBVIOUS
    <3>. QED  BY <2>1, <3>1, FS_Union, FS_EmptySet, FS_CardinalityType
  <2>. QED  BY <1>1, <1>3, <2>2 DEF AddTimers
<1>7. PICK deadline \in [D -> Nat] :
          /\ deadline = [id \in D |-> new[id].deadline]
          /\ InsertIntoWheel(levels, overflow, overflow_min_deadline, current_tick, D, deadline)
  <2>1. [id \in D |-> new[id].deadline] \in [D -> Nat]
    BY DEF Timer
  <2>. QED  BY <1>1, <2>1 DEF AddTimers
<1>8. /\ levels' \in [Cells -> SUBSET TimerIds] /\ overflow' \subseteq TimerIds
      /\ overflow_min_deadline' \in OptTick
  BY <1>7, InsertType DEF TypeOK
<1>9. earliest_deadline' \in OptTick
  <2>1. Known(earliest_deadline) \cup {new[id].deadline : id \in D} \subseteq Nat
    BY KnownType DEF TypeOK, Timer
  <2>2. NoteInserted({new[id].deadline : id \in D})
    BY <1>1 DEF AddTimers
  <2>. QED  BY <2>1, <2>2, MinTickType DEF NoteInserted, OptTick
<1>. QED  BY <1>3, <1>4, <1>5, <1>6, <1>8, <1>9

\* Taking live timers out.
LEMMA TakeTimersType ==
    ASSUME TypeOK, timer_count = Cardinality(Live),
           NEW ids \in SUBSET Live, TakeTimers(ids)
    PROVE  /\ Live' = Live \ ids
           /\ timers' \in [Live' -> Timer]
           /\ \A id \in Live' : timers'[id] = timers[id]
           /\ timer_count' = Cardinality(Live') /\ timer_count' \in Nat
<1>1. timers' = [id \in Live \ ids |-> timers[id]]
  BY DEF TakeTimers, Restrict
<1>2. Live' = Live \ ids
  BY <1>1 DEF Live
<1>3. timers' \in [Live' -> Timer] /\ \A id \in Live' : timers'[id] = timers[id]
  BY <1>1, <1>2 DEF TypeOK
<1>4. timer_count' = Cardinality(Live') /\ timer_count' \in Nat
  <2>1. IsFiniteSet(Live) /\ IsFiniteSet(ids)
    BY TimerAssumption, FS_Subset DEF TypeOK
  <2>2. Live \cap ids = ids
    OBVIOUS
  <2>3. /\ IsFiniteSet(Live \ ids)
        /\ Cardinality(Live \ ids) = Cardinality(Live) - Cardinality(ids)
    BY <2>1, <2>2, FS_Difference
  <2>. QED  BY <1>2, <2>3, FS_CardinalityType DEF TakeTimers
<1>. QED  BY <1>2, <1>3, <1>4

\* TimerAfter makes a timer.
LEMMA TimerAfterType ==
    ASSUME TypeOK, NEW delay \in Delays, NEW period \in Periods
    PROVE  TimerAfter(delay, period) \in Timer
<1>1. delay \in Nat /\ clock \in Nat /\ TickModulus \in Nat \ {0}
  BY TimerAssumption DEF TypeOK
<1>2. (clock + delay) % TickModulus \in Nat /\ clock + delay \in Nat
  BY <1>1
<1>. QED  BY <1>2 DEF TimerAfter, Timer

--------------------------------------------------------------------------------
(***************************************************************************)
(* The first inductive invariant: types, the count of the live timers, and *)
(* whose hands a timer is in.                                              *)
(***************************************************************************)
\* What the place of a ticker in tick() says about the timers it holds.
Shape(t) ==
    /\ pc[t] \in {"advance", "cascade"} <=> mutex = t
    /\ pc[t] \in {"idle", "lock", "rearm", "unwound"} => expired[t] = << >>
    /\ pc[t] \notin {"fire", "rearm"} => to_reschedule[t] = {}
    /\ pc[t] \in {"mark", "fire"} => expired[t] # << >>
    /\ Held(t) \subseteq issued
    /\ \A e \in to_reschedule[t] : e.period # Once

HandsInv ==
    /\ TypeOK
    /\ timer_count = Cardinality(Live)
    /\ FiresOnce
    /\ \A t \in Tickers : Shape(t)

\* No ticker has a timer in its hands yet.
LEMMA InitHands == Init => HandsInv
<1> SUFFICES ASSUME Init PROVE HandsInv
  OBVIOUS
<1> USE TimerAssumption DEF Init
<1>1. Live = {} /\ timers \in [Live -> Timer]
  BY DEF Live
<1>2. TypeOK
  BY <1>1, NoEntries DEF TypeOK, OptTick, Places
<1>3. \A t \in Tickers : Held(t) = {}
  BY NoEntries DEF Held, IdsOf
<1>4. FiresOnce
  BY <1>1, <1>3, NoEntries DEF FiresOnce, IdsOf, Distinct
<1>5. \A t \in Tickers : Shape(t)
  BY <1>3 DEF Shape
<1>. QED  BY <1>1, <1>2, <1>4, <1>5, FS_EmptySet DEF HandsInv

\* A step of one ticker leaves what the others hold.
LEMMA FiresOnceKept ==
    ASSUME FiresOnce, NEW t \in Tickers,
           \A u \in Tickers \ {t} : expired'[u] = expired[u] /\ to_reschedule'[u] = to_reschedule[u],
           \A u \in Tickers : Held(u)' \cap Live' = {},
           \A u \in Tickers \ {t} : Held(t)' \cap Held(u) = {},
           IdsOf(Elements(expired'[t])) \cap IdsOf(to_reschedule'[t]) = {},
           Distinct(expired'[t])
    PROVE  FiresOnce'
<1>1. \A u \in Tickers \ {t} : Held(u)' = Held(u)
  BY DEF Held
<1>2. ASSUME NEW u \in Tickers, NEW v \in Tickers \ {u}
      PROVE  Held(u)' \cap Held(v)' = {}
  BY <1>1 DEF FiresOnce
<1>3. ASSUME NEW u \in Tickers
      PROVE  /\ IdsOf(Elements(expired'[u])) \cap IdsOf(to_reschedule'[u]) = {}
             /\ Distinct(expired'[u])
  BY DEF FiresOnce, Distinct
<1>. QED  BY <1>2, <1>3 DEF FiresOnce, Distinct

\* A step that takes no timer in or out and moves at most one ticker.
LEMMA HandsUnmoved ==
    ASSUME HandsInv, TypeOK', UNCHANGED <<timers, timer_count, issued, expired, to_reschedule>>
    PROVE  /\ timer_count' = Cardinality(Live')
           /\ FiresOnce'
           /\ \A t \in Tickers : (mutex' = mutex /\ pc'[t] = pc[t]) => Shape(t)'
<1>1. Live' = Live /\ \A t \in Tickers : Held(t)' = Held(t)
  BY DEF Live, Held
<1>2. FiresOnce'
  BY <1>1 DEF HandsInv, FiresOnce
<1>3. \A t \in Tickers : (mutex' = mutex /\ pc'[t] = pc[t]) => Shape(t)'
  BY <1>1 DEF HandsInv, Shape
<1>. QED  BY <1>1, <1>2, <1>3 DEF HandsInv

\* The steps that only move a ticker, the clock, a cancel mark or a cache.
LEMMA QuietHands ==
    ASSUME HandsInv,
           \/ AdvanceClock \/ TimeUntilNext
           \/ \E id \in TimerIds : CancelInFlight(id)
           \/ UNCHANGED vars
    PROVE  HandsInv'
<1> USE DEF wheelVars, liveVars, flightVars, tickVars, vars
<1>1. TypeOK'
  <2> USE DEF HandsInv
  <2>1. CASE AdvanceClock
    BY <2>1 DEF AdvanceClock, TypeOK, Live
  <2>2. CASE TimeUntilNext
    <3>1. {Deadline(id) : id \in Live} \subseteq Nat
      BY DEF Deadline, TypeOK, Timer
    <3>2. earliest_deadline' \in OptTick
      BY <2>2, <3>1, MinTickType DEF TimeUntilNext, OptTick
    <3>. QED  BY <2>2, <3>2 DEF TimeUntilNext, TypeOK, Live
  <2>3. CASE \E id \in TimerIds : CancelInFlight(id)
    BY <2>3 DEF CancelInFlight, TypeOK, Live
  <2>4. CASE UNCHANGED vars
    BY <2>4 DEF TypeOK, Live
  <2>. QED  BY <2>1, <2>2, <2>3, <2>4
<1>2. UNCHANGED <<timers, timer_count, issued, expired, to_reschedule, mutex, pc>>
  BY DEF AdvanceClock, TimeUntilNext, CancelInFlight
<1>. QED  BY <1>1, <1>2, HandsUnmoved DEF HandsInv

\* Steps of tick() that move no timer keep HandsInv.
LEMMA QuietTickHands ==
    ASSUME HandsInv, NEW t \in Tickers,
           ReadNow(t) \/ BeginAdvance(t) \/ EndCascade(t) \/ MarkInFlight(t)
    PROVE  HandsInv'
<1> USE DEF wheelVars, liveVars, flightVars, tickVars, vars, GoTo
<1>1. TypeOK'
  <2> USE DEF HandsInv, Places
  <2>1. CASE ReadNow(t)
    BY <2>1 DEF ReadNow, TypeOK, Live
  <2>2. CASE BeginAdvance(t)
    BY <2>2 DEF BeginAdvance, TypeOK, Live
  <2>3. CASE EndCascade(t)
    BY <2>3 DEF EndCascade, TypeOK, Live
  <2>4. CASE MarkInFlight(t)
    <3>1. expired[t] \in Seq(Entry)
      BY DEF TypeOK
    <3>2. Elements(expired[t]) \subseteq Entry
      BY <3>1, LenProperties, ElementOfSeq DEF Elements
    <3>3. IdsOf(Repeating(Elements(expired[t]))) \subseteq TimerIds
      BY <3>2 DEF IdsOf, Repeating, Entry
    <3>. QED  BY <2>4, <3>3 DEF MarkInFlight, TypeOK, Live
  <2>. QED  BY <2>1, <2>2, <2>3, <2>4
<1>2. UNCHANGED <<timers, timer_count, issued, expired, to_reschedule>>
  BY DEF ReadNow, BeginAdvance, EndCascade, MarkInFlight
<1>3. Shape(t)'
  <2>1. Held(t)' = Held(t)
    BY <1>2 DEF Held
  <2>2. Shape(t) /\ pc \in [Tickers -> Places] /\ t # None
    BY TimerAssumption DEF HandsInv, TypeOK
  <2>. QED  BY <1>2, <2>1, <2>2 DEF Shape, ReadNow, BeginAdvance, EndCascade, MarkInFlight
<1>4. ASSUME NEW u \in Tickers \ {t}
      PROVE  Shape(u)'
  <2>1. Held(u)' = Held(u)
    BY <1>2 DEF Held
  <2>2. Shape(u) /\ pc'[u] = pc[u] /\ u # None
    BY TimerAssumption DEF HandsInv, TypeOK, ReadNow, BeginAdvance, EndCascade, MarkInFlight
  <2>3. mutex' = u <=> mutex = u
    BY <2>2 DEF ReadNow, BeginAdvance, EndCascade, MarkInFlight
  <2>. QED  BY <1>2, <2>1, <2>2, <2>3 DEF Shape
<1>. QED  BY <1>1, <1>2, <1>3, <1>4, HandsUnmoved DEF HandsInv

\* schedule_once and schedule_repeating.
LEMMA ScheduleHands ==
    ASSUME HandsInv, NEW id \in TimerIds, NEW delay \in Delays, NEW period \in {Once, delay},
           Schedule(id, delay, period)
    PROVE  HandsInv'
<1> USE DEF wheelVars, liveVars, flightVars, tickVars, vars
<1>1. PICK new \in [{id} -> Timer] : AddTimers(new)
  <2>1. TimerAfter(delay, period) \in Timer
    BY TimerAfterType DEF HandsInv, Periods
  <2>2. [x \in {id} |-> TimerAfter(delay, period)] \in [{id} -> Timer]
    BY <2>1
  <2>. QED  BY <2>2 DEF Schedule
<1>2. id \notin Live /\ id \notin issued /\ issued' = issued \cup {id}
  BY DEF Schedule, HandsInv, TypeOK
<1>3. /\ Live' = Live \cup {id} /\ timers' \in [Live' -> Timer]
      /\ timer_count' = Cardinality(Live') /\ timer_count' \in Nat
      /\ levels' \in [Cells -> SUBSET TimerIds] /\ overflow' \subseteq TimerIds
      /\ overflow_min_deadline' \in OptTick /\ earliest_deadline' \in OptTick
  <2>1. {id} \in SUBSET TimerIds /\ {id} \cap Live = {}
    BY <1>2
  <2>. QED  BY <1>1, <2>1, AddTimersType DEF HandsInv
<1>4. TypeOK'
  BY <1>2, <1>3 DEF Schedule, HandsInv, TypeOK
<1>5. \A t \in Tickers : Held(t)' = Held(t) /\ id \notin Held(t)
  BY <1>2 DEF Schedule, Held, HandsInv, Shape
<1>6. FiresOnce'
  BY <1>3, <1>5 DEF Schedule, HandsInv, FiresOnce
<1>7. \A t \in Tickers : Shape(t)'
  BY <1>2, <1>5 DEF Schedule, HandsInv, Shape
<1>. QED  BY <1>3, <1>4, <1>6, <1>7 DEF HandsInv

\* cancel of a pending timer.
LEMMA CancelHands ==
    ASSUME HandsInv, NEW id \in TimerIds, CancelPending(id)
    PROVE  HandsInv'
<1> USE DEF wheelVars, liveVars, flightVars, tickVars, vars
<1>1. {id} \in SUBSET Live /\ TakeTimers({id})
  BY DEF CancelPending
<1>2. /\ Live' = Live \ {id} /\ timers' \in [Live' -> Timer]
      /\ timer_count' = Cardinality(Live') /\ timer_count' \in Nat
  BY <1>1, TakeTimersType DEF HandsInv
<1>3. earliest_deadline' \in OptTick
  BY DEF CancelPending, NoteRemoved, HandsInv, TypeOK, OptTick
<1>4. TypeOK'
  BY <1>2, <1>3 DEF CancelPending, HandsInv, TypeOK
<1>5. \A t \in Tickers : Held(t)' = Held(t)
  BY DEF CancelPending, Held
<1>6. FiresOnce'
  BY <1>2, <1>5 DEF CancelPending, HandsInv, FiresOnce
<1>7. \A t \in Tickers : Shape(t)'
  BY <1>5 DEF CancelPending, HandsInv, Shape
<1>. QED  BY <1>2, <1>4, <1>6, <1>7 DEF HandsInv

\* cascade, and the end of advance_to with its reinsert_overflow.
LEMMA CascadeHands ==
    ASSUME HandsInv, NEW t \in Tickers, Cascade(t)
    PROVE  HandsInv'
<1> USE DEF wheelVars, liveVars, flightVars, tickVars, vars
<1>1. /\ levels' \in [Cells -> SUBSET TimerIds] /\ overflow' \subseteq TimerIds
      /\ overflow_min_deadline' \in OptTick
  <2>1. PICK here : here = <<cascading[t], SlotOf(cascading[t], current_tick)>>
    OBVIOUS
  <2>2. PICK ids : ids = levels[here] \cap Live
    OBVIOUS
  <2>3. PICK cells : cells = [levels EXCEPT ![here] = {}]
    OBVIOUS
  <2>4. PICK deadline : deadline = DeadlinesOf(ids)
    OBVIOUS
  <2>5. InsertIntoWheel(cells, overflow, overflow_min_deadline, current_tick, ids, deadline)
    BY <2>1, <2>2, <2>3, <2>4 DEF Cascade
  <2>6. ids \in SUBSET TimerIds /\ deadline \in [ids -> Nat]
    BY <2>2, <2>4, DeadlinesOfType DEF HandsInv, TypeOK
  <2>7. cells \in [Cells -> SUBSET TimerIds]
    BY <2>3 DEF HandsInv, TypeOK
  <2>. QED  BY <2>5, <2>6, <2>7, InsertType DEF HandsInv, TypeOK
<1>2. TypeOK'
  BY SMTT(30), <1>1 DEF Cascade, HandsInv, TypeOK, Live
<1>3. UNCHANGED <<timers, timer_count, issued, expired, to_reschedule, mutex, pc>>
  BY DEF Cascade
<1>. QED  BY <1>2, <1>3, HandsUnmoved DEF HandsInv

\* The end of advance_to(), with its look at the overflow list, keeps HandsInv.
LEMMA EndAdvanceHands ==
    ASSUME HandsInv, NEW t \in Tickers, EndAdvance(t)
    PROVE  HandsInv'
<1> USE DEF wheelVars, liveVars, flightVars, tickVars, vars, GoTo
<1>1. /\ levels' \in [Cells -> SUBSET TimerIds] /\ overflow' \subseteq TimerIds
      /\ overflow_min_deadline' \in OptTick
  <2>1. CASE OverflowInRange
    <3>1. PICK ids : ids = overflow \cap Live
      OBVIOUS
    <3>2. PICK deadline : deadline = DeadlinesOf(ids)
      OBVIOUS
    <3>3. InsertIntoWheel(levels, {}, None, current_tick, ids, deadline)
      BY <2>1, <3>1, <3>2 DEF EndAdvance
    <3>4. ids \in SUBSET TimerIds /\ deadline \in [ids -> Nat] /\ None \in OptTick
      BY <3>1, <3>2, DeadlinesOfType DEF HandsInv, TypeOK, OptTick
    <3>. QED  BY <3>3, <3>4, InsertType DEF HandsInv, TypeOK
  <2>2. CASE ~OverflowInRange
    BY <2>2 DEF EndAdvance, HandsInv, TypeOK
  <2>. QED  BY <2>1, <2>2
<1>2. pc[t] = "advance" /\ mutex = t /\ t # None /\ AfterAdvance(expired[t]) \in {"idle", "mark"}
  BY TimerAssumption DEF EndAdvance, HandsInv, Shape, AfterAdvance
<1>3. TypeOK'
  <2>1. earliest_deadline' \in OptTick
    BY DEF EndAdvance, HandsInv, TypeOK, OptTick
  <2>2. pc' \in [Tickers -> Places] /\ now' \in [Tickers -> Nat]
    BY <1>2 DEF EndAdvance, HandsInv, TypeOK, Places
  <2>. QED  BY <1>1, <2>1, <2>2 DEF EndAdvance, HandsInv, TypeOK, Live
<1>4. UNCHANGED <<timers, timer_count, issued, expired, to_reschedule>>
  BY DEF EndAdvance
<1>5. ASSUME NEW u \in Tickers
      PROVE  Shape(u)'
  <2>1. Held(u)' = Held(u)
    BY <1>4 DEF Held
  <2>2. Shape(u) /\ pc \in [Tickers -> Places] /\ mutex' = None /\ u # None
    BY TimerAssumption DEF EndAdvance, HandsInv, TypeOK
  <2>3. CASE u = t
    BY <1>2, <1>4, <2>1, <2>2, <2>3 DEF Shape, EndAdvance, AfterAdvance
  <2>4. CASE u # t
    <3>1. pc'[u] = pc[u] /\ mutex # u
      BY <1>2, <2>2, <2>4 DEF EndAdvance
    <3>. QED  BY <1>4, <2>1, <2>2, <3>1 DEF Shape
  <2>. QED  BY <2>3, <2>4
<1>. QED  BY <1>3, <1>4, <1>5, HandsUnmoved DEF HandsInv

\* The slot the cursor is in is fired.
LEMMA FireSlotHands ==
    ASSUME HandsInv, NEW t \in Tickers, FireSlot(t)
    PROVE  HandsInv'
<1> USE DEF wheelVars, liveVars, flightVars, tickVars, vars, GoTo
<1>1. PICK due : due = levels[CursorCell(current_tick)] \cap Live
  OBVIOUS
<1>2. PICK order \in Orders(due) : expired' = [expired EXCEPT ![t] = @ \o EntriesOf(order)]
  BY <1>1 DEF FireSlot
<1>3. PICK batch \in Seq(Entry) :
          /\ batch = EntriesOf(order)
          /\ IdsOf(Elements(batch)) = due /\ Distinct(batch)
  <2>1. due \subseteq Live /\ IsFiniteSet(due)
    BY <1>1, TimerAssumption, FS_Subset DEF HandsInv, TypeOK
  <2>. QED  BY <2>1, EntriesOfOrder DEF HandsInv, Distinct
<1>4. PICK old \in Seq(Entry) :
          old = expired[t] /\ IdsOf(Elements(old)) \subseteq Held(t) /\ Distinct(old)
  BY DEF HandsInv, TypeOK, Held, IdsOf, FiresOnce, Distinct
<1>5. expired' = [expired EXCEPT ![t] = old \o batch] /\ expired'[t] = old \o batch
  BY <1>2, <1>3, <1>4 DEF HandsInv, TypeOK
<1>6. /\ Live' = Live \ due /\ timers' \in [Live' -> Timer]
      /\ timer_count' = Cardinality(Live') /\ timer_count' \in Nat
  <2>1. due \in SUBSET Live /\ TakeTimers(due)
    BY <1>1 DEF FireSlot
  <2>. QED  BY <2>1, TakeTimersType DEF HandsInv
<1>7. /\ pc[t] = "advance" /\ mutex = t /\ t # None
      /\ to_reschedule[t] = {} /\ Held(t) \cap Live = {}
  BY TimerAssumption DEF FireSlot, HandsInv, Shape, FiresOnce
<1>8. /\ expired'[t] \in Seq(Entry)
      /\ IdsOf(Elements(expired'[t])) = IdsOf(Elements(old)) \cup due
      /\ Distinct(expired'[t])
  <2>1. IdsOf(Elements(old)) \cap IdsOf(Elements(batch)) = {}
    BY <1>1, <1>3, <1>4, <1>7
  <2>2. /\ old \o batch \in Seq(Entry)
        /\ IdsOf(Elements(old \o batch)) = IdsOf(Elements(old)) \cup IdsOf(Elements(batch))
        /\ Distinct(old \o batch)
    BY <1>3, <1>4, <2>1, ConcatEntries
  <2>. QED  BY <1>3, <1>5, <2>2
<1>9. TypeOK'
  <2>1. current_tick' \in Nat
    BY DEF FireSlot, HandsInv, TypeOK
  <2>2. levels' \in [Cells -> SUBSET TimerIds] /\ pc' \in [Tickers -> Places]
    BY DEF FireSlot, HandsInv, TypeOK, Places
  <2>3. expired' \in [Tickers -> Seq(Entry)]
    BY <1>5, <1>8 DEF HandsInv, TypeOK
  <2>. QED  BY <1>6, <2>1, <2>2, <2>3 DEF FireSlot, HandsInv, TypeOK
<1>10. Held(t)' = Held(t) \cup due
  <2>1. to_reschedule'[t] = {} /\ IdsOf({}) = {}
    BY <1>7 DEF FireSlot, IdsOf
  <2>2. Held(t) = IdsOf(Elements(old))
    BY <1>4, <1>7 DEF Held
  <2>3. Held(t)' = IdsOf(Elements(expired'[t]))
    BY <2>1 DEF Held
  <2>. QED  BY <1>8, <2>2, <2>3
<1>11. \A u \in Tickers \ {t} : expired'[u] = expired[u] /\ to_reschedule'[u] = to_reschedule[u]
  BY <1>5 DEF FireSlot, HandsInv, TypeOK
<1>12. \A u \in Tickers \ {t} : Held(u)' = Held(u)
  BY <1>11 DEF Held
<1>13. FiresOnce'
  <2>1. \A u \in Tickers : Held(u)' \cap Live' = {}
    BY <1>6, <1>10, <1>12 DEF HandsInv, FiresOnce
  <2>2. \A u \in Tickers \ {t} : Held(t)' \cap Held(u) = {}
    BY <1>1, <1>10 DEF HandsInv, FiresOnce
  <2>3. IdsOf(Elements(expired'[t])) \cap IdsOf(to_reschedule'[t]) = {}
    BY <1>7 DEF FireSlot, IdsOf
  <2>. QED  BY <1>8, <1>11, <2>1, <2>2, <2>3, FiresOnceKept DEF HandsInv
<1>14. ASSUME NEW u \in Tickers
       PROVE  Shape(u)'
  <2>1. Shape(u) /\ due \subseteq issued /\ UNCHANGED <<issued, mutex, to_reschedule>>
    BY <1>1 DEF HandsInv, TypeOK, FireSlot
  <2>2. CASE u = t
    <3>1. pc'[t] = "cascade"
      BY DEF FireSlot, HandsInv, TypeOK
    <3>. QED  BY <1>7, <1>10, <2>1, <2>2, <3>1 DEF Shape
  <2>3. CASE u # t
    <3>1. pc'[u] = pc[u]
      BY <2>3 DEF FireSlot, HandsInv, TypeOK
    <3>. QED  BY <1>11, <1>12, <2>1, <2>3, <3>1 DEF Shape
  <2>. QED  BY <2>2, <2>3
<1>. QED  BY <1>6, <1>9, <1>13, <1>14 DEF HandsInv

\* A jump of the clock drains the whole wheel.
LEMMA DrainHands ==
    ASSUME HandsInv, NEW t \in Tickers, DrainDueInto(t)
    PROVE  HandsInv'
<1> USE DEF wheelVars, liveVars, flightVars, tickVars, vars, GoTo
<1>1. PICK ids : ids = (overflow \cup UNION {levels[cell] : cell \in Cells}) \cap Live
  OBVIOUS
<1>2. PICK due : due = ids \cap JumpDue(now[t])
  OBVIOUS
<1>3. PICK order \in Orders(due) :
          /\ expired' = [expired EXCEPT ![t] = EntriesOf(order)]
          /\ pc' = [pc EXCEPT ![t] = AfterAdvance(EntriesOf(order))]
  BY <1>1, <1>2 DEF DrainDueInto
<1>4. PICK batch \in Seq(Entry) :
          /\ batch = EntriesOf(order)
          /\ IdsOf(Elements(batch)) = due /\ Distinct(batch)
  <2>1. due \subseteq Live /\ IsFiniteSet(due)
    BY <1>1, <1>2, TimerAssumption, FS_Subset DEF HandsInv, TypeOK
  <2>. QED  BY <2>1, EntriesOfOrder DEF HandsInv, Distinct
<1>5. /\ Live' = Live \ due /\ timers' \in [Live' -> Timer]
      /\ timer_count' = Cardinality(Live') /\ timer_count' \in Nat
  <2>1. due \in SUBSET Live /\ TakeTimers(due)
    BY <1>1, <1>2 DEF DrainDueInto
  <2>. QED  BY <2>1, TakeTimersType DEF HandsInv
<1>6. /\ pc[t] = "lock" /\ mutex = None /\ mutex' = None /\ t # None
      /\ to_reschedule[t] = {} /\ to_reschedule' = to_reschedule
  BY TimerAssumption DEF DrainDueInto, HandsInv, Shape
<1>7. expired' = [expired EXCEPT ![t] = batch] /\ expired'[t] = batch
  BY <1>3, <1>4 DEF HandsInv, TypeOK
<1>8. TypeOK'
  <2>1. /\ levels' \in [Cells -> SUBSET TimerIds] /\ overflow' \subseteq TimerIds
        /\ overflow_min_deadline' \in OptTick
    <3>1. PICK cells : cells = [cell \in Cells |-> {}]
      OBVIOUS
    <3>2. PICK rest : rest = ids \ due
      OBVIOUS
    <3>3. PICK deadline : deadline = DeadlinesOf(rest)
      OBVIOUS
    <3>4. PICK target \in Nat : target = now[t]
      BY DEF HandsInv, TypeOK
    <3>5. InsertIntoWheel(cells, {}, None, target, rest, deadline)
      BY <1>1, <1>2, <3>1, <3>2, <3>3, <3>4 DEF DrainDueInto
    <3>6. rest \in SUBSET TimerIds /\ deadline \in [rest -> Nat] /\ None \in OptTick
      BY <1>1, <3>2, <3>3, DeadlinesOfType DEF HandsInv, TypeOK, OptTick
    <3>7. cells \in [Cells -> SUBSET TimerIds]
      BY <3>1
    <3>. QED  BY <3>5, <3>6, <3>7, InsertType DEF HandsInv, TypeOK
  <2>2. current_tick' \in Nat /\ now' \in [Tickers -> Nat] /\ earliest_deadline' \in OptTick
    BY DEF DrainDueInto, HandsInv, TypeOK, OptTick
  <2>3. pc' \in [Tickers -> Places]
    BY <1>3 DEF AfterAdvance, HandsInv, TypeOK, Places
  <2>4. expired' \in [Tickers -> Seq(Entry)]
    BY <1>7 DEF HandsInv, TypeOK
  <2>. QED  BY <1>5, <2>1, <2>2, <2>3, <2>4 DEF DrainDueInto, HandsInv, TypeOK
<1>9. Held(t)' = due
  <2>1. to_reschedule'[t] = {} /\ IdsOf({}) = {}
    BY <1>6 DEF IdsOf
  <2>2. Held(t)' = IdsOf(Elements(expired'[t]))
    BY <2>1 DEF Held
  <2>. QED  BY <1>4, <1>7, <2>2
<1>10. \A u \in Tickers \ {t} : expired'[u] = expired[u] /\ to_reschedule'[u] = to_reschedule[u]
  BY <1>6, <1>7 DEF HandsInv, TypeOK
<1>11. \A u \in Tickers \ {t} : Held(u)' = Held(u)
  BY <1>10 DEF Held
<1>12. FiresOnce'
  <2>1. \A u \in Tickers : Held(u)' \cap Live' = {}
    BY <1>5, <1>9, <1>11 DEF HandsInv, FiresOnce
  <2>2. \A u \in Tickers \ {t} : Held(t)' \cap Held(u) = {}
    BY <1>1, <1>2, <1>9 DEF HandsInv, FiresOnce
  <2>3. IdsOf(Elements(expired'[t])) \cap IdsOf(to_reschedule'[t]) = {}
    BY <1>6 DEF IdsOf
  <2>4. Distinct(expired'[t])
    BY <1>4, <1>7
  <2>. QED  BY <1>10, <2>1, <2>2, <2>3, <2>4, FiresOnceKept DEF HandsInv
<1>13. ASSUME NEW u \in Tickers
       PROVE  Shape(u)'
  <2>1. Shape(u) /\ due \subseteq issued /\ issued' = issued
    BY <1>1, <1>2 DEF HandsInv, TypeOK, DrainDueInto
  <2>2. CASE u = t
    <3>1. pc'[t] = IF expired'[t] = << >> THEN "idle" ELSE "mark"
      BY <1>3, <1>4, <1>7 DEF HandsInv, TypeOK, AfterAdvance
    <3>. QED  BY <1>6, <1>9, <2>1, <2>2, <3>1 DEF Shape
  <2>3. CASE u # t
    <3>1. pc'[u] = pc[u]
      BY <1>3, <2>3 DEF HandsInv, TypeOK
    <3>. QED  BY <1>6, <1>10, <1>11, <2>1, <2>3, <3>1 DEF Shape
  <2>. QED  BY <2>2, <2>3
<1>. QED  BY <1>5, <1>8, <1>12, <1>13 DEF HandsInv

\* A callback runs: its entry leaves the batch, and is kept if it repeats.
LEMMA FireCallbackHands ==
    ASSUME HandsInv, NEW t \in Tickers, FireCallback(t)
    PROVE  HandsInv'
<1> USE DEF wheelVars, liveVars, flightVars, tickVars, vars, GoTo
<1>1. /\ pc[t] = "fire" /\ expired[t] # << >> /\ expired[t] \in Seq(Entry) /\ Distinct(expired[t])
      /\ to_reschedule[t] \in SUBSET Entry /\ mutex # t
  BY DEF FireCallback, HandsInv, Shape, TypeOK, FiresOnce, Distinct
<1>2. PICK e \in Entry : e = Head(expired[t]) /\ e \in Elements(expired[t])
  BY <1>1, TailEntries
<1>3. PICK rest \in Seq(Entry) :
          /\ rest = Tail(expired[t])
          /\ Elements(expired[t]) = {e} \cup Elements(rest)
          /\ Distinct(rest) /\ e.id \notin IdsOf(Elements(rest))
  BY <1>1, <1>2, TailEntries
<1>4. PICK again \in SUBSET Entry :
          /\ again = to_reschedule[t] \cup Repeating({e})
          /\ to_reschedule' = [to_reschedule EXCEPT ![t] = again]
          /\ expired' = [expired EXCEPT ![t] = rest]
          /\ pc' = [pc EXCEPT ![t] = AfterFire(rest, again)]
  <2>1. to_reschedule[t] \cup Repeating({e}) \in SUBSET Entry
    BY <1>1, <1>2 DEF Repeating
  <2>. QED  BY <1>2, <1>3, <2>1 DEF FireCallback
<1>5. expired'[t] = rest /\ to_reschedule'[t] = again
  BY <1>4 DEF HandsInv, TypeOK
<1>6. pc'[t] = IF rest # << >> THEN "fire" ELSE IF again # {} THEN "rearm" ELSE "idle"
  BY <1>4, Zenon DEF HandsInv, TypeOK, AfterFire
<1>7. TypeOK'
  <2>1. pc' \in [Tickers -> Places]
    BY <1>4, <1>6 DEF HandsInv, TypeOK, Places
  <2>2. expired' \in [Tickers -> Seq(Entry)] /\ to_reschedule' \in [Tickers -> SUBSET Entry]
    BY <1>4 DEF HandsInv, TypeOK
  <2>. QED  BY <2>1, <2>2 DEF FireCallback, HandsInv, TypeOK, Live
<1>8. /\ IdsOf(Elements(rest)) \subseteq IdsOf(Elements(expired[t]))
      /\ IdsOf(again) \subseteq IdsOf(to_reschedule[t]) \cup {e.id}
      /\ e.id \in IdsOf(Elements(expired[t]))
  BY <1>2, <1>3, <1>4 DEF IdsOf, Repeating
<1>9. Held(t)' \subseteq Held(t)
  <2>1. Held(t) = IdsOf(Elements(expired[t])) \cup IdsOf(to_reschedule[t])
    BY DEF Held, IdsOf
  <2>2. Held(t)' = IdsOf(Elements(rest)) \cup IdsOf(again)
    BY <1>5 DEF Held, IdsOf
  <2>. QED  BY <1>8, <2>1, <2>2
<1>10. \A u \in Tickers \ {t} : expired'[u] = expired[u] /\ to_reschedule'[u] = to_reschedule[u]
  BY <1>4 DEF HandsInv, TypeOK
<1>11. \A u \in Tickers \ {t} : Held(u)' = Held(u)
  BY <1>10 DEF Held
<1>12. Live' = Live /\ UNCHANGED <<timer_count, issued, mutex>>
  BY DEF FireCallback, Live
<1>13. FiresOnce'
  <2>1. \A u \in Tickers : Held(u)' \cap Live' = {}
    BY <1>9, <1>11, <1>12 DEF HandsInv, FiresOnce
  <2>2. \A u \in Tickers \ {t} : Held(t)' \cap Held(u) = {}
    BY <1>9 DEF HandsInv, FiresOnce
  <2>3. IdsOf(Elements(expired'[t])) \cap IdsOf(to_reschedule'[t]) = {}
    <3>1. IdsOf(Elements(expired[t])) \cap IdsOf(to_reschedule[t]) = {}
      BY DEF HandsInv, FiresOnce
    <3>. QED  BY <1>3, <1>5, <1>8, <3>1
  <2>4. Distinct(expired'[t])
    BY <1>3, <1>5
  <2>. QED  BY <1>10, <2>1, <2>2, <2>3, <2>4, FiresOnceKept DEF HandsInv
<1>14. ASSUME NEW u \in Tickers
       PROVE  Shape(u)'
  <2>1. Shape(u)
    BY DEF HandsInv
  <2>2. CASE u = t
    <3>1. \A x \in again : x.period # Once
      BY <1>4, <2>1, <2>2 DEF Shape, Repeating
    <3>2. again = {} \/ pc'[t] \in {"fire", "rearm"}
      BY <1>6
    <3>. QED  BY <1>1, <1>5, <1>6, <1>9, <1>12, <2>1, <2>2, <3>1, <3>2 DEF Shape
  <2>3. CASE u # t
    <3>1. pc'[u] = pc[u]
      BY <1>4, <2>3 DEF HandsInv, TypeOK
    <3>. QED  BY <1>10, <1>11, <1>12, <2>1, <2>3, <3>1 DEF Shape
  <2>. QED  BY <2>2, <2>3
<1>. QED  BY <1>7, <1>12, <1>13, <1>14 DEF HandsInv

\* A callback panics: what the ticker held is gone.
LEMMA PanicHands ==
    ASSUME HandsInv, NEW t \in Tickers, CallbackPanics(t)
    PROVE  HandsInv'
<1> USE DEF wheelVars, liveVars, flightVars, tickVars, vars, GoTo
<1>1. /\ pc[t] = "fire" /\ pc'[t] = "unwound" /\ mutex # t
      /\ expired'[t] = << >> /\ to_reschedule'[t] = {}
  BY DEF CallbackPanics, HandsInv, Shape, TypeOK
<1>2. \A u \in Tickers \ {t} :
          expired'[u] = expired[u] /\ to_reschedule'[u] = to_reschedule[u] /\ pc'[u] = pc[u]
  BY DEF CallbackPanics, HandsInv, TypeOK
<1>3. Held(t)' = {} /\ \A u \in Tickers \ {t} : Held(u)' = Held(u)
  BY <1>1, <1>2, NoEntries DEF Held, IdsOf
<1>4. Live' = Live /\ UNCHANGED <<timer_count, issued, mutex>>
  BY DEF CallbackPanics, Live
<1>5. TypeOK'
  BY NoEntries DEF CallbackPanics, HandsInv, TypeOK, Live, Places
<1>6. FiresOnce'
  <2>1. \A u \in Tickers : Held(u)' \cap Live' = {}
    BY <1>3, <1>4 DEF HandsInv, FiresOnce
  <2>2. IdsOf(Elements(expired'[t])) \cap IdsOf(to_reschedule'[t]) = {} /\ Distinct(expired'[t])
    BY <1>1, NoEntries
  <2>. QED  BY <1>2, <1>3, <2>1, <2>2, FiresOnceKept DEF HandsInv
<1>7. \A u \in Tickers : Shape(u)'
  BY <1>1, <1>2, <1>3, <1>4 DEF HandsInv, Shape
<1>. QED  BY <1>4, <1>5, <1>6, <1>7 DEF HandsInv

\* The survivors of a batch, as timers to arm again.
LEMMA RearmedType ==
    ASSUME HandsInv, NEW t \in Tickers,
           NEW surv \in SUBSET Entry, surv = Survivors(t), pc[t] = "rearm"
    PROVE  [id \in IdsOf(surv) |-> LET e == CHOOSE x \in surv : x.id = id
                                   IN TimerAfter(e.period, e.period)]
             \in [IdsOf(surv) -> Timer]
<1>1. ASSUME NEW id \in IdsOf(surv)
      PROVE  (LET e == CHOOSE x \in surv : x.id = id IN TimerAfter(e.period, e.period)) \in Timer
  <2>1. PICK x \in surv : x.id = id
    BY DEF IdsOf
  <2>2. PICK e \in surv : e = CHOOSE y \in surv : y.id = id
    BY <2>1
  <2>3. e \in to_reschedule[t] /\ e \in Entry
    BY <2>2 DEF Survivors
  <2>4. e.period # Once /\ e.period \in Periods
    BY <2>3 DEF HandsInv, Shape, Entry
  <2>5. e.period \in Delays
    BY <2>4 DEF Periods
  <2>6. TimerAfter(e.period, e.period) \in Timer
    BY <2>4, <2>5, TimerAfterType DEF HandsInv
  <2>. QED  BY <2>2, <2>6
<1>. QED  BY <1>1

\* The third critical section: the survivors are live again.
LEMMA RearmHands ==
    ASSUME HandsInv, NEW t \in Tickers, Rearm(t)
    PROVE  HandsInv'
<1> USE DEF wheelVars, liveVars, flightVars, tickVars, vars, GoTo
<1>1. PICK surv \in SUBSET Entry : surv = Survivors(t) /\ surv \subseteq to_reschedule[t]
  BY DEF Survivors, HandsInv, TypeOK
<1>2. pc[t] = "rearm" /\ expired[t] = << >> /\ mutex = None /\ mutex # t
  BY TimerAssumption DEF Rearm, HandsInv, Shape
<1>3. PICK D \in SUBSET TimerIds : D = IdsOf(surv)
  BY DEF IdsOf, Entry
<1>4. PICK new \in [D -> Timer] : AddTimers(new)
  BY <1>1, <1>2, <1>3, RearmedType DEF Rearm
<1>5. D \subseteq Held(t) /\ D \cap Live = {}
  <2>1. D \subseteq Held(t)
    BY <1>1, <1>3 DEF Held, IdsOf
  <2>. QED  BY <2>1 DEF HandsInv, FiresOnce
<1>6. /\ Live' = Live \cup D /\ timers' \in [Live' -> Timer]
      /\ timer_count' = Cardinality(Live') /\ timer_count' \in Nat
      /\ levels' \in [Cells -> SUBSET TimerIds] /\ overflow' \subseteq TimerIds
      /\ overflow_min_deadline' \in OptTick /\ earliest_deadline' \in OptTick
  BY <1>4, <1>5, AddTimersType DEF HandsInv
<1>7. /\ expired' = expired /\ to_reschedule'[t] = {} /\ pc'[t] = "idle"
      /\ \A u \in Tickers \ {t} : to_reschedule'[u] = to_reschedule[u] /\ pc'[u] = pc[u]
      /\ UNCHANGED <<issued, mutex>>
  BY DEF Rearm, HandsInv, TypeOK
<1>8. TypeOK'
  <2>1. Live' \subseteq issued'
    BY <1>5, <1>6, <1>7 DEF HandsInv, TypeOK, Shape
  <2>2. pc' \in [Tickers -> Places] /\ to_reschedule' \in [Tickers -> SUBSET Entry]
    BY DEF Rearm, HandsInv, TypeOK, Places
  <2>3. in_flight' \subseteq TimerIds /\ canceled_in_flight' \subseteq TimerIds
    BY DEF Rearm, HandsInv, TypeOK
  <2>. QED  BY <1>6, <2>1, <2>2, <2>3 DEF Rearm, HandsInv, TypeOK
<1>9. Held(t)' = {} /\ \A u \in Tickers \ {t} : Held(u)' = Held(u)
  BY <1>2, <1>7, NoEntries DEF Held, IdsOf
<1>10. FiresOnce'
  <2>1. \A u \in Tickers : Held(u)' \cap Live' = {}
    BY <1>5, <1>6, <1>9 DEF HandsInv, FiresOnce
  <2>2. IdsOf(Elements(expired'[t])) \cap IdsOf(to_reschedule'[t]) = {} /\ Distinct(expired'[t])
    BY <1>2, <1>7, NoEntries
  <2>3. \A u \in Tickers \ {t} : expired'[u] = expired[u] /\ to_reschedule'[u] = to_reschedule[u]
    BY <1>7
  <2>. QED  BY <1>9, <2>1, <2>2, <2>3, FiresOnceKept DEF HandsInv
<1>11. \A u \in Tickers : Shape(u)'
  BY <1>2, <1>7, <1>9 DEF HandsInv, Shape
<1>. QED  BY <1>6, <1>8, <1>10, <1>11 DEF HandsInv

\* Every step keeps HandsInv.
LEMMA NextHands ==
    ASSUME HandsInv, [Next]_vars
    PROVE  HandsInv'
<1>1. ASSUME NEW t \in Tickers, Tick(t)
      PROVE  HandsInv'
  BY <1>1, QuietTickHands, CascadeHands, EndAdvanceHands, FireSlotHands, DrainHands,
     FireCallbackHands, PanicHands, RearmHands DEF Tick
<1>2. CASE Call
  BY <1>2, QuietHands, ScheduleHands, CancelHands DEF Call
<1>. QED  BY <1>1, <1>2, QuietHands DEF Next

\* HandsInv holds in every reachable state.
LEMMA Hands == Spec => []HandsInv
<1>1. HandsInv /\ [Next]_vars => HandsInv'
  BY NextHands
<1>. QED  BY <1>1, InitHands, PTL DEF Spec

\* The state keeps its types, whatever the threads do: the count of pending
\* timers, a usize, never goes below zero, and only issued timers are live.
THEOREM TypeCorrect == Spec => []TypeOK
BY Hands, PTL DEF HandsInv

\* A timer is in the hands of at most one tick() at a time, once, and then it
\* is not in the wheel: two threads in tick() never both run it.
THEOREM RunsOnce == Spec => []FiresOnce
BY Hands, PTL DEF HandsInv

--------------------------------------------------------------------------------
(***************************************************************************)
(* Where the timers are: a live timer in one place, a timer that a tick()  *)
(* took out, or one not issued yet, in none.                               *)
(***************************************************************************)
Nowhere(id) == id \notin overflow /\ CellsWith(id) = {}

TakenOut(id) == \E t \in Tickers : id \in Held(t)

PlaceInv ==
    /\ \A id \in Live : PlacedOnce(id)
    /\ \A id \in TimerIds : id \notin issued \/ TakenOut(id) => Nowhere(id)

\* insert_into_wheel puts each of its timers in one place and moves no other.
LEMMA InsertPlaces ==
    ASSUME NEW cells \in [Cells -> SUBSET TimerIds], NEW over \in SUBSET TimerIds,
           NEW overMin, NEW c \in Nat, NEW ids \in SUBSET TimerIds,
           NEW deadline \in [ids -> Nat],
           InsertIntoWheel(cells, over, overMin, c, ids, deadline),
           \A id \in ids : id \notin over /\ \A cell \in Cells : id \notin cells[cell]
    PROVE  /\ \A id \in ids : PlacedOnce(id)'
           /\ \A id : id \notin ids =>
                 /\ id \in overflow' <=> id \in over
                 /\ \A cell \in Cells : id \in levels'[cell] <=> id \in cells[cell]
<1>1. \A cell \in Cells : levels'[cell] =
          cells[cell] \cup {id \in ids : ~TooFar(c, deadline[id]) /\ CellOf(c, deadline[id]) = cell}
  BY DEF InsertIntoWheel, Placed
<1>2. overflow' = over \cup {id \in ids : TooFar(c, deadline[id])}
  BY DEF InsertIntoWheel, Overflowing
<1>3. ASSUME NEW id \in ids
      PROVE  PlacedOnce(id)'
  <2>1. PICK home \in Cells : home = CellOf(c, deadline[id])
    BY CellOfIsCell
  <2>2. CASE TooFar(c, deadline[id])
    <3>1. id \in overflow' /\ \A cell \in Cells : id \notin levels'[cell]
      BY <1>1, <1>2, <2>2
    <3>. QED  BY <3>1 DEF PlacedOnce, CellsWith
  <2>3. CASE ~TooFar(c, deadline[id])
    <3>1. id \notin overflow' /\ \A cell \in Cells : id \in levels'[cell] <=> cell = home
      BY <1>1, <1>2, <2>1, <2>3
    <3>2. {cell \in Cells : id \in levels'[cell]} = {home}
      BY <2>1, <3>1
    <3>. QED  BY <2>1, <3>1, <3>2 DEF PlacedOnce, CellsWith
  <2>. QED  BY <2>2, <2>3
<1>. QED  BY <1>1, <1>2, <1>3

\* A live timer's place, spelled out.
LEMMA PlaceOfLive ==
    ASSUME PlaceInv, NEW id \in Live
    PROVE  /\ id \in overflow => \A cell \in Cells : id \notin levels[cell]
           /\ \A cell \in Cells : id \in levels[cell] =>
                 id \notin overflow /\ \A other \in Cells : id \in levels[other] => other = cell
           /\ id \in overflow \/ \E cell \in Cells : id \in levels[cell]
BY DEF PlaceInv, PlacedOnce, CellsWith

\* A timer that is where it was is placed as it was.
LEMMA SamePlace ==
    ASSUME NEW id,
           id \in overflow' <=> id \in overflow,
           \A cell \in Cells : id \in levels'[cell] <=> id \in levels[cell]
    PROVE  /\ PlacedOnce(id) => PlacedOnce(id)'
           /\ Nowhere(id) => Nowhere(id)'
<1>1. CellsWith(id)' = CellsWith(id)
  BY DEF CellsWith
<1>. QED  BY <1>1 DEF PlacedOnce, Nowhere

\* Steps that take timers neither into the wheel nor out of it.
LEMMA PlaceUnmoved ==
    ASSUME PlaceInv, UNCHANGED <<levels, overflow, issued>>, Live' \subseteq Live,
           \A t \in Tickers : Held(t)' \subseteq Held(t)
    PROVE  PlaceInv'
<1>1. \A id : PlacedOnce(id)' = PlacedOnce(id) /\ Nowhere(id)' = Nowhere(id)
  BY DEF PlacedOnce, Nowhere, CellsWith
<1>2. \A id : TakenOut(id)' => TakenOut(id)
  BY DEF TakenOut
<1>. QED  BY <1>1, <1>2 DEF PlaceInv

\* No timer is anywhere yet.
LEMMA InitPlace == Init => PlaceInv
<1> SUFFICES ASSUME Init PROVE PlaceInv
  OBVIOUS
<1>1. Live = {} /\ \A id \in TimerIds : Nowhere(id)
  BY DEF Init, Live, Nowhere, CellsWith
<1>. QED  BY <1>1 DEF PlaceInv

\* Steps outside tick() that insert nothing keep PlaceInv.
LEMMA QuietPlace ==
    ASSUME HandsInv, PlaceInv,
           \/ AdvanceClock \/ TimeUntilNext \/ UNCHANGED vars
           \/ \E id \in TimerIds : CancelPending(id) \/ CancelInFlight(id)
           \/ \E t \in Tickers : ReadNow(t) \/ BeginAdvance(t) \/ EndCascade(t) \/ MarkInFlight(t)
    PROVE  PlaceInv'
<1> USE DEF wheelVars, liveVars, flightVars, tickVars, vars
<1>1. UNCHANGED <<levels, overflow, issued, expired, to_reschedule>>
  BY DEF AdvanceClock, TimeUntilNext, CancelPending, CancelInFlight, ReadNow, BeginAdvance,
         EndCascade, MarkInFlight
<1>2. Live' \subseteq Live
  <2>1. CASE \E id \in TimerIds : CancelPending(id)
    BY <2>1 DEF CancelPending, TakeTimers, Restrict, Live
  <2>2. CASE UNCHANGED timers
    BY <2>2 DEF Live
  <2>. QED
    BY <2>1, <2>2 DEF AdvanceClock, TimeUntilNext, CancelInFlight, ReadNow, BeginAdvance,
                      EndCascade, MarkInFlight
<1>3. \A t \in Tickers : Held(t)' = Held(t)
  BY <1>1 DEF Held
<1>. QED  BY <1>1, <1>2, <1>3, PlaceUnmoved

\* A new timer gets one place.
LEMMA SchedulePlace ==
    ASSUME HandsInv, PlaceInv, NEW id \in TimerIds, NEW delay \in Delays,
           NEW period \in {Once, delay}, Schedule(id, delay, period)
    PROVE  PlaceInv'
<1> USE DEF wheelVars, liveVars, flightVars, tickVars, vars
<1>1. PICK timer \in Timer : timer = TimerAfter(delay, period)
  BY TimerAfterType DEF HandsInv, Periods
<1>2. PICK deadline \in [{id} -> Nat] :
          InsertIntoWheel(levels, overflow, overflow_min_deadline, current_tick, {id}, deadline)
  <2>1. PICK new : new = [x \in {id} |-> timer]
    OBVIOUS
  <2>2. DOMAIN new = {id} /\ AddTimers(new)
    BY <1>1, <2>1 DEF Schedule
  <2>3. [x \in {id} |-> new[x].deadline] \in [{id} -> Nat]
    BY <2>1 DEF Timer
  <2>. QED  BY <2>2, <2>3 DEF AddTimers
<1>3. id \notin issued /\ issued' = issued \cup {id} /\ Nowhere(id)
  BY DEF Schedule, PlaceInv
<1>4. Live' = Live \cup {id}
  <2>1. PICK new : new = [x \in {id} |-> timer]
    OBVIOUS
  <2>2. DOMAIN new = {id} /\ AddTimers(new)
    BY <1>1, <2>1 DEF Schedule
  <2>. QED  BY <2>2 DEF AddTimers, Live
<1>5. \A t \in Tickers : Held(t)' = Held(t) /\ id \notin Held(t)
  BY <1>3 DEF Schedule, Held, HandsInv, Shape
<1>6. /\ PlacedOnce(id)'
      /\ \A x : x # id =>
            /\ x \in overflow' <=> x \in overflow
            /\ \A cell \in Cells : x \in levels'[cell] <=> x \in levels[cell]
  <2>1. /\ levels \in [Cells -> SUBSET TimerIds] /\ overflow \in SUBSET TimerIds
        /\ current_tick \in Nat /\ {id} \in SUBSET TimerIds
    BY DEF HandsInv, TypeOK
  <2>2. \A x \in {id} : x \notin overflow /\ \A cell \in Cells : x \notin levels[cell]
    BY <1>3 DEF Nowhere, CellsWith
  <2>3. /\ \A x \in {id} : PlacedOnce(x)'
        /\ \A x : x \notin {id} =>
              /\ x \in overflow' <=> x \in overflow
              /\ \A cell \in Cells : x \in levels'[cell] <=> x \in levels[cell]
    BY <1>2, <2>1, <2>2, InsertPlaces
  <2>. QED  BY <2>3
<1>7. \A x : x # id => (PlacedOnce(x) => PlacedOnce(x)') /\ (Nowhere(x) => Nowhere(x)')
  BY <1>6, SamePlace
<1>8. \A x : TakenOut(x)' => TakenOut(x) /\ x # id
  BY <1>5 DEF TakenOut
<1>. QED  BY <1>3, <1>4, <1>6, <1>7, <1>8 DEF PlaceInv

\* A slot that fires leaves the timers of the others in their places.
LEMMA FireSlotPlace ==
    ASSUME HandsInv, PlaceInv, NEW t \in Tickers, FireSlot(t)
    PROVE  PlaceInv'
<1> USE DEF wheelVars, liveVars, flightVars, tickVars, vars
<1>1. PICK here \in Cells : here = CursorCell(current_tick)
  <2>1. 0 \in Levels
    BY LayoutAssumption DEF Levels
  <2>. QED  BY <2>1, CursorCellIsCell DEF CursorCell, HandsInv, TypeOK
<1>2. PICK due : due = levels[here] \cap Live
  OBVIOUS
<1>3. levels' = [levels EXCEPT ![here] = {}] /\ UNCHANGED <<overflow, issued>>
  BY <1>1 DEF FireSlot
<1>4. Live' = Live \ due
  BY <1>1, <1>2 DEF FireSlot, TakeTimers, Restrict, Live
<1>5. Held(t)' \subseteq Held(t) \cup due /\ \A u \in Tickers \ {t} : Held(u)' = Held(u)
  <2>1. PICK order \in Orders(due) : expired' = [expired EXCEPT ![t] = @ \o EntriesOf(order)]
    BY <1>1, <1>2 DEF FireSlot
  <2>2. PICK batch \in Seq(Entry) : batch = EntriesOf(order) /\ IdsOf(Elements(batch)) = due
    <3>1. due \subseteq Live /\ IsFiniteSet(due)
      BY <1>2, TimerAssumption, FS_Subset DEF HandsInv, TypeOK
    <3>. QED  BY <3>1, EntriesOfOrder DEF HandsInv
  <2>3. PICK old \in Seq(Entry) : old = expired[t]
    BY DEF HandsInv, TypeOK
  <2>4. expired'[t] = old \o batch /\ to_reschedule' = to_reschedule
        /\ \A u \in Tickers \ {t} : expired'[u] = expired[u]
    BY <2>1, <2>2, <2>3 DEF FireSlot, HandsInv, TypeOK
  <2>5. Elements(old \o batch) = Elements(old) \cup Elements(batch)
    BY <2>2, <2>3, ConcatEntries
  <2>6. Held(t)' = IdsOf(Elements(old) \cup Elements(batch) \cup to_reschedule[t])
    BY <2>4, <2>5 DEF Held
  <2>7. Held(t) = IdsOf(Elements(old) \cup to_reschedule[t])
    BY <2>3 DEF Held
  <2>8. Held(t)' \subseteq Held(t) \cup due
    BY <2>2, <2>6, <2>7 DEF IdsOf
  <2>. QED  BY <2>4, <2>8 DEF Held
<1>6. ASSUME NEW id \in due
      PROVE  Nowhere(id)'
  <2>1. id \notin overflow /\ \A cell \in Cells : id \in levels[cell] => cell = here
    BY <1>2, PlaceOfLive
  <2>2. \A cell \in Cells : id \notin levels'[cell]
    BY <1>3, <2>1 DEF HandsInv, TypeOK
  <2>. QED  BY <1>3, <2>1, <2>2 DEF Nowhere, CellsWith
<1>7. ASSUME NEW id, id \notin levels[here]
      PROVE  (PlacedOnce(id) => PlacedOnce(id)') /\ (Nowhere(id) => Nowhere(id)')
  <2>1. \A cell \in Cells : id \in levels'[cell] <=> id \in levels[cell]
    BY <1>3, <1>7 DEF HandsInv, TypeOK
  <2>. QED  BY <1>3, <2>1, SamePlace
<1>8. ASSUME NEW id \in Live'
      PROVE  PlacedOnce(id)'
  <2>1. id \in Live /\ id \notin levels[here]
    BY <1>2, <1>4
  <2>. QED  BY <1>7, <2>1 DEF PlaceInv
<1>9. ASSUME NEW id \in TimerIds, id \notin issued \/ TakenOut(id)'
      PROVE  Nowhere(id)'
  <2>1. CASE id \in due
    BY <1>6, <2>1
  <2>2. CASE id \notin due
    <3>1. id \notin issued \/ TakenOut(id)
      BY <1>5, <1>9, <2>2 DEF TakenOut
    <3>2. Nowhere(id)
      BY <3>1 DEF PlaceInv
    <3>3. id \notin levels[here]
      BY <3>2 DEF Nowhere, CellsWith
    <3>. QED  BY <1>7, <3>2, <3>3
  <2>. QED  BY <2>1, <2>2
<1>. QED  BY <1>3, <1>8, <1>9 DEF PlaceInv

\* A cascade gives each timer of the slot another place, or takes it out.
LEMMA CascadePlace ==
    ASSUME HandsInv, PlaceInv, NEW t \in Tickers, Cascade(t)
    PROVE  PlaceInv'
<1> USE DEF wheelVars, liveVars, flightVars, tickVars, vars
<1>1. PICK here \in Cells : here = <<cascading[t], SlotOf(cascading[t], current_tick)>>
  <2>1. cascading[t] \in Levels /\ current_tick \in Nat
    BY LayoutAssumption DEF Cascade, Wrapped, Levels, HandsInv, TypeOK
  <2>. QED  BY <2>1, CursorCellIsCell
<1>2. PICK ids : ids = levels[here] \cap Live
  OBVIOUS
<1>3. PICK cells \in [Cells -> SUBSET TimerIds] : cells = [levels EXCEPT ![here] = {}]
  BY DEF HandsInv, TypeOK
<1>4. PICK deadline \in [ids -> Nat] :
          InsertIntoWheel(cells, overflow, overflow_min_deadline, current_tick, ids, deadline)
  <2>1. DeadlinesOf(ids) \in [ids -> Nat]
    BY <1>2, DeadlinesOfType DEF HandsInv
  <2>. QED  BY <1>1, <1>2, <1>3, <2>1 DEF Cascade
<1>5. UNCHANGED <<timers, issued, expired, to_reschedule>>
  BY DEF Cascade
<1>6. \A id \in ids : id \notin overflow /\ \A cell \in Cells : id \notin cells[cell]
  BY <1>2, <1>3, PlaceOfLive DEF HandsInv, TypeOK
<1>7. /\ \A id \in ids : PlacedOnce(id)'
      /\ \A id : id \notin ids =>
            /\ id \in overflow' <=> id \in overflow
            /\ \A cell \in Cells : id \in levels'[cell] <=> id \in cells[cell]
  <2>1. ids \in SUBSET TimerIds /\ overflow \in SUBSET TimerIds /\ current_tick \in Nat
    BY <1>2 DEF HandsInv, TypeOK
  <2>. QED  BY <1>4, <1>6, <2>1, InsertPlaces
<1>8. ASSUME NEW id, id \notin levels[here]
      PROVE  (PlacedOnce(id) => PlacedOnce(id)') /\ (Nowhere(id) => Nowhere(id)')
  <2>1. \A cell \in Cells : id \in cells[cell] <=> id \in levels[cell]
    BY <1>3, <1>8 DEF HandsInv, TypeOK
  <2>2. id \notin ids
    BY <1>2, <1>8
  <2>. QED  BY <1>7, <2>1, <2>2, SamePlace
<1>9. ASSUME NEW id \in Live
      PROVE  PlacedOnce(id)'
  BY <1>2, <1>7, <1>8 DEF PlaceInv
<1>10. ASSUME NEW id \in TimerIds, id \notin issued \/ TakenOut(id)
       PROVE  Nowhere(id)'
  <2>1. Nowhere(id)
    BY <1>10 DEF PlaceInv
  <2>2. id \notin levels[here]
    BY <2>1 DEF Nowhere, CellsWith
  <2>. QED  BY <1>8, <2>1, <2>2
<1>11. Live' = Live /\ \A id : TakenOut(id)' = TakenOut(id)
  BY <1>5 DEF Live, TakenOut, Held
<1>. QED  BY <1>5, <1>9, <1>10, <1>11 DEF PlaceInv

\* The overflow list's timers that come into reach get one place each.
LEMMA EndAdvancePlace ==
    ASSUME HandsInv, PlaceInv, NEW t \in Tickers, EndAdvance(t)
    PROVE  PlaceInv'
<1> USE DEF wheelVars, liveVars, flightVars, tickVars, vars
<1>1. UNCHANGED <<timers, issued, expired, to_reschedule>>
  BY DEF EndAdvance
<1>2. Live' = Live /\ \A u \in Tickers : Held(u)' = Held(u)
  BY <1>1 DEF Live, Held
<1>3. CASE ~OverflowInRange
  BY <1>1, <1>2, <1>3, PlaceUnmoved DEF EndAdvance
<1>4. CASE OverflowInRange
  <2>1. PICK ids : ids = overflow \cap Live
    OBVIOUS
  <2>. PICK none \in SUBSET TimerIds : none = {}
    OBVIOUS
  <2>2. PICK deadline \in [ids -> Nat] :
            InsertIntoWheel(levels, none, None, current_tick, ids, deadline)
    <3>1. DeadlinesOf(ids) \in [ids -> Nat]
      BY <2>1, DeadlinesOfType DEF HandsInv
    <3>. QED  BY <1>4, <2>1, <3>1 DEF EndAdvance
  <2>3. \A id \in ids : id \notin none /\ \A cell \in Cells : id \notin levels[cell]
    BY <2>1, PlaceOfLive
  <2>4. /\ \A id \in ids : PlacedOnce(id)'
        /\ \A id : id \notin ids =>
              /\ id \in overflow' <=> id \in none
              /\ \A cell \in Cells : id \in levels'[cell] <=> id \in levels[cell]
    <3>1. ids \in SUBSET TimerIds /\ current_tick \in Nat
          /\ levels \in [Cells -> SUBSET TimerIds]
      BY <2>1 DEF HandsInv, TypeOK
    <3>. QED  BY <2>2, <2>3, <3>1, InsertPlaces
  <2>5. ASSUME NEW id, id \notin overflow
        PROVE  (PlacedOnce(id) => PlacedOnce(id)') /\ (Nowhere(id) => Nowhere(id)')
    BY <2>1, <2>4, <2>5, SamePlace
  <2>6. ASSUME NEW id \in Live
        PROVE  PlacedOnce(id)'
    BY <2>1, <2>4, <2>5 DEF PlaceInv
  <2>7. ASSUME NEW id \in TimerIds, id \notin issued \/ TakenOut(id)
        PROVE  Nowhere(id)'
    BY <2>5, <2>7 DEF PlaceInv, Nowhere
  <2>8. \A id : TakenOut(id)' = TakenOut(id)
    BY <1>2 DEF TakenOut
  <2>. QED  BY <1>1, <1>2, <2>6, <2>7, <2>8 DEF PlaceInv
<1>. QED  BY <1>3, <1>4

\* A drain leaves each timer that is not due in one place.
LEMMA DrainPlace ==
    ASSUME HandsInv, PlaceInv, NEW t \in Tickers, DrainDueInto(t)
    PROVE  PlaceInv'
<1> USE DEF wheelVars, liveVars, flightVars, tickVars, vars
<1>1. PICK ids : ids = (overflow \cup UNION {levels[cell] : cell \in Cells}) \cap Live
  OBVIOUS
<1>2. ids = Live
  BY <1>1, PlaceOfLive
<1>3. PICK due : due = ids \cap JumpDue(now[t])
  OBVIOUS
<1>4. PICK rest \in SUBSET TimerIds : rest = ids \ due
  BY <1>2 DEF HandsInv, TypeOK
<1>5. Live' = rest /\ issued' = issued
  BY <1>1, <1>2, <1>3, <1>4 DEF DrainDueInto, TakeTimers, Restrict, Live
<1>6. PICK none \in SUBSET TimerIds : none = {}
  OBVIOUS
<1>7. PICK empty \in [Cells -> SUBSET TimerIds] : empty = [cell \in Cells |-> {}]
  <2>1. [cell \in Cells |-> {}] \in [Cells -> SUBSET TimerIds]
    OBVIOUS
  <2>. QED  BY <2>1
<1>8. PICK target \in Nat : target = now[t]
  BY DEF HandsInv, TypeOK
<1>9. PICK deadline \in [rest -> Nat] :
          InsertIntoWheel(empty, none, None, target, rest, deadline)
  <2>1. DeadlinesOf(rest) \in [rest -> Nat]
    BY <1>2, <1>4, DeadlinesOfType DEF HandsInv
  <2>. QED  BY <1>1, <1>3, <1>4, <1>6, <1>7, <1>8, <2>1 DEF DrainDueInto
<1>10. /\ \A id \in rest : PlacedOnce(id)'
       /\ \A id : id \notin rest =>
             /\ id \in overflow' <=> id \in none
             /\ \A cell \in Cells : id \in levels'[cell] <=> id \in empty[cell]
  <2>1. \A id \in rest : id \notin none /\ \A cell \in Cells : id \notin empty[cell]
    BY <1>6, <1>7
  <2>. QED  BY <1>9, <2>1, InsertPlaces
<1>11. \A id : id \notin rest => Nowhere(id)'
  BY <1>6, <1>7, <1>10 DEF Nowhere, CellsWith
<1>12. ASSUME NEW id \in TimerIds, id \notin issued \/ TakenOut(id)'
       PROVE  id \notin rest
  <2>1. DrainDueInto(t) => FiresOnce'
    BY DrainHands DEF HandsInv
  <2>2. TakenOut(id)' => id \notin Live'
    BY <2>1 DEF TakenOut, FiresOnce
  <2>. QED  BY <1>2, <1>4, <1>5, <1>12, <2>2 DEF HandsInv, TypeOK
<1>. QED  BY <1>5, <1>10, <1>11, <1>12 DEF PlaceInv

\* Callbacks run timers that are in no place.
LEMMA CallbackPlace ==
    ASSUME HandsInv, PlaceInv, NEW t \in Tickers, FireCallback(t) \/ CallbackPanics(t)
    PROVE  PlaceInv'
<1> USE DEF wheelVars, liveVars, flightVars, tickVars, vars
<1>1. UNCHANGED <<levels, overflow, issued>> /\ Live' = Live
  BY DEF FireCallback, CallbackPanics, Live
<1>2. \A u \in Tickers \ {t} : expired'[u] = expired[u] /\ to_reschedule'[u] = to_reschedule[u]
  BY DEF FireCallback, CallbackPanics, HandsInv, TypeOK
<1>3. Held(t)' \subseteq Held(t)
  <2>1. CASE FireCallback(t)
    <3>1. expired[t] \in Seq(Entry) /\ expired[t] # << >>
      BY <2>1 DEF FireCallback, HandsInv, Shape, TypeOK
    <3>2. Head(expired[t]) \in Elements(expired[t])
          /\ Elements(Tail(expired[t])) \subseteq Elements(expired[t])
      BY <3>1, TailEntries
    <3>3. /\ expired'[t] = Tail(expired[t])
          /\ to_reschedule'[t] \subseteq to_reschedule[t] \cup {Head(expired[t])}
      BY <2>1 DEF FireCallback, HandsInv, TypeOK, Repeating
    <3>4. Elements(expired'[t]) \cup to_reschedule'[t] \subseteq Elements(expired[t]) \cup to_reschedule[t]
      BY <3>2, <3>3
    <3>. QED  BY <3>4 DEF Held, IdsOf
  <2>2. CASE CallbackPanics(t)
    <3>1. expired'[t] = << >> /\ to_reschedule'[t] = {}
      BY <2>2 DEF CallbackPanics, HandsInv, TypeOK
    <3>. QED  BY <3>1, NoEntries DEF Held, IdsOf
  <2>. QED  BY <2>1, <2>2
<1>4. \A u \in Tickers : Held(u)' \subseteq Held(u)
  BY <1>2, <1>3 DEF Held
<1>. QED  BY <1>1, <1>4, PlaceUnmoved

\* A timer that is armed again gets one place.
LEMMA RearmPlace ==
    ASSUME HandsInv, PlaceInv, NEW t \in Tickers, Rearm(t)
    PROVE  PlaceInv'
<1> USE DEF wheelVars, liveVars, flightVars, tickVars, vars, GoTo
<1>1. PICK surv \in SUBSET Entry : surv = Survivors(t) /\ surv \subseteq to_reschedule[t]
  BY DEF Survivors, HandsInv, TypeOK
<1>2. pc[t] = "rearm" /\ expired[t] = << >>
  BY DEF Rearm, HandsInv, Shape
<1>3. PICK D \in SUBSET TimerIds : D = IdsOf(surv)
  BY DEF IdsOf, Entry
<1>4. PICK new \in [D -> Timer] : AddTimers(new) /\ DOMAIN new = D
  BY <1>1, <1>2, <1>3, RearmedType DEF Rearm
<1>5. PICK deadline \in [D -> Nat] :
          InsertIntoWheel(levels, overflow, overflow_min_deadline, current_tick, D, deadline)
  <2>1. [id \in D |-> new[id].deadline] \in [D -> Nat]
    BY DEF Timer
  <2>. QED  BY <1>4, <2>1 DEF AddTimers
<1>6. Live' = Live \cup D
  BY <1>4 DEF AddTimers, Live
<1>7. D \subseteq Held(t) /\ \A id \in D : Nowhere(id)
  BY <1>1, <1>3 DEF Held, IdsOf, PlaceInv, TakenOut
<1>8. /\ \A id \in D : PlacedOnce(id)'
      /\ \A id : id \notin D =>
            /\ id \in overflow' <=> id \in overflow
            /\ \A cell \in Cells : id \in levels'[cell] <=> id \in levels[cell]
  <2>1. levels \in [Cells -> SUBSET TimerIds] /\ overflow \in SUBSET TimerIds /\ current_tick \in Nat
    BY DEF HandsInv, TypeOK
  <2>2. \A id \in D : id \notin overflow /\ \A cell \in Cells : id \notin levels[cell]
    BY <1>7 DEF Nowhere, CellsWith
  <2>. QED  BY <1>5, <2>1, <2>2, InsertPlaces
<1>9. \A id : id \notin D => (PlacedOnce(id) => PlacedOnce(id)') /\ (Nowhere(id) => Nowhere(id)')
  BY <1>8, SamePlace
<1>10. expired' = expired /\ to_reschedule'[t] = {} /\ issued' = issued
       /\ \A u \in Tickers \ {t} : to_reschedule'[u] = to_reschedule[u]
  BY DEF Rearm, HandsInv, TypeOK
<1>11. Held(t)' = {} /\ \A u \in Tickers \ {t} : Held(u)' = Held(u)
  BY <1>2, <1>10, NoEntries DEF Held, IdsOf
<1>12. \A id : TakenOut(id)' => TakenOut(id) /\ id \notin D
  BY <1>7, <1>11 DEF TakenOut, HandsInv, FiresOnce
<1>13. D \subseteq issued
  BY <1>7 DEF HandsInv, Shape
<1>14. ASSUME NEW id \in Live'
       PROVE  PlacedOnce(id)'
  BY <1>6, <1>8, <1>9 DEF PlaceInv
<1>15. ASSUME NEW id \in TimerIds, id \notin issued \/ TakenOut(id)'
       PROVE  Nowhere(id)'
  <2>1. Nowhere(id) /\ id \notin D
    BY <1>12, <1>13, <1>15 DEF PlaceInv
  <2>. QED  BY <1>9, <2>1
<1>. QED  BY <1>10, <1>14, <1>15 DEF PlaceInv

\* Every step keeps PlaceInv.
LEMMA NextPlace ==
    ASSUME HandsInv, PlaceInv, [Next]_vars
    PROVE  PlaceInv'
<1>1. ASSUME NEW t \in Tickers, Tick(t)
      PROVE  PlaceInv'
  BY <1>1, QuietPlace, FireSlotPlace, CascadePlace, EndAdvancePlace, DrainPlace,
     CallbackPlace, RearmPlace DEF Tick
<1>2. CASE Call
  BY <1>2, QuietPlace, SchedulePlace DEF Call
<1>. QED  BY <1>1, <1>2, QuietPlace DEF Next

\* PlaceInv holds in every reachable state.
LEMMA InPlace == Spec => []PlaceInv
<1>1. HandsInv /\ PlaceInv /\ [Next]_vars => PlaceInv'
  BY NextPlace
<1>. QED  BY <1>1, InitPlace, Hands, PTL DEF Spec

\* A live timer is in exactly one slot or in the overflow list, and the count
\* is right: cascading, re-inserting and draining lose and double no timer.
THEOREM NoTimerLost == Spec => []AccountedFor
<1>1. HandsInv /\ PlaceInv => AccountedFor
  BY DEF HandsInv, PlaceInv, AccountedFor
<1>. QED  BY <1>1, Hands, InPlace, PTL

--------------------------------------------------------------------------------
(***************************************************************************)
(* Cancels: what is in flight is in the hands of a ticker, repeats, and a  *)
(* confirmed cancel of it is on record until the third critical section.   *)
(***************************************************************************)
InHands(t) == Elements(expired[t]) \cup to_reschedule[t]

CancelInv ==
    /\ confirmed \subseteq issued \ Live
    /\ in_flight \subseteq issued \ Live
    /\ \A t \in Tickers : \A e \in InHands(t) :
         /\ e.id \in in_flight => e.period # Once
         /\ e.id \in confirmed => e.id \in canceled_in_flight
    /\ InFlightTracked

\* What is in the hands of a ticker are entries of the timers it holds.
LEMMA InHandsHeld ==
    ASSUME HandsInv, NEW t \in Tickers
    PROVE  /\ InHands(t) \subseteq Entry
           /\ \A e \in InHands(t) : e.id \in Held(t) /\ e.id \in issued \ Live
           /\ Marked(t) \subseteq Held(t)
           /\ \A u \in Tickers \ {t} : \A e \in InHands(t) : e.id \notin Held(u)
<1>1. expired[t] \in Seq(Entry) /\ to_reschedule[t] \in SUBSET Entry
  BY DEF HandsInv, TypeOK
<1>2. Elements(expired[t]) \subseteq Entry
  BY <1>1, LenProperties, ElementOfSeq DEF Elements
<1>3. \A e \in InHands(t) : e.id \in Held(t)
  BY DEF InHands, Held, IdsOf
<1>4. Held(t) \subseteq issued \ Live /\ \A u \in Tickers \ {t} : Held(t) \cap Held(u) = {}
  BY DEF HandsInv, Shape, FiresOnce
<1>5. Marked(t) \subseteq Held(t)
  BY DEF Marked, Held, IdsOf, Repeating
<1>. QED  BY <1>1, <1>2, <1>3, <1>4, <1>5 DEF InHands

\* A step that leaves the flight alone, and moves timers only between the
\* wheel and a ticker that is about to advance or has just done so.
LEMMA CancelKept ==
    ASSUME HandsInv, CancelInv,
           UNCHANGED <<in_flight, canceled_in_flight>>,
           confirmed' \subseteq issued' \ Live',
           in_flight' \subseteq issued' \ Live',
           \A t \in Tickers : Marked(t)' = Marked(t),
           \A t \in Tickers : \A e \in InHands(t)' :
               \/ e \in InHands(t) /\ (e.id \in confirmed' => e.id \in confirmed)
               \/ e.id \notin confirmed' /\ e.id \notin in_flight'
    PROVE  CancelInv'
<1>1. InFlightTracked'
  BY DEF CancelInv, InFlightTracked
<1>2. ASSUME NEW t \in Tickers, NEW e \in InHands(t)'
      PROVE  /\ e.id \in in_flight' => e.period # Once
             /\ e.id \in confirmed' => e.id \in canceled_in_flight'
  BY DEF CancelInv
<1>. QED  BY <1>1, <1>2 DEF CancelInv

\* No cancel yet.
LEMMA InitCancel == Init => CancelInv
<1> SUFFICES ASSUME Init PROVE CancelInv
  OBVIOUS
<1>1. Live = {} /\ confirmed = {} /\ in_flight = {} /\ canceled_in_flight = {}
  BY DEF Init, Live
<1>2. \A t \in Tickers : InHands(t) = {} /\ Marked(t) = {}
  BY NoEntries DEF Init, InHands, Marked
<1>3. InFlightTracked
  BY <1>1, <1>2 DEF InFlightTracked
<1>. QED  BY <1>1, <1>2, <1>3 DEF CancelInv

\* Steps that take no timer in or out and run no callback.
LEMMA QuietCancel ==
    ASSUME HandsInv, CancelInv,
           \/ AdvanceClock \/ TimeUntilNext \/ UNCHANGED vars
           \/ \E t \in Tickers : \/ ReadNow(t) \/ BeginAdvance(t) \/ Cascade(t)
                                 \/ EndCascade(t) \/ EndAdvance(t)
    PROVE  CancelInv'
<1> USE DEF wheelVars, liveVars, flightVars, tickVars, vars, GoTo
<1>1. UNCHANGED <<timers, issued, confirmed, in_flight, canceled_in_flight, expired, to_reschedule>>
  BY DEF AdvanceClock, TimeUntilNext, ReadNow, BeginAdvance, Cascade, EndCascade, EndAdvance
<1>2. Live' = Live /\ \A t \in Tickers : InHands(t)' = InHands(t)
  BY <1>1 DEF Live, InHands
<1>3. ASSUME NEW u \in Tickers
      PROVE  pc'[u] \in {"fire", "rearm"} <=> pc[u] \in {"fire", "rearm"}
  <2>1. CASE UNCHANGED pc
    BY <2>1
  <2>2. ASSUME NEW t \in Tickers, ReadNow(t) \/ BeginAdvance(t) \/ EndCascade(t) \/ EndAdvance(t)
        PROVE  /\ pc[t] \notin {"fire", "rearm"}
               /\ \E place \in {"lock", "advance", "idle", "mark"} : pc' = [pc EXCEPT ![t] = place]
    BY <2>2 DEF ReadNow, BeginAdvance, EndCascade, EndAdvance, AfterAdvance
  <2>3. ASSUME NEW t \in Tickers, ReadNow(t) \/ BeginAdvance(t) \/ EndCascade(t) \/ EndAdvance(t)
        PROVE  pc'[u] \in {"fire", "rearm"} <=> pc[u] \in {"fire", "rearm"}
    BY <2>2, <2>3 DEF HandsInv, TypeOK
  <2>. QED  BY <2>1, <2>3 DEF AdvanceClock, TimeUntilNext, Cascade
<1>4. \A u \in Tickers : Marked(u)' = Marked(u)
  BY <1>1, <1>3 DEF Marked
<1>. QED  BY <1>1, <1>2, <1>4, CancelKept DEF CancelInv

\* A new timer has not been cancelled.
LEMMA ScheduleCancel ==
    ASSUME HandsInv, CancelInv, NEW id \in TimerIds, NEW delay \in Delays,
           NEW period \in {Once, delay}, Schedule(id, delay, period)
    PROVE  CancelInv'
<1> USE DEF wheelVars, liveVars, flightVars, tickVars, vars
<1>1. id \notin issued /\ issued' = issued \cup {id}
  BY DEF Schedule
<1>2. Live' = Live \cup {id}
  <2>1. PICK new : new = [x \in {id} |-> TimerAfter(delay, period)]
    OBVIOUS
  <2>2. DOMAIN new = {id} /\ AddTimers(new)
    BY <2>1 DEF Schedule
  <2>. QED  BY <2>2 DEF AddTimers, Live
<1>3. UNCHANGED <<confirmed, in_flight, canceled_in_flight, expired, to_reschedule, pc>>
  BY DEF Schedule
<1>4. confirmed' \subseteq issued' \ Live' /\ in_flight' \subseteq issued' \ Live'
  BY <1>1, <1>2, <1>3 DEF CancelInv
<1>5. \A t \in Tickers : InHands(t)' = InHands(t) /\ Marked(t)' = Marked(t)
  BY <1>3 DEF InHands, Marked
<1>. QED  BY <1>3, <1>4, <1>5, CancelKept

\* The cancel of a pending timer: no ticker has it in its hands.
LEMMA PendingCancel ==
    ASSUME HandsInv, CancelInv, NEW id \in TimerIds, CancelPending(id)
    PROVE  CancelInv'
<1> USE DEF wheelVars, liveVars, flightVars, tickVars, vars
<1>1. id \in Live /\ confirmed' = confirmed \cup {id}
  BY DEF CancelPending
<1>2. Live' = Live \ {id}
  BY DEF CancelPending, TakeTimers, Restrict, Live
<1>3. UNCHANGED <<issued, in_flight, canceled_in_flight, expired, to_reschedule, pc>>
  BY DEF CancelPending
<1>4. confirmed' \subseteq issued' \ Live' /\ in_flight' \subseteq issued' \ Live'
  BY <1>1, <1>2, <1>3 DEF CancelInv, HandsInv, TypeOK
<1>5. \A t \in Tickers : InHands(t)' = InHands(t) /\ Marked(t)' = Marked(t)
  BY <1>3 DEF InHands, Marked
<1>6. \A t \in Tickers : \A e \in InHands(t) : e.id # id
  BY <1>1, InHandsHeld
<1>. QED  BY <1>1, <1>3, <1>4, <1>5, <1>6, CancelKept

\* The cancel of a timer in flight goes on record.
LEMMA FlightCancel ==
    ASSUME HandsInv, CancelInv, NEW id \in TimerIds, CancelInFlight(id)
    PROVE  CancelInv'
<1> USE DEF wheelVars, liveVars, flightVars, tickVars, vars
<1>1. /\ id \in in_flight
      /\ confirmed' = confirmed \cup {id}
      /\ canceled_in_flight' = canceled_in_flight \cup {id}
      /\ UNCHANGED <<timers, issued, in_flight, expired, to_reschedule, pc>>
  BY DEF CancelInFlight
<1>2. Live' = Live /\ \A t \in Tickers : InHands(t)' = InHands(t) /\ Marked(t)' = Marked(t)
  BY <1>1 DEF Live, InHands, Marked
<1>3. InFlightTracked'
  BY <1>1, <1>2 DEF CancelInv, InFlightTracked
<1>. QED  BY <1>1, <1>2, <1>3 DEF CancelInv

\* What advance_to takes out of the wheel has been live until now.
LEMMA TakeOutCancel ==
    ASSUME HandsInv, CancelInv, NEW t \in Tickers, FireSlot(t) \/ DrainDueInto(t)
    PROVE  CancelInv'
<1> USE DEF wheelVars, liveVars, flightVars, tickVars, vars, GoTo
<1>1. UNCHANGED <<issued, confirmed, in_flight, canceled_in_flight, to_reschedule>>
  BY DEF FireSlot, DrainDueInto
<1>2. PICK due \in SUBSET Live :
          /\ Live' = Live \ due
          /\ \E order \in Orders(due) :
                \/ expired' = [expired EXCEPT ![t] = @ \o EntriesOf(order)]
                \/ expired' = [expired EXCEPT ![t] = EntriesOf(order)]
  <2>1. CASE FireSlot(t)
    <3>1. PICK due : due = levels[CursorCell(current_tick)] \cap Live
      OBVIOUS
    <3>2. Live' = Live \ due
      BY <2>1, <3>1 DEF FireSlot, TakeTimers, Restrict, Live
    <3>3. \E order \in Orders(due) : expired' = [expired EXCEPT ![t] = @ \o EntriesOf(order)]
      BY <2>1, <3>1 DEF FireSlot
    <3>. QED  BY <3>1, <3>2, <3>3
  <2>2. CASE DrainDueInto(t)
    <3>1. PICK due : due = ((overflow \cup UNION {levels[cell] : cell \in Cells}) \cap Live)
                             \cap JumpDue(now[t])
      OBVIOUS
    <3>2. Live' = Live \ due
      BY <2>2, <3>1 DEF DrainDueInto, TakeTimers, Restrict, Live
    <3>3. \E order \in Orders(due) : expired' = [expired EXCEPT ![t] = EntriesOf(order)]
      BY <2>2, <3>1 DEF DrainDueInto
    <3>. QED  BY <3>1, <3>2, <3>3
  <2>. QED  BY <2>1, <2>2
<1>3. PICK order \in Orders(due) :
          \/ expired' = [expired EXCEPT ![t] = @ \o EntriesOf(order)]
          \/ expired' = [expired EXCEPT ![t] = EntriesOf(order)]
  BY <1>2
<1>4. PICK batch \in Seq(Entry) : batch = EntriesOf(order) /\ IdsOf(Elements(batch)) = due
  <2>1. due \subseteq Live /\ IsFiniteSet(due)
    BY TimerAssumption, FS_Subset DEF HandsInv, TypeOK
  <2>. QED  BY <2>1, EntriesOfOrder DEF HandsInv
<1>5. PICK old \in Seq(Entry) : old = expired[t]
  BY DEF HandsInv, TypeOK
<1>6. /\ expired'[t] = old \o batch \/ expired'[t] = batch
      /\ \A u \in Tickers \ {t} : expired'[u] = expired[u]
  BY <1>3, <1>4, <1>5 DEF HandsInv, TypeOK
<1>7. Elements(expired'[t]) \subseteq Elements(old) \cup Elements(batch)
  BY <1>4, <1>5, <1>6, ConcatEntries, ZenonT(30)
<1>8. \A e \in Elements(batch) : e.id \in Live
  BY <1>4 DEF IdsOf
<1>9. ASSUME NEW u \in Tickers, NEW e \in InHands(u)'
      PROVE  e \in InHands(u) \/ (e.id \notin confirmed' /\ e.id \notin in_flight')
  <2>1. CASE u = t
    <3>1. e \in InHands(t) \/ e \in Elements(batch)
      BY <1>1, <1>5, <1>7, <1>9, <2>1 DEF InHands
    <3>. QED  BY <1>1, <1>8, <2>1, <3>1 DEF CancelInv
  <2>2. CASE u # t
    BY <1>1, <1>6, <1>9, <2>2 DEF InHands
  <2>. QED  BY <2>1, <2>2
<1>10. \A u \in Tickers : Marked(u)' = Marked(u)
  <2>1. /\ pc[t] \in {"advance", "lock"}
        /\ \E place \in {"cascade", "idle", "mark"} : pc' = [pc EXCEPT ![t] = place]
    BY DEF FireSlot, DrainDueInto, AfterAdvance
  <2>2. Marked(t)' = Marked(t)
    BY <2>1 DEF Marked, HandsInv, TypeOK
  <2>3. \A u \in Tickers \ {t} : pc'[u] = pc[u]
    BY <2>1 DEF HandsInv, TypeOK
  <2>. QED  BY <1>1, <1>6, <2>2, <2>3 DEF Marked
<1>11. confirmed' \subseteq issued' \ Live' /\ in_flight' \subseteq issued' \ Live'
  BY <1>1, <1>2 DEF CancelInv
<1>. QED  BY <1>1, <1>9, <1>10, <1>11, CancelKept

\* The second critical section puts the repeating timers of a batch in flight.
LEMMA MarkCancel ==
    ASSUME HandsInv, CancelInv, NEW t \in Tickers, MarkInFlight(t)
    PROVE  CancelInv'
<1> USE DEF wheelVars, liveVars, flightVars, tickVars, vars, GoTo
<1>1. /\ pc[t] = "mark" /\ to_reschedule[t] = {}
      /\ UNCHANGED <<timers, issued, confirmed, canceled_in_flight, expired, to_reschedule>>
  BY DEF MarkInFlight, HandsInv, Shape
<1>2. PICK ids : ids = IdsOf(Repeating(Elements(expired[t])))
  OBVIOUS
<1>3. in_flight' = in_flight \cup ids
  BY <1>2 DEF MarkInFlight
<1>4. Live' = Live /\ \A u \in Tickers : InHands(u)' = InHands(u)
  BY <1>1 DEF Live, InHands
<1>5. pc'[t] = "fire" /\ \A u \in Tickers \ {t} : pc'[u] = pc[u]
  BY DEF MarkInFlight, HandsInv, TypeOK
<1>6. Marked(t) = {} /\ Marked(t)' = ids /\ \A u \in Tickers \ {t} : Marked(u)' = Marked(u)
  BY <1>1, <1>2, <1>5 DEF Marked
<1>7. ids \subseteq Held(t) /\ ids \subseteq issued \ Live
  <2>1. ids \subseteq Held(t)
    BY <1>2 DEF Held, IdsOf, Repeating
  <2>. QED  BY <2>1 DEF HandsInv, Shape, FiresOnce
<1>8. InFlightTracked'
  BY <1>1, <1>3, <1>6 DEF CancelInv, InFlightTracked
<1>9. ASSUME NEW u \in Tickers, NEW e \in InHands(u), e.id \in ids
      PROVE  e.period # Once
  <2>1. PICK x \in Elements(expired[t]) : x.id = e.id /\ x.period # Once
    BY <1>2, <1>9 DEF IdsOf, Repeating
  <2>2. u = t
    BY <1>7, <1>9, InHandsHeld
  <2>3. e \in Elements(expired[t])
    BY <1>1, <2>2 DEF InHands
  <2>4. e = x
    BY <2>1, <2>3 DEF Elements, HandsInv, FiresOnce
  <2>. QED  BY <2>1, <2>4
<1>10. ASSUME NEW u \in Tickers, NEW e \in InHands(u)'
       PROVE  /\ e.id \in in_flight' => e.period # Once
              /\ e.id \in confirmed' => e.id \in canceled_in_flight'
  <2>1. e \in InHands(u)
    BY <1>4
  <2>. QED  BY <1>1, <1>3, <1>9, <2>1 DEF CancelInv
<1>11. confirmed' \subseteq issued' \ Live' /\ in_flight' \subseteq issued' \ Live'
  BY <1>1, <1>3, <1>4, <1>7 DEF CancelInv
<1>. QED  BY <1>8, <1>10, <1>11 DEF CancelInv

\* A callback leaves what is in flight in the hands of its ticker.
LEMMA CallbackCancel ==
    ASSUME HandsInv, CancelInv, NEW t \in Tickers, FireCallback(t)
    PROVE  CancelInv'
<1> USE DEF wheelVars, liveVars, flightVars, tickVars, vars, GoTo
<1>1. /\ UNCHANGED <<timers, issued, confirmed, in_flight, canceled_in_flight>>
      /\ pc[t] = "fire" /\ expired[t] # << >> /\ expired[t] \in Seq(Entry)
  BY DEF FireCallback, HandsInv, Shape, TypeOK
<1>2. PICK e : e = Head(expired[t])
  OBVIOUS
<1>3. PICK rest : rest = Tail(expired[t]) /\ Elements(expired[t]) = {e} \cup Elements(rest)
  BY <1>1, <1>2, TailEntries
<1>4. PICK again : again = to_reschedule[t] \cup Repeating({e})
  OBVIOUS
<1>5. /\ expired'[t] = rest /\ to_reschedule'[t] = again
      /\ \A u \in Tickers \ {t} :
            expired'[u] = expired[u] /\ to_reschedule'[u] = to_reschedule[u] /\ pc'[u] = pc[u]
  BY <1>2, <1>3, <1>4 DEF FireCallback, HandsInv, TypeOK
<1>6. pc'[t] = IF rest # << >> THEN "fire" ELSE IF again # {} THEN "rearm" ELSE "idle"
  BY <1>2, <1>3, <1>4, Zenon DEF FireCallback, HandsInv, TypeOK, AfterFire
<1>7. \A u \in Tickers : InHands(u)' \subseteq InHands(u)
  <2>1. InHands(t)' \subseteq InHands(t)
    BY <1>3, <1>4, <1>5 DEF InHands, Repeating
  <2>2. \A u \in Tickers \ {t} : InHands(u)' = InHands(u)
    BY <1>5 DEF InHands
  <2>. QED  BY <2>1, <2>2
<1>8. ASSUME NEW u \in Tickers
      PROVE  Marked(u)' = Marked(u)
  <2>1. CASE u = t
    <3>1. Repeating(Elements(rest) \cup again) = Repeating(Elements(expired[t]) \cup to_reschedule[t])
      BY <1>3, <1>4 DEF Repeating
    <3>2. CASE pc'[t] \in {"fire", "rearm"}
      BY <1>1, <1>5, <2>1, <3>1, <3>2 DEF Marked
    <3>3. CASE pc'[t] \notin {"fire", "rearm"}
      <4>1. rest = << >> /\ again = {}
        BY <1>6, <3>3
      <4>2. IdsOf(Repeating(Elements(rest) \cup again)) = {}
        BY <4>1, NoEntries DEF Repeating, IdsOf
      <4>. QED  BY <1>1, <2>1, <3>1, <3>3, <4>2 DEF Marked
    <3>. QED  BY <3>2, <3>3
  <2>2. CASE u # t
    BY <1>5, <2>2 DEF Marked
  <2>. QED  BY <2>1, <2>2
<1>9. Live' = Live
  BY <1>1 DEF Live
<1>. QED  BY <1>1, <1>7, <1>8, <1>9, CancelKept DEF CancelInv

\* A panic drops what the ticker held, and leaves its marks behind.
LEMMA PanicCancel ==
    ASSUME HandsInv, CancelInv, NEW t \in Tickers, CallbackPanics(t)
    PROVE  CancelInv'
<1> USE DEF wheelVars, liveVars, flightVars, tickVars, vars, GoTo
<1>1. /\ UNCHANGED <<timers, issued, confirmed, in_flight, canceled_in_flight>>
      /\ MayPanic
      /\ pc'[t] = "unwound" /\ expired'[t] = << >> /\ to_reschedule'[t] = {}
      /\ \A u \in Tickers \ {t} :
            expired'[u] = expired[u] /\ to_reschedule'[u] = to_reschedule[u] /\ pc'[u] = pc[u]
  BY DEF CallbackPanics, HandsInv, TypeOK
<1>2. Live' = Live /\ \A u \in Tickers : InHands(u)' \subseteq InHands(u)
  BY <1>1, NoEntries DEF Live, InHands
<1>3. \A u \in Tickers : Marked(u)' \subseteq Marked(u)
  BY <1>1 DEF Marked
<1>4. InFlightTracked'
  BY <1>1, <1>3 DEF CancelInv, InFlightTracked
<1>. QED  BY <1>1, <1>2, <1>4 DEF CancelInv

\* The third critical section arms no timer whose cancel is on record.
LEMMA RearmCancel ==
    ASSUME HandsInv, CancelInv, NEW t \in Tickers, Rearm(t)
    PROVE  CancelInv'
<1> USE DEF wheelVars, liveVars, flightVars, tickVars, vars, GoTo
<1>1. PICK done : done = IdsOf(to_reschedule[t])
  OBVIOUS
<1>2. /\ pc[t] = "rearm" /\ expired[t] = << >>
      /\ in_flight' = in_flight \ done
      /\ canceled_in_flight' = canceled_in_flight \ done
      /\ UNCHANGED <<issued, confirmed, expired>>
      /\ to_reschedule'[t] = {} /\ pc'[t] = "idle"
      /\ \A u \in Tickers \ {t} : to_reschedule'[u] = to_reschedule[u] /\ pc'[u] = pc[u]
  BY <1>1 DEF Rearm, HandsInv, Shape, TypeOK
<1>3. PICK surv \in SUBSET Entry : surv = Survivors(t)
  BY DEF Survivors, HandsInv, TypeOK
<1>4. Live' = Live \cup IdsOf(surv)
  <2>1. PICK D : D = IdsOf(surv)
    OBVIOUS
  <2>2. PICK new \in [D -> Timer] : AddTimers(new)
    BY <1>2, <1>3, <2>1, RearmedType DEF Rearm
  <2>3. DOMAIN new = D
    OBVIOUS
  <2>. QED  BY <2>1, <2>2, <2>3 DEF AddTimers, Live
<1>5. done \subseteq Held(t) /\ done \subseteq issued
  <2>1. done \subseteq Held(t)
    BY <1>1 DEF Held, IdsOf
  <2>. QED  BY <2>1 DEF HandsInv, Shape
<1>6. IdsOf(surv) \subseteq done /\ IdsOf(surv) \cap confirmed = {}
  <2>1. IdsOf(surv) \subseteq done
    BY <1>1, <1>3 DEF IdsOf, Survivors
  <2>2. ASSUME NEW e \in surv
        PROVE  e.id \notin confirmed
    <3>1. e \in InHands(t) /\ e.id \notin canceled_in_flight
      BY <1>3 DEF Survivors, InHands
    <3>. QED  BY <3>1 DEF CancelInv
  <2>. QED  BY <2>1, <2>2 DEF IdsOf
<1>7. confirmed' \subseteq issued' \ Live' /\ in_flight' \subseteq issued' \ Live'
  BY <1>2, <1>4, <1>6 DEF CancelInv
<1>8. InHands(t)' = {} /\ \A u \in Tickers \ {t} : InHands(u)' = InHands(u)
  BY <1>2, NoEntries DEF InHands
<1>9. \A u \in Tickers \ {t} : \A e \in InHands(u) : e.id \notin done
  BY <1>5, InHandsHeld
<1>10. Marked(t)' = {} /\ \A u \in Tickers \ {t} : Marked(u)' = Marked(u)
  BY <1>2 DEF Marked
<1>11. Marked(t) = done
  <2>1. Elements(expired[t]) = {}
    BY <1>2, NoEntries
  <2>2. Repeating(Elements(expired[t]) \cup to_reschedule[t]) = to_reschedule[t]
    BY <2>1 DEF Repeating, HandsInv, Shape
  <2>. QED  BY <1>1, <1>2, <2>2 DEF Marked
<1>12. \A u \in Tickers \ {t} : Marked(u) \cap done = {}
  <2>1. \A u \in Tickers \ {t} : Marked(u) \subseteq Held(u) /\ Held(u) \cap Held(t) = {}
    BY InHandsHeld DEF HandsInv, FiresOnce
  <2>. QED  BY <1>5, <2>1
<1>13. InFlightTracked'
  <2>1. PICK all : all = UNION {Marked(u) : u \in Tickers}
    OBVIOUS
  <2>2. PICK left : left = UNION {Marked(u)' : u \in Tickers}
    OBVIOUS
  <2>3. left = all \ done
    <3>1. \A id \in left : id \in all /\ id \notin done
      BY <1>10, <1>12, <2>1, <2>2
    <3>2. ASSUME NEW id \in all, id \notin done
          PROVE  id \in left
      <4>1. PICK u \in Tickers : id \in Marked(u)
        BY <2>1
      <4>2. u # t
        BY <1>11, <3>2, <4>1
      <4>. QED  BY <1>10, <2>2, <4>1, <4>2
    <3>. QED  BY <3>1, <3>2
  <2>4. /\ all \subseteq in_flight
        /\ MayPanic \/ in_flight = all
        /\ canceled_in_flight \subseteq in_flight
    BY <2>1 DEF CancelInv, InFlightTracked
  <2>5. /\ left \subseteq in_flight'
        /\ MayPanic \/ in_flight' = left
        /\ canceled_in_flight' \subseteq in_flight'
    BY <1>2, <2>3, <2>4
  <2>. QED  BY <2>2, <2>5 DEF InFlightTracked
<1>14. ASSUME NEW u \in Tickers, NEW e \in InHands(u)'
       PROVE  /\ e.id \in in_flight' => e.period # Once
              /\ e.id \in confirmed' => e.id \in canceled_in_flight'
  <2>1. u # t /\ e \in InHands(u) /\ e.id \notin done
    BY <1>8, <1>9
  <2>. QED  BY <1>2, <2>1 DEF CancelInv
<1>. QED  BY <1>7, <1>13, <1>14 DEF CancelInv

\* Every step keeps CancelInv.
LEMMA NextCancel ==
    ASSUME HandsInv, CancelInv, [Next]_vars
    PROVE  CancelInv'
<1>1. ASSUME NEW t \in Tickers, Tick(t)
      PROVE  CancelInv'
  BY <1>1, QuietCancel, TakeOutCancel, MarkCancel, CallbackCancel, PanicCancel, RearmCancel DEF Tick
<1>2. CASE Call
  BY <1>2, QuietCancel, ScheduleCancel, PendingCancel, FlightCancel DEF Call
<1>. QED  BY <1>1, <1>2, QuietCancel DEF Next

\* CancelInv holds in every reachable state.
LEMMA Cancels == Spec => []CancelInv
<1>1. HandsInv /\ CancelInv /\ [Next]_vars => CancelInv'
  BY NextCancel
<1>. QED  BY <1>1, InitCancel, Hands, PTL DEF Spec

\* in_flight holds the repeating timers between the second and the third
\* critical section of tick(), and a recorded cancel is about one of them.
THEOREM FlightIsTracked == Spec => []InFlightTracked
BY Cancels, PTL DEF CancelInv

\* A cancel() that returned true holds: the timer is never armed again, also
\* when its callback was running in the middle of a tick(), and a one-shot
\* timer never runs.
THEOREM CancelsHold == Spec => []CancelHolds
<1>1. CancelInv => CancelHolds
  <2> SUFFICES ASSUME CancelInv PROVE CancelHolds
    OBVIOUS
  <2>1. ASSUME NEW id \in confirmed
        PROVE  id \notin Live
    BY DEF CancelInv
  <2>2. ASSUME NEW t \in Tickers, NEW e \in Elements(expired[t]), e.id \in confirmed
        PROVE  e.period # Once
    BY <2>2 DEF CancelInv, InHands, InFlightTracked
  <2>. QED  BY <2>1, <2>2 DEF CancelHolds
<1>. QED  BY <1>1, Cancels, PTL

--------------------------------------------------------------------------------
(***************************************************************************)
(* The caches: earliest_deadline is right except while advance_to holds    *)
(* the lock and has taken timers out, overflow_min_deadline always bounds. *)
(***************************************************************************)
CacheKnown ==
    /\ earliest_deadline # None
    /\ \A t \in Tickers : mutex = t => expired[t] = << >>

EarliestRight ==
    /\ \E id \in Live : Deadline(id) = earliest_deadline
    /\ \A id \in Live : Deadline(id) >= earliest_deadline

OverflowBounded ==
    \A id \in overflow \cap Live :
        /\ overflow_min_deadline # None
        /\ overflow_min_deadline <= Deadline(id)

CacheInv ==
    /\ CacheKnown => EarliestRight
    /\ OverflowBounded

\* insert_into_wheel keeps overflow_min_deadline a bound of the old overflow
\* list and makes it one of the timers it adds.
LEMMA InsertBounds ==
    ASSUME NEW cells, NEW over, NEW overMin \in OptTick, NEW c, NEW ids,
           NEW deadline \in [ids -> Nat],
           InsertIntoWheel(cells, over, overMin, c, ids, deadline)
    PROVE  /\ overflow_min_deadline' \in OptTick
           /\ overMin # None => /\ overflow_min_deadline' # None
                                /\ overflow_min_deadline' <= overMin
           /\ \A id \in overflow' :
                 \/ id \in over
                 \/ /\ id \in ids
                    /\ overflow_min_deadline' # None
                    /\ overflow_min_deadline' <= deadline[id]
<1>1. PICK far : far = Overflowing(c, ids, deadline) /\ far \subseteq ids
  BY DEF Overflowing
<1>2. PICK S : S = Known(overMin) \cup {deadline[id] : id \in far}
  OBVIOUS
<1>3. S \subseteq Nat /\ \A x \in Known(overMin) : x \in S /\ \A id \in far : deadline[id] \in S
  BY <1>1, <1>2, KnownType
<1>4. \A id \in far : deadline[id] \in S
  BY <1>2
<1>5. overflow' = over \cup far /\ overflow_min_deadline' = MinTick(S)
  BY <1>1, <1>2 DEF InsertIntoWheel
<1>6. overflow_min_deadline' \in OptTick
  BY <1>3, <1>5, MinTickType DEF OptTick
<1>7. \A x \in S : overflow_min_deadline' # None /\ overflow_min_deadline' <= x
  BY <1>3, <1>5, MinTickType, TimerAssumption
<1>8. overMin # None => overMin \in S
  BY <1>2, KnownType
<1>. QED  BY <1>1, <1>4, <1>5, <1>6, <1>7, <1>8

\* A step that leaves timers and caches alone, and the lock with a ticker that
\* has timers in its hands only if it was so before.
LEMMA CachesUnmoved ==
    ASSUME CacheInv, CacheKnown' => CacheKnown,
           UNCHANGED <<timers, earliest_deadline, overflow, overflow_min_deadline>>
    PROVE  CacheInv'
<1>1. Live' = Live /\ \A id \in Live : Deadline(id)' = Deadline(id)
  BY DEF Live, Deadline
<1>. QED  BY <1>1 DEF CacheInv, EarliestRight, OverflowBounded

\* Adding timers that are in no place yet.
LEMMA AddedCaches ==
    ASSUME HandsInv, CacheInv, mutex = None,
           NEW D \in SUBSET TimerIds, D \cap Live = {}, \A id \in D : id \notin overflow,
           NEW new \in [D -> Timer], AddTimers(new)
    PROVE  CacheInv'
<1>1. /\ Live' = Live \cup D
      /\ \A id \in Live : timers'[id] = timers[id]
      /\ \A id \in D : timers'[id] = new[id]
  BY AddTimersType DEF HandsInv
<1>2. /\ \A id \in Live : Deadline(id)' = Deadline(id) /\ Deadline(id) \in Nat
      /\ \A id \in D : Deadline(id)' = new[id].deadline /\ new[id].deadline \in Nat
  BY <1>1 DEF Deadline, HandsInv, TypeOK, Timer
<1>3. OverflowBounded'
  <2>1. PICK deadline \in [D -> Nat] :
            /\ deadline = [id \in D |-> new[id].deadline]
            /\ InsertIntoWheel(levels, overflow, overflow_min_deadline, current_tick, D, deadline)
    <3>1. [id \in D |-> new[id].deadline] \in [D -> Nat]
      BY <1>2
    <3>. QED  BY <3>1 DEF AddTimers
  <2>2. overflow_min_deadline \in OptTick
    BY DEF HandsInv, TypeOK
  <2>3. /\ overflow_min_deadline' \in OptTick
        /\ overflow_min_deadline # None => /\ overflow_min_deadline' # None
                                           /\ overflow_min_deadline' <= overflow_min_deadline
        /\ \A id \in overflow' :
              \/ id \in overflow
              \/ /\ id \in D
                 /\ overflow_min_deadline' # None
                 /\ overflow_min_deadline' <= deadline[id]
    <3>1. PICK cells, over, overMin, c :
              cells = levels /\ over = overflow /\ overMin = overflow_min_deadline /\ c = current_tick
      OBVIOUS
    <3>2. InsertIntoWheel(cells, over, overMin, c, D, deadline) /\ overMin \in OptTick
      BY <2>1, <2>2, <3>1
    <3>3. /\ overflow_min_deadline' \in OptTick
          /\ overMin # None => /\ overflow_min_deadline' # None
                               /\ overflow_min_deadline' <= overMin
          /\ \A id \in overflow' :
                \/ id \in over
                \/ /\ id \in D
                   /\ overflow_min_deadline' # None
                   /\ overflow_min_deadline' <= deadline[id]
      BY <3>2, InsertBounds
    <3>. QED  BY <3>1, <3>3
  <2>4. ASSUME NEW id \in overflow' \cap Live'
        PROVE  overflow_min_deadline' # None /\ overflow_min_deadline' <= Deadline(id)'
    <3>1. CASE id \in overflow
      <4>1. id \in Live /\ overflow_min_deadline # None /\ overflow_min_deadline <= Deadline(id)
        BY <1>1, <3>1 DEF CacheInv, OverflowBounded
      <4>. QED  BY <1>2, <2>2, <2>3, <4>1 DEF OptTick
    <3>2. CASE id \notin overflow
      BY <1>2, <2>1, <2>3, <3>2
    <3>. QED  BY <3>1, <3>2
  <2>. QED  BY <2>4 DEF OverflowBounded
<1>4. ASSUME earliest_deadline' # None
      PROVE  EarliestRight'
  <2>1. PICK added : added = {new[id].deadline : id \in D}
    OBVIOUS
  <2>2. PICK S : S = Known(earliest_deadline) \cup added
    OBVIOUS
  <2>3. earliest_deadline \in OptTick
    BY DEF HandsInv, TypeOK
  <2>4. S \subseteq Nat
    BY <1>2, <2>1, <2>2, <2>3, KnownType
  <2>5. ~(earliest_deadline = None /\ timer_count # 0) /\ earliest_deadline' = MinTick(S)
    <3>1. NoteInserted(added)
      BY <2>1 DEF AddTimers
    <3>. QED  BY <1>4, <2>2, <3>1 DEF NoteInserted
  <2>6. earliest_deadline' \in S /\ \A x \in S : earliest_deadline' <= x
    BY <1>4, <2>4, <2>5, MinTickType
  <2>7. \A id \in D : Deadline(id)' \in S
    BY <1>2, <2>1, <2>2
  <2>8. CASE earliest_deadline = None
    <3>1. Live = {}
      <4>1. IsFiniteSet(Live) /\ Cardinality(Live) = 0
        BY <2>5, <2>8, TimerAssumption, FS_Subset DEF HandsInv, TypeOK
      <4>. QED  BY <4>1, FS_EmptySet
    <3>2. \E id \in D : Deadline(id)' = earliest_deadline'
      BY <1>2, <2>1, <2>2, <2>3, <2>6, <2>8, KnownType
    <3>. QED  BY <1>1, <1>2, <2>4, <2>6, <2>7, <3>1, <3>2 DEF EarliestRight
  <2>9. CASE earliest_deadline # None
    <3>1. EarliestRight
      BY <2>9, TimerAssumption DEF CacheInv, CacheKnown
    <3>2. earliest_deadline \in S /\ earliest_deadline \in Nat
      BY <2>2, <2>3, <2>9, KnownType DEF OptTick
    <3>3. ASSUME NEW id \in Live'
          PROVE  Deadline(id)' >= earliest_deadline'
      BY <1>1, <1>2, <2>4, <2>6, <2>7, <3>1, <3>2 DEF EarliestRight
    <3>4. \E id \in Live' : Deadline(id)' = earliest_deadline'
      <4>1. CASE earliest_deadline' = earliest_deadline
        BY <1>1, <1>2, <3>1, <4>1 DEF EarliestRight
      <4>2. CASE earliest_deadline' # earliest_deadline
        <5>1. earliest_deadline' \in added
          BY <2>2, <2>3, <2>6, <2>9, <4>2, KnownType
        <5>. QED  BY <1>1, <1>2, <2>1, <5>1
      <4>. QED  BY <4>1, <4>2
    <3>. QED  BY <3>3, <3>4 DEF EarliestRight
  <2>. QED  BY <2>8, <2>9
<1>. QED  BY <1>3, <1>4 DEF CacheInv, CacheKnown

\* Moving live timers within the wheel, with the overflow list over kept.
LEMMA MovedBounds ==
    ASSUME HandsInv, OverflowBounded, NEW cells, NEW over, NEW overMin \in OptTick, NEW c,
           NEW ids \in SUBSET Live, InsertIntoWheel(cells, over, overMin, c, ids, DeadlinesOf(ids)),
           \/ over = {}
           \/ over = overflow /\ overMin = overflow_min_deadline,
           Live' \subseteq Live, \A id \in Live' : timers'[id] = timers[id]
    PROVE  OverflowBounded'
<1>1. PICK deadline \in [ids -> Nat] :
          /\ \A id \in ids : deadline[id] = Deadline(id)
          /\ InsertIntoWheel(cells, over, overMin, c, ids, deadline)
  BY DeadlinesOfType DEF HandsInv
<1>2. /\ overflow_min_deadline' \in OptTick
      /\ overMin # None => /\ overflow_min_deadline' # None
                           /\ overflow_min_deadline' <= overMin
      /\ \A id \in overflow' :
            \/ id \in over
            \/ /\ id \in ids
               /\ overflow_min_deadline' # None
               /\ overflow_min_deadline' <= deadline[id]
  BY <1>1, InsertBounds
<1>3. ASSUME NEW id \in overflow' \cap Live'
      PROVE  overflow_min_deadline' # None /\ overflow_min_deadline' <= Deadline(id)'
  <2>1. id \in Live /\ Deadline(id)' = Deadline(id) /\ Deadline(id) \in Nat
    BY DEF Deadline, HandsInv, TypeOK, Timer
  <2>2. CASE id \in over
    <3>1. overMin # None /\ overMin <= Deadline(id)
      BY <2>1, <2>2 DEF OverflowBounded
    <3>. QED  BY <1>2, <2>1, <3>1 DEF OptTick
  <2>3. CASE id \notin over
    BY <1>1, <1>2, <2>1, <2>3
  <2>. QED  BY <2>2, <2>3
<1>. QED  BY <1>3 DEF OverflowBounded

\* Nothing is cached yet.
LEMMA InitCaches == Init => CacheInv
BY DEF Init, CacheInv, CacheKnown, OverflowBounded

\* Steps that move no timer and touch no cache.
LEMMA QuietCaches ==
    ASSUME HandsInv, CacheInv,
           \/ AdvanceClock \/ UNCHANGED vars
           \/ \E id \in TimerIds : CancelInFlight(id)
           \/ \E t \in Tickers : \/ ReadNow(t) \/ BeginAdvance(t) \/ EndCascade(t)
                                 \/ MarkInFlight(t) \/ FireCallback(t) \/ CallbackPanics(t)
    PROVE  CacheInv'
<1> USE DEF wheelVars, liveVars, flightVars, tickVars, vars
<1>1. UNCHANGED <<timers, earliest_deadline, overflow, overflow_min_deadline>>
  BY DEF AdvanceClock, CancelInFlight, ReadNow, BeginAdvance, EndCascade, MarkInFlight,
         FireCallback, CallbackPanics
<1>2. CacheKnown' => CacheKnown
  <2>1. CASE UNCHANGED <<expired, mutex>>
    BY <1>1, <2>1 DEF CacheKnown
  <2>2. ASSUME NEW t \in Tickers, BeginAdvance(t)
        PROVE  CacheKnown' => CacheKnown
    BY <1>1, <2>2, TimerAssumption DEF BeginAdvance, CacheKnown
  <2>3. ASSUME NEW t \in Tickers, FireCallback(t) \/ CallbackPanics(t)
        PROVE  CacheKnown' => CacheKnown
    <3>1. mutex # t /\ mutex' = mutex
      BY <2>3 DEF FireCallback, CallbackPanics, HandsInv, Shape
    <3>2. \A u \in Tickers \ {t} : expired'[u] = expired[u]
      BY <2>3 DEF FireCallback, CallbackPanics, HandsInv, TypeOK
    <3>. QED  BY <1>1, <3>1, <3>2 DEF CacheKnown
  <2>. QED
    BY <2>1, <2>2, <2>3 DEF AdvanceClock, CancelInFlight, ReadNow, EndCascade, MarkInFlight
<1>. QED  BY <1>1, <1>2, CachesUnmoved

\* time_until_next looks at every live timer.
LEMMA LookCaches ==
    ASSUME HandsInv, CacheInv, TimeUntilNext
    PROVE  CacheInv'
<1> USE DEF wheelVars, liveVars, flightVars, tickVars, vars
<1>1. PICK S : S = {Deadline(id) : id \in Live}
  OBVIOUS
<1>2. S \subseteq Nat
  BY <1>1 DEF Deadline, HandsInv, TypeOK, Timer
<1>3. S # {}
  <2>1. Cardinality(Live) # 0
    BY DEF TimeUntilNext, HandsInv
  <2>. QED  BY <1>1, <2>1, FS_EmptySet
<1>4. earliest_deadline' \in S /\ \A x \in S : earliest_deadline' <= x
  BY <1>1, <1>2, <1>3, MinTickType DEF TimeUntilNext
<1>5. /\ UNCHANGED <<timers, overflow, overflow_min_deadline>>
      /\ Live' = Live /\ \A id \in Live : Deadline(id)' = Deadline(id)
  BY DEF TimeUntilNext, Live, Deadline
<1>6. EarliestRight'
  BY <1>1, <1>2, <1>4, <1>5 DEF EarliestRight
<1>. QED  BY <1>5, <1>6 DEF CacheInv, OverflowBounded

\* A cancel of the earliest timer leaves the cache dirty, any other one right.
LEMMA CancelCaches ==
    ASSUME HandsInv, CacheInv, NEW id \in TimerIds, CancelPending(id)
    PROVE  CacheInv'
<1> USE DEF wheelVars, liveVars, flightVars, tickVars, vars
<1>1. /\ mutex = None /\ id \in Live /\ NoteRemoved(Deadline(id))
      /\ UNCHANGED <<overflow, overflow_min_deadline>>
  BY DEF CancelPending
<1>2. Live' = Live \ {id} /\ \A x \in Live' : timers'[x] = timers[x]
  BY DEF CancelPending, TakeTimers, Restrict, Live
<1>3. \A x \in Live' : Deadline(x)' = Deadline(x)
  BY <1>2 DEF Deadline
<1>4. OverflowBounded'
  BY <1>1, <1>2, <1>3 DEF CacheInv, OverflowBounded
<1>5. ASSUME CacheKnown'
      PROVE  EarliestRight'
  <2>1. earliest_deadline' = earliest_deadline /\ earliest_deadline # Deadline(id) /\ CacheKnown
    BY <1>1, <1>5, TimerAssumption DEF NoteRemoved, CacheKnown
  <2>. QED  BY <1>2, <1>3, <2>1 DEF CacheInv, EarliestRight
<1>. QED  BY <1>4, <1>5 DEF CacheInv

\* A new timer is noted in the caches.
LEMMA ScheduleCaches ==
    ASSUME HandsInv, PlaceInv, CacheInv, NEW id \in TimerIds, NEW delay \in Delays,
           NEW period \in {Once, delay}, Schedule(id, delay, period)
    PROVE  CacheInv'
<1>1. PICK new \in [{id} -> Timer] : AddTimers(new)
  <2>1. TimerAfter(delay, period) \in Timer
    BY TimerAfterType DEF HandsInv, Periods
  <2>2. [x \in {id} |-> TimerAfter(delay, period)] \in [{id} -> Timer]
    BY <2>1
  <2>. QED  BY <2>2 DEF Schedule
<1>2. {id} \in SUBSET TimerIds /\ {id} \cap Live = {} /\ mutex = None
  BY DEF Schedule, HandsInv, TypeOK
<1>3. \A x \in {id} : x \notin overflow
  BY DEF Schedule, PlaceInv, Nowhere
<1>. QED  BY <1>1, <1>2, <1>3, AddedCaches

\* So are the timers that are armed again.
LEMMA RearmCaches ==
    ASSUME HandsInv, PlaceInv, CacheInv, NEW t \in Tickers, Rearm(t)
    PROVE  CacheInv'
<1>1. PICK surv \in SUBSET Entry : surv = Survivors(t) /\ surv \subseteq to_reschedule[t]
  BY DEF Survivors, HandsInv, TypeOK
<1>2. pc[t] = "rearm" /\ mutex = None
  BY DEF Rearm
<1>3. PICK D \in SUBSET TimerIds : D = IdsOf(surv)
  BY DEF IdsOf, Entry
<1>4. PICK new \in [D -> Timer] : AddTimers(new)
  BY <1>1, <1>2, <1>3, RearmedType DEF Rearm
<1>5. D \subseteq Held(t)
  BY <1>1, <1>3 DEF Held, IdsOf
<1>6. D \cap Live = {} /\ \A id \in D : id \notin overflow
  BY <1>5 DEF HandsInv, FiresOnce, PlaceInv, TakenOut, Nowhere
<1>. QED  BY <1>2, <1>4, <1>6, AddedCaches

\* A slot that fires timers makes the cache unknown until advance_to is done.
LEMMA FireSlotCaches ==
    ASSUME HandsInv, CacheInv, NEW t \in Tickers, FireSlot(t)
    PROVE  CacheInv'
<1> USE DEF wheelVars, liveVars, flightVars, tickVars, vars
<1>1. PICK due : due = levels[CursorCell(current_tick)] \cap Live
  OBVIOUS
<1>2. /\ Live' = Live \ due /\ \A id \in Live' : timers'[id] = timers[id]
      /\ UNCHANGED <<overflow, overflow_min_deadline, earliest_deadline, mutex>>
  BY <1>1 DEF FireSlot, TakeTimers, Restrict, Live
<1>3. \A id \in Live' : Deadline(id)' = Deadline(id)
  BY <1>2 DEF Deadline
<1>4. OverflowBounded'
  BY <1>2, <1>3 DEF CacheInv, OverflowBounded
<1>5. PICK order \in Orders(due) : expired' = [expired EXCEPT ![t] = @ \o EntriesOf(order)]
  BY <1>1 DEF FireSlot
<1>6. PICK batch \in Seq(Entry) : batch = EntriesOf(order) /\ IdsOf(Elements(batch)) = due
  <2>1. due \subseteq Live /\ IsFiniteSet(due)
    BY <1>1, TimerAssumption, FS_Subset DEF HandsInv, TypeOK
  <2>. QED  BY <2>1, EntriesOfOrder DEF HandsInv
<1>7. PICK old \in Seq(Entry) : old = expired[t] /\ expired'[t] = old \o batch
  BY <1>5, <1>6 DEF HandsInv, TypeOK
<1>8. mutex = t
  BY DEF FireSlot, HandsInv, Shape
<1>9. ASSUME CacheKnown'
      PROVE  EarliestRight'
  <2>1. expired'[t] = << >>
    BY <1>2, <1>8, <1>9 DEF CacheKnown
  <2>2. Elements(old) = {} /\ Elements(batch) = {}
    <3>1. PICK both : both = old \o batch
      OBVIOUS
    <3>2. Elements(both) = Elements(old) \cup Elements(batch)
      BY <3>1, ConcatEntries
    <3>3. both = << >>
      BY <1>7, <2>1, <3>1
    <3>4. Elements(both) = {}
      BY <3>3, NoEntries, Zenon
    <3>. QED  BY <3>2, <3>4
  <2>3. due = {} /\ expired[t] = << >>
    <3>1. old = << >>
      BY <2>2, TailEntries
    <3>2. due = {}
      BY <1>6, <2>2 DEF IdsOf
    <3>. QED  BY <1>7, <3>1, <3>2
  <2>4. CacheKnown
    BY <1>2, <1>8, <1>9, <2>3 DEF CacheKnown
  <2>. QED  BY <1>2, <1>3, <2>3, <2>4 DEF CacheInv, EarliestRight
<1>. QED  BY <1>4, <1>9 DEF CacheInv

\* A cascade may move timers to the overflow list, and notes them there.
LEMMA CascadeCaches ==
    ASSUME HandsInv, CacheInv, NEW t \in Tickers, Cascade(t)
    PROVE  CacheInv'
<1> USE DEF wheelVars, liveVars, flightVars, tickVars, vars
<1>1. PICK here : here = <<cascading[t], SlotOf(cascading[t], current_tick)>>
  OBVIOUS
<1>2. PICK ids \in SUBSET Live : ids = levels[here] \cap Live
  OBVIOUS
<1>3. InsertIntoWheel([levels EXCEPT ![here] = {}], overflow, overflow_min_deadline,
                      current_tick, ids, DeadlinesOf(ids))
  BY <1>1, <1>2 DEF Cascade
<1>4. UNCHANGED <<timers, earliest_deadline, expired, mutex>>
  BY DEF Cascade
<1>5. /\ Live' = Live /\ (CacheKnown' => CacheKnown)
      /\ \A id \in Live' : timers'[id] = timers[id] /\ Deadline(id)' = Deadline(id)
  BY <1>4 DEF Live, Deadline, CacheKnown
<1>6. overflow_min_deadline \in OptTick /\ OverflowBounded
  BY DEF HandsInv, TypeOK, CacheInv
<1>7. OverflowBounded'
  <2>1. PICK cells : cells = [levels EXCEPT ![here] = {}]
    OBVIOUS
  <2>. QED  BY <1>3, <1>5, <1>6, <2>1, MovedBounds
<1>8. CacheKnown' => EarliestRight'
  BY <1>4, <1>5 DEF CacheInv, EarliestRight
<1>. QED  BY <1>7, <1>8 DEF CacheInv

\* advance_to leaves the cache dirty if it has taken timers out.
LEMMA EndAdvanceCaches ==
    ASSUME HandsInv, CacheInv, NEW t \in Tickers, EndAdvance(t)
    PROVE  CacheInv'
<1> USE DEF wheelVars, liveVars, flightVars, tickVars, vars
<1>1. UNCHANGED <<timers, expired>> /\ mutex = t
  BY DEF EndAdvance, HandsInv, Shape
<1>2. Live' = Live /\ \A id \in Live' : timers'[id] = timers[id] /\ Deadline(id)' = Deadline(id)
  BY <1>1 DEF Live, Deadline
<1>3. OverflowBounded'
  <2>1. CASE ~OverflowInRange
    BY <1>2, <2>1 DEF EndAdvance, CacheInv, OverflowBounded
  <2>2. CASE OverflowInRange
    <3>1. PICK ids \in SUBSET Live : ids = overflow \cap Live
      OBVIOUS
    <3>2. InsertIntoWheel(levels, {}, None, current_tick, ids, DeadlinesOf(ids))
      BY <2>2, <3>1 DEF EndAdvance
    <3>. QED  BY <1>2, <3>2, MovedBounds DEF CacheInv, OptTick
  <2>. QED  BY <2>1, <2>2
<1>4. ASSUME CacheKnown'
      PROVE  EarliestRight'
  <2>1. earliest_deadline' = earliest_deadline /\ expired[t] = << >>
    BY <1>4 DEF EndAdvance, CacheKnown
  <2>2. CacheKnown
    BY <1>1, <1>4, <2>1 DEF CacheKnown
  <2>. QED  BY <1>2, <2>1, <2>2 DEF CacheInv, EarliestRight
<1>. QED  BY <1>3, <1>4 DEF CacheInv

\* A drain leaves the cache dirty.
LEMMA DrainCaches ==
    ASSUME HandsInv, CacheInv, NEW t \in Tickers, DrainDueInto(t)
    PROVE  CacheInv'
<1> USE DEF wheelVars, liveVars, flightVars, tickVars, vars
<1>1. PICK ids \in SUBSET Live :
          ids = (overflow \cup UNION {levels[cell] : cell \in Cells}) \cap Live
  OBVIOUS
<1>2. PICK due \in SUBSET Live : due = ids \cap JumpDue(now[t])
  BY <1>1
<1>3. PICK rest \in SUBSET Live : rest = ids \ due
  BY <1>1
<1>4. Live' = Live \ due /\ \A id \in Live' : timers'[id] = timers[id]
  BY <1>1, <1>2 DEF DrainDueInto, TakeTimers, Restrict, Live
<1>5. PICK cells : cells = [cell \in Cells |-> {}]
  OBVIOUS
<1>6. InsertIntoWheel(cells, {}, None, now[t], rest, DeadlinesOf(rest))
  BY <1>1, <1>2, <1>3, <1>5 DEF DrainDueInto
<1>7. OverflowBounded'
  BY <1>4, <1>6, MovedBounds DEF CacheInv, OptTick
<1>8. earliest_deadline' = None
  BY DEF DrainDueInto
<1>. QED  BY <1>7, <1>8 DEF CacheInv, CacheKnown

\* Every step keeps CacheInv.
LEMMA NextCaches ==
    ASSUME HandsInv, PlaceInv, CacheInv, [Next]_vars
    PROVE  CacheInv'
<1>1. ASSUME NEW t \in Tickers, Tick(t)
      PROVE  CacheInv'
  BY <1>1, QuietCaches, FireSlotCaches, CascadeCaches, EndAdvanceCaches, DrainCaches,
     RearmCaches DEF Tick
<1>2. CASE Call
  BY <1>2, QuietCaches, LookCaches, CancelCaches, ScheduleCaches DEF Call
<1>. QED  BY <1>1, <1>2, QuietCaches DEF Next

\* CacheInv holds in every reachable state.
LEMMA Caches == Spec => []CacheInv
<1>1. HandsInv /\ PlaceInv /\ CacheInv /\ [Next]_vars => CacheInv'
  BY NextCaches
<1>. QED  BY <1>1, InitCaches, Hands, InPlace, PTL DEF Spec

\* A cached earliest deadline is the earliest one whenever the lock is free,
\* so the reactor never sleeps past a timer, and overflow_min_deadline bounds
\* the overflow list, so reinsert_overflow is not skipped when it is due.
THEOREM CachesAreRight == Spec => []CachesRight
<1>1. CacheInv => CachesRight
  BY TimerAssumption DEF CacheInv, CacheKnown, EarliestRight, OverflowBounded, CachesRight
<1>. QED  BY <1>1, Caches, PTL

\* No deadline wraps around: the last tick and the delays are far below 2^64.
NoWrap == \A delay \in Delays : MaxClock + delay < TickModulus

--------------------------------------------------------------------------------
(***************************************************************************)
(* Slots: x \div k is the slot of k ticks that tick x falls in.            *)
(***************************************************************************)
\* What is left of x after whole slots of k ticks.
LEMMA Remainder ==
    ASSUME NEW x \in Int, NEW k \in Int, k > 0
    PROVE  x % k = x - k * (x \div k)
OBVIOUS

\* A multiple of k leaves nothing.
LEMMA NoRemainder ==
    ASSUME NEW n \in Nat, NEW k \in Nat \ {0}
    PROVE  (k * n) % k = 0
OBVIOUS

\* The remainder is less than a slot.
LEMMA DivMod ==
    ASSUME NEW x \in Nat, NEW k \in Nat \ {0}
    PROVE  /\ x \div k \in Nat
           /\ x % k \in Nat /\ x % k < k
           /\ x % k = x - k * (x \div k)
<1>1. x \div k \in Nat /\ x % k \in Nat /\ x % k < k
  OBVIOUS
<1>2. x % k = x - k * (x \div k)
  BY Remainder
<1>. QED  BY <1>1, <1>2

\* The next tick is in the same slot or at the start of the next one.
LEMMA NextSlot ==
    ASSUME NEW c \in Nat, NEW k \in Nat \ {0}
    PROVE  \/ (c + 1) \div k = c \div k
           \/ (c + 1) % k = 0 /\ (c + 1) \div k = (c \div k) + 1
OBVIOUS

\* A whole slot later is in a later slot.
LEMMA LaterSlot ==
    ASSUME NEW c \in Nat, NEW d \in Nat, NEW k \in Nat \ {0}, d >= c + k
    PROVE  c \div k < d \div k
OBVIOUS

\* A later slot is later.
LEMMA SlotIsLater ==
    ASSUME NEW c \in Nat, NEW d \in Nat, NEW k \in Nat \ {0}, c \div k < d \div k
    PROVE  c < d
OBVIOUS

\* The start of a slot is its first tick.
LEMMA SlotStart ==
    ASSUME NEW c \in Nat, NEW d \in Nat, NEW k \in Nat \ {0}, c \div k = d \div k, c % k = 0
    PROVE  c <= d
OBVIOUS

\* Ticks less than one turn apart with the same remainder are the same.
LEMMA SameTick ==
    ASSUME NEW c \in Nat, NEW d \in Nat, NEW k \in Nat \ {0}, c <= d, d < c + k, c % k = d % k
    PROVE  c = d
<1>1. PICK p \in Nat, q \in Nat, r \in Nat : p = c \div k /\ q = d \div k /\ r = c % k /\ r = d % k
  BY DivMod
<1>2. r = c - k * p /\ r = d - k * q
  BY <1>1, DivMod
<1>3. k * (q - p) >= 0 /\ k * (q - p) < k
  BY <1>2
<1>4. q - p < 1
  BY <1>3
<1>5. q - p >= 0
  BY <1>3
<1>6. q = p
  BY <1>4, <1>5
<1>. QED  BY <1>2, <1>6

\* A slot of a level is a whole number of slots of each level below it.
LEMMA SpanDivides ==
    ASSUME NEW k \in Levels, NEW l \in Levels, k <= l
    PROVE  \E m \in Nat : Span[l] = m * Span[k]
<1> USE LayoutAssumption
<1> DEFINE Bad == {j \in Levels : k <= j /\ ~\E m \in Nat : Span[j] = m * Span[k]}
<1>1. ASSUME NEW j \in Bad, \A i \in Bad : j <= i
      PROVE  FALSE
  <2>1. \E m \in Nat : Span[k] = m * Span[k]
    <3>1. PICK unit \in Nat : unit = Span[k]
      OBVIOUS
    <3>2. 1 \in Nat /\ unit = 1 * unit
      OBVIOUS
    <3>. QED  BY <3>1, <3>2
  <2>2. j # k /\ j - 1 \in Levels /\ k <= j - 1 /\ j \in Levels \ {0}
    <3>1. j \in Levels /\ k <= j /\ j # k
      BY <2>1
    <3>2. k \in Nat /\ j \in Nat /\ j <= NumLevels - 1
      BY <3>1 DEF Levels
    <3>. QED  BY <3>1, <3>2 DEF Levels
  <2>3. j - 1 \notin Bad
    <3>1. ~(j <= j - 1)
      BY <2>2 DEF Levels
    <3> HIDE DEF Bad
    <3>. QED  BY <1>1, <3>1
  <2>4. PICK m \in Nat : Span[j - 1] = m * Span[k]
    BY <2>2, <2>3
  <2>5. Span[j] = Span[j - 1] * LevelSize[j - 1]
    BY <2>2
  <2>6. PICK size \in Nat : size = LevelSize[j - 1]
    BY <2>2
  <2>7. PICK unit \in Nat : unit = Span[k]
    OBVIOUS
  <2>8. Span[j] = (m * size) * unit /\ m * size \in Nat
    BY <2>4, <2>5, <2>6, <2>7
  <2>. QED  BY <2>7, <2>8
<1>2. Bad = {}
  <2>1. Bad \subseteq Nat
    BY DEF Levels
  <2>2. ASSUME Bad # {}
        PROVE  FALSE
    <3> HIDE DEF Bad
    <3>. QED  BY <1>1, <2>1, <2>2, MinIsLeast
  <2>. QED  BY <2>2
<1>. QED  BY <1>2

\* Where a slot of a level starts, a slot of each level below it does.
LEMMA StartsTogether ==
    ASSUME NEW c \in Nat, NEW k \in Levels, NEW l \in Levels, k <= l, c % Span[l] = 0
    PROVE  c % Span[k] = 0
<1>1. PICK high \in Nat \ {0}, low \in Nat \ {0} : high = Span[l] /\ low = Span[k]
  BY LayoutAssumption
<1>2. PICK m \in Nat : high = m * low
  BY <1>1, SpanDivides
<1>3. PICK q \in Nat : q = c \div high
  BY DivMod
<1>4. c = high * q
  <2>1. c % high = c - high * (c \div high) /\ c % high = 0
    BY <1>1, DivMod
  <2>2. high * q \in Nat
    OBVIOUS
  <2>. QED  BY <1>3, <2>1, <2>2
<1>5. c = low * (m * q) /\ m * q \in Nat
  BY <1>2, <1>4
<1>. QED  BY <1>1, <1>5, NoRemainder

--------------------------------------------------------------------------------
(***************************************************************************)
(* Where a timer of deadline d can be while the cursor is at c: in a cell  *)
(* the cursor has not come to, or in an upper slot it has just entered.    *)
(***************************************************************************)
Ahead(c, cell, d) ==
    /\ cell[2] = SlotOf(cell[1], d)
    /\ d < c + Reach(cell[1])
    /\ IF cell[1] = 0 THEN c <= d ELSE c \div Span[cell[1]] < d \div Span[cell[1]]

JustEntered(c, cell, d) ==
    /\ cell[1] # 0
    /\ cell[2] = SlotOf(cell[1], d)
    /\ d < c + Reach(cell[1])
    /\ c % Span[cell[1]] = 0
    /\ c \div Span[cell[1]] = d \div Span[cell[1]]

\* The tables of the layout are positive numbers.
LEMMA LayoutType ==
    /\ \A l \in Levels : Span[l] \in Nat \ {0} /\ LevelSize[l] \in Nat \ {0} /\ Reach(l) \in Nat \ {0}
    /\ Span[0] = 1 /\ 0 \in Levels /\ NumLevels - 1 \in Levels /\ MaxRange \in Nat \ {0}
<1>1. \A l \in Levels : Span[l] \in Nat \ {0} /\ LevelSize[l] \in Nat \ {0}
  BY LayoutAssumption
<1>2. ASSUME NEW l \in Levels
      PROVE  Reach(l) \in Nat \ {0}
  <2>1. PICK a \in Nat \ {0}, b \in Nat \ {0} : a = Span[l] /\ b = LevelSize[l]
    BY <1>1
  <2>2. a * b \in Nat /\ a * b # 0
    OBVIOUS
  <2>. QED  BY <2>1, <2>2 DEF Reach
<1>3. 0 \in Levels /\ NumLevels - 1 \in Levels /\ Span[0] = 1
  BY LayoutAssumption DEF Levels
<1>. QED  BY <1>1, <1>2, <1>3 DEF MaxRange

\* A cell is a level and a slot.
LEMMA CellIsPair ==
    ASSUME NEW cell \in Cells
    PROVE  cell[1] \in Levels /\ cell = <<cell[1], cell[2]>>
BY DEF Cells

\* insert_into_wheel puts a timer ahead of the cursor.
LEMMA CellOfIsAhead ==
    ASSUME NEW c \in Nat, NEW d \in Nat, c <= d, ~TooFar(c, d)
    PROVE  Ahead(c, CellOf(c, d), d)
<1>1. PICK delta \in Nat : delta = d - c /\ delta = Monus(d, c)
  BY DEF Monus
<1>2. PICK l \in Levels :
          /\ l = LevelForDelta(delta)
          /\ delta < Reach(l) \/ l = NumLevels - 1
          /\ \A k \in 0 .. l - 1 : delta >= Reach(k)
  BY LevelForDeltaType
<1>3. CellOf(c, d) = <<l, SlotOf(l, d)>>
  BY <1>1, <1>2 DEF CellOf
<1>4. d < c + Reach(l)
  <2>1. delta < MaxRange
    BY <1>1, LayoutType DEF TooFar
  <2>. QED  BY <1>1, <1>2, <2>1, LayoutType DEF MaxRange
<1>5. ASSUME l # 0
      PROVE  c \div Span[l] < d \div Span[l]
  <2>1. l - 1 \in 0 .. l - 1 /\ l \in Levels \ {0}
    BY <1>5 DEF Levels
  <2>2. Reach(l - 1) = Span[l]
    BY <2>1, LayoutAssumption DEF Reach
  <2>3. d >= c + Span[l]
    BY <1>1, <1>2, <2>1, <2>2, LayoutType
  <2>. QED  BY <2>3, LaterSlot, LayoutType
<1>. QED  BY <1>3, <1>4, <1>5 DEF Ahead

\* Neither place is behind the cursor.
LEMMA NotBehind ==
    ASSUME NEW c \in Nat, NEW d \in Nat, NEW cell \in Cells,
           Ahead(c, cell, d) \/ JustEntered(c, cell, d)
    PROVE  c <= d
<1>1. Span[cell[1]] \in Nat \ {0}
  BY CellIsPair, LayoutType
<1>2. CASE Ahead(c, cell, d)
  <2>1. cell[1] = 0 => c <= d
    BY <1>2 DEF Ahead
  <2>2. cell[1] # 0 => c < d
    BY <1>1, <1>2, SlotIsLater DEF Ahead
  <2>. QED  BY <2>1, <2>2
<1>3. CASE JustEntered(c, cell, d)
  BY <1>1, <1>3, SlotStart DEF JustEntered
<1>. QED  BY <1>2, <1>3

\* The timers under the cursor are due at this very tick.
LEMMA UnderCursor ==
    ASSUME NEW c \in Nat, NEW d \in Nat, Ahead(c, CursorCell(c), d)
    PROVE  d = c
<1>1. PICK size \in Nat \ {0} : size = LevelSize[0]
  BY LayoutType
<1>2. c \div 1 = c /\ d \div 1 = d
  OBVIOUS
<1>3. SlotOf(0, c) = c % size /\ SlotOf(0, d) = d % size
  BY <1>1, <1>2, LayoutType DEF SlotOf
<1>4. Reach(0) = size
  BY <1>1, LayoutType DEF Reach
<1>5. c <= d /\ d < c + size /\ c % size = d % size
  BY <1>3, <1>4 DEF Ahead, CursorCell
<1>. QED  BY <1>5, SameTick

\* The cursor moves on, past a slot that has been emptied.
LEMMA CursorMoves ==
    ASSUME NEW c \in Nat, NEW d \in Nat, NEW cell \in Cells, cell # CursorCell(c), Ahead(c, cell, d)
    PROVE  Ahead(c + 1, cell, d) \/ JustEntered(c + 1, cell, d)
<1>1. PICK l \in Levels : l = cell[1] /\ cell = <<l, cell[2]>>
  BY CellIsPair
<1>2. PICK span \in Nat \ {0} : span = Span[l]
  BY LayoutType
<1>3. /\ cell[2] = SlotOf(l, d) /\ d < c + Reach(l) /\ Reach(l) \in Nat
      /\ IF l = 0 THEN c <= d ELSE c \div span < d \div span
  BY <1>1, <1>2, LayoutType DEF Ahead
<1>4. CASE l = 0
  <2>1. c # d
    BY <1>1, <1>3, <1>4 DEF CursorCell
  <2>. QED  BY <1>1, <1>3, <1>4, <2>1 DEF Ahead
<1>5. CASE l # 0
  <2>1. PICK p \in Nat, q \in Nat, r \in Nat :
            p = c \div span /\ q = d \div span /\ r = (c + 1) \div span
    <3>1. c \div span \in Nat /\ d \div span \in Nat
      BY DivMod
    <3>2. c + 1 \in Nat
      OBVIOUS
    <3>3. (c + 1) \div span \in Nat
      BY <3>2, DivMod
    <3>. QED  BY <3>1, <3>3
  <2>2. p < q /\ (r = p \/ ((c + 1) % span = 0 /\ r = p + 1))
    BY <1>3, <1>5, <2>1, NextSlot
  <2>3. r < q \/ (r = q /\ (c + 1) % span = 0)
    BY <2>2
  <2>4. d < (c + 1) + Reach(l)
    BY <1>3
  <2>. QED  BY <1>1, <1>2, <1>3, <1>5, <2>1, <2>3, <2>4 DEF Ahead, JustEntered
<1>. QED  BY <1>4, <1>5

\* The timers of a slot the cursor has just entered are in that slot.
LEMMA EnteredIsHere ==
    ASSUME NEW c, NEW d, NEW cell \in Cells, JustEntered(c, cell, d)
    PROVE  cell = <<cell[1], SlotOf(cell[1], c)>>
BY CellIsPair DEF JustEntered, SlotOf

\* A slot is entered at the start of a slot of each level below.
LEMMA EnteredWraps ==
    ASSUME NEW c \in Nat, NEW d, NEW cell \in Cells, NEW k \in Levels, k <= cell[1],
           JustEntered(c, cell, d)
    PROVE  c % Span[k] = 0
BY CellIsPair, StartsTogether DEF JustEntered

NoneBehind(c, ids, deadline) == \A id \in ids : c <= deadline[id]

InsertedAhead(cells, over, c, ids, deadline) ==
    /\ \A cell \in Cells : \A id \in levels'[cell] :
          id \in cells[cell] \/ (id \in ids /\ Ahead(c, cell, deadline[id]))
    /\ \A id \in overflow' :
          id \in over \/ (id \in ids /\ deadline[id] >= c + MaxRange)

\* Where insert_into_wheel puts timers that are not behind the cursor.
LEMMA InsertAhead ==
    ASSUME NEW cells, NEW over, NEW overMin, NEW c \in Nat, NEW ids,
           NEW deadline \in [ids -> Nat], NoneBehind(c, ids, deadline),
           InsertIntoWheel(cells, over, overMin, c, ids, deadline)
    PROVE  InsertedAhead(cells, over, c, ids, deadline)
<1>. USE DEF NoneBehind
<1>1. ASSUME NEW cell \in Cells, NEW id \in levels'[cell], id \notin cells[cell]
      PROVE  id \in ids /\ Ahead(c, cell, deadline[id])
  <2>1. id \in ids /\ ~TooFar(c, deadline[id]) /\ CellOf(c, deadline[id]) = cell
    BY <1>1 DEF InsertIntoWheel, Placed
  <2>. QED  BY <2>1, CellOfIsAhead
<1>2. ASSUME NEW id \in overflow', id \notin over
      PROVE  id \in ids /\ deadline[id] >= c + MaxRange
  <2>1. id \in ids /\ TooFar(c, deadline[id]) /\ c <= deadline[id] /\ deadline[id] \in Nat
    BY <1>2 DEF InsertIntoWheel, Overflowing
  <2>. QED  BY <2>1, LayoutType DEF TooFar, Monus
<1>. QED  BY <1>1, <1>2 DEF InsertedAhead

--------------------------------------------------------------------------------
(***************************************************************************)
(* Time: the cursor never passes the clock, an advance stays in the range  *)
(* of the wheel, and the deadline of a timer is the tick its caller meant. *)
(***************************************************************************)
TimeInv ==
    /\ clock <= MaxClock
    /\ current_tick <= clock
    /\ \A t \in Tickers :
         /\ now[t] <= clock
         /\ pc[t] \in {"advance", "cascade"} => now[t] <= current_tick + MaxRange
         /\ pc[t] = "cascade" => current_tick <= now[t]
         /\ pc[t] # "cascade" => cascading[t] = 1
    /\ \A id \in Live : timers[id].due = timers[id].deadline

\* Time begins at tick 0.
LEMMA InitTime == Init => TimeInv
<1> SUFFICES ASSUME Init PROVE TimeInv
  OBVIOUS
<1>1. MaxClock \in Nat /\ clock = 0 /\ current_tick = 0 /\ Live = {}
  BY TimerAssumption DEF Init, Live
<1>2. \A t \in Tickers : now[t] = 0 /\ pc[t] = "idle" /\ cascading[t] = 1
  BY DEF Init
<1>. QED  BY <1>1, <1>2 DEF TimeInv

\* A timer for delay ticks from now is due when its caller meant.
LEMMA TimerAfterIsDue ==
    ASSUME NoWrap, HandsInv, TimeInv, NEW delay \in Delays, NEW period
    PROVE  /\ TimerAfter(delay, period).deadline = clock + delay
           /\ TimerAfter(delay, period).due = clock + delay
           /\ clock + delay \in Nat /\ current_tick <= clock + delay
<1>1. /\ clock \in Nat /\ delay \in Nat /\ current_tick \in Nat /\ MaxClock \in Nat
      /\ TickModulus \in Nat \ {0} /\ clock <= MaxClock /\ current_tick <= clock
  BY TimerAssumption DEF HandsInv, TypeOK, TimeInv
<1>2. clock + delay \in Nat /\ clock + delay < TickModulus
  BY <1>1 DEF NoWrap
<1>3. ASSUME NEW x \in Nat, x < TickModulus
      PROVE  x % TickModulus = x
  BY <1>1, <1>3
<1>4. (clock + delay) % TickModulus = clock + delay
  BY <1>2, <1>3
<1>. QED  BY <1>1, <1>2, <1>4 DEF TimerAfter

\* The steps that schedule no timer.
LEMMA TimeKept ==
    ASSUME HandsInv, TimeInv, HandsInv',
           clock' = clock /\ current_tick' = current_tick,
           UNCHANGED <<pc, now, cascading>>,
           \A id \in Live' : timers'[id].due = timers'[id].deadline
    PROVE  TimeInv'
BY DEF TimeInv

\* Scheduling, cancelling and looking.
LEMMA CallTime ==
    ASSUME NoWrap, HandsInv, TimeInv, HandsInv', Call
    PROVE  TimeInv'
<1> USE DEF wheelVars, liveVars, flightVars, tickVars, vars
<1>1. ASSUME NEW id \in TimerIds, NEW delay \in Delays, NEW period \in {Once, delay},
             Schedule(id, delay, period)
      PROVE  TimeInv'
  <2>1. PICK timer : timer = TimerAfter(delay, period) /\ timer.due = timer.deadline
    BY TimerAfterIsDue
  <2>2. PICK new : new = [x \in {id} |-> timer]
    OBVIOUS
  <2>3. DOMAIN new = {id} /\ new[id] = timer /\ AddTimers(new)
    BY <1>1, <2>1, <2>2 DEF Schedule
  <2>4. Live' = Live \cup {id} /\ \A x \in Live' : timers'[x] = IF x = id THEN timer ELSE timers[x]
    BY <2>3 DEF AddTimers, Live
  <2>5. \A x \in Live' : timers'[x].due = timers'[x].deadline
    BY <2>1, <2>4 DEF TimeInv
  <2>. QED  BY <1>1, <2>5, TimeKept DEF Schedule
<1>2. ASSUME NEW id \in TimerIds, CancelPending(id)
      PROVE  TimeInv'
  <2>1. \A x \in Live' : x \in Live /\ timers'[x] = timers[x]
    BY <1>2 DEF CancelPending, TakeTimers, Restrict, Live
  <2>2. \A x \in Live' : timers'[x].due = timers'[x].deadline
    BY <2>1 DEF TimeInv
  <2>. QED  BY <1>2, <2>2, TimeKept DEF CancelPending
<1>3. ASSUME UNCHANGED <<clock, current_tick, pc, now, cascading, timers>>
      PROVE  TimeInv'
  <2>1. \A x \in Live' : timers'[x].due = timers'[x].deadline
    BY <1>3 DEF TimeInv, Live
  <2>. QED  BY <1>3, <2>1, TimeKept
<1>. QED  BY <1>1, <1>2, <1>3 DEF Call, CancelInFlight, TimeUntilNext

\* A tick() that has not reached its last critical section.
LEMMA TickTime ==
    ASSUME HandsInv, TimeInv, HandsInv', NEW t \in Tickers,
           \/ ReadNow(t) \/ BeginAdvance(t) \/ FireSlot(t) \/ Cascade(t) \/ EndCascade(t)
           \/ EndAdvance(t) \/ DrainDueInto(t) \/ MarkInFlight(t)
           \/ FireCallback(t) \/ CallbackPanics(t)
    PROVE  TimeInv'
<1> USE DEF wheelVars, liveVars, flightVars, tickVars, vars, GoTo
<1>1. \A x \in Live' : x \in Live /\ timers'[x] = timers[x]
  <2>1. CASE UNCHANGED timers
    BY <2>1 DEF Live
  <2>2. ASSUME NEW ids, TakeTimers(ids)
        PROVE  \A x \in Live' : x \in Live /\ timers'[x] = timers[x]
    BY <2>2 DEF TakeTimers, Restrict, Live
  <2>. QED
    BY <2>1, <2>2 DEF ReadNow, BeginAdvance, FireSlot, Cascade, EndCascade, EndAdvance,
                      DrainDueInto, MarkInFlight, FireCallback, CallbackPanics
<1>2. \A x \in Live' : timers'[x].due = timers'[x].deadline
  BY <1>1 DEF TimeInv
<1>3. clock' = clock /\ clock \in Nat /\ current_tick \in Nat
  BY DEF ReadNow, BeginAdvance, FireSlot, Cascade, EndCascade, EndAdvance, DrainDueInto,
         MarkInFlight, FireCallback, CallbackPanics, HandsInv, TypeOK
<1>4. \A u \in Tickers \ {t} : pc'[u] = pc[u] /\ now'[u] = now[u] /\ cascading'[u] = cascading[u]
  BY DEF ReadNow, BeginAdvance, FireSlot, Cascade, EndCascade, EndAdvance, DrainDueInto,
         MarkInFlight, FireCallback, CallbackPanics, HandsInv, TypeOK
<1>5. now[t] \in Nat /\ now[t] <= clock /\ current_tick <= clock
  BY DEF HandsInv, TypeOK, TimeInv
<1>6. /\ current_tick <= current_tick' /\ current_tick' <= clock
      /\ current_tick' # current_tick =>
            \A u \in Tickers \ {t} : pc[u] \notin {"advance", "cascade"}
  <2>1. CASE FireSlot(t)
    <3>1. mutex = t /\ current_tick' = current_tick + 1 /\ current_tick < now[t]
      BY <2>1 DEF FireSlot, HandsInv, Shape
    <3>. QED  BY <1>3, <1>5, <3>1 DEF HandsInv, Shape
  <2>2. CASE DrainDueInto(t)
    <3>1. mutex = None /\ current_tick' = now[t] /\ now[t] > current_tick + MaxRange
      BY <2>2 DEF DrainDueInto
    <3>2. \A u \in Tickers : mutex # u
      BY <3>1, TimerAssumption
    <3>. QED  BY <1>3, <1>5, <3>1, <3>2, LayoutType DEF HandsInv, Shape
  <2>3. CASE current_tick' = current_tick
    BY <1>3, <1>5, <2>3
  <2>. QED
    BY <2>1, <2>2, <2>3 DEF ReadNow, BeginAdvance, Cascade, EndCascade, EndAdvance, MarkInFlight,
                            FireCallback, CallbackPanics
<1>7. /\ now'[t] <= clock
      /\ pc'[t] \in {"advance", "cascade"} => now'[t] <= current_tick' + MaxRange
      /\ pc'[t] = "cascade" => current_tick' <= now'[t]
      /\ pc'[t] # "cascade" => cascading'[t] = 1
  <2> USE <1>3, <1>5, LayoutType
  <2>1. CASE ReadNow(t)
    BY <2>1 DEF ReadNow, HandsInv, TypeOK, TimeInv
  <2>2. CASE BeginAdvance(t)
    BY <2>2 DEF BeginAdvance, HandsInv, TypeOK, TimeInv
  <2>3. CASE FireSlot(t)
    BY <2>3, SMTT(30) DEF FireSlot, HandsInv, TypeOK, TimeInv
  <2>4. CASE Cascade(t)
    BY <2>4 DEF Cascade, HandsInv, TypeOK, TimeInv
  <2>5. CASE EndCascade(t)
    BY <2>5 DEF EndCascade, HandsInv, TypeOK, TimeInv
  <2>6. CASE EndAdvance(t)
    BY <2>6 DEF EndAdvance, AfterAdvance, HandsInv, TypeOK, TimeInv
  <2>7. CASE DrainDueInto(t)
    BY <2>7 DEF DrainDueInto, AfterAdvance, HandsInv, TypeOK, TimeInv
  <2>8. CASE MarkInFlight(t)
    BY <2>8 DEF MarkInFlight, HandsInv, TypeOK, TimeInv
  <2>9. CASE FireCallback(t)
    <3>1. /\ now' = now /\ cascading' = cascading /\ pc[t] = "fire"
          /\ \E place \in {"fire", "rearm", "idle"} : pc' = [pc EXCEPT ![t] = place]
      BY <2>9, Zenon DEF FireCallback, AfterFire
    <3>. QED  BY <3>1 DEF HandsInv, TypeOK, TimeInv
  <2>10. CASE CallbackPanics(t)
    BY <2>10 DEF CallbackPanics, HandsInv, TypeOK, TimeInv
  <2>. QED  BY <2>1, <2>2, <2>3, <2>4, <2>5, <2>6, <2>7, <2>8, <2>9, <2>10
<1>8. ASSUME NEW u \in Tickers \ {t}
      PROVE  /\ now'[u] <= clock
             /\ pc'[u] \in {"advance", "cascade"} => now'[u] <= current_tick' + MaxRange
             /\ pc'[u] = "cascade" => current_tick' <= now'[u]
             /\ pc'[u] # "cascade" => cascading'[u] = 1
  BY <1>4, <1>6 DEF TimeInv
<1>. QED  BY <1>2, <1>3, <1>6, <1>7, <1>8 DEF TimeInv

\* The survivors of a batch, as timers to arm again: each of them is due where
\* its deadline says, and not behind the cursor.
LEMMA RearmedIsDue ==
    ASSUME NoWrap, HandsInv, TimeInv, NEW t \in Tickers,
           NEW surv \in SUBSET Entry, surv = Survivors(t), pc[t] = "rearm",
           NEW new, new = [id \in IdsOf(surv) |-> LET e == CHOOSE x \in surv : x.id = id
                                                  IN TimerAfter(e.period, e.period)]
    PROVE  \A id \in IdsOf(surv) :
              /\ new[id].due = new[id].deadline
              /\ new[id].deadline \in Nat /\ current_tick <= new[id].deadline
<1>1. ASSUME NEW id \in IdsOf(surv)
      PROVE  /\ new[id].due = new[id].deadline
             /\ new[id].deadline \in Nat /\ current_tick <= new[id].deadline
  <2>1. PICK x \in surv : x.id = id
    BY DEF IdsOf
  <2>2. PICK e \in surv : e = CHOOSE y \in surv : y.id = id
    BY <2>1
  <2>3. e \in to_reschedule[t] /\ e \in Entry
    BY <2>2 DEF Survivors
  <2>4. e.period # Once /\ e.period \in Periods
    BY <2>3 DEF HandsInv, Shape, Entry
  <2>5. e.period \in Delays
    BY <2>4 DEF Periods
  <2>6. new[id] = TimerAfter(e.period, e.period)
    BY <2>2
  <2>. QED  BY <2>5, <2>6, TimerAfterIsDue
<1>. QED  BY <1>1

\* Timers that are armed again are due one interval from now.
LEMMA RearmTime ==
    ASSUME NoWrap, HandsInv, TimeInv, HandsInv', NEW t \in Tickers, Rearm(t)
    PROVE  TimeInv'
<1> USE DEF wheelVars, liveVars, flightVars, tickVars, vars, GoTo
<1>1. PICK surv \in SUBSET Entry : surv = Survivors(t) /\ surv \subseteq to_reschedule[t]
  BY DEF Survivors, HandsInv, TypeOK
<1>2. PICK D : D = IdsOf(surv)
  OBVIOUS
<1>3. PICK new : /\ DOMAIN new = D /\ AddTimers(new)
                 /\ \A id \in D : new[id].due = new[id].deadline
  <2>1. PICK new : new = [id \in IdsOf(surv) |-> LET e == CHOOSE x \in surv : x.id = id
                                                 IN TimerAfter(e.period, e.period)]
    OBVIOUS
  <2>2. AddTimers(new) /\ pc[t] = "rearm"
    BY <1>1, <2>1 DEF Rearm
  <2>3. \A id \in IdsOf(surv) : new[id].due = new[id].deadline
    BY <1>1, <2>1, <2>2, RearmedIsDue
  <2>4. DOMAIN new = D
    BY <1>2, <2>1
  <2>. QED  BY <1>2, <2>2, <2>3, <2>4
<1>4. \A id \in Live' : timers'[id] = IF id \in D THEN new[id] ELSE timers[id]
  BY <1>3 DEF AddTimers, Live
<1>5. \A id \in Live' : id \in D \/ id \in Live
  BY <1>3 DEF AddTimers, Live
<1>6. \A id \in Live' : timers'[id].due = timers'[id].deadline
  BY <1>3, <1>4, <1>5 DEF TimeInv
<1>7. clock' = clock /\ current_tick' = current_tick /\ UNCHANGED <<now, cascading>>
      /\ pc[t] = "rearm" /\ pc' = [pc EXCEPT ![t] = "idle"]
  BY DEF Rearm
<1>. QED  BY <1>6, <1>7 DEF TimeInv, HandsInv, TypeOK

\* Every step keeps TimeInv.
LEMMA NextTime ==
    ASSUME NoWrap, HandsInv, TimeInv, HandsInv', [Next]_vars
    PROVE  TimeInv'
<1> USE DEF wheelVars, liveVars, flightVars, tickVars, vars
<1>1. CASE AdvanceClock
  <2>1. /\ clock < MaxClock /\ clock' = clock + 1
        /\ UNCHANGED <<current_tick, pc, now, cascading, timers>>
    BY <1>1 DEF AdvanceClock
  <2>2. clock \in Nat /\ current_tick \in Nat /\ MaxClock \in Nat /\ \A t \in Tickers : now[t] \in Nat
    BY TimerAssumption DEF HandsInv, TypeOK
  <2>. QED  BY <2>1, <2>2 DEF TimeInv, Live
<1>2. CASE UNCHANGED vars
  BY <1>2 DEF TimeInv, Live
<1>. QED  BY <1>1, <1>2, CallTime, TickTime, RearmTime DEF Next, Tick

\* TimeInv holds in every reachable state.
LEMMA Time ==
    ASSUME NoWrap
    PROVE  Spec => []TimeInv
<1>1. HandsInv /\ HandsInv' /\ TimeInv /\ [Next]_vars => TimeInv'
  BY NextTime
<1>. QED  BY <1>1, InitTime, Hands, PTL DEF Spec

--------------------------------------------------------------------------------
(***************************************************************************)
(* Positions: every live timer in the wheel is ahead of the cursor, but    *)
(* for those of the upper slots it has just entered and will cascade; and  *)
(* the overflow list is out of the wheel's range.                          *)
(***************************************************************************)
ToCascade(l) == \E t \in Tickers : pc[t] = "cascade" /\ cascading[t] <= l

WellPlaced(cell, d) ==
    \/ Ahead(current_tick, cell, d)
    \/ JustEntered(current_tick, cell, d) /\ ToCascade(cell[1])

Beyond(d) ==
    /\ current_tick <= d
    /\ mutex = None => current_tick + MaxRange <= d
    /\ \A t \in Tickers : mutex = t => now[t] <= d

PositionInv ==
    /\ \A id \in Live : \A cell \in Cells : id \in levels[cell] => WellPlaced(cell, Deadline(id))
    /\ \A id \in Live : id \in overflow => Beyond(Deadline(id))

\* While no ticker cascades, all timers of the wheel are ahead of the cursor.
LEMMA AllAhead ==
    ASSUME PositionInv, \A t \in Tickers : pc[t] # "cascade",
           NEW id \in Live, NEW cell \in Cells, id \in levels[cell]
    PROVE  Ahead(current_tick, cell, Deadline(id))
BY DEF PositionInv, WellPlaced, ToCascade

\* Only the ticker with the lock cascades.
LEMMA CascadeLocked ==
    ASSUME HandsInv, NEW t \in Tickers, pc[t] = "cascade" \/ pc[t] = "advance"
    PROVE  mutex = t /\ \A u \in Tickers \ {t} : pc[u] # "cascade" /\ pc[u] # "advance"
BY DEF HandsInv, Shape

\* So none does while the lock is free.
LEMMA NoneCascades ==
    ASSUME HandsInv, mutex = None, NEW t \in Tickers
    PROVE  pc[t] # "cascade" /\ pc[t] # "advance"
BY TimerAssumption DEF HandsInv, Shape

\* Deadlines are ticks.
LEMMA DeadlineType ==
    ASSUME HandsInv, NEW id \in Live
    PROVE  Deadline(id) \in Nat
BY DEF HandsInv, TypeOK, Deadline, Timer

\* Nothing is placed yet.
LEMMA InitPosition == Init => PositionInv
<1> SUFFICES ASSUME Init PROVE PositionInv
  OBVIOUS
<1>1. Live = {}
  BY DEF Init, Live
<1>. QED  BY <1>1 DEF PositionInv

\* Steps that leave the wheel and the cursor alone.
LEMMA PositionKept ==
    ASSUME HandsInv, PositionInv, UNCHANGED <<levels, overflow, current_tick>>,
           \A id \in Live' : id \in Live /\ timers'[id] = timers[id],
           \A l : ToCascade(l) => ToCascade(l)',
           \A d \in Nat : Beyond(d) => Beyond(d)'
    PROVE  PositionInv'
<1>1. \A id \in Live' : Deadline(id)' = Deadline(id) /\ Deadline(id) \in Nat
  BY DeadlineType DEF Deadline
<1>2. \A cell, d : WellPlaced(cell, d) => WellPlaced(cell, d)'
  BY DEF WellPlaced
<1>. QED  BY <1>1, <1>2 DEF PositionInv

\* Steps outside advance_to that insert nothing, and the start of an advance.
LEMMA QuietPosition ==
    ASSUME HandsInv, TimeInv, PositionInv,
           \/ AdvanceClock \/ TimeUntilNext \/ UNCHANGED vars
           \/ \E id \in TimerIds : CancelPending(id) \/ CancelInFlight(id)
           \/ \E t \in Tickers : \/ ReadNow(t) \/ BeginAdvance(t) \/ MarkInFlight(t)
                                 \/ FireCallback(t) \/ CallbackPanics(t)
    PROVE  PositionInv'
<1> USE DEF wheelVars, liveVars, flightVars, tickVars, vars, GoTo
<1>1. UNCHANGED <<levels, overflow, current_tick, cascading>>
  BY DEF AdvanceClock, TimeUntilNext, CancelPending, CancelInFlight, ReadNow, BeginAdvance,
         MarkInFlight, FireCallback, CallbackPanics
<1>2. \A id \in Live' : id \in Live /\ timers'[id] = timers[id]
  <2>1. CASE \E id \in TimerIds : CancelPending(id)
    BY <2>1 DEF CancelPending, TakeTimers, Restrict, Live
  <2>2. CASE UNCHANGED timers
    BY <2>2 DEF Live
  <2>. QED
    BY <2>1, <2>2 DEF AdvanceClock, TimeUntilNext, CancelInFlight, ReadNow, BeginAdvance,
                      MarkInFlight, FireCallback, CallbackPanics
<1>3. ASSUME NEW l, ToCascade(l)
      PROVE  ToCascade(l)'
  <2>1. PICK u \in Tickers : pc[u] = "cascade" /\ cascading[u] <= l
    BY <1>3 DEF ToCascade
  <2>2. pc'[u] = "cascade"
    BY <2>1 DEF AdvanceClock, TimeUntilNext, CancelPending, CancelInFlight, ReadNow, BeginAdvance,
                MarkInFlight, FireCallback, CallbackPanics, HandsInv, TypeOK
  <2>. QED  BY <1>1, <2>1, <2>2 DEF ToCascade
<1>4. ASSUME NEW d \in Nat, Beyond(d)
      PROVE  Beyond(d)'
  <2>1. CASE UNCHANGED <<mutex, now>>
    BY <1>1, <1>4, <2>1 DEF Beyond
  <2>2. ASSUME NEW t \in Tickers, ReadNow(t)
        PROVE  Beyond(d)'
    <3>1. mutex # t /\ mutex' = mutex /\ \A u \in Tickers \ {t} : now'[u] = now[u]
      BY <2>2 DEF ReadNow, HandsInv, Shape, TypeOK
    <3>. QED  BY <1>1, <1>4, <3>1 DEF Beyond
  <2>3. ASSUME NEW t \in Tickers, BeginAdvance(t)
        PROVE  Beyond(d)'
    <3>1. mutex = None /\ mutex' = t /\ t # None /\ now' = now /\ now[t] <= current_tick + MaxRange
      BY <2>3, TimerAssumption DEF BeginAdvance
    <3>2. now[t] \in Nat /\ current_tick \in Nat /\ MaxRange \in Nat
      BY LayoutType DEF HandsInv, TypeOK
    <3>. QED  BY <1>1, <1>4, <3>1, <3>2 DEF Beyond
  <2>. QED
    BY <2>1, <2>2, <2>3 DEF AdvanceClock, TimeUntilNext, CancelPending, CancelInFlight,
                            MarkInFlight, FireCallback, CallbackPanics
<1>. QED  BY <1>1, <1>2, <1>3, <1>4, PositionKept

\* Timers that are added are due at the cursor or later.
LEMMA AddedPosition ==
    ASSUME HandsInv, PositionInv, mutex = None, UNCHANGED <<mutex, current_tick>>,
           NEW D \in SUBSET TimerIds, D \cap Live = {}, \A id \in D : Nowhere(id),
           NEW new \in [D -> Timer], \A id \in D : current_tick <= new[id].deadline,
           AddTimers(new)
    PROVE  PositionInv'
<1>1. /\ Live' = Live \cup D
      /\ \A id \in Live : timers'[id] = timers[id]
      /\ \A id \in D : timers'[id] = new[id]
  BY AddTimersType DEF HandsInv
<1>2. PICK deadline \in [D -> Nat] :
          /\ deadline = [id \in D |-> new[id].deadline]
          /\ InsertIntoWheel(levels, overflow, overflow_min_deadline, current_tick, D, deadline)
  <2>1. [id \in D |-> new[id].deadline] \in [D -> Nat]
    BY DEF Timer
  <2>. QED  BY <2>1 DEF AddTimers
<1>. PICK c \in Nat : c = current_tick
  BY DEF HandsInv, TypeOK
<1>3. PICK cells, over, overMin :
          cells = levels /\ over = overflow /\ overMin = overflow_min_deadline /\ c = current_tick
  OBVIOUS
<1>4. InsertIntoWheel(cells, over, overMin, c, D, deadline) /\ \A id \in D : c <= deadline[id]
  BY <1>2, <1>3
<1>5. /\ \A cell \in Cells : \A id \in levels'[cell] :
             id \in cells[cell] \/ (id \in D /\ Ahead(c, cell, deadline[id]))
      /\ \A id \in overflow' : id \in over \/ (id \in D /\ deadline[id] >= c + MaxRange)
  <2>1. NoneBehind(c, D, deadline)
    BY <1>4 DEF NoneBehind
  <2>2. InsertedAhead(cells, over, c, D, deadline)
    BY <1>4, <2>1, InsertAhead
  <2>. QED  BY <2>2 DEF InsertedAhead
<1>6. /\ \A id \in Live : Deadline(id)' = Deadline(id)
      /\ \A id \in D : Deadline(id)' = deadline[id]
  BY <1>1, <1>2 DEF Deadline
<1>7. \A id \in D : id \notin overflow /\ \A cell \in Cells : id \notin levels[cell]
  BY DEF Nowhere, CellsWith
<1>8. ASSUME NEW id \in Live', NEW cell \in Cells, id \in levels'[cell]
      PROVE  WellPlaced(cell, Deadline(id))'
  <2>1. Ahead(current_tick, cell, Deadline(id)')
    <3>1. CASE id \in D
      BY <1>3, <1>5, <1>6, <1>7, <1>8, <3>1
    <3>2. CASE id \notin D
      <4>1. id \in Live /\ id \in levels[cell]
        BY <1>1, <1>3, <1>5, <1>8, <3>2
      <4>. QED  BY <1>6, <4>1, AllAhead, NoneCascades
    <3>. QED  BY <3>1, <3>2
  <2>. QED  BY <2>1 DEF WellPlaced
<1>9. ASSUME NEW id \in Live', id \in overflow'
      PROVE  Beyond(Deadline(id))'
  <2>1. current_tick <= Deadline(id)' /\ current_tick + MaxRange <= Deadline(id)'
    <3>1. CASE id \in D
      BY <1>3, <1>4, <1>5, <1>6, <1>7, <1>9, <3>1
    <3>2. CASE id \notin D
      <4>1. id \in Live /\ id \in overflow
        BY <1>1, <1>3, <1>5, <1>9, <3>2
      <4>. QED  BY <1>6, <4>1 DEF PositionInv, Beyond
    <3>. QED  BY <3>1, <3>2
  <2>. QED  BY <2>1, TimerAssumption DEF Beyond
<1>. QED  BY <1>8, <1>9 DEF PositionInv

\* A new timer.
LEMMA SchedulePosition ==
    ASSUME NoWrap, HandsInv, PlaceInv, TimeInv, PositionInv, NEW id \in TimerIds,
           NEW delay \in Delays, NEW period \in {Once, delay}, Schedule(id, delay, period)
    PROVE  PositionInv'
<1>1. PICK timer \in Timer : timer = TimerAfter(delay, period) /\ current_tick <= timer.deadline
  BY TimerAfterType, TimerAfterIsDue DEF HandsInv, Periods
<1>2. PICK new \in [{id} -> Timer] : new = [x \in {id} |-> timer]
  OBVIOUS
<1>3. AddTimers(new) /\ \A x \in {id} : current_tick <= new[x].deadline
  BY <1>1, <1>2 DEF Schedule
<1>4. /\ {id} \in SUBSET TimerIds /\ {id} \cap Live = {} /\ \A x \in {id} : Nowhere(x)
      /\ mutex = None /\ UNCHANGED <<mutex, current_tick>>
  BY DEF Schedule, HandsInv, TypeOK, PlaceInv
<1>. QED  BY <1>3, <1>4, AddedPosition

\* The timers that are armed again.
LEMMA RearmPosition ==
    ASSUME NoWrap, HandsInv, PlaceInv, TimeInv, PositionInv, NEW t \in Tickers, Rearm(t)
    PROVE  PositionInv'
<1>1. PICK surv \in SUBSET Entry : surv = Survivors(t) /\ surv \subseteq to_reschedule[t]
  BY DEF Survivors, HandsInv, TypeOK
<1>2. pc[t] = "rearm" /\ mutex = None /\ UNCHANGED <<mutex, current_tick>>
  BY DEF Rearm
<1>3. PICK D \in SUBSET TimerIds : D = IdsOf(surv)
  BY DEF IdsOf, Entry
<1>4. PICK new : /\ new \in [D -> Timer] /\ AddTimers(new)
                 /\ \A id \in D : current_tick <= new[id].deadline
  <2>1. PICK new : new = [id \in IdsOf(surv) |-> LET e == CHOOSE x \in surv : x.id = id
                                                 IN TimerAfter(e.period, e.period)]
    OBVIOUS
  <2>2. AddTimers(new)
    BY <1>1, <2>1 DEF Rearm
  <2>3. \A id \in IdsOf(surv) : current_tick <= new[id].deadline
    BY <1>1, <1>2, <2>1, RearmedIsDue
  <2>4. new \in [IdsOf(surv) -> Timer]
    BY <1>1, <1>2, <2>1, RearmedType
  <2>. QED  BY <1>3, <2>2, <2>3, <2>4
<1>5. D \subseteq Held(t)
  BY <1>1, <1>3 DEF Held, IdsOf
<1>6. D \cap Live = {} /\ \A id \in D : Nowhere(id)
  BY <1>5 DEF HandsInv, FiresOnce, PlaceInv, TakenOut
<1>. QED  BY <1>2, <1>4, <1>6, AddedPosition

\* The slot under the cursor is emptied and the cursor moves on.
LEMMA FireSlotPosition ==
    ASSUME HandsInv, TimeInv, PositionInv, NEW t \in Tickers, FireSlot(t)
    PROVE  PositionInv'
<1> USE DEF wheelVars, liveVars, flightVars, tickVars, vars, GoTo
<1>1. PICK here : here = CursorCell(current_tick)
  OBVIOUS
<1>2. /\ levels' = [levels EXCEPT ![here] = {}] /\ levels \in [Cells -> SUBSET TimerIds]
      /\ current_tick' = current_tick + 1 /\ current_tick \in Nat /\ current_tick < now[t]
      /\ now[t] \in Nat
      /\ UNCHANGED <<overflow, now, mutex, cascading>>
      /\ pc[t] = "advance" /\ pc'[t] = "cascade"
  BY <1>1 DEF FireSlot, HandsInv, TypeOK
<1>3. \A id \in Live' : id \in Live /\ timers'[id] = timers[id]
  BY DEF FireSlot, TakeTimers, Restrict, Live
<1>4. \A id \in Live' : Deadline(id)' = Deadline(id) /\ Deadline(id) \in Nat
  BY <1>3, DeadlineType DEF Deadline
<1>5. mutex = t /\ \A u \in Tickers : pc[u] # "cascade"
  BY <1>2, CascadeLocked
<1>6. cascading[t] = 1
  BY <1>2 DEF TimeInv
<1>7. ASSUME NEW id \in Live', NEW cell \in Cells, id \in levels'[cell]
      PROVE  WellPlaced(cell, Deadline(id))'
  <2>1. id \in levels[cell] /\ cell # here
    BY <1>2, <1>7
  <2>2. Ahead(current_tick, cell, Deadline(id))
    BY <1>3, <1>5, <2>1, AllAhead
  <2>3. PICK c \in Nat, d \in Nat : c = current_tick /\ d = Deadline(id) /\ d = Deadline(id)'
    BY <1>2, <1>4
  <2>4. Ahead(c + 1, cell, d) \/ JustEntered(c + 1, cell, d)
    BY <1>1, <2>1, <2>2, <2>3, CursorMoves
  <2>5. JustEntered(c + 1, cell, d) => ToCascade(cell[1])'
    <3>1. cell[1] \in Levels
      BY CellIsPair
    <3>2. cell[1] # 0 => 1 <= cell[1]
      BY <3>1 DEF Levels
    <3>. QED  BY <1>2, <1>6, <3>2 DEF JustEntered, ToCascade
  <2>. QED  BY <1>2, <2>3, <2>4, <2>5 DEF WellPlaced
<1>8. ASSUME NEW id \in Live', id \in overflow'
      PROVE  Beyond(Deadline(id))'
  <2>1. id \in Live /\ id \in overflow /\ Beyond(Deadline(id))
    BY <1>2, <1>3, <1>8 DEF PositionInv
  <2>2. now[t] <= Deadline(id)
    BY <1>5, <2>1 DEF Beyond
  <2>. QED  BY <1>2, <1>4, <1>5, <2>2, TimerAssumption DEF Beyond
<1>. QED  BY <1>7, <1>8 DEF PositionInv

\* A cascade leaves no timer in the slot of its level that was just entered.
LEMMA CascadePosition ==
    ASSUME HandsInv, TimeInv, PositionInv, NEW t \in Tickers, Cascade(t)
    PROVE  PositionInv'
<1> USE DEF wheelVars, liveVars, flightVars, tickVars, vars
<1>1. PICK l \in Levels : l = cascading[t]
  BY LayoutAssumption DEF Cascade, Wrapped, Levels, HandsInv, TypeOK
<1>2. PICK here \in Cells : here = <<l, SlotOf(l, current_tick)>>
  BY CursorCellIsCell DEF HandsInv, TypeOK
<1>3. PICK ids \in SUBSET Live : ids = levels[here] \cap Live
  OBVIOUS
<1>4. PICK cells : cells = [levels EXCEPT ![here] = {}]
  OBVIOUS
<1>5. PICK deadline \in [ids -> Nat] :
          /\ \A id \in ids : deadline[id] = Deadline(id)
          /\ InsertIntoWheel(cells, overflow, overflow_min_deadline, current_tick, ids, deadline)
  <2>1. InsertIntoWheel(cells, overflow, overflow_min_deadline, current_tick, ids, DeadlinesOf(ids))
    BY <1>1, <1>2, <1>3, <1>4 DEF Cascade
  <2>. QED  BY <2>1, DeadlinesOfType DEF HandsInv
<1>6. /\ pc[t] = "cascade" /\ pc' = pc /\ l \in Nat
      /\ cascading'[t] = l + 1
      /\ UNCHANGED <<timers, mutex, now, current_tick>>
  BY <1>1 DEF Cascade, HandsInv, TypeOK, Levels
<1>7. Live' = Live /\ \A id \in Live : Deadline(id)' = Deadline(id)
  BY <1>6 DEF Live, Deadline
<1>8. mutex = t /\ \A u \in Tickers \ {t} : pc[u] # "cascade"
  BY <1>6, CascadeLocked
<1>9. PICK c \in Nat : c = current_tick
  BY DEF HandsInv, TypeOK
<1>10. \A id \in ids : c <= deadline[id]
  <2>1. \A id \in ids : WellPlaced(here, Deadline(id)) /\ Deadline(id) \in Nat
    BY <1>3, DeadlineType DEF PositionInv
  <2>. QED  BY <1>5, <1>9, <2>1, NotBehind DEF WellPlaced
<1>11. /\ \A cell \in Cells : \A id \in levels'[cell] :
              id \in cells[cell] \/ (id \in ids /\ Ahead(c, cell, deadline[id]))
       /\ \A id \in overflow' : id \in overflow \/ (id \in ids /\ deadline[id] >= c + MaxRange)
  <2>1. PICK over, overMin : over = overflow /\ overMin = overflow_min_deadline
    OBVIOUS
  <2>2. InsertIntoWheel(cells, over, overMin, c, ids, deadline)
    BY <1>5, <1>9, <2>1
  <2>3. NoneBehind(c, ids, deadline)
    BY <1>10 DEF NoneBehind
  <2>4. InsertedAhead(cells, over, c, ids, deadline)
    BY <2>2, <2>3, InsertAhead
  <2>. QED  BY <2>1, <2>4 DEF InsertedAhead
<1>12. ASSUME NEW id \in Live, NEW cell \in Cells, id \in levels'[cell]
       PROVE  WellPlaced(cell, Deadline(id))'
  <2>1. CASE id \in ids /\ Ahead(c, cell, deadline[id])
    BY <1>5, <1>6, <1>7, <1>9, <2>1 DEF WellPlaced
  <2>2. CASE id \in cells[cell]
    <3>1. id \in levels[cell] /\ cell # here
      BY <1>4, <2>2 DEF HandsInv, TypeOK
    <3>2. WellPlaced(cell, Deadline(id))
      BY <3>1 DEF PositionInv
    <3>3. ASSUME JustEntered(current_tick, cell, Deadline(id)), ToCascade(cell[1])
          PROVE  ToCascade(cell[1])'
      <4>1. l <= cell[1] /\ cell[1] \in Nat
        BY <1>1, <1>8, <3>3, CellIsPair DEF ToCascade, Levels
      <4>2. cell[1] # l
        BY <1>2, <3>1, <3>3, EnteredIsHere
      <4>3. l + 1 <= cell[1]
        BY <1>6, <4>1, <4>2
      <4>. QED  BY <1>6, <4>3 DEF ToCascade
    <3>. QED  BY <1>6, <1>7, <3>2, <3>3 DEF WellPlaced
  <2>. QED  BY <1>11, <1>12, <2>1, <2>2
<1>13. ASSUME NEW id \in Live, id \in overflow'
       PROVE  Beyond(Deadline(id))'
  <2>1. CASE id \in overflow
    <3>1. Beyond(Deadline(id))
      BY <2>1 DEF PositionInv
    <3>. QED  BY <1>6, <1>7, <3>1 DEF Beyond
  <2>2. CASE id \notin overflow
    <3>1. id \in ids /\ Deadline(id) >= c + MaxRange /\ Deadline(id) \in Nat
      BY <1>5, <1>11, <1>13, <2>2, DeadlineType
    <3>2. now[t] <= c + MaxRange /\ now[t] \in Nat /\ MaxRange \in Nat
      BY <1>6, <1>9, LayoutType DEF TimeInv, HandsInv, TypeOK
    <3>. QED  BY <1>6, <1>7, <1>8, <1>9, <3>1, <3>2, TimerAssumption DEF Beyond
  <2>. QED  BY <2>1, <2>2
<1>. QED  BY <1>7, <1>12, <1>13 DEF PositionInv

\* When the levels below have not wrapped, no slot of the level, nor of those
\* above it, has just been entered.
LEMMA EndCascadePosition ==
    ASSUME HandsInv, TimeInv, PositionInv, NEW t \in Tickers, EndCascade(t)
    PROVE  PositionInv'
<1> USE DEF wheelVars, liveVars, flightVars, tickVars, vars
<1>1. UNCHANGED <<levels, overflow, current_tick, timers, mutex, now>> /\ pc[t] = "cascade"
  BY DEF EndCascade
<1>2. Live' = Live /\ \A id \in Live : Deadline(id)' = Deadline(id)
  BY <1>1 DEF Live, Deadline
<1>3. mutex = t /\ \A u \in Tickers \ {t} : pc[u] # "cascade"
  BY <1>1, CascadeLocked
<1>4. ASSUME NEW id \in Live, NEW cell \in Cells, id \in levels[cell]
      PROVE  Ahead(current_tick, cell, Deadline(id))
  <2>1. ASSUME JustEntered(current_tick, cell, Deadline(id)), ToCascade(cell[1])
        PROVE  FALSE
    <3>1. cascading[t] <= cell[1] /\ cascading[t] \in Nat /\ cell[1] \in Levels
      BY <1>3, <2>1, CellIsPair DEF ToCascade, HandsInv, TypeOK
    <3>2. cascading[t] \in Levels /\ cascading[t] < NumLevels
      BY <3>1, LayoutAssumption DEF Levels
    <3>3. current_tick % Span[cascading[t]] = 0
      BY <2>1, <3>1, <3>2, EnteredWraps DEF HandsInv, TypeOK
    <3>. QED  BY <3>2, <3>3 DEF EndCascade, Wrapped
  <2>. QED  BY <1>4, <2>1 DEF PositionInv, WellPlaced
<1>5. \A id \in Live : id \in overflow => Beyond(Deadline(id))'
  BY <1>1, <1>2 DEF PositionInv, Beyond
<1>. QED  BY <1>1, <1>2, <1>4, <1>5 DEF PositionInv, WellPlaced

\* The end of an advance: what is still in the overflow list is out of range.
LEMMA EndAdvancePosition ==
    ASSUME HandsInv, CacheInv, TimeInv, PositionInv, NEW t \in Tickers, EndAdvance(t)
    PROVE  PositionInv'
<1> USE DEF wheelVars, liveVars, flightVars, tickVars, vars, GoTo
<1>1. UNCHANGED <<timers, current_tick>> /\ mutex' = None /\ pc[t] = "advance"
  BY DEF EndAdvance
<1>2. Live' = Live /\ \A id \in Live : Deadline(id)' = Deadline(id)
  BY <1>1 DEF Live, Deadline
<1>3. mutex = t /\ \A u \in Tickers : pc[u] # "cascade"
  BY <1>1, CascadeLocked
<1>4. PICK c \in Nat : c = current_tick
  BY DEF HandsInv, TypeOK
<1>5. ASSUME NEW id \in Live, NEW cell \in Cells, id \in levels[cell]
      PROVE  Ahead(c, cell, Deadline(id))
  BY <1>3, <1>4, <1>5, AllAhead
<1>6. SUFFICES
        /\ \A id \in Live : \A cell \in Cells :
              id \in levels'[cell] => Ahead(c, cell, Deadline(id))
        /\ \A id \in Live : id \in overflow' => c + MaxRange <= Deadline(id)
  <2>1. \A id \in Live : c + MaxRange <= Deadline(id) => c <= Deadline(id)
    BY <1>4, DeadlineType, LayoutType
  <2>. QED  BY <1>1, <1>2, <1>4, <2>1, TimerAssumption DEF PositionInv, WellPlaced, Beyond
<1>7. CASE ~OverflowInRange
  <2>1. levels' = levels /\ overflow' = overflow
    BY <1>7 DEF EndAdvance
  <2>2. ASSUME NEW id \in Live, id \in overflow
        PROVE  c + MaxRange <= Deadline(id)
    <3>1. PICK least \in Nat : least = overflow_min_deadline /\ least <= Deadline(id) /\ least # None
      BY <2>2 DEF CacheInv, OverflowBounded, HandsInv, TypeOK, OptTick
    <3>2. TooFar(c, least)
      BY <1>4, <1>7, <3>1 DEF OverflowInRange
    <3>3. c + MaxRange <= least
      BY <1>4, <3>2, LayoutType DEF TooFar, Monus
    <3>. QED  BY <1>4, <3>1, <3>3, DeadlineType, LayoutType
  <2>. QED  BY <1>5, <2>1, <2>2
<1>8. CASE OverflowInRange
  <2>1. PICK ids \in SUBSET Live : ids = overflow \cap Live
    OBVIOUS
  <2>2. PICK deadline \in [ids -> Nat] :
            /\ \A id \in ids : deadline[id] = Deadline(id)
            /\ InsertIntoWheel(levels, {}, None, current_tick, ids, deadline)
    <3>1. InsertIntoWheel(levels, {}, None, current_tick, ids, DeadlinesOf(ids))
      BY <1>8, <2>1 DEF EndAdvance
    <3>. QED  BY <3>1, DeadlinesOfType DEF HandsInv
  <2>3. \A id \in ids : c <= deadline[id]
    BY <1>4, <2>1, <2>2 DEF PositionInv, Beyond
  <2>4. /\ \A cell \in Cells : \A id \in levels'[cell] :
               id \in levels[cell] \/ (id \in ids /\ Ahead(c, cell, deadline[id]))
        /\ \A id \in overflow' : id \in ids /\ deadline[id] >= c + MaxRange
    <3>1. PICK cells, over, overMin : cells = levels /\ over = {} /\ overMin = None
      OBVIOUS
    <3>2. InsertIntoWheel(cells, over, overMin, c, ids, deadline)
      BY <1>4, <2>2, <3>1
    <3>3. NoneBehind(c, ids, deadline)
      BY <2>3 DEF NoneBehind
    <3>4. InsertedAhead(cells, over, c, ids, deadline)
      BY <3>2, <3>3, InsertAhead
    <3>. QED  BY <3>1, <3>4 DEF InsertedAhead
  <2>5. \A id \in Live : \A cell \in Cells :
            id \in levels'[cell] => Ahead(c, cell, Deadline(id))
    BY <1>5, <2>2, <2>4
  <2>6. \A id \in Live : id \in overflow' => c + MaxRange <= Deadline(id)
    BY <2>2, <2>4
  <2>. QED  BY <2>5, <2>6
<1>. QED  BY <1>7, <1>8

\* A drain puts what is not due back, seen from the cursor's new place.
LEMMA DrainPosition ==
    ASSUME HandsInv, PlaceInv, TimeInv, PositionInv, NEW t \in Tickers, DrainDueInto(t)
    PROVE  PositionInv'
<1> USE DEF wheelVars, liveVars, flightVars, tickVars, vars, GoTo
<1>1. PICK ids : ids = (overflow \cup UNION {levels[cell] : cell \in Cells}) \cap Live
  OBVIOUS
<1>2. ids = Live
  BY <1>1, PlaceOfLive
<1>3. PICK due : due = ids \cap JumpDue(now[t])
  OBVIOUS
<1>4. PICK rest \in SUBSET Live : rest = ids \ due
  BY <1>2
<1>5. Live' = rest /\ \A id \in Live' : timers'[id] = timers[id]
  BY <1>1, <1>2, <1>3, <1>4 DEF DrainDueInto, TakeTimers, Restrict, Live
<1>6. PICK c \in Nat : c = now[t] /\ c = current_tick'
  BY DEF DrainDueInto, HandsInv, TypeOK
<1>7. PICK deadline \in [rest -> Nat] :
          /\ \A id \in rest : deadline[id] = Deadline(id)
          /\ InsertIntoWheel([cell \in Cells |-> {}], {}, None, c, rest, deadline)
  <2>1. InsertIntoWheel([cell \in Cells |-> {}], {}, None, c, rest, DeadlinesOf(rest))
    BY <1>1, <1>3, <1>4, <1>6 DEF DrainDueInto
  <2>. QED  BY <2>1, DeadlinesOfType DEF HandsInv
<1>8. \A id \in rest : c <= deadline[id]
  <2>1. \A id \in rest : ~(Deadline(id) <= c) /\ Deadline(id) \in Nat
    BY <1>2, <1>3, <1>4, <1>6, DeadlineType DEF JumpDue
  <2>. QED  BY <1>6, <1>7, <2>1
<1>9. /\ \A cell \in Cells : \A id \in levels'[cell] : id \in rest /\ Ahead(c, cell, deadline[id])
      /\ \A id \in overflow' : id \in rest /\ deadline[id] >= c + MaxRange
  <2>1. PICK cells, over, overMin : cells = [cell \in Cells |-> {}] /\ over = {} /\ overMin = None
    OBVIOUS
  <2>2. InsertIntoWheel(cells, over, overMin, c, rest, deadline)
    BY <1>7, <2>1
  <2>3. NoneBehind(c, rest, deadline)
    BY <1>8 DEF NoneBehind
  <2>4. InsertedAhead(cells, over, c, rest, deadline)
    BY <2>2, <2>3, InsertAhead
  <2>. QED  BY <2>1, <2>4 DEF InsertedAhead
<1>10. \A id \in rest : Deadline(id)' = deadline[id]
  BY <1>5, <1>7 DEF Deadline
<1>11. mutex' = None
  BY DEF DrainDueInto
<1>12. \A id \in Live' : \A cell \in Cells : id \in levels'[cell] => WellPlaced(cell, Deadline(id))'
  BY <1>5, <1>6, <1>9, <1>10 DEF WellPlaced
<1>13. \A id \in Live' : id \in overflow' => Beyond(Deadline(id))'
  BY <1>5, <1>6, <1>8, <1>9, <1>10, <1>11, TimerAssumption DEF Beyond
<1>. QED  BY <1>12, <1>13 DEF PositionInv

\* Every step keeps PositionInv.
LEMMA NextPosition ==
    ASSUME NoWrap, HandsInv, PlaceInv, CacheInv, TimeInv, PositionInv, [Next]_vars
    PROVE  PositionInv'
<1>1. ASSUME NEW t \in Tickers, Tick(t)
      PROVE  PositionInv'
  BY <1>1, QuietPosition, FireSlotPosition, CascadePosition, EndCascadePosition,
     EndAdvancePosition, DrainPosition, RearmPosition DEF Tick
<1>2. CASE Call
  BY <1>2, QuietPosition, SchedulePosition DEF Call
<1>. QED  BY <1>1, <1>2, QuietPosition DEF Next

\* PositionInv holds in every reachable state.
LEMMA Positions ==
    ASSUME NoWrap
    PROVE  Spec => []PositionInv
<1>1. HandsInv /\ PlaceInv /\ CacheInv /\ TimeInv /\ PositionInv /\ [Next]_vars => PositionInv'
  BY NextPosition
<1>. QED  BY <1>1, InitPosition, Hands, InPlace, Caches, Time, PTL DEF Spec

\* Whatever the jumps of the clock, the wraps of the levels and the moves from
\* the overflow list, advance_to passes over no timer without taking it out.
THEOREM NoneSkipped ==
    ASSUME NoWrap
    PROVE  Spec => []NothingSkipped
<1>1. HandsInv /\ PlaceInv /\ PositionInv => NothingSkipped
  <2> SUFFICES ASSUME HandsInv, PlaceInv, PositionInv, mutex = None, NEW id \in Live
               PROVE  Deadline(id) >= current_tick
    BY DEF NothingSkipped
  <2>1. Deadline(id) \in Nat /\ current_tick \in Nat
    BY DeadlineType DEF HandsInv, TypeOK
  <2>2. CASE id \in overflow
    BY <2>1, <2>2 DEF PositionInv, Beyond
  <2>3. ASSUME NEW cell \in Cells, id \in levels[cell]
        PROVE  Deadline(id) >= current_tick
    BY <2>1, <2>3, NotBehind DEF PositionInv, WellPlaced
  <2>. QED  BY <2>2, <2>3, PlaceOfLive
<1>. QED  BY <1>1, Hands, InPlace, Positions, PTL

--------------------------------------------------------------------------------
(***************************************************************************)
(* Batches: what advance_to takes out is due, tick by tick.                *)
(***************************************************************************)
InOrder(batch) ==
    \A i, j \in DOMAIN batch : i < j => batch[i].deadline <= batch[j].deadline

BatchInv ==
    \A t \in Tickers :
        /\ \A e \in Elements(expired[t]) : e.due <= clock
        /\ pc[t] \in {"advance", "cascade"} =>
              /\ \A e \in Elements(expired[t]) : e.deadline < current_tick
              /\ InOrder(expired[t])

\* The entries of an order are those of its timers.
LEMMA EntriesAreOf ==
    ASSUME NEW S, NEW order \in Orders(S), NEW e \in Elements(EntriesOf(order))
    PROVE  \E id \in S : e = EntryOf(id)
<1>1. DOMAIN EntriesOf(order) = DOMAIN order
  BY DEF EntriesOf
<1>2. PICK i \in DOMAIN order : e = EntriesOf(order)[i]
  BY <1>1 DEF Elements
<1>3. EntriesOf(order)[i] = EntryOf(order[i]) /\ order[i] \in S
  BY DEF EntriesOf, Orders
<1>. QED  BY <1>2, <1>3

\* Entries of one tick after a batch of earlier ones.
LEMMA ConcatInOrder ==
    ASSUME NEW a \in Seq(Entry), NEW b \in Seq(Entry), NEW c \in Nat, InOrder(a),
           \A e \in Elements(a) : e.deadline < c, \A e \in Elements(b) : e.deadline = c
    PROVE  InOrder(a \o b)
<1>1. PICK joined \in Seq(Entry) : joined = a \o b
  BY ConcatProperties
<1>2. PICK m \in Nat, n \in Nat : m = Len(a) /\ n = Len(b)
  BY LenProperties
<1>3. DOMAIN a = 1 .. m /\ DOMAIN b = 1 .. n /\ DOMAIN joined = 1 .. m + n
  BY <1>1, <1>2, LenProperties, ConcatProperties
<1>4. \A i \in 1 .. m + n : joined[i] = IF i <= m THEN a[i] ELSE b[i - m]
  BY <1>1, <1>2, ConcatProperties
<1>5. \A i \in 1 .. m + n : i <= m => i \in 1 .. m /\ joined[i] = a[i] /\ a[i].deadline < c
  BY <1>3, <1>4 DEF Elements
<1>6. \A i \in 1 .. m + n : ~(i <= m) => joined[i].deadline = c
  <2>1. \A i \in 1 .. n : b[i].deadline = c
    BY <1>3 DEF Elements
  <2>2. \A i \in 1 .. m + n : ~(i <= m) => i - m \in 1 .. n /\ joined[i] = b[i - m]
    BY <1>4
  <2>. QED  BY <2>1, <2>2
<1>7. \A i \in 1 .. m : a[i].deadline \in Nat
  <2>1. \A i \in 1 .. m : a[i] \in Entry
    BY <1>2, ElementOfSeq
  <2>. QED  BY <2>1 DEF Entry
<1>8. ASSUME NEW i \in 1 .. m + n, NEW j \in 1 .. m + n, i < j
      PROVE  joined[i].deadline <= joined[j].deadline
  <2>1. CASE j <= m
    <3>1. i <= m
      BY <1>8, <2>1
    <3>. QED  BY <1>3, <1>5, <1>8, <2>1, <3>1 DEF InOrder
  <2>2. CASE ~(j <= m)
    <3>1. joined[j].deadline = c
      BY <1>6, <2>2
    <3>2. CASE i <= m
      BY <1>5, <1>7, <3>1, <3>2
    <3>3. CASE ~(i <= m)
      BY <1>6, <3>1, <3>3
    <3>. QED  BY <3>2, <3>3
  <2>. QED  BY <2>1, <2>2
<1>. QED  BY <1>1, <1>3, <1>8 DEF InOrder

\* The entries of an expired batch are entries, with ticks.
LEMMA BatchTicks ==
    ASSUME HandsInv, NEW t \in Tickers, NEW e \in Elements(expired[t])
    PROVE  e.due \in Nat /\ e.deadline \in Nat
<1>1. e \in Entry
  BY ElementOfSeq, LenProperties DEF Elements, HandsInv, TypeOK
<1>. QED  BY <1>1 DEF Entry

\* An empty batch is in order.
LEMMA InitBatch == Init => BatchInv
BY NoEntries DEF Init, BatchInv

\* A step of the clock, of a caller, or of a ticker that takes out no timer.
LEMMA QuietBatch ==
    ASSUME HandsInv, BatchInv, UNCHANGED <<expired, current_tick>>,
           clock' = clock \/ clock' = clock + 1,
           \A t \in Tickers : \/ pc'[t] \in {"advance", "cascade"} => pc[t] \in {"advance", "cascade"}
                              \/ expired[t] = << >>
    PROVE  BatchInv'
<1> SUFFICES ASSUME NEW t \in Tickers
             PROVE  /\ \A e \in Elements(expired[t]) : e.due <= clock'
                    /\ pc'[t] \in {"advance", "cascade"} =>
                          /\ \A e \in Elements(expired[t]) : e.deadline < current_tick
                          /\ InOrder(expired[t])
  BY DEF BatchInv, InOrder
<1>1. ASSUME NEW e \in Elements(expired[t])
      PROVE  e.due <= clock'
  <2>1. e.due \in Nat /\ clock \in Nat /\ e.due <= clock
    BY BatchTicks DEF BatchInv, HandsInv, TypeOK
  <2>. QED  BY <2>1
<1>2. CASE expired[t] = << >>
  BY <1>1, <1>2, NoEntries DEF InOrder
<1>. QED  BY <1>1, <1>2 DEF BatchInv

\* The steps of Next that QuietBatch is about.
LEMMA QuietStepsBatch ==
    ASSUME HandsInv, BatchInv,
           \/ AdvanceClock \/ Call \/ UNCHANGED vars
           \/ \E t \in Tickers : \/ ReadNow(t) \/ BeginAdvance(t) \/ Cascade(t) \/ EndCascade(t)
                                 \/ EndAdvance(t) \/ MarkInFlight(t) \/ Rearm(t)
    PROVE  BatchInv'
<1> USE DEF wheelVars, liveVars, flightVars, tickVars, vars, GoTo
<1>1. UNCHANGED <<expired, current_tick>> /\ (clock' = clock \/ clock' = clock + 1)
  BY DEF AdvanceClock, Call, Schedule, CancelPending, CancelInFlight, TimeUntilNext, ReadNow,
         BeginAdvance, Cascade, EndCascade, EndAdvance, MarkInFlight, Rearm
<1>2. ASSUME NEW u \in Tickers
      PROVE  \/ pc'[u] \in {"advance", "cascade"} => pc[u] \in {"advance", "cascade"}
             \/ expired[u] = << >>
  <2>1. CASE pc' = pc
    BY <2>1
  <2>2. ASSUME NEW t \in Tickers, ReadNow(t) \/ BeginAdvance(t) \/ EndCascade(t)
                                  \/ MarkInFlight(t) \/ Rearm(t)
        PROVE  \/ pc'[u] \in {"advance", "cascade"} => pc[u] \in {"advance", "cascade"}
               \/ expired[u] = << >>
    BY <2>2 DEF ReadNow, BeginAdvance, EndCascade, MarkInFlight, Rearm, HandsInv, TypeOK, Shape
  <2>3. ASSUME NEW t \in Tickers, EndAdvance(t)
        PROVE  pc'[u] \in {"advance", "cascade"} => pc[u] \in {"advance", "cascade"}
    BY <2>3 DEF EndAdvance, AfterAdvance, HandsInv, TypeOK
  <2>. QED
    BY <2>1, <2>2, <2>3 DEF AdvanceClock, Call, Schedule, CancelPending, CancelInFlight,
                            TimeUntilNext, Cascade
<1>. QED  BY <1>1, <1>2, QuietBatch

\* Steps that change the batch of one ticker.
LEMMA OneBatch ==
    ASSUME HandsInv, BatchInv, NEW t \in Tickers, clock' = clock,
           \A u \in Tickers \ {t} : /\ expired'[u] = expired[u] /\ pc'[u] = pc[u]
                                    /\ \/ pc[u] \notin {"advance", "cascade"}
                                       \/ current_tick' = current_tick,
           \A e \in Elements(expired'[t]) : e.due <= clock,
           pc'[t] \in {"advance", "cascade"} =>
              /\ \A e \in Elements(expired'[t]) : e.deadline < current_tick'
              /\ InOrder(expired'[t])
    PROVE  BatchInv'
<1>1. \A u \in Tickers \ {t} :
          /\ \A e \in Elements(expired'[u]) : e.due <= clock'
          /\ pc'[u] \in {"advance", "cascade"} =>
                /\ \A e \in Elements(expired'[u]) : e.deadline < current_tick'
                /\ InOrder(expired'[u])
  BY DEF BatchInv
<1>. QED  BY <1>1 DEF BatchInv, InOrder, Elements

\* The slot under the cursor holds timers of this very tick, which come after
\* those of the ticks before.
LEMMA FireSlotBatch ==
    ASSUME HandsInv, TimeInv, PositionInv, BatchInv, NEW t \in Tickers, FireSlot(t)
    PROVE  BatchInv'
<1> USE DEF wheelVars, liveVars, flightVars, tickVars, vars, GoTo
<1>1. PICK c \in Nat : c = current_tick
  BY DEF HandsInv, TypeOK
<1>2. PICK due : due = levels[CursorCell(c)] \cap Live
  OBVIOUS
<1>3. PICK order \in Orders(due) : expired' = [expired EXCEPT ![t] = @ \o EntriesOf(order)]
  BY <1>1, <1>2 DEF FireSlot
<1>4. PICK batch \in Seq(Entry) : batch = EntriesOf(order)
  <2>1. due \subseteq Live /\ IsFiniteSet(due)
    BY <1>2, TimerAssumption, FS_Subset DEF HandsInv, TypeOK
  <2>. QED  BY <2>1, EntriesOfOrder DEF HandsInv
<1>5. PICK old \in Seq(Entry) : old = expired[t]
  BY DEF HandsInv, TypeOK
<1>6. expired'[t] = old \o batch /\ \A u \in Tickers \ {t} : expired'[u] = expired[u]
  BY <1>3, <1>4, <1>5 DEF HandsInv, TypeOK
<1>7. /\ pc[t] = "advance" /\ current_tick' = c + 1 /\ clock' = clock /\ clock \in Nat
      /\ c < now[t] /\ now[t] <= clock /\ now[t] \in Nat
      /\ \A u \in Tickers \ {t} : pc'[u] = pc[u]
  BY <1>1 DEF FireSlot, HandsInv, TypeOK, TimeInv
<1>8. \A u \in Tickers : pc[u] # "cascade" /\ (u # t => pc[u] # "advance")
  BY <1>7, CascadeLocked
<1>9. ASSUME NEW id \in due
      PROVE  timers[id].deadline = c /\ timers[id].due = c
  <2>1. id \in Live /\ CursorCell(c) \in Cells /\ id \in levels[CursorCell(c)]
    BY <1>1, <1>2, <1>9, CursorCellIsCell, LayoutType DEF CursorCell, HandsInv, TypeOK
  <2>2. Ahead(c, CursorCell(c), Deadline(id))
    BY <1>1, <1>8, <2>1, AllAhead
  <2>3. Deadline(id) = c
    BY <2>1, <2>2, DeadlineType, UnderCursor
  <2>. QED  BY <2>1, <2>3 DEF Deadline, TimeInv
<1>10. ASSUME NEW e \in Elements(batch)
       PROVE  e.deadline = c /\ e.due = c
  <2>1. PICK id \in due : e = EntryOf(id)
    BY <1>4, EntriesAreOf
  <2>. QED  BY <1>9, <2>1 DEF EntryOf
<1>11. \A e \in Elements(old) : e.due <= clock /\ e.deadline < c /\ e.deadline \in Nat
  BY <1>1, <1>5, <1>7, BatchTicks DEF BatchInv
<1>12. InOrder(old)
  BY <1>5, <1>7 DEF BatchInv
<1>13. InOrder(old \o batch)
  BY <1>10, <1>11, <1>12, ConcatInOrder
<1>14. Elements(old \o batch) = Elements(old) \cup Elements(batch)
  BY ConcatEntries
<1>15. ASSUME NEW e \in Elements(expired'[t])
       PROVE  e.due <= clock /\ e.deadline < c + 1
  <2>1. CASE e \in Elements(old)
    BY <1>11, <2>1
  <2>2. CASE e \in Elements(batch)
    BY <1>7, <1>10, <2>2
  <2>. QED  BY <1>6, <1>14, <1>15, <2>1, <2>2
<1>. QED  BY <1>6, <1>7, <1>8, <1>13, <1>15, OneBatch

\* A drain takes out what is due.
LEMMA DrainBatch ==
    ASSUME HandsInv, TimeInv, BatchInv, NEW t \in Tickers, DrainDueInto(t)
    PROVE  BatchInv'
<1> USE DEF wheelVars, liveVars, flightVars, tickVars, vars, GoTo
<1>1. PICK due : due = ((overflow \cup UNION {levels[cell] : cell \in Cells}) \cap Live)
                          \cap JumpDue(now[t])
  OBVIOUS
<1>2. PICK order \in Orders(due) :
          /\ expired' = [expired EXCEPT ![t] = EntriesOf(order)]
          /\ pc' = [pc EXCEPT ![t] = AfterAdvance(EntriesOf(order))]
  BY <1>1 DEF DrainDueInto
<1>3. /\ expired'[t] = EntriesOf(order) /\ pc'[t] \notin {"advance", "cascade"}
      /\ \A u \in Tickers \ {t} : expired'[u] = expired[u] /\ pc'[u] = pc[u]
  BY <1>2 DEF AfterAdvance, HandsInv, TypeOK
<1>4. mutex = None /\ clock' = clock
  BY DEF DrainDueInto
<1>5. ASSUME NEW e \in Elements(expired'[t])
      PROVE  e.due <= clock
  <2>1. PICK id \in due : e = EntryOf(id)
    BY <1>3, EntriesAreOf
  <2>2. id \in Live /\ Deadline(id) <= now[t]
    BY <1>1 DEF JumpDue
  <2>3. /\ e.due = Deadline(id) /\ Deadline(id) \in Nat
        /\ now[t] \in Nat /\ now[t] <= clock /\ clock \in Nat
    BY <2>1, <2>2, DeadlineType DEF EntryOf, Deadline, TimeInv, HandsInv, TypeOK
  <2>. QED  BY <2>2, <2>3
<1>6. \A u \in Tickers : pc[u] \notin {"advance", "cascade"}
  BY <1>4, NoneCascades
<1>. QED  BY <1>3, <1>4, <1>5, <1>6, OneBatch

\* A batch that shrinks.
LEMMA CallbackBatch ==
    ASSUME HandsInv, BatchInv, NEW t \in Tickers, FireCallback(t) \/ CallbackPanics(t)
    PROVE  BatchInv'
<1> USE DEF wheelVars, liveVars, flightVars, tickVars, vars, GoTo
<1>1. /\ clock' = clock /\ current_tick' = current_tick
      /\ \A u \in Tickers \ {t} : expired'[u] = expired[u] /\ pc'[u] = pc[u]
  BY DEF FireCallback, CallbackPanics, HandsInv, TypeOK
<1>2. pc'[t] \notin {"advance", "cascade"}
  <2>1. CASE FireCallback(t)
    <3>1. \E place \in {"fire", "rearm", "idle"} : pc' = [pc EXCEPT ![t] = place]
      BY <2>1, Zenon DEF FireCallback, AfterFire
    <3>. QED  BY <3>1 DEF HandsInv, TypeOK
  <2>2. CASE CallbackPanics(t)
    BY <2>2 DEF CallbackPanics, HandsInv, TypeOK
  <2>. QED  BY <2>1, <2>2
<1>3. Elements(expired'[t]) \subseteq Elements(expired[t])
  <2>1. CASE FireCallback(t)
    <3>1. expired[t] # << >> /\ expired[t] \in Seq(Entry) /\ expired'[t] = Tail(expired[t])
      BY <2>1 DEF FireCallback, HandsInv, Shape, TypeOK
    <3>. QED  BY <3>1, TailEntries
  <2>2. CASE CallbackPanics(t)
    <3>1. expired'[t] = << >>
      BY <2>2 DEF CallbackPanics, HandsInv, TypeOK
    <3>. QED  BY <3>1, NoEntries
  <2>. QED  BY <2>1, <2>2
<1>4. \A e \in Elements(expired'[t]) : e.due <= clock
  BY <1>3 DEF BatchInv
<1>. QED  BY <1>1, <1>2, <1>4, OneBatch

\* Every step keeps BatchInv.
LEMMA NextBatch ==
    ASSUME HandsInv, TimeInv, PositionInv, BatchInv, [Next]_vars
    PROVE  BatchInv'
<1>1. ASSUME NEW t \in Tickers, Tick(t)
      PROVE  BatchInv'
  BY <1>1, QuietStepsBatch, FireSlotBatch, DrainBatch, CallbackBatch DEF Tick
<1>. QED  BY <1>1, QuietStepsBatch DEF Next

\* BatchInv holds in every reachable state.
LEMMA Batches ==
    ASSUME NoWrap
    PROVE  Spec => []BatchInv
<1>1. HandsInv /\ TimeInv /\ PositionInv /\ BatchInv /\ [Next]_vars => BatchInv'
  BY NextBatch
<1>. QED  BY <1>1, InitBatch, Hands, Time, Positions, PTL DEF Spec

\* No callback runs before the delay its caller asked for has passed.
THEOREM NeverRunsEarly ==
    ASSUME NoWrap
    PROVE  Spec => []NeverEarly
<1>1. BatchInv => NeverEarly
  BY DEF BatchInv, NeverEarly
<1>. QED  BY <1>1, Batches, PTL

\* The timers of one advance of the cursor run in the order of their deadlines.
THEOREM RunsInOrder ==
    ASSUME NoWrap
    PROVE  Spec => []InDeadlineOrder
<1>1. BatchInv => InDeadlineOrder
  BY DEF BatchInv, InDeadlineOrder, InOrder
<1>. QED  BY <1>1, Batches, PTL

================================================================================
