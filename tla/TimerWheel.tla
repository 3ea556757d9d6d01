------------------------------- MODULE TimerWheel ------------------------------
(***************************************************************************)
(* The timer wheel of mill-io/src/timer_wheel.rs: timers are put into the  *)
(* slots of a hierarchical wheel (module WheelLayout), a thread that calls *)
(* tick() advances a cursor through the slots and runs the callbacks of    *)
(* the timers it passes, and any thread schedules and cancels timers.      *)
(*                                                                         *)
(* One lock guards the wheel.  schedule, cancel and time_until_next hold   *)
(* it once, so each is one action.  tick takes it three times and runs the *)
(* callbacks in between without it, so it is a sequence of actions per     *)
(* ticker, with the iterations of its loops as the steps taken while the   *)
(* lock is held.  A callback that schedules or cancels timers is an        *)
(* occurrence of those actions next to the one that runs it.               *)
(*                                                                         *)
(* The order of timers within one slot is abstracted: slots are sets, and  *)
(* the timers one slot fires are run in any order.                         *)
(***************************************************************************)
EXTENDS WheelLayout, FiniteSets, Sequences, FiniteSetsExt

CONSTANTS TimerIds,     \* timers that may ever be scheduled
          Tickers,      \* threads that call tick(): the reactor's, or several
          Delays,       \* delays and intervals callers ask for, in ticks
          MaxClock,     \* bound on the clock
          TickModulus,  \* 2^64: deadlines are u64
          MayPanic,     \* whether a callback may panic
          Once,         \* the period of a one-shot timer
          None          \* no value of an Option, no holder of the lock

ASSUME TimerAssumption ==
    /\ IsFiniteSet(TimerIds)
    /\ Delays \subseteq Nat
    /\ MaxClock \in Nat
    /\ TickModulus \in Nat \ {0}
    /\ MayPanic \in BOOLEAN
    /\ Once \notin Nat
    /\ None \notin Nat
    /\ None \notin Tickers

VARIABLES
    clock,                \* Instant::now() - start_time, in ticks
    issued,               \* timer ids handed out so far (next_id)
    mutex,                \* the ticker inside advance_to, or None
    levels,               \* timer ids in each cell of the wheel
    current_tick,
    timers,               \* live timers: id -> deadline and period
    overflow,             \* timer ids beyond the wheel's range
    overflow_min_deadline,
    timer_count,
    earliest_deadline,    \* cached; None means dirty
    in_flight,
    canceled_in_flight,
    pc,                   \* where each ticker is in tick()
    now,                  \* the instant its advance_to works with, else 0
    cascading,            \* the level its advance_to looks at next
    expired,              \* the timers it took out and has not run yet
    to_reschedule,        \* the repeating timers it has run
    confirmed             \* history: timers whose cancel() returned true

wheelVars == <<levels, current_tick, overflow, overflow_min_deadline>>
liveVars == <<timers, timer_count, earliest_deadline>>
flightVars == <<in_flight, canceled_in_flight>>
tickVars == <<pc, now, cascading, expired, to_reschedule>>
vars == <<clock, issued, mutex, wheelVars, liveVars, flightVars, tickVars, confirmed>>

Periods == Delays \cup {Once}
Timer == [deadline : Nat, due : Nat, period : Periods]
Entry == [id : TimerIds, deadline : Nat, due : Nat, period : Periods]

Live == DOMAIN timers
Deadline(id) == timers[id].deadline
EntryOf(id) == [id |-> id, deadline |-> timers[id].deadline,
                due |-> timers[id].due, period |-> timers[id].period]

Repeating(entries) == {e \in entries : e.period # Once}
IdsOf(entries) == {e.id : e \in entries}
Elements(seq) == {seq[i] : i \in DOMAIN seq}

\* The smallest of a set of ticks, and what an Option<u64> knows.
MinTick(S) == IF S = {} THEN None ELSE Min(S)
Known(opt) == {opt} \ {None}

\* The orders in which a set of timers may be taken out, each of them once.
Orders(S) ==
    {s \in [1 .. Cardinality(S) -> S] :
        /\ \A id \in S : \E i \in DOMAIN s : s[i] = id
        /\ \A i, j \in DOMAIN s : s[i] = s[j] => i = j}

EntriesOf(order) == [i \in DOMAIN order |-> EntryOf(order[i])]

--------------------------------------------------------------------------------
(***************************************************************************)
(* The wheel: insert_into_wheel for a set of timers, all with the cursor   *)
(* at c, over slots cells and overflow list over.                          *)
(***************************************************************************)
Placed(cells, c, ids, deadline) ==
    [cell \in Cells |->
        cells[cell] \cup {id \in ids : ~TooFar(c, deadline[id]) /\ CellOf(c, deadline[id]) = cell}]

\* An off-by-one between the two branches of insert_into_wheel (a mutant).
OverflowingPastRange(c, ids, deadline) == {id \in ids : deadline[id] - c > MaxRange}

Overflowing(c, ids, deadline) == {id \in ids : TooFar(c, deadline[id])}

InsertIntoWheel(cells, over, overMin, c, ids, deadline) ==
    LET far == Overflowing(c, ids, deadline) IN
    /\ levels' = Placed(cells, c, ids, deadline)
    /\ overflow' = over \cup far
    /\ overflow_min_deadline' = MinTick(Known(overMin) \cup {deadline[id] : id \in far})

\* The deadlines of the live timers among ids.
DeadlinesOf(ids) == [id \in ids \cap Live |-> Deadline(id)]

\* A dirty cache that an insert declares valid (a mutant).
NoteInsertedAnyway(deadlines) ==
    earliest_deadline' = MinTick(Known(earliest_deadline) \cup deadlines)

\* note_inserted, after inserts with these deadlines.
NoteInserted(deadlines) ==
    earliest_deadline' = IF earliest_deadline = None /\ timer_count # 0
                           THEN None
                           ELSE MinTick(Known(earliest_deadline) \cup deadlines)

\* note_removed
NoteRemoved(deadline) ==
    earliest_deadline' = IF earliest_deadline = deadline THEN None ELSE earliest_deadline

\* A timer for delay ticks from now: its deadline is a u64 sum.  due is a
\* history field, the tick the caller asked for.
TimerAfter(delay, period) ==
    [deadline |-> (clock + delay) % TickModulus, due |-> clock + delay, period |-> period]

AddTimers(new) ==
    /\ timers' = [id \in Live \cup DOMAIN new |-> IF id \in DOMAIN new THEN new[id] ELSE timers[id]]
    /\ timer_count' = timer_count + Cardinality(DOMAIN new)
    /\ InsertIntoWheel(levels, overflow, overflow_min_deadline, current_tick,
                       DOMAIN new, [id \in DOMAIN new |-> new[id].deadline])
    /\ NoteInserted({new[id].deadline : id \in DOMAIN new})

\* The count goes down once per slot, not once per timer (a mutant).
TakeTimersBySlot(ids) ==
    /\ timers' = Restrict(timers, Live \ ids)
    /\ timer_count' = timer_count - 1

\* Timers are looked up instead of removed (a mutant).
TakeTimersByLookup(ids) == UNCHANGED <<timers, timer_count>>

TakeTimers(ids) ==
    /\ timers' = Restrict(timers, Live \ ids)
    /\ timer_count' = timer_count - Cardinality(ids)

--------------------------------------------------------------------------------
(***************************************************************************)
(* What any thread, or a callback, calls.  A cancel that returns false     *)
(* changes nothing.                                                        *)
(***************************************************************************)
\* schedule_once (period = Once) and schedule_repeating (period = delay).
Schedule(id, delay, period) ==
    /\ mutex = None
    /\ id \notin issued
    /\ period \in {Once, delay}
    /\ issued' = issued \cup {id}
    /\ AddTimers([x \in {id} |-> TimerAfter(delay, period)])
    /\ UNCHANGED <<clock, mutex, current_tick, flightVars, tickVars, confirmed>>

\* cancel of a live timer.
CancelPending(id) ==
    /\ mutex = None
    /\ id \in Live
    /\ TakeTimers({id})
    /\ NoteRemoved(Deadline(id))
    /\ confirmed' = confirmed \cup {id}
    /\ UNCHANGED <<clock, issued, mutex, wheelVars, flightVars, tickVars>>

\* A cancel that records any timer that is not pending (a mutant).
CancelAnyNotLive(id) ==
    /\ mutex = None
    /\ id \in issued \ Live
    /\ canceled_in_flight' = canceled_in_flight \cup {id}
    /\ confirmed' = confirmed \cup {id}
    /\ UNCHANGED <<clock, issued, mutex, wheelVars, liveVars, in_flight, tickVars>>

\* cancel of a repeating timer whose callback is running.
CancelInFlight(id) ==
    /\ mutex = None
    /\ id \in in_flight \ Live
    /\ canceled_in_flight' = canceled_in_flight \cup {id}
    /\ confirmed' = confirmed \cup {id}
    /\ UNCHANGED <<clock, issued, mutex, wheelVars, liveVars, in_flight, tickVars>>

\* time_until_next, when it recomputes the cache.
TimeUntilNext ==
    /\ mutex = None
    /\ timer_count # 0
    /\ earliest_deadline = None
    /\ earliest_deadline' = MinTick({Deadline(id) : id \in Live})
    /\ UNCHANGED <<clock, issued, mutex, wheelVars, timers, timer_count, flightVars, tickVars, confirmed>>

--------------------------------------------------------------------------------
(***************************************************************************)
(* tick() of ticker t.                                                     *)
(***************************************************************************)
GoTo(t, place) == pc' = [pc EXCEPT ![t] = place]

\* It reads the clock before it takes the lock.
ReadNow(t) ==
    /\ pc[t] = "idle"
    /\ now' = [now EXCEPT ![t] = clock]
    /\ GoTo(t, "lock")
    /\ UNCHANGED <<clock, issued, mutex, wheelVars, liveVars, flightVars, cascading, expired, to_reschedule, confirmed>>

\* Where advance_to leaves the ticker: with no expired timer tick() returns.
AfterAdvance(batch) == IF batch = << >> THEN "idle" ELSE "mark"

\* advance_to, when the clock did not jump: the lock is held until the
\* cursor has caught up.
BeginAdvance(t) ==
    /\ pc[t] = "lock"
    /\ mutex = None
    /\ now[t] <= current_tick + MaxRange
    /\ mutex' = t
    /\ GoTo(t, "advance")
    /\ UNCHANGED <<clock, issued, wheelVars, liveVars, flightVars, now, cascading, expired, to_reschedule, confirmed>>

\* An iteration of its loop: fire the level-0 slot, move the cursor.
FireSlot(t) ==
    /\ pc[t] = "advance"
    /\ current_tick < now[t]
    /\ LET here == CursorCell(current_tick)
           due == levels[here] \cap Live IN
       /\ levels' = [levels EXCEPT ![here] = {}]
       /\ TakeTimers(due)
       /\ \E order \in Orders(due) :
              expired' = [expired EXCEPT ![t] = @ \o EntriesOf(order)]
    /\ current_tick' = current_tick + 1
    /\ GoTo(t, "cascade")
    /\ UNCHANGED <<clock, issued, mutex, overflow, overflow_min_deadline, earliest_deadline,
                   flightVars, now, cascading, to_reschedule, confirmed>>

\* The top level never cascades (a mutant).
WrappedBelowTop(l) == l < NumLevels - 1 /\ current_tick % Span[l] = 0

\* Whether the levels below l have just wrapped.
Wrapped(l) == l < NumLevels /\ current_tick % Span[l] = 0

\* cascade(level), once for every level whose lower levels wrapped.
Cascade(t) ==
    /\ pc[t] = "cascade"
    /\ Wrapped(cascading[t])
    /\ LET here == <<cascading[t], SlotOf(cascading[t], current_tick)>>
           ids == levels[here] \cap Live IN
       InsertIntoWheel([levels EXCEPT ![here] = {}], overflow, overflow_min_deadline,
                       current_tick, ids, DeadlinesOf(ids))
    /\ cascading' = [cascading EXCEPT ![t] = @ + 1]
    /\ UNCHANGED <<clock, issued, mutex, current_tick, liveVars, flightVars,
                   pc, now, expired, to_reschedule, confirmed>>

EndCascade(t) ==
    /\ pc[t] = "cascade"
    /\ ~Wrapped(cascading[t])
    /\ cascading' = [cascading EXCEPT ![t] = 1]
    /\ GoTo(t, "advance")
    /\ UNCHANGED <<clock, issued, mutex, wheelVars, liveVars, flightVars,
                   now, expired, to_reschedule, confirmed>>

\* Whether the overflow list is worth a scan.
OverflowInRange ==
    /\ overflow_min_deadline # None
    /\ ~TooFar(current_tick, overflow_min_deadline)

\* The end of advance_to: reinsert_overflow, the cache, the unlock.
EndAdvance(t) ==
    /\ pc[t] = "advance"
    /\ current_tick >= now[t]
    /\ IF OverflowInRange
         THEN LET ids == overflow \cap Live IN
              InsertIntoWheel(levels, {}, None, current_tick, ids, DeadlinesOf(ids))
         ELSE UNCHANGED <<levels, overflow, overflow_min_deadline>>
    /\ earliest_deadline' = IF expired[t] = << >> THEN earliest_deadline ELSE None
    /\ mutex' = None
    /\ now' = [now EXCEPT ![t] = 0]
    /\ GoTo(t, AfterAdvance(expired[t]))
    /\ UNCHANGED <<clock, issued, current_tick, timers, timer_count, flightVars,
                   cascading, expired, to_reschedule, confirmed>>

\* A drain that takes every timer the jump passed over, due or not (a mutant).
JumpDueAll(target) == Live

\* drain_due_into: which timers a jump of the clock expires.
JumpDue(target) == {id \in Live : Deadline(id) <= target}

\* advance_to after a jump the wheel cannot represent: drain_due_into takes
\* the due timers and puts the others back relative to the new cursor.
DrainDueInto(t) ==
    /\ pc[t] = "lock"
    /\ mutex = None
    /\ now[t] > current_tick + MaxRange
    /\ LET ids == (overflow \cup UNION {levels[cell] : cell \in Cells}) \cap Live
           due == ids \cap JumpDue(now[t]) IN
       /\ TakeTimers(due)
       /\ \E order \in Orders(due) :
              /\ expired' = [expired EXCEPT ![t] = EntriesOf(order)]
              /\ GoTo(t, AfterAdvance(EntriesOf(order)))
       /\ InsertIntoWheel([cell \in Cells |-> {}], {}, None, now[t], ids \ due, DeadlinesOf(ids \ due))
    /\ current_tick' = now[t]
    /\ earliest_deadline' = None
    /\ now' = [now EXCEPT ![t] = 0]
    /\ UNCHANGED <<clock, issued, mutex, flightVars, cascading, to_reschedule, confirmed>>

\* The second critical section: repeating timers about to run are in flight.
MarkInFlight(t) ==
    /\ pc[t] = "mark"
    /\ mutex = None
    /\ in_flight' = in_flight \cup IdsOf(Repeating(Elements(expired[t])))
    /\ GoTo(t, "fire")
    /\ UNCHANGED <<clock, issued, mutex, wheelVars, liveVars, canceled_in_flight,
                   now, cascading, expired, to_reschedule, confirmed>>

\* What follows the last callback of a batch.
AfterFire(rest, again) ==
    CASE rest # << >> -> "fire"
      [] rest = << >> /\ again # {} -> "rearm"
      [] OTHER -> "idle"

\* A callback runs, without the lock.
FireCallback(t) ==
    /\ pc[t] = "fire"
    /\ LET rest == Tail(expired[t])
           again == to_reschedule[t] \cup Repeating({Head(expired[t])}) IN
       /\ expired' = [expired EXCEPT ![t] = rest]
       /\ to_reschedule' = [to_reschedule EXCEPT ![t] = again]
       /\ GoTo(t, AfterFire(rest, again))
    /\ UNCHANGED <<clock, issued, mutex, wheelVars, liveVars, flightVars, now, cascading, confirmed>>

\* A callback panics: the panic unwinds tick() and the thread that called it,
\* and drops the entries it held.
CallbackPanics(t) ==
    /\ MayPanic
    /\ pc[t] = "fire"
    /\ expired' = [expired EXCEPT ![t] = << >>]
    /\ to_reschedule' = [to_reschedule EXCEPT ![t] = {}]
    /\ GoTo(t, "unwound")
    /\ UNCHANGED <<clock, issued, mutex, wheelVars, liveVars, flightVars, now, cascading, confirmed>>

\* A third critical section that forgets the cancels (a mutant).
SurvivorsAll(t) == to_reschedule[t]

\* The timers the third critical section arms again.
Survivors(t) == {e \in to_reschedule[t] : e.id \notin canceled_in_flight}

\* The third critical section of tick(): repeating timers are armed again,
\* their interval counted from now, unless they were cancelled meanwhile.
Rearm(t) ==
    /\ pc[t] = "rearm"
    /\ mutex = None
    /\ in_flight' = in_flight \ IdsOf(to_reschedule[t])
    /\ canceled_in_flight' = canceled_in_flight \ IdsOf(to_reschedule[t])
    /\ AddTimers([id \in IdsOf(Survivors(t)) |->
                    LET e == CHOOSE x \in Survivors(t) : x.id = id
                    IN TimerAfter(e.period, e.period)])
    /\ to_reschedule' = [to_reschedule EXCEPT ![t] = {}]
    /\ GoTo(t, "idle")
    /\ UNCHANGED <<clock, issued, mutex, current_tick, now, cascading, expired, confirmed>>

--------------------------------------------------------------------------------
AdvanceClock ==
    /\ clock < MaxClock
    /\ clock' = clock + 1
    /\ UNCHANGED <<issued, mutex, wheelVars, liveVars, flightVars, tickVars, confirmed>>

Init ==
    /\ clock = 0
    /\ issued = {}
    /\ mutex = None
    /\ levels = [cell \in Cells |-> {}]
    /\ current_tick = 0
    /\ timers = [id \in {} |-> id]
    /\ overflow = {}
    /\ overflow_min_deadline = None
    /\ timer_count = 0
    /\ earliest_deadline = None
    /\ in_flight = {}
    /\ canceled_in_flight = {}
    /\ pc = [t \in Tickers |-> "idle"]
    /\ now = [t \in Tickers |-> 0]
    /\ cascading = [t \in Tickers |-> 1]
    /\ expired = [t \in Tickers |-> << >>]
    /\ to_reschedule = [t \in Tickers |-> {}]
    /\ confirmed = {}

Tick(t) ==
    \/ ReadNow(t)
    \/ BeginAdvance(t)
    \/ FireSlot(t)
    \/ Cascade(t)
    \/ EndCascade(t)
    \/ EndAdvance(t)
    \/ DrainDueInto(t)
    \/ MarkInFlight(t)
    \/ FireCallback(t)
    \/ CallbackPanics(t)
    \/ Rearm(t)

Call ==
    \/ \E id \in TimerIds, delay \in Delays : \E period \in {Once, delay} : Schedule(id, delay, period)
    \/ \E id \in TimerIds : CancelPending(id) \/ CancelInFlight(id)
    \/ TimeUntilNext

Next == AdvanceClock \/ Call \/ \E t \in Tickers : Tick(t)

Spec == Init /\ [][Next]_vars

\* The reactor calls tick() in every turn of its loop, whose wait is bounded,
\* and time passes.
FairSpec == Spec /\ WF_vars(AdvanceClock) /\ \A t \in Tickers : WF_vars(Tick(t))

--------------------------------------------------------------------------------
(***************************************************************************)
(* Properties.                                                             *)
(***************************************************************************)
OptTick == Nat \cup {None}
Places == {"idle", "lock", "advance", "cascade", "mark", "fire", "rearm", "unwound"}

\* The type invariant: ticks are natural numbers, live timers have been
\* issued, and timer_count (a usize) never goes below zero.
TypeOK ==
    /\ clock \in Nat /\ current_tick \in Nat
    /\ issued \subseteq TimerIds
    /\ mutex \in Tickers \cup {None}
    /\ levels \in [Cells -> SUBSET TimerIds]
    /\ Live \subseteq issued /\ timers \in [Live -> Timer]
    /\ overflow \subseteq TimerIds
    /\ overflow_min_deadline \in OptTick /\ earliest_deadline \in OptTick
    /\ timer_count \in Nat
    /\ in_flight \subseteq TimerIds /\ canceled_in_flight \subseteq TimerIds
    /\ pc \in [Tickers -> Places]
    /\ now \in [Tickers -> Nat]
    /\ cascading \in [Tickers -> Nat \ {0}]
    /\ expired \in [Tickers -> Seq(Entry)]
    /\ to_reschedule \in [Tickers -> SUBSET Entry]
    /\ confirmed \subseteq TimerIds

\* Every live timer is in exactly one cell or in the overflow list, and
\* timer_count, from which pending_count and time_until_next answer, counts
\* them: cascade, reinsert_overflow and drain_due_into lose and duplicate none.
CellsWith(id) == {cell \in Cells : id \in levels[cell]}

PlacedOnce(id) ==
    \/ /\ id \in overflow
       /\ CellsWith(id) = {}
    \/ /\ id \notin overflow
       /\ \E cell \in Cells : CellsWith(id) = {cell}

AccountedFor ==
    /\ \A id \in Live : PlacedOnce(id)
    /\ timer_count = Cardinality(Live)

\* No timer is behind the cursor once tick() lets go of the lock: whatever the
\* jumps of the clock, the wraps of the levels and the moves from overflow,
\* advance_to passes over no timer without taking it out.
NothingSkipped ==
    mutex = None => \A id \in Live : Deadline(id) >= current_tick

\* The two caches are right whenever another thread can see them: a cached
\* earliest deadline is the earliest one (a later one makes the reactor sleep
\* past a timer), and overflow_min_deadline is a lower bound of the overflow.
CachesRight ==
    /\ mutex = None /\ earliest_deadline # None =>
         /\ \E id \in Live : Deadline(id) = earliest_deadline
         /\ \A id \in Live : Deadline(id) >= earliest_deadline
    /\ \A id \in overflow \cap Live :
         /\ overflow_min_deadline # None
         /\ overflow_min_deadline <= Deadline(id)

\* The timers ticker t has taken out of the wheel.
Held(t) == IdsOf(Elements(expired[t]) \cup to_reschedule[t])

\* A timer fires once: what a tick() took out is neither in the wheel nor in
\* the hands of another tick(), and a batch holds it once.
FiresOnce ==
    \A t \in Tickers :
         /\ Held(t) \cap Live = {}
         /\ \A u \in Tickers \ {t} : Held(t) \cap Held(u) = {}
         /\ IdsOf(Elements(expired[t])) \cap IdsOf(to_reschedule[t]) = {}
         /\ \A i, j \in DOMAIN expired[t] : expired[t][i].id = expired[t][j].id => i = j

\* No callback runs before the delay its caller asked for has passed.
NeverEarly ==
    \A t \in Tickers : \A e \in Elements(expired[t]) : e.due <= clock

\* Timers of one advance of the cursor run in the order of their deadlines,
\* the order in which the slots are visited (drain_due_into keeps no order).
InDeadlineOrder ==
    \A t \in Tickers : pc[t] \in {"advance", "cascade"} =>
        \A i, j \in DOMAIN expired[t] : i < j => expired[t][i].deadline <= expired[t][j].deadline

\* in_flight is what its comment says: the repeating timers between the mark
\* and the third critical section, so a cancel can see them; and a recorded
\* cancel is always about one of them, so none is left for a later timer.
Marked(t) ==
    IF pc[t] \in {"fire", "rearm"}
      THEN IdsOf(Repeating(Elements(expired[t]) \cup to_reschedule[t]))
      ELSE {}

InFlightTracked ==
    /\ UNION {Marked(t) : t \in Tickers} \subseteq in_flight
    /\ MayPanic \/ in_flight = UNION {Marked(t) : t \in Tickers}
    /\ canceled_in_flight \subseteq in_flight

\* A cancel that returned true holds: the timer is never pending again, and a
\* one-shot timer does not run.
CancelHolds ==
    \A id \in confirmed :
        /\ id \notin Live
        /\ \A t \in Tickers : \A e \in Elements(expired[t]) : e.id = id => e.period # Once

\* A timer that comes due before the clock stops is taken out of the wheel, by
\* a tick() or by a cancel, unless a callback's panic has taken every thread
\* that ticks.
DueTimersLeave ==
    \A id \in TimerIds : \A d \in 0 .. MaxClock - 1 :
        (id \in Live /\ Deadline(id) = d)
          ~> (~(id \in Live /\ Deadline(id) = d) \/ \A t \in Tickers : pc[t] = "unwound")

\* What cancel and its comments promise (l.64-65, l.370, l.405-406): it returns
\* true if the timer exists, and sees a repeating timer that a tick() took out
\* and will arm again.
CancelSeesTimers ==
    mutex = None => \A t \in Tickers :
        IdsOf(Repeating(Elements(expired[t]) \cup to_reschedule[t])) \subseteq in_flight

================================================================================
