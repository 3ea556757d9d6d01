--------------------------------- MODULE Reactor ---------------------------------
(***************************************************************************)
(* The event loop of mill-io: Reactor (reactor.rs) over its parts, the     *)
(* I/O thread pool and the poll handle with its registry, and the calls    *)
(* of EventLoop (lib.rs) that other threads make: register, deregister,    *)
(* schedule and stop.                                                      *)
(*                                                                         *)
(* The timer wheel appears as what it promises run(): the deadlines that   *)
(* are pending, the time until the first, and a tick() that takes out      *)
(* those that are due.  A handler drains its source, as an edge-triggered  *)
(* poll asks of it.  Events are handled by threads: the pool's workers, or *)
(* with direct dispatch the thread in run().                               *)
(***************************************************************************)
EXTENDS IoPool, Registry, FiniteSetsExt, SequencesExt

CONSTANTS Callers,          \* threads that schedule timers and stop the loop
          Loop,             \* the thread in run()
          Options,          \* the ReactorOptions it may be made with
          PollTimeout,      \* poll_timeout_ms
          Delays,           \* the delays of the timers that are scheduled
          MayPanic,         \* whether handlers and timer callbacks may panic
          MayInterrupt,     \* whether a poll may fail
          MaxLag,           \* bound on the time from the timeout's computation to the poll
          MaxClock,         \* bound on time, and on the timers that are scheduled
          MaxEvents         \* bound on the events under way

ASSUME ReactorAssumption ==
    /\ Loop \notin Workers
    /\ Options \subseteq [direct_dispatch : BOOLEAN, events_capacity : Nat \ {0}]
    /\ {MayPanic, MayInterrupt} \subseteq BOOLEAN
    /\ PollTimeout \in Nat
    /\ Delays \subseteq Nat
    /\ {MaxLag, MaxClock} \subseteq Nat
    /\ MaxEvents \in Nat

VARIABLES
    options,       \* events_capacity, and who runs the handlers
    running,       \* Reactor.running
    pc,            \* where run() is
    sleep_until,   \* when its poll times out
    batch,         \* the polled events that are still to be dispatched
    job,           \* the event each thread has, the handler it found, how far it is
    deadlines,     \* the timers that are pending
    clock,
    caller,        \* what each caller still has to do: "idle", "wake"
    lost           \* history: readiness mio has reported and nobody will handle

loopVars == <<running, pc, sleep_until, batch>>
timerVars == <<deadlines, clock>>
vars == <<options, poolVars, registryVars, loopVars, job, timerVars, caller, lost>>

Threads == Workers \cup {Loop}
Events == [source : Sources \cup {Waker}, token : Tokens, ready : SUBSET Kinds]

\* WorkerMessage: a task, or Terminate.
ASSUME MessageAssumption == Terminate \notin Events

Free == [step |-> "none", event |-> None, handler |-> None]
Looping == {"check", "ask", "poll", "dispatch", "tick"}
Ended == {"out", "returned", "failed", "panicked"}

Fetched(ev) == [step |-> "lookup", event |-> ev, handler |-> None]
Doing(t, step) == job[t].step = step
GoTo(place) == pc' = place

\* The readiness that these events reported is lost.
LostWith(events) ==
    [s \in Sources |-> lost[s] \cup UNION {e.ready : e \in {f \in events : f.source = s}}]

Queued(w) == ToSet(channels[w]) \ {Terminate}

\* Events under way, and room for one more (a bound of the model).
Backlog == Cardinality(Ready) + Len(batch) + Cardinality({c \in Callers : caller[c] # "idle"})
             + MapThenSumSet(LAMBDA w : Len(channels[w]), Workers)
Room == Backlog < MaxEvents /\ dropping = "no"

--------------------------------------------------------------------------------
(***************************************************************************)
(* Other threads: register and deregister, the sources themselves, timers  *)
(* and stop.                                                               *)
(***************************************************************************)
Register(s) ==
    /\ Room
    /\ RegisterSource(s)
    /\ lost' = [lost EXCEPT ![s] = {}]
    /\ UNCHANGED <<options, poolVars, loopVars, job, timerVars, caller>>

ChangeRegistry(s) ==
    /\ \/ InsertHandler(s)
       \/ dropping = "no" /\ DeregisterSource(s)
       \/ RemoveHandler(s)
    /\ UNCHANGED <<options, poolVars, loopVars, job, timerVars, caller, lost>>

BecomeReady(s, kind) ==
    /\ Room
    /\ Arrive(s, kind)
    /\ UNCHANGED <<options, poolVars, loopVars, job, timerVars, caller, lost>>

\* A timer that the wheel is given without a wake (a mutant).
ScheduleUnwoken(c, delay) ==
    /\ Room /\ clock + delay < MaxClock
    /\ caller[c] = "idle"
    /\ deadlines' = deadlines \cup {clock + delay}
    /\ UNCHANGED <<options, poolVars, registryVars, loopVars, job, clock, caller,
                   lost>>

\* schedule_once and schedule_repeating: first the wheel, then the waker.
Schedule(c, delay) ==
    /\ Room /\ clock + delay < MaxClock
    /\ caller[c] = "idle"
    /\ deadlines' = deadlines \cup {clock + delay}
    /\ caller' = [caller EXCEPT ![c] = "wake"]
    /\ UNCHANGED <<options, poolVars, registryVars, loopVars, job, clock, lost>>

\* A stop that relies on the poll timeout (a mutant).
StopUnwoken(c) ==
    /\ Room
    /\ caller[c] = "idle"
    /\ running' = FALSE
    /\ UNCHANGED <<options, poolVars, registryVars, pc, sleep_until, batch, job,
                   timerVars, caller, lost>>

\* stop: first the flag, then the waker.
Stop(c) ==
    /\ Room
    /\ caller[c] = "idle"
    /\ running' = FALSE
    /\ caller' = [caller EXCEPT ![c] = "wake"]
    /\ UNCHANGED <<options, poolVars, registryVars, pc, sleep_until, batch, job,
                   timerVars, lost>>

Wake(c) ==
    /\ caller[c] = "wake"
    /\ edge' = [edge EXCEPT ![Waker] = {"readable"}]
    /\ caller' = [caller EXCEPT ![c] = "idle"]
    /\ UNCHANGED <<options, poolVars, owner, work, registry, loopVars, job,
                   timerVars, lost>>

AdvanceClock ==
    /\ clock < MaxClock
    /\ clock' = clock + 1
    /\ UNCHANGED <<options, poolVars, registryVars, loopVars, job, deadlines,
                   caller, lost>>

--------------------------------------------------------------------------------
(***************************************************************************)
(* run                                                                     *)
(***************************************************************************)
CallRun ==
    /\ pc \in Ended
    /\ dropping = "no"
    /\ GoTo("called")
    /\ UNCHANGED <<options, poolVars, registryVars, running, sleep_until, batch,
                   job, timerVars, caller, lost>>

Start ==
    /\ pc = "called"
    /\ running' = TRUE
    /\ GoTo("check")
    /\ UNCHANGED <<options, poolVars, registryVars, sleep_until, batch, job,
                   timerVars, caller, lost>>

CheckRunning ==
    /\ pc = "check"
    /\ GoTo(IF running THEN "ask" ELSE "returned")
    /\ UNCHANGED <<options, poolVars, registryVars, running, sleep_until, batch,
                   job, timerVars, caller, lost>>

\* A timeout that does not look at the wheel (a mutant).
TimeToSleepConfigured == PollTimeout

\* time_until_next() and the configured timeout, from the same instant.
TimeToSleep ==
    LET until_next == {IF d <= clock THEN 0 ELSE d - clock : d \in deadlines}
    IN Min(until_next \cup {PollTimeout})

\* What is computed is a duration: it starts to run at the poll, a little later.
AskTimeout ==
    /\ pc = "ask"
    /\ \E lag \in 0 .. MaxLag :
          /\ clock + lag <= MaxClock
          /\ sleep_until' = clock + lag + TimeToSleep
    /\ GoTo("poll")
    /\ UNCHANGED <<options, poolVars, registryVars, running, batch, job, timerVars,
                   caller, lost>>

\* A poll reports as much as fits, in any order, or nothing when it times out.
PollReturns ==
    /\ pc = "poll"
    /\ Ready # {} \/ clock >= sleep_until
    /\ \E reported \in kSubset(Min({options.events_capacity, Cardinality(Ready)}), Ready) :
          /\ \E order \in SetToSeqs(reported) :
                batch' = [i \in 1 .. Len(order) |-> EventOf(order[i])]
          /\ edge' = Reported(reported)
    /\ sleep_until' = 0
    /\ GoTo("dispatch")
    /\ UNCHANGED <<options, poolVars, owner, work, registry, running, job,
                   timerVars, caller, lost>>

\* A signal ends run() with an error.
PollFails ==
    /\ MayInterrupt
    /\ pc = "poll"
    /\ sleep_until' = 0
    /\ GoTo("failed")
    /\ UNCHANGED <<options, poolVars, registryVars, running, batch, job, timerVars,
                   caller, lost>>

DispatchToPool ==
    /\ pc = "dispatch"
    /\ ~options.direct_dispatch
    /\ batch # <<>>
    /\ Exec(Head(batch))
    /\ batch' = Tail(batch)
    /\ UNCHANGED <<options, registryVars, running, pc, sleep_until, job, timerVars,
                   caller, lost>>

\* The `?` behind dispatch_event: the rest of the batch goes with it.
DispatchFails ==
    /\ pc = "dispatch"
    /\ ~options.direct_dispatch
    /\ batch # <<>>
    /\ ExecFails
    /\ lost' = LostWith(ToSet(batch))
    /\ batch' = <<>>
    /\ GoTo("failed")
    /\ UNCHANGED <<options, registryVars, running, sleep_until, job, timerVars,
                   caller>>

DispatchDirectly ==
    /\ pc = "dispatch"
    /\ options.direct_dispatch
    /\ batch # <<>>
    /\ job[Loop] = Free
    /\ job' = [job EXCEPT ![Loop] = Fetched(Head(batch))]
    /\ batch' = Tail(batch)
    /\ UNCHANGED <<options, poolVars, registryVars, running, pc, sleep_until,
                   timerVars, caller, lost>>

EndDispatch ==
    /\ pc = "dispatch"
    /\ batch = <<>>
    /\ job[Loop] = Free
    /\ GoTo("tick")
    /\ UNCHANGED <<options, poolVars, registryVars, running, sleep_until, batch,
                   job, timerVars, caller, lost>>

\* tick() takes out what is due and runs the callbacks on this thread.  What is
\* due at this very tick stays, but after a jump longer than the wheel.
Tick ==
    /\ pc = "tick"
    /\ deadlines' \in {{d \in deadlines : d >= clock}, {d \in deadlines : d > clock}}
    /\ \/ GoTo("check")
       \/ MayPanic /\ deadlines' # deadlines /\ GoTo("panicked")
    /\ UNCHANGED <<options, poolVars, registryVars, running, sleep_until, batch,
                   job, clock, caller, lost>>

--------------------------------------------------------------------------------
(***************************************************************************)
(* An event on its thread: the task that dispatch_event makes of it.       *)
(***************************************************************************)
Take(w) ==
    /\ ReceiveTask(w)
    /\ job' = [job EXCEPT ![w] = Fetched(Head(channels[w]))]
    /\ UNCHANGED <<options, registryVars, loopVars, timerVars, caller, lost>>

Leave(w) ==
    /\ ReceiveTerminate(w)
    /\ UNCHANGED <<options, registryVars, loopVars, job, timerVars, caller, lost>>

\* The thread is done with its event.
Done(t) ==
    /\ job' = [job EXCEPT ![t] = Free]
    /\ IF t \in Workers THEN FinishTask(t) ELSE UNCHANGED poolVars

\* Whether the handler asked for what the event reports.
Wanted(handler, ev) == handler # None /\ InterestOf[handler] \cap ev.ready # {}

\* registry.get, at the time the thread comes to it.  The handler stays alive
\* while the thread has it.
Lookup(t) ==
    LET ev == job[t].event
        found == registry[ev.token] IN
    /\ Doing(t, "lookup")
    /\ IF Wanted(found, ev)
         THEN /\ job' = [job EXCEPT ![t].step = "found", ![t].handler = found]
              /\ UNCHANGED poolVars
         ELSE Done(t)
    /\ lost' = IF Wanted(found, ev) /\ found = ev.source THEN lost ELSE LostWith({ev})
    /\ UNCHANGED <<options, registryVars, loopVars, timerVars, caller>>

CallHandler(t) ==
    /\ Doing(t, "found")
    /\ job' = [job EXCEPT ![t].step = "running"]
    /\ UNCHANGED <<options, poolVars, registryVars, loopVars, timerVars, caller,
                   lost>>

HandlerReturns(t) ==
    LET s == job[t].handler
        taken == job[t].event.ready IN
    /\ Doing(t, "running")
    /\ Done(t)
    /\ work' = [work EXCEPT ![s] = @ \ taken]
    /\ lost' = [lost EXCEPT ![s] = @ \ taken]
    /\ UNCHANGED <<options, owner, edge, registry, loopVars, timerVars, caller>>

\* On a worker, the events in its channel are lost with it.
HandlerPanics(w) ==
    /\ MayPanic
    /\ Doing(w, "running")
    /\ Die(w)
    /\ job' = [job EXCEPT ![w] = Free]
    /\ lost' = LostWith({job[w].event} \cup Queued(w))
    /\ UNCHANGED <<options, registryVars, loopVars, timerVars, caller>>

\* On the thread in run(), the rest of the batch.
HandlerPanicsInLoop ==
    /\ MayPanic
    /\ Doing(Loop, "running")
    /\ job' = [job EXCEPT ![Loop] = Free]
    /\ lost' = LostWith({job[Loop].event} \cup ToSet(batch))
    /\ batch' = <<>>
    /\ GoTo("panicked")
    /\ UNCHANGED <<options, poolVars, registryVars, running, sleep_until, timerVars,
                   caller>>

--------------------------------------------------------------------------------
(***************************************************************************)
(* The reactor is dropped when nobody uses it any more.                    *)
(***************************************************************************)
Drop ==
    /\ pc \in Ended
    /\ \A c \in Callers : caller[c] = "idle"
    /\ \A s \in Sources : owner[s] \in {"out", "in"}
    /\ SendTerminate
    /\ UNCHANGED <<options, registryVars, loopVars, job, timerVars, caller, lost>>

JoinWorker ==
    /\ Join
    /\ UNCHANGED <<options, registryVars, loopVars, job, timerVars, caller, lost>>

--------------------------------------------------------------------------------
Init ==
    /\ PoolInit
    /\ RegistryInit
    /\ options \in Options
    /\ running = FALSE
    /\ pc = "out"
    /\ sleep_until = 0
    /\ batch = <<>>
    /\ job = [t \in Threads |-> Free]
    /\ deadlines = {}
    /\ clock = 0
    /\ caller = [c \in Callers |-> "idle"]
    /\ lost = [s \in Sources |-> {}]

RunStep ==
    \/ Start \/ CheckRunning \/ AskTimeout \/ PollReturns
    \/ DispatchToPool \/ DispatchFails \/ DispatchDirectly \/ EndDispatch \/ Tick

WorkerStep(w) == Take(w) \/ Leave(w) \/ HandlerPanics(w)
ThreadStep(t) == Lookup(t) \/ CallHandler(t) \/ HandlerReturns(t)

Next ==
    \/ RunStep
    \/ CallRun
    \/ PollFails
    \/ HandlerPanicsInLoop
    \/ Drop
    \/ JoinWorker
    \/ AdvanceClock
    \/ \E w \in Workers : WorkerStep(w)
    \/ \E t \in Threads : ThreadStep(t)
    \/ \E c \in Callers : Stop(c) \/ Wake(c) \/ \E delay \in Delays : Schedule(c, delay)
    \/ \E s \in Sources : Register(s) \/ ChangeRegistry(s)
                          \/ \E kind \in Kinds : BecomeReady(s, kind)

Spec == Init /\ [][Next]_vars

\* Threads that have something to do are scheduled, handlers return, and a
\* register, schedule, stop or drop that began goes on.  Nobody has to call
\* any of them, nor run().
FairSpec ==
    /\ Spec
    /\ WF_vars(RunStep \/ ThreadStep(Loop))
    /\ \A w \in Workers : WF_vars(Take(w) \/ Leave(w) \/ ThreadStep(w))
    /\ WF_vars(JoinWorker)
    /\ WF_vars(AdvanceClock)
    /\ \A c \in Callers : WF_vars(Wake(c))
    /\ \A s \in Sources : WF_vars((InsertHandler(s) \/ RemoveHandler(s)) /\ ChangeRegistry(s))

--------------------------------------------------------------------------------
(***************************************************************************)
(* Properties.                                                             *)
(***************************************************************************)
\* The types of the variables of the loop and of its parts.
TypeOK ==
    /\ channels \in [Workers -> Seq(Events \cup {Terminate})]
    /\ at \in [Workers -> {"recv", "busy", "exited", "dead"}]
    /\ next_worker \in Workers
    /\ dropping \in {"no", "joining", "panicked"}
    /\ joined \in 0 .. NumWorkers
    /\ owner \in [Sources -> {"out", "adding", "in", "removing"}]
    /\ work \in [Sources -> SUBSET Kinds]
    /\ edge \in [Sources \cup {Waker} -> SUBSET Kinds]
    /\ registry \in [Tokens -> Sources \cup {None}]
    /\ options \in Options
    /\ running \in BOOLEAN
    /\ pc \in Looping \cup Ended \cup {"called"}
    /\ sleep_until \in Nat
    /\ batch \in Seq(Events)
    /\ job \in [Threads -> {Free} \cup [step : {"lookup", "found", "running"}, event : Events,
                                        handler : Sources \cup {None}]]
    /\ deadlines \in SUBSET Nat
    /\ clock \in Nat
    /\ caller \in [Callers -> {"idle", "wake"}]
    /\ lost \in [Sources -> SUBSET Kinds]

\* Somebody who changed what the loop waits for has woken it, or is about to.
WakePending == edge[Waker] # {} \/ \E c \in Callers : caller[c] = "wake"

\* A loop that may sleep although it was told to stop is about to be woken:
\* no stop() is lost between the check of the flag and the poll (reactor.rs
\* l.92-104, 181-184).
StopIsHeard == ~running /\ pc \in {"ask", "poll"} => WakePending

\* The loop sleeps past a timer by no more than the time it took from the timeout
\* to the poll: also one scheduled after the timeout was computed has woken the
\* poll, or will (reactor.rs l.94-104, lib.rs l.477).
PollInTime ==
    pc = "poll" => \A d \in deadlines :
        sleep_until <= d + MaxLag \/ sleep_until <= clock + MaxLag \/ WakePending

InFlight ==
    ToSet(batch) \cup (UNION {Queued(w) : w \in Workers})
      \cup {job[t].event : t \in {u \in Threads : job[u] # Free}}

\* What a source that is registered is ready for is still to be reported, or an
\* event on its way reports it, or it was lost in one of the ways the model
\* records: no handler in the map yet, a panic, a failed dispatch.
ReadinessAccounted ==
    \A s \in Sources : owner[s] = "in" =>
        \A kind \in work[s] \cap InterestOf[s] :
            \/ kind \in edge[s] \cup lost[s]
            \/ \E ev \in InFlight : ev.source = s /\ kind \in ev.ready

\* A loop that was told to stop does so, however long its poll timeout is.
StopEndsRun == (~running /\ pc \in Looping) ~> pc \notin Looping

\* What a registered source is ready for is handled, while the loop runs.
ReadinessServed ==
    \A s \in Sources : \A kind \in InterestOf[s] :
        (kind \in work[s] /\ owner[s] = "in" /\ pc \in Looping)
          ~> (kind \notin work[s] \/ owner[s] # "in" \/ kind \in lost[s] \/ pc \notin Looping)

\* A pending timer fires when its time has passed, while the loop runs.
TimersFire ==
    \A d \in {n \in 0 .. MaxClock - 1 : \E delay \in Delays : delay <= n} :
        (d \in deadlines /\ pc \in Looping) ~> (d \notin deadlines \/ pc \notin Looping)
================================================================================
