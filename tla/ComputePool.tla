------------------------------ MODULE ComputePool ------------------------------
(***************************************************************************)
(* ComputeThreadPool of mill-io/src/thread_pool.rs: callers spawn tasks    *)
(* with a priority into one heap, workers sleep on a condition variable    *)
(* until there is a task or the pool is being dropped.                     *)
(*                                                                         *)
(* A task stands for the one spawn() call that submits it, so a call's     *)
(* program counter is indexed by tasks.  The condition variable's waiters  *)
(* are the workers at "waiting"; notifying one that nobody waits for is    *)
(* lost.  parking_lot wakes no waiter without a notification.  Every       *)
(* update of the heap or of a counter of the metrics is a step of its own: *)
(* the lock keeps the pool's own threads apart, not those that read the    *)
(* metrics.                                                                *)
(***************************************************************************)
EXTENDS Integers, FiniteSets, FiniteSetsExt

CONSTANTS Tasks,        \* the tasks that may be spawned
          Workers,      \* the worker threads
          Priorities,   \* TaskPriority: 0 (Low) .. 3 (Critical) in the code
          None          \* no worker, no task

ASSUME PoolAssumption ==
    /\ IsFiniteSet(Tasks)
    /\ IsFiniteSet(Workers)
    /\ IsFiniteSet(Priorities)
    /\ Priorities \subseteq Nat
    /\ Tasks \cap Workers = {}
    /\ None \notin Tasks \cup Workers

VARIABLES
    call,            \* where spawn() of each task is
    priority,        \* the priority its caller gives it
    ticket,          \* its sequence number
    sequence,        \* the pool's counter of sequence numbers
    queue,           \* the tasks in the heap
    mutex,           \* who holds the heap's lock across steps: a worker, a task's spawn(), or None
    shutdown,
    pc,              \* where each worker is in its loop
    running,         \* the task each worker has taken
    dropping,        \* where drop() is
    tasks_submitted, tasks_completed, tasks_failed, active_workers, queue_depth,
    earlier          \* history: the spawns that had returned when this one began

callVars == <<call, priority, ticket, sequence, earlier>>
workerVars == <<mutex, pc, running>>
dropVars == <<shutdown, dropping>>
metrics == <<tasks_submitted, tasks_completed, tasks_failed, active_workers, queue_depth>>
vars == <<callVars, queue, workerVars, dropVars, metrics>>

WorkersAt(place) == {w \in Workers : pc[w] = place}
CallsAt(place) == {t \in Tasks : call[t] = place}
\* The spawns that have pushed their task and still owe its notification.
Counting == CallsAt("pushed") \cup CallsAt("submitted")
Notifying == Counting \cup CallsAt("notify")
GoTo(w, place) == pc' = [pc EXCEPT ![w] = place]

--------------------------------------------------------------------------------
(***************************************************************************)
(* spawn                                                                   *)
(***************************************************************************)
\* The sequence number is taken before the lock.
TakeSequence(t) ==
    /\ dropping = "no"
    /\ call[t] = "new"
    /\ call' = [call EXCEPT ![t] = "sequenced"]
    /\ ticket' = [ticket EXCEPT ![t] = sequence]
    /\ sequence' = sequence + 1
    /\ earlier' = [earlier EXCEPT ![t] = CallsAt("returned")]
    /\ UNCHANGED <<priority, queue, workerVars, dropVars, metrics>>

Deeper(t) == [queue_depth EXCEPT ![priority[t]] = @ + 1]

\* A task counted after the lock (a mutant).
PushUnlocked(t) ==
    /\ call[t] = "sequenced"
    /\ mutex = None
    /\ queue' = queue \cup {t}
    /\ call' = [call EXCEPT ![t] = "pushed"]
    /\ UNCHANGED <<priority, ticket, sequence, earlier, workerVars, dropVars, metrics>>

\* Takes the lock and keeps it until the task is counted.
Push(t) ==
    /\ call[t] = "sequenced"
    /\ mutex = None
    /\ mutex' = t
    /\ queue' = queue \cup {t}
    /\ call' = [call EXCEPT ![t] = "pushed"]
    /\ UNCHANGED <<priority, ticket, sequence, earlier, pc, running, dropVars, metrics>>

CountSubmitted(t) ==
    /\ call[t] = "pushed"
    /\ tasks_submitted' = tasks_submitted + 1
    /\ call' = [call EXCEPT ![t] = "submitted"]
    /\ UNCHANGED <<priority, ticket, sequence, earlier, queue, workerVars, dropVars,
                   tasks_completed, tasks_failed, active_workers, queue_depth>>

CountDeeper(t) ==
    /\ call[t] = "submitted"
    /\ queue_depth' = Deeper(t)
    /\ mutex' = None
    /\ call' = [call EXCEPT ![t] = "notify"]
    /\ UNCHANGED <<priority, ticket, sequence, earlier, queue, pc, running, dropVars,
                   tasks_submitted, tasks_completed, tasks_failed, active_workers>>

\* A notification that only a spawn into an empty heap sends (a mutant).
WakeOneIfFirst ==
    IF WorkersAt("waiting") # {} /\ Cardinality(queue) = 1
      THEN \E w \in WorkersAt("waiting") : GoTo(w, "lock")
      ELSE UNCHANGED pc

\* Condvar::notify_one
WakeOne ==
    IF WorkersAt("waiting") # {}
      THEN \E w \in WorkersAt("waiting") : GoTo(w, "lock")
      ELSE UNCHANGED pc

\* Out of the lock again.
Notify(t) ==
    /\ call[t] = "notify"
    /\ WakeOne
    /\ call' = [call EXCEPT ![t] = "returned"]
    /\ UNCHANGED <<priority, ticket, sequence, earlier, queue, mutex, running, dropVars, metrics>>

--------------------------------------------------------------------------------
(***************************************************************************)
(* The loop of a worker.                                                   *)
(***************************************************************************)
\* A comparison that puts the latest task first (a mutant).
OutranksLatest(t, u) ==
    \/ priority[t] > priority[u]
    \/ priority[t] = priority[u] /\ ticket[t] > ticket[u]

\* Ord for PriorityTask: whether t comes out of the heap before u.
Outranks(t, u) ==
    \/ priority[t] > priority[u]
    \/ priority[t] = priority[u] /\ ticket[t] < ticket[u]

IsNext(t) == t \in queue /\ \A u \in queue \ {t} : Outranks(t, u)

\* With the lock: nothing to do, so it will wait.  It keeps the lock until it
\* does, which keeps spawn() out, but not drop().
DecideToWait(w) ==
    /\ pc[w] = "lock"
    /\ mutex = None
    /\ queue = {}
    /\ ~shutdown
    /\ mutex' = w
    /\ GoTo(w, "deciding")
    /\ UNCHANGED <<callVars, queue, running, dropVars, metrics>>

\* Condvar::wait: it sleeps and gives up the lock in one step.
Wait(w) ==
    /\ pc[w] = "deciding"
    /\ mutex' = None
    /\ GoTo(w, "waiting")
    /\ UNCHANGED <<callVars, queue, running, dropVars, metrics>>

\* A worker that leaves as soon as the pool is dropped (a mutant).
ExitAtOnce(w) ==
    /\ pc[w] = "lock"
    /\ mutex = None
    /\ shutdown
    /\ GoTo(w, "exited")
    /\ UNCHANGED <<callVars, queue, mutex, running, dropVars, metrics>>

\* With the lock: nothing left, and the pool is being dropped.
Exit(w) ==
    /\ pc[w] = "lock"
    /\ mutex = None
    /\ queue = {}
    /\ shutdown
    /\ GoTo(w, "exited")
    /\ UNCHANGED <<callVars, queue, mutex, running, dropVars, metrics>>

\* The first task of the heap; the worker keeps the lock until it is counted.
Pop(w) ==
    /\ pc[w] = "lock"
    /\ mutex = None
    /\ \E t \in queue :
         /\ IsNext(t)
         /\ queue' = queue \ {t}
         /\ running' = [running EXCEPT ![w] = t]
    /\ mutex' = w
    /\ GoTo(w, "popped")
    /\ UNCHANGED <<callVars, dropVars, metrics>>

CountTaken(w) ==
    /\ pc[w] = "popped"
    /\ queue_depth' = [queue_depth EXCEPT ![priority[running[w]]] = @ - 1]
    /\ mutex' = None
    /\ GoTo(w, "taken")
    /\ UNCHANGED <<callVars, queue, running, dropVars,
                   tasks_submitted, tasks_completed, tasks_failed, active_workers>>

Begin(w) ==
    /\ pc[w] = "taken"
    /\ active_workers' = active_workers + 1
    /\ GoTo(w, "running")
    /\ UNCHANGED <<callVars, queue, mutex, running, dropVars,
                   tasks_submitted, tasks_completed, tasks_failed, queue_depth>>

\* The task returns, or panics: catch_unwind keeps the worker.
Finish(w) ==
    /\ pc[w] = "running"
    /\ active_workers' = active_workers - 1
    /\ \E result \in {"ok", "panicked"} : GoTo(w, result)
    /\ UNCHANGED <<callVars, queue, mutex, running, dropVars,
                   tasks_submitted, tasks_completed, tasks_failed, queue_depth>>

\* A panic that nobody counts (a mutant).
CountOnlySuccess(w) ==
    /\ pc[w] \in {"ok", "panicked"}
    /\ tasks_completed' = tasks_completed + IF pc[w] = "ok" THEN 1 ELSE 0
    /\ running' = [running EXCEPT ![w] = None]
    /\ GoTo(w, "lock")
    /\ UNCHANGED <<callVars, queue, mutex, dropVars, tasks_submitted, tasks_failed, active_workers, queue_depth>>

Count(w) ==
    /\ pc[w] \in {"ok", "panicked"}
    /\ IF pc[w] = "ok"
         THEN tasks_completed' = tasks_completed + 1 /\ UNCHANGED tasks_failed
         ELSE tasks_failed' = tasks_failed + 1 /\ UNCHANGED tasks_completed
    /\ running' = [running EXCEPT ![w] = None]
    /\ GoTo(w, "lock")
    /\ UNCHANGED <<callVars, queue, mutex, dropVars, tasks_submitted, active_workers, queue_depth>>

--------------------------------------------------------------------------------
(***************************************************************************)
(* drop: nobody else has the pool any more, so no spawn() is under way.    *)
(***************************************************************************)
DropStore ==
    /\ dropping = "no"
    /\ CallsAt("sequenced") \cup Notifying = {}
    /\ shutdown' = TRUE
    /\ dropping' = "stored"
    /\ UNCHANGED <<callVars, queue, workerVars, metrics>>

\* Condvar::notify_all, without the heap's lock.
DropNotify ==
    /\ dropping = "stored"
    /\ pc' = [w \in Workers |-> IF pc[w] = "waiting" THEN "lock" ELSE pc[w]]
    /\ dropping' = "joining"
    /\ UNCHANGED <<callVars, queue, mutex, running, shutdown, metrics>>

DropJoin ==
    /\ dropping = "joining"
    /\ WorkersAt("exited") = Workers
    /\ dropping' = "done"
    /\ UNCHANGED <<callVars, queue, workerVars, shutdown, metrics>>

--------------------------------------------------------------------------------
Init ==
    /\ call = [t \in Tasks |-> "new"]
    /\ priority \in [Tasks -> Priorities]
    /\ ticket = [t \in Tasks |-> 0]
    /\ sequence = 0
    /\ queue = {}
    /\ mutex = None
    /\ shutdown = FALSE
    /\ pc = [w \in Workers |-> "lock"]
    /\ running = [w \in Workers |-> None]
    /\ dropping = "no"
    /\ tasks_submitted = 0
    /\ tasks_completed = 0
    /\ tasks_failed = 0
    /\ active_workers = 0
    /\ queue_depth = [p \in Priorities |-> 0]
    /\ earlier = [t \in Tasks |-> {}]

Spawn(t) == TakeSequence(t) \/ Push(t) \/ CountSubmitted(t) \/ CountDeeper(t) \/ Notify(t)

Work(w) ==
    \/ DecideToWait(w)
    \/ Wait(w)
    \/ Exit(w)
    \/ Pop(w)
    \/ CountTaken(w)
    \/ Begin(w)
    \/ Finish(w)
    \/ Count(w)

Drop == DropStore \/ DropNotify \/ DropJoin

Next == (\E t \in Tasks : Spawn(t)) \/ (\E w \in Workers : Work(w)) \/ Drop

Spec == Init /\ [][Next]_vars

\* A spawn() or drop() under way goes on, workers are scheduled, tasks return.
\* Nobody has to spawn or to drop.
FairSpec ==
    /\ Spec
    /\ \A t \in Tasks : WF_vars(Push(t) \/ CountSubmitted(t) \/ CountDeeper(t) \/ Notify(t))
    /\ \A w \in Workers : WF_vars(Work(w))
    /\ WF_vars(DropNotify) /\ WF_vars(DropJoin)

--------------------------------------------------------------------------------
(***************************************************************************)
(* Properties.                                                             *)
(***************************************************************************)
Calls == {"new", "sequenced", "pushed", "submitted", "notify", "returned"}
Places == {"lock", "deciding", "waiting", "popped", "taken", "running", "ok", "panicked", "exited"}
Busy == {"popped", "taken", "running", "ok", "panicked"}

\* The type invariant: among the rest, no metric goes below zero (they are
\* unsigned and wrap), and a worker has a task exactly while it is busy.
TypeOK ==
    /\ call \in [Tasks -> Calls]
    /\ priority \in [Tasks -> Priorities]
    /\ ticket \in [Tasks -> Nat] /\ sequence \in Nat
    /\ earlier \in [Tasks -> SUBSET Tasks]
    /\ queue \subseteq Notifying \cup CallsAt("returned")
    /\ mutex \in Workers \cup Tasks \cup {None}
    /\ pc \in [Workers -> Places]
    /\ running \in [Workers -> Tasks \cup {None}]
    /\ \A w \in Workers : (running[w] # None) <=> pc[w] \in Busy
    /\ shutdown \in BOOLEAN
    /\ dropping \in {"no", "stored", "joining", "done"}
    /\ tasks_submitted \in Nat /\ tasks_completed \in Nat /\ tasks_failed \in Nat
    /\ active_workers \in Nat
    /\ queue_depth \in [Priorities -> Nat]

HasWorker(t) == \E w \in Workers : running[w] = t
BusyWorkers == {w \in Workers : pc[w] \in Busy}

Of(p, tasks) == {t \in tasks : priority[t] = p}
Taking(p) == {w \in WorkersAt("popped") : priority[running[w]] = p}

\* No task is lost to the metrics or counted twice, whether it is queued, with a
\* worker, completed or has panicked.  Each counter lags behind what it counts
\* by the calls between the two: tasks_submitted by the spawns before l.340,
\* queue_depth by those before l.341 and by the workers between l.266 and l.268.
MetricsAddUp ==
    /\ tasks_submitted + Cardinality(CallsAt("pushed")) =
         Cardinality(queue) + Cardinality(BusyWorkers) + tasks_completed + tasks_failed
    /\ active_workers = Cardinality(WorkersAt("running"))
    /\ \A p \in Priorities :
         queue_depth[p] + Cardinality(Of(p, Counting)) =
             Cardinality(Of(p, queue)) + Cardinality(Taking(p))

\* notify_one outside the lock loses no wakeup: while some worker sleeps, each
\* queued task has a notification on its way or a worker about to look.
WakeupPerTask ==
    WorkersAt("waiting") # {} =>
        Cardinality(queue) <= Cardinality(Notifying) + Cardinality(WorkersAt("lock"))

\* Dropping the pool does not cost a task: workers leave only when the heap is
\* empty, and it stays so.
NoTaskLeftBehind ==
    WorkersAt("exited") # {} => queue = {} /\ CallsAt("sequenced") \cup Notifying = {}

\* Each task spawned is run to its end, also when the pool is dropped meanwhile.
SubmittedTasksRun ==
    \A t \in Tasks : call[t] = "sequenced" ~>
        /\ call[t] = "returned"
        /\ t \notin queue
        /\ ~HasWorker(t)

\* The pool implements the service of TaskService.
PhaseOf(t) ==
    IF t \in queue THEN "queued"
    ELSE IF HasWorker(t) THEN "running"
    ELSE IF call[t] \in {"notify", "returned"} THEN "done"
    ELSE IF call[t] = "sequenced" THEN "called"
    ELSE "new"

Service == INSTANCE TaskService
    WITH phase <- [t \in Tasks |-> PhaseOf(t)],
         returned <- CallsAt("returned")

ImplementsService == Service!Spec

\* What the shutdown test says (l.678): "Drop should wait for all queued tasks
\* to complete", and then returns.
DropReturns == dropping = "stored" ~> dropping = "done"

================================================================================
