--------------------------- MODULE ComputePoolProofs ---------------------------
(***************************************************************************)
(* Proofs about ComputePool: its type invariant, that the metrics add up,  *)
(* that no wakeup is lost between spawn() and the workers, and that it     *)
(* implements TaskService, for any number of tasks, workers, priorities.   *)
(***************************************************************************)
EXTENDS ComputePool, FiniteSetTheorems, TLAPS

--------------------------------------------------------------------------------
(***************************************************************************)
(* Counting: how a number of elements changes with one more or one less.   *)
(***************************************************************************)
\* One more element counts one more, one less counts one less.
LEMMA CountAdd ==
    ASSUME NEW S, NEW x, IsFiniteSet(S), x \notin S
    PROVE  /\ IsFiniteSet(S \cup {x})
           /\ Cardinality(S \cup {x}) = Cardinality(S) + 1
           /\ Cardinality(S) \in Nat
BY FS_AddElement, FS_CardinalityType

\* A set without one of its elements counts one less.
LEMMA CountRemove ==
    ASSUME NEW S, NEW x, IsFiniteSet(S), x \in S
    PROVE  /\ IsFiniteSet(S \ {x})
           /\ Cardinality(S \ {x}) = Cardinality(S) - 1
           /\ Cardinality(S) \in Nat
           /\ Cardinality(S \ {x}) \in Nat
BY FS_RemoveElement, FS_CardinalityType

--------------------------------------------------------------------------------
(***************************************************************************)
(* The inductive invariant.                                                *)
(***************************************************************************)
\* The lock is held across steps by a worker that found nothing to do, by one
\* that counts the task it has taken and by a spawn() that counts its task.
LockHeld ==
    /\ \A w \in Workers : pc[w] = "deciding" => mutex = w /\ queue = {}
    /\ \A w \in Workers : pc[w] = "popped" => mutex = w
    /\ \A t \in Counting : mutex = t /\ t \in queue

IInv == TypeOK /\ MetricsAddUp /\ LockHeld

\* What the lock excludes while somebody holds it across steps.
LEMMA OneHolder ==
    ASSUME IInv
    PROVE  /\ mutex = None => Counting = {} /\ WorkersAt("popped") = {}
           /\ \A w \in Workers : mutex = w => Counting = {} /\ WorkersAt("popped") \subseteq {w}
           /\ \A t \in Tasks : mutex = t => Counting \subseteq {t} /\ WorkersAt("popped") = {}
BY PoolAssumption DEF IInv, LockHeld, WorkersAt, Counting, CallsAt

\* The pool starts in the invariant.
LEMMA InitIInv == Init => IInv
<1> SUFFICES ASSUME Init PROVE IInv
  OBVIOUS
<1> USE PoolAssumption DEF Init
<1>1. TypeOK
  BY DEF TypeOK, Calls, Places, Busy, CallsAt
<1>2. MetricsAddUp
  <2>1. /\ BusyWorkers = {} /\ WorkersAt("running") = {}
        /\ CallsAt("pushed") = {} /\ Counting = {} /\ WorkersAt("popped") = {}
    BY DEF BusyWorkers, Busy, WorkersAt, CallsAt, Counting
  <2>2. \A p \in Priorities : Of(p, queue) = {} /\ Of(p, Counting) = {} /\ Taking(p) = {}
    BY <2>1 DEF Of, Taking
  <2>. QED  BY <2>1, <2>2, FS_EmptySet DEF MetricsAddUp
<1>3. LockHeld
  BY DEF LockHeld, Counting, CallsAt
<1>. QED  BY <1>1, <1>2, <1>3 DEF IInv

\* Where the counted sets are finite.
LEMMA Finite ==
    ASSUME TypeOK
    PROVE  /\ IsFiniteSet(queue) /\ Cardinality(queue) \in Nat
           /\ IsFiniteSet(BusyWorkers) /\ Cardinality(BusyWorkers) \in Nat
           /\ \A place : IsFiniteSet(WorkersAt(place)) /\ Cardinality(WorkersAt(place)) \in Nat
           /\ \A place : IsFiniteSet(CallsAt(place)) /\ Cardinality(CallsAt(place)) \in Nat
           /\ IsFiniteSet(Notifying) /\ Cardinality(Notifying) \in Nat
           /\ \A p : /\ IsFiniteSet(Of(p, queue)) /\ Cardinality(Of(p, queue)) \in Nat
                     /\ IsFiniteSet(Of(p, Counting)) /\ Cardinality(Of(p, Counting)) \in Nat
                     /\ IsFiniteSet(Taking(p)) /\ Cardinality(Taking(p)) \in Nat
<1>1. queue \subseteq Tasks /\ BusyWorkers \subseteq Workers /\ Notifying \subseteq Tasks
  BY DEF TypeOK, CallsAt, BusyWorkers, Notifying, Counting
<1>2. \A place : WorkersAt(place) \subseteq Workers /\ CallsAt(place) \subseteq Tasks
  BY DEF WorkersAt, CallsAt
<1>3. \A p : Of(p, queue) \subseteq Tasks /\ Of(p, Counting) \subseteq Tasks /\ Taking(p) \subseteq Workers
  BY <1>1, <1>2 DEF Of, Taking, Counting
<1>. QED  BY <1>1, <1>2, <1>3, PoolAssumption, FS_Subset, FS_CardinalityType

\* A step that moves no task and no count between the places keeps the sums.
LEMMA SameSums ==
    ASSUME MetricsAddUp, UNCHANGED <<priority, queue, metrics>>,
           CallsAt("pushed")' = CallsAt("pushed"), Counting' = Counting,
           BusyWorkers' = BusyWorkers, WorkersAt("running")' = WorkersAt("running"),
           WorkersAt("popped")' = WorkersAt("popped"),
           \A w \in WorkersAt("popped") : running'[w] = running[w]
    PROVE  MetricsAddUp'
<1>1. ASSUME NEW p \in Priorities
      PROVE  Of(p, queue)' = Of(p, queue) /\ Of(p, Counting)' = Of(p, Counting) /\ Taking(p)' = Taking(p)
  BY DEF Of, Taking
<1>. QED  BY <1>1 DEF MetricsAddUp, metrics

\* The steps of spawn() that move no task.
LEMMA CallIInv ==
    ASSUME IInv, NEW t \in Tasks, TakeSequence(t) \/ Notify(t)
    PROVE  IInv'
<1> USE DEF IInv
<1>1. CASE TakeSequence(t)
  <2> USE <1>1 DEF TakeSequence, workerVars, dropVars
  <2>1. CallsAt("pushed")' = CallsAt("pushed") /\ Counting' = Counting
    BY DEF CallsAt, Counting, TypeOK
  <2>2. TypeOK'
    BY <2>1 DEF TypeOK, Calls, CallsAt, Notifying, metrics
  <2>3. MetricsAddUp'
    BY <2>1, SameSums DEF BusyWorkers, WorkersAt
  <2>4. LockHeld'
    BY <2>1 DEF LockHeld
  <2>. QED  BY <2>2, <2>3, <2>4
<1>2. CASE Notify(t)
  <2> USE <1>2 DEF Notify, dropVars
  <2>1. \/ UNCHANGED pc
        \/ \E w \in Workers : pc[w] = "waiting" /\ pc' = [pc EXCEPT ![w] = "lock"]
    BY DEF WakeOne, WorkersAt, GoTo, TypeOK
  <2>2. CallsAt("pushed")' = CallsAt("pushed") /\ Counting' = Counting
    BY DEF CallsAt, Counting, TypeOK
  <2>3. TypeOK'
    BY <2>1, <2>2 DEF TypeOK, Calls, CallsAt, Places, Busy, Notifying, metrics
  <2>4. /\ BusyWorkers' = BusyWorkers /\ WorkersAt("running")' = WorkersAt("running")
        /\ WorkersAt("popped")' = WorkersAt("popped")
    BY <2>1 DEF BusyWorkers, WorkersAt, TypeOK, Busy
  <2>5. MetricsAddUp'
    BY <2>2, <2>4, SameSums
  <2>6. LockHeld'
    BY <2>1, <2>2 DEF LockHeld, TypeOK
  <2>. QED  BY <2>3, <2>5, <2>6
<1>. QED  BY <1>1, <1>2

\* Push: one more in the heap and one more to be counted.
LEMMA PushIInv ==
    ASSUME IInv, NEW t \in Tasks, Push(t)
    PROVE  IInv'
<1> USE DEF IInv, Push, dropVars
<1>1. TypeOK'
  BY DEF TypeOK, Calls, CallsAt, Notifying, Counting, metrics
<1>2. t \notin queue /\ t \notin CallsAt("pushed") /\ t \notin Counting
  BY DEF TypeOK, CallsAt, Notifying, Counting
<1>3. CallsAt("pushed")' = CallsAt("pushed") \cup {t} /\ Counting' = Counting \cup {t}
  BY DEF TypeOK, CallsAt, Counting
<1>4. /\ Cardinality(queue') = Cardinality(queue) + 1
      /\ Cardinality(CallsAt("pushed")') = Cardinality(CallsAt("pushed")) + 1
  BY <1>2, <1>3, CountAdd, Finite
<1>5. /\ BusyWorkers' = BusyWorkers /\ WorkersAt("running")' = WorkersAt("running")
      /\ \A p \in Priorities : Taking(p)' = Taking(p)
  BY DEF BusyWorkers, WorkersAt, Taking
<1>6. ASSUME NEW p \in Priorities
      PROVE  queue_depth'[p] + Cardinality(Of(p, Counting)') = Cardinality(Of(p, queue)') + Cardinality(Taking(p)')
  <2> DEFINE Q == Of(p, queue)
             C == Of(p, Counting)
  <2>1. /\ IsFiniteSet(Q) /\ IsFiniteSet(C) /\ Cardinality(Q) \in Nat /\ Cardinality(C) \in Nat
        /\ Cardinality(Taking(p)) \in Nat /\ queue_depth[p] \in Nat
    BY Finite DEF TypeOK
  <2>2. CASE priority[t] = p
    <3>1. Of(p, queue)' = Q \cup {t} /\ Of(p, Counting)' = C \cup {t} /\ t \notin Q /\ t \notin C
      BY <1>2, <1>3, <2>2 DEF Of
    <3>2. Cardinality(Q \cup {t}) = Cardinality(Q) + 1 /\ Cardinality(C \cup {t}) = Cardinality(C) + 1
      BY <2>1, <3>1, CountAdd
    <3>3. queue_depth[p] + Cardinality(C) = Cardinality(Q) + Cardinality(Taking(p))
      BY DEF MetricsAddUp
    <3>4. queue_depth'[p] = queue_depth[p] /\ Taking(p)' = Taking(p)
      BY <1>5 DEF metrics
    <3> HIDE DEF IInv, Push, Q, C
    <3>. QED  BY <2>1, <3>1, <3>2, <3>3, <3>4
  <2>3. CASE priority[t] # p
    <3>1. Of(p, queue)' = Q /\ Of(p, Counting)' = C
      BY <1>3, <2>3 DEF Of
    <3>. QED  BY <1>5, <3>1 DEF MetricsAddUp, metrics
  <2>. QED  BY <2>2, <2>3
<1>7. MetricsAddUp'
  <2>1. /\ Cardinality(queue) \in Nat /\ Cardinality(BusyWorkers) \in Nat
        /\ Cardinality(CallsAt("pushed")) \in Nat
        /\ tasks_submitted \in Nat /\ tasks_completed \in Nat /\ tasks_failed \in Nat
    BY Finite DEF TypeOK
  <2>2. tasks_submitted + Cardinality(CallsAt("pushed")) =
          Cardinality(queue) + Cardinality(BusyWorkers) + tasks_completed + tasks_failed
    BY DEF MetricsAddUp
  <2>3. UNCHANGED metrics
    OBVIOUS
  <2>4. (tasks_submitted + Cardinality(CallsAt("pushed")) =
          Cardinality(queue) + Cardinality(BusyWorkers) + tasks_completed + tasks_failed)'
    BY <1>4, <1>5, <2>1, <2>2, <2>3 DEF metrics
  <2>5. active_workers' = Cardinality(WorkersAt("running"))'
    BY <1>5, <2>3 DEF MetricsAddUp, metrics
  <2>. QED  BY <1>6, <2>4, <2>5 DEF MetricsAddUp
<1>8. LockHeld'
  BY <1>3, OneHolder, PoolAssumption DEF LockHeld, WorkersAt
<1>. QED  BY <1>1, <1>7, <1>8

\* CountSubmitted: the task pushed is one more of those submitted.
LEMMA CountSubmittedIInv ==
    ASSUME IInv, NEW t \in Tasks, CountSubmitted(t)
    PROVE  IInv'
<1> USE DEF IInv, CountSubmitted, workerVars, dropVars
<1>1. Counting' = Counting
  BY DEF Counting, CallsAt, TypeOK
<1>2. CallsAt("pushed")' = CallsAt("pushed") \ {t} /\ t \in CallsAt("pushed")
  BY DEF CallsAt, TypeOK
<1>3. TypeOK'
  BY <1>1 DEF TypeOK, Calls, CallsAt, Notifying
<1>4. Cardinality(CallsAt("pushed")') = Cardinality(CallsAt("pushed")) - 1
  BY <1>2, CountRemove, Finite
<1>5. /\ BusyWorkers' = BusyWorkers /\ WorkersAt("running")' = WorkersAt("running")
      /\ \A p \in Priorities : /\ Taking(p)' = Taking(p) /\ Of(p, queue)' = Of(p, queue)
                               /\ Of(p, Counting)' = Of(p, Counting)
  BY <1>1 DEF BusyWorkers, WorkersAt, Taking, Of
<1>6. MetricsAddUp'
  <2>1. /\ Cardinality(queue) \in Nat /\ Cardinality(BusyWorkers) \in Nat
        /\ Cardinality(CallsAt("pushed")) \in Nat
    BY Finite
  <2>. QED  BY <1>4, <1>5, <2>1 DEF MetricsAddUp, TypeOK
<1>7. LockHeld'
  BY <1>1 DEF LockHeld
<1>. QED  BY <1>3, <1>6, <1>7

\* CountDeeper: the task submitted is one more of its priority.
LEMMA CountDeeperIInv ==
    ASSUME IInv, NEW t \in Tasks, CountDeeper(t)
    PROVE  IInv'
<1> USE DEF IInv, CountDeeper, dropVars
<1>1. Counting = {t} /\ mutex = t /\ WorkersAt("popped") = {}
  <2>1. t \in Counting
    BY DEF Counting, CallsAt
  <2>. QED  BY <2>1, OneHolder DEF LockHeld
<1>2. CallsAt("pushed")' = CallsAt("pushed") /\ Counting' = Counting \ {t}
  BY DEF CallsAt, Counting, TypeOK
<1>3. TypeOK'
  BY DEF TypeOK, Calls, CallsAt, Notifying, Counting, Deeper
<1>4. /\ BusyWorkers' = BusyWorkers /\ WorkersAt("running")' = WorkersAt("running")
      /\ \A p \in Priorities : Taking(p)' = Taking(p) /\ Of(p, queue)' = Of(p, queue)
  BY DEF BusyWorkers, WorkersAt, Taking, Of
<1>5. ASSUME NEW p \in Priorities
      PROVE  queue_depth'[p] + Cardinality(Of(p, Counting)') = Cardinality(Of(p, queue)') + Cardinality(Taking(p)')
  <2> DEFINE C == Of(p, Counting)
  <2>1. /\ IsFiniteSet(C) /\ Cardinality(C) \in Nat /\ queue_depth[p] \in Nat
        /\ Cardinality(Of(p, queue)) \in Nat /\ Cardinality(Taking(p)) \in Nat
    BY Finite DEF TypeOK
  <2>2. CASE priority[t] = p
    <3>1. Of(p, Counting)' = C \ {t} /\ t \in C
      BY <1>1, <1>2, <2>2 DEF Of
    <3>2. queue_depth'[p] = queue_depth[p] + 1
      BY <2>2 DEF Deeper, TypeOK
    <3>3. Cardinality(C \ {t}) = Cardinality(C) - 1
      BY <2>1, <3>1, CountRemove
    <3>. QED  BY <1>4, <2>1, <3>1, <3>2, <3>3 DEF MetricsAddUp
  <2>3. CASE priority[t] # p
    <3>1. Of(p, Counting)' = C
      BY <1>2, <2>3 DEF Of
    <3>2. queue_depth'[p] = queue_depth[p]
      BY <2>3 DEF Deeper, TypeOK
    <3>. QED  BY <1>4, <3>1, <3>2 DEF MetricsAddUp
  <2>. QED  BY <2>2, <2>3
<1>6. MetricsAddUp'
  BY <1>2, <1>4, <1>5 DEF MetricsAddUp
<1>7. LockHeld'
  BY <1>1, <1>2, PoolAssumption DEF LockHeld, WorkersAt
<1>. QED  BY <1>3, <1>6, <1>7

\* The steps of a worker that change no metric.
LEMMA IdleIInv ==
    ASSUME IInv, NEW w \in Workers, DecideToWait(w) \/ Wait(w) \/ Exit(w)
    PROVE  IInv'
<1> USE DEF IInv, DecideToWait, Wait, Exit, GoTo, callVars, dropVars
<1>1. TypeOK'
  BY DEF TypeOK, Places, Busy, CallsAt, Notifying, Counting, metrics
<1>2. /\ BusyWorkers' = BusyWorkers /\ WorkersAt("running")' = WorkersAt("running")
      /\ WorkersAt("popped")' = WorkersAt("popped")
      /\ CallsAt("pushed")' = CallsAt("pushed") /\ Counting' = Counting
  BY DEF BusyWorkers, Busy, WorkersAt, TypeOK, CallsAt, Counting
<1>3. MetricsAddUp'
  BY <1>2, SameSums
<1>4. LockHeld'
  BY <1>2, OneHolder, PoolAssumption DEF LockHeld, TypeOK, WorkersAt
<1>. QED  BY <1>1, <1>3, <1>4

\* Pop: the task leaves the heap and is the worker's, still to be counted.
LEMMA PopIInv ==
    ASSUME IInv, NEW w \in Workers, Pop(w)
    PROVE  IInv'
<1> USE DEF IInv
<1>1. PICK t \in queue : queue' = queue \ {t} /\ running' = [running EXCEPT ![w] = t]
  BY DEF Pop
<1>2. /\ pc[w] = "lock" /\ mutex = None /\ mutex' = w
      /\ pc' = [pc EXCEPT ![w] = "popped"]
      /\ UNCHANGED <<callVars, dropVars, metrics>>
  BY DEF Pop, GoTo
<1>3. t \in Tasks /\ t # None /\ priority[t] \in Priorities
  BY PoolAssumption DEF TypeOK, CallsAt, Notifying, Counting
<1>4. Counting = {} /\ WorkersAt("popped") = {}
  BY <1>2, OneHolder
<1>5. TypeOK'
  BY <1>1, <1>2, <1>3 DEF TypeOK, Places, Busy, CallsAt, Notifying, Counting, callVars, dropVars, metrics
<1>6. Cardinality(queue') = Cardinality(queue) - 1
  BY <1>1, CountRemove, Finite
<1>7. /\ WorkersAt("running")' = WorkersAt("running") /\ WorkersAt("popped")' = {w}
      /\ CallsAt("pushed")' = CallsAt("pushed") /\ Counting' = Counting
  BY <1>2, <1>4 DEF WorkersAt, TypeOK, callVars, CallsAt, Counting
<1>8. Cardinality(BusyWorkers') = Cardinality(BusyWorkers) + 1
  <2>1. BusyWorkers' = BusyWorkers \cup {w} /\ w \notin BusyWorkers
    BY <1>2 DEF BusyWorkers, Busy, TypeOK
  <2>. QED  BY <2>1, CountAdd, Finite
<1>9. ASSUME NEW p \in Priorities
      PROVE  queue_depth'[p] + Cardinality(Of(p, Counting)') = Cardinality(Of(p, queue)') + Cardinality(Taking(p)')
  <2> DEFINE Q == Of(p, queue)
  <2>1. /\ IsFiniteSet(Q) /\ Cardinality(Q) \in Nat /\ queue_depth[p] \in Nat
        /\ Of(p, Counting)' = Of(p, Counting) /\ Cardinality(Of(p, Counting)) \in Nat
        /\ Taking(p) = {}
    BY <1>2, <1>4, <1>7, Finite DEF TypeOK, Of, Taking, callVars
  <2>2. running'[w] = t /\ priority' = priority /\ queue_depth' = queue_depth
    BY <1>1, <1>2 DEF TypeOK, callVars, metrics
  <2>3. CASE priority[t] = p
    <3>1. Of(p, queue)' = Q \ {t} /\ t \in Q
      BY <1>1, <2>2, <2>3 DEF Of
    <3>2. Taking(p)' = {w}
      BY <1>7, <2>2, <2>3 DEF Taking
    <3>3. Cardinality(Q \ {t}) = Cardinality(Q) - 1
      BY <2>1, <3>1, CountRemove
    <3>4. Cardinality(Taking(p)) = 0 /\ Cardinality(Taking(p)') = 1
      BY <2>1, <3>2, FS_EmptySet, FS_Singleton
    <3>5. queue_depth[p] + Cardinality(Of(p, Counting)) = Cardinality(Q) + Cardinality(Taking(p))
      BY DEF MetricsAddUp
    <3> HIDE DEF IInv, Q
    <3>. QED  BY <2>1, <2>2, <3>1, <3>3, <3>4, <3>5
  <2>4. CASE priority[t] # p
    <3>1. Of(p, queue)' = Q
      BY <1>1, <2>2, <2>4 DEF Of
    <3>2. Taking(p)' = {}
      BY <1>7, <2>2, <2>4 DEF Taking
    <3>. QED  BY <2>1, <2>2, <3>1, <3>2 DEF MetricsAddUp
  <2>. QED  BY <2>3, <2>4
<1>10. MetricsAddUp'
  <2>1. /\ Cardinality(queue) \in Nat /\ Cardinality(BusyWorkers) \in Nat
        /\ tasks_completed \in Nat /\ tasks_failed \in Nat
    BY Finite DEF TypeOK
  <2>. QED  BY <1>2, <1>6, <1>7, <1>8, <1>9, <2>1 DEF MetricsAddUp, metrics
<1>11. LockHeld'
  BY <1>1, <1>2, <1>4, <1>7, PoolAssumption DEF LockHeld, TypeOK, WorkersAt
<1>. QED  BY <1>5, <1>10, <1>11

\* CountTaken: the task taken is one less of its priority.
LEMMA CountTakenIInv ==
    ASSUME IInv, NEW w \in Workers, CountTaken(w)
    PROVE  IInv'
<1> USE DEF IInv
<1>1. /\ pc[w] = "popped" /\ pc' = [pc EXCEPT ![w] = "taken"] /\ mutex' = None
      /\ queue_depth' = [queue_depth EXCEPT ![priority[running[w]]] = @ - 1]
      /\ UNCHANGED <<callVars, queue, running, dropVars,
                     tasks_submitted, tasks_completed, tasks_failed, active_workers>>
  BY DEF CountTaken, GoTo
<1>2. running[w] \in Tasks /\ priority[running[w]] \in Priorities
  BY <1>1 DEF TypeOK, Busy
<1>3. WorkersAt("popped") = {w} /\ Counting = {}
  <2>1. mutex = w /\ w \in WorkersAt("popped")
    BY <1>1 DEF LockHeld, WorkersAt
  <2>. QED  BY <2>1, OneHolder
<1>4. /\ WorkersAt("running")' = WorkersAt("running") /\ WorkersAt("popped")' = {}
      /\ CallsAt("pushed")' = CallsAt("pushed") /\ Counting' = {} /\ BusyWorkers' = BusyWorkers
  BY <1>1, <1>3 DEF WorkersAt, TypeOK, callVars, CallsAt, Counting, BusyWorkers, Busy
<1>5. ASSUME NEW p \in Priorities
      PROVE  /\ queue_depth'[p] + Cardinality(Of(p, Counting)') =
                  Cardinality(Of(p, queue)') + Cardinality(Taking(p)')
             /\ queue_depth'[p] \in Nat
  <2>1. /\ queue_depth[p] \in Nat /\ Cardinality(Of(p, queue)) \in Nat
        /\ Of(p, Counting) = {} /\ Of(p, Counting)' = {} /\ Taking(p)' = {}
        /\ Of(p, queue)' = Of(p, queue)
    BY <1>1, <1>3, <1>4, Finite DEF TypeOK, Of, Taking, callVars
  <2>2. queue_depth'[p] = IF p = priority[running[w]] THEN queue_depth[p] - 1 ELSE queue_depth[p]
    BY <1>1, <1>2 DEF TypeOK
  <2>3. Taking(p) = IF p = priority[running[w]] THEN {w} ELSE {}
    BY <1>3 DEF Taking
  <2>4. Cardinality(Of(p, Counting)) = 0 /\ Cardinality(Of(p, Counting)') = 0 /\ Cardinality(Taking(p)') = 0
    BY <2>1, FS_EmptySet
  <2>5. Cardinality(Taking(p)) = IF p = priority[running[w]] THEN 1 ELSE 0
    BY <2>3, FS_EmptySet, FS_Singleton
  <2>6. queue_depth[p] + Cardinality(Of(p, Counting)) = Cardinality(Of(p, queue)) + Cardinality(Taking(p))
    BY DEF MetricsAddUp
  <2>. QED  BY <2>1, <2>2, <2>4, <2>5, <2>6
<1>6. TypeOK'
  <2>1. queue_depth' \in [Priorities -> Nat]
    <3>1. queue_depth' = [p \in Priorities |-> queue_depth'[p]]
      BY <1>1 DEF TypeOK
    <3>. QED  BY <1>5, <3>1
  <2>. QED  BY <1>1, <2>1 DEF TypeOK, Places, Busy, CallsAt, Notifying, Counting, callVars, dropVars
<1>7. MetricsAddUp'
  BY <1>1, <1>4, <1>5 DEF MetricsAddUp
<1>8. LockHeld'
  BY <1>1, <1>3, <1>4, PoolAssumption DEF LockHeld, TypeOK, WorkersAt
<1>. QED  BY <1>6, <1>7, <1>8

\* Begin and Finish: the worker is one more, one less of the active ones.
LEMMA RunIInv ==
    ASSUME IInv, NEW w \in Workers, Begin(w) \/ Finish(w)
    PROVE  IInv'
<1> USE DEF IInv
<1>1. PICK place \in Busy \ {"popped"} :
        /\ \/ pc[w] = "taken" /\ place = "running" /\ active_workers' = active_workers + 1
           \/ pc[w] = "running" /\ place \in {"ok", "panicked"} /\ active_workers' = active_workers - 1
        /\ pc' = [pc EXCEPT ![w] = place]
        /\ UNCHANGED <<callVars, queue, mutex, running, dropVars,
                       tasks_submitted, tasks_completed, tasks_failed, queue_depth>>
  BY DEF Begin, Finish, GoTo, Busy
<1>2. \/ /\ pc[w] = "taken" /\ active_workers' = active_workers + 1
         /\ WorkersAt("running")' = WorkersAt("running") \cup {w} /\ w \notin WorkersAt("running")
      \/ /\ pc[w] = "running" /\ active_workers' = active_workers - 1
         /\ WorkersAt("running")' = WorkersAt("running") \ {w} /\ w \in WorkersAt("running")
  BY <1>1 DEF WorkersAt, TypeOK
<1>3. active_workers' = Cardinality(WorkersAt("running")') /\ active_workers' \in Nat
  <2>1. IsFiniteSet(WorkersAt("running")) /\ active_workers = Cardinality(WorkersAt("running"))
    BY Finite DEF MetricsAddUp
  <2>. QED  BY <1>2, <2>1, CountAdd, CountRemove DEF TypeOK
<1>4. TypeOK'
  BY <1>1, <1>3 DEF TypeOK, Places, Busy, CallsAt, Notifying, Counting, callVars, dropVars
<1>5. /\ BusyWorkers' = BusyWorkers /\ WorkersAt("popped")' = WorkersAt("popped")
      /\ CallsAt("pushed")' = CallsAt("pushed") /\ Counting' = Counting
  BY <1>1 DEF BusyWorkers, Busy, TypeOK, WorkersAt, callVars, CallsAt, Counting
<1>6. \A p \in Priorities : Of(p, queue)' = Of(p, queue) /\ Of(p, Counting)' = Of(p, Counting) /\ Taking(p)' = Taking(p)
  BY <1>1, <1>5 DEF Of, Taking, callVars
<1>7. MetricsAddUp'
  BY <1>1, <1>3, <1>5, <1>6 DEF MetricsAddUp
<1>8. LockHeld'
  BY <1>1, <1>5 DEF LockHeld, TypeOK, Busy
<1>. QED  BY <1>4, <1>7, <1>8

\* Count: a busy worker becomes a task completed or failed.
LEMMA CountIInv ==
    ASSUME IInv, NEW w \in Workers, Count(w)
    PROVE  IInv'
<1> USE DEF IInv
<1>1. /\ pc[w] \in {"ok", "panicked"}
      /\ pc' = [pc EXCEPT ![w] = "lock"]
      /\ running' = [running EXCEPT ![w] = None]
      /\ UNCHANGED <<callVars, queue, mutex, dropVars, tasks_submitted, active_workers, queue_depth>>
      /\ tasks_completed' \in Nat /\ tasks_failed' \in Nat
      /\ tasks_completed' + tasks_failed' = tasks_completed + tasks_failed + 1
  BY DEF Count, GoTo, TypeOK
<1>2. TypeOK'
  BY <1>1 DEF TypeOK, Places, Busy, CallsAt, Notifying, Counting, callVars, dropVars
<1>3. /\ WorkersAt("running")' = WorkersAt("running") /\ WorkersAt("popped")' = WorkersAt("popped")
      /\ CallsAt("pushed")' = CallsAt("pushed") /\ Counting' = Counting
      /\ \A v \in WorkersAt("popped") : running'[v] = running[v]
  BY <1>1 DEF WorkersAt, TypeOK, callVars, CallsAt, Counting
<1>4. Cardinality(BusyWorkers') = Cardinality(BusyWorkers) - 1
  <2>1. BusyWorkers' = BusyWorkers \ {w} /\ w \in BusyWorkers
    BY <1>1 DEF BusyWorkers, Busy, TypeOK
  <2>. QED  BY <2>1, CountRemove, Finite
<1>5. \A p \in Priorities : Of(p, queue)' = Of(p, queue) /\ Of(p, Counting)' = Of(p, Counting) /\ Taking(p)' = Taking(p)
  BY <1>1, <1>3 DEF Of, Taking, callVars
<1>6. MetricsAddUp'
  <2>1. /\ Cardinality(queue) \in Nat /\ Cardinality(BusyWorkers) \in Nat /\ Cardinality(CallsAt("pushed")) \in Nat
        /\ tasks_completed \in Nat /\ tasks_failed \in Nat /\ tasks_submitted \in Nat
    BY Finite DEF TypeOK
  <2>2. tasks_submitted + Cardinality(CallsAt("pushed")) =
          Cardinality(queue) + Cardinality(BusyWorkers) + tasks_completed + tasks_failed
    BY DEF MetricsAddUp
  <2>3. (tasks_submitted + Cardinality(CallsAt("pushed")) =
          Cardinality(queue) + Cardinality(BusyWorkers) + tasks_completed + tasks_failed)'
    <3>1. /\ tasks_submitted' = tasks_submitted /\ queue' = queue
          /\ CallsAt("pushed")' = CallsAt("pushed")
          /\ tasks_completed' \in Nat /\ tasks_failed' \in Nat
          /\ tasks_completed' + tasks_failed' = tasks_completed + tasks_failed + 1
      BY <1>1, <1>3
    <3>2. Cardinality(BusyWorkers') \in Nat
      <4>1. BusyWorkers' \subseteq Workers
        BY DEF BusyWorkers
      <4>. QED  BY <4>1, PoolAssumption, FS_Subset, FS_CardinalityType
    <3> DEFINE submitted == tasks_submitted
               pushed == Cardinality(CallsAt("pushed"))
               queued == Cardinality(queue)
               busy == Cardinality(BusyWorkers')
               completed == tasks_completed'
               failed == tasks_failed'
    <3>3. submitted + pushed = queued + (busy + 1) + tasks_completed + tasks_failed
      BY <1>4, <2>1, <2>2, <3>2
    <3>4. submitted + pushed = queued + busy + completed + failed
      <4> HIDE DEF submitted, pushed, queued, busy, completed, failed, IInv
      <4>1. /\ submitted \in Nat /\ pushed \in Nat /\ queued \in Nat /\ busy \in Nat
            /\ completed \in Nat /\ failed \in Nat
            /\ completed + failed = tasks_completed + tasks_failed + 1
        BY <2>1, <3>1, <3>2 DEF submitted, pushed, queued, busy, completed, failed
      <4>. QED  BY <2>1, <3>3, <4>1
    <3>. QED  BY <3>1, <3>4
  <2>. QED  BY <1>1, <1>3, <1>5, <2>3 DEF MetricsAddUp
<1>7. LockHeld'
  BY <1>1, <1>3 DEF LockHeld, TypeOK
<1>. QED  BY <1>2, <1>6, <1>7

\* The steps of drop().
LEMMA DropIInv ==
    ASSUME IInv, Drop
    PROVE  IInv'
<1> USE DEF IInv, Drop, DropStore, DropNotify, DropJoin, callVars, workerVars
<1>1. /\ UNCHANGED <<callVars, queue, mutex, running, metrics>>
      /\ pc' \in [Workers -> Places]
      /\ \A v \in Workers : pc'[v] = pc[v] \/ (pc[v] = "waiting" /\ pc'[v] = "lock")
  BY DEF TypeOK, Places
<1>2. TypeOK'
  BY <1>1 DEF TypeOK, Busy, CallsAt, Notifying, Counting, metrics
<1>3. /\ BusyWorkers' = BusyWorkers /\ WorkersAt("running")' = WorkersAt("running")
      /\ WorkersAt("popped")' = WorkersAt("popped")
      /\ CallsAt("pushed")' = CallsAt("pushed") /\ Counting' = Counting
  BY <1>1 DEF BusyWorkers, Busy, WorkersAt, CallsAt, Counting
<1>4. MetricsAddUp'
  BY <1>1, <1>3, SameSums
<1>5. LockHeld'
  BY <1>1, <1>3 DEF LockHeld
<1>. QED  BY <1>2, <1>4, <1>5

\* A step that changes nothing keeps the invariant.
LEMMA StutterIInv ==
    ASSUME IInv, UNCHANGED vars
    PROVE  IInv'
BY DEF IInv, vars, callVars, workerVars, dropVars, metrics, TypeOK, MetricsAddUp, LockHeld,
       CallsAt, WorkersAt, BusyWorkers, Counting, Notifying, Of, Taking

\* Every step keeps the invariant.
LEMMA NextIInv == IInv /\ [Next]_vars => IInv'
BY CallIInv, PushIInv, CountSubmittedIInv, CountDeeperIInv, IdleIInv, PopIInv, CountTakenIInv, RunIInv,
   CountIInv, DropIInv, StutterIInv DEF Next, Spawn, Work

\* The inductive invariant of the pool holds in every reachable state.
LEMMA Invariant == Spec => []IInv
BY InitIInv, NextIInv, PTL DEF Spec

\* No metric goes below zero and each worker has a task exactly while it is busy.
THEOREM TypeCorrect == Spec => []TypeOK
BY Invariant, PTL DEF IInv

\* The metrics add up at any moment.
THEOREM MetricsCorrect == Spec => []MetricsAddUp
BY Invariant, PTL DEF IInv

--------------------------------------------------------------------------------
(***************************************************************************)
(* No wakeup is lost between spawn() and the workers.                      *)
(***************************************************************************)
\* Every step keeps a notification, or a worker about to look, for each task.
LEMMA WakeupStep ==
    ASSUME IInv, WakeupPerTask, [Next]_vars
    PROVE  WakeupPerTask'
<1> USE DEF IInv
<1> DEFINE Sent == Notifying
           Looking == WorkersAt("lock")
           Asleep == WorkersAt("waiting")
<1>1. /\ IsFiniteSet(queue) /\ IsFiniteSet(Sent) /\ IsFiniteSet(Looking)
      /\ Cardinality(queue) \in Nat /\ Cardinality(Sent) \in Nat /\ Cardinality(Looking) \in Nat
  BY Finite
<1>2. /\ IsFiniteSet(queue') /\ IsFiniteSet(Sent') /\ IsFiniteSet(Looking')
      /\ Cardinality(queue') \in Nat /\ Cardinality(Sent') \in Nat /\ Cardinality(Looking') \in Nat
  <2>1. TypeOK'
    BY NextIInv
  <2>2. queue' \subseteq Tasks /\ Sent' \subseteq Tasks /\ Looking' \subseteq Workers
    BY <2>1 DEF TypeOK, CallsAt, WorkersAt, Notifying, Counting
  <2>. QED  BY <2>2, PoolAssumption, FS_Subset, FS_CardinalityType
<1>3. queue' = {} => WakeupPerTask'
  BY <1>2, FS_EmptySet DEF WakeupPerTask
<1>4. ASSUME UNCHANGED <<call, pc, queue>>
      PROVE  WakeupPerTask'
  BY <1>4 DEF WakeupPerTask, CallsAt, WorkersAt, Notifying, Counting
<1>5. ASSUME NEW t \in Tasks, TakeSequence(t)
      PROVE  WakeupPerTask'
  <2>1. Sent' = Sent
    BY <1>5 DEF TakeSequence, CallsAt, TypeOK, Notifying, Counting
  <2>. QED  BY <1>5, <2>1 DEF TakeSequence, workerVars, WakeupPerTask, WorkersAt
<1>6. ASSUME NEW t \in Tasks, Push(t)
      PROVE  WakeupPerTask'
  <2>1. Sent' = Sent \cup {t} /\ t \notin Sent
    BY <1>6 DEF Push, CallsAt, TypeOK, Notifying, Counting
  <2>2. queue' = queue \cup {t} /\ t \notin queue
    BY <1>6 DEF Push, CallsAt, TypeOK, Notifying, Counting
  <2>3. Asleep' = Asleep /\ Looking' = Looking
    BY <1>6 DEF Push, WorkersAt
  <2>4. Cardinality(Sent') = Cardinality(Sent) + 1 /\ Cardinality(queue') = Cardinality(queue) + 1
    BY <1>1, <2>1, <2>2, CountAdd
  <2>. QED  BY <1>1, <2>3, <2>4 DEF WakeupPerTask
<1>7. ASSUME NEW t \in Tasks, CountSubmitted(t) \/ CountDeeper(t)
       PROVE  WakeupPerTask'
  <2>1. Sent' = Sent
    BY <1>7 DEF CountSubmitted, CountDeeper, CallsAt, TypeOK, Notifying, Counting
  <2>. QED  BY <1>7, <2>1 DEF CountSubmitted, CountDeeper, workerVars, WakeupPerTask, WorkersAt
<1>8. ASSUME NEW t \in Tasks, Notify(t)
      PROVE  WakeupPerTask'
  <2>1. CASE Asleep = {}
    BY <1>8, <2>1 DEF Notify, WakeOne, WakeupPerTask, WorkersAt
  <2>2. CASE Asleep # {}
    <3>1. PICK w \in Workers : pc[w] = "waiting" /\ pc' = [pc EXCEPT ![w] = "lock"]
      BY <1>8, <2>2 DEF Notify, WakeOne, WorkersAt, GoTo
    <3>2. Looking' = Looking \cup {w} /\ w \notin Looking
      BY <3>1 DEF WorkersAt, TypeOK
    <3>3. Sent' = Sent \ {t} /\ t \in Sent /\ queue' = queue
      BY <1>8 DEF Notify, CallsAt, TypeOK, Notifying, Counting
    <3>4. /\ Cardinality(Looking') = Cardinality(Looking) + 1
          /\ Cardinality(Sent') = Cardinality(Sent) - 1
      BY <1>1, <3>2, <3>3, CountAdd, CountRemove
    <3>. QED  BY <1>1, <2>2, <3>3, <3>4 DEF WakeupPerTask
  <2>. QED  BY <2>1, <2>2
<1>9. ASSUME NEW w \in Workers, DecideToWait(w) \/ Wait(w) \/ Exit(w)
      PROVE  WakeupPerTask'
  <2>1. queue' = {}
    BY <1>9 DEF DecideToWait, Wait, Exit, LockHeld
  <2>. QED  BY <2>1, <1>3
<1>10. ASSUME NEW w \in Workers, Pop(w)
      PROVE  WakeupPerTask'
  <2>1. PICK t \in queue : queue' = queue \ {t}
    BY <1>10 DEF Pop
  <2>2. /\ Looking' = Looking \ {w} /\ w \in Looking
        /\ Asleep' = Asleep /\ Sent' = Sent
    BY <1>10 DEF Pop, GoTo, WorkersAt, CallsAt, TypeOK, callVars, Notifying, Counting
  <2>3. /\ Cardinality(queue') = Cardinality(queue) - 1
        /\ Cardinality(Looking') = Cardinality(Looking) - 1
    BY <1>1, <2>1, <2>2, CountRemove
  <2>. QED  BY <1>1, <2>2, <2>3 DEF WakeupPerTask
<1>11. ASSUME NEW w \in Workers, CountTaken(w) \/ Begin(w) \/ Finish(w)
       PROVE  WakeupPerTask'
  <2>1. Looking' = Looking /\ Asleep' = Asleep /\ Sent' = Sent /\ queue' = queue
    BY <1>11 DEF CountTaken, Begin, Finish, GoTo, WorkersAt, CallsAt, TypeOK, callVars, Notifying, Counting
  <2>. QED  BY <2>1 DEF WakeupPerTask
<1>12. ASSUME NEW w \in Workers, Count(w)
       PROVE  WakeupPerTask'
  <2>1. /\ Looking' = Looking \cup {w} /\ w \notin Looking
        /\ Asleep' = Asleep /\ Sent' = Sent /\ queue' = queue
    BY <1>12 DEF Count, GoTo, WorkersAt, CallsAt, TypeOK, callVars, Notifying, Counting
  <2>2. Cardinality(Looking') = Cardinality(Looking) + 1
    BY <1>1, <2>1, CountAdd
  <2>. QED  BY <1>1, <2>1, <2>2 DEF WakeupPerTask
<1>13. ASSUME DropNotify
       PROVE  WakeupPerTask'
  <2>1. Asleep' = {}
    BY <1>13 DEF DropNotify, WorkersAt, TypeOK
  <2>. QED  BY <2>1 DEF WakeupPerTask
<1>14. ASSUME DropStore \/ DropJoin \/ UNCHANGED vars
       PROVE  WakeupPerTask'
  BY <1>14, <1>4 DEF DropStore, DropJoin, vars, callVars, workerVars
<1>. QED
  BY <1>5, <1>6, <1>7, <1>8, <1>9, <1>10, <1>11, <1>12, <1>13, <1>14 DEF Next, Spawn, Work, Drop

\* While a worker sleeps, each queued task has a notification on its way or a
\* worker about to look: notify_one outside the lock loses no wakeup.
THEOREM NoLostWakeup == Spec => []WakeupPerTask
<1>1. Init => WakeupPerTask
  BY FS_EmptySet DEF Init, WakeupPerTask, WorkersAt
<1>2. IInv /\ WakeupPerTask /\ [Next]_vars => WakeupPerTask'
  BY WakeupStep
<1>. QED  BY <1>1, <1>2, Invariant, PTL DEF Spec

--------------------------------------------------------------------------------
(***************************************************************************)
(* Dropping the pool costs no task.                                        *)
(***************************************************************************)
\* drop() has the pool to itself, and workers leave only after it began.
DropAlone ==
    /\ shutdown <=> dropping # "no"
    /\ dropping # "no" => \A t \in Tasks : call[t] \in {"new", "returned"}
    /\ \A w \in Workers : pc[w] = "exited" => shutdown /\ queue = {}

\* Every step keeps a drop alone: no spawn begins beside it.
LEMMA DropAloneStep == IInv /\ DropAlone /\ [Next]_vars => DropAlone'
<1> SUFFICES ASSUME IInv, DropAlone, [Next]_vars PROVE DropAlone'
  OBVIOUS
<1> USE DEF IInv, DropAlone, TypeOK
<1>1. ASSUME NEW t \in Tasks, TakeSequence(t) \/ Push(t) \/ CountSubmitted(t) \/ CountDeeper(t)
      PROVE  DropAlone'
  BY <1>1 DEF TakeSequence, Push, CountSubmitted, CountDeeper, workerVars, dropVars
<1>2. ASSUME NEW t \in Tasks, Notify(t)
      PROVE  DropAlone'
  <2>1. \A w \in Workers : pc'[w] = pc[w] \/ pc'[w] = "lock"
    BY <1>2 DEF Notify, WakeOne, GoTo, WorkersAt
  <2>. QED  BY <1>2, <2>1 DEF Notify, dropVars
<1>3. ASSUME NEW w \in Workers, Work(w)
      PROVE  DropAlone'
  <2>1. CASE Pop(w)
    BY <2>1 DEF Pop, GoTo, callVars, dropVars
  <2>2. CASE ~Pop(w)
    BY <1>3, <2>2 DEF Work, DecideToWait, Wait, Exit, CountTaken, Begin, Finish, Count, GoTo, callVars, dropVars
  <2>. QED  BY <2>1, <2>2
<1>4. ASSUME Drop
      PROVE  DropAlone'
  BY <1>4 DEF Drop, DropStore, DropNotify, DropJoin, CallsAt, Calls, Notifying, Counting, callVars, workerVars
<1>5. ASSUME UNCHANGED vars
      PROVE  DropAlone'
  BY <1>5 DEF vars, callVars, workerVars, dropVars
<1>. QED  BY <1>1, <1>2, <1>3, <1>4, <1>5 DEF Next, Spawn

\* A worker that has left has left nothing in the heap, now or later.
THEOREM DropLosesNothing == Spec => []NoTaskLeftBehind
<1>1. Init => DropAlone
  BY DEF Init, DropAlone
<1>2. DropAlone => NoTaskLeftBehind
  BY DEF DropAlone, NoTaskLeftBehind, WorkersAt, CallsAt, Notifying, Counting
<1>. QED  BY <1>1, <1>2, DropAloneStep, Invariant, PTL DEF Spec

--------------------------------------------------------------------------------
(***************************************************************************)
(* ComputePool implements TaskService.                                     *)
(***************************************************************************)
\* A task with a worker is out of the heap and with that worker only.
OneWorker ==
    /\ \A w \in Workers : running[w] # None =>
         running[w] \in (CallsAt("notify") \cup CallsAt("returned")) \ queue
    /\ \A v, w \in Workers : running[v] = running[w] /\ running[v] # None => v = w

\* Sequence numbers agree with the order of the calls: a spawn() that returned
\* before another began has the smaller one.
TicketsInOrder ==
    /\ \A t \in Tasks : call[t] # "new" => ticket[t] < sequence
    /\ \A t \in Tasks : \A u \in earlier[t] : call[u] = "returned" /\ ticket[u] < ticket[t]

RInv == IInv /\ OneWorker /\ TicketsInOrder

\* The pool starts in the invariant of the refinement.
LEMMA InitRInv == Init => RInv
BY InitIInv DEF RInv, OneWorker, TicketsInOrder, Init

\* Every step keeps the invariant of the refinement.
LEMMA NextRInv == RInv /\ [Next]_vars => RInv'
<1> SUFFICES ASSUME RInv, [Next]_vars PROVE RInv'
  OBVIOUS
<1>1. IInv /\ IInv' /\ TypeOK /\ TypeOK'
  BY NextIInv DEF RInv, IInv
<1> USE <1>1 DEF RInv, OneWorker, TicketsInOrder, TypeOK
<1>2. ASSUME NEW t \in Tasks, TakeSequence(t)
      PROVE  OneWorker' /\ TicketsInOrder'
  BY <1>2 DEF TakeSequence, workerVars, CallsAt
<1>3. ASSUME NEW t \in Tasks, Push(t) \/ CountSubmitted(t) \/ CountDeeper(t)
      PROVE  OneWorker' /\ TicketsInOrder'
  BY <1>3, SMTT(60) DEF Push, CountSubmitted, CountDeeper, workerVars, CallsAt, Notifying, Counting
<1>4. ASSUME NEW t \in Tasks, Notify(t)
      PROVE  OneWorker' /\ TicketsInOrder'
  BY <1>4 DEF Notify, CallsAt
<1>5. ASSUME NEW w \in Workers, Pop(w)
      PROVE  OneWorker' /\ TicketsInOrder'
  <2>1. Counting = {}
    BY <1>5, OneHolder DEF Pop
  <2>. QED  BY <1>5, <2>1 DEF Pop, callVars, CallsAt, Notifying
<1>6. ASSUME NEW w \in Workers, Work(w), ~Pop(w)
      PROVE  OneWorker' /\ TicketsInOrder'
  <2>1. /\ UNCHANGED <<callVars, queue>>
        /\ running' = running \/ running' = [running EXCEPT ![w] = None]
    BY <1>6 DEF Work, DecideToWait, Wait, Exit, CountTaken, Begin, Finish, Count
  <2>. QED  BY <2>1 DEF callVars, CallsAt
<1>7. ASSUME Drop \/ UNCHANGED vars
      PROVE  OneWorker' /\ TicketsInOrder'
  BY <1>7 DEF Drop, DropStore, DropNotify, DropJoin, vars, callVars, workerVars, CallsAt
<1>. QED  BY <1>2, <1>3, <1>4, <1>5, <1>6, <1>7 DEF Next, Spawn

\* A step that changes nothing of a task keeps its phase.
LEMMA SamePhase ==
    ASSUME NEW t \in Tasks, call'[t] = call[t], (t \in queue') <=> (t \in queue),
           HasWorker(t)' <=> HasWorker(t)
    PROVE  PhaseOf(t)' = PhaseOf(t)
BY DEF PhaseOf

\* The state function the refinement maps phase to.
Phase == [t \in Tasks |-> PhaseOf(t)]

\* A step that changes the phase of one task.
LEMMA PhaseUpdate ==
    ASSUME NEW t \in Tasks, NEW x, PhaseOf(t)' = x,
           \A u \in Tasks \ {t} : PhaseOf(u)' = PhaseOf(u)
    PROVE  Phase' = [Phase EXCEPT ![t] = x]
BY DEF Phase

\* A spawn that begins is a call of the service.
LEMMA CallRefines ==
    ASSUME RInv, NEW t \in Tasks, TakeSequence(t)
    PROVE  Service!Call(t)
<1> USE DEF TakeSequence, workerVars, TypeOK, CallsAt, Notifying, Counting, RInv, IInv, OneWorker, HasWorker
<1>1. PhaseOf(t) = "new"
  BY PoolAssumption DEF PhaseOf
<1>2. PhaseOf(t)' = "called"
  BY PoolAssumption DEF PhaseOf
<1>3. \A u \in Tasks \ {t} : PhaseOf(u)' = PhaseOf(u)
  BY SamePhase
<1>4. Phase' = [Phase EXCEPT ![t] = "called"]
  BY <1>2, <1>3, PhaseUpdate
<1>5. CallsAt("returned")' = CallsAt("returned")
  OBVIOUS
<1>. QED  BY <1>1, <1>4, <1>5 DEF Service!Call, Service!Becomes, Phase

\* A push under the lock is the enqueuing of the service.
LEMMA EnqueueRefines ==
    ASSUME RInv, NEW t \in Tasks, Push(t)
    PROVE  Service!Enqueue(t)
<1> USE DEF Push, TypeOK, CallsAt, Notifying, Counting, RInv, IInv, OneWorker, HasWorker
<1>1. PhaseOf(t) = "called"
  BY PoolAssumption DEF PhaseOf
<1>2. PhaseOf(t)' = "queued"
  BY DEF PhaseOf
<1>3. \A u \in Tasks \ {t} : PhaseOf(u)' = PhaseOf(u)
  BY SamePhase
<1>4. Phase' = [Phase EXCEPT ![t] = "queued"]
  BY <1>2, <1>3, PhaseUpdate
<1>5. CallsAt("returned")' = CallsAt("returned")
  OBVIOUS
<1>. QED  BY <1>1, <1>4, <1>5 DEF Service!Enqueue, Service!Becomes, Phase

\* The counting of a task queued is no step of the service.
LEMMA CountingRefines ==
    ASSUME RInv, NEW t \in Tasks, CountSubmitted(t) \/ CountDeeper(t)
    PROVE  UNCHANGED Service!vars
<1> USE DEF CountSubmitted, CountDeeper, workerVars, RInv, IInv, TypeOK
<1>1. /\ t \in queue /\ queue' = queue
      /\ running' = running /\ UNCHANGED <<priority, earlier>>
  BY DEF LockHeld, Counting, CallsAt
<1>2. PhaseOf(t)' = PhaseOf(t)
  BY <1>1 DEF PhaseOf
<1>3. ASSUME NEW u \in Tasks \ {t}
      PROVE  PhaseOf(u)' = PhaseOf(u)
  <2>1. call'[u] = call[u] /\ (HasWorker(u)' <=> HasWorker(u))
    BY <1>1 DEF HasWorker
  <2>. QED  BY <1>1, <2>1, SamePhase
<1>4. Phase' = Phase
  BY <1>2, <1>3 DEF Phase
<1>5. CallsAt("returned")' = CallsAt("returned")
  BY DEF CallsAt
<1>. QED  BY <1>1, <1>4, <1>5 DEF Service!vars, Phase

\* A spawn that notifies and returns is the return of the service's call.
LEMMA ReturnRefines ==
    ASSUME RInv, NEW t \in Tasks, Notify(t)
    PROVE  Service!Return(t)
<1> USE DEF Notify, TypeOK, CallsAt, RInv, IInv, HasWorker
<1>1. PhaseOf(t) \in {"queued", "running", "done"}
  BY DEF PhaseOf
<1>2. \A u \in Tasks \ {t} : PhaseOf(u)' = PhaseOf(u)
  BY SamePhase
<1>3. PhaseOf(t)' = PhaseOf(t)
  BY DEF PhaseOf
<1>4. Phase' = Phase
  BY <1>2, <1>3 DEF Phase
<1>5. CallsAt("returned")' = CallsAt("returned") \cup {t} /\ t \notin CallsAt("returned")
  OBVIOUS
<1>. QED  BY <1>1, <1>4, <1>5 DEF Service!Return, Phase

\* A worker that takes a task starts it at the service.
LEMMA StartRefines ==
    ASSUME RInv, NEW w \in Workers, Pop(w)
    PROVE  \E t \in Tasks : Service!Start(t)
<1> USE DEF RInv, IInv
<1>1. PICK t \in queue : IsNext(t) /\ queue' = queue \ {t} /\ running' = [running EXCEPT ![w] = t]
  BY DEF Pop
<1>2. UNCHANGED callVars /\ running[w] = None /\ t \in Tasks /\ t # None
  BY PoolAssumption DEF Pop, TypeOK, CallsAt, Busy, Notifying, Counting
<1>3. Service!MayStart(t)
  <2>1. ASSUME NEW u \in queue
        PROVE  priority[u] <= priority[t] /\ (priority[u] = priority[t] => u \notin earlier[t])
    <3>1. u \in Tasks /\ priority[u] \in Nat /\ priority[t] \in Nat
      BY <1>2, PoolAssumption DEF TypeOK, CallsAt, Notifying, Counting
    <3>2. u # t => Outranks(t, u)
      BY <1>1 DEF IsNext
    <3>3. u \in earlier[t] => ticket[u] < ticket[t]
      BY <1>2 DEF TicketsInOrder
    <3>4. ticket[u] \in Nat /\ ticket[t] \in Nat
      BY <1>2, <3>1 DEF TypeOK
    <3>. QED  BY <3>1, <3>2, <3>3, <3>4 DEF Outranks
  <2>2. \A u \in Tasks : Phase[u] = "queued" <=> u \in queue
    BY DEF Phase, PhaseOf
  <2>. QED  BY <1>2, <2>1, <2>2 DEF Service!MayStart, Service!Queued, Phase
<1>4. \A u \in Tasks : HasWorker(u)' <=> u = t \/ HasWorker(u)
  <2>1. \A v \in Workers : running'[v] = IF v = w THEN t ELSE running[v]
    BY <1>1 DEF TypeOK
  <2>. QED  BY <1>2, <2>1, PoolAssumption DEF HasWorker
<1>5. PhaseOf(t)' = "running"
  BY <1>1, <1>2, <1>4 DEF PhaseOf
<1>6. \A u \in Tasks \ {t} : PhaseOf(u)' = PhaseOf(u)
  BY <1>1, <1>2, <1>4, SamePhase DEF callVars
<1>7. Phase' = [Phase EXCEPT ![t] = "running"]
  BY <1>2, <1>5, <1>6, PhaseUpdate
<1>8. UNCHANGED <<priority, CallsAt("returned"), earlier>>
  BY <1>2 DEF callVars, CallsAt
<1>. QED  BY <1>2, <1>3, <1>7, <1>8 DEF Service!Start, Service!Becomes, Phase

\* A worker that counts the task it ran ends it at the service.
LEMMA EndRefines ==
    ASSUME RInv, NEW w \in Workers, Count(w)
    PROVE  \E t \in Tasks : Service!End(t)
<1> USE DEF RInv, IInv
<1>1. PICK t \in Tasks : t = running[w] /\ t \notin queue /\ call[t] \in {"notify", "returned"}
  BY DEF Count, Busy, OneWorker, TypeOK, CallsAt
<1>2. UNCHANGED <<callVars, queue>> /\ running' = [running EXCEPT ![w] = None]
  BY DEF Count
<1>3. HasWorker(t)
  BY <1>1 DEF HasWorker
<1>4. \A u \in Tasks : HasWorker(u)' <=> u # t /\ HasWorker(u)
  <2>1. \A v \in Workers : running'[v] = IF v = w THEN None ELSE running[v]
    BY <1>2 DEF TypeOK
  <2>2. \A v \in Workers : v # w => running[v] # t
    BY <1>1, PoolAssumption DEF OneWorker
  <2>. QED  BY <1>1, <2>1, <2>2, PoolAssumption DEF HasWorker
<1>5. Phase[t] = "running"
  BY <1>1, <1>3 DEF Phase, PhaseOf
<1>6. PhaseOf(t)' = "done"
  <2>1. call'[t] \in {"notify", "returned"} /\ t \notin queue' /\ ~HasWorker(t)'
    BY <1>1, <1>2, <1>4 DEF callVars
  <2>. QED  BY <2>1 DEF PhaseOf
<1>7. \A u \in Tasks \ {t} : PhaseOf(u)' = PhaseOf(u)
  BY <1>2, <1>4, SamePhase DEF callVars
<1>8. Phase' = [Phase EXCEPT ![t] = "done"]
  BY <1>1, <1>6, <1>7, PhaseUpdate
<1>9. UNCHANGED <<priority, CallsAt("returned"), earlier>>
  BY <1>2 DEF callVars, CallsAt
<1>. QED  BY <1>1, <1>5, <1>8, <1>9 DEF Service!End, Service!Becomes, Phase

\* Every step of the pool is a step of the service or leaves it as it was.
LEMMA StepRefines == RInv /\ [Next]_vars => [Service!Next]_(Service!vars)
<1> SUFFICES ASSUME RInv, [Next]_vars PROVE [Service!Next]_(Service!vars)
  OBVIOUS
<1>1. ASSUME UNCHANGED <<callVars, queue, running>>
      PROVE  UNCHANGED Service!vars
  <2>1. \A t \in Tasks : PhaseOf(t)' = PhaseOf(t)
    BY <1>1 DEF PhaseOf, HasWorker, callVars
  <2>. QED  BY <1>1, <2>1 DEF Service!vars, callVars, CallsAt
<1>2. ASSUME NEW w \in Workers, DecideToWait(w) \/ Wait(w) \/ Exit(w) \/ CountTaken(w) \/ Begin(w) \/ Finish(w)
      PROVE  UNCHANGED <<callVars, queue, running>>
  BY <1>2 DEF DecideToWait, Wait, Exit, CountTaken, Begin, Finish
<1>3. ASSUME Drop \/ UNCHANGED vars
      PROVE  UNCHANGED <<callVars, queue, running>>
  BY <1>3 DEF Drop, DropStore, DropNotify, DropJoin, vars, workerVars
<1>. QED
  BY <1>1, <1>2, <1>3, CallRefines, EnqueueRefines, CountingRefines, ReturnRefines, StartRefines, EndRefines
     DEF Next, Spawn, Work, Service!Next

\* The pool runs each task at most once, highest priority first, and in the
\* order of the spawn() calls within a priority.
THEOREM Refinement == Spec => ImplementsService
<1>1. Init => Service!Init
  <2>1. ASSUME Init PROVE \A t \in Tasks : PhaseOf(t) = "new"
    <3>1. \A t \in Tasks : ~HasWorker(t)
      BY <2>1, PoolAssumption DEF Init, HasWorker
    <3>. QED  BY <2>1, <3>1 DEF Init, PhaseOf
  <2>. QED  BY <2>1 DEF Init, Service!Init, CallsAt
<1>. QED
  BY <1>1, InitRInv, NextRInv, StepRefines, PTL DEF Spec, ImplementsService, Service!Spec

================================================================================
