------------------------------ MODULE TaskService ------------------------------
(***************************************************************************)
(* What ComputeThreadPool promises its callers, without threads, locks or  *)
(* a heap: every task is run at most once, and a task is started only when *)
(* no waiting task has a higher priority, and none of the same priority    *)
(* was submitted by a spawn() that returned before its own spawn() began.  *)
(***************************************************************************)
EXTENDS Integers

CONSTANTS Tasks, Priorities

VARIABLES phase,      \* what has become of each task
          priority,   \* the priority its caller gave it
          returned,   \* the tasks whose spawn() has returned
          earlier     \* for each task, returned when its spawn() began

vars == <<phase, priority, returned, earlier>>

Phases == {"new", "called", "queued", "running", "done"}
Queued == {t \in Tasks : phase[t] = "queued"}

Init ==
    /\ phase = [t \in Tasks |-> "new"]
    /\ priority \in [Tasks -> Priorities]
    /\ returned = {}
    /\ earlier = [t \in Tasks |-> {}]

Becomes(t, next) == phase' = [phase EXCEPT ![t] = next]

Call(t) ==
    /\ phase[t] = "new"
    /\ Becomes(t, "called")
    /\ earlier' = [earlier EXCEPT ![t] = returned]
    /\ UNCHANGED <<priority, returned>>

Enqueue(t) ==
    /\ phase[t] = "called"
    /\ Becomes(t, "queued")
    /\ UNCHANGED <<priority, returned, earlier>>

\* spawn() may return after its task has started, or is done.
Return(t) ==
    /\ phase[t] \in {"queued", "running", "done"}
    /\ t \notin returned
    /\ returned' = returned \cup {t}
    /\ UNCHANGED <<phase, priority, earlier>>

MayStart(t) ==
    /\ t \in Queued
    /\ \A u \in Queued : /\ priority[u] <= priority[t]
                         /\ priority[u] = priority[t] => u \notin earlier[t]

Start(t) ==
    /\ MayStart(t)
    /\ Becomes(t, "running")
    /\ UNCHANGED <<priority, returned, earlier>>

End(t) ==
    /\ phase[t] = "running"
    /\ Becomes(t, "done")
    /\ UNCHANGED <<priority, returned, earlier>>

Next == \E t \in Tasks : Call(t) \/ Enqueue(t) \/ Return(t) \/ Start(t) \/ End(t)

Spec == Init /\ [][Next]_vars

================================================================================
