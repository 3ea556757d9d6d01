--------------------------------- MODULE IoPool ---------------------------------
(***************************************************************************)
(* ThreadPool of mill-io/src/thread_pool.rs: one channel and one thread    *)
(* per worker, tasks handed out in turn, and a drop() that sends every     *)
(* worker a Terminate and joins them in order.                             *)
(*                                                                         *)
(* What a task does is left to the module that extends this one: a worker  *)
(* that took a task is "busy" until that module says FinishTask or Die.    *)
(* The counter of exec() is kept as the index it yields.                   *)
(***************************************************************************)
EXTENDS Integers, Sequences

CONSTANTS NumWorkers,   \* ThreadPool::new's capacity
          Terminate     \* WorkerMessage::Terminate

\* exec() divides by the number of workers.
ASSUME PoolAssumption == NumWorkers \in Nat \ {0}

VARIABLES
    channels,      \* the messages in each worker's channel
    at,            \* what each worker is doing: "recv", "busy", "exited" or "dead"
    next_worker,   \* the worker the next exec() goes to
    dropping,      \* drop(): "no", "joining" or "panicked"
    joined         \* the number of workers drop() has joined

poolVars == <<channels, at, next_worker, dropping, joined>>

Workers == 0 .. NumWorkers - 1

PoolInit ==
    /\ channels = [w \in Workers |-> <<>>]
    /\ at = [w \in Workers |-> "recv"]
    /\ next_worker = 0
    /\ dropping = "no"
    /\ joined = 0

--------------------------------------------------------------------------------
(***************************************************************************)
(* exec: round robin.  A channel whose worker has died refuses the send,   *)
(* after the counter has moved on.                                         *)
(***************************************************************************)
\* A counter that is taken as an index (a mutant).
NextWorkerUnwrapped == next_worker + 1

NextWorker == (next_worker + 1) % NumWorkers

TargetDead == at[next_worker] = "dead"

Exec(task) ==
    /\ dropping = "no"
    /\ ~TargetDead
    /\ channels' = [channels EXCEPT ![next_worker] = Append(@, task)]
    /\ next_worker' = NextWorker
    /\ UNCHANGED <<at, dropping, joined>>

ExecFails ==
    /\ dropping = "no"
    /\ TargetDead
    /\ next_worker' = NextWorker
    /\ UNCHANGED <<channels, at, dropping, joined>>

--------------------------------------------------------------------------------
(***************************************************************************)
(* The loop of a worker.  A task that panics unwinds the thread: the       *)
(* receiver goes, and with it the messages behind the task.                *)
(***************************************************************************)
\* A worker that empties its channel and runs the first task (a mutant).
ReceiveTaskDraining(w) ==
    /\ at[w] = "recv"
    /\ channels[w] # <<>>
    /\ Head(channels[w]) # Terminate
    /\ at' = [at EXCEPT ![w] = "busy"]
    /\ channels' = [channels EXCEPT ![w] = <<>>]
    /\ UNCHANGED <<next_worker, dropping, joined>>

\* A worker that waits for one message more (a mutant).
ReceiveTaskBehind(w) ==
    /\ at[w] = "recv"
    /\ Len(channels[w]) > 1
    /\ Head(channels[w]) # Terminate
    /\ at' = [at EXCEPT ![w] = "busy"]
    /\ channels' = [channels EXCEPT ![w] = Tail(@)]
    /\ UNCHANGED <<next_worker, dropping, joined>>

ReceiveTask(w) ==
    /\ at[w] = "recv"
    /\ channels[w] # <<>>
    /\ Head(channels[w]) # Terminate
    /\ at' = [at EXCEPT ![w] = "busy"]
    /\ channels' = [channels EXCEPT ![w] = Tail(@)]
    /\ UNCHANGED <<next_worker, dropping, joined>>

ReceiveTerminate(w) ==
    /\ at[w] = "recv"
    /\ channels[w] # <<>>
    /\ Head(channels[w]) = Terminate
    /\ at' = [at EXCEPT ![w] = "exited"]
    /\ channels' = [channels EXCEPT ![w] = Tail(@)]
    /\ UNCHANGED <<next_worker, dropping, joined>>

FinishTask(w) ==
    /\ at[w] = "busy"
    /\ at' = [at EXCEPT ![w] = "recv"]
    /\ UNCHANGED <<channels, next_worker, dropping, joined>>

Die(w) ==
    /\ at[w] = "busy"
    /\ at' = [at EXCEPT ![w] = "dead"]
    /\ channels' = [channels EXCEPT ![w] = <<>>]
    /\ UNCHANGED <<next_worker, dropping, joined>>

--------------------------------------------------------------------------------
(***************************************************************************)
(* drop.  Joining a worker that panicked panics in its turn.               *)
(***************************************************************************)
\* A Terminate that overtakes the tasks (a mutant).
WithTerminateFirst(w) == IF at[w] = "dead" THEN <<>> ELSE <<Terminate>> \o channels[w]

\* A Terminate that a busy worker does not get (a mutant).
WithTerminateIfIdle(w) == IF at[w] = "recv" THEN Append(channels[w], Terminate) ELSE channels[w]

\* A send to a dead worker fails, which drop() ignores.
WithTerminate(w) == IF at[w] = "dead" THEN <<>> ELSE Append(channels[w], Terminate)

SendTerminate ==
    /\ dropping = "no"
    /\ dropping' = "joining"
    /\ channels' = [w \in Workers |-> WithTerminate(w)]
    /\ UNCHANGED <<at, next_worker, joined>>

Join ==
    /\ dropping = "joining"
    /\ joined < NumWorkers
    /\ \/ /\ at[joined] = "exited"
          /\ joined' = joined + 1
          /\ dropping' = dropping
       \/ /\ at[joined] = "dead"
          /\ dropping' = "panicked"
          /\ joined' = joined
    /\ UNCHANGED <<channels, at, next_worker>>

--------------------------------------------------------------------------------
\* A worker leaves only after every task sent to it: drop() sends Terminate
\* behind them (thread_pool.rs l.79-86).
AcceptedTasksRun == \A w \in Workers : at[w] = "exited" => channels[w] = <<>>

\* drop() returns, unless a worker has died, which makes it panic (l.82-86).
PoolDropEnds == dropping = "joining" ~> (joined = NumWorkers \/ dropping = "panicked")
================================================================================
