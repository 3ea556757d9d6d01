------------------------------- MODULE ReactorProofs -----------------------------
(***************************************************************************)
(* Proofs about Reactor and its parts: its types, that the I/O pool drops  *)
(* no task that it has accepted, that a stop and a timer wake the poll,    *)
(* and that what a registered source is ready for is not forgotten, for    *)
(* any number of sources, workers and callers, any options, and timers of  *)
(* any delay.                                                              *)
(***************************************************************************)
EXTENDS Reactor, FiniteSetTheorems, NaturalsInduction, WellFoundedInduction, SequenceTheorems, TLAPS

--------------------------------------------------------------------------------
(***************************************************************************)
(* What the loop does to its parts.                                        *)
(***************************************************************************)
PoolMoves ==
    \/ UNCHANGED poolVars
    \/ \E ev \in ToSet(batch) : Exec(ev)
    \/ ExecFails
    \/ \E w \in Workers : ReceiveTask(w) \/ ReceiveTerminate(w) \/ FinishTask(w) \/ Die(w)
    \/ SendTerminate
    \/ Join

\* Every step of the event loop is a step of its pool, or leaves the pool alone.
LEMMA NextPoolMoves == TypeOK /\ [Next]_vars => PoolMoves
<1> SUFFICES ASSUME TypeOK, [Next]_vars PROVE PoolMoves
  OBVIOUS
<1>1. CASE RunStep
  <2>1. DispatchToPool => PoolMoves
    <3>1. ASSUME batch \in Seq(Events), batch # <<>> PROVE Head(batch) \in ToSet(batch)
      BY <3>1 DEF ToSet
    <3>. QED  BY <3>1 DEF DispatchToPool, PoolMoves, TypeOK
  <2>. QED
    BY <1>1, <2>1 DEF RunStep, Start, CheckRunning, AskTimeout, PollReturns, DispatchFails, DispatchDirectly,
                      EndDispatch, Tick, PoolMoves
<1>2. ASSUME NEW w \in Workers, WorkerStep(w) PROVE PoolMoves
  BY <1>2 DEF WorkerStep, Take, Leave, HandlerPanics, PoolMoves
<1>3. ASSUME NEW t \in Threads, ThreadStep(t) PROVE PoolMoves
  BY <1>3 DEF ThreadStep, Lookup, CallHandler, HandlerReturns, Done, PoolMoves
<1>4. ASSUME NEW c \in Callers, Stop(c) \/ Wake(c) \/ \E delay \in Delays : Schedule(c, delay)
      PROVE  PoolMoves
  BY <1>4 DEF Stop, Wake, Schedule, PoolMoves
<1>5. ASSUME NEW s \in Sources,
             Register(s) \/ ChangeRegistry(s) \/ \E kind \in Kinds : BecomeReady(s, kind)
      PROVE  PoolMoves
  BY <1>5 DEF Register, ChangeRegistry, BecomeReady, PoolMoves
<1>6. CASE CallRun \/ PollFails \/ HandlerPanicsInLoop \/ Drop \/ JoinWorker \/ AdvanceClock
  BY <1>6 DEF CallRun, PollFails, HandlerPanicsInLoop, Drop, JoinWorker, AdvanceClock, PoolMoves
<1>7. CASE UNCHANGED vars
  BY <1>7 DEF vars, PoolMoves
<1>. QED  BY <1>1, <1>2, <1>3, <1>4, <1>5, <1>6, <1>7 DEF Next

RegistryMoves ==
    \/ UNCHANGED registryVars
    \/ \E s \in Sources : \/ RegisterSource(s) \/ InsertHandler(s)
                          \/ DeregisterSource(s) \/ RemoveHandler(s)
                          \/ \E kind \in Kinds : Arrive(s, kind)
    \/ edge' = [edge EXCEPT ![Waker] = {"readable"}] /\ UNCHANGED <<owner, work, registry>>
    \/ \E reported \in SUBSET Ready : edge' = Reported(reported) /\ UNCHANGED <<owner, work, registry>>
    \/ \E t \in Threads : /\ work' = [work EXCEPT ![job[t].handler] = @ \ job[t].event.ready]
                          /\ UNCHANGED <<owner, edge, registry>>

\* Every step of the event loop is one of these steps of the poll handle.
LEMMA NextRegistryMoves == [Next]_vars => RegistryMoves
<1> SUFFICES ASSUME [Next]_vars PROVE RegistryMoves
  OBVIOUS
<1>1. CASE RunStep
  <2>1. PollReturns => RegistryMoves
    BY DEF PollReturns, RegistryMoves, kSubset
  <2>. QED
    BY <1>1, <2>1 DEF RunStep, Start, CheckRunning, AskTimeout, DispatchToPool, DispatchFails,
                      DispatchDirectly, EndDispatch, Tick, RegistryMoves
<1>2. ASSUME NEW w \in Workers, WorkerStep(w) PROVE RegistryMoves
  BY <1>2 DEF WorkerStep, Take, Leave, HandlerPanics, RegistryMoves
<1>3. ASSUME NEW t \in Threads, ThreadStep(t) PROVE RegistryMoves
  BY <1>3 DEF ThreadStep, Lookup, CallHandler, HandlerReturns, RegistryMoves
<1>4. ASSUME NEW c \in Callers, Stop(c) \/ Wake(c) \/ \E delay \in Delays : Schedule(c, delay)
      PROVE  RegistryMoves
  BY <1>4 DEF Stop, Wake, Schedule, RegistryMoves
<1>5. ASSUME NEW s \in Sources,
             Register(s) \/ ChangeRegistry(s) \/ \E kind \in Kinds : BecomeReady(s, kind)
      PROVE  RegistryMoves
  BY <1>5 DEF Register, ChangeRegistry, BecomeReady, RegistryMoves
<1>6. CASE CallRun \/ PollFails \/ HandlerPanicsInLoop \/ Drop \/ JoinWorker \/ AdvanceClock
  BY <1>6 DEF CallRun, PollFails, HandlerPanicsInLoop, Drop, JoinWorker, AdvanceClock, RegistryMoves
<1>7. CASE UNCHANGED vars
  BY <1>7 DEF vars, RegistryMoves
<1>. QED  BY <1>1, <1>2, <1>3, <1>4, <1>5, <1>6, <1>7 DEF Next

--------------------------------------------------------------------------------
(***************************************************************************)
(* Sequences of messages and of events.                                    *)
(***************************************************************************)
\* The first message, and the others.
LEMMA HeadAndTail ==
    ASSUME NEW S, NEW q \in Seq(S), q # <<>>
    PROVE  /\ Head(q) \in S /\ Tail(q) \in Seq(S)
           /\ ToSet(q) = {Head(q)} \cup ToSet(Tail(q))
<1>1. Len(q) \in Nat \ {0} /\ DOMAIN q = 1 .. Len(q) /\ \A i \in 1 .. Len(q) : q[i] \in S
  OBVIOUS
<1>2. Head(q) = q[1] /\ Len(Tail(q)) = Len(q) - 1 /\ DOMAIN Tail(q) = 1 .. Len(q) - 1
      /\ \A i \in 1 .. Len(q) - 1 : Tail(q)[i] = q[i + 1]
  BY <1>1
<1>3. \A i \in 1 .. Len(q) : i = 1 \/ (i - 1 \in 1 .. Len(q) - 1 /\ q[i] = Tail(q)[i - 1])
  BY <1>1, <1>2
<1>4. \A i \in 1 .. Len(q) - 1 : i + 1 \in 1 .. Len(q)
  BY <1>1
<1>5. ToSet(q) = {Head(q)} \cup ToSet(Tail(q))
  <2>1. Head(q) \in ToSet(q)
    <3>1. 1 \in 1 .. Len(q)
      BY <1>1
    <3>. QED  BY <1>1, <1>2, <3>1 DEF ToSet
  <2>2. \A x \in ToSet(Tail(q)) : x \in ToSet(q)
    BY <1>1, <1>2, <1>4 DEF ToSet
  <2>3. \A x \in ToSet(q) : x = Head(q) \/ x \in ToSet(Tail(q))
    <3>1. ASSUME NEW i \in 1 .. Len(q) PROVE q[i] = Head(q) \/ q[i] \in ToSet(Tail(q))
      BY <1>2, <1>3 DEF ToSet
    <3>. QED  BY <1>1, <3>1 DEF ToSet
  <2>. QED  BY <2>1, <2>2, <2>3
<1>. QED  BY <1>1, <1>2, <1>5

\* One message more.
LEMMA Appended ==
    ASSUME NEW S, NEW q \in Seq(S), NEW x \in S
    PROVE  /\ Append(q, x) \in Seq(S) /\ Append(q, x) # <<>>
           /\ Len(Append(q, x)) = Len(q) + 1
           /\ \A i \in 1 .. Len(q) : Append(q, x)[i] = q[i]
           /\ Append(q, x)[Len(q) + 1] = x
           /\ ToSet(Append(q, x)) = ToSet(q) \cup {x}
<1>1. /\ Append(q, x) \in Seq(S) /\ Len(Append(q, x)) = Len(q) + 1
      /\ \A i \in 1 .. Len(q) : Append(q, x)[i] = q[i]
      /\ Append(q, x)[Len(q) + 1] = x
  OBVIOUS
<1>2. Len(q) \in Nat /\ DOMAIN q = 1 .. Len(q) /\ DOMAIN Append(q, x) = 1 .. Len(q) + 1
  OBVIOUS
<1>3. \A i \in 1 .. Len(q) + 1 : i \in 1 .. Len(q) \/ i = Len(q) + 1
  BY <1>2
<1>4. 1 .. Len(q) \subseteq 1 .. Len(q) + 1 /\ Len(q) + 1 \in 1 .. Len(q) + 1
  BY <1>2
<1>5. ToSet(Append(q, x)) = ToSet(q) \cup {x}
  BY <1>1, <1>2, <1>3, <1>4 DEF ToSet
<1>6. Append(q, x) # <<>>
  <2>1. Len(<<>>) = 0 /\ Len(q) + 1 # 0
    BY <1>2
  <2>. QED  BY <1>1, <2>1
<1>. QED  BY <1>1, <1>5, <1>6

\* What is in a sequence is of its kind, and an empty one has nothing.
LEMMA Elements == /\ \A S : \A q \in Seq(S) : ToSet(q) \subseteq S
                  /\ ToSet(<<>>) = {}
BY DEF ToSet

--------------------------------------------------------------------------------
(***************************************************************************)
(* The types, part by part.                                                *)
(***************************************************************************)
PoolTypes ==
    /\ channels \in [Workers -> Seq(Events \cup {Terminate})]
    /\ at \in [Workers -> {"recv", "busy", "exited", "dead"}]
    /\ next_worker \in Workers
    /\ dropping \in {"no", "joining", "panicked"}
    /\ joined \in 0 .. NumWorkers

RegistryTypes ==
    /\ owner \in [Sources -> {"out", "adding", "in", "removing"}]
    /\ work \in [Sources -> SUBSET Kinds]
    /\ edge \in [Sources \cup {Waker} -> SUBSET Kinds]
    /\ registry \in [Tokens -> Sources \cup {None}]

Jobs ==
    {Free} \cup [step : {"lookup", "found", "running"}, event : Events, handler : Sources \cup {None}]

\* The next worker is one of them.
LEMMA NextWorkerType == next_worker \in Workers => NextWorker \in Workers
<1> SUFFICES ASSUME next_worker \in Workers PROVE NextWorker \in Workers
  OBVIOUS
<1>1. next_worker + 1 \in Nat /\ NumWorkers \in Nat \ {0}
  BY PoolAssumption DEF Workers
<1>2. (next_worker + 1) % NumWorkers \in 0 .. NumWorkers - 1
  BY <1>1
<1>. QED  BY <1>2 DEF NextWorker, Workers

\* The pool keeps its types.
LEMMA PoolTypesStep == PoolTypes /\ batch \in Seq(Events) /\ PoolMoves => PoolTypes'
<1> SUFFICES ASSUME PoolTypes, batch \in Seq(Events), PoolMoves PROVE PoolTypes'
  OBVIOUS
<1> DEFINE Messages == Events \cup {Terminate}
<1>0. \A w \in Workers : channels[w] \in Seq(Messages)
  BY DEF PoolTypes
<1> HIDE DEF Messages
<1>1. CASE UNCHANGED poolVars
  BY <1>1 DEF poolVars, PoolTypes
<1>2. ASSUME NEW ev \in ToSet(batch), Exec(ev) PROVE PoolTypes'
  <2>1. ev \in Messages
    BY Elements DEF Messages
  <2>2. next_worker \in Workers /\ Append(channels[next_worker], ev) \in Seq(Messages)
    BY <1>0, <2>1, Appended DEF PoolTypes
  <2>3. channels' \in [Workers -> Seq(Messages)]
    BY <1>2, <2>2 DEF Exec, PoolTypes, Messages
  <2>. QED  BY <1>2, <2>3, NextWorkerType DEF Exec, PoolTypes, Messages
<1>3. CASE ExecFails
  BY <1>3, NextWorkerType DEF ExecFails, PoolTypes
<1>4. ASSUME NEW w \in Workers, ReceiveTask(w) \/ ReceiveTerminate(w) \/ FinishTask(w) \/ Die(w)
      PROVE  PoolTypes'
  <2>1. channels[w] # <<>> => Tail(channels[w]) \in Seq(Messages)
    BY <1>0, HeadAndTail
  <2>2. channels' \in [Workers -> Seq(Messages)]
    <3>1. channels \in [Workers -> Seq(Messages)] /\ <<>> \in Seq(Messages)
      BY DEF PoolTypes, Messages
    <3>2. \/ channels' = channels
          \/ channels[w] # <<>> /\ channels' = [channels EXCEPT ![w] = Tail(channels[w])]
          \/ channels' = [channels EXCEPT ![w] = <<>>]
      BY <1>4 DEF ReceiveTask, ReceiveTerminate, FinishTask, Die
    <3>. QED  BY <2>1, <3>1, <3>2
  <2>3. at' \in [Workers -> {"recv", "busy", "exited", "dead"}]
    BY <1>4 DEF ReceiveTask, ReceiveTerminate, FinishTask, Die, PoolTypes
  <2>. QED  BY <1>4, <2>2, <2>3 DEF ReceiveTask, ReceiveTerminate, FinishTask, Die, PoolTypes, Messages
<1>5. CASE SendTerminate
  <2>1. \A w \in Workers : WithTerminate(w) \in Seq(Messages)
    BY <1>0, Appended DEF WithTerminate, Messages
  <2>2. channels' \in [Workers -> Seq(Messages)]
    BY <1>5, <2>1 DEF SendTerminate
  <2>. QED  BY <1>5, <2>2 DEF SendTerminate, PoolTypes, Messages
<1>6. CASE Join
  BY <1>6, PoolAssumption DEF Join, PoolTypes
<1>. QED  BY <1>1, <1>2, <1>3, <1>4, <1>5, <1>6 DEF PoolMoves

\* The poll handle keeps its types.
LEMMA RegistryTypesStep ==
    RegistryTypes /\ RegistryMoves => RegistryTypes'
<1> SUFFICES ASSUME RegistryTypes, RegistryMoves PROVE RegistryTypes'
  OBVIOUS
<1> USE RegistryAssumption DEF RegistryTypes
<1>1. CASE UNCHANGED registryVars
  BY <1>1 DEF registryVars
<1>2. ASSUME NEW s \in Sources,
             \/ RegisterSource(s) \/ InsertHandler(s)
             \/ DeregisterSource(s) \/ RemoveHandler(s)
             \/ \E kind \in Kinds : Arrive(s, kind)
      PROVE  RegistryTypes'
  <2>1. InterestOf[s] \in SUBSET Kinds
    OBVIOUS
  <2>2. /\ RegisterSource(s) => RegistryTypes'
        /\ InsertHandler(s) => RegistryTypes'
        /\ DeregisterSource(s) => RegistryTypes'
        /\ RemoveHandler(s) => RegistryTypes'
    BY <2>1 DEF RegisterSource, InsertHandler, DeregisterSource, RemoveHandler
  <2>3. ASSUME NEW kind \in Kinds, Arrive(s, kind) PROVE RegistryTypes'
    BY <2>1, <2>3 DEF Arrive
  <2>. QED  BY <1>2, <2>2, <2>3
<1>3. CASE edge' = [edge EXCEPT ![Waker] = {"readable"}] /\ UNCHANGED <<owner, work, registry>>
  BY <1>3 DEF Kinds
<1>4. ASSUME NEW reported \in SUBSET Ready, edge' = Reported(reported), UNCHANGED <<owner, work, registry>>
      PROVE  RegistryTypes'
  BY <1>4 DEF Reported
<1>5. ASSUME NEW t \in Threads, UNCHANGED <<owner, edge, registry>>,
             work' = [work EXCEPT ![job[t].handler] = @ \ job[t].event.ready]
      PROVE  RegistryTypes'
  BY <1>5
<1>. QED  BY <1>1, <1>2, <1>3, <1>4, <1>5 DEF RegistryMoves

\* The smaller-than relation of the natural numbers, as a set of pairs.
LessNat == {ss \in Nat \X Nat : ss[1] < ss[2]}

\* It is well founded.
LEMMA LessNatWellFounded == IsWellFoundedOn(LessNat, Nat)
BY NatLessThanWellFounded, Zenon DEF OpToRel, LessNat

\* Min is the smallest of some instants.
LEMMA MinIsLeast ==
    ASSUME NEW S, S \subseteq Nat, S # {}
    PROVE  Min(S) \in S /\ \A x \in S : Min(S) <= x
<1>1. PICK x \in S : \A y \in S : ~(<<y, x>> \in LessNat)
  BY LessNatWellFounded, WFMin
<1>2. ASSUME NEW y \in S
      PROVE  x <= y
  <2>1. <<y, x>> \in Nat \X Nat /\ <<y, x>>[1] = y /\ <<y, x>>[2] = x
    OBVIOUS
  <2>2. ~(y < x)
    BY <1>1, <2>1, Zenon DEF LessNat
  <2>. QED  BY <2>2
<1>. QED  BY <1>2 DEF Min

\* The poll's timeout ends with the first timer, or at once if that is due.
LEMMA SleepIsShort ==
    ASSUME deadlines \in SUBSET Nat, clock \in Nat
    PROVE  /\ TimeToSleep \in Nat
           /\ \A d \in deadlines : clock + TimeToSleep <= d \/ TimeToSleep = 0
<1> DEFINE until_next == {IF d <= clock THEN 0 ELSE d - clock : d \in deadlines}
           S == until_next \cup {PollTimeout}
<1>1. S \subseteq Nat /\ S # {}
  BY ReactorAssumption
<1>2. Min(S) \in S /\ \A x \in S : Min(S) <= x
  <2> HIDE DEF S
  <2>. QED  BY <1>1, MinIsLeast
<1>3. TimeToSleep = Min(S)
  BY DEF TimeToSleep
<1>4. ASSUME NEW d \in deadlines PROVE clock + Min(S) <= d \/ Min(S) = 0
  <2>1. 0 \in S \/ d - clock \in S
    OBVIOUS
  <2>2. Min(S) \in Nat /\ \A x \in S : Min(S) <= x
    BY <1>1, <1>2
  <2> HIDE DEF S
  <2>. QED  BY <2>1, <2>2
<1>. QED  BY <1>1, <1>2, <1>3, <1>4

\* What a poll reports of its sources makes one event of each.
LEMMA Polled ==
    ASSUME RegistryTypes, NEW reported \in SUBSET Ready, NEW order \in SetToSeqs(reported)
    PROVE  LET events == [i \in 1 .. Len(order) |-> EventOf(order[i])]
           IN  events \in Seq(Events) /\ ToSet(events) = {EventOf(x) : x \in reported}
<1> DEFINE n == Cardinality(reported)
           events == [i \in 1 .. Len(order) |-> EventOf(order[i])]
<1>1. IsFiniteSet(reported) /\ n \in Nat
  <2>1. IsFiniteSet(Sources \cup {Waker})
    BY RegistryAssumption, FS_AddElement
  <2>2. IsFiniteSet(reported)
    BY <2>1, FS_Subset DEF Ready
  <2>. QED  BY <2>2, FS_CardinalityType
<1>2. order \in [1 .. n -> reported] /\ \A i, j \in 1 .. n : i # j => order[i] # order[j]
  BY DEF SetToSeqs
<1>3. Len(order) = n
  BY <1>1, <1>2
<1>4. \A x \in reported : EventOf(x) \in Events
  BY DEF EventOf, Events, Ready, RegistryTypes, Tokens
<1>5. events \in Seq(Events)
  BY <1>1, <1>2, <1>3, <1>4
<1>6. \A x \in reported : \E i \in 1 .. n : order[i] = x
  <2>1. order \in Injection(1 .. n, reported)
    BY <1>2 DEF Injection, IsInjective
  <2>2. Cardinality(1 .. n) = n
    BY <1>1, FS_Interval
  <2>3. order \in Surjection(1 .. n, reported)
    BY <1>1, <2>1, <2>2, FS_Injection
  <2>. QED  BY <2>3 DEF Surjection
<1>7. ToSet(events) = {EventOf(x) : x \in reported}
  <2>1. DOMAIN events = 1 .. n /\ \A i \in 1 .. n : events[i] = EventOf(order[i])
    BY <1>3
  <2> HIDE DEF events
  <2>. QED  BY <1>2, <1>6, <2>1 DEF ToSet
<1>. QED  BY <1>5, <1>7

LoopTypes ==
    /\ options \in Options
    /\ running \in BOOLEAN
    /\ pc \in Looping \cup Ended \cup {"called"}
    /\ sleep_until \in Nat
    /\ batch \in Seq(Events)
    /\ deadlines \in SUBSET Nat
    /\ clock \in Nat
    /\ caller \in [Callers -> {"idle", "wake"}]

HandTypes ==
    /\ job \in [Threads -> Jobs]
    /\ lost \in [Sources -> SUBSET Kinds]

\* The types are the types of the parts.
LEMMA TypeParts == TypeOK <=> PoolTypes /\ RegistryTypes /\ LoopTypes /\ HandTypes
BY DEF TypeOK, PoolTypes, RegistryTypes, LoopTypes, HandTypes, Jobs

\* The loop keeps its types.
LEMMA LoopTypesStep == TypeOK /\ [Next]_vars => LoopTypes'
<1> SUFFICES ASSUME TypeOK, [Next]_vars PROVE LoopTypes'
  OBVIOUS
<1>0. PoolTypes /\ RegistryTypes /\ LoopTypes /\ HandTypes
  BY TypeParts
<1>b. <<>> \in Seq(Events)
  OBVIOUS
<1> USE DEF LoopTypes, Looping, Ended
<1>1. CASE RunStep
  <2>1. CASE Start \/ CheckRunning \/ EndDispatch
    BY <1>0, <2>1 DEF Start, CheckRunning, EndDispatch, GoTo, timerVars
  <2>5. CASE DispatchFails
    BY <1>0, <1>b, <2>5 DEF DispatchFails, GoTo, timerVars
  <2>6. CASE Tick
    BY <1>0, <2>6 DEF Tick, GoTo
  <2>2. CASE AskTimeout
    BY <1>0, <2>2, SleepIsShort, ReactorAssumption DEF AskTimeout, GoTo, timerVars
  <2>3. CASE PollReturns
    <3>1. batch' \in Seq(Events)
      BY <1>0, <2>3, Polled DEF PollReturns, kSubset
    <3>. QED  BY <1>0, <2>3, <3>1 DEF PollReturns, GoTo, timerVars
  <2>4. CASE DispatchToPool \/ DispatchDirectly
    <3>1. batch # <<>> /\ batch' = Tail(batch)
      BY <2>4 DEF DispatchToPool, DispatchDirectly
    <3>2. batch' \in Seq(Events)
      BY <1>0, <3>1, HeadAndTail
    <3>3. UNCHANGED <<options, running, pc, sleep_until, timerVars, caller>>
      BY <2>4 DEF DispatchToPool, DispatchDirectly
    <3>. QED  BY <1>0, <3>2, <3>3 DEF timerVars
  <2>. QED  BY <1>1, <2>1, <2>2, <2>3, <2>4, <2>5, <2>6 DEF RunStep
<1>2. ASSUME NEW w \in Workers, WorkerStep(w) PROVE LoopTypes'
  BY <1>0, <1>2 DEF WorkerStep, Take, Leave, HandlerPanics, loopVars, timerVars
<1>3. ASSUME NEW t \in Threads, ThreadStep(t) PROVE LoopTypes'
  BY <1>0, <1>3 DEF ThreadStep, Lookup, CallHandler, HandlerReturns, loopVars, timerVars
<1>4. ASSUME NEW c \in Callers, Stop(c) \/ Wake(c) \/ \E delay \in Delays : Schedule(c, delay)
      PROVE  LoopTypes'
  <2>1. \A delay \in Delays : clock + delay \in Nat
    BY <1>0, ReactorAssumption
  <2>. QED  BY <1>0, <1>4, <2>1 DEF Stop, Wake, Schedule, loopVars, timerVars
<1>5. ASSUME NEW s \in Sources,
             Register(s) \/ ChangeRegistry(s) \/ \E kind \in Kinds : BecomeReady(s, kind)
      PROVE  LoopTypes'
  BY <1>0, <1>5 DEF Register, ChangeRegistry, BecomeReady, loopVars, timerVars
<1>6. CASE CallRun \/ PollFails \/ HandlerPanicsInLoop \/ Drop \/ JoinWorker \/ AdvanceClock
  <2>1. CASE CallRun
    BY <1>0, <2>1 DEF CallRun, GoTo, timerVars
  <2>4. CASE PollFails
    BY <1>0, <2>4 DEF PollFails, GoTo, timerVars
  <2>5. CASE HandlerPanicsInLoop
    BY <1>0, <1>b, <2>5 DEF HandlerPanicsInLoop, GoTo, timerVars
  <2>2. CASE Drop \/ JoinWorker
    BY <1>0, <2>2 DEF Drop, JoinWorker, loopVars, timerVars
  <2>3. CASE AdvanceClock
    <3>1. clock' \in Nat
      BY <1>0, <2>3 DEF AdvanceClock
    <3>. QED  BY <1>0, <2>3, <3>1 DEF AdvanceClock, loopVars
  <2>. QED  BY <1>6, <2>1, <2>2, <2>3, <2>4, <2>5
<1>7. CASE UNCHANGED vars
  BY <1>0, <1>7 DEF vars, loopVars, timerVars
<1>. QED  BY <1>1, <1>2, <1>3, <1>4, <1>5, <1>6, <1>7 DEF Next

\* An event of a thread is an event, and what a thread does makes a job of it.
LEMMA JobTypes ==
    /\ \A ev \in Events : Fetched(ev) \in Jobs
    /\ Free \in Jobs
    /\ \A j \in Jobs : j.step # "none" => j.event \in Events /\ j # Free
    /\ \A j \in Jobs : j.step # "none" => [j EXCEPT !.step = "running"] \in Jobs
    /\ \A j \in Jobs : \A s \in Sources :
           j.step # "none" => [j EXCEPT !.step = "found", !.handler = s] \in Jobs
<1>1. ASSUME NEW ev \in Events PROVE Fetched(ev) \in Jobs
  BY DEF Jobs, Fetched
<1>2. Free \in Jobs
  BY DEF Jobs
<1>3. ASSUME NEW j \in Jobs, j.step # "none"
      PROVE  /\ j.event \in Events /\ j # Free
             /\ [j EXCEPT !.step = "running"] \in Jobs
             /\ \A s \in Sources : [j EXCEPT !.step = "found", !.handler = s] \in Jobs
  <2>1. j # Free /\ j \in [step : {"lookup", "found", "running"}, event : Events,
                            handler : Sources \cup {None}]
    BY <1>3 DEF Jobs, Free
  <2>. QED  BY <2>1 DEF Jobs
<1>. QED  BY <1>1, <1>2, <1>3

\* What is lost is readiness.
LEMMA LostType ==
    ASSUME HandTypes, NEW events \in SUBSET Events
    PROVE  /\ LostWith(events) \in [Sources -> SUBSET Kinds]
           /\ \A s \in Sources : lost[s] \subseteq LostWith(events)[s]
           /\ \A ev \in events : ev.source \in Sources => ev.ready \subseteq LostWith(events)[ev.source]
<1>1. \A ev \in Events : ev.ready \subseteq Kinds
  BY DEF Events
<1>. QED  BY <1>1 DEF LostWith, HandTypes

\* Threads keep the types of what they have.
LEMMA HandTypesStep == TypeOK /\ [Next]_vars => HandTypes'
<1> SUFFICES ASSUME TypeOK, [Next]_vars PROVE HandTypes'
  OBVIOUS
<1>0. PoolTypes /\ RegistryTypes /\ LoopTypes /\ HandTypes
  BY TypeParts
<1>a. /\ batch \in Seq(Events) /\ ToSet(batch) \subseteq Events
      /\ batch # <<>> => Head(batch) \in Events
  BY <1>0, Elements, HeadAndTail DEF LoopTypes
<1>b. \A w \in Workers : Queued(w) \subseteq Events
  BY <1>0, Elements DEF PoolTypes, Queued
<1>c. ASSUME job' = job, lost' = lost PROVE HandTypes'
  BY <1>0, <1>c DEF HandTypes
<1>1. CASE RunStep
  <2>1. CASE DispatchFails
    BY <1>0, <1>a, <2>1, LostType DEF DispatchFails, HandTypes
  <2>2. CASE DispatchDirectly
    BY <1>0, <1>a, <2>2, JobTypes DEF DispatchDirectly, HandTypes
  <2>. QED
    BY <1>1, <1>c, <2>1, <2>2 DEF RunStep, Start, CheckRunning, AskTimeout, PollReturns, DispatchToPool,
                                  EndDispatch, Tick
<1>2. ASSUME NEW w \in Workers, WorkerStep(w) PROVE HandTypes'
  <2>1. CASE Take(w)
    <3>1. Head(channels[w]) \in Events
      BY <1>0, <2>1, HeadAndTail DEF Take, ReceiveTask, PoolTypes
    <3>. QED  BY <1>0, <2>1, <3>1, JobTypes DEF Take, HandTypes
  <2>2. CASE HandlerPanics(w)
    <3>1. job[w].event \in Events
      BY <1>0, <2>2, JobTypes DEF HandlerPanics, Doing, HandTypes, Threads
    <3>2. lost' \in [Sources -> SUBSET Kinds]
      BY <1>0, <1>b, <2>2, <3>1, LostType DEF HandlerPanics
    <3>. QED  BY <1>0, <2>2, <3>2, JobTypes DEF HandlerPanics, HandTypes
  <2>. QED  BY <1>2, <1>c, <2>1, <2>2 DEF WorkerStep, Leave
<1>3. ASSUME NEW t \in Threads, ThreadStep(t) PROVE HandTypes'
  <2>0. job[t] \in Jobs
    BY <1>0 DEF HandTypes
  <2>1. CASE Lookup(t)
    <3>1. job[t].step # "none" /\ job[t].event \in Events
      BY <2>0, <2>1, JobTypes DEF Lookup, Doing
    <3>2. registry[job[t].event.token] \in Sources \cup {None}
      BY <1>0, <3>1 DEF RegistryTypes, Events
    <3>3. lost' \in [Sources -> SUBSET Kinds]
      BY <1>0, <2>1, <3>1, LostType DEF Lookup, HandTypes
    <3>4. job' \in [Threads -> Jobs]
      <4>1. CASE job' = [job EXCEPT ![t] = Free]
        BY <1>0, <4>1, JobTypes DEF HandTypes
      <4>2. ASSUME NEW s \in Sources, job' = [job EXCEPT ![t].step = "found", ![t].handler = s]
            PROVE  job' \in [Threads -> Jobs]
        <5>1. job' = [job EXCEPT ![t] = [job[t] EXCEPT !.step = "found", !.handler = s]]
          BY <4>2
        <5>2. [job[t] EXCEPT !.step = "found", !.handler = s] \in Jobs
          BY <2>0, <3>1, JobTypes
        <5>. QED  BY <1>0, <5>1, <5>2 DEF HandTypes
      <4>. QED  BY <2>1, <3>2, <4>1, <4>2 DEF Lookup, Done, Wanted
    <3>. QED  BY <3>3, <3>4 DEF HandTypes
  <2>2. CASE CallHandler(t)
    BY <1>0, <2>0, <2>2, JobTypes DEF CallHandler, Doing, HandTypes
  <2>3. CASE HandlerReturns(t)
    BY <1>0, <2>3, JobTypes DEF HandlerReturns, Done, HandTypes
  <2>. QED  BY <1>3, <2>1, <2>2, <2>3 DEF ThreadStep
<1>4. ASSUME NEW c \in Callers, Stop(c) \/ Wake(c) \/ \E delay \in Delays : Schedule(c, delay)
      PROVE  HandTypes'
  BY <1>4, <1>c DEF Stop, Wake, Schedule
<1>5. ASSUME NEW s \in Sources,
             Register(s) \/ ChangeRegistry(s) \/ \E kind \in Kinds : BecomeReady(s, kind)
      PROVE  HandTypes'
  <2>1. CASE Register(s)
    BY <1>0, <2>1 DEF Register, HandTypes
  <2>. QED  BY <1>5, <1>c, <2>1 DEF ChangeRegistry, BecomeReady
<1>6. CASE CallRun \/ PollFails \/ HandlerPanicsInLoop \/ Drop \/ JoinWorker \/ AdvanceClock
  <2>1. CASE HandlerPanicsInLoop
    <3>1. job[Loop].event \in Events
      BY <1>0, <2>1, JobTypes DEF HandlerPanicsInLoop, Doing, HandTypes, Threads
    <3>2. lost' \in [Sources -> SUBSET Kinds]
      BY <1>0, <1>a, <2>1, <3>1, LostType DEF HandlerPanicsInLoop
    <3>. QED  BY <1>0, <2>1, <3>2, JobTypes DEF HandlerPanicsInLoop, HandTypes
  <2>. QED  BY <1>6, <1>c, <2>1 DEF CallRun, PollFails, Drop, JoinWorker, AdvanceClock
<1>7. CASE UNCHANGED vars
  BY <1>7, <1>c DEF vars
<1>. QED  BY <1>1, <1>2, <1>3, <1>4, <1>5, <1>6, <1>7 DEF Next

\* The loop has not been called yet.
LEMMA InitTypes == Init => TypeOK
<1> SUFFICES ASSUME Init PROVE TypeOK
  OBVIOUS
<1> USE DEF Init
<1>1. PoolTypes
  BY PoolAssumption DEF PoolInit, PoolTypes, Workers
<1>2. RegistryTypes
  BY DEF RegistryInit, RegistryTypes
<1>3. LoopTypes
  <2>1. batch \in Seq(Events) /\ deadlines \in SUBSET Nat
    OBVIOUS
  <2>2. caller \in [Callers -> {"idle", "wake"}]
    OBVIOUS
  <2>. QED  BY <2>1, <2>2 DEF LoopTypes, Ended
<1>4. HandTypes
  BY JobTypes DEF HandTypes
<1>. QED  BY <1>1, <1>2, <1>3, <1>4, TypeParts

\* The event loop, its pool and its poll handle keep their types (reactor.rs
\* l.30-75, thread_pool.rs l.21-61, poll.rs l.12-35).
THEOREM Typed == Spec => []TypeOK
<1>1. TypeOK /\ [Next]_vars => TypeOK'
  <2> SUFFICES ASSUME TypeOK, [Next]_vars PROVE TypeOK'
    OBVIOUS
  <2>1. PoolTypes' /\ RegistryTypes'
    BY TypeParts, NextPoolMoves, PoolTypesStep, NextRegistryMoves, RegistryTypesStep DEF LoopTypes
  <2>2. LoopTypes' /\ HandTypes'
    BY LoopTypesStep, HandTypesStep
  <2>. QED
    BY <2>1, <2>2 DEF TypeOK, PoolTypes, RegistryTypes, LoopTypes, HandTypes, Jobs
<1>. QED  BY <1>1, InitTypes, PTL DEF Spec

--------------------------------------------------------------------------------
(***************************************************************************)
(* The pool: Terminate is the last message of a channel, and is sent by    *)
(* drop() alone.                                                           *)
(***************************************************************************)
Last1(q) == \A i \in 1 .. Len(q) - 1 : q[i] # Terminate

ChannelsInOrder ==
    /\ dropping = "no" => \A w \in Workers : at[w] # "exited" /\ Terminate \notin ToSet(channels[w])
    /\ \A w \in Workers : at[w] \in {"exited", "dead"} => channels[w] = <<>>
    /\ \A w \in Workers : Last1(channels[w])

\* Sequences of messages with Terminate at the end, if anywhere.
LEMMA TerminateLast ==
    ASSUME NEW q \in Seq(Events \cup {Terminate})
    PROVE  /\ Last1(<<>>)
           /\ \A m \in Events \cup {Terminate} : Terminate \notin ToSet(q) => Last1(Append(q, m))
           /\ q # <<>> /\ Last1(q) => Last1(Tail(q))
           /\ q # <<>> /\ Last1(q) /\ Head(q) = Terminate => Tail(q) = <<>>
<1> DEFINE Messages == Events \cup {Terminate}
<1>0. q \in Seq(Messages)
  OBVIOUS
<1> HIDE DEF Messages
<1>1. Last1(<<>>)
  BY DEF Last1
<1>2. ASSUME NEW m \in Messages, Terminate \notin ToSet(q) PROVE Last1(Append(q, m))
  <2>1. \A i \in 1 .. Len(q) : q[i] # Terminate
    BY <1>0, <1>2 DEF ToSet
  <2>2. Len(q) \in Nat /\ Len(Append(q, m)) - 1 = Len(q)
    BY <1>0, Appended
  <2>3. \A i \in 1 .. Len(q) : Append(q, m)[i] = q[i]
    BY <1>0, Appended
  <2>. QED  BY <2>1, <2>2, <2>3 DEF Last1
<1>3. ASSUME q # <<>>, Last1(q) PROVE Last1(Tail(q)) /\ (Head(q) = Terminate => Tail(q) = <<>>)
  <2>1. /\ Len(q) \in Nat \ {0} /\ Head(q) = q[1]
        /\ Len(Tail(q)) = Len(q) - 1 /\ \A i \in 1 .. Len(q) - 1 : Tail(q)[i] = q[i + 1]
    BY <1>0, <1>3
  <2>2. Last1(Tail(q))
    BY <1>3, <2>1 DEF Last1
  <2>3. ASSUME Head(q) = Terminate PROVE Tail(q) = <<>>
    <3>1. ~(1 \in 1 .. Len(q) - 1)
      BY <1>3, <2>1, <2>3 DEF Last1
    <3>2. Len(Tail(q)) = 0
      BY <2>1, <3>1
    <3>3. Tail(q) \in Seq(Messages)
      BY <1>0, <1>3
    <3>. QED  BY <3>2, <3>3, EmptySeq
  <2>. QED  BY <2>2, <2>3
<1>. QED  BY <1>1, <1>2, <1>3 DEF Messages

\* Every step of the pool keeps the order of its channels.
LEMMA ChannelsStep ==
    PoolTypes /\ batch \in Seq(Events) /\ ChannelsInOrder /\ PoolMoves => ChannelsInOrder'
<1> SUFFICES ASSUME PoolTypes, batch \in Seq(Events), ChannelsInOrder, PoolMoves
             PROVE  ChannelsInOrder'
  OBVIOUS
<1>0. \A w \in Workers : channels[w] \in Seq(Events \cup {Terminate})
  BY DEF PoolTypes
<1>1. CASE UNCHANGED poolVars
  BY <1>1 DEF poolVars, ChannelsInOrder
<1>2. ASSUME NEW ev \in ToSet(batch), Exec(ev) PROVE ChannelsInOrder'
  <2>1. ev \in Events /\ ev # Terminate
    BY Elements, MessageAssumption
  <2>2. next_worker \in Workers /\ at[next_worker] \notin {"exited", "dead"}
    BY <1>2 DEF Exec, TargetDead, PoolTypes, ChannelsInOrder
  <2>3. LET q == Append(channels[next_worker], ev)
        IN  Last1(q) /\ Terminate \notin ToSet(q)
    <3>1. channels[next_worker] \in Seq(Events \cup {Terminate}) /\ Terminate \notin ToSet(channels[next_worker])
      BY <1>0, <1>2, <2>2 DEF Exec, ChannelsInOrder
    <3>2. ev \in Events \cup {Terminate}
      BY <2>1
    <3>3. ToSet(Append(channels[next_worker], ev)) = ToSet(channels[next_worker]) \cup {ev}
      BY <3>1, <3>2, Appended
    <3>. QED  BY <2>1, <3>1, <3>2, <3>3, TerminateLast
  <2>4. /\ UNCHANGED <<at, dropping>>
        /\ channels'[next_worker] = Append(channels[next_worker], ev)
        /\ \A w \in Workers \ {next_worker} : channels'[w] = channels[w]
    BY <1>2, <2>2 DEF Exec, PoolTypes
  <2>. QED  BY <2>2, <2>3, <2>4 DEF ChannelsInOrder
<1>3. CASE ExecFails
  BY <1>3 DEF ExecFails, ChannelsInOrder
<1>4. ASSUME NEW w \in Workers, ReceiveTask(w) \/ ReceiveTerminate(w) \/ FinishTask(w) \/ Die(w)
      PROVE  ChannelsInOrder'
  <2>0. /\ dropping' = dropping
        /\ \A v \in Workers \ {w} : channels'[v] = channels[v] /\ at'[v] = at[v]
    BY <1>4 DEF ReceiveTask, ReceiveTerminate, FinishTask, Die, PoolTypes
  <2>1. CASE ReceiveTask(w) \/ ReceiveTerminate(w)
    <3>1. /\ channels[w] # <<>> /\ channels'[w] = Tail(channels[w])
          /\ at'[w] = IF Head(channels[w]) = Terminate THEN "exited" ELSE "busy"
      BY <2>1 DEF ReceiveTask, ReceiveTerminate, PoolTypes
    <3>2. /\ Last1(channels'[w]) /\ ToSet(channels'[w]) \subseteq ToSet(channels[w])
          /\ Head(channels[w]) \in ToSet(channels[w])
          /\ Head(channels[w]) = Terminate => channels'[w] = <<>>
      <4>1. Last1(channels[w])
        BY DEF ChannelsInOrder
      <4>2. ToSet(channels[w]) = {Head(channels[w])} \cup ToSet(Tail(channels[w]))
        BY <1>0, <3>1, HeadAndTail
      <4>. QED  BY <1>0, <3>1, <4>1, <4>2, TerminateLast
    <3>. QED  BY <2>0, <3>1, <3>2 DEF ChannelsInOrder
  <2>2. CASE FinishTask(w)
    BY <2>0, <2>2 DEF FinishTask, ChannelsInOrder, PoolTypes
  <2>3. CASE Die(w)
    <3>1. channels'[w] = <<>> /\ at'[w] = "dead"
      BY <2>3 DEF Die, PoolTypes
    <3>2. Last1(<<>>) /\ ToSet(<<>>) = {}
      BY Elements DEF Last1
    <3>. QED  BY <2>0, <3>1, <3>2 DEF ChannelsInOrder
  <2>. QED  BY <1>4, <2>1, <2>2, <2>3
<1>5. CASE SendTerminate
  <2>1. ASSUME NEW w \in Workers
        PROVE  /\ Last1(WithTerminate(w))
               /\ at[w] # "exited"
               /\ at[w] = "dead" => WithTerminate(w) = <<>>
    <3>1. at[w] # "exited" /\ Terminate \notin ToSet(channels[w])
      BY <1>5 DEF SendTerminate, ChannelsInOrder
    <3>2. Terminate \in Events \cup {Terminate} /\ channels[w] \in Seq(Events \cup {Terminate})
      BY <1>0
    <3>. QED  BY <3>1, <3>2, TerminateLast DEF WithTerminate
  <2>2. /\ dropping' # "no" /\ at' = at
        /\ \A w \in Workers : channels'[w] = WithTerminate(w)
    BY <1>5 DEF SendTerminate
  <2>. QED  BY <2>1, <2>2 DEF ChannelsInOrder
<1>6. CASE Join
  BY <1>6 DEF Join, ChannelsInOrder
<1>. QED  BY <1>1, <1>2, <1>3, <1>4, <1>5, <1>6 DEF PoolMoves

\* The channels are in order in every reachable state.
LEMMA InOrder == Spec => [](TypeOK /\ ChannelsInOrder)
<1>1. Init => ChannelsInOrder
  BY Elements DEF Init, PoolInit, ChannelsInOrder, Last1
<1>2. TypeOK /\ ChannelsInOrder /\ [Next]_vars => ChannelsInOrder'
  BY TypeParts, NextPoolMoves, ChannelsStep DEF LoopTypes
<1>. QED  BY <1>1, <1>2, Typed, PTL DEF Spec

\* A worker leaves only after every task that was sent to it: drop() sends
\* Terminate behind them (thread_pool.rs l.79-86).
THEOREM PoolRunsWhatItAccepts == Spec => []AcceptedTasksRun
<1>1. ChannelsInOrder => AcceptedTasksRun
  BY DEF ChannelsInOrder, AcceptedTasksRun
<1>. QED  BY <1>1, InOrder, PTL

--------------------------------------------------------------------------------
(***************************************************************************)
(* The poll is woken.                                                      *)
(***************************************************************************)
\* What has woken the loop, or is about to, does so until a poll reports it.
LEMMA WakeStays ==
    ASSUME TypeOK, [Next]_vars, WakePending
    PROVE  WakePending' \/ PollReturns
<1>0. RegistryTypes /\ LoopTypes
  BY TypeParts
<1> USE DEF WakePending
<1>1. CASE RunStep
  BY <1>1 DEF RunStep, Start, CheckRunning, AskTimeout, DispatchToPool, DispatchFails, DispatchDirectly,
              EndDispatch, Tick, registryVars
<1>2. ASSUME NEW w \in Workers, WorkerStep(w) PROVE WakePending'
  BY <1>2 DEF WorkerStep, Take, Leave, HandlerPanics, registryVars
<1>3. ASSUME NEW t \in Threads, ThreadStep(t) PROVE WakePending'
  BY <1>3 DEF ThreadStep, Lookup, CallHandler, HandlerReturns, registryVars
<1>4. ASSUME NEW c \in Callers, Stop(c) \/ Wake(c) \/ \E delay \in Delays : Schedule(c, delay)
      PROVE  WakePending'
  <2>1. CASE Wake(c)
    BY <1>0, <2>1 DEF Wake, RegistryTypes
  <2>2. caller[c] = "idle" /\ caller' = [caller EXCEPT ![c] = "wake"] => \E d \in Callers : caller'[d] = "wake"
    BY <1>0 DEF LoopTypes
  <2>. QED  BY <1>4, <2>1, <2>2 DEF Stop, Schedule
<1>5. ASSUME NEW s \in Sources,
             Register(s) \/ ChangeRegistry(s) \/ \E kind \in Kinds : BecomeReady(s, kind)
      PROVE  WakePending'
  <2>1. s # Waker
    BY RegistryAssumption
  <2>2. edge'[Waker] = edge[Waker] /\ caller' = caller
    BY <1>0, <1>5, <2>1 DEF Register, ChangeRegistry, BecomeReady, RegisterSource, InsertHandler,
                            DeregisterSource, RemoveHandler, Arrive, RegistryTypes
  <2>. QED  BY <2>2
<1>6. CASE CallRun \/ PollFails \/ HandlerPanicsInLoop \/ Drop \/ JoinWorker \/ AdvanceClock
  BY <1>6 DEF CallRun, PollFails, HandlerPanicsInLoop, Drop, JoinWorker, AdvanceClock, registryVars
<1>7. CASE UNCHANGED vars
  BY <1>7 DEF vars, registryVars
<1>. QED  BY <1>1, <1>2, <1>3, <1>4, <1>5, <1>6, <1>7 DEF Next

\* A caller that stopped the loop or scheduled a timer has a wake to make.
LEMMA WakeFollows ==
    ASSUME TypeOK, NEW c \in Callers, Stop(c) \/ \E delay \in Delays : Schedule(c, delay)
    PROVE  WakePending'
<1>1. caller' = [caller EXCEPT ![c] = "wake"]
  BY DEF Stop, Schedule
<1>2. caller'[c] = "wake"
  BY <1>1, TypeParts DEF LoopTypes
<1>. QED  BY <1>2 DEF WakePending

\* Only the callers and the loop itself change what the loop waits for.
LEMMA LoopAlone ==
    ASSUME [Next]_vars
    PROVE  \/ UNCHANGED <<running, pc, sleep_until, deadlines, clock>>
           \/ RunStep \/ CallRun \/ PollFails \/ HandlerPanicsInLoop \/ AdvanceClock
           \/ \E c \in Callers : Stop(c) \/ \E delay \in Delays : Schedule(c, delay)
<1>1. ASSUME NEW w \in Workers, WorkerStep(w) PROVE UNCHANGED <<loopVars, timerVars>>
  BY <1>1 DEF WorkerStep, Take, Leave, HandlerPanics
<1>2. ASSUME NEW t \in Threads, ThreadStep(t) PROVE UNCHANGED <<loopVars, timerVars>>
  BY <1>2 DEF ThreadStep, Lookup, CallHandler, HandlerReturns
<1>3. ASSUME NEW c \in Callers, Wake(c) PROVE UNCHANGED <<loopVars, timerVars>>
  BY <1>3 DEF Wake
<1>4. ASSUME NEW s \in Sources,
             Register(s) \/ ChangeRegistry(s) \/ \E kind \in Kinds : BecomeReady(s, kind)
      PROVE  UNCHANGED <<loopVars, timerVars>>
  BY <1>4 DEF Register, ChangeRegistry, BecomeReady
<1>5. CASE Drop \/ JoinWorker \/ UNCHANGED vars
  BY <1>5 DEF Drop, JoinWorker, vars, loopVars, timerVars
<1>. QED  BY <1>1, <1>2, <1>3, <1>4, <1>5 DEF Next, loopVars, timerVars

\* Every step keeps a stop heard and a poll in time.
LEMMA WokenStep ==
    TypeOK /\ StopIsHeard /\ PollInTime /\ [Next]_vars => StopIsHeard' /\ PollInTime'
<1> SUFFICES ASSUME TypeOK, StopIsHeard, PollInTime, [Next]_vars PROVE StopIsHeard' /\ PollInTime'
  OBVIOUS
<1>0. LoopTypes
  BY TypeParts
<1>1. CASE UNCHANGED <<running, pc, sleep_until, deadlines, clock>>
  <2>1. WakePending => WakePending' \/ pc = "dispatch"
    BY <1>1, WakeStays DEF PollReturns, GoTo
  <2>. QED  BY <1>1, <2>1 DEF StopIsHeard, PollInTime
<1>2. CASE Start \/ EndDispatch \/ Tick \/ DispatchFails \/ PollReturns
           \/ CallRun \/ PollFails \/ HandlerPanicsInLoop
  <2>1. pc' \notin {"ask", "poll"}
    BY <1>2 DEF Start, EndDispatch, Tick, DispatchFails, PollReturns, CallRun, PollFails, HandlerPanicsInLoop,
                GoTo
  <2>. QED  BY <2>1 DEF StopIsHeard, PollInTime
<1>3. CASE CheckRunning
  <2>1. pc' # "poll" /\ (pc' = "ask" => running')
    BY <1>3 DEF CheckRunning, GoTo
  <2>. QED  BY <2>1 DEF StopIsHeard, PollInTime
<1>4. CASE AskTimeout
  <2>1. PICK lag \in 0 .. MaxLag : sleep_until' = clock + lag + TimeToSleep
    BY <1>4 DEF AskTimeout
  <2>2. pc = "ask" /\ UNCHANGED <<running, deadlines, clock>>
    BY <1>4 DEF AskTimeout, timerVars
  <2>3. WakePending => WakePending'
    BY <2>2, WakeStays DEF PollReturns
  <2>4. \A d \in deadlines : sleep_until' <= d + MaxLag \/ sleep_until' <= clock + MaxLag
    <3> SUFFICES ASSUME NEW d \in deadlines
                 PROVE  sleep_until' <= d + MaxLag \/ sleep_until' <= clock + MaxLag
      OBVIOUS
    <3>1. TimeToSleep \in Nat /\ (clock + TimeToSleep <= d \/ TimeToSleep = 0)
      BY <1>0, SleepIsShort DEF LoopTypes
    <3>2. clock \in Nat /\ d \in Nat /\ MaxLag \in Nat
      BY <1>0, ReactorAssumption DEF LoopTypes
    <3>. QED  BY <2>1, <3>1, <3>2
  <2>. QED  BY <2>2, <2>3, <2>4 DEF StopIsHeard, PollInTime
<1>5. CASE DispatchToPool \/ DispatchDirectly
  <2>1. pc' = "dispatch"
    BY <1>5 DEF DispatchToPool, DispatchDirectly
  <2>. QED  BY <2>1 DEF StopIsHeard, PollInTime
<1>6. CASE AdvanceClock
  <2>1. clock' = clock + 1 /\ UNCHANGED <<running, pc, sleep_until, deadlines>>
    BY <1>6 DEF AdvanceClock, loopVars
  <2>2. WakePending => WakePending'
    BY <1>6 DEF AdvanceClock, WakePending, registryVars
  <2>3. sleep_until <= clock + MaxLag => sleep_until <= clock + 1 + MaxLag
    BY <1>0, ReactorAssumption DEF LoopTypes
  <2>. QED  BY <2>1, <2>2, <2>3 DEF StopIsHeard, PollInTime
<1>7. ASSUME NEW c \in Callers, Stop(c) \/ \E delay \in Delays : Schedule(c, delay)
      PROVE  StopIsHeard' /\ PollInTime'
  BY <1>7, WakeFollows DEF StopIsHeard, PollInTime
<1>. QED  BY <1>1, <1>2, <1>3, <1>4, <1>5, <1>6, <1>7, LoopAlone DEF RunStep

\* A stop is heard in every reachable state, and no poll lasts past a timer.
LEMMA Woken == Spec => [](StopIsHeard /\ PollInTime)
<1>1. Init => StopIsHeard /\ PollInTime
  BY DEF Init, StopIsHeard, PollInTime
<1>. QED  BY <1>1, WokenStep, Typed, PTL DEF Spec

\* A stop() at any point between the check of the flag and the end of the poll
\* has woken the poll, or will (reactor.rs l.92-104, 181-184).
THEOREM StopsAreHeard == Spec => []StopIsHeard
BY Woken, PTL

\* A poll lasts past a timer by no more than the time from the timeout's
\* computation to the poll, also when the timer was scheduled after it
\* (reactor.rs l.94-104, lib.rs l.477).
THEOREM PollsAreInTime == Spec => []PollInTime
BY Woken, PTL

--------------------------------------------------------------------------------
(***************************************************************************)
(* Readiness is accounted for.  A token may have been given to another     *)
(* source since an event was polled, so that its handler was called for    *)
(* another source than the event's: such an event reports nothing any      *)
(* more, and its readiness counts as lost.                                 *)
(***************************************************************************)
Carries(t) == Doing(t, "lookup") \/ (job[t] # Free /\ job[t].handler = job[t].event.source)

\* The event will still have its source handled, unless something goes wrong.
Carried(ev) ==
    \/ ev \in ToSet(batch)
    \/ \E w \in Workers : ev \in Queued(w)
    \/ \E t \in Threads : Carries(t) /\ job[t].event = ev

Listed(s) == owner[s] \in {"adding", "in"}

Accounted(s, kind) ==
    \/ kind \in edge[s] \cup lost[s]
    \/ \E ev \in Events : Carried(ev) /\ ev.source = s /\ kind \in ev.ready

AllAccounted ==
    \A s \in Sources : Listed(s) => \A kind \in work[s] \cap InterestOf[s] : Accounted(s, kind)

\* Only the dispatch has a batch, and only a busy worker has a job.
InHand ==
    /\ pc # "dispatch" => batch = <<>>
    /\ \A w \in Workers : at[w] # "busy" => job[w] = Free

\* What is carried is on its way.
LEMMA AccountedInFlight == TypeOK /\ AllAccounted => ReadinessAccounted
<1> SUFFICES ASSUME AllAccounted, NEW s \in Sources, owner[s] = "in",
                    NEW kind \in work[s] \cap InterestOf[s], kind \notin edge[s] \cup lost[s]
             PROVE  \E ev \in InFlight : ev.source = s /\ kind \in ev.ready
  BY DEF ReadinessAccounted
<1>1. PICK ev \in Events : Carried(ev) /\ ev.source = s /\ kind \in ev.ready
  BY DEF AllAccounted, Listed, Accounted
<1> DEFINE OnThreads == {job[t].event : t \in {u \in Threads : job[u] # Free}}
           InChannels == UNION {Queued(w) : w \in Workers}
<1>2. ASSUME NEW t \in Threads, Carries(t), job[t].event = ev PROVE ev \in OnThreads
  <2>1. job[t] # Free
    BY <1>2 DEF Carries, Doing, Free
  <2>. QED  BY <1>2, <2>1
<1>3. ASSUME NEW w \in Workers, ev \in Queued(w) PROVE ev \in InChannels
  BY <1>3
<1>4. InFlight = ToSet(batch) \cup InChannels \cup OnThreads
  BY DEF InFlight
<1>5. ev \in InFlight
  <2> HIDE DEF OnThreads, InChannels
  <2>. QED  BY <1>1, <1>2, <1>3, <1>4 DEF Carried
<1>. QED  BY <1>1, <1>5

\* Every step keeps what is in hand.
LEMMA InHandStep == TypeOK /\ InHand /\ [Next]_vars => InHand'
<1> SUFFICES ASSUME TypeOK, InHand, [Next]_vars PROVE InHand'
  OBVIOUS
<1>0. PoolTypes /\ HandTypes /\ Workers \subseteq Threads /\ Loop \notin Workers
  BY TypeParts, ReactorAssumption DEF Threads
<1> USE DEF InHand
<1>1. CASE RunStep
  <2>1. at' = at /\ \A w \in Workers : job'[w] = job[w]
    BY <1>0, <1>1 DEF RunStep, Start, CheckRunning, AskTimeout, PollReturns, DispatchToPool, DispatchFails,
                      DispatchDirectly, EndDispatch, Tick, poolVars, Exec, ExecFails, HandTypes
  <2>2. pc' # "dispatch" => batch' = <<>>
    BY <1>1 DEF RunStep, Start, CheckRunning, AskTimeout, PollReturns, DispatchToPool, DispatchFails,
                DispatchDirectly, EndDispatch, Tick, GoTo
  <2>. QED  BY <2>1, <2>2
<1>2. ASSUME NEW w \in Workers, WorkerStep(w) PROVE InHand'
  <2>1. UNCHANGED <<pc, batch>>
    BY <1>2 DEF WorkerStep, Take, Leave, HandlerPanics, loopVars
  <2>2. \A u \in Workers \ {w} : at'[u] = at[u] /\ job'[u] = job[u]
    BY <1>0, <1>2 DEF WorkerStep, Take, Leave, HandlerPanics, ReceiveTask, ReceiveTerminate, Die, PoolTypes,
                      HandTypes
  <2>3. at'[w] = "busy" \/ job'[w] = Free
    BY <1>0, <1>2 DEF WorkerStep, Take, Leave, HandlerPanics, ReceiveTask, ReceiveTerminate, PoolTypes,
                      HandTypes
  <2>. QED  BY <2>1, <2>2, <2>3
<1>3. ASSUME NEW t \in Threads, ThreadStep(t) PROVE InHand'
  <2>1. UNCHANGED <<pc, batch>>
    BY <1>3 DEF ThreadStep, Lookup, CallHandler, HandlerReturns, loopVars
  <2>2. job[t].step # "none"
    BY <1>3 DEF ThreadStep, Lookup, CallHandler, HandlerReturns, Doing
  <2>3. \A u \in Workers \ {t} : at'[u] = at[u] /\ job'[u] = job[u]
    BY <1>0, <1>3 DEF ThreadStep, Lookup, CallHandler, HandlerReturns, Done, FinishTask, poolVars, PoolTypes,
                      HandTypes
  <2>4. t \in Workers => at'[t] = "busy" \/ job'[t] = Free
    <3>1. CASE Done(t)
      BY <1>0, <3>1 DEF Done, HandTypes
    <3>2. CASE UNCHANGED poolVars
      BY <2>2, <3>2 DEF poolVars, Free
    <3>. QED  BY <1>3, <3>1, <3>2 DEF ThreadStep, Lookup, CallHandler, HandlerReturns
  <2>. QED  BY <2>1, <2>3, <2>4
<1>4. ASSUME NEW c \in Callers, Stop(c) \/ Wake(c) \/ \E delay \in Delays : Schedule(c, delay)
      PROVE  InHand'
  BY <1>4 DEF Stop, Wake, Schedule, poolVars, loopVars
<1>5. ASSUME NEW s \in Sources,
             Register(s) \/ ChangeRegistry(s) \/ \E kind \in Kinds : BecomeReady(s, kind)
      PROVE  InHand'
  BY <1>5 DEF Register, ChangeRegistry, BecomeReady, poolVars, loopVars
<1>6. CASE CallRun \/ PollFails \/ HandlerPanicsInLoop \/ Drop \/ JoinWorker \/ AdvanceClock
  <2>1. at' = at /\ \A w \in Workers : job'[w] = job[w]
    BY <1>0, <1>6 DEF CallRun, PollFails, HandlerPanicsInLoop, Drop, JoinWorker, AdvanceClock, poolVars,
                      SendTerminate, Join, HandTypes
  <2>2. pc' # "dispatch" => batch' = <<>>
    BY <1>6 DEF CallRun, PollFails, HandlerPanicsInLoop, Drop, JoinWorker, AdvanceClock, loopVars, Ended, GoTo
  <2>. QED  BY <2>1, <2>2
<1>7. CASE UNCHANGED vars
  BY <1>7 DEF vars, poolVars, loopVars
<1>. QED  BY <1>1, <1>2, <1>3, <1>4, <1>5, <1>6, <1>7 DEF Next

\* Nothing new is to be reported: what there is to do was there before, or mio
\* has it.
Steady ==
    \A s \in Sources : Listed(s)' =>
        Listed(s) /\ edge[s] \subseteq edge'[s] /\ work'[s] \cap InterestOf[s] \subseteq work[s] \cup edge'[s]

\* What was lost stays lost, and an event is carried on or lost.
CarriedOn ==
    /\ \A s \in Sources : lost[s] \subseteq lost'[s]
    /\ \A ev \in Events : Carried(ev) =>
           Carried(ev)' \/ (ev.source \in Sources => ev.ready \subseteq lost'[ev.source])

\* Such a step keeps the account.
LEMMA AccountKept == AllAccounted /\ Steady /\ CarriedOn => AllAccounted'
<1> SUFFICES ASSUME AllAccounted, Steady, CarriedOn, NEW s \in Sources, Listed(s)',
                    NEW kind \in work'[s] \cap InterestOf[s]
             PROVE  Accounted(s, kind)'
  BY DEF AllAccounted
<1>1. kind \in edge'[s] \/ Accounted(s, kind)
  BY DEF Steady, AllAccounted
<1>2. CASE kind \in edge[s] \cup lost[s]
  BY <1>2 DEF Steady, CarriedOn, Accounted
<1>3. ASSUME NEW ev \in Events, Carried(ev), ev.source = s, kind \in ev.ready
      PROVE  Accounted(s, kind)'
  BY <1>3 DEF CarriedOn, Accounted
<1>. QED  BY <1>1, <1>2, <1>3 DEF Accounted

\* The steps of the loop, but for the poll, carry every event on.
LEMMA RunCarries ==
    ASSUME TypeOK, RunStep, ~PollReturns
    PROVE  Steady /\ CarriedOn
<1>0. /\ PoolTypes /\ HandTypes /\ batch \in Seq(Events) /\ ToSet(batch) \subseteq Events
      /\ Loop \in Threads
  BY TypeParts, Elements DEF LoopTypes, Threads
<1>1. Steady
  BY DEF RunStep, Start, CheckRunning, AskTimeout, DispatchToPool, DispatchFails, DispatchDirectly, EndDispatch,
         Tick, registryVars, Steady, Listed
<1>2. CASE Start \/ CheckRunning \/ AskTimeout \/ EndDispatch \/ Tick
  <2>1. UNCHANGED <<batch, channels, job, lost>>
    BY <1>2 DEF Start, CheckRunning, AskTimeout, EndDispatch, Tick, poolVars
  <2>. QED  BY <1>1, <2>1 DEF CarriedOn, Carried, Queued, Carries, Doing
<1>3. CASE DispatchToPool
  <2>1. /\ ToSet(batch) = {Head(batch)} \cup ToSet(batch') /\ Head(batch) \in Events
        /\ UNCHANGED <<job, lost>>
    BY <1>0, <1>3, HeadAndTail DEF DispatchToPool
  <2>2. PICK n \in Workers : channels' = [channels EXCEPT ![n] = Append(@, Head(batch))]
    BY <1>0, <1>3 DEF DispatchToPool, Exec, PoolTypes
  <2>3. /\ channels'[n] = Append(channels[n], Head(batch))
        /\ \A w \in Workers \ {n} : channels'[w] = channels[w]
        /\ channels[n] \in Seq(Events \cup {Terminate})
    BY <1>0, <2>2 DEF PoolTypes
  <2>4. ToSet(Append(channels[n], Head(batch))) = ToSet(channels[n]) \cup {Head(batch)}
    BY <2>1, <2>3, Appended
  <2>5. Head(batch) \in Queued(n)'
    BY <2>1, <2>3, <2>4, MessageAssumption DEF Queued
  <2>6. ASSUME NEW w \in Workers PROVE Queued(w) \subseteq Queued(w)'
    BY <2>3, <2>4 DEF Queued
  <2>7. ASSUME NEW ev \in Events, Carried(ev) PROVE Carried(ev)'
    <3>1. CASE ev \in ToSet(batch)
      BY <2>1, <2>5, <3>1 DEF Carried
    <3>2. ASSUME NEW w \in Workers, ev \in Queued(w) PROVE Carried(ev)'
      BY <2>6, <3>2 DEF Carried
    <3>3. ASSUME NEW t \in Threads, Carries(t), job[t].event = ev PROVE Carried(ev)'
      BY <2>1, <3>3 DEF Carried, Carries, Doing
    <3>. QED  BY <2>7, <3>1, <3>2, <3>3 DEF Carried
  <2>. QED  BY <1>1, <2>1, <2>7 DEF CarriedOn
<1>4. CASE DispatchFails
  <2>1. UNCHANGED <<channels, job>> /\ lost' = LostWith(ToSet(batch))
    BY <1>4 DEF DispatchFails, ExecFails
  <2>. QED  BY <1>0, <1>1, <2>1, LostType DEF CarriedOn, Carried, Queued, Carries, Doing
<1>5. CASE DispatchDirectly
  <2>1. /\ ToSet(batch) = {Head(batch)} \cup ToSet(batch')
        /\ UNCHANGED <<channels, lost>>
    BY <1>0, <1>5, HeadAndTail DEF DispatchDirectly, poolVars
  <2>2. Carries(Loop)' /\ job'[Loop].event = Head(batch)
    BY <1>0, <1>5 DEF DispatchDirectly, Carries, Doing, Fetched, HandTypes
  <2>3. \A t \in Threads : Carries(t) => t # Loop /\ job'[t] = job[t]
    BY <1>0, <1>5 DEF DispatchDirectly, Carries, Doing, Free, HandTypes
  <2>. QED  BY <1>0, <1>1, <2>1, <2>2, <2>3 DEF CarriedOn, Carried, Queued, Carries, Doing
<1>. QED  BY <1>1, <1>2, <1>3, <1>4, <1>5 DEF RunStep

\* So do the steps of the workers.
LEMMA WorkerCarries ==
    ASSUME TypeOK, InHand, NEW w \in Workers, WorkerStep(w)
    PROVE  Steady /\ CarriedOn
<1>0. /\ PoolTypes /\ HandTypes /\ w \in Threads
      /\ channels[w] \in Seq(Events \cup {Terminate})
  BY TypeParts DEF PoolTypes, Threads
<1>1. Steady
  BY DEF WorkerStep, Take, Leave, HandlerPanics, registryVars, Steady, Listed
<1>2. batch' = batch
  BY DEF WorkerStep, Take, Leave, HandlerPanics, loopVars
<1>3. CASE Take(w)
  <2>1. /\ channels[w] # <<>> /\ at[w] # "busy" /\ lost' = lost
        /\ channels' = [channels EXCEPT ![w] = Tail(@)]
        /\ job' = [job EXCEPT ![w] = Fetched(Head(channels[w]))]
    BY <1>3 DEF Take, ReceiveTask
  <2>2. ToSet(channels[w]) = {Head(channels[w])} \cup ToSet(Tail(channels[w]))
    BY <1>0, <2>1, HeadAndTail
  <2>3. Carries(w)' /\ job'[w].event = Head(channels[w])
    BY <1>0, <2>1 DEF Carries, Doing, Fetched, HandTypes
  <2>4. \A t \in Threads : Carries(t) => t # w /\ job'[t] = job[t]
    BY <1>0, <2>1 DEF InHand, Carries, Doing, Free, HandTypes
  <2>5. \A u \in Workers : Queued(u) \subseteq Queued(u)' \cup (IF u = w THEN {Head(channels[w])} ELSE {})
    BY <1>0, <2>1, <2>2 DEF Queued, PoolTypes
  <2>. QED  BY <1>0, <1>1, <1>2, <2>1, <2>3, <2>4, <2>5 DEF CarriedOn, Carried, Carries, Doing
<1>4. CASE Leave(w)
  <2>1. /\ channels[w] # <<>> /\ Head(channels[w]) = Terminate /\ UNCHANGED <<job, lost>>
        /\ channels' = [channels EXCEPT ![w] = Tail(@)]
    BY <1>4 DEF Leave, ReceiveTerminate
  <2>2. ToSet(channels[w]) = {Terminate} \cup ToSet(Tail(channels[w]))
    BY <1>0, <2>1, HeadAndTail
  <2>3. \A u \in Workers : Queued(u) \subseteq Queued(u)'
    BY <1>0, <2>1, <2>2 DEF Queued, PoolTypes
  <2>. QED  BY <1>1, <1>2, <2>1, <2>3 DEF CarriedOn, Carried, Carries, Doing
<1>5. CASE HandlerPanics(w)
  <2>1. /\ channels' = [channels EXCEPT ![w] = <<>>]
        /\ job' = [job EXCEPT ![w] = Free]
        /\ lost' = LostWith({job[w].event} \cup Queued(w))
        /\ job[w].step # "none"
    BY <1>5 DEF HandlerPanics, Die, Doing
  <2>2. {job[w].event} \cup Queued(w) \in SUBSET Events
    <3>1. job[w].event \in Events
      BY <1>0, <2>1, JobTypes DEF HandTypes
    <3>. QED  BY <1>0, <3>1, Elements DEF Queued
  <2>3. /\ \A s \in Sources : lost[s] \subseteq lost'[s]
        /\ \A ev \in {job[w].event} \cup Queued(w) : ev.source \in Sources => ev.ready \subseteq lost'[ev.source]
    BY <1>0, <2>1, <2>2, LostType
  <2>4. \A u \in Workers \ {w} : Queued(u)' = Queued(u)
    BY <1>0, <2>1 DEF Queued, PoolTypes
  <2>5. \A t \in Threads \ {w} : job'[t] = job[t]
    BY <1>0, <2>1 DEF HandTypes
  <2>. QED  BY <1>1, <1>2, <2>3, <2>4, <2>5 DEF CarriedOn, Carried, Carries, Doing
<1>. QED  BY <1>3, <1>4, <1>5, <1>1 DEF WorkerStep

\* A thread that looks for the handler finds the event's, or the event is lost.
LEMMA LookupCarries ==
    ASSUME TypeOK, NEW t \in Threads, Lookup(t) \/ CallHandler(t)
    PROVE  Steady /\ CarriedOn
<1>0. HandTypes /\ job[t] \in Jobs
  BY TypeParts DEF HandTypes
<1>1. Steady
  BY DEF Lookup, CallHandler, registryVars, Steady, Listed
<1>2. UNCHANGED <<batch, channels>>
  BY DEF Lookup, CallHandler, Done, FinishTask, poolVars, loopVars
<1>3. \A u \in Threads \ {t} : job'[u] = job[u]
  BY <1>0 DEF Lookup, CallHandler, Done, HandTypes
<1>4. CASE CallHandler(t)
  <2>1. job' = [job EXCEPT ![t] = [job[t] EXCEPT !.step = "running"]] /\ lost' = lost
    BY <1>4 DEF CallHandler
  <2>2. job[t] \in [step : {"lookup", "found", "running"}, event : Events, handler : Sources \cup {None}]
    BY <1>0, <1>4 DEF CallHandler, Doing, Jobs, Free
  <2>3. /\ job'[t].event = job[t].event /\ job'[t].handler = job[t].handler
        /\ job'[t].step = "running" /\ job[t].step = "found"
    BY <1>0, <1>4, <2>1, <2>2 DEF CallHandler, Doing, HandTypes
  <2>4. Carries(t) => Carries(t)'
    BY <2>3 DEF Carries, Doing, Free
  <2>. QED  BY <1>1, <1>2, <1>3, <2>1, <2>3, <2>4 DEF CarriedOn, Carried, Queued, Carries, Doing
<1>5. CASE Lookup(t)
  <2> DEFINE ev == job[t].event
             found == registry[ev.token]
  <2>1. job[t].step = "lookup" /\ ev \in Events
    BY <1>0, <1>5, JobTypes DEF Lookup, Doing
  <2>2. CASE Wanted(found, ev) /\ found = ev.source
    <3>1. job' = [job EXCEPT ![t] = [job[t] EXCEPT !.step = "found", !.handler = found]] /\ lost' = lost
      BY <1>5, <2>2 DEF Lookup
    <3>2. job[t] \in [step : {"lookup", "found", "running"}, event : Events, handler : Sources \cup {None}]
      BY <1>0, <2>1 DEF Jobs, Free
    <3>3. job'[t].event = ev /\ job'[t].handler = ev.source /\ job'[t].step = "found"
      BY <1>0, <2>2, <3>1, <3>2 DEF HandTypes
    <3>4. Carries(t)'
      BY <3>3 DEF Carries, Free
    <3>5. \A u \in Threads : Carries(u) => Carries(u)' /\ job'[u].event = job[u].event
      <4>1. \A u \in Threads \ {t} : Carries(u) => Carries(u)'
        BY <1>3 DEF Carries, Doing
      <4>. QED  BY <1>3, <3>3, <3>4, <4>1
    <3>6. lost' = lost /\ \A w \in Workers : Queued(w)' = Queued(w)
      BY <1>2, <3>1 DEF Queued
    <3>. QED  BY <1>1, <1>2, <3>5, <3>6 DEF CarriedOn, Carried
  <2>3. CASE ~(Wanted(found, ev) /\ found = ev.source)
    <3>1. lost' = LostWith({ev})
      BY <1>5, <2>3 DEF Lookup
    <3>2. /\ \A s \in Sources : lost[s] \subseteq lost'[s]
          /\ ev.source \in Sources => ev.ready \subseteq lost'[ev.source]
      BY <1>0, <2>1, <3>1, LostType
    <3>. QED  BY <1>1, <1>2, <1>3, <3>2 DEF CarriedOn, Carried, Queued, Carries, Doing
  <2>. QED  BY <2>2, <2>3
<1>. QED  BY <1>4, <1>5

\* The other threads, and the ends of run(), leave every event where it is.
LEMMA OthersCarry ==
    ASSUME TypeOK, ChannelsInOrder,
           \/ \E c \in Callers : Stop(c) \/ Wake(c) \/ \E delay \in Delays : Schedule(c, delay)
           \/ \E s \in Sources : ChangeRegistry(s) \/ \E kind \in Kinds : BecomeReady(s, kind)
           \/ CallRun \/ PollFails \/ HandlerPanicsInLoop \/ Drop \/ JoinWorker \/ AdvanceClock
           \/ UNCHANGED vars
    PROVE  Steady /\ CarriedOn
<1>0. /\ PoolTypes /\ RegistryTypes /\ HandTypes /\ ToSet(batch) \subseteq Events
      /\ Loop \in Threads /\ Loop \notin Workers
  BY TypeParts, Elements, ReactorAssumption DEF LoopTypes, Threads
<1>a. ASSUME UNCHANGED <<batch, channels, job, lost>> PROVE CarriedOn
  BY <1>a DEF CarriedOn, Carried, Queued, Carries, Doing
<1>b. ASSUME UNCHANGED registryVars PROVE Steady
  BY <1>b DEF Steady, Listed, registryVars
<1>1. ASSUME NEW c \in Callers, Stop(c) \/ \E delay \in Delays : Schedule(c, delay)
      PROVE  Steady /\ CarriedOn
  BY <1>1, <1>a, <1>b DEF Stop, Schedule, poolVars, loopVars
<1>2. ASSUME NEW c \in Callers, Wake(c) PROVE Steady /\ CarriedOn
  <2>1. \A s \in Sources : edge'[s] = edge[s]
    BY <1>0, <1>2, RegistryAssumption DEF Wake, RegistryTypes
  <2>. QED  BY <1>2, <1>a, <2>1 DEF Wake, poolVars, loopVars, Steady, Listed
<1>3. ASSUME NEW s \in Sources, ChangeRegistry(s) PROVE Steady /\ CarriedOn
  <2>1. Steady
    BY <1>0, <1>3, RegistryAssumption DEF ChangeRegistry, InsertHandler, DeregisterSource, RemoveHandler, Steady,
                                          Listed, RegistryTypes
  <2>. QED  BY <1>3, <1>a, <2>1 DEF ChangeRegistry, poolVars, loopVars
<1>4. ASSUME NEW s \in Sources, NEW kind \in Kinds, BecomeReady(s, kind) PROVE Steady /\ CarriedOn
  <2>1. /\ owner' = owner
        /\ \A r \in Sources \ {s} : work'[r] = work[r] /\ edge'[r] = edge[r]
        /\ work'[s] = work[s] \cup {kind}
        /\ edge'[s] = IF Listed(s) THEN edge[s] \cup ({kind} \cap InterestOf[s]) ELSE edge[s]
    BY <1>0, <1>4 DEF BecomeReady, Arrive, RegistryTypes, Listed
  <2>2. Steady
    BY <2>1 DEF Steady, Listed
  <2>. QED  BY <1>4, <1>a, <2>2 DEF BecomeReady, poolVars, loopVars
<1>5. CASE CallRun \/ PollFails \/ JoinWorker \/ AdvanceClock \/ UNCHANGED vars
  BY <1>5, <1>a, <1>b DEF CallRun, PollFails, JoinWorker, AdvanceClock, Join, vars, poolVars, loopVars
<1>6. CASE Drop
  <2>1. \A w \in Workers : Queued(w) \subseteq Queued(w)'
    <3>1. ASSUME NEW w \in Workers PROVE Queued(w) \subseteq Queued(w)'
      <4>1. channels'[w] = WithTerminate(w) /\ channels[w] \in Seq(Events \cup {Terminate})
        BY <1>0, <1>6 DEF Drop, SendTerminate, PoolTypes
      <4>2. CASE at[w] = "dead"
        BY <4>1, <4>2 DEF ChannelsInOrder, WithTerminate, Queued
      <4>3. CASE at[w] # "dead"
        <5>1. channels'[w] = Append(channels[w], Terminate)
          BY <4>1, <4>3 DEF WithTerminate
        <5>2. ToSet(Append(channels[w], Terminate)) = ToSet(channels[w]) \cup {Terminate}
          BY <4>1, Appended
        <5>. QED  BY <5>1, <5>2 DEF Queued
      <4>. QED  BY <4>2, <4>3
    <3>. QED  BY <3>1
  <2>2. UNCHANGED <<batch, job, lost, registryVars>>
    BY <1>6 DEF Drop, loopVars
  <2>. QED  BY <1>b, <2>1, <2>2 DEF CarriedOn, Carried, Carries, Doing
<1>7. CASE HandlerPanicsInLoop
  <2>1. /\ lost' = LostWith({job[Loop].event} \cup ToSet(batch)) /\ UNCHANGED <<channels, registryVars>>
        /\ \A t \in Threads \ {Loop} : job'[t] = job[t]
    BY <1>0, <1>7 DEF HandlerPanicsInLoop, poolVars, HandTypes
  <2>2. job[Loop].event \in Events
    BY <1>0, <1>7, JobTypes DEF HandlerPanicsInLoop, Doing, HandTypes
  <2>3. {job[Loop].event} \cup ToSet(batch) \in SUBSET Events
    BY <1>0, <2>2
  <2>4. /\ \A s \in Sources : lost[s] \subseteq lost'[s]
        /\ \A ev \in {job[Loop].event} \cup ToSet(batch) : ev.source \in Sources => ev.ready \subseteq lost'[ev.source]
    BY <1>0, <2>1, <2>3, LostType
  <2>. QED  BY <1>b, <2>1, <2>4 DEF CarriedOn, Carried, Queued, Carries, Doing
<1>. QED  BY <1>1, <1>2, <1>3, <1>4, <1>5, <1>6, <1>7

\* A source that is registered anew has everything still to report.
LEMMA RegisterAccounts ==
    ASSUME TypeOK, AllAccounted, NEW r \in Sources, Register(r)
    PROVE  AllAccounted'
<1>0. RegistryTypes /\ HandTypes
  BY TypeParts
<1>1. /\ work' = work
      /\ edge'[r] = work[r] \cap InterestOf[r]
      /\ \A s \in Sources \ {r} : owner'[s] = owner[s] /\ edge'[s] = edge[s] /\ lost'[s] = lost[s]
  BY <1>0 DEF Register, RegisterSource, RegistryTypes, HandTypes
<1>2. \A ev \in Events : Carried(ev)' = Carried(ev)
  BY DEF Register, Carried, Queued, Carries, Doing, poolVars, loopVars
<1> SUFFICES ASSUME NEW s \in Sources, Listed(s)', NEW kind \in work'[s] \cap InterestOf[s]
             PROVE  Accounted(s, kind)'
  BY DEF AllAccounted
<1>3. CASE s = r
  BY <1>1, <1>3 DEF Accounted
<1>4. CASE s # r
  <2>1. Accounted(s, kind)
    BY <1>1, <1>4 DEF AllAccounted, Listed
  <2>. QED  BY <1>1, <1>2, <1>4, <2>1 DEF Accounted
<1>. QED  BY <1>3, <1>4

\* What a poll takes from mio is in its events, and no batch was left.
LEMMA PollAccounts ==
    ASSUME TypeOK, InHand, AllAccounted, PollReturns
    PROVE  AllAccounted'
<1>0. RegistryTypes
  BY TypeParts
<1>1. PICK reported \in SUBSET Ready :
          /\ edge' = Reported(reported)
          /\ \E order \in SetToSeqs(reported) : batch' = [i \in 1 .. Len(order) |-> EventOf(order[i])]
  BY DEF PollReturns, kSubset
<1>2. ToSet(batch') = {EventOf(x) : x \in reported} /\ ToSet(batch') \subseteq Events
  BY <1>0, <1>1, Polled, Elements
<1>3. ToSet(batch) = {} /\ UNCHANGED <<channels, job, owner, work, lost>>
  BY Elements DEF PollReturns, InHand, poolVars
<1>4. \A ev \in Events : Carried(ev) => Carried(ev)'
  BY <1>3 DEF Carried, Queued, Carries, Doing
<1>5. \A ev \in ToSet(batch') : Carried(ev)'
  BY DEF Carried
<1> SUFFICES ASSUME NEW s \in Sources, Listed(s)', NEW kind \in work'[s] \cap InterestOf[s]
             PROVE  Accounted(s, kind)'
  BY DEF AllAccounted
<1>6. Accounted(s, kind)
  BY <1>3 DEF AllAccounted, Listed
<1>7. CASE kind \in edge[s] /\ s \in reported
  <2>1. EventOf(s) \in ToSet(batch') /\ EventOf(s).source = s /\ kind \in EventOf(s).ready
    BY <1>2, <1>7 DEF EventOf
  <2>. QED  BY <1>2, <1>5, <2>1 DEF Accounted
<1>8. CASE kind \in edge[s] /\ s \notin reported
  BY <1>1, <1>8 DEF Reported, Accounted
<1>9. CASE kind \notin edge[s]
  BY <1>3, <1>4, <1>6, <1>9 DEF Accounted
<1>. QED  BY <1>7, <1>8, <1>9

\* A handler that returns has done what its event reported, and no more.
LEMMA ReturnAccounts ==
    ASSUME TypeOK, AllAccounted, NEW t \in Threads, HandlerReturns(t)
    PROVE  AllAccounted'
<1> DEFINE taken == job[t].event.ready
<1>0. RegistryTypes /\ HandTypes
  BY TypeParts
<1>1. /\ UNCHANGED <<owner, edge, batch, channels>>
      /\ job[t].step = "running" /\ \A u \in Threads \ {t} : job'[u] = job[u]
  BY <1>0 DEF HandlerReturns, Doing, Done, FinishTask, poolVars, loopVars, HandTypes
<1>2. \A s \in Sources : /\ work'[s] = IF s = job[t].handler THEN work[s] \ taken ELSE work[s]
                         /\ lost'[s] = IF s = job[t].handler THEN lost[s] \ taken ELSE lost[s]
  BY <1>0 DEF HandlerReturns, RegistryTypes, HandTypes
<1> SUFFICES ASSUME NEW s \in Sources, Listed(s)', NEW kind \in work'[s] \cap InterestOf[s]
             PROVE  Accounted(s, kind)'
  BY DEF AllAccounted
<1>3. Accounted(s, kind) /\ (s = job[t].handler => kind \notin taken)
  BY <1>1, <1>2 DEF AllAccounted, Listed
<1>4. CASE kind \in edge[s] \cup lost[s]
  BY <1>1, <1>2, <1>3, <1>4 DEF Accounted
<1>5. ASSUME NEW ev \in Events, Carried(ev), ev.source = s, kind \in ev.ready
      PROVE  Accounted(s, kind)'
  <2>1. ~(Carries(t) /\ job[t].event = ev)
    BY <1>1, <1>3, <1>5 DEF Carries, Doing
  <2>2. Carried(ev)'
    BY <1>1, <1>5, <2>1 DEF Carried, Queued, Carries, Doing
  <2>. QED  BY <1>5, <2>2 DEF Accounted
<1>. QED  BY <1>3, <1>4, <1>5 DEF Accounted

\* Every step keeps the account.
LEMMA AccountStep == TypeOK /\ ChannelsInOrder /\ InHand /\ AllAccounted /\ [Next]_vars => AllAccounted'
<1> SUFFICES ASSUME TypeOK, ChannelsInOrder, InHand, AllAccounted, [Next]_vars PROVE AllAccounted'
  OBVIOUS
<1>1. CASE RunStep
  <2>1. CASE PollReturns
    BY <2>1, PollAccounts
  <2>2. CASE ~PollReturns
    BY <1>1, <2>2, RunCarries, AccountKept
  <2>. QED  BY <2>1, <2>2
<1>2. ASSUME NEW w \in Workers, WorkerStep(w) PROVE AllAccounted'
  BY <1>2, WorkerCarries, AccountKept
<1>3. ASSUME NEW t \in Threads, ThreadStep(t) PROVE AllAccounted'
  <2>1. CASE HandlerReturns(t)
    BY <2>1, ReturnAccounts
  <2>2. CASE Lookup(t) \/ CallHandler(t)
    BY <2>2, LookupCarries, AccountKept
  <2>. QED  BY <1>3, <2>1, <2>2 DEF ThreadStep
<1>4. ASSUME NEW r \in Sources, Register(r) PROVE AllAccounted'
  BY <1>4, RegisterAccounts
<1>5. CASE \/ \E c \in Callers : Stop(c) \/ Wake(c) \/ \E delay \in Delays : Schedule(c, delay)
           \/ \E s \in Sources : ChangeRegistry(s) \/ \E kind \in Kinds : BecomeReady(s, kind)
           \/ CallRun \/ PollFails \/ HandlerPanicsInLoop \/ Drop \/ JoinWorker \/ AdvanceClock
           \/ UNCHANGED vars
  BY <1>5, OthersCarry, AccountKept
<1>. QED  BY <1>1, <1>2, <1>3, <1>4, <1>5 DEF Next

\* What a registered source is ready for is still to be reported by mio, or an
\* event on its way reports it, or one of the losses that the model records has
\* taken it: whatever the events' order and threads, and although the handlers
\* are looked up late and tokens may be shared (reactor.rs l.128-151, poll.rs
\* l.36-76).
THEOREM NoReadinessForgotten == Spec => []ReadinessAccounted
<1>1. Init => InHand /\ AllAccounted
  <2>1. Init => InHand
    BY ReactorAssumption DEF Init, InHand, PoolInit, Threads
  <2>2. Init => AllAccounted
    BY DEF Init, AllAccounted, Listed, RegistryInit
  <2>. QED  BY <2>1, <2>2
<1>2. TypeOK /\ ChannelsInOrder /\ InHand /\ AllAccounted /\ [Next]_vars => InHand' /\ AllAccounted'
  BY InHandStep, AccountStep
<1>3. TypeOK /\ AllAccounted => ReadinessAccounted
  BY AccountedInFlight
<1>. QED  BY <1>1, <1>2, <1>3, InOrder, PTL DEF Spec

================================================================================
