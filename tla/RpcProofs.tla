--------------------------------- MODULE RpcProofs -------------------------------
(***************************************************************************)
(* Proofs about Rpc: that no caller sleeps beside its answer, that the map *)
(* of pending requests holds nothing but the requests of callers that will *)
(* take them out, that the variables have their types, and that frames     *)
(* come out of the buffers as they were sent, for any number of callers,   *)
(* requests and workers, any services and any network.                     *)
(***************************************************************************)
EXTENDS Rpc, WireProofs, FiniteSetTheorems

--------------------------------------------------------------------------------
(***************************************************************************)
(* The inductive invariant.                                                *)
(***************************************************************************)
Active(c) == ~At(c, "idle")

\* The variables that callers share, as far as the argument needs them.
CallTypes ==
    /\ next_request_id \in 1 .. MaxRequests + 1
    /\ pending = [id \in Ids |-> pending[id]]
    /\ requests = [id \in Ids |-> requests[id]]
    /\ caller \in [Callers -> [step : Calling, id : Ids \cup {None}]]

\* An active caller has an id that was given out, and no other has it.
IdsGivenOut == \A c \in Callers : Active(c) => IdOf(c) \in 1 .. next_request_id - 1
IdsDistinct == \A c, d \in Callers : Active(c) /\ Active(d) /\ IdOf(c) = IdOf(d) => c = d

\* An entry in the map is that of an active caller.
EntriesOwned == \A id \in Ids : pending[id] # None => \E c \in Callers : Active(c) /\ IdOf(c) = id

\* A one-way call has no entry.
OneWayUnlisted ==
    \A c \in Callers : At(c, "send") /\ requests[IdOf(c)].one_way => pending[IdOf(c)] = None

IInv ==
    /\ CallTypes
    /\ IdsGivenOut
    /\ IdsDistinct
    /\ EntriesOwned
    /\ OneWayUnlisted
    /\ NoSleeperAnswered

\* Nobody has called yet.
LEMMA InitIInv == Init => IInv
<1> SUFFICES ASSUME Init PROVE IInv
  OBVIOUS
<1> USE RpcClientAssumption DEF Init, RpcClientInit
<1>1. CallTypes
  BY DEF CallTypes, Calling, AtEase, Ids
<1>2. \A c \in Callers : At(c, "idle")
  BY DEF At, AtEase
<1>3. IdsGivenOut /\ IdsDistinct /\ EntriesOwned
  BY <1>2 DEF IdsGivenOut, IdsDistinct, EntriesOwned, Active
<1>4. OneWayUnlisted /\ NoSleeperAnswered
  BY <1>2 DEF OneWayUnlisted, NoSleeperAnswered, At
<1>. QED  BY <1>1, <1>3, <1>4 DEF IInv

\* The ids given out are ids.
LEMMA ActiveIds ==
    ASSUME IInv
    PROVE  \A c \in Callers : Active(c) => IdOf(c) \in Ids
BY RpcClientAssumption DEF IInv, CallTypes, IdsGivenOut, Ids

\* A caller takes a new id, and makes an entry for it or not.
LEMMA BeginIInv ==
    ASSUME IInv, NEW c \in Callers, NEW call \in Calls, Begin(c, call)
    PROVE  IInv'
<1> USE RpcClientAssumption DEF IInv, Begin, IdOf, Active, At
<1> DEFINE n == next_request_id
<1>1. n \in Ids /\ next_request_id' = n + 1 /\ n \in Nat
  BY DEF CallTypes, Ids
<1>2. caller' = [caller EXCEPT ![c] = [step |-> "send", id |-> n]]
  OBVIOUS
<1>3. CallTypes'
  <2>1. next_request_id' \in 1 .. MaxRequests + 1
    BY <1>1 DEF Ids
  <2>2. pending' = [id \in Ids |-> pending'[id]]
    BY DEF CallTypes
  <2>3. caller' \in [Callers -> [step : Calling, id : Ids \cup {None}]]
    BY <1>1, <1>2 DEF CallTypes, Calling
  <2>4. requests' = [id \in Ids |-> requests'[id]]
    BY DEF CallTypes
  <2>. QED  BY <2>1, <2>2, <2>3, <2>4 DEF CallTypes
<1>4. /\ IdOf(c)' = n /\ Active(c)' /\ ~At(c, "asleep")'
      /\ \A d \in Callers \ {c} : caller'[d] = caller[d]
  BY <1>2 DEF CallTypes, IdOf, Active, At
<1>5. \A d \in Callers \ {c} : /\ IdOf(d)' = IdOf(d) /\ (Active(d)' <=> Active(d))
                               /\ (At(d, "asleep")' <=> At(d, "asleep"))
  BY <1>4 DEF IdOf, Active, At
<1>6. ~Active(c)
  BY DEF Active
<1>7. IdsGivenOut' /\ IdsDistinct'
  <2>1. \A d \in Callers \ {c} : Active(d) => IdOf(d) \in 1 .. n - 1
    BY DEF IdsGivenOut
  <2>2. IdsGivenOut'
    <3> SUFFICES ASSUME NEW d \in Callers, Active(d)'
                 PROVE  IdOf(d)' \in 1 .. next_request_id' - 1
      BY DEF IdsGivenOut
    <3>1. CASE d = c
      BY <1>1, <1>4, <3>1 DEF Ids
    <3>2. CASE d # c
      BY <1>1, <1>5, <2>1, <3>2
    <3>. QED  BY <3>1, <3>2
  <2>3. IdsDistinct'
    BY <1>1, <1>4, <1>5, <2>1 DEF IdsDistinct
  <2>. QED  BY <2>2, <2>3
<1>8. \A id \in Ids \ {n} : pending'[id] = pending[id]
  BY <1>1 DEF CallTypes
<1>9. EntriesOwned'
  BY <1>1, <1>4, <1>5, <1>6, <1>8 DEF EntriesOwned
<1>10. \A d \in Callers : At(d, "asleep") => IdOf(d) \in Ids \ {n}
  <2>1. \A d \in Callers : At(d, "asleep") => Active(d)
    BY DEF Active, At
  <2>. QED  BY <1>1, <2>1, ActiveIds DEF IdsGivenOut
<1>11. NoSleeperAnswered'
  BY <1>4, <1>5, <1>8, <1>10 DEF NoSleeperAnswered
<1>12. OneWayUnlisted'
  <2>1. pending[n] = None
    BY <1>1 DEF EntriesOwned, IdsGivenOut, Ids
  <2>2. requests'[n].one_way => pending'[n] = None
    BY <1>1, <2>1 DEF CallTypes
  <2>3. \A d \in Callers : Active(d) => IdOf(d) \in Ids \ {n}
    BY <1>1, ActiveIds DEF IdsGivenOut
  <2>4. \A id \in Ids \ {n} : requests'[id] = requests[id]
    BY <1>1 DEF CallTypes
  <2>5. \A d \in Callers \ {c} :
            At(d, "send")' /\ requests'[IdOf(d)'].one_way => pending'[IdOf(d)'] = None
    BY <1>4, <1>8, <2>3, <2>4 DEF OneWayUnlisted
  <2>. QED  BY <1>4, <2>2, <2>5 DEF OneWayUnlisted
<1>. QED  BY <1>3, <1>7, <1>9, <1>11, <1>12

\* A caller leaves, and takes its entry with it, if there is one.
LEMMA LeaveIInv ==
    ASSUME IInv, NEW c \in Callers, Active(c),
           caller' = [caller EXCEPT ![c] = AtEase],
           \/ pending' = Forget(IdOf(c))
           \/ pending' = pending /\ pending[IdOf(c)] = None,
           UNCHANGED <<next_request_id, requests>>
    PROVE  IInv'
<1> USE DEF IInv, IdOf, Active, At
<1>1. IdOf(c) \in Ids
  BY ActiveIds
<1>2. /\ ~Active(c)' /\ ~At(c, "asleep")'
      /\ \A d \in Callers \ {c} : caller'[d] = caller[d]
  BY DEF CallTypes, AtEase, Active, At
<1>3. \A d \in Callers \ {c} : /\ IdOf(d)' = IdOf(d) /\ (Active(d)' <=> Active(d))
                               /\ (At(d, "asleep")' <=> At(d, "asleep"))
  BY <1>2 DEF IdOf, Active, At
<1>4. \A id \in Ids \ {IdOf(c)} : pending'[id] = pending[id]
  BY DEF CallTypes, Forget
<1>5. pending'[IdOf(c)] = None
  BY <1>1 DEF CallTypes, Forget
<1>6. CallTypes'
  BY DEF CallTypes, Calling, AtEase, Forget
<1>7. IdsGivenOut' /\ IdsDistinct'
  BY <1>2, <1>3 DEF IdsGivenOut, IdsDistinct
<1>8. EntriesOwned'
  BY <1>2, <1>3, <1>4, <1>5 DEF EntriesOwned
<1>9. \A d \in Callers \ {c} : Active(d) => IdOf(d) \in Ids \ {IdOf(c)}
  BY ActiveIds DEF IdsDistinct
<1>10. NoSleeperAnswered' /\ OneWayUnlisted'
  <2>1. NoSleeperAnswered'
    BY <1>2, <1>3, <1>4, <1>9 DEF NoSleeperAnswered
  <2>2. OneWayUnlisted'
    BY <1>2, <1>4, <1>9 DEF OneWayUnlisted, AtEase
  <2>. QED  BY <2>1, <2>2
<1>. QED  BY <1>6, <1>7, <1>8, <1>10

\* A caller goes on with its request, and does not fall asleep beside an answer.
LEMMA GoOnIInv ==
    ASSUME IInv, NEW c \in Callers, Active(c),
           NEW step \in {"look", "asleep", "late"}, GoOn(c, step),
           step = "asleep" => pending[IdOf(c)] = Waiting,
           UNCHANGED <<pending, next_request_id, requests>>
    PROVE  IInv'
<1> USE DEF IInv, GoOn, IdOf, Active, At
<1>1. /\ IdOf(c)' = IdOf(c) /\ Active(c)' /\ (At(c, "asleep")' <=> step = "asleep")
      /\ \A d \in Callers \ {c} : caller'[d] = caller[d]
  BY DEF CallTypes, IdOf, Active, At
<1>2. \A d \in Callers : IdOf(d)' = IdOf(d) /\ (Active(d)' <=> Active(d))
  BY <1>1 DEF IdOf, Active, At
<1>3. \A d \in Callers \ {c} : (At(d, "asleep")' <=> At(d, "asleep"))
  BY <1>1 DEF At
<1>4. CallTypes'
  BY DEF CallTypes, Calling
<1>5. IdsGivenOut' /\ IdsDistinct' /\ EntriesOwned'
  BY <1>2 DEF IdsGivenOut, IdsDistinct, EntriesOwned
<1>6. NoSleeperAnswered' /\ OneWayUnlisted'
  BY <1>1, <1>2, <1>3 DEF NoSleeperAnswered, OneWayUnlisted, CallTypes
<1>. QED  BY <1>4, <1>5, <1>6

\* A response completes requests that somebody waits for, and wakes everybody.
LEMMA HandleIInv ==
    ASSUME IInv, NEW x \in ClientWorkers, HandleResponse(x)
    PROVE  IInv'
<1> USE DEF IInv, IdOf, Active, At
<1>0. UNCHANGED <<next_request_id, requests>>
  BY DEF HandleResponse
<1>1. CASE UNCHANGED <<pending, caller>>
  BY <1>0, <1>1 DEF CallTypes, IdsGivenOut, IdsDistinct, EntriesOwned, NoSleeperAnswered, OneWayUnlisted
<1>2. CASE caller' = Woken /\ \E id : \E result :
             pending' = [i \in Ids |-> IF i \in Completed(id) THEN result ELSE pending[i]]
  <2>1. PICK id, result :
             pending' = [i \in Ids |-> IF i \in Completed(id) THEN result ELSE pending[i]]
    BY <1>2
  <2>2. \A d \in Callers : IdOf(d)' = IdOf(d) /\ (Active(d)' <=> Active(d)) /\ ~At(d, "asleep")'
    BY <1>2 DEF Woken, IdOf, Active, At, CallTypes
  <2>3. CallTypes'
    BY <1>0, <1>2, <2>1 DEF CallTypes, Woken, Calling, At
  <2>4. \A i \in Ids : pending'[i] # None => pending[i] # None
    BY <2>1 DEF Completed
  <2>5. IdsGivenOut' /\ IdsDistinct'
    BY <1>0, <2>2 DEF IdsGivenOut, IdsDistinct
  <2>6. EntriesOwned' /\ NoSleeperAnswered'
    BY <2>2, <2>4 DEF EntriesOwned, NoSleeperAnswered
  <2>7. \A d \in Callers : At(d, "send")' => At(d, "send") /\ IdOf(d) \in Ids
    BY <1>2, ActiveIds DEF Woken, CallTypes
  <2>8. OneWayUnlisted'
    BY <1>0, <2>2, <2>4, <2>7 DEF OneWayUnlisted
  <2>. QED  BY <2>3, <2>5, <2>6, <2>8
<1>. QED  BY ZenonT(30), <1>1, <1>2 DEF HandleResponse

--------------------------------------------------------------------------------
(***************************************************************************)
(* The steps.                                                              *)
(***************************************************************************)
\* The steps of a caller keep the invariant.
LEMMA CallerIInv ==
    ASSUME IInv, NEW c \in Callers, Caller(c)
    PROVE  IInv'
<1>1. CASE \E call \in Calls : Begin(c, call)
  BY <1>1, BeginIInv
<1>2. CASE SendRequest(c)
  <2> USE <1>2 DEF SendRequest
  <2>1. Active(c) /\ At(c, "send")
    BY DEF Active, At
  <2>2. CASE requests[IdOf(c)].one_way
    <3>1. pending[IdOf(c)] = None
      BY <2>1, <2>2 DEF IInv, OneWayUnlisted
    <3>. QED  BY <2>1, <2>2, <3>1, LeaveIInv DEF Return
  <2>3. CASE ~requests[IdOf(c)].one_way
    BY <2>1, <2>3, GoOnIInv
  <2>. QED  BY <2>2, <2>3
<1>3. CASE SendFails(c) \/ TakeResult(c) \/ GiveUp(c)
  <2>1. Active(c)
    BY <1>3 DEF SendFails, TakeResult, GiveUp, Active, At
  <2>. QED  BY <1>3, <2>1, LeaveIInv DEF SendFails, TakeResult, GiveUp, Return
<1>4. CASE Wait(c)
  <2> USE <1>4 DEF Wait
  <2>1. Active(c) /\ pending[IdOf(c)] = Waiting
    BY DEF Active, At
  <2>2. CASE GoOn(c, "asleep") /\ UNCHANGED <<pending, outcome>>
    BY <2>1, <2>2, GoOnIInv
  <2>3. CASE Return(c, Err(DeadlineExceeded)) /\ pending' = Forget(IdOf(c))
    BY <2>1, <2>3, LeaveIInv DEF Return
  <2>. QED  BY <2>2, <2>3
<1>5. CASE WaitEnds(c)
  <2>1. Active(c)
    BY <1>5 DEF WaitEnds, Active, At
  <2>. QED  BY <1>5, <2>1, GoOnIInv DEF WaitEnds
<1>. QED
  BY <1>1, <1>2, <1>3, <1>4, <1>5 DEF Caller, CallerStep, CallerSends, CallerFails

\* Steps that leave the callers and what they share alone.
LEMMA ElseIInv ==
    ASSUME IInv, UNCHANGED <<next_request_id, pending, caller, requests>>
    PROVE  IInv'
BY DEF IInv, CallTypes, IdsGivenOut, IdsDistinct, EntriesOwned, OneWayUnlisted, NoSleeperAnswered,
       Active, At, IdOf

\* What the workers of the client do keeps the invariant.
LEMMA ClientWorkerIInv ==
    ASSUME IInv, NEW x \in ClientWorkers, ClientWorker(x)
    PROVE  IInv'
<1>1. CASE ClientHandles(x)
  BY <1>1, HandleIInv DEF ClientHandles
<1>2. CASE ClientReads(x) \/ RawReceive(x) \/ ClientReceives(x)
  BY <1>2, ElseIInv DEF ClientReads, RawReceive, ClientReceives, ReceiveData, callVars
<1>. QED  BY <1>1, <1>2 DEF ClientWorker

\* The workers of the server leave the callers alone.
LEMMA ServerWorkerIInv ==
    ASSUME IInv, NEW w \in ServerWorkers, ServerWorker(w)
    PROVE  IInv'
BY ElseIInv DEF ServerWorker, ServerStep, ServerBuffer, ServerReads, ServerReceives, ServerHandles,
                ServerFails, ServerReplies, callVars

\* Every step keeps the invariant.
LEMMA NextIInv == IInv /\ [Next]_vars => IInv'
<1> SUFFICES ASSUME IInv, [Next]_vars PROVE IInv'
  OBVIOUS
<1>1. CASE Network \/ ClientStep \/ ServerCloses \/ \E frame \in RawFrames : RawSend(frame)
  BY <1>1, ElseIInv DEF Network, ClientStep, ServerCloses, RawSend, callVars
<1>2. CASE \E c \in Callers : Caller(c)
  BY <1>2, CallerIInv
<1>3. CASE \E x \in ClientWorkers : ClientWorker(x)
  BY <1>3, ClientWorkerIInv
<1>4. CASE \E w \in ServerWorkers : ServerWorker(w)
  BY <1>4, ServerWorkerIInv
<1>5. CASE UNCHANGED vars
  BY <1>5, ElseIInv DEF vars, callVars
<1>. QED  BY <1>1, <1>2, <1>3, <1>4, <1>5 DEF Next

\* Callers and the map of pending requests agree in every reachable state
\* (client.rs l.80-257).
THEOREM Invariant == Spec => []IInv
BY InitIInv, NextIInv, PTL DEF Spec

--------------------------------------------------------------------------------
(***************************************************************************)
(* The services.                                                           *)
(***************************************************************************)
ServiceMaps == UNION {[D -> DOMAIN Methods] : D \in SUBSET Nat}
Built == [next : Nat, map : ServiceMaps]

\* One registration more yields services as well.
LEMMA AddServiceIs ==
    ASSUME NEW built \in Built, NEW n \in 1 .. Len(Registrations)
    PROVE  AddService(built, Registrations[n]) \in Built
<1>1. Registrations[n] \in [explicit : BOOLEAN, id : Nat, service : DOMAIN Methods]
  <2>. PICK R : R = [explicit : BOOLEAN, id : Nat, service : DOMAIN Methods]
    OBVIOUS
  <2>1. Registrations \in Seq(R)
    BY RpcServerAssumption
  <2>2. Registrations[n] \in R
    BY <2>1, ElementOfSeq
  <2>. QED  BY <2>2
<1>. PICK r \in [explicit : BOOLEAN, id : Nat, service : DOMAIN Methods] : r = Registrations[n]
  BY <1>1
<1>. PICK id \in Nat : id = IF r.explicit THEN r.id ELSE built.next
  BY DEF Built
<1>. PICK D \in SUBSET Nat : built.map \in [D -> DOMAIN Methods]
  BY DEF Built, ServiceMaps
<1>2. [i \in D \cup {id} |-> IF i = id THEN r.service ELSE built.map[i]] \in [D \cup {id} -> DOMAIN Methods]
  OBVIOUS
<1>. PICK E : E = D \cup {id}
  OBVIOUS
<1>a. E \in SUBSET Nat /\ DOMAIN built.map \cup {id} = E
  OBVIOUS
<1>. PICK map : map = [i \in E |-> IF i = id THEN r.service ELSE built.map[i]]
  OBVIOUS
<1>b. map \in [E -> DOMAIN Methods]
  BY <1>2
<1>c. map \in ServiceMaps
  BY <1>a, <1>b DEF ServiceMaps
<1>3. AddService(built, r) = [next |-> IF r.explicit THEN built.next ELSE built.next + 1, map |-> map]
  BY <1>a DEF AddService
<1>4. (IF r.explicit THEN built.next ELSE built.next + 1) \in Nat
  BY DEF Built
<1>. QED  BY <1>3, <1>4, <1>c DEF Built

\* Whatever is registered, the builder's map gives each id a service.
LEMMA ServicesAre == Services \in ServiceMaps
<1>n. PICK n \in Nat : n = Len(Registrations)
  BY RpcServerAssumption
<1> DEFINE Body(f) == [m \in 0 .. n |-> IF m = 0 THEN NoServices ELSE AddService(f[m - 1], Registrations[m])]
           built == CHOOSE f : f = Body(f)
           Upto(f, k) == /\ f = [m \in 0 .. n |-> f[m]]
                         /\ \A m \in 0 .. n : m < k => f[m] = Body(f)[m]
           S == {k \in Nat : \E f : Upto(f, k)}
<1>1. \E f : f = Body(f)
  <2>1. 0 \in S
    <3>. PICK f : f = [m \in 0 .. n |-> 0]
      OBVIOUS
    <3>1. Upto(f, 0)
      OBVIOUS
    <3>. QED  BY <3>1
  <2>2. ASSUME NEW k \in Nat, k \in S
        PROVE  k + 1 \in S
    <3>1. PICK f : Upto(f, k)
      BY <2>2
    <3>2. PICK g : g = [f EXCEPT ![k] = Body(f)[k]]
      OBVIOUS
    <3>3. \A m \in 0 .. n : m < k + 1 => Body(g)[m] = Body(f)[m]
      <4> TAKE m \in 0 .. n
      <4> HAVE m < k + 1
      <4>1. CASE m = 0
        BY <4>1
      <4>2. CASE m # 0
        <5>1. m - 1 \in 0 .. n /\ m - 1 # k
          BY <4>2
        <5>2. g[m - 1] = f[m - 1]
          BY <3>1, <3>2, <5>1
        <5>. QED  BY <4>2, <5>2
      <4>. QED  BY <4>1, <4>2
    <3> HIDE DEF Body
    <3>4. g = [m \in 0 .. n |-> g[m]] /\ \A m \in 0 .. n : g[m] = IF m = k THEN Body(f)[k] ELSE f[m]
      BY <3>1, <3>2
    <3>5. \A m \in 0 .. n : m < k + 1 => g[m] = Body(g)[m]
      <4> TAKE m \in 0 .. n
      <4> HAVE m < k + 1
      <4>1. CASE m = k
        BY <3>3, <3>4, <4>1
      <4>2. CASE m # k
        <5>1. m < k
          BY <4>2
        <5>. QED  BY <3>1, <3>3, <3>4, <4>2, <5>1
      <4>. QED  BY <4>1, <4>2
    <3>. QED  BY <3>4, <3>5
  <2>3. n + 1 \in S
    <3> HIDE DEF S
    <3>. QED  BY <2>1, <2>2, Induction
  <2>4. PICK f : Upto(f, n + 1)
    BY <2>3
  <2>5. \A m \in 0 .. n : f[m] = Body(f)[m]
    <3> HIDE DEF Body
    <3>. QED  BY <2>4
  <2>6. f = Body(f)
    BY <2>4, <2>5
  <2>. QED  BY <2>6
<1>2. built = Body(built)
  <2> HIDE DEF Body
  <2>. QED  BY <1>1
<1>3. Services = built[n].map
  BY <1>n DEF Services
<1> HIDE DEF built
<1>4. \A m \in 0 .. n : built[m] = IF m = 0 THEN NoServices ELSE AddService(built[m - 1], Registrations[m])
  BY <1>2
<1> DEFINE T == {k \in Nat : k \in 0 .. n => built[k] \in Built}
<1>5. 0 \in T
  <2>1. [i \in {} |-> i] \in [{} -> DOMAIN Methods]
    OBVIOUS
  <2>2. [i \in {} |-> i] \in ServiceMaps
    BY <2>1 DEF ServiceMaps
  <2>3. NoServices \in Built
    BY <2>2 DEF Built, NoServices
  <2>. QED  BY <1>4, <2>3
<1>6. ASSUME NEW k \in Nat, k \in T
      PROVE  k + 1 \in T
  <2>1. CASE k + 1 \in 0 .. n
    <3>1. k \in 0 .. n /\ k + 1 \in 1 .. Len(Registrations) /\ (k + 1) - 1 = k /\ k + 1 # 0
      BY <1>n, <2>1
    <3>2. built[k] \in Built
      BY <1>6, <3>1
    <3>3. built[k + 1] = AddService(built[k], Registrations[k + 1])
      BY <1>4, <2>1, <3>1
    <3>. QED  BY <3>1, <3>2, <3>3, AddServiceIs
  <2>. QED  BY <2>1
<1>7. n \in T
  <2> HIDE DEF T
  <2>. QED  BY <1>5, <1>6, Induction
<1>8. built[n] \in Built
  BY <1>7
<1>. QED  BY <1>3, <1>8 DEF Built

\* Short sequences.
LEMMA Pair ==
    ASSUME NEW a \in Nat, NEW b \in Nat
    PROVE  <<a>> \o <<b>> = <<a, b>>
<1>. PICK s : s = <<a>> \o <<b>>
  OBVIOUS
<1>1. s \in Bytes /\ <<a, b>> \in Bytes
  BY DEF Bytes
<1>2. Len(s) = 2 /\ Len(<<a, b>>) = 2 /\ s[1] = a /\ s[2] = b
  OBVIOUS
<1>3. \A i \in 1 .. 2 : s[i] = <<a, b>>[i]
  <2>1. <<a, b>>[1] = a /\ <<a, b>>[2] = b
    OBVIOUS
  <2>2. \A i \in 1 .. 2 : i = 1 \/ i = 2
    OBVIOUS
  <2>. QED  BY <1>2, <2>1, <2>2, Zenon
<1>4. s = <<a, b>>
  BY <1>1, <1>2, <1>3, SameBytes
<1>. QED  BY <1>4

\* One field in front of two others.
LEMMA Triple ==
    ASSUME NEW a \in Nat, NEW b \in Nat, NEW c \in Nat
    PROVE  <<a>> \o <<b, c>> = <<a, b, c>>
<1>. PICK s : s = <<a>> \o <<b, c>>
  OBVIOUS
<1>1. s \in Bytes /\ <<a, b, c>> \in Bytes
  BY DEF Bytes
<1>2. Len(s) = 3 /\ Len(<<a, b, c>>) = 3 /\ s[1] = a /\ s[2] = b /\ s[3] = c
  OBVIOUS
<1>3. \A i \in 1 .. 3 : s[i] = <<a, b, c>>[i]
  BY <1>2
<1>4. s = <<a, b, c>>
  BY <1>1, <1>2, <1>3, SameBytes
<1>. QED  BY <1>4

\* A service that is asked is one of those that were built.
LEMMA AnswerIs ==
    ASSUME NEW request, request.id \in Nat, request.service \in Nat, request.method \in Nat,
           request.args \in Seq(Nat)
    PROVE  /\ Answer(request) \in Frames
           /\ Answer(request).payload # <<>> /\ Head(Answer(request).payload) = request.id
           /\ Answer(request).type \in {Response, Error}
           /\ Answer(request).type = Response <=> Runs(request)
           /\ Tail(Answer(request).payload) =
                 IF Runs(request) THEN <<Services[request.service], Head(request.args)>>
                                  ELSE <<DispatchStatus(request)>>
<1>1. CASE Runs(request)
  <2>1. Services[request.service] \in Nat
    <3>1. PICK D \in SUBSET Nat : Services \in [D -> DOMAIN Methods]
      BY ServicesAre DEF ServiceMaps
    <3>. QED  BY <1>1, <3>1, RpcServerAssumption DEF Runs
  <2>2. Head(request.args) \in Nat
    BY <1>1 DEF Runs, Decodable
  <2>. PICK a \in Nat, b \in Nat, id \in Nat :
         a = Services[request.service] /\ b = Head(request.args) /\ id = request.id
    BY <2>1, <2>2
  <2>3. <<id>> \o <<a, b>> = <<id, a, b>> /\ Tail(<<id, a, b>>) = <<a, b>> /\ Head(<<id, a, b>>) = id
        /\ <<id, a, b>> \in Seq(Nat) /\ <<id, a, b>> # <<>>
    BY Triple, SMTT(30)
  <2>4. Answer(request) = [type |-> Response, flags |-> NoFlags, payload |-> <<id, a, b>>]
    BY <1>1, <2>3 DEF Answer, ResponseFrame, FrameOf
  <2>5. /\ Answer(request).type = Response /\ Answer(request).payload = <<id, a, b>>
        /\ Answer(request) \in Frames
    BY <2>3, <2>4 DEF Frames, Response, NoFlags
  <2>. QED  BY <1>1, <2>3, <2>5
<1>2. CASE ~Runs(request)
  <2>1. DispatchStatus(request) \in Nat
    BY DEF DispatchStatus, Internal, NotFound
  <2>. PICK a \in Nat, id \in Nat : a = DispatchStatus(request) /\ id = request.id
    BY <2>1
  <2>3. <<id>> \o <<a>> = <<id, a>> /\ Tail(<<id, a>>) = <<a>> /\ Head(<<id, a>>) = id
        /\ <<id, a>> \in Seq(Nat) /\ <<id, a>> # <<>>
    BY Pair
  <2>4. Answer(request) = [type |-> Error, flags |-> NoFlags, payload |-> <<id, a>>]
    BY <1>2, <2>3 DEF Answer, ErrorFrame, FrameOf
  <2>5. /\ Answer(request).type = Error /\ Answer(request).payload = <<id, a>>
        /\ Answer(request) \in Frames
    BY <2>3, <2>4 DEF Frames, Error, NoFlags
  <2>6. Error # Response
    BY DEF Error, Response
  <2>. QED  BY <1>2, <2>3, <2>5, <2>6
<1>. QED  BY <1>1, <1>2

\* What is in a request, and its reply.
LEMMA RequestInIs ==
    ASSUME NEW frame \in Frames, IsRequestPayload(frame.payload)
    PROVE  /\ RequestIn(frame.payload).id \in Nat /\ RequestIn(frame.payload).service \in Nat
           /\ RequestIn(frame.payload).method \in Nat /\ RequestIn(frame.payload).args \in Seq(Nat)
           /\ frame.payload # <<>> /\ RequestIn(frame.payload).id = Head(frame.payload)
<1>. PICK p \in Seq(Nat) : p = frame.payload
  BY DEF Frames
<1>1. Len(p) >= 3
  BY DEF IsRequestPayload
<1>2. p[1] \in Nat /\ p[2] \in Nat /\ p[3] \in Nat /\ SubSeq(p, 4, Len(p)) \in Seq(Nat)
  BY <1>1
<1>3. p # <<>> /\ Head(p) = p[1]
  BY <1>1
<1>. QED  BY <1>2, <1>3 DEF RequestIn

\* What is replied is a frame, or nothing.
LEMMA ReplyIs ==
    ASSUME NEW frame \in Frames
    PROVE  ReplyTo(frame) \in Frames \cup {Absent}
<1>1. PongFrame \in Frames
  BY DEF PongFrame, FrameOf, Frames, Pong, NoFlags
<1>2. IsRequestPayload(frame.payload) => Answer(RequestIn(frame.payload)) \in Frames
  BY RequestInIs, AnswerIs
<1>. QED  BY <1>1, <1>2 DEF ReplyTo

\* What a caller sends for a request.
LEMMA FrameForIs ==
    ASSUME NEW id \in Nat, requests[id] \in Calls
    PROVE  /\ FrameFor(id) \in Frames /\ FrameFor(id).type = Request
           /\ FrameFor(id).payload # <<>> /\ Head(FrameFor(id).payload) = id
           /\ IsRequestPayload(FrameFor(id).payload)
           /\ RequestIn(FrameFor(id).payload) =
                 [id |-> id, service |-> requests[id].service, method |-> requests[id].method,
                  args |-> requests[id].args]
           /\ IsOneWay(FrameFor(id).flags) <=> requests[id].one_way
<1>. PICK call \in [service : Nat, method : Nat, args : Seq(Nat), one_way : BOOLEAN] : call = requests[id]
  BY RpcClientAssumption
<1>. PICK s \in Nat, m \in Nat, args \in Seq(Nat) :
        s = call.service /\ m = call.method /\ args = call.args
  OBVIOUS
<1>f. PICK flags : flags = IF call.one_way THEN OneWay ELSE NoFlags
  OBVIOUS
<1>1. flags \in Nat /\ (IsOneWay(flags) <=> call.one_way)
  BY <1>f DEF IsOneWay, OneWay, NoFlags
<1>. PICK p : p = <<id, s, m>> \o args
  OBVIOUS
<1>2. /\ p \in Seq(Nat) /\ Len(p) >= 3 /\ p # <<>> /\ Head(p) = id /\ p[1] = id /\ p[2] = s /\ p[3] = m
  OBVIOUS
<1>3. SubSeq(p, 4, Len(p)) = args
  <2>. PICK h : h = <<id, s, m>>
    OBVIOUS
  <2>0. h \in Seq(Nat)
    OBVIOUS
  <2>1. h \in Bytes /\ args \in Bytes /\ Len(h) + 1 = 4 /\ p = h \o args /\ Len(p) = Len(h) + Len(args)
    BY <2>0 DEF Bytes
  <2>2. SubSeq(h \o args, Len(h) + 1, Len(h) + Len(args)) = args
    BY <2>1, Behind
  <2>. QED  BY <2>1, <2>2
<1>4. FrameFor(id) = [type |-> Request, flags |-> flags, payload |-> p]
  BY <1>f DEF FrameFor, RequestFrame, FrameOf
<1>5. FrameFor(id) \in Frames /\ FrameFor(id).type = Request /\ FrameFor(id).payload = p
      /\ FrameFor(id).flags = flags
  BY <1>1, <1>2, <1>4 DEF Frames, Request
<1>6. RequestIn(p) = [id |-> id, service |-> s, method |-> m, args |-> args]
  BY <1>2, <1>3 DEF RequestIn
<1>. QED  BY <1>1, <1>2, <1>5, <1>6 DEF IsRequestPayload

--------------------------------------------------------------------------------
(***************************************************************************)
(* Types.                                                                  *)
(***************************************************************************)
NetTypes ==
    /\ net \in Networks
    /\ wire \in [Ends -> Bytes] /\ arrived \in [Ends -> Bytes]
    /\ ended \in [Ends -> BOOLEAN] /\ closed \in [Ends -> BOOLEAN]
    /\ registered \in [Ends -> BOOLEAN] /\ edge \in [Ends -> BOOLEAN]

ClientTypes ==
    /\ stream \in {"unstarted", "open", "none"}
    /\ handlers \subseteq OtherTokens \cup {ClientToken}
    /\ job \in [ClientWorkers -> Jobs]
    /\ told \in Nat
    /\ recv_buf \in Bytes

\* The ids that were given out have their calls.
Issued == 1 .. next_request_id - 1
RequestTypes ==
    /\ next_request_id \in 1 .. MaxRequests + 1
    /\ pending \in [Ids -> Results \cup {None, Waiting}]
    /\ caller \in [Callers -> [step : Calling, id : Ids \cup {None}]]
    /\ outcome \in [Ids -> Results \cup {None}]
    /\ requests \in [Ids -> Calls \cup {None}]
    /\ \A id \in Ids : requests[id] # None <=> id \in Issued

\* The steps that a worker of the server has before it go with what it has.
Errands == {Accepting, <<"insert", "connect">>, <<"connect">>, <<"read">>, <<"data">>,
            Ending, <<"deregister", "tell">>, <<"tell">>, <<"dead">>}
AtWork(w) ==
    \/ work[w] \in Errands /\ frames[w] = <<>> /\ reply[w] = Absent
    \/ work[w] = Handling(frames[w]) /\ reply[w] = Absent
    \/ work[w] = <<"reply">> \o Handling(frames[w]) /\ reply[w] # Absent

ServerTypes ==
    /\ connected \in BOOLEAN
    /\ conn_buffer \in Bytes \cup {Absent}
    /\ chunk \in [ServerWorkers -> Bytes]
    /\ frames \in [ServerWorkers -> Seq(Frames)]
    /\ reply \in [ServerWorkers -> Frames \cup {Absent}]
    /\ work = [w \in ServerWorkers |-> work[w]]
    /\ \A w \in ServerWorkers : AtWork(w)

HistoryTypes ==
    /\ user \in {"rpc", "raw"}
    /\ sent \in [Ends -> Seq(Frames)] /\ taken \in [Ends -> Seq(Frames)]
    /\ reading = [e \in Ends |-> reading[e]]
    /\ mangled \in [Ends -> BOOLEAN]
    /\ unheard \subseteq Nat
    /\ ran \in [Ids -> Nat]

TInv == NetTypes /\ ClientTypes /\ RequestTypes /\ ServerTypes /\ HistoryTypes

\* The types that the argument needs are those of the model.
LEMMA TypesHold == TInv => TypeOK
BY DEF TInv, NetTypes, ClientTypes, RequestTypes, ServerTypes, HistoryTypes, TypeOK, Bytes

\* What the steps of a worker are.
LEMMA Programs ==
    /\ Handling(<<>>) = <<>>
    /\ \A list \in Seq(Frames) :
          /\ list # <<>> =>
                /\ Handling(list) # <<>> /\ Head(Handling(list)) = "frame"
                /\ Tail(Handling(list)) = Handling(Tail(list))
                /\ Tail(list) \in Seq(Frames) /\ Head(list) \in Frames
          /\ <<"reply">> \o Handling(list) # <<>>
          /\ Head(<<"reply">> \o Handling(list)) = "reply"
          /\ Tail(<<"reply">> \o Handling(list)) = Handling(list)
          /\ <<>> \o Handling(list) = Handling(list)
<1>1. Handling(<<>>) = <<>>
  BY DEF Handling
<1> SUFFICES ASSUME NEW list \in Seq(Frames)
             PROVE  /\ list # <<>> =>
                          /\ Handling(list) # <<>> /\ Head(Handling(list)) = "frame"
                          /\ Tail(Handling(list)) = Handling(Tail(list))
                          /\ Tail(list) \in Seq(Frames) /\ Head(list) \in Frames
                    /\ <<"reply">> \o Handling(list) # <<>>
                    /\ Head(<<"reply">> \o Handling(list)) = "reply"
                    /\ Tail(<<"reply">> \o Handling(list)) = Handling(list)
                    /\ <<>> \o Handling(list) = Handling(list)
  BY <1>1
<1>2. Handling(list) = [i \in 1 .. Len(list) |-> "frame"]
  BY DEF Handling
<1>3. Handling(list) \in Seq({"frame", "reply"}) /\ Len(Handling(list)) = Len(list)
  BY <1>2
<1>4. ASSUME list # <<>>
      PROVE  /\ Handling(list) # <<>> /\ Head(Handling(list)) = "frame"
             /\ Tail(Handling(list)) = Handling(Tail(list))
             /\ Tail(list) \in Seq(Frames) /\ Head(list) \in Frames
  <2>1. Tail(list) \in Seq(Frames) /\ Head(list) \in Frames /\ Len(Tail(list)) = Len(list) - 1
        /\ Len(list) >= 1
    BY <1>4
  <2>2. Handling(Tail(list)) = [i \in 1 .. Len(list) - 1 |-> "frame"]
    BY <2>1 DEF Handling
  <2>3. Tail([i \in 1 .. Len(list) |-> "frame"]) = [i \in 1 .. Len(list) - 1 |-> "frame"]
    BY <2>1
  <2>. QED  BY <1>2, <1>3, <2>1, <2>2, <2>3, SMTT(30)
<1>5. PICK h : h = Handling(list)
  OBVIOUS
<1>6. h \in Seq({"frame", "reply"})
  BY <1>3, <1>5
<1>7. /\ <<"reply">> \o h # <<>> /\ Head(<<"reply">> \o h) = "reply"
      /\ Tail(<<"reply">> \o h) = h /\ <<>> \o h = h
  BY <1>6
<1>. QED  BY <1>4, <1>5, <1>7

\* Of what is before a worker the first step tells the rest.
LEMMA AtStep ==
    ASSUME ServerTypes, NEW w \in ServerWorkers
    PROVE  /\ Idle(w) => frames[w] = <<>> /\ reply[w] = Absent
           /\ NextIs(w, "frame") =>
                 work[w] = Handling(frames[w]) /\ frames[w] # <<>> /\ reply[w] = Absent
           /\ NextIs(w, "reply") =>
                 /\ work[w] = <<"reply">> \o Handling(frames[w])
                 /\ reply[w] # Absent /\ reply[w] \in Frames
           /\ \A step \in {"register", "insert", "connect", "read", "data", "remove", "deregister", "tell",
                        "dead"} :
                 NextIs(w, step) =>
                     /\ work[w] \in Errands /\ frames[w] = <<>> /\ reply[w] = Absent
                     /\ Tail(work[w]) \in Errands \cup {<<>>} /\ ~(Tail(work[w]) # <<>> /\ Head(Tail(work[w])) = "data")
           /\ NextIs(w, "read") => work[w] = <<"read">>
           /\ NextIs(w, "data") => work[w] = <<"data">>
<1>1. /\ frames[w] \in Seq(Frames) /\ reply[w] \in Frames \cup {Absent} /\ AtWork(w)
  BY DEF ServerTypes
<1>2. CASE work[w] \in Errands /\ frames[w] = <<>> /\ reply[w] = Absent
  <2>1. \A p \in Errands :
          /\ p # <<>>
          /\ Head(p) \in {"register", "insert", "connect", "read", "data", "remove", "deregister", "tell", "dead"}
          /\ Tail(p) \in Errands \cup {<<>>} /\ ~(Tail(p) # <<>> /\ Head(Tail(p)) = "data")
          /\ Head(p) = "read" => p = <<"read">>
          /\ Head(p) = "data" => p = <<"data">>
    <3>1. /\ Accepting # <<>> /\ Head(Accepting) = "register" /\ Tail(Accepting) = <<"insert", "connect">>
          /\ <<"insert", "connect">> # <<>> /\ Head(<<"insert", "connect">>) = "insert"
          /\ Tail(<<"insert", "connect">>) = <<"connect">>
          /\ Ending # <<>> /\ Head(Ending) = "remove" /\ Tail(Ending) = <<"deregister", "tell">>
          /\ <<"deregister", "tell">> # <<>> /\ Head(<<"deregister", "tell">>) = "deregister"
          /\ Tail(<<"deregister", "tell">>) = <<"tell">>
      BY DEF Accepting, Ending
    <3>2. \A step : <<step>> # <<>> /\ Head(<<step>>) = step /\ Tail(<<step>>) = <<>>
      OBVIOUS
    <3>5. Head(<<"connect">>) = "connect" /\ Head(<<"tell">>) = "tell" /\ Head(<<"dead">>) = "dead"
      OBVIOUS
    <3> TAKE p \in Errands
    <3>3. CASE p \in {Accepting, <<"insert", "connect">>, Ending, <<"deregister", "tell">>}
      BY <3>1, <3>3, <3>5 DEF Errands
    <3>4. CASE p \in {<<"connect">>, <<"read">>, <<"data">>, <<"tell">>, <<"dead">>}
      BY <3>2, <3>4 DEF Errands
    <3>. QED  BY <3>3, <3>4 DEF Errands
  <2>. QED  BY <1>2, <2>1 DEF Idle, NextIs
<1>3. CASE work[w] = Handling(frames[w]) /\ reply[w] = Absent
  <2>1. CASE frames[w] = <<>>
    BY <1>3, <2>1, Programs DEF Idle, NextIs
  <2>2. CASE frames[w] # <<>>
    <3>1. work[w] # <<>> /\ Head(work[w]) = "frame"
      BY <1>1, <1>3, <2>2, Programs
    <3>. QED  BY <1>3, <2>2, <3>1 DEF Idle, NextIs
  <2>. QED  BY <2>1, <2>2
<1>4. CASE work[w] = <<"reply">> \o Handling(frames[w]) /\ reply[w] # Absent
  <2>1. work[w] # <<>> /\ Head(work[w]) = "reply"
    BY <1>1, <1>4, Programs
  <2>. QED  BY <1>1, <1>4, <2>1 DEF Idle, NextIs
<1>. QED  BY <1>1, <1>2, <1>3, <1>4 DEF AtWork

\* At first everything is of its type.
LEMMA InitTypes == Init => TInv
<1> SUFFICES ASSUME Init PROVE TInv
  OBVIOUS
<1> USE DEF Init, ConnectionInit, ClientInit, RpcClientInit, RpcServerInit
<1>0. <<>> \in Bytes /\ <<>> \in Seq(Frames) /\ <<>> \in Seq(Nat)
  BY DEF Bytes
<1>1. NetTypes
  BY <1>0 DEF NetTypes, Ends
<1>2. ClientTypes
  BY <1>0 DEF ClientTypes, NoJob, Jobs
<1>3. RequestTypes
  BY RpcClientAssumption DEF RequestTypes, AtEase, Calling, Ids, Issued
<1>4. ServerTypes
  <2>1. \A w \in ServerWorkers :
          frames[w] = <<>> /\ reply[w] = Absent /\ (work[w] = Accepting \/ work[w] = <<>>)
    OBVIOUS
  <2>2. \A w \in ServerWorkers : AtWork(w)
    BY <2>1, Programs DEF AtWork, Errands
  <2>. QED  BY <1>0, <2>2 DEF ServerTypes
<1>5. HistoryTypes
  BY <1>0 DEF HistoryTypes, Ends
<1>. QED  BY <1>1, <1>2, <1>3, <1>4, <1>5 DEF TInv

--------------------------------------------------------------------------------
\* What is written.
LEMMA WriteTypes ==
    ASSUME NetTypes, NEW e \in Ends, NEW bytes \in Bytes
    PROVE  /\ Write(e, bytes) => wire' \in [Ends -> Bytes]
           /\ WriteBreaks(e, bytes) => wire' \in [Ends -> Bytes]
<1>1. Peer(e) \in Ends
  BY DEF Peer, Ends
<1>2. \A more \in Bytes : wire[Peer(e)] \o more \in Bytes
  BY <1>1, Joined DEF NetTypes
<1>3. \A more \in Bytes : Write(e, more) => wire' \in [Ends -> Bytes]
  BY <1>1, <1>2 DEF Write, NetTypes
<1>4. \A n \in BreakSizes : n < Len(bytes) => SubSeq(bytes, 1, n) \in Bytes
  BY ConnectionAssumption DEF Bytes
<1>. QED  BY <1>3, <1>4 DEF WriteBreaks

\* A request that a caller is about to send.
LEMMA AboutToSend ==
    ASSUME IInv, TInv, NEW c \in Callers, At(c, "send")
    PROVE  /\ IdOf(c) \in Ids /\ IdOf(c) \in Issued /\ requests[IdOf(c)] \in Calls
           /\ FrameFor(IdOf(c)) \in Frames /\ Encode(FrameFor(IdOf(c))) \in Bytes
<1>1. IdOf(c) \in Issued /\ IdOf(c) \in Ids
  <2>1. Active(c)
    BY DEF Active, At
  <2>. QED  BY <2>1, ActiveIds DEF IInv, IdsGivenOut, Issued
<1>2. requests[IdOf(c)] \in Calls
  BY <1>1 DEF TInv, RequestTypes
<1>3. IdOf(c) \in Nat
  BY <1>1 DEF Ids
<1>. QED  BY <1>1, <1>2, <1>3, FrameForIs, EncodeIs

\* A piece arrives: the bytes of its end stay together, the other end rests.
LEMMA DeliverTypes ==
    ASSUME NetTypes, NEW e \in Ends, Deliver(e)
    PROVE  /\ NetTypes'
           /\ arrived'[e] \o wire'[e] = arrived[e] \o wire[e]
           /\ \A d \in Ends \ {e} : arrived'[d] = arrived[d] /\ wire'[d] = wire[d]
<1>1. PICK size \in net[e] :
        LET n == IF size < Len(wire[e]) THEN size ELSE Len(wire[e]) IN
        /\ arrived' = [arrived EXCEPT ![e] = @ \o SubSeq(wire[e], 1, n)]
        /\ wire' = [wire EXCEPT ![e] = SubSeq(@, n + 1, Len(@))]
  BY DEF Deliver
<1>2. size \in Nat
  BY ConnectionAssumption DEF NetTypes, Ends
<1>. PICK a \in Bytes, s \in Bytes : a = arrived[e] /\ s = wire[e]
  BY DEF NetTypes
<1>. PICK n \in 0 .. Len(s) : n = IF size < Len(s) THEN size ELSE Len(s)
  BY <1>2 DEF Bytes
<1>3. /\ SubSeq(s, 1, n) \in Bytes /\ SubSeq(s, n + 1, Len(s)) \in Bytes
      /\ SubSeq(s, 1, n) \o SubSeq(s, n + 1, Len(s)) = s
  BY Cut
<1>4. a \o SubSeq(s, 1, n) \in Bytes
  BY <1>3, Joined
<1>5. (a \o SubSeq(s, 1, n)) \o SubSeq(s, n + 1, Len(s)) = a \o s
  BY CutBehind, ZenonT(30)
<1>6. /\ arrived' = [arrived EXCEPT ![e] = a \o SubSeq(s, 1, n)]
      /\ wire' = [wire EXCEPT ![e] = SubSeq(s, n + 1, Len(s))]
  BY <1>1
<1>7. /\ edge' = [edge EXCEPT ![e] = registered[e]]
      /\ UNCHANGED <<net, ended, closed, registered, faults>>
  BY DEF Deliver
<1>8. NetTypes'
  BY <1>3, <1>4, <1>6, <1>7 DEF NetTypes
<1>. QED  BY <1>5, <1>6, <1>8 DEF NetTypes

--------------------------------------------------------------------------------
(***************************************************************************)
(* The steps keep the types.                                               *)
(***************************************************************************)
\* The steps keep the types of the connection.
LEMMA NetKept ==
    ASSUME IInv, TInv, Next
    PROVE  NetTypes'
<1>t. NetTypes
  BY DEF TInv
<1>e. Peer("client") \in Ends /\ Peer("server") \in Ends /\ "client" \in Ends /\ "server" \in Ends
  BY DEF Peer, Ends
<1>0. <<>> \in Bytes
  BY DEF Bytes
<1>1. ASSUME UNCHANGED connVars PROVE NetTypes'
  BY <1>t, <1>1 DEF NetTypes, connVars
<1>2. ASSUME wire' \in [Ends -> Bytes],
             UNCHANGED <<net, arrived, ended, closed, registered, edge>>
      PROVE  NetTypes'
  BY <1>t, <1>2 DEF NetTypes
<1>3. ASSUME NEW e \in Ends, arrived' \in {arrived, [arrived EXCEPT ![e] = <<>>]},
             UNCHANGED <<net, wire, ended, closed, registered, edge>>
      PROVE  NetTypes'
  BY <1>t, <1>0, <1>3 DEF NetTypes
<1>4. ASSUME NEW e \in Ends, UNCHANGED <<net, wire, arrived, ended>>,
             closed' \in {closed, [closed EXCEPT ![e] = TRUE]},
             registered' \in {registered, [registered EXCEPT ![e] = TRUE], [registered EXCEPT ![e] = FALSE]},
             edge' \in {edge, [edge EXCEPT ![e] = SomethingAt(e)], [edge EXCEPT ![e] = FALSE]}
      PROVE  NetTypes'
  <2>1. SomethingAt(e) \in BOOLEAN
    BY <1>t DEF NetTypes, SomethingAt
  <2>. QED  BY <1>t, <1>4, <2>1 DEF NetTypes
<1>5. CASE Network
  <2>1. PICK e \in Ends : Deliver(e) \/ DeliverEnd(e)
    BY <1>5 DEF Network
  <2>2. CASE Deliver(e)
    BY <1>t, <2>2, DeliverTypes
  <2>3. CASE DeliverEnd(e)
    BY <1>t, <2>3 DEF DeliverEnd, NetTypes
  <2>. QED  BY <2>1, <2>2, <2>3
<1>6. CASE ClientStep
  BY <1>e, <1>4, <1>6 DEF ClientStep, Start, ClientEvent, ClientDisconnect, UserDisconnect, Watch, Unwatch,
                    TakeEvent
<1>7. CASE ServerCloses
  BY <1>e, <1>4, <1>7 DEF ServerCloses, CloseStream
<1>8. ASSUME NEW frame \in RawFrames, RawSend(frame) PROVE NetTypes'
  <2>1. Encode(frame) \in Bytes
    BY RpcAssumption, EncodeIs
  <2>. QED  BY <1>t, <1>e, <1>2, <1>8, <2>1, WriteTypes DEF RawSend, Send
<1>9. ASSUME NEW c \in Callers, Caller(c) PROVE NetTypes'
  <2>1. CASE CallerStep(c)
    BY <1>1, <2>1 DEF CallerStep, Begin, TakeResult, Wait, WaitEnds, GiveUp
  <2>2. CASE CallerSends(c)
    <3>1. Encode(FrameFor(IdOf(c))) \in Bytes
      BY <2>2, AboutToSend DEF CallerSends, SendRequest
    <3>2. wire' \in [Ends -> Bytes]
      BY <1>t, <1>e, <2>2, <3>1, WriteTypes DEF CallerSends, SendRequest, Send, NetTypes
    <3>. QED  BY <1>2, <2>2, <3>2 DEF CallerSends, SendRequest
  <2>3. CASE CallerFails(c)
    <3>1. Encode(FrameFor(IdOf(c))) \in Bytes
      BY <2>3, AboutToSend DEF CallerFails, SendFails
    <3>2. wire' \in [Ends -> Bytes]
      BY <1>t, <1>e, <2>3, <3>1, WriteTypes DEF CallerFails, SendFails, SendBreaks
    <3>. QED  BY <1>2, <2>3, <3>2 DEF CallerFails, SendFails
  <2>. QED  BY <1>9, <2>1, <2>2, <2>3 DEF Caller
<1>10. ASSUME NEW x \in ClientWorkers, ClientWorker(x) PROVE NetTypes'
  <2>1. CASE ClientReads(x)
    BY <1>e, <1>3, <2>1 DEF ClientReads, ClientRead, ReadsNothing, ReadsChunk, ReadsEnd
  <2>2. CASE RawReceive(x) \/ ClientReceives(x) \/ ClientHandles(x)
    BY <1>1, <2>2 DEF RawReceive, ClientReceives, ReceiveData, ClientHandles, HandleResponse
  <2>. QED  BY <1>10, <2>1, <2>2 DEF ClientWorker
<1>11. ASSUME NEW w \in ServerWorkers, ServerWorker(w) PROVE NetTypes'
  <2>1. CASE ServerStep(w)
    BY <1>e, <1>1, <1>4, <2>1
       DEF ServerStep, Register, Insert, ServerEvent, ServerEventLost, RemoveFromMap, Deregister, Watch, Unwatch,
           TakeEvent
  <2>2. CASE ServerBuffer(w) \/ ServerReceives(w) \/ ServerHandles(w)
    BY <1>1, <2>2 DEF ServerBuffer, OnConnect, OnDisconnect, ServerReceives, OnData, ServerHandles, HandleFrame
  <2>3. CASE ServerReads(w)
    BY <1>e, <1>3, <2>3 DEF ServerReads, ServerRead, ServerReadsNothing, ServerReadsChunk, ServerReadsEnd
  <2>4. CASE ServerReplies(w)
    <3>1. Encode(reply[w]) \in Bytes
      BY <2>4, AtStep, EncodeIs DEF ServerReplies, SendReply, ReplyNowhere, ReplyBreaks, TInv
    <3>2. wire' \in [Ends -> Bytes]
      BY <1>t, <1>e, <2>4, <3>1, WriteTypes DEF ServerReplies, SendReply, ReplyNowhere, ReplyBreaks, NetTypes
    <3>. QED  BY <1>2, <2>4, <3>2 DEF ServerReplies, SendReply, ReplyNowhere, ReplyBreaks, Replied
  <2>5. CASE ServerFails(w)
    BY <1>t, <1>2, <2>5 DEF ServerFails, MethodPanics, ErrorUnsent, NetTypes
  <2>. QED  BY <1>11, <2>1, <2>2, <2>3, <2>4, <2>5 DEF ServerWorker
<1>. QED  BY <1>5, <1>6, <1>7, <1>8, <1>9, <1>10, <1>11 DEF Next

\* And of the client's end,
LEMMA ClientKept ==
    ASSUME TInv, Next
    PROVE  ClientTypes'
<1>t. ClientTypes /\ NetTypes
  BY DEF TInv
<1>1. ASSUME UNCHANGED <<clientVars, recv_buf>> PROVE ClientTypes'
  BY <1>t, <1>1 DEF ClientTypes, clientVars
<1>2. ASSUME NEW x \in ClientWorkers, NEW next \in Jobs, job' = [job EXCEPT ![x] = next],
             stream' \in {stream, "open", "none"}, told' \in {told, told + 1},
             handlers' \in SUBSET (handlers \cup {ClientToken}), recv_buf' \in Bytes
      PROVE  ClientTypes'
  BY <1>t, <1>2 DEF ClientTypes
<1>3. ASSUME job' = job,
             stream' \in {stream, "open", "none"}, told' \in {told, told + 1},
             handlers' \in SUBSET (handlers \cup {ClientToken}), recv_buf' = recv_buf
      PROVE  ClientTypes'
  BY <1>t, <1>3 DEF ClientTypes
<1>j. NoJob \in Jobs
  BY DEF NoJob, Jobs
<1>b. recv_buf \in Bytes
  BY <1>t DEF ClientTypes
<1>4. CASE Network \/ ServerCloses \/ (\E frame \in RawFrames : RawSend(frame))
           \/ (\E c \in Callers : Caller(c)) \/ \E w \in ServerWorkers : ServerWorker(w)
  BY <1>1, <1>4 DEF Network, ServerCloses, RawSend, Caller, CallerStep, CallerSends, CallerFails,
     Begin, SendRequest, SendFails, TakeResult, Wait, WaitEnds, GiveUp, ServerWorker, ServerStep, ServerBuffer,
     ServerReads, ServerReceives, ServerHandles, ServerFails, ServerReplies, callVars
<1>5. CASE ClientStep
  <2>1. recv_buf' = recv_buf
    BY <1>5 DEF ClientStep, callVars
  <2>2. CASE Start \/ UserDisconnect
    BY <1>3, <2>1, <2>2 DEF Start, UserDisconnect
  <2>3. ASSUME NEW x \in ClientWorkers, ClientEvent(x) PROVE ClientTypes'
    <3>1. [job[x] EXCEPT !.step = "read"] \in Jobs
      <4>1. job[x] \in Jobs /\ job[x].step = "idle"
        BY <1>t, <2>3 DEF ClientTypes, ClientEvent, JobAt
      <4>. QED  BY <4>1 DEF Jobs
    <3>. QED  BY <1>b, <1>2, <2>1, <2>3, <3>1 DEF ClientEvent, GoJob
  <2>4. ASSUME NEW x \in ClientWorkers, ClientDisconnect(x) PROVE ClientTypes'
    BY <1>b, <1>j, <1>2, <2>1, <2>4 DEF ClientDisconnect, EndJob
  <2>. QED  BY <1>5, <2>2, <2>3, <2>4 DEF ClientStep
<1>6. ASSUME NEW x \in ClientWorkers, ClientReads(x) PROVE ClientTypes'
  <2>1. recv_buf' = recv_buf /\ UNCHANGED <<stream, told, handlers>>
    BY <1>6 DEF ClientReads, ClientRead, callVars
  <2>2. CASE ReadsNothing(x)
    BY <1>b, <1>j, <1>2, <2>1, <2>2 DEF ReadsNothing, EndJob
  <2>3. CASE ReadsChunk(x)
    <3>1. arrived["client"] \in Seq(Nat) \ {<<>>}
      BY <1>t, <2>3 DEF NetTypes, Ends, Bytes, ReadsChunk
    <3>2. [step |-> "data", chunk |-> arrived["client"], frames |-> <<>>] \in Jobs
      BY <3>1 DEF Jobs
    <3>. QED  BY <1>b, <1>2, <2>1, <2>3, <3>2 DEF ReadsChunk
  <2>4. CASE ReadsEnd(x)
    <3>1. [job[x] EXCEPT !.step = "disconnect"] \in Jobs
      <4>1. job[x] \in Jobs /\ job[x].step = "read"
        BY <1>t, <1>6 DEF ClientTypes, ClientReads, ClientRead, JobAt
      <4>. QED  BY <4>1 DEF Jobs
    <3>. QED  BY <1>b, <1>2, <2>1, <2>4, <3>1 DEF ReadsEnd, GoJob
  <2>. QED  BY <1>6, <2>2, <2>3, <2>4 DEF ClientReads, ClientRead
<1>7. ASSUME NEW x \in ClientWorkers, RawReceive(x) PROVE ClientTypes'
  BY <1>b, <1>j, <1>2, <1>7 DEF RawReceive, EndJob, callVars
<1>8. ASSUME NEW x \in ClientWorkers, ClientReceives(x) PROVE ClientTypes'
  <2>. PICK parse : parse = ParseFrames(recv_buf \o job[x].chunk)
    OBVIOUS
  <2>1. recv_buf \o job[x].chunk \in Bytes
    <3>1. job[x].chunk \in Bytes
      <4>1. job[x] \in [step : {"data"}, chunk : Seq(Nat) \ {<<>>}, frames : {<<>>}]
        BY <1>t, <1>8 DEF ClientTypes, Jobs, ClientReceives, ReceiveData, JobAt
      <4>. QED  BY <4>1 DEF Bytes
    <3>. QED  BY <1>b, <3>1, Joined
  <2>2. parse.frames \in Seq(Frames) /\ parse.rest \in Bytes
    BY <2>1, ParseTypes
  <2>3. (IF parse.frames = <<>> THEN NoJob
         ELSE [step |-> "frames", chunk |-> <<>>, frames |-> parse.frames]) \in Jobs
    BY <1>j, <2>2 DEF Jobs
  <2>. QED  BY <1>2, <1>8, <2>2, <2>3 DEF ClientReceives, ReceiveData
<1>9. ASSUME NEW x \in ClientWorkers, ClientHandles(x) PROVE ClientTypes'
  <2>. PICK rest : rest = Tail(job[x].frames)
    OBVIOUS
  <2>1. job[x] \in [step : {"frames"}, chunk : {<<>>}, frames : Seq(Frames) \ {<<>>}]
    BY <1>t, <1>9 DEF ClientTypes, Jobs, ClientHandles, HandleResponse, JobAt
  <2>2. rest \in Seq(Frames)
    <3>. PICK list \in Seq(Frames) : list = job[x].frames /\ list # <<>>
      BY <2>1
    <3>. QED  OBVIOUS
  <2>3. (IF rest = <<>> THEN NoJob ELSE [job[x] EXCEPT !.frames = rest]) \in Jobs
    BY <1>j, <2>1, <2>2 DEF Jobs
  <2>4. job' = [job EXCEPT ![x] = IF rest = <<>> THEN NoJob ELSE [job[x] EXCEPT !.frames = rest]]
    BY <1>9 DEF ClientHandles, HandleResponse
  <2>. QED  BY <1>b, <1>2, <1>9, <2>3, <2>4 DEF ClientHandles, HandleResponse
<1>. QED  BY <1>4, <1>5, <1>6, <1>7, <1>8, <1>9 DEF Next, ClientWorker

\* of the callers and their requests,
LEMMA RequestKept ==
    ASSUME IInv, TInv, Next
    PROVE  RequestTypes'
<1>t. RequestTypes
  BY DEF TInv
<1>i. IInv'
  BY NextIInv
<1>c. /\ next_request_id' \in 1 .. MaxRequests + 1
      /\ caller' \in [Callers -> [step : Calling, id : Ids \cup {None}]]
  BY <1>i DEF IInv, CallTypes
<1>1. ASSUME pending' \in [Ids -> Results \cup {None, Waiting}], outcome' \in [Ids -> Results \cup {None}],
             UNCHANGED <<requests, next_request_id>>
      PROVE  RequestTypes'
  BY <1>t, <1>c, <1>1 DEF RequestTypes, Issued
<1>2. ASSUME UNCHANGED <<pending, outcome, requests, next_request_id>> PROVE RequestTypes'
  BY <1>t, <1>1, <1>2 DEF RequestTypes
<1>3. ASSUME NEW c \in Callers, NEW result \in Results \cup {None, Waiting},
             result \in Results, Return(c, result), pending' \in {pending, Forget(IdOf(c))},
             UNCHANGED <<requests, next_request_id>>
      PROVE  RequestTypes'
  <2>1. pending' \in [Ids -> Results \cup {None, Waiting}]
    BY <1>t, <1>3 DEF RequestTypes, Forget
  <2>2. outcome' \in [Ids -> Results \cup {None}]
    BY <1>t, <1>3 DEF RequestTypes, Return
  <2>. QED  BY <1>1, <1>3, <2>1, <2>2
<1>r. Ok(<<>>) \in Results /\ Err(Unavailable) \in Results /\ Err(DeadlineExceeded) \in Results
  BY DEF Ok, Err, Results, Unavailable, DeadlineExceeded
<1>4. CASE Network \/ ClientStep \/ ServerCloses \/ (\E frame \in RawFrames : RawSend(frame))
           \/ \E w \in ServerWorkers : ServerWorker(w)
  BY <1>2, <1>4 DEF Network, ClientStep, ServerCloses, RawSend, ServerWorker, ServerStep, ServerBuffer,
     ServerReads, ServerReceives, ServerHandles, ServerFails, ServerReplies, callVars
<1>5. ASSUME NEW c \in Callers, NEW call \in Calls, Begin(c, call) PROVE RequestTypes'
  <2>. PICK n : n = next_request_id
    OBVIOUS
  <2>1. n \in Ids /\ n \in Nat /\ next_request_id' = n + 1
    BY <1>t, <1>5, RpcClientAssumption DEF RequestTypes, Begin, Ids
  <2>2. pending' \in [Ids -> Results \cup {None, Waiting}]
    BY <1>t, <1>5 DEF RequestTypes, Begin
  <2>3. requests' = [requests EXCEPT ![n] = call] /\ outcome' = outcome
    BY <1>5 DEF Begin
  <2>4. requests' \in [Ids -> Calls \cup {None}]
    BY <1>t, <2>3 DEF RequestTypes
  <2>5. call # None
    BY RpcClientAssumption
  <2>6. ASSUME NEW id \in Ids PROVE requests'[id] # None <=> id \in 1 .. next_request_id' - 1
    <3>1. requests'[id] = IF id = n THEN call ELSE requests[id]
      BY <1>t, <2>3 DEF RequestTypes
    <3>2. requests[id] # None <=> id \in 1 .. n - 1
      BY <1>t DEF RequestTypes, Issued
    <3>3. id \in 1 .. n <=> id \in 1 .. n - 1 \/ id = n
      BY <2>1 DEF Ids
    <3>. QED  BY <2>1, <2>5, <3>1, <3>2, <3>3
  <2>. QED  BY <1>t, <1>c, <2>2, <2>3, <2>4, <2>6 DEF RequestTypes, Issued
<1>6. ASSUME NEW c \in Callers, SendRequest(c) PROVE RequestTypes'
  BY <1>r, <1>2, <1>3, <1>6 DEF SendRequest
<1>7. ASSUME NEW c \in Callers, SendFails(c) \/ GiveUp(c) \/ WaitEnds(c) \/ Wait(c) PROVE RequestTypes'
  BY <1>r, <1>2, <1>3, <1>7 DEF SendFails, GiveUp, WaitEnds, Wait
<1>8. ASSUME NEW c \in Callers, TakeResult(c) PROVE RequestTypes'
  <2>1. IdOf(c) \in Ids
    BY <1>8, ActiveIds DEF TakeResult, Active, At
  <2>2. pending[IdOf(c)] \in Results
    BY <1>t, <1>8, <2>1 DEF RequestTypes, TakeResult
  <2>. QED  BY <1>3, <1>8, <2>2 DEF TakeResult
<1>9. ASSUME NEW x \in ClientWorkers, ClientWorker(x) PROVE RequestTypes'
  <2>1. CASE ClientReads(x) \/ RawReceive(x) \/ ClientReceives(x)
    BY <1>2, <2>1 DEF ClientReads, RawReceive, ClientReceives, ReceiveData, callVars
  <2>2. CASE HandleResponse(x)
    <3>. PICK frame : frame = Head(job[x].frames)
      OBVIOUS
    <3>1. frame \in Frames
      <4>1. job[x].frames \in Seq(Frames) \ {<<>>}
        BY <2>2 DEF TInv, ClientTypes, Jobs, HandleResponse, JobAt
      <4>. PICK list \in Seq(Frames) : list = job[x].frames /\ list # <<>>
        BY <4>1
      <4>. QED  OBVIOUS
    <3>2. CASE IsAnswer(frame)
      <4>. PICK answer : answer = ResponseIn(frame.payload)
        OBVIOUS
      <4>1. answer.data \in Seq(Nat)
        BY <3>1, <3>2 DEF IsAnswer, IsResponsePayload, ResponseIn, Frames
      <4>2. [ok |-> frame.type = Response, data |-> answer.data] \in Results
        BY <4>1 DEF Results
      <4>3. pending' = [i \in Ids |-> IF i \in Completed(answer.id)
                                        THEN [ok |-> frame.type = Response, data |-> answer.data]
                                        ELSE pending[i]]
        BY <2>2, <3>2 DEF HandleResponse
      <4>4. pending' \in [Ids -> Results \cup {None, Waiting}]
        BY <1>t, <4>2, <4>3 DEF RequestTypes
      <4>. QED  BY <1>t, <1>1, <2>2, <4>4 DEF HandleResponse, RequestTypes
    <3>3. CASE ~IsAnswer(frame)
      BY <1>2, <2>2, <3>3 DEF HandleResponse
    <3>. QED  BY <3>2, <3>3
  <2>. QED  BY <1>9, <2>1, <2>2 DEF ClientWorker, ClientHandles
<1>. QED  BY <1>4, <1>5, <1>6, <1>7, <1>8, <1>9
          DEF Next, Caller, CallerStep, CallerSends, CallerFails

\* of the server's end, where a worker goes on with what it has before it,
LEMMA ServerKept ==
    ASSUME TInv, Next
    PROVE  ServerTypes'
<1>t. ServerTypes /\ NetTypes
  BY DEF TInv
<1>w. \A w \in ServerWorkers : /\ AtWork(w) /\ chunk[w] \in Bytes /\ frames[w] \in Seq(Frames)
                               /\ reply[w] \in Frames \cup {Absent}
  BY <1>t DEF ServerTypes
<1>0. <<>> \in Bytes /\ <<>> \in Seq(Frames)
  BY DEF Bytes
<1>u. \A w \in ServerWorkers : /\ chunk = [chunk EXCEPT ![w] = chunk[w]]
                               /\ frames = [frames EXCEPT ![w] = frames[w]]
                               /\ reply = [reply EXCEPT ![w] = reply[w]]
  BY <1>t DEF ServerTypes
<1>1. ASSUME UNCHANGED serverVars PROVE ServerTypes'
  BY <1>t, <1>1 DEF ServerTypes, serverVars, AtWork
<1>2. ASSUME NEW w \in ServerWorkers, NEW steps, NEW bytes \in Bytes, NEW list \in Seq(Frames),
             NEW answer \in Frames \cup {Absent},
             work' = [work EXCEPT ![w] = steps],
             chunk' = [chunk EXCEPT ![w] = bytes],
             frames' = [frames EXCEPT ![w] = list],
             reply' = [reply EXCEPT ![w] = answer],
             \/ steps \in Errands \cup {<<>>} /\ list = <<>> /\ answer = Absent
             \/ steps = Handling(list) /\ answer = Absent
             \/ steps = <<"reply">> \o Handling(list) /\ answer # Absent,
             connected' \in BOOLEAN, conn_buffer' \in Bytes \cup {Absent}
      PROVE  ServerTypes'
  <2>1. /\ chunk' \in [ServerWorkers -> Bytes] /\ frames' \in [ServerWorkers -> Seq(Frames)]
        /\ reply' \in [ServerWorkers -> Frames \cup {Absent}]
        /\ work' = [v \in ServerWorkers |-> work'[v]]
    BY <1>t, <1>2 DEF ServerTypes
  <2>2. /\ work'[w] = steps /\ frames'[w] = list /\ reply'[w] = answer
        /\ \A v \in ServerWorkers \ {w} : work'[v] = work[v] /\ frames'[v] = frames[v] /\ reply'[v] = reply[v]
    BY <1>t, <1>2 DEF ServerTypes
  <2>3. \A v \in ServerWorkers \ {w} : AtWork(v)'
    BY <1>w, <2>2 DEF AtWork
  <2>4. AtWork(w)'
    BY <1>2, <2>2, Programs DEF AtWork
  <2>. QED  BY <1>2, <2>1, <2>3, <2>4 DEF ServerTypes
<1>3. ASSUME NEW w \in ServerWorkers, NEW steps \in Errands \cup {<<>>}, NEW bytes \in Bytes,
             work' = [work EXCEPT ![w] = steps],
             chunk' = [chunk EXCEPT ![w] = bytes],
             UNCHANGED <<frames, reply>>, frames[w] = <<>>, reply[w] = Absent,
             connected' \in BOOLEAN, conn_buffer' \in Bytes \cup {Absent}
      PROVE  ServerTypes'
  <2>1. frames' = [frames EXCEPT ![w] = <<>>] /\ reply' = [reply EXCEPT ![w] = Absent]
    BY <1>3, <1>u
  <2>2. <<>> \in Seq(Frames) /\ Absent \in Frames \cup {Absent}
    BY <1>0
  <2>. QED  BY <1>2, <1>3, <2>1, <2>2
<1>b. connected \in BOOLEAN /\ conn_buffer \in Bytes \cup {Absent}
  BY <1>t DEF ServerTypes
<1>4. CASE Network \/ ClientStep \/ ServerCloses \/ (\E frame \in RawFrames : RawSend(frame))
           \/ (\E c \in Callers : Caller(c)) \/ \E x \in ClientWorkers : ClientWorker(x)
  BY <1>1, <1>4 DEF Network, ClientStep, ServerCloses, CloseStream, RawSend, Caller, CallerStep, CallerSends, CallerFails,
     ClientWorker, ClientReads, RawReceive, ClientReceives, ClientHandles
<1>e. /\ Ending \in Errands /\ <<"read">> \in Errands /\ <<"data">> \in Errands
  BY DEF Errands
<1>5. ASSUME NEW w \in ServerWorkers, ServerStep(w) PROVE ServerTypes'
  <2>1. CASE Register(w) \/ Insert(w) \/ Deregister(w) \/ RemoveFromMap(w)
    <3>1. frames[w] = <<>> /\ reply[w] = Absent /\ Tail(work[w]) \in Errands \cup {<<>>}
      BY <1>t, <2>1, AtStep DEF Register, Insert, Deregister, RemoveFromMap
    <3>2. PICK steps \in {<<>>, Tail(work[w])} : work' = [work EXCEPT ![w] = steps]
      BY <2>1 DEF Register, Insert, Deregister, RemoveFromMap, Go, Become
    <3>3. /\ chunk' = [chunk EXCEPT ![w] = chunk[w]] /\ UNCHANGED <<frames, reply>>
          /\ connected' \in BOOLEAN /\ conn_buffer' \in Bytes \cup {Absent}
      BY <1>b, <1>u, <2>1 DEF Register, Insert, Deregister, RemoveFromMap
    <3>4. steps \in Errands \cup {<<>>}
      BY <3>1
    <3>. QED  BY <1>w, <1>3, <3>1, <3>2, <3>3, <3>4
  <2>2. CASE ServerEvent(w)
    <3>1. frames[w] = <<>> /\ reply[w] = Absent
      BY <1>t, <2>2, AtStep DEF ServerEvent
    <3>. QED  BY <1>b, <1>e, <1>u, <1>w, <1>3, <2>2, <3>1 DEF ServerEvent, Become
  <2>3. CASE ServerEventLost(w)
    BY <1>1, <2>3 DEF ServerEventLost
  <2>. QED  BY <1>5, <2>1, <2>2, <2>3 DEF ServerStep
<1>6. ASSUME NEW w \in ServerWorkers, ServerBuffer(w) PROVE ServerTypes'
  <2>1. frames[w] = <<>> /\ reply[w] = Absent /\ Tail(work[w]) \in Errands \cup {<<>>}
    BY <1>t, <1>6, AtStep DEF ServerBuffer, OnConnect, OnDisconnect
  <2>. QED  BY <1>0, <1>b, <1>u, <1>w, <1>3, <1>6, <2>1 DEF ServerBuffer, OnConnect, OnDisconnect, Go
<1>7. ASSUME NEW w \in ServerWorkers, ServerReads(w) PROVE ServerTypes'
  <2>1. frames[w] = <<>> /\ reply[w] = Absent
    BY <1>t, <1>7, AtStep DEF ServerReads, ServerRead
  <2>2. arrived["server"] \in Bytes
    BY <1>t DEF NetTypes, Ends
  <2>. QED  BY <1>b, <1>e, <1>u, <1>w, <1>3, <1>7, <2>1, <2>2, ZenonT(30)
            DEF ServerReads, ServerRead, ServerReadsNothing, ServerReadsChunk, ServerReadsEnd, Become
<1>8. ASSUME NEW w \in ServerWorkers, ServerReceives(w) PROVE ServerTypes'
  <2>1. frames[w] = <<>> /\ reply[w] = Absent
    BY <1>t, <1>8, AtStep DEF ServerReceives, OnData
  <2>2. Buffered(w) \in Bytes
    <3>. PICK b \in Bytes : b = IF conn_buffer = Absent THEN <<>> ELSE conn_buffer
      BY <1>0, <1>b
    <3>1. b \o chunk[w] \in Bytes
      BY <1>w, Joined
    <3>. QED  BY <3>1 DEF Buffered
  <2>. PICK parse : parse = ParseFrames(Buffered(w))
    OBVIOUS
  <2>3. parse.frames \in Seq(Frames) /\ parse.rest \in Bytes
    BY <2>2, ParseTypes
  <2>4. /\ frames' = [frames EXCEPT ![w] = parse.frames]
        /\ conn_buffer' = parse.rest
        /\ chunk' = [chunk EXCEPT ![w] = <<>>]
        /\ work' = [work EXCEPT ![w] = Handling(frames'[w])]
        /\ UNCHANGED <<connected, reply>>
    BY <1>8 DEF ServerReceives, OnData, Rest, Become
  <2>5. frames'[w] = parse.frames
    BY <1>t, <2>4 DEF ServerTypes
  <2>. QED  BY <1>0, <1>b, <1>u, <1>w, <1>2, <2>1, <2>3, <2>4, <2>5
<1>9. ASSUME NEW w \in ServerWorkers, ServerHandles(w) PROVE ServerTypes'
  <2>. PICK list \in Seq(Frames) : list = frames[w]
    BY <1>w
  <2>1. list # <<>> /\ reply[w] = Absent
    BY <1>t, <1>9, AtStep DEF ServerHandles, HandleFrame
  <2>. PICK tail \in Seq(Frames) : tail = Tail(list)
    BY <2>1, Programs
  <2>. PICK answer \in Frames \cup {Absent} : answer = ReplyTo(Head(list))
    BY <2>1, ReplyIs
  <2>2. /\ frames' = [frames EXCEPT ![w] = tail]
        /\ reply' = [reply EXCEPT ![w] = answer]
        /\ work' = [work EXCEPT ![w] = (IF reply'[w] = Absent THEN <<>> ELSE <<"reply">>) \o Handling(frames'[w])]
        /\ UNCHANGED <<connected, conn_buffer, chunk>>
    BY <1>9 DEF ServerHandles, HandleFrame, Become
  <2>3. frames'[w] = tail /\ reply'[w] = answer
    BY <1>t, <2>2 DEF ServerTypes
  <2>4. \/ answer = Absent /\ work' = [work EXCEPT ![w] = Handling(tail)]
        \/ answer # Absent /\ work' = [work EXCEPT ![w] = <<"reply">> \o Handling(tail)]
    BY <2>2, <2>3, Programs
  <2>5. chunk' = [chunk EXCEPT ![w] = chunk[w]]
    BY <1>u, <2>2
  <2>6. connected' \in BOOLEAN /\ conn_buffer' \in Bytes \cup {Absent}
    BY <1>b, <2>2
  <2>7. CASE answer = Absent
    BY <1>w, <1>2, <2>2, <2>4, <2>5, <2>6, <2>7
  <2>8. CASE answer # Absent
    BY <1>w, <1>2, <2>2, <2>4, <2>5, <2>6, <2>8
  <2>. QED  BY <2>7, <2>8
<1>10. ASSUME NEW w \in ServerWorkers, ServerReplies(w) PROVE ServerTypes'
  <2>1. work[w] = <<"reply">> \o Handling(frames[w])
    BY <1>t, <1>10, AtStep DEF ServerReplies, SendReply, ReplyNowhere, ReplyBreaks
  <2>2. Tail(work[w]) = Handling(frames[w])
    BY <1>w, <2>1, Programs
  <2>3. /\ reply' = [reply EXCEPT ![w] = Absent]
        /\ work' = [work EXCEPT ![w] = Handling(frames[w])]
        /\ UNCHANGED <<connected, conn_buffer, chunk, frames>>
    BY <1>10, <2>2 DEF ServerReplies, SendReply, ReplyNowhere, ReplyBreaks, Replied, Go
  <2>4. chunk' = [chunk EXCEPT ![w] = chunk[w]] /\ frames' = [frames EXCEPT ![w] = frames[w]]
    BY <1>u, <2>3
  <2>5. connected' \in BOOLEAN /\ conn_buffer' \in Bytes \cup {Absent}
    BY <1>b, <2>3
  <2>. QED  BY <1>w, <1>2, <2>3, <2>4, <2>5
<1>11. ASSUME NEW w \in ServerWorkers, ServerFails(w) PROVE ServerTypes'
  <2>. PICK list \in Seq(Frames) : list = frames[w]
    BY <1>w
  <2>1. list # <<>> /\ reply[w] = Absent
    BY <1>t, <1>11, AtStep DEF ServerFails, MethodPanics, ErrorUnsent
  <2>. PICK tail \in Seq(Frames) : tail = Tail(list)
    BY <2>1, Programs
  <2>2. UNCHANGED <<connected, conn_buffer, chunk, reply>>
    BY <1>11 DEF ServerFails, MethodPanics, ErrorUnsent
  <2>3. chunk' = [chunk EXCEPT ![w] = chunk[w]] /\ reply' = [reply EXCEPT ![w] = Absent]
    BY <1>u, <2>1, <2>2
  <2>4. CASE MethodPanics(w)
    <3>1. /\ frames' = [frames EXCEPT ![w] = <<>>] /\ work' = [work EXCEPT ![w] = <<"dead">>]
          /\ <<"dead">> \in Errands
      BY <2>4 DEF MethodPanics, Become, Errands
    <3>. QED  BY <1>0, <1>b, <1>w, <1>2, <2>2, <2>3, <3>1
  <2>5. CASE ErrorUnsent(w)
    <3>1. frames' = [frames EXCEPT ![w] = tail] /\ work' = [work EXCEPT ![w] = Handling(frames'[w])]
      BY <2>5 DEF ErrorUnsent, Become
    <3>2. frames'[w] = tail
      BY <1>t, <3>1 DEF ServerTypes
    <3>. QED  BY <1>b, <1>w, <1>2, <2>2, <2>3, <3>1, <3>2
  <2>. QED  BY <1>11, <2>4, <2>5 DEF ServerFails
<1>. QED  BY <1>4, <1>5, <1>6, <1>7, <1>8, <1>9, <1>10, <1>11 DEF Next, ServerWorker

\* and of the history.
LEMMA HistoryKept ==
    ASSUME IInv, TInv, Next
    PROVE  HistoryTypes'
<1>t. HistoryTypes /\ ServerTypes
  BY DEF TInv
<1>e. "client" \in Ends /\ "server" \in Ends
  BY DEF Ends
<1>1. ASSUME UNCHANGED <<user, history>> PROVE HistoryTypes'
  BY <1>t, <1>1 DEF HistoryTypes, history
<1>2. ASSUME user' = user,
             sent' \in [Ends -> Seq(Frames)], taken' \in [Ends -> Seq(Frames)],
             reading' = [e \in Ends |-> reading'[e]], mangled' \in [Ends -> BOOLEAN],
             unheard' \in SUBSET Nat, ran' \in [Ids -> Nat]
      PROVE  HistoryTypes'
  BY <1>t, <1>2 DEF HistoryTypes
<1>3. ASSUME NEW e \in Ends, NEW frame \in Frames, NoteSent(e, frame)
      PROVE  sent' \in [Ends -> Seq(Frames)]
  <2>1. Append(sent[e], frame) \in Seq(Frames)
    BY <1>t DEF HistoryTypes
  <2>. QED  BY <1>t, <1>3, <2>1 DEF HistoryTypes, NoteSent
<1>4. ASSUME NEW e \in Ends, NEW condition, MangleIf(e, condition), condition \in BOOLEAN
      PROVE  mangled' \in [Ends -> BOOLEAN]
  BY <1>t, <1>4 DEF HistoryTypes, MangleIf
<1>5. ASSUME NEW e \in Ends, NEW w, NEW buffer \in Bytes, NoteParsed(e, w, ParseFrames(buffer))
      PROVE  /\ reading' = [d \in Ends |-> reading'[d]]
             /\ mangled' \in [Ends -> BOOLEAN]
             /\ taken' \in [Ends -> Seq(Frames)]
  <2>. PICK parse : parse = ParseFrames(buffer)
    OBVIOUS
  <2>1. parse.ok \in BOOLEAN /\ parse.frames \in Seq(Frames)
    BY ParseTypes
  <2>2. taken[e] \o parse.frames \in Seq(Frames)
    <3>. PICK s \in Seq(Frames), t \in Seq(Frames) : s = taken[e] /\ t = parse.frames
      BY <1>t, <2>1 DEF HistoryTypes
    <3>1. s \o t \in Seq(Frames)
      OBVIOUS
    <3>. QED  BY <3>1
  <2>3. MangleIf(e, Head(reading[e]) # w \/ ~parse.ok) /\ taken' = [taken EXCEPT ![e] = @ \o parse.frames]
    BY <1>5 DEF NoteParsed
  <2>4. taken' = [taken EXCEPT ![e] = taken[e] \o parse.frames]
    BY <2>3
  <2>5. taken' \in [Ends -> Seq(Frames)]
    BY <1>t, <2>2, <2>4 DEF HistoryTypes
  <2>6. reading' = [d \in Ends |-> reading'[d]]
    <3>1. \E r : reading' = [reading EXCEPT ![e] = r]
      BY <1>5 DEF NoteParsed
    <3>. QED  BY <1>t, <3>1 DEF HistoryTypes
  <2>. QED  BY <1>4, <2>3, <2>5, <2>6
<1>6. /\ sent \in [Ends -> Seq(Frames)] /\ taken \in [Ends -> Seq(Frames)]
      /\ reading = [e \in Ends |-> reading[e]] /\ mangled \in [Ends -> BOOLEAN]
      /\ unheard \in SUBSET Nat /\ ran \in [Ids -> Nat]
  BY <1>t DEF HistoryTypes
<1>7. CASE Network \/ ClientStep \/ ServerCloses \/ (\E c \in Callers : CallerStep(c))
           \/ (\E x \in ClientWorkers : RawReceive(x) \/ ClientHandles(x)) \/ \E w \in ServerWorkers : ServerStep(w)
  BY <1>1, <1>7 DEF Network, ClientStep, ServerCloses, CallerStep, RawReceive, ClientHandles, ServerStep
<1>8. ASSUME NEW frame \in RawFrames, RawSend(frame) PROVE HistoryTypes'
  <2>1. sent' \in [Ends -> Seq(Frames)]
    BY <1>e, <1>3, <1>8, RpcAssumption DEF RawSend
  <2>. QED  BY <1>2, <1>6, <1>8, <2>1 DEF RawSend
<1>9. ASSUME NEW c \in Callers, CallerSends(c) PROVE HistoryTypes'
  <2>1. FrameFor(IdOf(c)) \in Frames /\ IdOf(c) \in Nat
    BY <1>9, AboutToSend DEF CallerSends, SendRequest, Ids
  <2>2. sent' \in [Ends -> Seq(Frames)] /\ unheard' \in SUBSET Nat
    BY <1>e, <1>3, <1>6, <1>9, <2>1 DEF CallerSends
  <2>. QED  BY <1>2, <1>6, <1>9, <2>2 DEF CallerSends
<1>10. ASSUME NEW c \in Callers, CallerFails(c) PROVE HistoryTypes'
  <2>1. mangled' \in [Ends -> BOOLEAN]
    BY <1>e, <1>4, <1>10 DEF CallerFails
  <2>. QED  BY <1>2, <1>6, <1>10, <2>1 DEF CallerFails
<1>11. ASSUME NEW e \in Ends, NEW w, NoteRead(e, w) PROVE reading' = [d \in Ends |-> reading'[d]]
  BY <1>6, <1>11 DEF NoteRead
<1>12. ASSUME NEW x \in ClientWorkers, ClientReads(x) PROVE HistoryTypes'
  <2>1. reading' = [d \in Ends |-> reading'[d]]
    BY <1>e, <1>11, <1>12 DEF ClientReads
  <2>. QED  BY <1>2, <1>6, <1>12, <2>1 DEF ClientReads
<1>13. ASSUME NEW w \in ServerWorkers, ServerReads(w) PROVE HistoryTypes'
  <2>1. reading' = [d \in Ends |-> reading'[d]]
    BY <1>e, <1>11, <1>13 DEF ServerReads
  <2>. QED  BY <1>2, <1>6, <1>13, <2>1 DEF ServerReads
<1>14. ASSUME NEW x \in ClientWorkers, ClientReceives(x) PROVE HistoryTypes'
  <2>. PICK buffer : buffer = recv_buf \o job[x].chunk
    OBVIOUS
  <2>1. buffer \in Bytes
    <3>1. job[x] \in [step : {"data"}, chunk : Seq(Nat) \ {<<>>}, frames : {<<>>}]
      BY <1>14 DEF TInv, ClientTypes, Jobs, ClientReceives, ReceiveData, JobAt
    <3>. PICK s \in Bytes, t \in Bytes : s = recv_buf /\ t = job[x].chunk
      BY <3>1 DEF TInv, ClientTypes, Bytes
    <3>2. s \o t \in Bytes
      BY Joined
    <3>. QED  BY <3>2
  <2>2. NoteParsed("client", x, ParseFrames(buffer)) /\ UNCHANGED <<user, sent, unheard, ran>>
    BY <1>14 DEF ClientReceives
  <2>3. /\ reading' = [d \in Ends |-> reading'[d]]
        /\ mangled' \in [Ends -> BOOLEAN]
        /\ taken' \in [Ends -> Seq(Frames)]
    BY <1>e, <1>5, <2>1, <2>2
  <2>. QED  BY <1>2, <1>6, <2>2, <2>3
<1>15. ASSUME NEW w \in ServerWorkers, ServerReceives(w) PROVE HistoryTypes'
  <2>. PICK buffer : buffer = Buffered(w)
    OBVIOUS
  <2>1. buffer \in Bytes
    <3>1. <<>> \in Bytes
      BY DEF Bytes
    <3>. PICK s \in Bytes, t \in Bytes : s = (IF conn_buffer = Absent THEN <<>> ELSE conn_buffer) /\ t = chunk[w]
      BY <1>t, <3>1 DEF ServerTypes
    <3>2. s \o t \in Bytes
      BY Joined
    <3>. QED  BY <3>2 DEF Buffered
  <2>2. NoteParsed("server", w, ParseFrames(buffer)) /\ UNCHANGED <<user, sent, unheard, ran>>
    BY <1>15 DEF ServerReceives
  <2>3. /\ reading' = [d \in Ends |-> reading'[d]]
        /\ mangled' \in [Ends -> BOOLEAN]
        /\ taken' \in [Ends -> Seq(Frames)]
    BY <1>e, <1>5, <2>1, <2>2
  <2>. QED  BY <1>2, <1>6, <2>2, <2>3
<1>16. ASSUME NEW w \in ServerWorkers, ServerBuffer(w) PROVE HistoryTypes'
  <2>1. mangled' \in [Ends -> BOOLEAN]
    BY <1>e, <1>4, <1>16 DEF ServerBuffer
  <2>. QED  BY <1>2, <1>6, <1>16, <2>1 DEF ServerBuffer
<1>17. ASSUME NEW w \in ServerWorkers, ServerHandles(w) PROVE HistoryTypes'
  <2>1. ran' \in [Ids -> Nat]
    BY <1>6, <1>17 DEF ServerHandles, NoteRun
  <2>. QED  BY <1>2, <1>6, <1>17, <2>1 DEF ServerHandles
<1>18. ASSUME NEW w \in ServerWorkers, ServerReplies(w) PROVE HistoryTypes'
  <2>1. reply[w] \in Frames
    BY <1>t, <1>18, AtStep DEF ServerReplies, SendReply, ReplyNowhere, ReplyBreaks
  <2>2. Answered(reply[w]) \in SUBSET Nat
    <3>. PICK p \in Seq(Nat) : p = reply[w].payload
      BY <2>1 DEF Frames
    <3>. QED  BY DEF Answered
  <2>3. \/ NoteSent("client", reply[w]) /\ UNCHANGED <<unheard, mangled>>
        \/ /\ unheard' = unheard \cup Answered(reply[w])
           /\ MangleIf("client", wire' # wire)
           /\ UNCHANGED sent
    BY <1>18 DEF ServerReplies
  <2>4. sent' \in [Ends -> Seq(Frames)] /\ unheard' \in SUBSET Nat /\ mangled' \in [Ends -> BOOLEAN]
    BY <1>e, <1>3, <1>4, <1>6, <2>1, <2>2, <2>3
  <2>. QED  BY <1>2, <1>6, <1>18, <2>4 DEF ServerReplies
<1>19. ASSUME NEW w \in ServerWorkers, ServerFails(w) PROVE HistoryTypes'
  <2>. PICK list \in Seq(Frames) : list = frames[w]
    BY <1>t DEF ServerTypes
  <2>1. list # <<>>
    BY <1>t, <1>19, AtStep DEF ServerFails, MethodPanics, ErrorUnsent
  <2>2. \A frame \in Frames : Answered(frame) \in SUBSET Nat
    <3> TAKE frame \in Frames
    <3>. PICK p \in Seq(Nat) : p = frame.payload
      BY DEF Frames
    <3>. QED  BY DEF Answered
  <2>3. Answered(Head(list)) \in SUBSET Nat
    BY <2>1, <2>2
  <2>4. UNION {Answered(list[i]) : i \in DOMAIN list} \in SUBSET Nat
    BY <2>2
  <2>5. unheard' \in SUBSET Nat
    BY <1>6, <1>19, <2>3, <2>4 DEF ServerFails
  <2>6. ran' \in [Ids -> Nat]
    <3>1. ran' = ran \/ NoteRun(Head(frames[w]))
      BY <1>19 DEF ServerFails
    <3>. QED  BY <1>6, <3>1, SMTT(60) DEF NoteRun
  <2>. QED  BY <1>2, <1>6, <1>19, <2>5, <2>6 DEF ServerFails
<1>. QED  BY <1>7, <1>8, <1>9, <1>10, <1>12, <1>13, <1>14, <1>15, <1>16, <1>17, <1>18, <1>19
          DEF Next, Caller, ClientWorker, ServerWorker

\* Every step keeps the types.
LEMMA NextTypes == IInv /\ TInv /\ [Next]_vars => TInv'
<1> SUFFICES ASSUME IInv, TInv, [Next]_vars PROVE TInv'
  OBVIOUS
<1>1. CASE Next
  BY <1>1, NetKept, ClientKept, RequestKept, ServerKept, HistoryKept DEF TInv
<1>2. CASE UNCHANGED vars
  BY <1>2 DEF vars, connVars, clientVars, callVars, serverVars, history, TInv, NetTypes, ClientTypes,
     RequestTypes, Issued, ServerTypes, AtWork, HistoryTypes
<1>. QED  BY <1>1, <1>2

--------------------------------------------------------------------------------
(***************************************************************************)
(* The bytes on their way to an end.                                       *)
(***************************************************************************)
BufferAt(e) ==
    IF e = "client" THEN recv_buf
    ELSE IF conn_buffer = Absent THEN <<>>
    ELSE conn_buffer
WorkersAt(e) == IF e = "client" THEN ClientWorkers ELSE ServerWorkers
HasChunk(e, w) == IF e = "client" THEN JobAt(w, "data") ELSE NextIs(w, "data")
ChunkOf(e, w) == IF e = "client" THEN job[w].chunk ELSE chunk[w]
ChunksOf(e) == [i \in 1 .. Len(reading[e]) |-> ChunkOf(e, reading[e][i])]

\* The workers that have a chunk, each once.
ReadersInOrder(e) ==
    /\ reading[e] \in Seq(WorkersAt(e))
    /\ \A i, j \in 1 .. Len(reading[e]) : reading[e][i] = reading[e][j] => i = j
    /\ \A w \in WorkersAt(e) : HasChunk(e, w) <=> \E i \in 1 .. Len(reading[e]) : reading[e][i] = w

\* The bytes that are not parsed yet are the frames that are not taken yet.
BytesInOrder(e) ==
    /\ ReadersInOrder(e)
    /\ Len(taken[e]) <= Len(sent[e]) /\ taken[e] = SubSeq(sent[e], 1, Len(taken[e]))
    /\ \E bytes \in Bytes : /\ Stacked(bytes, ChunksOf(e), arrived[e] \o wire[e])
                            /\ Encodes(BufferAt(e) \o bytes, Untaken(e))

OrderInv ==
    /\ \A e \in Ends : ~mangled[e] /\ (e = "client" => user = "rpc") => BytesInOrder(e)
    /\ user = "raw" => taken["client"] = <<>>

\* What is at an end is bytes, and what was sent there and taken is frames.
LEMMA ChunkTypes ==
    ASSUME TInv, NEW e \in Ends
    PROVE  /\ BufferAt(e) \in Bytes /\ arrived[e] \in Bytes /\ wire[e] \in Bytes
           /\ sent[e] \in Seq(Frames) /\ taken[e] \in Seq(Frames)
           /\ \A w \in WorkersAt(e) : HasChunk(e, w) => ChunkOf(e, w) \in Bytes
<1>1. <<>> \in Bytes
  BY DEF Bytes
<1>2. BufferAt(e) \in Bytes
  BY <1>1 DEF TInv, ClientTypes, ServerTypes, BufferAt
<1>3. ASSUME NEW x \in ClientWorkers, JobAt(x, "data") PROVE job[x].chunk \in Bytes
  <2>1. job[x] \in [step : {"data"}, chunk : Seq(Nat) \ {<<>>}, frames : {<<>>}]
    BY <1>3 DEF TInv, ClientTypes, Jobs, JobAt
  <2>. QED  BY <2>1 DEF Bytes
<1>4. \A w \in ServerWorkers : chunk[w] \in Bytes
  BY DEF TInv, ServerTypes
<1>5. \A w \in WorkersAt(e) : HasChunk(e, w) => ChunkOf(e, w) \in Bytes
  BY <1>3, <1>4 DEF WorkersAt, HasChunk, ChunkOf, Ends
<1>. QED  BY <1>2, <1>5 DEF TInv, NetTypes, HistoryTypes

\* The chunks are those of the workers that have one, in the order of the reads.
LEMMA ChunksAre ==
    ASSUME TInv, NEW e \in Ends, ReadersInOrder(e)
    PROVE  /\ ChunksOf(e) \in Seq(Bytes) /\ Len(ChunksOf(e)) = Len(reading[e])
           /\ \A i \in 1 .. Len(reading[e]) :
                 /\ reading[e][i] \in WorkersAt(e) /\ HasChunk(e, reading[e][i])
                 /\ ChunksOf(e)[i] = ChunkOf(e, reading[e][i])
<1>1. reading[e] \in Seq(WorkersAt(e))
  BY DEF ReadersInOrder
<1>2. PICK r \in Seq(WorkersAt(e)) : r = reading[e]
  BY <1>1
<1>3. \A i \in 1 .. Len(r) : r[i] \in WorkersAt(e)
  BY ElementOfSeq
<1>4. \A i \in 1 .. Len(r) : HasChunk(e, r[i])
  BY <1>2, <1>3 DEF ReadersInOrder
<1>5. \A i \in 1 .. Len(r) : ChunkOf(e, r[i]) \in Bytes
  BY <1>3, <1>4, ChunkTypes
<1>6. ChunksOf(e) = [i \in 1 .. Len(r) |-> ChunkOf(e, r[i])]
  BY <1>2 DEF ChunksOf
<1>. QED  BY <1>2, <1>3, <1>4, <1>5, <1>6

\* Where no chunk is taken or parsed, they stay as they are.
LEMMA ReadersRest ==
    ASSUME TInv, NEW e \in Ends, ReadersInOrder(e), reading'[e] = reading[e],
           \A w \in WorkersAt(e) : /\ HasChunk(e, w)' <=> HasChunk(e, w)
                                   /\ HasChunk(e, w) => ChunkOf(e, w)' = ChunkOf(e, w)
    PROVE  ReadersInOrder(e)' /\ ChunksOf(e)' = ChunksOf(e)
<1>1. ReadersInOrder(e)'
  BY DEF ReadersInOrder, WorkersAt
<1>2. \A i \in 1 .. Len(reading[e]) : ChunkOf(e, reading[e][i])' = ChunkOf(e, reading[e][i])
  BY ChunksAre
<1>. QED  BY <1>1, <1>2 DEF ChunksOf

\* A step that leaves what is on its way to an end alone.
LEMMA OrderRests ==
    ASSUME TInv, NEW e \in Ends, BytesInOrder(e),
           reading'[e] = reading[e], taken'[e] = taken[e], sent'[e] = sent[e],
           BufferAt(e)' = BufferAt(e),
           arrived'[e] \o wire'[e] = arrived[e] \o wire[e],
           \A w \in WorkersAt(e) : /\ HasChunk(e, w)' <=> HasChunk(e, w)
                                   /\ HasChunk(e, w) => ChunkOf(e, w)' = ChunkOf(e, w)
    PROVE  BytesInOrder(e)'
<1>1. ReadersInOrder(e)
  BY DEF BytesInOrder
<1>2. ReadersInOrder(e)'
  BY <1>1, ReadersRest
<1>3. ChunksOf(e)' = ChunksOf(e)
  BY <1>1, ReadersRest
<1>4. Untaken(e)' = Untaken(e)
  BY DEF Untaken
<1>. QED  BY <1>2, <1>3, <1>4 DEF BytesInOrder

\* A frame is written behind the others.
LEMMA OrderSent ==
    ASSUME TInv, NEW e \in Ends, BytesInOrder(e), NEW frame \in Frames,
           reading'[e] = reading[e], taken'[e] = taken[e], sent'[e] = Append(sent[e], frame),
           BufferAt(e)' = BufferAt(e),
           arrived'[e] = arrived[e], wire'[e] = wire[e] \o Encode(frame),
           \A w \in WorkersAt(e) : /\ HasChunk(e, w)' <=> HasChunk(e, w)
                                   /\ HasChunk(e, w) => ChunkOf(e, w)' = ChunkOf(e, w)
    PROVE  BytesInOrder(e)'
<1>1. ReadersInOrder(e)
  BY DEF BytesInOrder
<1>2. ReadersInOrder(e)'
  BY <1>1, ReadersRest
<1>3. ChunksOf(e)' = ChunksOf(e)
  BY <1>1, ReadersRest
<1>4. PICK bytes \in Bytes : /\ Stacked(bytes, ChunksOf(e), arrived[e] \o wire[e])
                             /\ Encodes(BufferAt(e) \o bytes, Untaken(e))
  BY DEF BytesInOrder
<1>5. PICK s \in Seq(Frames), t \in Seq(Frames) : s = sent[e] /\ t = taken[e]
  BY ChunkTypes
<1>6. PICK a \in Bytes, o \in Bytes, b \in Bytes, n \in Bytes :
        a = arrived[e] /\ o = wire[e] /\ b = BufferAt(e) /\ n = Encode(frame)
  BY ChunkTypes, EncodeIs
<1>7. a \o (o \o n) = (a \o o) \o n
  BY Regrouped, SMTT(30)
<1>8. Stacked(bytes \o n, ChunksOf(e), (a \o o) \o n)
  BY <1>1, <1>4, <1>6, ChunksAre, StackedMore
<1>9. arrived'[e] \o wire'[e] = (a \o o) \o n
  BY <1>6, <1>7
<1>10. Len(t) <= Len(s) /\ t = SubSeq(s, 1, Len(t))
  BY <1>5 DEF BytesInOrder
<1>11. Untaken(e) \in Seq(Frames) /\ Untaken(e)' = Append(Untaken(e), frame)
  <2>0. Len(t) \in 0 .. Len(s)
    <3>1. Len(t) \in Nat /\ Len(s) \in Nat
      OBVIOUS
    <3>. QED  BY <1>10, <3>1
  <2>m. PICK m \in 0 .. Len(s) : m = Len(t)
    BY <2>0
  <2>1. SubSeq(s, m + 1, Len(s)) \in Seq(Frames)
        /\ SubSeq(Append(s, frame), m + 1, Len(s) + 1) = Append(SubSeq(s, m + 1, Len(s)), frame)
    BY Appended
  <2>2. Len(Append(s, frame)) = Len(s) + 1
    OBVIOUS
  <2>3. Untaken(e) = SubSeq(s, m + 1, Len(s))
        /\ Untaken(e)' = SubSeq(Append(s, frame), m + 1, Len(s) + 1)
    BY <1>5, <2>m, <2>2 DEF Untaken
  <2>. QED  BY <2>1, <2>3
<1>12. Encodes((b \o bytes) \o n, Append(Untaken(e), frame))
  BY <1>4, <1>6, <1>11, EncodesLast
<1>13. (b \o bytes) \o n = b \o (bytes \o n)
  BY Regrouped
<1>14. bytes \o n \in Bytes
  BY Joined
<1>15. Encodes(BufferAt(e)' \o (bytes \o n), Untaken(e)')
  BY <1>6, <1>11, <1>12, <1>13
<1>16. Len(taken'[e]) <= Len(sent'[e]) /\ taken'[e] = SubSeq(sent'[e], 1, Len(taken'[e]))
  <2>1. Len(t) <= Len(Append(s, frame)) /\ t = SubSeq(Append(s, frame), 1, Len(t))
    BY <1>10
  <2>. QED  BY <1>5, <2>1
<1>17. Stacked(bytes \o n, ChunksOf(e)', arrived'[e] \o wire'[e])
  BY <1>3, <1>8, <1>9
<1>. QED  BY <1>2, <1>14, <1>15, <1>16, <1>17 DEF BytesInOrder

\* A worker reads what has arrived.
LEMMA OrderRead ==
    ASSUME TInv, NEW e \in Ends, BytesInOrder(e), NEW r \in WorkersAt(e),
           reading'[e] = Append(reading[e], r), taken'[e] = taken[e], sent'[e] = sent[e],
           BufferAt(e)' = BufferAt(e),
           arrived'[e] = <<>>, wire'[e] = wire[e],
           ~HasChunk(e, r), HasChunk(e, r)', ChunkOf(e, r)' = arrived[e],
           \A w \in WorkersAt(e) \ {r} : /\ HasChunk(e, w)' <=> HasChunk(e, w)
                                         /\ HasChunk(e, w) => ChunkOf(e, w)' = ChunkOf(e, w)
    PROVE  BytesInOrder(e)'
<1>1. ReadersInOrder(e)
  BY DEF BytesInOrder
<1>2. PICK rs \in Seq(WorkersAt(e)) : rs = reading[e]
  BY <1>1 DEF ReadersInOrder
<1>3. /\ Append(rs, r) \in Seq(WorkersAt(e)) /\ Len(Append(rs, r)) = Len(rs) + 1 /\ Len(rs) \in Nat
      /\ Append(rs, r)[Len(rs) + 1] = r
      /\ \A i \in 1 .. Len(rs) : Append(rs, r)[i] = rs[i] /\ rs[i] \in WorkersAt(e)
  OBVIOUS
<1>4. \A i \in 1 .. Len(rs) : rs[i] # r /\ HasChunk(e, rs[i])
  BY <1>1, <1>2, ChunksAre
<1>5. ReadersInOrder(e)'
  <2>1. reading'[e] \in Seq(WorkersAt(e))
    BY <1>2, <1>3
  <2>. PICK q : q = Append(rs, r)
    OBVIOUS
  <2>2. \A i, j \in 1 .. Len(rs) : rs[i] = rs[j] => i = j
    BY <1>1, <1>2 DEF ReadersInOrder
  <2>3. \A i, j \in 1 .. Len(q) : q[i] = q[j] => i = j
    BY <1>3, <1>4, <2>2
  <2>4. ASSUME NEW w \in WorkersAt(e)
        PROVE  HasChunk(e, w)' <=> \E i \in 1 .. Len(q) : q[i] = w
    <3>1. HasChunk(e, w) <=> \E i \in 1 .. Len(rs) : rs[i] = w
      BY <1>1, <1>2 DEF ReadersInOrder
    <3>2. CASE w = r
      BY <1>3, <3>2
    <3>3. CASE w # r
      BY <1>3, <3>1, <3>3
    <3>. QED  BY <3>2, <3>3
  <2>5. reading'[e] = q
    BY <1>2
  <2>6. reading'[e] \in Seq(WorkersAt(e)')
    BY <2>1 DEF WorkersAt
  <2>7. \A w \in WorkersAt(e)' : HasChunk(e, w)' <=> \E i \in 1 .. Len(q) : q[i] = w
    BY <2>4 DEF WorkersAt
  <2>. QED  BY <2>3, <2>5, <2>6, <2>7 DEF ReadersInOrder
<1>6. ChunksOf(e)' = Append(ChunksOf(e), arrived[e])
  <2>1. PICK parts \in Seq(Bytes) : parts = ChunksOf(e)
    BY <1>1, ChunksAre
  <2>2. Len(parts) = Len(rs) /\ \A i \in 1 .. Len(rs) : parts[i] = ChunkOf(e, rs[i])
    BY <1>1, <1>2, <2>1, ChunksAre
  <2>3. PICK a \in Bytes : a = arrived[e]
    BY ChunkTypes
  <2>4. \A i \in 1 .. Len(rs) : ChunkOf(e, rs[i])' = parts[i]
    BY <1>3, <1>4, <2>2
  <2>5. \A i \in 1 .. Len(rs) + 1 :
           ChunkOf(e, Append(rs, r)[i])' = IF i = Len(rs) + 1 THEN a ELSE parts[i]
    <3> TAKE i \in 1 .. Len(rs) + 1
    <3>1. CASE i = Len(rs) + 1
      BY <1>3, <2>3, <3>1
    <3>2. CASE i # Len(rs) + 1
      <4>1. i \in 1 .. Len(rs)
        BY <1>3, <3>2
      <4>. QED  BY <1>3, <2>4, <3>2, <4>1
    <3>. QED  BY <3>1, <3>2
  <2>6. ChunksOf(e)' = [i \in 1 .. Len(rs) + 1 |-> IF i = Len(rs) + 1 THEN a ELSE parts[i]]
    BY <1>2, <1>3, <2>5 DEF ChunksOf
  <2>7. Append(parts, a) = [i \in 1 .. Len(rs) + 1 |-> IF i = Len(rs) + 1 THEN a ELSE parts[i]]
    BY <2>2, AppendIs
  <2>. QED  BY <2>1, <2>3, <2>6, <2>7
<1>7. PICK bytes \in Bytes : /\ Stacked(bytes, ChunksOf(e), arrived[e] \o wire[e])
                             /\ Encodes(BufferAt(e) \o bytes, Untaken(e))
  BY DEF BytesInOrder
<1>8. PICK a \in Bytes, o \in Bytes : a = arrived[e] /\ o = wire[e]
  BY ChunkTypes
<1>9. Stacked(bytes, Append(ChunksOf(e), a), o)
  BY <1>1, <1>7, <1>8, ChunksAre, StackedLast
<1>10. arrived'[e] \o wire'[e] = o
  BY <1>8, Joined
<1>11. Untaken(e)' = Untaken(e)
  BY DEF Untaken
<1>12. Stacked(bytes, ChunksOf(e)', arrived'[e] \o wire'[e])
  BY <1>6, <1>8, <1>9, <1>10
<1>. QED  BY <1>5, <1>7, <1>11, <1>12 DEF BytesInOrder

\* The first of different ones is dropped.
LEMMA FirstRemoved ==
    ASSUME NEW S, NEW s \in Seq(S), s # <<>>, NEW w, w = Head(s),
           \A i, j \in 1 .. Len(s) : s[i] = s[j] => i = j
    PROVE  RemoveAt(s, CHOOSE i \in DOMAIN s : s[i] = w) = Tail(s)
<1>1. DOMAIN s = 1 .. Len(s) /\ Len(s) \in Nat /\ Len(s) >= 1 /\ Head(s) = s[1]
  OBVIOUS
<1>2. PICK k : k = CHOOSE i \in DOMAIN s : s[i] = w
  OBVIOUS
<1>3. k \in DOMAIN s /\ s[k] = w
  <2>1. \E i \in DOMAIN s : s[i] = w
    BY <1>1
  <2>. QED  BY <1>2, <2>1
<1>4. k = 1
  BY <1>1, <1>3
<1>5. SubSeq(s, 1, 0) = <<>> /\ SubSeq(s, 2, Len(s)) = Tail(s) /\ Tail(s) \in Seq(S)
  BY SubSeqEmpty, TailIsSubSeq
<1>6. RemoveAt(s, 1) = SubSeq(s, 1, 0) \o SubSeq(s, 2, Len(s))
  BY DEF RemoveAt
<1>7. \A t \in Seq(S) : <<>> \o t = t
  OBVIOUS
<1>8. RemoveAt(s, 1) = Tail(s)
  BY <1>5, <1>6, <1>7, Zenon
<1>. QED  BY <1>2, <1>4, <1>8

\* What is taken of a list, and what is left.
LEMMA TakenMore ==
    ASSUME NEW S, NEW s \in Seq(S), NEW n \in 0 .. Len(s), NEW k \in 0 .. Len(s) - n
    PROVE  /\ Len(SubSeq(s, n + 1, Len(s))) = Len(s) - n /\ SubSeq(s, n + 1, Len(s)) \in Seq(S)
           /\ SubSeq(s, 1, n) \o SubSeq(SubSeq(s, n + 1, Len(s)), 1, k) = SubSeq(s, 1, n + k)
           /\ SubSeq(SubSeq(s, n + 1, Len(s)), k + 1, Len(s) - n) = SubSeq(s, n + k + 1, Len(s))
           /\ Len(SubSeq(s, 1, n + k)) = n + k
<1>0. Len(s) \in Nat /\ n \in Nat /\ k \in Nat /\ n + k <= Len(s)
  OBVIOUS
<1>1. PICK u : u = SubSeq(s, n + 1, Len(s))
  OBVIOUS
<1>2. u \in Seq(S) /\ Len(u) = Len(s) - n /\ \A i \in 1 .. Len(s) - n : u[i] = s[i + n]
  BY <1>0, <1>1
<1>3. SubSeq(u, 1, k) = SubSeq(s, n + 1, n + k)
  <2>1. PICK f : f = SubSeq(u, 1, k)
    OBVIOUS
  <2>2. PICK g : g = SubSeq(s, n + 1, n + k)
    OBVIOUS
  <2>3. f \in Seq(S) /\ Len(f) = k /\ \A i \in 1 .. k : f[i] = u[i]
    BY <1>0, <1>2, <2>1
  <2>4. g \in Seq(S) /\ Len(g) = k /\ \A i \in 1 .. k : g[i] = s[i + n]
    BY <1>0, <2>2
  <2>5. \A i \in 1 .. k : i \in 1 .. Len(s) - n
    BY <1>0
  <2>6. f = g
    BY <1>2, <2>3, <2>4, <2>5, SeqEqual
  <2>. QED  BY <2>1, <2>2, <2>6
<1>4. SubSeq(u, k + 1, Len(s) - n) = SubSeq(s, n + k + 1, Len(s))
  <2>1. PICK f : f = SubSeq(u, k + 1, Len(s) - n)
    OBVIOUS
  <2>2. PICK g : g = SubSeq(s, n + k + 1, Len(s))
    OBVIOUS
  <2>a. Len(s) - n - k \in Nat
    BY <1>0
  <2>3. PICK l \in Nat : l = Len(s) - n - k
    BY <2>a
  <2>4. f \in Seq(S) /\ Len(f) = l /\ \A i \in 1 .. l : f[i] = u[i + k]
    <3>1. k \in 0 .. Len(u) /\ Len(s) - n \in k .. Len(u) /\ Len(s) - n - k = l
      BY <1>0, <1>2, <2>3
    <3>. QED  BY <1>2, <2>1, <3>1, PartOf, ZenonT(30)
  <2>5. g \in Seq(S) /\ Len(g) = l /\ \A i \in 1 .. l : g[i] = s[i + (n + k)]
    <3>1. n + k \in 0 .. Len(s) /\ Len(s) \in n + k .. Len(s) /\ Len(s) - (n + k) = l
      BY <1>0, <2>3
    <3>. QED  BY <2>2, <3>1, PartOf
  <2>6. \A i \in 1 .. l : i + k \in 1 .. Len(s) - n /\ (i + k) + n = i + (n + k)
    BY <1>0, <2>3
  <2>7. \A i \in 1 .. l : f[i] = g[i]
    BY <1>2, <2>4, <2>5, <2>6
  <2>8. f = g
    BY <2>4, <2>5, <2>7, SeqEqual
  <2>. QED  BY <2>1, <2>2, <2>8
<1>5. SubSeq(s, 1, n) \o SubSeq(s, n + 1, n + k) = SubSeq(s, 1, n + k)
  <2>1. 1 \in 1 .. Len(s) + 1 /\ n \in 1 - 1 .. Len(s) /\ n + k \in n .. Len(s)
    BY <1>0
  <2>. QED  BY <2>1, ConcatAdjacentSubSeq
<1>6. Len(SubSeq(s, 1, n + k)) = n + k
  BY <1>0
<1>. QED  BY <1>1, <1>2, <1>3, <1>4, <1>5, <1>6

\* A worker parses the chunk that was read first.
LEMMA OrderParsed ==
    ASSUME TInv, NEW e \in Ends, BytesInOrder(e), NEW r \in WorkersAt(e), HasChunk(e, r), ~HasChunk(e, r)',
           NEW parse, parse = ParseFrames(BufferAt(e) \o ChunkOf(e, r)), parse.ok,
           Head(reading[e]) = r,
           reading'[e] = RemoveAt(reading[e], CHOOSE i \in DOMAIN reading[e] : reading[e][i] = r),
           taken'[e] = taken[e] \o parse.frames, sent'[e] = sent[e],
           BufferAt(e)' = parse.rest,
           arrived'[e] = arrived[e], wire'[e] = wire[e],
           \A w \in WorkersAt(e) \ {r} : /\ HasChunk(e, w)' <=> HasChunk(e, w)
                                         /\ HasChunk(e, w) => ChunkOf(e, w)' = ChunkOf(e, w)
    PROVE  BytesInOrder(e)'
<1>1. ReadersInOrder(e)
  BY DEF BytesInOrder
<1>2. PICK rs \in Seq(WorkersAt(e)) : rs = reading[e]
  BY <1>1 DEF ReadersInOrder
<1>3. \A i, j \in 1 .. Len(rs) : rs[i] = rs[j] => i = j
  BY <1>1, <1>2 DEF ReadersInOrder
<1>4. rs # <<>> /\ Len(rs) \in Nat /\ Len(rs) >= 1 /\ rs[1] = r
  <2>1. \E i \in 1 .. Len(rs) : rs[i] = r
    BY <1>1, <1>2 DEF ReadersInOrder
  <2>. QED  BY <1>2, <2>1
<1>5. PICK q \in Seq(WorkersAt(e)) : q = Tail(rs) /\ Len(q) = Len(rs) - 1 /\ \A i \in 1 .. Len(q) : q[i] = rs[i + 1]
  BY <1>4, TailIs
<1>6. reading'[e] = q
  <2>1. Head(rs) = r
    BY <1>2
  <2>2. RemoveAt(rs, CHOOSE i \in DOMAIN rs : rs[i] = r) = Tail(rs)
    BY <1>3, <1>4, <2>1, FirstRemoved
  <2>. QED  BY <1>2, <1>5, <2>2, Zenon
<1>7. \A i \in 1 .. Len(q) : q[i] # r /\ q[i] \in WorkersAt(e) /\ HasChunk(e, q[i]) /\ i + 1 \in 1 .. Len(rs)
  <2> TAKE i \in 1 .. Len(q)
  <2>1. i + 1 \in 1 .. Len(rs) /\ i + 1 # 1 /\ 1 \in 1 .. Len(rs)
    BY <1>4, <1>5
  <2>2. rs[i + 1] \in WorkersAt(e) /\ HasChunk(e, rs[i + 1])
    BY <1>1, <1>2, <2>1, ChunksAre
  <2>. QED  BY <1>3, <1>4, <1>5, <2>1, <2>2
<1>8. ReadersInOrder(e)'
  <2>1. \A i, j \in 1 .. Len(q) : q[i] = q[j] => i = j
    BY <1>3, <1>5, <1>7
  <2>2. ASSUME NEW w \in WorkersAt(e)
        PROVE  HasChunk(e, w)' <=> \E i \in 1 .. Len(q) : q[i] = w
    <3>1. HasChunk(e, w) <=> \E i \in 1 .. Len(rs) : rs[i] = w
      BY <1>1, <1>2 DEF ReadersInOrder
    <3>2. CASE w = r
      BY <1>7, <3>2
    <3>3. CASE w # r
      <4>1. ASSUME NEW i \in 1 .. Len(rs), rs[i] = w PROVE \E j \in 1 .. Len(q) : q[j] = w
        <5>1. i # 1
          BY <1>4, <3>3, <4>1
        <5>2. i - 1 \in 1 .. Len(q) /\ (i - 1) + 1 = i
          BY <1>4, <1>5, <5>1
        <5>3. q[i - 1] = w
          BY <1>5, <4>1, <5>2
        <5>. QED  BY <5>2, <5>3
      <4>2. ASSUME NEW i \in 1 .. Len(q), q[i] = w PROVE \E j \in 1 .. Len(rs) : rs[j] = w
        BY <1>5, <1>7, <4>2
      <4>. QED  BY <3>1, <3>3, <4>1, <4>2
    <3>. QED  BY <3>2, <3>3
  <2>3. reading'[e] \in Seq(WorkersAt(e))
    BY <1>6
  <2>4. \A i, j \in 1 .. Len(reading'[e]) : reading'[e][i] = reading'[e][j] => i = j
    BY <1>6, <2>1
  <2>5. \A w \in WorkersAt(e) : HasChunk(e, w)' <=> \E i \in 1 .. Len(reading'[e]) : reading'[e][i] = w
    BY <1>6, <2>2
  <2>. QED  BY <2>3, <2>4, <2>5 DEF ReadersInOrder, WorkersAt
<1>9. PICK parts \in Seq(Bytes) : /\ parts = ChunksOf(e) /\ Len(parts) = Len(rs)
                                  /\ \A i \in 1 .. Len(rs) : parts[i] = ChunkOf(e, rs[i])
  BY <1>1, <1>2, ChunksAre
<1>10. parts # <<>> /\ Head(parts) = ChunkOf(e, r)
  BY <1>4, <1>9
<1>11. ChunksOf(e)' = Tail(parts)
  <2>0. parts # <<>>
    BY <1>10
  <2>a. PICK t : t = Tail(parts)
    OBVIOUS
  <2>b. t \in Seq(Bytes) /\ Len(t) = Len(parts) - 1 /\ \A i \in 1 .. Len(t) : t[i] = parts[i + 1]
    BY <2>0, <2>a, HeadTailProperties
  <2>c. t \in [1 .. Len(t) -> Bytes]
    BY <2>b, LenProperties
  <2>1. t = Tail(parts) /\ Len(t) = Len(parts) - 1 /\ (\A i \in 1 .. Len(t) : t[i] = parts[i + 1])
        /\ t = [i \in 1 .. Len(t) |-> t[i]]
    BY <2>a, <2>b, <2>c
  <2>2. \A i \in 1 .. Len(q) : ChunkOf(e, q[i])' = t[i]
    <3> TAKE i \in 1 .. Len(q)
    <3>1. ChunkOf(e, q[i])' = ChunkOf(e, q[i])
      BY <1>7
    <3>2. t[i] = parts[i + 1] /\ parts[i + 1] = ChunkOf(e, rs[i + 1]) /\ q[i] = rs[i + 1]
      BY <1>5, <1>7, <1>9, <2>1
    <3>. QED  BY <3>1, <3>2
  <2>3. t = [i \in 1 .. Len(q) |-> t[i]]
    <3>1. Len(t) = Len(q)
      BY <1>5, <1>9, <2>1
    <3>. QED  BY <2>1, <3>1
  <2>4. ChunksOf(e)' = [i \in 1 .. Len(q) |-> ChunkOf(e, q[i])']
    BY <1>6 DEF ChunksOf
  <2>. QED  BY <2>1, <2>2, <2>3, <2>4
<1>12. PICK bytes \in Bytes : /\ Stacked(bytes, ChunksOf(e), arrived[e] \o wire[e])
                              /\ Encodes(BufferAt(e) \o bytes, Untaken(e))
  BY DEF BytesInOrder
<1>13. PICK left \in Bytes : /\ bytes = Head(parts) \o left
                             /\ Stacked(left, Tail(parts), arrived[e] \o wire[e])
  BY <1>9, <1>10, <1>12, StackedFirst
<1>14. PICK b \in Bytes, c \in Bytes : b = BufferAt(e) /\ c = ChunkOf(e, r)
  BY ChunkTypes
<1>15. (b \o c) \o left = b \o (c \o left)
  BY Regrouped
<1>16. PICK list : list = Untaken(e)
  OBVIOUS
<1>17. Encodes((b \o c) \o left, list)
  BY <1>10, <1>12, <1>13, <1>14, <1>15, <1>16
<1>18. PICK s \in Seq(Frames), t \in Seq(Frames) : s = sent[e] /\ t = taken[e]
  BY ChunkTypes
<1>19. PICK n \in 0 .. Len(s) : n = Len(t) /\ t = SubSeq(s, 1, n)
  <2>1. Len(t) <= Len(s) /\ t = SubSeq(s, 1, Len(t))
    BY <1>18 DEF BytesInOrder
  <2>2. Len(t) \in Nat /\ Len(s) \in Nat
    OBVIOUS
  <2>3. Len(t) \in 0 .. Len(s)
    BY <2>1, <2>2
  <2>. QED  BY <2>1, <2>3
<1>20. list = SubSeq(s, n + 1, Len(s))
  BY <1>16, <1>18, <1>19 DEF Untaken
<1>21. list \in Seq(Frames) /\ Len(list) = Len(s) - n
  BY <1>20, TakenMore
<1>22. PICK buf \in Bytes : buf = b \o c
  BY Joined
<1>23. parse = ParseFrames(buf)
  BY <1>14, <1>22
<1>24. PICK k \in 0 .. Len(list) :
         /\ parse.frames = SubSeq(list, 1, k)
         /\ Encodes(parse.rest \o left, SubSeq(list, k + 1, Len(list)))
  <2>1. PICK l \in Seq(Frames) : l = list
    BY <1>21
  <2>2. Encodes(buf \o left, l) /\ ParseFrames(buf).ok
    BY <1>17, <1>22, <1>23, <2>1
  <2>3. \E k \in 0 .. Len(l) :
           /\ ParseFrames(buf).frames = SubSeq(l, 1, k)
           /\ Encodes(ParseFrames(buf).rest \o left, SubSeq(l, k + 1, Len(l)))
    BY <2>2, ParserSound
  <2>. QED  BY <1>23, <2>1, <2>3
<1>25. taken'[e] = SubSeq(s, 1, n + k) /\ SubSeq(list, k + 1, Len(list)) = SubSeq(s, n + k + 1, Len(s))
       /\ Len(SubSeq(s, 1, n + k)) = n + k /\ n + k <= Len(s)
  <2>1. k \in 0 .. Len(s) - n
    BY <1>21
  <2>2. taken'[e] = SubSeq(s, 1, n) \o SubSeq(SubSeq(s, n + 1, Len(s)), 1, k)
    BY <1>18, <1>19, <1>20, <1>24
  <2>3. PICK m \in 0 .. Len(s) - n : m = k
    BY <2>1
  <2>4. /\ SubSeq(s, 1, n) \o SubSeq(SubSeq(s, n + 1, Len(s)), 1, m) = SubSeq(s, 1, n + m)
        /\ SubSeq(SubSeq(s, n + 1, Len(s)), m + 1, Len(s) - n) = SubSeq(s, n + m + 1, Len(s))
        /\ Len(SubSeq(s, 1, n + m)) = n + m
    BY TakenMore, SMTT(30)
  <2>5. n + m <= Len(s)
    OBVIOUS
  <2>. QED  BY <1>20, <1>21, <2>2, <2>3, <2>4, <2>5, Zenon
<1>26. Untaken(e)' = SubSeq(s, n + k + 1, Len(s))
  BY <1>18, <1>25 DEF Untaken
<1>27. Encodes(BufferAt(e)' \o left, Untaken(e)')
  BY <1>24, <1>25, <1>26
<1>28. Len(taken'[e]) <= Len(sent'[e]) /\ taken'[e] = SubSeq(sent'[e], 1, Len(taken'[e]))
  BY <1>18, <1>25
<1>29. Stacked(left, ChunksOf(e)', arrived'[e] \o wire'[e])
  BY <1>11, <1>13
<1>. QED  BY <1>8, <1>27, <1>28, <1>29 DEF BytesInOrder

--------------------------------------------------------------------------------
(***************************************************************************)
(* The steps keep the order.                                               *)
(***************************************************************************)
ClientStill ==
    \A x \in ClientWorkers : /\ JobAt(x, "data")' <=> JobAt(x, "data")
                             /\ JobAt(x, "data") => job'[x].chunk = job[x].chunk
ServerStill ==
    \A w \in ServerWorkers : /\ NextIs(w, "data")' <=> NextIs(w, "data")
                             /\ NextIs(w, "data") => chunk'[w] = chunk[w]

\* A step of one worker of the client leaves the chunks of the others alone.
LEMMA OneJob ==
    ASSUME TInv, NEW x \in ClientWorkers, NEW next, job' = [job EXCEPT ![x] = next]
    PROVE  /\ \A y \in ClientWorkers \ {x} : /\ JobAt(y, "data")' <=> JobAt(y, "data")
                                             /\ job'[y].chunk = job[y].chunk
           /\ JobAt(x, "data")' <=> next.step = "data"
           /\ job'[x].chunk = next.chunk
           /\ job[x].step # "data" /\ next.step # "data" => ClientStill
BY DEF TInv, ClientTypes, JobAt, ClientStill

\* And so does a step of one worker of the server.
LEMMA OneWork ==
    ASSUME TInv, NEW w \in ServerWorkers, NEW steps, work' = [work EXCEPT ![w] = steps]
    PROVE  /\ \A v \in ServerWorkers \ {w} : NextIs(v, "data")' <=> NextIs(v, "data")
           /\ NextIs(w, "data")' <=> steps # <<>> /\ Head(steps) = "data"
           /\ ~NextIs(w, "data") /\ ~(steps # <<>> /\ Head(steps) = "data") /\ chunk' = chunk => ServerStill
BY DEF TInv, ServerTypes, NextIs, Idle, ServerStill

\* A step that leaves what is on its way to an end alone.
Untouched(e) ==
    /\ reading'[e] = reading[e] /\ taken'[e] = taken[e] /\ sent'[e] = sent[e]
    /\ arrived'[e] \o wire'[e] = arrived[e] \o wire[e]

\* What does not touch the bytes on their way to the client keeps their order,
LEMMA ClientUntouched ==
    ASSUME TInv, BytesInOrder("client"), Untouched("client"), recv_buf' = recv_buf, ClientStill
    PROVE  BytesInOrder("client")'
<1>1. "client" \in Ends
  BY DEF Ends
<1>2. BufferAt("client")' = BufferAt("client")
  BY DEF BufferAt
<1>3. \A w \in WorkersAt("client") : /\ HasChunk("client", w)' <=> HasChunk("client", w)
                                     /\ HasChunk("client", w) => ChunkOf("client", w)' = ChunkOf("client", w)
  BY DEF WorkersAt, HasChunk, ChunkOf, ClientStill
<1>. QED  BY <1>1, <1>2, <1>3, OrderRests DEF Untouched

\* and so does what leaves those on their way to the server alone.
LEMMA ServerUntouched ==
    ASSUME TInv, BytesInOrder("server"), Untouched("server"), BufferAt("server")' = BufferAt("server"),
           ServerStill
    PROVE  BytesInOrder("server")'
<1>1. "server" \in Ends /\ "server" # "client"
  BY DEF Ends
<1>3. \A w \in WorkersAt("server") : /\ HasChunk("server", w)' <=> HasChunk("server", w)
                                     /\ HasChunk("server", w) => ChunkOf("server", w)' = ChunkOf("server", w)
  BY <1>1 DEF WorkersAt, HasChunk, ChunkOf, ServerStill
<1>. QED  BY <1>1, <1>3, OrderRests DEF Untouched

\* What is on its way to the server.
LEMMA ServerOrder ==
    ASSUME IInv, TInv, Next, ~mangled'["server"], BytesInOrder("server")
    PROVE  BytesInOrder("server")'
<1>e. "server" \in Ends /\ "client" \in Ends /\ "server" # "client" /\ Peer("server") = "client"
      /\ Peer("client") = "server"
  BY DEF Ends, Peer
<1>w. ServerWorkers = WorkersAt("server")
  BY <1>e DEF WorkersAt
<1>t. /\ wire \in [Ends -> Bytes] /\ arrived \in [Ends -> Bytes]
      /\ sent \in [Ends -> Seq(Frames)] /\ taken \in [Ends -> Seq(Frames)]
      /\ reading = [e \in Ends |-> reading[e]] /\ mangled \in [Ends -> BOOLEAN]
  BY DEF TInv, NetTypes, HistoryTypes
<1>1. ASSUME UNCHANGED serverVars PROVE ServerStill /\ BufferAt("server")' = BufferAt("server")
  BY <1>e, <1>1 DEF serverVars, ServerStill, NextIs, Idle, BufferAt
<1>b. ASSUME UNCHANGED conn_buffer PROVE BufferAt("server")' = BufferAt("server")
  BY <1>e, <1>b DEF BufferAt
<1>2. ASSUME UNCHANGED <<serverVars>>, NEW frame \in Frames, NoteSent("server", frame),
             Write("client", Encode(frame)), UNCHANGED <<arrived, reading, taken>>
      PROVE  BytesInOrder("server")'
  <2>1. /\ reading'["server"] = reading["server"] /\ taken'["server"] = taken["server"]
        /\ sent'["server"] = Append(sent["server"], frame)
        /\ arrived'["server"] = arrived["server"] /\ wire'["server"] = wire["server"] \o Encode(frame)
    BY <1>e, <1>t, <1>2 DEF NoteSent, Write
  <2>2. \A w \in WorkersAt("server") : /\ HasChunk("server", w)' <=> HasChunk("server", w)
                                       /\ HasChunk("server", w) => ChunkOf("server", w)' = ChunkOf("server", w)
    BY <1>1, <1>2, <1>e DEF WorkersAt, HasChunk, ChunkOf, ServerStill
  <2>. QED  BY <1>e, <1>1, <1>2, <2>1, <2>2, OrderSent
<1>3. CASE Network
  <2>1. UNCHANGED <<serverVars, reading, taken, sent>>
    BY <1>3 DEF Network, history
  <2>2. arrived'["server"] \o wire'["server"] = arrived["server"] \o wire["server"]
    <3>1. PICK e \in Ends : Deliver(e) \/ DeliverEnd(e)
      BY <1>3 DEF Network
    <3>2. CASE DeliverEnd(e)
      BY <3>2 DEF DeliverEnd
    <3>3. CASE Deliver(e)
      <4>1. NetTypes
        BY DEF TInv
      <4>2. /\ arrived'[e] \o wire'[e] = arrived[e] \o wire[e]
            /\ \A d \in Ends \ {e} : arrived'[d] = arrived[d] /\ wire'[d] = wire[d]
        BY <3>3, <4>1, DeliverTypes
      <4>. QED  BY <1>e, <4>2
    <3>. QED  BY <3>1, <3>2, <3>3
  <2>. QED  BY <1>1, <2>1, <2>2, ServerUntouched DEF Untouched
<1>4. CASE ClientStep
  <2>1. UNCHANGED <<serverVars, reading, taken, sent, wire, arrived>>
    BY <1>4 DEF ClientStep, history, Start, ClientEvent, ClientDisconnect, UserDisconnect
  <2>. QED  BY <1>1, <2>1, ServerUntouched DEF Untouched
<1>5. CASE ServerCloses
  <2>1. UNCHANGED <<serverVars, reading, taken, sent, wire, arrived>>
    BY <1>5 DEF ServerCloses, history, CloseStream
  <2>. QED  BY <1>1, <2>1, ServerUntouched DEF Untouched
<1>6. ASSUME NEW frame \in RawFrames, RawSend(frame) PROVE BytesInOrder("server")'
  <2>1. frame \in Frames
    BY RpcAssumption
  <2>. QED  BY <1>2, <1>6, <2>1 DEF RawSend, Send
<1>7. ASSUME NEW c \in Callers, CallerStep(c) PROVE BytesInOrder("server")'
  <2>1. UNCHANGED <<serverVars, reading, taken, sent, wire, arrived>>
    BY <1>7 DEF CallerStep, history, Begin, TakeResult, Wait, WaitEnds, GiveUp, connVars
  <2>. QED  BY <1>1, <2>1, ServerUntouched DEF Untouched
<1>8. ASSUME NEW c \in Callers, CallerSends(c) PROVE BytesInOrder("server")'
  <2>1. FrameFor(IdOf(c)) \in Frames
    BY <1>8, AboutToSend DEF CallerSends, SendRequest
  <2>2. UNCHANGED <<serverVars, reading, taken, arrived>>
    BY <1>8 DEF CallerSends, SendRequest
  <2>3. CASE stream = "open"
    BY <1>2, <1>8, <2>1, <2>2, <2>3 DEF CallerSends, SendRequest, Send
  <2>4. CASE stream # "open"
    <3>1. UNCHANGED <<sent, wire>>
      BY <1>8, <2>4 DEF CallerSends, SendRequest, Send
    <3>. QED  BY <1>1, <2>2, <3>1, ServerUntouched DEF Untouched
  <2>. QED  BY <2>3, <2>4
<1>9. ASSUME NEW c \in Callers, CallerFails(c) PROVE BytesInOrder("server")'
  <2>1. UNCHANGED <<serverVars, reading, taken, arrived, sent>>
    BY <1>9 DEF CallerFails, SendFails
  <2>2. wire' = wire
    BY <1>9, <1>e, <1>t DEF CallerFails, MangleIf
  <2>. QED  BY <1>1, <2>1, <2>2, ServerUntouched DEF Untouched
<1>10. ASSUME NEW x \in ClientWorkers, ClientWorker(x) PROVE BytesInOrder("server")'
  <2>1. UNCHANGED <<serverVars, sent, wire>>
    BY <1>10 DEF ClientWorker, history, ClientReads, RawReceive, ClientReceives, ClientHandles, ClientRead,
       ReceiveData, HandleResponse, connVars
  <2>2. /\ reading'["server"] = reading["server"] /\ taken'["server"] = taken["server"]
        /\ arrived'["server"] = arrived["server"]
    <3>1. CASE ClientReads(x)
      BY <1>e, <1>t, <3>1 DEF ClientReads, ClientRead, NoteRead, ReadsNothing, ReadsChunk, ReadsEnd
    <3>2. CASE RawReceive(x) \/ ClientHandles(x)
      BY <3>2 DEF RawReceive, ClientHandles, HandleResponse, history, connVars
    <3>3. CASE ClientReceives(x)
      <4>1. PICK r, parse : /\ reading' = [reading EXCEPT !["client"] = r]
                            /\ taken' = [taken EXCEPT !["client"] = @ \o parse.frames]
        BY <3>3 DEF ClientReceives, NoteParsed
      <4>2. arrived' = arrived
        BY <3>3 DEF ClientReceives, ReceiveData, connVars
      <4>. QED  BY <1>e, <1>t, <4>1, <4>2
    <3>. QED  BY <1>10, <3>1, <3>2, <3>3 DEF ClientWorker
  <2>. QED  BY <1>1, <2>1, <2>2, ServerUntouched DEF Untouched
<1>11. ASSUME NEW w \in ServerWorkers, ServerStep(w) PROVE BytesInOrder("server")'
  <2>1. UNCHANGED <<conn_buffer, chunk, reading, taken, sent, wire, arrived>>
    BY <1>11 DEF ServerStep, history, Register, Insert, ServerEvent, ServerEventLost, RemoveFromMap, Deregister,
       connVars, serverVars
  <2>2. CASE ServerEventLost(w)
    BY <1>1, <2>1, <2>2, ServerUntouched DEF Untouched, ServerEventLost
  <2>3. ASSUME ~ServerEventLost(w) PROVE ServerStill
    <3>s. ServerTypes
      BY DEF TInv
    <3>1. PICK steps : work' = [work EXCEPT ![w] = steps] /\ steps \in {<<>>, <<"read">>, Tail(work[w])}
                       /\ (steps # <<>> /\ steps # <<"read">> => NextIs(w, "register") \/ NextIs(w, "insert")
                             \/ NextIs(w, "remove") \/ NextIs(w, "deregister"))
      BY <1>11, <2>3 DEF ServerStep, Register, Insert, ServerEvent, RemoveFromMap, Deregister, Go, Become
    <3>2. ~(steps # <<>> /\ Head(steps) = "data")
      <4>1. <<"read">> # <<>> /\ Head(<<"read">>) # "data"
        OBVIOUS
      <4>2. ASSUME NextIs(w, "register") \/ NextIs(w, "insert") \/ NextIs(w, "remove") \/ NextIs(w, "deregister")
            PROVE  ~(Tail(work[w]) # <<>> /\ Head(Tail(work[w])) = "data")
        BY <3>s, <4>2, AtStep
      <4>. QED  BY <3>1, <4>1, <4>2
    <3>3. ~NextIs(w, "data")
      BY <1>11, <2>3 DEF ServerStep, Register, Insert, ServerEvent, RemoveFromMap, Deregister, NextIs
    <3>. QED  BY <2>1, <3>1, <3>2, <3>3, OneWork
  <2>. QED  BY <1>b, <2>1, <2>2, <2>3, ServerUntouched DEF Untouched
<1>12. ASSUME NEW w \in ServerWorkers, ServerBuffer(w) PROVE BytesInOrder("server")'
  <2>1. UNCHANGED <<chunk, reading, taken, sent, wire, arrived>>
    BY <1>12 DEF ServerBuffer, OnConnect, OnDisconnect, connVars
  <2>2. conn_buffer \in {Absent, <<>>} /\ conn_buffer' \in {Absent, <<>>}
    <3>1. conn_buffer \in {Absent, <<>>}
      BY <1>12, <1>e, <1>t DEF ServerBuffer, MangleIf
    <3>. QED  BY <1>12, <3>1 DEF ServerBuffer, OnConnect, OnDisconnect
  <2>3. BufferAt("server")' = BufferAt("server")
    BY <1>e, <2>2 DEF BufferAt
  <2>4. ServerStill
    <3>s. ServerTypes
      BY DEF TInv
    <3>1. work' = [work EXCEPT ![w] = Tail(work[w])] /\ (NextIs(w, "connect") \/ NextIs(w, "tell"))
      BY <1>12 DEF ServerBuffer, OnConnect, OnDisconnect, Go
    <3>2. ~(Tail(work[w]) # <<>> /\ Head(Tail(work[w])) = "data")
      BY <3>s, <3>1, AtStep
    <3>3. ~NextIs(w, "data")
      BY <3>1 DEF NextIs
    <3>. QED  BY <2>1, <3>1, <3>2, <3>3, OneWork
  <2>. QED  BY <2>1, <2>3, <2>4, ServerUntouched DEF Untouched
<1>13. ASSUME NEW w \in ServerWorkers, ServerReads(w) PROVE BytesInOrder("server")'
  <2>1. UNCHANGED <<conn_buffer, taken, sent, wire>> /\ NextIs(w, "read") /\ ~NextIs(w, "data")
    BY <1>13 DEF ServerReads, ServerRead, NextIs
  <2>2. CASE ServerReadsNothing(w) \/ ServerReadsEnd(w)
    <3>1. UNCHANGED <<arrived, chunk>> /\ \E steps \in {<<>>, Ending} : work' = [work EXCEPT ![w] = steps]
      BY <2>2 DEF ServerReadsNothing, ServerReadsEnd, Become
    <3>2. Head(Ending) # "data"
      BY DEF Ending
    <3>3. ServerStill
      BY <2>1, <3>1, <3>2, OneWork
    <3>4. reading'["server"] = reading["server"]
      BY <1>13, <1>e, <1>t, <3>1 DEF ServerReads, NoteRead
    <3>. QED  BY <1>b, <2>1, <3>1, <3>3, <3>4, ServerUntouched DEF Untouched
  <2>3. CASE ServerReadsChunk(w)
    <3>1. /\ arrived["server"] # <<>> /\ chunk' = [chunk EXCEPT ![w] = arrived["server"]]
          /\ arrived' = [arrived EXCEPT !["server"] = <<>>]
          /\ work' = [work EXCEPT ![w] = <<"data">>]
      BY <2>3 DEF ServerReadsChunk, Become
    <3>2. arrived'["server"] = <<>> /\ arrived' # arrived
      BY <1>e, <1>t, <3>1
    <3>3. reading'["server"] = Append(reading["server"], w)
      BY <1>13, <1>e, <1>t, <3>2 DEF ServerReads, NoteRead
    <3>4. <<"data">> # <<>> /\ Head(<<"data">>) = "data"
      OBVIOUS
    <3>5. NextIs(w, "data")' /\ \A v \in ServerWorkers \ {w} : NextIs(v, "data")' <=> NextIs(v, "data")
      BY <3>1, <3>4, OneWork
    <3>6. chunk'[w] = arrived["server"] /\ \A v \in ServerWorkers \ {w} : chunk'[v] = chunk[v]
      BY <3>1 DEF TInv, ServerTypes
    <3>7. /\ ~HasChunk("server", w) /\ HasChunk("server", w)' /\ ChunkOf("server", w)' = arrived["server"]
          /\ \A v \in WorkersAt("server") \ {w} :
                /\ HasChunk("server", v)' <=> HasChunk("server", v)
                /\ HasChunk("server", v) => ChunkOf("server", v)' = ChunkOf("server", v)
      BY <1>e, <2>1, <3>5, <3>6 DEF HasChunk, ChunkOf, WorkersAt
    <3>8. BufferAt("server")' = BufferAt("server")
      BY <1>b, <2>1
    <3>. QED  BY <1>e, <1>w, <2>1, <3>2, <3>3, <3>7, <3>8, OrderRead
  <2>. QED  BY <1>13, <2>2, <2>3 DEF ServerReads, ServerRead
<1>14. ASSUME NEW w \in ServerWorkers, ServerReceives(w) PROVE BytesInOrder("server")'
  <2>1. UNCHANGED <<sent, wire, arrived>> /\ NextIs(w, "data")
    BY <1>14 DEF ServerReceives, OnData, connVars
  <2>2. Buffered(w) = BufferAt("server") \o ChunkOf("server", w)
    BY <1>e DEF Buffered, BufferAt, ChunkOf
  <2>3. PICK parse : parse = ParseFrames(Buffered(w))
    OBVIOUS
  <2>4. NoteParsed("server", w, parse)
    BY <1>14, <2>3 DEF ServerReceives
  <2>5. parse.ok /\ Head(reading["server"]) = w
    BY <1>e, <1>t, <2>4 DEF NoteParsed, MangleIf
  <2>6. /\ reading'["server"] = RemoveAt(reading["server"],
                CHOOSE i \in DOMAIN reading["server"] : reading["server"][i] = w)
        /\ taken'["server"] = taken["server"] \o parse.frames
    BY <1>e, <1>t, <2>4 DEF NoteParsed
  <2>7. chunk' = [chunk EXCEPT ![w] = <<>>] /\ conn_buffer' = parse.rest
        /\ frames' = [frames EXCEPT ![w] = parse.frames] /\ work' = [work EXCEPT ![w] = Handling(frames'[w])]
    BY <1>14, <2>3 DEF ServerReceives, OnData, Rest, Become
  <2>8. parse.rest \in Bytes /\ parse.frames \in Seq(Frames)
    <3>1. Buffered(w) \in Bytes
      <4>1. PICK b \in Bytes, c \in Bytes : b = BufferAt("server") /\ c = ChunkOf("server", w)
        BY <1>e, <1>w, <2>1, ChunkTypes DEF HasChunk
      <4>2. b \o c \in Bytes
        BY Joined
      <4>. QED  BY <2>2, <4>1, <4>2
    <3>. QED  BY <2>3, <3>1, ParseTypes
  <2>9. BufferAt("server")' = parse.rest
    BY <1>e, <2>7, <2>8, RpcServerAssumption DEF BufferAt, Bytes
  <2>10. frames'[w] = parse.frames
    BY <2>7 DEF TInv, ServerTypes
  <2>11. ~(Handling(frames'[w]) # <<>> /\ Head(Handling(frames'[w])) = "data")
    BY <2>8, <2>10, Programs
  <2>12. ~NextIs(w, "data")' /\ \A v \in ServerWorkers \ {w} : NextIs(v, "data")' <=> NextIs(v, "data")
    BY <2>7, <2>11, OneWork
  <2>13. \A v \in ServerWorkers \ {w} : chunk'[v] = chunk[v]
    BY <2>7 DEF TInv, ServerTypes
  <2>14. /\ HasChunk("server", w) /\ ~HasChunk("server", w)'
         /\ \A v \in WorkersAt("server") \ {w} :
               /\ HasChunk("server", v)' <=> HasChunk("server", v)
               /\ HasChunk("server", v) => ChunkOf("server", v)' = ChunkOf("server", v)
    BY <1>e, <2>1, <2>12, <2>13 DEF HasChunk, ChunkOf, WorkersAt
  <2>15. parse = ParseFrames(BufferAt("server") \o ChunkOf("server", w))
    BY <2>2, <2>3
  <2>16. /\ sent'["server"] = sent["server"] /\ wire'["server"] = wire["server"]
         /\ arrived'["server"] = arrived["server"]
    BY <2>1
  <2>. QED  BY <1>e, <1>w, <2>5, <2>6, <2>9, <2>14, <2>15, <2>16, OrderParsed
<1>15. ASSUME NEW w \in ServerWorkers, ServerHandles(w) PROVE BytesInOrder("server")'
  <2>1. UNCHANGED <<conn_buffer, chunk, reading, taken, sent, wire, arrived>> /\ ~NextIs(w, "data")
    BY <1>15 DEF ServerHandles, HandleFrame, connVars, NextIs
  <2>2. frames'[w] \in Seq(Frames)
    <3>1. frames' \in [ServerWorkers -> Seq(Frames)]
      BY ServerKept DEF ServerTypes
    <3>. QED  BY <3>1
  <2>3. PICK steps \in {Handling(frames'[w]), <<"reply">> \o Handling(frames'[w])} :
          work' = [work EXCEPT ![w] = steps]
    <3>1. <<>> \o Handling(frames'[w]) = Handling(frames'[w])
      BY <2>2, Programs
    <3>. QED  BY <1>15, <3>1 DEF ServerHandles, HandleFrame, Become
  <2>4. ~(steps # <<>> /\ Head(steps) = "data")
    BY <2>2, <2>3, Programs
  <2>5. ServerStill
    BY <2>1, <2>3, <2>4, OneWork
  <2>. QED  BY <1>b, <2>1, <2>5, ServerUntouched DEF Untouched
<1>16. ASSUME NEW w \in ServerWorkers, ServerReplies(w) PROVE BytesInOrder("server")'
  <2>1. UNCHANGED <<conn_buffer, chunk, reading, taken, arrived>> /\ NextIs(w, "reply") /\ ~NextIs(w, "data")
    BY <1>16 DEF ServerReplies, SendReply, ReplyNowhere, ReplyBreaks, Replied, NextIs
  <2>2. work' = [work EXCEPT ![w] = Tail(work[w])]
    BY <1>16 DEF ServerReplies, SendReply, ReplyNowhere, ReplyBreaks, Replied, Go
  <2>3. ~(Tail(work[w]) # <<>> /\ Head(Tail(work[w])) = "data")
    <3>1. frames[w] \in Seq(Frames) /\ work[w] = <<"reply">> \o Handling(frames[w])
      BY <2>1, AtStep DEF TInv, ServerTypes
    <3>. QED  BY <3>1, Programs
  <2>4. ServerStill
    BY <2>1, <2>2, <2>3, OneWork
  <2>5. sent'["server"] = sent["server"] /\ wire'["server"] = wire["server"]
    BY <1>16, <1>e, <1>t DEF ServerReplies, SendReply, ReplyNowhere, ReplyBreaks, NoteSent, Write, WriteBreaks
  <2>. QED  BY <1>b, <2>1, <2>4, <2>5, ServerUntouched DEF Untouched
<1>17. ASSUME NEW w \in ServerWorkers, ServerFails(w) PROVE BytesInOrder("server")'
  <2>1. UNCHANGED <<conn_buffer, chunk, reading, taken, sent, wire, arrived>> /\ ~NextIs(w, "data")
    BY <1>17 DEF ServerFails, MethodPanics, ErrorUnsent, NextIs
  <2>2. frames'[w] \in Seq(Frames)
    <3>1. frames' \in [ServerWorkers -> Seq(Frames)]
      BY ServerKept DEF ServerTypes
    <3>. QED  BY <3>1
  <2>3. PICK steps \in {<<"dead">>, Handling(frames'[w])} : work' = [work EXCEPT ![w] = steps]
    BY <1>17 DEF ServerFails, MethodPanics, ErrorUnsent, Become
  <2>4. ~(steps # <<>> /\ Head(steps) = "data")
    <3>1. <<"dead">> # <<>> /\ Head(<<"dead">>) # "data"
      OBVIOUS
    <3>. QED  BY <2>2, <2>3, <3>1, Programs
  <2>5. ServerStill
    BY <2>1, <2>3, <2>4, OneWork
  <2>. QED  BY <1>b, <2>1, <2>5, ServerUntouched DEF Untouched
<1>. QED  BY <1>3, <1>4, <1>5, <1>6, <1>7, <1>8, <1>9, <1>10, <1>11, <1>12, <1>13, <1>14, <1>15, <1>16, <1>17
          DEF Next, Caller, ServerWorker

\* What is on its way to the client.
LEMMA ClientOrder ==
    ASSUME IInv, TInv, Next, ~mangled'["client"], user = "rpc", BytesInOrder("client")
    PROVE  BytesInOrder("client")'
<1>e. "server" \in Ends /\ "client" \in Ends /\ "server" # "client" /\ Peer("server") = "client"
      /\ Peer("client") = "server"
  BY DEF Ends, Peer
<1>w. ClientWorkers = WorkersAt("client")
  BY <1>e DEF WorkersAt
<1>t. /\ wire \in [Ends -> Bytes] /\ arrived \in [Ends -> Bytes]
      /\ sent \in [Ends -> Seq(Frames)] /\ taken \in [Ends -> Seq(Frames)]
      /\ reading = [e \in Ends |-> reading[e]] /\ mangled \in [Ends -> BOOLEAN]
  BY DEF TInv, NetTypes, HistoryTypes
<1>1. ASSUME UNCHANGED job PROVE ClientStill
  BY <1>1 DEF ClientStill, JobAt
<1>b. ASSUME UNCHANGED recv_buf PROVE BufferAt("client")' = BufferAt("client")
  BY <1>b DEF BufferAt
<1>3. CASE Network
  <2>1. UNCHANGED <<job, recv_buf, reading, taken, sent>>
    BY <1>3 DEF Network, history, clientVars, callVars
  <2>2. arrived'["client"] \o wire'["client"] = arrived["client"] \o wire["client"]
    <3>1. PICK e \in Ends : Deliver(e) \/ DeliverEnd(e)
      BY <1>3 DEF Network
    <3>2. CASE DeliverEnd(e)
      BY <3>2 DEF DeliverEnd
    <3>3. CASE Deliver(e)
      <4>1. NetTypes
        BY DEF TInv
      <4>2. /\ arrived'[e] \o wire'[e] = arrived[e] \o wire[e]
            /\ \A d \in Ends \ {e} : arrived'[d] = arrived[d] /\ wire'[d] = wire[d]
        BY <3>3, <4>1, DeliverTypes
      <4>. QED  BY <1>e, <4>2
    <3>. QED  BY <3>1, <3>2, <3>3
  <2>. QED  BY <1>1, <2>1, <2>2, ClientUntouched DEF Untouched
<1>4. CASE ClientStep
  <2>1. UNCHANGED <<recv_buf, reading, taken, sent, wire, arrived>>
    BY <1>4 DEF ClientStep, history, callVars, Start, ClientEvent, ClientDisconnect, UserDisconnect
  <2>2. ClientStill
    <3>1. CASE Start \/ UserDisconnect
      BY <1>1, <3>1 DEF Start, UserDisconnect
    <3>2. ASSUME NEW x \in ClientWorkers, ClientEvent(x) \/ ClientDisconnect(x) PROVE ClientStill
      <4>1. job[x] \in Jobs
        BY DEF TInv, ClientTypes
      <4>2. job[x].step \in {"idle", "disconnect"}
        BY <3>2 DEF ClientEvent, ClientDisconnect, JobAt
      <4>3. PICK next \in {NoJob, [job[x] EXCEPT !.step = "read"]} : job' = [job EXCEPT ![x] = next]
        BY <3>2 DEF ClientEvent, ClientDisconnect, GoJob, EndJob
      <4>4. next.step # "data"
        <5>1. [job[x] EXCEPT !.step = "read"].step = "read"
          BY <4>1 DEF Jobs
        <5>2. NoJob.step = "idle"
          BY DEF NoJob
        <5>. QED  BY <5>1, <5>2
      <4>. QED  BY <4>2, <4>3, <4>4, OneJob
    <3>. QED  BY <1>4, <3>1, <3>2 DEF ClientStep
  <2>. QED  BY <2>1, <2>2, ClientUntouched DEF Untouched
<1>5. CASE ServerCloses
  <2>1. UNCHANGED <<job, recv_buf, reading, taken, sent, wire, arrived>>
    BY <1>5 DEF ServerCloses, history, CloseStream, clientVars, callVars
  <2>. QED  BY <1>1, <2>1, ClientUntouched DEF Untouched
<1>6. ASSUME NEW frame \in RawFrames, RawSend(frame) PROVE FALSE
  BY <1>6 DEF RawSend
<1>7. ASSUME NEW c \in Callers, CallerStep(c) PROVE BytesInOrder("client")'
  <2>1. UNCHANGED <<job, recv_buf, reading, taken, sent, wire, arrived>>
    BY <1>7 DEF CallerStep, history, Begin, TakeResult, Wait, WaitEnds, GiveUp, connVars, clientVars
  <2>. QED  BY <1>1, <2>1, ClientUntouched DEF Untouched
<1>8. ASSUME NEW c \in Callers, CallerSends(c) \/ CallerFails(c) PROVE BytesInOrder("client")'
  <2>1. UNCHANGED <<job, recv_buf, reading, taken, arrived>>
    BY <1>8 DEF CallerSends, SendRequest, CallerFails, SendFails, clientVars
  <2>2. sent'["client"] = sent["client"] /\ wire'["client"] = wire["client"]
    BY <1>8, <1>e, <1>t DEF CallerSends, SendRequest, CallerFails, SendFails, Send, SendBreaks, NoteSent, Write,
       WriteBreaks
  <2>. QED  BY <1>1, <2>1, <2>2, ClientUntouched DEF Untouched
<1>9. ASSUME NEW x \in ClientWorkers, ClientReads(x) PROVE BytesInOrder("client")'
  <2>1. UNCHANGED <<recv_buf, taken, sent, wire>> /\ JobAt(x, "read") /\ ~JobAt(x, "data")
    BY <1>9 DEF ClientReads, ClientRead, JobAt, callVars
  <2>2. CASE ReadsNothing(x) \/ ReadsEnd(x)
    <3>1. arrived' = arrived
      BY <2>2 DEF ReadsNothing, ReadsEnd
    <3>2. PICK next \in {NoJob, [job[x] EXCEPT !.step = "disconnect"]} : job' = [job EXCEPT ![x] = next]
      BY <2>2 DEF ReadsNothing, ReadsEnd, EndJob, GoJob
    <3>3. next.step # "data"
      <4>1. job[x] \in Jobs
        BY DEF TInv, ClientTypes
      <4>2. [job[x] EXCEPT !.step = "disconnect"].step = "disconnect"
        BY <4>1 DEF Jobs
      <4>3. NoJob.step = "idle"
        BY DEF NoJob
      <4>. QED  BY <4>2, <4>3
    <3>4. ClientStill
      BY <2>1, <3>2, <3>3, OneJob DEF JobAt
    <3>5. reading'["client"] = reading["client"]
      BY <1>9, <1>e, <1>t, <3>1 DEF ClientReads, NoteRead
    <3>. QED  BY <2>1, <3>1, <3>4, <3>5, ClientUntouched DEF Untouched
  <2>3. CASE ReadsChunk(x)
    <3>1. PICK next : /\ next = [step |-> "data", chunk |-> arrived["client"], frames |-> <<>>]
                      /\ job' = [job EXCEPT ![x] = next]
                      /\ arrived["client"] # <<>>
                      /\ arrived' = [arrived EXCEPT !["client"] = <<>>]
      BY <2>3 DEF ReadsChunk
    <3>2. arrived'["client"] = <<>> /\ arrived' # arrived
      BY <1>e, <1>t, <3>1
    <3>3. reading'["client"] = Append(reading["client"], x)
      BY <1>9, <1>e, <1>t, <3>2 DEF ClientReads, NoteRead
    <3>4. next.step = "data" /\ next.chunk = arrived["client"]
      BY <3>1
    <3>5. /\ JobAt(x, "data")' /\ job'[x].chunk = arrived["client"]
          /\ \A y \in ClientWorkers \ {x} : /\ JobAt(y, "data")' <=> JobAt(y, "data")
                                            /\ job'[y].chunk = job[y].chunk
      BY <3>1, <3>4, OneJob
    <3>7. /\ ~HasChunk("client", x) /\ HasChunk("client", x)' /\ ChunkOf("client", x)' = arrived["client"]
          /\ \A v \in WorkersAt("client") \ {x} :
                /\ HasChunk("client", v)' <=> HasChunk("client", v)
                /\ HasChunk("client", v) => ChunkOf("client", v)' = ChunkOf("client", v)
      BY <1>e, <2>1, <3>5 DEF HasChunk, ChunkOf, WorkersAt
    <3>8. BufferAt("client")' = BufferAt("client")
      BY <1>b, <2>1
    <3>. QED  BY <1>e, <1>w, <2>1, <3>2, <3>3, <3>7, <3>8, OrderRead
  <2>. QED  BY <1>9, <2>2, <2>3 DEF ClientReads, ClientRead
<1>10. ASSUME NEW x \in ClientWorkers, RawReceive(x) PROVE FALSE
  BY <1>10 DEF RawReceive
<1>11. ASSUME NEW x \in ClientWorkers, ClientReceives(x) PROVE BytesInOrder("client")'
  <2>1. UNCHANGED <<sent, wire, arrived>> /\ JobAt(x, "data")
    BY <1>11 DEF ClientReceives, ReceiveData, connVars
  <2>2. recv_buf \o job[x].chunk = BufferAt("client") \o ChunkOf("client", x)
    BY <1>e DEF BufferAt, ChunkOf
  <2>3. PICK parse : parse = ParseFrames(recv_buf \o job[x].chunk)
    OBVIOUS
  <2>4. NoteParsed("client", x, parse)
    BY <1>11, <2>3 DEF ClientReceives
  <2>5. parse.ok /\ Head(reading["client"]) = x
    BY <1>e, <1>t, <2>4 DEF NoteParsed, MangleIf
  <2>6. /\ reading'["client"] = RemoveAt(reading["client"],
                CHOOSE i \in DOMAIN reading["client"] : reading["client"][i] = x)
        /\ taken'["client"] = taken["client"] \o parse.frames
    BY <1>e, <1>t, <2>4 DEF NoteParsed
  <2>7. PICK next : /\ next = IF parse.frames = <<>> THEN NoJob
                              ELSE [step |-> "frames", chunk |-> <<>>, frames |-> parse.frames]
                    /\ job' = [job EXCEPT ![x] = next] /\ recv_buf' = parse.rest
    BY <1>11, <2>3 DEF ClientReceives, ReceiveData
  <2>8. next.step # "data"
    BY <2>7 DEF NoJob
  <2>9. /\ ~JobAt(x, "data")'
        /\ \A y \in ClientWorkers \ {x} : /\ JobAt(y, "data")' <=> JobAt(y, "data")
                                          /\ job'[y].chunk = job[y].chunk
    BY <2>7, <2>8, OneJob
  <2>10. BufferAt("client")' = parse.rest
    BY <1>e, <2>7 DEF BufferAt
  <2>14. /\ HasChunk("client", x) /\ ~HasChunk("client", x)'
         /\ \A v \in WorkersAt("client") \ {x} :
               /\ HasChunk("client", v)' <=> HasChunk("client", v)
               /\ HasChunk("client", v) => ChunkOf("client", v)' = ChunkOf("client", v)
    BY <1>e, <2>1, <2>9 DEF HasChunk, ChunkOf, WorkersAt
  <2>15. parse = ParseFrames(BufferAt("client") \o ChunkOf("client", x))
    BY <2>2, <2>3
  <2>16. /\ sent'["client"] = sent["client"] /\ wire'["client"] = wire["client"]
         /\ arrived'["client"] = arrived["client"]
    BY <2>1
  <2>. QED  BY <1>e, <1>w, <2>5, <2>6, <2>10, <2>14, <2>15, <2>16, OrderParsed
<1>12. ASSUME NEW x \in ClientWorkers, ClientHandles(x) PROVE BytesInOrder("client")'
  <2>1. UNCHANGED <<recv_buf, reading, taken, sent, wire, arrived>>
    BY <1>12 DEF ClientHandles, HandleResponse, history, connVars
  <2>2. PICK rest : job' = [job EXCEPT ![x] = IF rest = <<>> THEN NoJob ELSE [job[x] EXCEPT !.frames = rest]]
    BY <1>12 DEF ClientHandles, HandleResponse
  <2>3. job[x] \in Jobs /\ job[x].step = "frames"
    BY <1>12 DEF ClientHandles, HandleResponse, JobAt, TInv, ClientTypes
  <2>4. NoJob.step # "data" /\ [job[x] EXCEPT !.frames = rest].step # "data"
    BY <2>3 DEF NoJob, Jobs
  <2>5. ClientStill
    BY <2>2, <2>3, <2>4, OneJob
  <2>. QED  BY <2>1, <2>5, ClientUntouched DEF Untouched
<1>13. ASSUME NEW w \in ServerWorkers,
              \/ ServerStep(w) \/ ServerBuffer(w) \/ ServerReads(w) \/ ServerReceives(w)
              \/ ServerHandles(w) \/ ServerFails(w)
       PROVE  BytesInOrder("client")'
  <2>1. UNCHANGED <<job, recv_buf, sent, wire>>
    <3>1. UNCHANGED <<job, recv_buf>>
      BY <1>13 DEF ServerStep, ServerBuffer, ServerReads, ServerReceives, ServerHandles, ServerFails, clientVars,
         callVars
    <3>2. CASE ServerStep(w)
      BY <3>1, <3>2 DEF ServerStep, history, Register, Insert, ServerEvent, ServerEventLost, RemoveFromMap, Deregister,
         connVars
    <3>3. CASE ServerBuffer(w) \/ ServerReads(w) \/ ServerReceives(w)
      BY <3>1, <3>3 DEF ServerBuffer, OnConnect, OnDisconnect, ServerReads, ServerRead, ServerReceives, OnData, connVars
    <3>4. CASE ServerHandles(w) \/ ServerFails(w)
      BY <3>1, <3>4 DEF ServerHandles, HandleFrame, ServerFails, MethodPanics, ErrorUnsent, connVars
    <3>. QED  BY <1>13, <3>1, <3>2, <3>3, <3>4
  <2>2. /\ reading'["client"] = reading["client"] /\ taken'["client"] = taken["client"]
        /\ arrived'["client"] = arrived["client"]
    <3>1. CASE ServerReads(w)
      BY <1>e, <1>t, <3>1 DEF ServerReads, ServerRead, NoteRead, ServerReadsNothing, ServerReadsChunk, ServerReadsEnd
    <3>2. CASE ServerStep(w) \/ ServerBuffer(w)
      BY <3>2 DEF ServerStep, history, Register, Insert, ServerEvent, ServerEventLost, RemoveFromMap, Deregister,
         connVars, ServerBuffer, OnConnect, OnDisconnect
    <3>4. CASE ServerHandles(w) \/ ServerFails(w)
      BY <3>4 DEF ServerHandles, HandleFrame, ServerFails, MethodPanics, ErrorUnsent, connVars
    <3>3. CASE ServerReceives(w)
      <4>1. PICK r, parse : /\ reading' = [reading EXCEPT !["server"] = r]
                            /\ taken' = [taken EXCEPT !["server"] = @ \o parse.frames]
        BY <3>3 DEF ServerReceives, NoteParsed
      <4>2. arrived' = arrived
        BY <3>3 DEF ServerReceives, OnData, connVars
      <4>. QED  BY <1>e, <1>t, <4>1, <4>2
    <3>. QED  BY <1>13, <3>1, <3>2, <3>3, <3>4
  <2>. QED  BY <1>1, <2>1, <2>2, ClientUntouched DEF Untouched
<1>14. ASSUME NEW w \in ServerWorkers, ServerReplies(w) PROVE BytesInOrder("client")'
  <2>1. UNCHANGED <<job, recv_buf, reading, taken, arrived>>
    BY <1>14 DEF ServerReplies, SendReply, ReplyNowhere, ReplyBreaks, Replied, clientVars, callVars
  <2>2. CASE SendReply(w) /\ NoteSent("client", reply[w])
    <3>1. reply[w] \in Frames
      BY <2>2, AtStep DEF TInv, SendReply
    <3>2. /\ reading'["client"] = reading["client"] /\ taken'["client"] = taken["client"]
          /\ sent'["client"] = Append(sent["client"], reply[w])
          /\ arrived'["client"] = arrived["client"] /\ wire'["client"] = wire["client"] \o Encode(reply[w])
      BY <1>e, <1>t, <2>1, <2>2 DEF NoteSent, SendReply, Write
    <3>3. \A x \in WorkersAt("client") : /\ HasChunk("client", x)' <=> HasChunk("client", x)
                                         /\ HasChunk("client", x) => ChunkOf("client", x)' = ChunkOf("client", x)
      BY <2>1, <1>e DEF WorkersAt, HasChunk, ChunkOf, JobAt
    <3>4. BufferAt("client")' = BufferAt("client")
      BY <1>b, <2>1
    <3>. QED  BY <1>e, <3>1, <3>2, <3>3, <3>4, OrderSent
  <2>3. CASE (ReplyNowhere(w) \/ ReplyBreaks(w)) /\ MangleIf("client", wire' # wire) /\ UNCHANGED sent
    <3>1. wire' = wire
      BY <1>e, <1>t, <2>3 DEF MangleIf
    <3>. QED  BY <1>1, <2>1, <2>3, <3>1, ClientUntouched DEF Untouched
  <2>. QED  BY <1>14, <2>2, <2>3 DEF ServerReplies
<1>. QED  BY <1>3, <1>4, <1>5, <1>6, <1>7, <1>8, <1>9, <1>10, <1>11, <1>12, <1>13, <1>14
          DEF Next, Caller, ClientWorker, ServerWorker

\* Who uses the client does not change, and what is mangled stays so.
LEMMA Lasting ==
    ASSUME TInv, Next
    PROVE  user' = user /\ \A e \in Ends : mangled[e] => mangled'[e]
<1>1. mangled \in [Ends -> BOOLEAN]
  BY DEF TInv, HistoryTypes
<1>2. \A e \in Ends : \A condition : MangleIf(e, condition) => \A d \in Ends : mangled[d] => mangled'[d]
  BY <1>1 DEF MangleIf
<1>. HIDE <1>1
<1>3. mangled' = mangled \/ \E e \in Ends : \E condition : MangleIf(e, condition)
  <2>e. "server" \in Ends /\ "client" \in Ends
    BY DEF Ends
  <2>1. CASE Network \/ ClientStep \/ ServerCloses \/ (\E frame \in RawFrames : RawSend(frame))
    BY <2>1 DEF Network, ClientStep, ServerCloses, RawSend, history
  <2>2. CASE \E c \in Callers : Caller(c)
    BY <2>e, <2>2 DEF Caller, CallerStep, CallerSends, CallerFails, history
  <2>3. CASE \E x \in ClientWorkers : ClientWorker(x)
    BY <2>e, <2>3 DEF ClientWorker, ClientReads, RawReceive, ClientReceives, ClientHandles, NoteParsed, history
  <2>4. CASE \E w \in ServerWorkers : ServerWorker(w)
    BY <2>e, <2>4 DEF ServerWorker, ServerStep, ServerBuffer, ServerReads, ServerReceives, ServerHandles,
       ServerFails, ServerReplies, NoteParsed, history
  <2>. QED  BY <2>1, <2>2, <2>3, <2>4 DEF Next
<1>4. user' = user
  BY DEF Next, Network, ClientStep, ServerCloses, RawSend, Caller, CallerStep, CallerSends, CallerFails,
     ClientWorker, ClientReads, RawReceive, ClientReceives, ClientHandles,
     ServerWorker, ServerStep, ServerBuffer, ServerReads, ServerReceives, ServerHandles, ServerFails, ServerReplies
<1>. QED  BY <1>2, <1>3, <1>4

\* A program that uses the TcpClient itself parses nothing.
LEMMA RawTakesNothing ==
    ASSUME TInv, Next, user = "raw", taken["client"] = <<>>
    PROVE  taken'["client"] = <<>>
<1>t. taken \in [Ends -> Seq(Frames)]
  BY DEF TInv, HistoryTypes
<1>1. taken' = taken \/ \E l : taken' = [taken EXCEPT !["server"] = l]
  <2>1. CASE Network \/ ClientStep \/ ServerCloses \/ (\E frame \in RawFrames : RawSend(frame))
    BY <2>1 DEF Network, ClientStep, ServerCloses, RawSend, history
  <2>2. CASE \E c \in Callers : Caller(c)
    BY <2>2 DEF Caller, CallerStep, CallerSends, CallerFails, history
  <2>3. CASE \E x \in ClientWorkers : ClientWorker(x)
    BY <2>3 DEF ClientWorker, ClientReads, RawReceive, ClientReceives, ClientHandles, history
  <2>4. CASE \E w \in ServerWorkers : ServerWorker(w)
    BY <2>4 DEF ServerWorker, ServerStep, ServerBuffer, ServerReads, ServerReceives, ServerHandles,
       ServerFails, ServerReplies, NoteParsed, history
  <2>. QED  BY <2>1, <2>2, <2>3, <2>4 DEF Next
<1>. QED  BY <1>t, <1>1 DEF Ends

\* At first there are no bytes.
LEMMA InitOrder == Init => OrderInv
<1> SUFFICES ASSUME Init PROVE OrderInv
  OBVIOUS
<1> USE DEF Init, ConnectionInit, ClientInit, RpcClientInit, RpcServerInit
<1>1. <<>> \in Bytes /\ Stacked(<<>>, <<>>, <<>>)
  <2>1. <<>> \in Bytes
    BY DEF Bytes
  <2>. QED  BY <2>1, StackedNothing
<1>2. ASSUME NEW e \in Ends PROVE BytesInOrder(e)
  <2>1. reading[e] = <<>> /\ sent[e] = <<>> /\ taken[e] = <<>> /\ arrived[e] = <<>> /\ wire[e] = <<>>
    OBVIOUS
  <2>2. \A w \in WorkersAt(e) : ~HasChunk(e, w)
    <3>1. \A x \in ClientWorkers : ~JobAt(x, "data")
      BY DEF JobAt, NoJob
    <3>2. \A w \in ServerWorkers : ~NextIs(w, "data")
      <4>1. Head(Accepting) # "data"
        BY DEF Accepting
      <4>. QED  BY <4>1 DEF NextIs, Idle
    <3>. QED  BY <3>1, <3>2 DEF WorkersAt, HasChunk, Ends
  <2>3. ReadersInOrder(e)
    BY <2>1, <2>2 DEF ReadersInOrder
  <2>4. ChunksOf(e) = <<>>
    BY <2>1 DEF ChunksOf
  <2>5. BufferAt(e) = <<>>
    BY DEF BufferAt
  <2>6. Untaken(e) = <<>>
    BY <2>1 DEF Untaken
  <2>7. <<>> \o <<>> = <<>>
    OBVIOUS
  <2>8. Stacked(<<>>, ChunksOf(e), arrived[e] \o wire[e]) /\ Encodes(BufferAt(e) \o <<>>, Untaken(e))
    BY <1>1, <2>1, <2>4, <2>5, <2>6, <2>7, EncodesNothing
  <2>9. Len(taken[e]) <= Len(sent[e]) /\ taken[e] = SubSeq(sent[e], 1, Len(taken[e]))
    BY <2>1
  <2>. QED  BY <1>1, <2>3, <2>8, <2>9 DEF BytesInOrder
<1>. QED  BY <1>2 DEF OrderInv, Ends

\* Every step keeps the order at both ends.
LEMMA NextOrder == IInv /\ TInv /\ OrderInv /\ [Next]_vars => OrderInv'
<1> SUFFICES ASSUME IInv, TInv, OrderInv, [Next]_vars PROVE OrderInv'
  OBVIOUS
<1>1. CASE Next
  <2>1. user' = user /\ \A e \in Ends : mangled[e] => mangled'[e]
    BY <1>1, Lasting
  <2>2. ASSUME NEW e \in Ends, ~mangled'[e], e = "client" => user' = "rpc"
        PROVE  BytesInOrder(e)'
    <3>1. BytesInOrder(e)
      BY <2>1, <2>2 DEF OrderInv
    <3>2. CASE e = "client"
      BY <1>1, <2>1, <2>2, <3>1, <3>2, ClientOrder
    <3>3. CASE e = "server"
      BY <1>1, <2>2, <3>1, <3>3, ServerOrder
    <3>. QED  BY <3>2, <3>3 DEF Ends
  <2>3. user' = "raw" => taken'["client"] = <<>>
    BY <1>1, <2>1, RawTakesNothing DEF OrderInv
  <2>. QED  BY <2>2, <2>3 DEF OrderInv
<1>2. CASE UNCHANGED vars
  <2>1. UNCHANGED <<job, recv_buf, conn_buffer, work, chunk, arrived, wire, reading, taken, sent, mangled, user>>
    BY <1>2 DEF vars, connVars, clientVars, callVars, serverVars, history
  <2>2. ASSUME NEW e \in Ends, BytesInOrder(e) PROVE BytesInOrder(e)'
    <3>1. \A w \in WorkersAt(e) : (HasChunk(e, w)' <=> HasChunk(e, w)) /\ ChunkOf(e, w)' = ChunkOf(e, w)
      BY <2>1 DEF HasChunk, ChunkOf, JobAt, NextIs, Idle
    <3>2. BufferAt(e)' = BufferAt(e)
      BY <2>1 DEF BufferAt
    <3>. QED  BY <2>1, <2>2, <3>1, <3>2, OrderRests
  <2>. QED  BY <2>1, <2>2 DEF OrderInv
<1>. QED  BY <1>1, <1>2

--------------------------------------------------------------------------------
(***************************************************************************)
(* The results.                                                            *)
(***************************************************************************)
\* A caller that sleeps has its request in the map, not completed: the look at
\* the map and the wait are one critical section, and every answer wakes every
\* sleeper (client.rs l.118-141, 232, 251).
THEOREM NobodySleepsThroughAnswer == Spec => []NoSleeperAnswered
BY Invariant, PTL DEF IInv

\* An entry belongs to exactly one caller that is on its way to take it out, so
\* that none is left in the map for ever (client.rs l.90-144).
THEOREM EntriesLeave == Spec => []PendingHasCaller
<1>1. IInv => PendingHasCaller
  <2> SUFFICES ASSUME IInv, NEW id \in Ids, pending[id] # None
               PROVE  Cardinality({c \in Callers : IdOf(c) = id /\ ~At(c, "idle")}) = 1
    BY DEF PendingHasCaller
  <2>1. PICK c \in Callers : Active(c) /\ IdOf(c) = id
    BY DEF IInv, EntriesOwned
  <2>2. {d \in Callers : IdOf(d) = id /\ ~At(d, "idle")} = {c}
    BY <2>1 DEF IInv, IdsDistinct, Active
  <2>. QED  BY <2>2, FS_Singleton
<1>. QED  BY <1>1, Invariant, PTL

\* The variables have their types, and the bytes are in order, at every step.
THEOREM TypesAndOrder == Spec => [](IInv /\ TInv /\ OrderInv)
<1>1. Init => IInv /\ TInv /\ OrderInv
  BY InitIInv, InitTypes, InitOrder
<1>2. (IInv /\ TInv /\ OrderInv) /\ [Next]_vars => (IInv /\ TInv /\ OrderInv)'
  BY NextIInv, NextTypes, NextOrder
<1>. QED  BY <1>1, <1>2, PTL DEF Spec

\* The types of the variables of both ends, whatever the streams carry: what is
\* parsed is a frame, what is decoded is a request or a result (client.rs l.17-40,
\* server.rs l.98-135, protocol.rs l.60-300).
THEOREM TypesRight == Spec => []TypeOK
BY TypesAndOrder, TypesHold, PTL

\* Frames come out of the buffers as they were sent, however the bytes are cut
\* into chunks and whichever workers read them, unless a write broke off, chunks
\* changed places, or a buffer was discarded (server.rs l.142, 148-165,
\* client.rs l.192-210, protocol.rs l.270-293).
THEOREM FramesKeepOrder == Spec => []FramesInOrder
<1>1. IInv /\ TInv /\ OrderInv => FramesInOrder
  <2> SUFFICES ASSUME TInv, OrderInv, NEW e \in Ends, ~mangled[e]
               PROVE  IsPrefix(taken[e], sent[e])
    BY DEF FramesInOrder
  <2>1. PICK t \in Seq(Frames), s \in Seq(Frames) : t = taken[e] /\ s = sent[e]
    BY ChunkTypes
  <2>2. CASE user = "raw" /\ e = "client"
    <3>1. t = <<>>
      BY <2>1, <2>2 DEF OrderInv
    <3>2. Len(t) = 0 /\ SubSeq(t, 1, 0) = SubSeq(s, 1, 0)
      BY <3>1
    <3>. QED  BY <2>1, <3>2 DEF IsPrefix
  <2>3. CASE ~(user = "raw" /\ e = "client")
    <3>1. BytesInOrder(e)
      BY <2>3 DEF OrderInv, TInv, HistoryTypes
    <3>2. Len(t) <= Len(s) /\ t = SubSeq(s, 1, Len(t))
      BY <2>1, <3>1 DEF BytesInOrder
    <3>3. SubSeq(t, 1, Len(t)) = t
      OBVIOUS
    <3>. QED  BY <2>1, <3>2, <3>3 DEF IsPrefix
  <2>. QED  BY <2>2, <2>3
<1>. QED  BY <1>1, TypesAndOrder, PTL

================================================================================
