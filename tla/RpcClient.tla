--------------------------------- MODULE RpcClient -------------------------------
(***************************************************************************)
(* RpcClient of mill-rpc/src/client.rs, over a TcpClient: callers that     *)
(* send a request and sleep on a condition variable until a worker of the  *)
(* event loop has put the response in the map of pending requests, or      *)
(* until their time is over.                                               *)
(*                                                                         *)
(* A call is what a generated stub makes of it: a service id, a method id  *)
(* and the arguments.  Each critical section is an action.                 *)
(***************************************************************************)
EXTENDS TcpClient, Wire, FiniteSets

CONSTANTS Callers,          \* threads that call
          Calls,            \* the calls they may make
          None, Waiting,
          MaxRequests       \* bound on the requests

ASSUME RpcClientAssumption ==
    /\ Calls \subseteq [service : Nat, method : Nat, args : Seq(Nat), one_way : BOOLEAN]
    /\ MaxRequests \in Nat
    /\ None # Waiting
    /\ {None, Waiting} \cap [ok : BOOLEAN, data : Seq(Nat)] = {}
    /\ None \notin Calls

VARIABLES
    next_request_id,
    pending,      \* of each id: not in the map, waiting, or completed with a result
    recv_buf,
    caller,       \* where each caller is, and with which request
    requests,     \* history: the call that has each id
    outcome       \* history: what the call with each id returned

callVars == <<next_request_id, pending, recv_buf, caller, requests, outcome>>

Ids == 1 .. MaxRequests
AtEase == [step |-> "idle", id |-> None]

Ok(data) == [ok |-> TRUE, data |-> data]
Err(status) == [ok |-> FALSE, data |-> <<status>>]

FrameFor(id) ==
    LET call == requests[id]
    IN RequestFrame(id, call.service, call.method, call.args, call.one_way)

RpcClientInit ==
    /\ next_request_id = 1
    /\ pending = [id \in Ids |-> None]
    /\ recv_buf = <<>>
    /\ caller = [c \in Callers |-> AtEase]
    /\ requests = [id \in Ids |-> None]
    /\ outcome = [id \in Ids |-> None]

At(c, step) == caller[c].step = step
IdOf(c) == caller[c].id
GoOn(c, step) == caller' = [caller EXCEPT ![c].step = step]

\* The call returns.
Return(c, result) ==
    /\ caller' = [caller EXCEPT ![c] = AtEase]
    /\ outcome' = [outcome EXCEPT ![IdOf(c)] = result]

--------------------------------------------------------------------------------
(***************************************************************************)
(* call_raw and call_oneway                                                *)
(***************************************************************************)
\* The id is taken, and unless the call is one-way its entry made under the
\* lock: until then no other thread knows the id.
Begin(c, call) ==
    /\ At(c, "idle")
    /\ stream # "unstarted"
    /\ next_request_id <= MaxRequests
    /\ next_request_id' = next_request_id + 1
    /\ requests' = [requests EXCEPT ![next_request_id] = call]
    /\ pending' = IF call.one_way THEN pending
                  ELSE [pending EXCEPT ![next_request_id] = Waiting]
    /\ caller' = [caller EXCEPT ![c] = [step |-> "send", id |-> next_request_id]]
    /\ UNCHANGED <<connVars, clientVars, recv_buf, outcome>>

SendRequest(c) ==
    /\ At(c, "send")
    /\ Send(Encode(FrameFor(IdOf(c))))
    /\ IF requests[IdOf(c)].one_way
         THEN Return(c, Ok(<<>>))
         ELSE GoOn(c, "look") /\ UNCHANGED outcome
    /\ UNCHANGED <<net, arrived, ended, closed, registered, edge, faults, clientVars, next_request_id,
                   pending, recv_buf, requests>>

\* A caller that goes away without its entry (a mutant).
ForgetNothing(id) == pending

Forget(id) == [pending EXCEPT ![id] = None]

SendFails(c) ==
    /\ At(c, "send")
    /\ SendBreaks(Encode(FrameFor(IdOf(c))))
    /\ pending' = Forget(IdOf(c))
    /\ Return(c, Err(Unavailable))
    /\ UNCHANGED <<net, arrived, ended, closed, registered, edge, clientVars, next_request_id,
                   recv_buf, requests>>

\* The caller finds its request completed.
TakeResult(c) ==
    /\ At(c, "look")
    /\ pending[IdOf(c)] \notin {None, Waiting}
    /\ Return(c, pending[IdOf(c)])
    /\ pending' = Forget(IdOf(c))
    /\ UNCHANGED <<connVars, clientVars, next_request_id, recv_buf, requests>>

\* Or waits, which lets go of the lock, unless no time remains.
Wait(c) ==
    /\ At(c, "look")
    /\ pending[IdOf(c)] = Waiting
    /\ \/ GoOn(c, "asleep") /\ UNCHANGED <<pending, outcome>>
       \/ Return(c, Err(DeadlineExceeded)) /\ pending' = Forget(IdOf(c))
    /\ UNCHANGED <<connVars, clientVars, next_request_id, recv_buf, requests>>

\* The wait times out; the lock is still to be taken.
WaitEnds(c) ==
    /\ At(c, "asleep")
    /\ GoOn(c, "late")
    /\ UNCHANGED <<connVars, clientVars, next_request_id, pending, recv_buf, requests, outcome>>

\* Then the entry goes, whether or not it was completed meanwhile.
GiveUp(c) ==
    /\ At(c, "late")
    /\ pending' = Forget(IdOf(c))
    /\ Return(c, Err(DeadlineExceeded))
    /\ UNCHANGED <<connVars, clientVars, next_request_id, recv_buf, requests>>

--------------------------------------------------------------------------------
(***************************************************************************)
(* RpcClientHandler                                                        *)
(***************************************************************************)
\* on_data up to the end of its critical section.
ReceiveData(x) ==
    LET parse == ParseFrames(recv_buf \o job[x].chunk) IN
    /\ JobAt(x, "data")
    /\ recv_buf' = parse.rest
    /\ job' = [job EXCEPT ![x] = IF parse.frames = <<>> THEN NoJob
                                 ELSE [step |-> "frames", chunk |-> <<>>, frames |-> parse.frames]]
    /\ UNCHANGED <<connVars, stream, handlers, told, next_request_id, pending, caller, requests,
                   outcome>>

IsAnswer(frame) == frame.type \in {Response, Error} /\ IsResponsePayload(frame.payload)

\* A notify_one (a mutant): of those asleep one wakes.
WokenOne ==
    [c \in Callers |-> IF At(c, "asleep") /\ \A d \in Callers : At(d, "asleep") => IdOf(c) <= IdOf(d)
                         THEN [caller[c] EXCEPT !.step = "look"]
                         ELSE caller[c]]

\* notify_all
Woken ==
    [c \in Callers |-> IF At(c, "asleep") THEN [caller[c] EXCEPT !.step = "look"]
                                          ELSE caller[c]]

\* A response completes the first request that waits, whoever it is for (a mutant).
CompletedAny(id) ==
    {i \in Ids : pending[i] = Waiting /\ \A j \in Ids : pending[j] = Waiting => i <= j}

\* The request that a response completes, if its caller still waits for it.
Completed(id) == {i \in Ids : i = id /\ pending[i] # None}

\* handle_frame
HandleResponse(x) ==
    LET frame == Head(job[x].frames)
        answer == ResponseIn(frame.payload)
        rest == Tail(job[x].frames) IN
    /\ JobAt(x, "frames")
    /\ job' = [job EXCEPT ![x] = IF rest = <<>> THEN NoJob ELSE [@ EXCEPT !.frames = rest]]
    /\ IF IsAnswer(frame)
         THEN /\ pending' = [i \in Ids |->
                    IF i \in Completed(answer.id)
                      THEN [ok |-> frame.type = Response, data |-> answer.data]
                      ELSE pending[i]]
              /\ caller' = Woken
         ELSE UNCHANGED <<pending, caller>>
    /\ UNCHANGED <<connVars, stream, handlers, told, next_request_id, recv_buf, requests, outcome>>

================================================================================
