------------------------------------ MODULE Rpc ----------------------------------
(***************************************************************************)
(* A connection of mill-rpc from end to end: the callers and the handler   *)
(* of an RpcClient, the two streams of bytes, and an RpcServer; or in the  *)
(* place of the RpcClient a program that uses the TcpClient itself, and    *)
(* sends the server frames that an RpcClient does not send.                *)
(***************************************************************************)
EXTENDS RpcClient, RpcServer

CONSTANTS RawFrames,     \* the frames that such a program sends
          MaxRaw         \* bound on them

ASSUME RpcAssumption == RawFrames \subseteq Frames /\ MaxRaw \in Nat

VARIABLES
    user,        \* who uses the TcpClient: "rpc" or "raw"
    sent,        \* history: the frames sent to each end
    taken,       \* history: the frames parsed there
    reading,     \* history: the workers of each end that have a chunk, in the
                 \* order of their reads
    mangled,     \* history: whether the bytes at the end are not what was sent
    unheard,     \* history: the requests that were answered to nobody, sent nowhere, or
                 \* left unanswered by a worker that failed
    ran          \* history: how often the method of each request of a caller ran

history == <<sent, taken, reading, mangled, unheard, ran>>
vars == <<connVars, clientVars, callVars, serverVars, user, history>>

MangleIf(e, condition) == mangled' = [mangled EXCEPT ![e] = @ \/ condition]
NoteSent(e, frame) == sent' = [sent EXCEPT ![e] = Append(@, frame)]
NoteRead(e, w) ==
    reading' = [reading EXCEPT ![e] = IF arrived' = arrived THEN @ ELSE Append(@, w)]
NoteParsed(e, w, parse) ==
    /\ reading' = [reading EXCEPT ![e] = RemoveAt(@, CHOOSE i \in DOMAIN @ : @[i] = w)]
    /\ MangleIf(e, Head(reading[e]) # w \/ ~parse.ok)
    /\ taken' = [taken EXCEPT ![e] = @ \o parse.frames]

--------------------------------------------------------------------------------
(***************************************************************************)
(* The client's side.                                                      *)
(***************************************************************************)
ClientStep ==
    /\ \/ Start
       \/ \E x \in ClientWorkers : ClientEvent(x)
       \/ \E x \in ClientWorkers : ClientDisconnect(x)
       \/ user = "raw" /\ UserDisconnect
    /\ UNCHANGED <<callVars, serverVars, user, history>>

ClientReads(x) ==
    /\ ClientRead(x)
    /\ NoteRead("client", x)
    /\ UNCHANGED <<callVars, serverVars, user, sent, taken, mangled, unheard, ran>>

\* The on_data of a program that looks at nothing.
RawReceive(x) ==
    /\ user = "raw"
    /\ JobAt(x, "data")
    /\ EndJob(x)
    /\ UNCHANGED <<connVars, stream, handlers, told, callVars, serverVars, user, history>>

RawSend(frame) ==
    /\ user = "raw"
    /\ Len(sent["server"]) < MaxRaw
    /\ stream = "open" /\ Send(Encode(frame))
    /\ NoteSent("server", frame)
    /\ UNCHANGED <<net, arrived, ended, closed, registered, edge, faults, clientVars, callVars, serverVars,
                   user, taken, reading, mangled, unheard, ran>>

CallerStep(c) ==
    /\ user = "rpc"
    /\ \/ \E call \in Calls : Begin(c, call)
       \/ TakeResult(c) \/ Wait(c) \/ WaitEnds(c) \/ GiveUp(c)
    /\ UNCHANGED <<serverVars, user, history>>

CallerSends(c) ==
    /\ user = "rpc"
    /\ SendRequest(c)
    /\ IF stream = "open"
         THEN NoteSent("server", FrameFor(IdOf(c))) /\ UNCHANGED unheard
         ELSE unheard' = unheard \cup {IdOf(c)} /\ UNCHANGED sent
    /\ UNCHANGED <<serverVars, user, taken, reading, mangled, ran>>

CallerFails(c) ==
    /\ SendFails(c)
    /\ MangleIf("server", wire' # wire)
    /\ UNCHANGED <<serverVars, user, sent, taken, reading, unheard, ran>>

\* The chunks of two workers may be appended in the other order, and a bad
\* header discards what is in the buffer.
ClientReceives(x) ==
    /\ user = "rpc"
    /\ ReceiveData(x)
    /\ NoteParsed("client", x, ParseFrames(recv_buf \o job[x].chunk))
    /\ UNCHANGED <<serverVars, user, sent, unheard, ran>>

ClientHandles(x) ==
    /\ HandleResponse(x)
    /\ UNCHANGED <<serverVars, user, history>>

--------------------------------------------------------------------------------
(***************************************************************************)
(* The server's side.                                                      *)
(***************************************************************************)
ServerStep(w) ==
    /\ \/ Register(w) \/ Insert(w)
       \/ ServerEvent(w) \/ ServerEventLost(w)
       \/ RemoveFromMap(w) \/ Deregister(w)
    /\ UNCHANGED <<clientVars, callVars, user, history>>

ServerCloses ==
    /\ CloseStream
    /\ UNCHANGED <<clientVars, callVars, user, history>>

\* A part of a frame that is in the buffer when it is replaced is lost.
ServerBuffer(w) ==
    /\ OnConnect(w) \/ OnDisconnect(w)
    /\ MangleIf("server", conn_buffer \notin {Absent, <<>>})
    /\ UNCHANGED <<clientVars, callVars, user, sent, taken, reading, unheard, ran>>

ServerReads(w) ==
    /\ ServerRead(w)
    /\ NoteRead("server", w)
    /\ UNCHANGED <<clientVars, callVars, user, sent, taken, mangled, unheard, ran>>

ServerReceives(w) ==
    /\ OnData(w)
    /\ NoteParsed("server", w, ParseFrames(Buffered(w)))
    /\ UNCHANGED <<clientVars, callVars, user, sent, unheard, ran>>

NoteRun(frame) ==
    ran' = [id \in Ids |-> IF user = "rpc" /\ RunBy(frame) /\ RequestIn(frame.payload).id = id
                             THEN ran[id] + 1
                             ELSE ran[id]]

ServerHandles(w) ==
    /\ HandleFrame(w)
    /\ NoteRun(Head(frames[w]))
    /\ UNCHANGED <<clientVars, callVars, user, sent, taken, reading, mangled, unheard>>

\* The request that a frame makes or answers, if it does.
Answered(frame) == IF frame.payload = <<>> THEN {} ELSE {Head(frame.payload)}

\* No answer is made: to the requests of the batch, or to the one that failed.
ServerFails(w) ==
    /\ \/ /\ MethodPanics(w)
          /\ NoteRun(Head(frames[w]))
          /\ unheard' = unheard \cup UNION {Answered(frames[w][i]) : i \in DOMAIN frames[w]}
       \/ /\ ErrorUnsent(w)
          /\ unheard' = unheard \cup Answered(Head(frames[w]))
          /\ UNCHANGED ran
    /\ UNCHANGED <<clientVars, callVars, user, sent, taken, reading, mangled>>

ServerReplies(w) ==
    /\ \/ SendReply(w) /\ NoteSent("client", reply[w]) /\ UNCHANGED <<unheard, mangled>>
       \/ /\ ReplyNowhere(w) \/ ReplyBreaks(w)
          /\ unheard' = unheard \cup Answered(reply[w])
          /\ MangleIf("client", wire' # wire)
          /\ UNCHANGED sent
    /\ UNCHANGED <<clientVars, callVars, user, taken, reading, ran>>

Network ==
    /\ \E e \in Ends : Deliver(e) \/ DeliverEnd(e)
    /\ UNCHANGED <<clientVars, callVars, serverVars, user, history>>

--------------------------------------------------------------------------------
Init ==
    /\ ConnectionInit
    /\ ClientInit
    /\ RpcClientInit
    /\ RpcServerInit
    /\ user \in {"rpc", "raw"}
    /\ sent = [e \in Ends |-> <<>>]
    /\ taken = [e \in Ends |-> <<>>]
    /\ reading = [e \in Ends |-> <<>>]
    /\ mangled = [e \in Ends |-> FALSE]
    /\ unheard = {}
    /\ ran = [id \in Ids |-> 0]

Caller(c) == CallerStep(c) \/ CallerSends(c) \/ CallerFails(c)
ClientWorker(x) == ClientReads(x) \/ RawReceive(x) \/ ClientReceives(x) \/ ClientHandles(x)
ServerWorker(w) ==
    \/ ServerStep(w) \/ ServerBuffer(w) \/ ServerReads(w) \/ ServerReceives(w)
    \/ ServerHandles(w) \/ ServerFails(w) \/ ServerReplies(w)

Next ==
    \/ Network
    \/ ClientStep
    \/ ServerCloses
    \/ \E frame \in RawFrames : RawSend(frame)
    \/ \E c \in Callers : Caller(c)
    \/ \E x \in ClientWorkers : ClientWorker(x)
    \/ \E w \in ServerWorkers : ServerWorker(w)

Spec == Init /\ [][Next]_vars

--------------------------------------------------------------------------------
(***************************************************************************)
(* Properties.                                                             *)
(***************************************************************************)
Results == [ok : BOOLEAN, data : Seq(Nat)]
Calling == {"idle", "send", "look", "asleep", "late"}

\* A worker of the client has a chunk, never an empty one, or frames, or neither.
Jobs == [step : {"idle", "read", "disconnect"}, chunk : {<<>>}, frames : {<<>>}]
        \cup [step : {"data"}, chunk : Seq(Nat) \ {<<>>}, frames : {<<>>}]
        \cup [step : {"frames"}, chunk : {<<>>}, frames : Seq(Frames) \ {<<>>}]

\* The types of the variables of both ends (client.rs l.17-40, server.rs l.98-135,
\* tcp/mod.rs l.530-660).
TypeOK ==
    /\ wire \in [Ends -> Seq(Nat)] /\ arrived \in [Ends -> Seq(Nat)]
    /\ {ended, closed, registered, edge, mangled} \subseteq [Ends -> BOOLEAN]
    /\ stream \in {"unstarted", "open", "none"}
    /\ handlers \subseteq OtherTokens \cup {ClientToken}
    /\ job \in [ClientWorkers -> Jobs]
    /\ told \in Nat
    /\ next_request_id \in 1 .. MaxRequests + 1
    /\ pending \in [Ids -> Results \cup {None, Waiting}]
    /\ recv_buf \in Seq(Nat)
    /\ caller \in [Callers -> [step : Calling, id : Ids \cup {None}]]
    /\ outcome \in [Ids -> Results \cup {None}]
    /\ connected \in BOOLEAN
    /\ conn_buffer \in Seq(Nat) \cup {Absent}
    /\ chunk \in [ServerWorkers -> Seq(Nat)]
    /\ frames \in [ServerWorkers -> Seq(Frames)]
    /\ reply \in [ServerWorkers -> Frames \cup {Absent}]
    /\ unheard \subseteq Nat
    /\ ran \in [Ids -> Nat]

\* Frames come out of the buffers as they were sent, however the bytes are cut,
\* unless a write broke off, chunks changed places, or a buffer was discarded
\* (server.rs l.142, 148-165, client.rs l.192-210, protocol.rs l.270-293).
FramesInOrder ==
    \A e \in Ends : ~mangled[e] => IsPrefix(taken[e], sent[e])

\* A caller that sleeps has its request in the map, not completed: no response
\* comes between the look and the wait unnoticed (client.rs l.118-141, 232, 251).
NoSleeperAnswered ==
    \A c \in Callers : At(c, "asleep") => pending[IdOf(c)] = Waiting

\* An entry belongs to one caller, which is on its way to take it out: none is
\* left behind by a failed send, a timeout or a late response (client.rs l.90-144).
PendingHasCaller ==
    \A id \in Ids : pending[id] # None =>
        Cardinality({c \in Callers : IdOf(c) = id /\ ~At(c, "idle")}) = 1

Carries(frame, id) == frame.payload # <<>> /\ Head(frame.payload) = id
Among(list, id) == \E i \in DOMAIN list : Carries(list[i], id)
Untaken(e) == SubSeq(sent[e], Len(taken[e]) + 1, Len(sent[e]))

OnItsWay(id) ==
    \/ \E c \in Callers : At(c, "send") /\ IdOf(c) = id
    \/ \E e \in Ends : Among(Untaken(e), id)
    \/ \E w \in ServerWorkers : Among(frames[w], id) \/ (reply[w] # Absent /\ Carries(reply[w], id))
    \/ \E x \in ClientWorkers : Among(job[x].frames, id)

\* A request that waits is on its way, or its response is, or it was lost in a
\* way the model records: its bytes were mangled, there was no stream or no
\* connection to send to, the method of a request of its batch panicked, or its
\* error could not be serialized (server.rs l.148-265, client.rs l.80-257).
RequestAccounted ==
    \A id \in Ids : pending[id] = Waiting =>
        OnItsWay(id) \/ id \in unheard \/ \E e \in Ends : mangled[e]

--------------------------------------------------------------------------------
AnswerTo(call) ==
    LET frame == Answer([id |-> 0, service |-> call.service, method |-> call.method,
                         args |-> call.args])
    IN [ok |-> frame.type = Response, data |-> ResponseIn(frame.payload).data]

RunsCall(call) == Runs([service |-> call.service, method |-> call.method, args |-> call.args])

Promise == INSTANCE RpcCalls WITH
    call <- requests, heard <- ~mangled["server"], intact <- ~\E e \in Ends : mangled[e],
    Answer <- AnswerTo, Runs <- RunsCall, Nothing <- Ok(<<>>),
    Failures <- {Err(Unavailable), Err(DeadlineExceeded)}

\* Each call runs at most once and returns its own answer or an error, with
\* responses in any order, late or not at all (server.rs l.209-265,
\* client.rs l.80-170, mill-rpc-macros l.270-330).
ImplementsCalls == Promise!Spec

\* What the server's description says (server.rs l.1-4): it dispatches requests
\* and sends back responses.  A request that was served on a connection which
\* nobody has ended is answered.
ServedIsAnswered ==
    unheard # {} => \E e \in Ends : ended[e] \/ closed[e] \/ mangled[e]
================================================================================
