--------------------------------- MODULE RpcServer -------------------------------
(***************************************************************************)
(* RpcServer of mill-rpc/src/server.rs at the server's end of a            *)
(* Connection, with what TcpServer (tcp/mod.rs) does for it: the steps by  *)
(* which a connection is accepted, its reads, send_to, and its end.        *)
(*                                                                         *)
(* A service is what the macros generate: methods numbered in the order of *)
(* their declaration, that decode their arguments, here one number and     *)
(* what follows it is not looked at, and encode their result, here the     *)
(* service that was asked and its argument.                                *)
(***************************************************************************)
EXTENDS Connection, Wire

CONSTANTS ServerWorkers,    \* the workers of the server's event loop
          Registrations,    \* the calls of service() and service_with_id(), in order
          Methods,          \* how many methods each service has
          Absent

ASSUME RpcServerAssumption ==
    /\ DOMAIN Methods \subseteq Nat
    /\ Registrations \in Seq([explicit : BOOLEAN, id : Nat, service : DOMAIN Methods])
    /\ Absent \notin Frames \cup Seq(Nat)

VARIABLES
    connected,    \* whether the connection is in the map of TcpServer
    conn_buffer,  \* its entry of conn_buffers, or Absent
    work,         \* the steps each worker has before it
    chunk,        \* what it has read
    frames,       \* the frames it has parsed and not yet handled
    reply         \* the frame it is about to send, or Absent

serverVars == <<connected, conn_buffer, work, chunk, frames, reply>>

--------------------------------------------------------------------------------
(***************************************************************************)
(* The builder: which service answers to which id.                         *)
(***************************************************************************)
\* service_with_id() does not move the ids that service() gives out.
AddService(built, registration) ==
    LET id == IF registration.explicit THEN registration.id ELSE built.next
    IN [next |-> IF registration.explicit THEN built.next ELSE built.next + 1,
        map |-> [i \in DOMAIN built.map \cup {id} |->
                    IF i = id THEN registration.service ELSE built.map[i]]]

NoServices == [next |-> 0, map |-> [i \in {} |-> i]]
Services ==
    LET built[n \in 0 .. Len(Registrations)] ==
          IF n = 0 THEN NoServices ELSE AddService(built[n - 1], Registrations[n])
    IN built[Len(Registrations)].map

\* The methods of a service are numbered in the order of their declaration.
MethodIds(service) == 0 .. Methods[service] - 1

\* The generated dispatch(), behind the look-up of the service.
Decodable(args) == args # <<>>

Runs(request) ==
    /\ request.service \in DOMAIN Services
    /\ request.method \in MethodIds(Services[request.service])
    /\ Decodable(request.args)

DispatchStatus(request) ==
    IF request.service \in DOMAIN Services /\ request.method \in MethodIds(Services[request.service])
      THEN Internal
      ELSE NotFound

Answer(request) ==
    IF Runs(request)
      THEN ResponseFrame(request.id, <<Services[request.service], Head(request.args)>>)
      ELSE ErrorFrame(request.id, <<DispatchStatus(request)>>)

--------------------------------------------------------------------------------
(***************************************************************************)
(* TcpServer                                                               *)
(***************************************************************************)
Accepting == <<"register", "insert", "connect">>
Ending == <<"remove", "deregister", "tell">>

Idle(w) == work[w] = <<>>
NextIs(w, step) == ~Idle(w) /\ Head(work[w]) = step
Go(w) == work' = [work EXCEPT ![w] = Tail(@)]
Become(w, steps) == work' = [work EXCEPT ![w] = steps]

RpcServerInit ==
    /\ connected = FALSE
    /\ conn_buffer = Absent
    /\ \E w \in ServerWorkers : work = [v \in ServerWorkers |-> IF v = w THEN Accepting ELSE <<>>]
    /\ chunk = [w \in ServerWorkers |-> <<>>]
    /\ frames = [w \in ServerWorkers |-> <<>>]
    /\ reply = [w \in ServerWorkers |-> Absent]

Register(w) ==
    /\ NextIs(w, "register")
    /\ Watch("server")
    /\ Go(w)
    /\ UNCHANGED <<net, wire, arrived, ended, closed, faults, connected, conn_buffer, chunk, frames, reply>>

Insert(w) ==
    /\ NextIs(w, "insert")
    /\ connected' = TRUE
    /\ Go(w)
    /\ UNCHANGED <<connVars, conn_buffer, chunk, frames, reply>>

\* on_connect installs an empty buffer, whatever is there.
OnConnect(w) ==
    /\ NextIs(w, "connect")
    /\ conn_buffer' = <<>>
    /\ Go(w)
    /\ UNCHANGED <<connVars, connected, chunk, frames, reply>>

ServerEvent(w) ==
    /\ Idle(w)
    /\ registered["server"]
    /\ TakeEvent("server")
    /\ Become(w, <<"read">>)
    /\ UNCHANGED <<net, wire, arrived, ended, closed, registered, faults, connected, conn_buffer, chunk,
                   frames, reply>>

ServerReadsNothing(w) ==
    /\ ~SomethingAt("server")
    /\ Become(w, <<>>)
    /\ UNCHANGED <<arrived, chunk, faults>>

ServerReadsChunk(w) ==
    /\ arrived["server"] # <<>>
    /\ chunk' = [chunk EXCEPT ![w] = arrived["server"]]
    /\ arrived' = [arrived EXCEPT !["server"] = <<>>]
    /\ Become(w, <<"data">>)
    /\ UNCHANGED faults

ServerReadsEnd(w) ==
    /\ \/ ended["server"] /\ arrived["server"] = <<>> /\ UNCHANGED faults
       \/ Fail
    /\ Become(w, Ending)
    /\ UNCHANGED <<arrived, chunk>>

ServerRead(w) ==
    /\ NextIs(w, "read")
    /\ ServerReadsNothing(w) \/ ServerReadsChunk(w) \/ ServerReadsEnd(w)
    /\ UNCHANGED <<net, wire, ended, closed, registered, edge, connected, conn_buffer, frames, reply>>

--------------------------------------------------------------------------------
(***************************************************************************)
(* RpcServerHandler                                                        *)
(***************************************************************************)
\* The frames that were parsed stay in the buffer (a mutant).
RestAll(buffer) == buffer

\* What stays in the buffer: nothing after a failure.
Rest(buffer) == ParseFrames(buffer).rest

\* The buffer with what was read behind it; or_default() makes the buffer.
Buffered(w) == (IF conn_buffer = Absent THEN <<>> ELSE conn_buffer) \o chunk[w]

\* The loop over the frames that were parsed.
Handling(list) == [i \in DOMAIN list |-> "frame"]

\* on_data up to the end of its critical section.
OnData(w) ==
    /\ NextIs(w, "data")
    /\ frames' = [frames EXCEPT ![w] = ParseFrames(Buffered(w)).frames]
    /\ conn_buffer' = Rest(Buffered(w))
    /\ chunk' = [chunk EXCEPT ![w] = <<>>]
    /\ Become(w, Handling(frames'[w]))
    /\ UNCHANGED <<connVars, connected, reply>>

\* A request that runs no method is not answered (a mutant).
ReplyToServed(frame) ==
    IF frame.type = Request /\ IsRequestPayload(frame.payload) /\ ~IsOneWay(frame.flags)
       /\ Runs(RequestIn(frame.payload))
      THEN Answer(RequestIn(frame.payload))
      ELSE Absent

\* handle_frame up to the response: the frame it is answered with, if any.
ReplyTo(frame) ==
    IF frame.type = Ping
      THEN PongFrame
    ELSE IF frame.type = Request /\ IsRequestPayload(frame.payload) /\ ~IsOneWay(frame.flags)
      THEN Answer(RequestIn(frame.payload))
    ELSE Absent

\* Whether a frame runs a method.
RunBy(frame) ==
    frame.type = Request /\ IsRequestPayload(frame.payload) /\ Runs(RequestIn(frame.payload))

HandleFrame(w) ==
    /\ NextIs(w, "frame")
    /\ reply' = [reply EXCEPT ![w] = ReplyTo(Head(frames[w]))]
    /\ frames' = [frames EXCEPT ![w] = Tail(@)]
    /\ Become(w, (IF reply'[w] = Absent THEN <<>> ELSE <<"reply">>) \o Handling(frames'[w]))
    /\ UNCHANGED <<connVars, connected, conn_buffer, chunk>>

\* The method panics, and the worker unwinds out of its thread: the frames behind
\* this one are gone with it.  No lock is poisoned; that of the services is held
\* for reading.
MethodPanics(w) ==
    /\ NextIs(w, "frame")
    /\ RunBy(Head(frames[w]))
    /\ Fail
    /\ frames' = [frames EXCEPT ![w] = <<>>]
    /\ Become(w, <<"dead">>)
    /\ UNCHANGED <<net, wire, arrived, ended, closed, registered, edge, connected, conn_buffer, chunk,
                   reply>>

\* An error that cannot be serialized is not sent (l.245-250).
ErrorUnsent(w) ==
    /\ NextIs(w, "frame")
    /\ ReplyTo(Head(frames[w])) # Absent /\ ReplyTo(Head(frames[w])).type = Error
    /\ Fail
    /\ frames' = [frames EXCEPT ![w] = Tail(@)]
    /\ Become(w, Handling(frames'[w]))
    /\ UNCHANGED <<net, wire, arrived, ended, closed, registered, edge, connected, conn_buffer, chunk,
                   reply>>

\* An event that is handed to a worker whose thread has ended.
ServerEventLost(w) ==
    /\ NextIs(w, "dead")
    /\ registered["server"]
    /\ TakeEvent("server")
    /\ UNCHANGED <<net, wire, arrived, ended, closed, registered, faults, serverVars>>

Replied(w) ==
    /\ reply' = [reply EXCEPT ![w] = Absent]
    /\ Go(w)
    /\ UNCHANGED <<net, arrived, ended, closed, registered, edge, connected, conn_buffer, chunk, frames>>

\* send_to, to a connection that is in the map.
SendReply(w) ==
    /\ NextIs(w, "reply")
    /\ connected
    /\ Write("server", Encode(reply[w]))
    /\ Replied(w)
    /\ UNCHANGED faults

\* To one that is not (yet, or any more): the error is logged, the reply gone.
ReplyNowhere(w) ==
    /\ NextIs(w, "reply")
    /\ ~connected
    /\ Replied(w)
    /\ UNCHANGED <<wire, faults>>

ReplyBreaks(w) ==
    /\ NextIs(w, "reply")
    /\ connected
    /\ WriteBreaks("server", Encode(reply[w]))
    /\ Replied(w)

--------------------------------------------------------------------------------
(***************************************************************************)
(* The end of the connection: TcpConnectionHandler::disconnect.            *)
(***************************************************************************)
RemoveFromMap(w) ==
    /\ NextIs(w, "remove")
    /\ connected' = FALSE
    /\ IF connected THEN Go(w) ELSE Become(w, <<>>)
    /\ UNCHANGED <<connVars, conn_buffer, chunk, frames, reply>>

Deregister(w) ==
    /\ NextIs(w, "deregister")
    /\ Unwatch("server")
    /\ Go(w)
    /\ UNCHANGED <<net, wire, arrived, ended, closed, faults, connected, conn_buffer, chunk, frames, reply>>

OnDisconnect(w) ==
    /\ NextIs(w, "tell")
    /\ conn_buffer' = Absent
    /\ Go(w)
    /\ UNCHANGED <<connVars, connected, chunk, frames, reply>>

\* The stream is closed with the last reference to it, when neither the map nor
\* the registry nor a worker in the handler has it.
CloseStream ==
    /\ ~closed["server"]
    /\ ~connected /\ ~registered["server"]
    /\ \A w \in ServerWorkers : Idle(w) \/ NextIs(w, "dead")
    /\ closed' = [closed EXCEPT !["server"] = TRUE]
    /\ UNCHANGED <<net, wire, arrived, ended, registered, edge, faults, serverVars>>

================================================================================
