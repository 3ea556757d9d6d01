------------------------------ MODULE ScratchServers -----------------------------
(***************************************************************************)
(* The servers of mill-io/examples that are written on the event loop      *)
(* alone: scratch_echo_server.rs, scratch_jsonrpc_server.rs and            *)
(* scratch_http_server.rs.  Their handlers run on the workers of one event *)
(* loop and share a listener, the connections and the values stored.       *)
(*                                                                         *)
(* The echo and the JSON-RPC server keep the streams in one map behind one *)
(* lock, which a handler holds while it reads, answers and writes; the     *)
(* HTTP server has a stream and a lock for each connection.  A request     *)
(* travels as two halves, so that a read may find part of a request, or    *)
(* more than one.                                                          *)
(***************************************************************************)
EXTENDS Integers, SequencesExt, FiniteSets

CONSTANTS Clients,
          Workers,        \* the workers of the event loop
          Requests,       \* the requests a client may send: an op and an argument
          Overflowing,    \* the sums among them that overflow, in a build that checks
          Routes,         \* the ops of them that the HTTP server has a page for
          Keys,           \* the keys of the store
          BufferSize,     \* how many halves of requests a buffer of the pool takes
          MaxRequests,    \* bound on the requests, of all clients
          Loads,          \* what is tried: which servers, with how many workers and which
                          \* requests, and how many calls fail
          None

ASSUME ScratchAssumption ==
    /\ BufferSize \in Nat \ {0} /\ MaxRequests \in Nat
    /\ Loads \subseteq [servers : SUBSET {"echo", "jsonrpc", "http"}, workers : Nat,
                        requests : SUBSET Requests, faults : Nat]
    /\ Overflowing \subseteq Requests /\ \A r \in Overflowing : r.op = "add"
    /\ None \notin Clients /\ None \notin Nat

VARIABLES
    server,         \* the server that runs
    backlog,        \* clients that wait to be accepted
    listener_edge,  \* whether the listener has an event to hand out
    next_token,
    token,          \* the token of each client's connection, or None
    connections,    \* the clients whose stream is in the map
    handlers,       \* the clients whose handler the event loop has
    watched,        \* the clients whose stream is registered with mio
    edge,           \* those of them whose stream has an event to hand out
    unread,         \* the halves that have arrived from each client
    ended,          \* the clients that have closed their end
    data_store,
    poisoned,       \* the locks that a worker held when it panicked
    job,            \* what each worker is at
    written,        \* what was written to each client
    load,           \* the requests that clients send, and how many calls may still fail
    log,            \* history: the reads, with the client and the chunk of each
    missed,         \* history: clients whose last event was lost or found no handler or
                    \* stream, or with more to read than a read took
    broken          \* history: clients that an answer was not written to

serverState == <<next_token, token, connections, handlers, data_store, poisoned>>
network == <<backlog, listener_edge, watched, edge, unread, ended>>
history == <<log, missed, broken>>
vars == <<server, serverState, network, job, written, load, history>>

InMap == server # "http"

NoJob == [step |-> "idle", conn |-> None, chunk |-> <<>>]
Absent == [NoJob EXCEPT !.step = "absent"]
JobAt(w, step) == job[w].step = step
ConnOf(w) == job[w].conn
Go(w, step) == job' = [job EXCEPT ![w].step = step]
Finish(w) == job' = [job EXCEPT ![w] = NoJob]
Dies(w) == job' = [job EXCEPT ![w] = [NoJob EXCEPT !.step = "dead"]]

Fail == load.faults > 0 /\ load' = [load EXCEPT !.faults = @ - 1]

--------------------------------------------------------------------------------
(***************************************************************************)
(* The clients.                                                            *)
(***************************************************************************)
\* A TokenGenerator starts behind the listener's token.
FirstToken == 2
NextToken(t) == t + 1

EmptyStore == [k \in Keys |-> None]

ServerInit ==
    /\ next_token = FirstToken
    /\ connections = {} /\ handlers = {}
    /\ data_store = EmptyStore
    /\ poisoned = {}

Init ==
    /\ load \in Loads /\ server \in load.servers
    /\ ServerInit
    /\ backlog = <<>> /\ listener_edge = FALSE
    /\ token = [c \in Clients |-> None]
    /\ watched = {} /\ edge = {} /\ ended = {}
    /\ unread = [c \in Clients |-> <<>>]
    /\ \E crew \in SUBSET Workers :
         /\ Cardinality(crew) = load.workers
         /\ job = [w \in Workers |-> IF w \in crew THEN NoJob ELSE Absent]
    /\ written = [c \in Clients |-> <<>>]
    /\ log = <<>> /\ missed = {} /\ broken = {}

Half(request, part) == [of |-> request, part |-> part]

ReadFrom(c) == FlattenSeq([i \in DOMAIN log |-> IF log[i].conn = c THEN log[i].chunk ELSE <<>>])
Received(c) == ReadFrom(c) \o unread[c]

\* The requests of which something has arrived.
Asked ==
    FoldFunction(+, 0, [c \in Clients |-> (Len(Received(c)) + 1) \div 2])

Connects(c) ==
    /\ token[c] = None /\ \A i \in DOMAIN backlog : backlog[i] # c
    /\ backlog' = Append(backlog, c)
    /\ listener_edge' = TRUE
    /\ UNCHANGED <<server, serverState, watched, edge, unread, ended, job, written, load, history>>

\* An event, once the stream is registered.
Raises(c) ==
    IF c \in watched
      THEN edge' = edge \cup {c} /\ missed' = missed \ {c}
      ELSE UNCHANGED <<edge, missed>>

Arrive(c, halves) ==
    /\ unread' = [unread EXCEPT ![c] = @ \o halves]
    /\ Raises(c)
    /\ UNCHANGED <<server, serverState, backlog, listener_edge, watched, ended, job, written, load,
                   log, broken>>

\* The rest of a request that has arrived in part, or a request, or half of one.
Sends(c) ==
    LET got == Received(c) IN
    /\ token[c] # None /\ c \notin ended
    /\ \E r \in Requests \cap load.requests :
         IF got # <<>> /\ Last(got).part = 1
           THEN r = Last(got).of /\ Arrive(c, <<Half(r, 2)>>)
           ELSE /\ Asked < MaxRequests
                /\ Arrive(c, <<Half(r, 1)>>) \/ Arrive(c, <<Half(r, 1), Half(r, 2)>>)

Closes(c) ==
    /\ token[c] # None /\ c \notin ended
    /\ ended' = ended \cup {c}
    /\ Raises(c)
    /\ UNCHANGED <<server, serverState, backlog, listener_edge, watched, unread, job, written, load,
                   log, broken>>

SomethingFrom(c) == unread[c] # <<>> \/ c \in ended

--------------------------------------------------------------------------------
(***************************************************************************)
(* The listener's handler: a loop over accept(), of which each round holds *)
(* the listener's lock to its end.                                         *)
(***************************************************************************)
ListenerEvent(w) ==
    /\ JobAt(w, "idle") /\ listener_edge
    /\ listener_edge' = FALSE
    /\ Go(w, "accept")
    /\ UNCHANGED <<server, serverState, backlog, watched, edge, unread, ended, written, load, history>>

ListenerFree == \A w \in Workers : job[w].step \notin {"register", "handler", "insert"}

Accept(w) ==
    /\ JobAt(w, "accept") /\ ListenerFree /\ "listener" \notin poisoned /\ backlog # <<>>
    /\ backlog' = Tail(backlog)
    /\ next_token' = NextToken(next_token)
    /\ token' = [token EXCEPT ![Head(backlog)] = next_token]
    /\ job' = [job EXCEPT ![w] = [step |-> "register", conn |-> Head(backlog), chunk |-> <<>>]]
    /\ UNCHANGED <<server, connections, handlers, data_store, poisoned, listener_edge, watched, edge,
                   unread, ended, written, load, history>>

\* accept() has no connection, or another error.
AcceptsNothing(w) ==
    /\ JobAt(w, "accept") /\ ListenerFree /\ "listener" \notin poisoned
    /\ \/ backlog = <<>> /\ UNCHANGED load
       \/ Fail
    /\ Finish(w)
    /\ UNCHANGED <<server, serverState, network, written, history>>

\* lock().unwrap() on the listener panics.
AcceptPanics(w) ==
    /\ JobAt(w, "accept") /\ ListenerFree /\ "listener" \in poisoned
    /\ Dies(w)
    /\ UNCHANGED <<server, serverState, network, written, load, history>>

BackToAccept(w) == job' = [job EXCEPT ![w] = [NoJob EXCEPT !.step = "accept"]]

\* PollHandle::register: mio reports at once what has arrived, ...
RegisterStream(w) ==
    LET c == ConnOf(w) IN
    /\ JobAt(w, "register")
    /\ watched' = watched \cup {c}
    /\ edge' = IF SomethingFrom(c) THEN edge \cup {c} ELSE edge
    /\ Go(w, "handler")
    /\ UNCHANGED <<server, serverState, backlog, listener_edge, unread, ended, written, load, history>>

\* ... and the handler is there to be found after that.
InsertHandler(w) ==
    /\ JobAt(w, "handler")
    /\ handlers' = handlers \cup {ConnOf(w)}
    /\ IF InMap THEN Go(w, "insert") ELSE BackToAccept(w)
    /\ UNCHANGED <<server, next_token, token, connections, data_store, poisoned, network, written, load,
                   history>>

\* The stream is dropped, and the loop is left.
RegisterFails(w) ==
    /\ JobAt(w, "register")
    /\ Fail
    /\ Finish(w)
    /\ UNCHANGED <<server, serverState, network, written, history>>

--------------------------------------------------------------------------------
(***************************************************************************)
(* The lock that a handler of a connection takes.                          *)
(***************************************************************************)
LockOf(c) == IF InMap THEN "connections" ELSE c

\* A worker lets go of the lock when it has read (a mutant).
HoldsToRead(w) == job[w].step = "read"

Holds(w) == job[w].step \in {"read", "answer"}
LockFree(c) == \A w \in Workers : Holds(w) => LockOf(ConnOf(w)) # LockOf(c)

Poisoned(c) == LockOf(c) \in poisoned

InsertStream(w) ==
    /\ JobAt(w, "insert") /\ LockFree(ConnOf(w)) /\ ~Poisoned(ConnOf(w))
    /\ connections' = connections \cup {ConnOf(w)}
    /\ BackToAccept(w)
    /\ UNCHANGED <<server, next_token, token, handlers, data_store, poisoned, network, written, load,
                   history>>

\* lock().unwrap() panics with the listener's lock held, and the stream is dropped.
InsertPanics(w) ==
    LET c == ConnOf(w) IN
    /\ JobAt(w, "insert") /\ LockFree(c) /\ Poisoned(c)
    /\ poisoned' = poisoned \cup {"listener"}
    /\ watched' = watched \ {c} /\ edge' = edge \ {c}
    /\ Dies(w)
    /\ UNCHANGED <<server, next_token, token, connections, handlers, data_store, backlog, listener_edge,
                   unread, ended, written, load, history>>

\* Deregistered, and left in the map (a mutant).
Deregisters(c) ==
    /\ watched' = watched \ {c} /\ edge' = edge \ {c} /\ handlers' = handlers \ {c}
    /\ UNCHANGED connections

\* Removed from the map and deregistered; the event loop refuses to deregister
\* what it does not have, which is logged.
TakeDown(c) ==
    /\ connections' = connections \ {c}
    /\ IF InMap /\ c \notin connections
         THEN UNCHANGED <<watched, edge, handlers>>
         ELSE watched' = watched \ {c} /\ edge' = edge \ {c} /\ handlers' = handlers \ {c}

--------------------------------------------------------------------------------
(***************************************************************************)
(* The answers.                                                            *)
(***************************************************************************)
\* serde_json takes a chunk that is one request.
IsRequest(chunk) == Len(chunk) = 2 /\ chunk[1].part = 1

\* process_request, on the store
StoredBy(request, store) ==
    IF request.op = "set" THEN [store EXCEPT ![request.arg.key] = request.arg.value] ELSE store

ProcessRequest(request, store) ==
    CASE request.op = "get" -> [op |-> "value", arg |-> store[request.arg]]
      [] request.op = "list" -> [op |-> "keys", arg |-> {k \in Keys : store[k] # None}]
      [] OTHER -> [op |-> request.op, arg |-> None]

Invalid == [op |-> "error", arg |-> None]

Page(op) == [op |-> op, arg |-> None]
NotFound == [op |-> "404", arg |-> None]

\* HttpRequest::parse finds a method and a path in the first line, which is in
\* the first half of a request, and looks no further than the headers.
ParsesTo(chunk, op) == chunk[1].part = 1 /\ chunk[1].of.op = op

HttpAnswer(chunk) ==
    IF \E op \in Routes : ParsesTo(chunk, op)
      THEN Page(CHOOSE op \in Routes : ParsesTo(chunk, op))
      ELSE NotFound

AnswerTo(chunk, store) ==
    CASE server = "echo" -> chunk
      [] server = "jsonrpc" -> <<IF IsRequest(chunk) THEN ProcessRequest(chunk[1].of, store) ELSE Invalid>>
      [] server = "http" -> <<HttpAnswer(chunk)>>

StoreAfter(chunk, store) ==
    IF server = "jsonrpc" /\ IsRequest(chunk) THEN StoredBy(chunk[1].of, store) ELSE store

--------------------------------------------------------------------------------
(***************************************************************************)
(* The handler of a connection.                                            *)
(***************************************************************************)
ConnEvent(w, c) ==
    /\ JobAt(w, "idle") /\ c \in edge \cap handlers
    /\ edge' = edge \ {c}
    /\ job' = [job EXCEPT ![w] = [step |-> "lock", conn |-> c, chunk |-> <<>>]]
    /\ UNCHANGED <<server, serverState, backlog, listener_edge, watched, unread, ended, written, load,
                   history>>

\* An event that finds no handler, or that goes to a worker that has panicked.
EventLost(w, c) ==
    /\ c \in edge
    /\ JobAt(w, "dead") \/ (JobAt(w, "idle") /\ c \notin handlers)
    /\ edge' = edge \ {c}
    /\ missed' = missed \cup {c}
    /\ UNCHANGED <<server, serverState, backlog, listener_edge, watched, unread, ended, job, written,
                   load, log, broken>>

ListenerEventLost(w) ==
    /\ JobAt(w, "dead") /\ listener_edge
    /\ listener_edge' = FALSE
    /\ UNCHANGED <<server, serverState, backlog, watched, edge, unread, ended, job, written, load, history>>

HasStream(c) == InMap => c \in connections

\* A handler that does not wait for the lock (a mutant).
TakesOrLeaves(w) ==
    IF LockFree(ConnOf(w)) THEN Go(w, "read") ELSE Finish(w)

Takes(w) == LockFree(ConnOf(w)) /\ Go(w, "read")

LookUp(w) ==
    /\ JobAt(w, "lock") /\ ~Poisoned(ConnOf(w))
    /\ HasStream(ConnOf(w))
    /\ Takes(w)
    /\ UNCHANGED <<server, serverState, network, written, load, history>>

\* Its stream is not in the map, any more or yet.
FindsNoStream(w) ==
    /\ JobAt(w, "lock") /\ LockFree(ConnOf(w)) /\ ~Poisoned(ConnOf(w))
    /\ ~HasStream(ConnOf(w))
    /\ Finish(w)
    /\ missed' = missed \cup {ConnOf(w)}
    /\ UNCHANGED <<server, serverState, network, written, load, log, broken>>

\* The handler returns; only the JSON-RPC server's lock can be poisoned.
FindsPoisoned(w) ==
    /\ JobAt(w, "lock") /\ LockFree(ConnOf(w)) /\ Poisoned(ConnOf(w))
    /\ Finish(w)
    /\ UNCHANGED <<server, serverState, network, written, load, history>>

ReadsNothing(w) ==
    /\ JobAt(w, "read")
    /\ ~SomethingFrom(ConnOf(w))
    /\ Finish(w)
    /\ UNCHANGED <<server, serverState, network, written, load, history>>

\* One read of what the buffer takes, even if there is more, or the end behind it.
ReadsChunk(w) ==
    LET c == ConnOf(w)
        n == IF Len(unread[c]) < BufferSize THEN Len(unread[c]) ELSE BufferSize
        chunk == SubSeq(unread[c], 1, n) IN
    /\ JobAt(w, "read")
    /\ unread[c] # <<>>
    /\ unread' = [unread EXCEPT ![c] = SubSeq(@, n + 1, Len(@))]
    /\ job' = [job EXCEPT ![w] = [@ EXCEPT !.step = "answer", !.chunk = chunk]]
    /\ log' = Append(log, [conn |-> c, chunk |-> chunk])
    /\ missed' = IF n < Len(unread[c]) \/ c \in ended THEN missed \cup {c} ELSE missed
    /\ UNCHANGED <<server, serverState, backlog, listener_edge, watched, edge, ended, written, load, broken>>

\* The echo server takes the connection down at once.
TakesDown(w) == TakeDown(ConnOf(w)) /\ Finish(w)

\* The others let go of the lock before they do.
LetsGo(w) ==
    /\ job' = [job EXCEPT ![w] = [@ EXCEPT !.step = "disconnect", !.chunk = <<>>]]
    /\ UNCHANGED <<connections, handlers, watched, edge>>

EndsConnection(w) == IF server = "echo" THEN TakesDown(w) ELSE LetsGo(w)

ReadsEnd(w) ==
    LET c == ConnOf(w) IN
    /\ JobAt(w, "read")
    /\ \/ unread[c] = <<>> /\ c \in ended /\ UNCHANGED load
       \/ Fail
    /\ EndsConnection(w)
    /\ UNCHANGED <<server, next_token, token, data_store, poisoned, backlog, listener_edge, unread, ended,
                   written, history>>

\* a + b panics, with the lock held.
Panics(w) ==
    server = "jsonrpc" /\ IsRequest(job[w].chunk) /\ job[w].chunk[1].of \in Overflowing

AnswerPanics(w) ==
    /\ JobAt(w, "answer") /\ Panics(w)
    /\ poisoned' = poisoned \cup {LockOf(ConnOf(w))}
    /\ broken' = broken \cup {ConnOf(w)}
    /\ Dies(w)
    /\ UNCHANGED <<server, next_token, token, connections, handlers, data_store, network, written, load,
                   log, missed>>

Writes(w) ==
    LET chunk == job[w].chunk IN
    /\ JobAt(w, "answer") /\ ~Panics(w)
    /\ data_store' = StoreAfter(chunk, data_store)
    /\ written' = [written EXCEPT ![ConnOf(w)] = @ \o AnswerTo(chunk, data_store)]
    /\ Finish(w)
    /\ UNCHANGED <<server, next_token, token, connections, handlers, poisoned, network, load, history>>

\* The request was processed nevertheless.
WriteFails(w) ==
    /\ JobAt(w, "answer") /\ ~Panics(w)
    /\ Fail
    /\ data_store' = StoreAfter(job[w].chunk, data_store)
    /\ EndsConnection(w)
    /\ broken' = broken \cup {ConnOf(w)}
    /\ UNCHANGED <<server, next_token, token, poisoned, backlog, listener_edge, unread, ended, written,
                   log, missed>>

\* Nothing is taken down when the lock is poisoned.
Disconnect(w) ==
    /\ JobAt(w, "disconnect") /\ LockFree(ConnOf(w))
    /\ IF Poisoned(ConnOf(w))
         THEN UNCHANGED <<connections, handlers, watched, edge>>
         ELSE TakeDown(ConnOf(w))
    /\ Finish(w)
    /\ UNCHANGED <<server, next_token, token, data_store, poisoned, backlog, listener_edge, unread, ended,
                   written, load, history>>

--------------------------------------------------------------------------------
Client(c) == Connects(c) \/ Sends(c) \/ Closes(c)

Worker(w) ==
    \/ ListenerEvent(w) \/ ListenerEventLost(w)
    \/ Accept(w) \/ AcceptsNothing(w) \/ AcceptPanics(w)
    \/ RegisterStream(w) \/ RegisterFails(w) \/ InsertHandler(w) \/ InsertStream(w) \/ InsertPanics(w)
    \/ \E c \in Clients : ConnEvent(w, c) \/ EventLost(w, c)
    \/ LookUp(w) \/ FindsNoStream(w) \/ FindsPoisoned(w) \/ ReadsNothing(w) \/ ReadsChunk(w) \/ ReadsEnd(w)
    \/ Writes(w) \/ WriteFails(w) \/ AnswerPanics(w) \/ Disconnect(w)

Next == (\E c \in Clients : Client(c)) \/ (\E w \in Workers : Worker(w))

Spec == Init /\ [][Next]_vars

--------------------------------------------------------------------------------
(***************************************************************************)
(* Properties.                                                             *)
(***************************************************************************)
\* A state of one that serves alone: what is stored, and the answers to each client.
Unserved == [store |-> EmptyStore, answers |-> [c \in Clients |-> <<>>]]
Serve(state, read) ==
    [store |-> StoreAfter(read.chunk, state.store),
     answers |-> [state.answers EXCEPT ![read.conn] = @ \o AnswerTo(read.chunk, state.store)]]

\* What the server answers when it takes the chunks one after the other, in the
\* order of their reads, to the end of each.
OneByOne ==
    LET served[n \in 0 .. Len(log)] ==
          IF n = 0 THEN Unserved ELSE Serve(served[n - 1], log[n])
    IN served[Len(log)]

\* The workers serve as one would: a client gets the answers to what was read
\* from it, in that order, and with the values that were stored before
\* (scratch_echo_server.rs l.117-169, scratch_jsonrpc_server.rs l.144-274,
\* scratch_http_server.rs l.185-275).  The lock, held from the read to the write,
\* makes it so.
ServedOneByOne ==
    \A c \in Clients \ broken : IsPrefix(written[c], OneByOne.answers[c])

\* Bytes that wait in a registered stream, or its end, have an event, or a worker
\* on its way to them or to take the connection down.  They lie only if their last
\* event came before the handler or the stream was in its map (poll.rs l.48-50,
\* scratch_echo_server.rs l.69-80) or went to a worker that had panicked, if a read
\* took less than there was, or behind a poisoned lock (scratch_jsonrpc_server.rs
\* l.174, l.208, l.228-231).
UnreadNoticed ==
    \A c \in watched : SomethingFrom(c) =>
        \/ c \in edge \cup missed \/ Poisoned(c)
        \/ \E w \in Workers : ConnOf(w) = c /\ job[w].step \in {"lock", "read", "disconnect"}

\* A stream is in the map only of a server that has one, with its handler, and a
\* worker that answers holds the lock of a stream that is still there
\* (scratch_echo_server.rs l.68-81, l.120-166, scratch_jsonrpc_server.rs l.205-217).
StreamsInPlace ==
    /\ connections \subseteq handlers
    /\ \A w \in Workers : Holds(w) /\ InMap => ConnOf(w) \in connections

================================================================================
