-------------------------------- MODULE TcpServer --------------------------------
(***************************************************************************)
(* TcpServer of mill-net/src/tcp/mod.rs: the accept loop of its listener,  *)
(* the handlers of its connections, and close_connection.                  *)
(*                                                                         *)
(* Handlers are run by the workers of the event loop.  The event loop      *)
(* appears as what Reactor shows of it: an edge-triggered readable event   *)
(* goes to any worker, if its source is registered when the worker comes   *)
(* to it.  close_connection is called by users; a handler that calls it is *)
(* a user next to the worker that runs the handler.                        *)
(*                                                                         *)
(* A thread is described by what it still has to do: todo is the rest of   *)
(* the function it is in, one name per step that other threads can come    *)
(* between.  Connections are named by their ids, and an id's token is the  *)
(* id itself (l.352-353).  on_connect, on_data and on_disconnect may       *)
(* return an error or panic; on_error and on_event, which report, return.  *)
(* A panic ends the worker: the locks it had are free again, and an event  *)
(* that the loop hands to it is lost (thread_pool.rs l.72-74; what becomes *)
(* of the loop itself is in Reactor).                                      *)
(***************************************************************************)
EXTENDS Integers, Sequences, FiniteSets, SequencesExt

CONSTANTS Workers,          \* threads that run event handlers
          Users,            \* threads that call close_connection
          MaxConnections,   \* config.max_connections, or None
          None,
          MayFail,          \* whether accept() and register() may fail, and callbacks
                            \* fail or panic
          CounterModulus,   \* 2^64 in the code: connection_counter is a usize
          MaxIds,           \* bound on the connections
          MaxWaiting,       \* bound on the peers that wait to be accepted
          MaxUnread         \* bound on the chunks a connection has to read

ASSUME ServerAssumption ==
    /\ IsFiniteSet(Workers) /\ IsFiniteSet(Users)
    /\ Workers \cap Users = {}
    /\ MaxConnections \in Nat \cup {None} /\ None \notin Nat
    /\ MayFail \in BOOLEAN
    /\ {MaxIds, MaxWaiting, MaxUnread} \subseteq Nat
    /\ CounterModulus \in Nat /\ CounterModulus > MaxIds

VARIABLES
    waiting,              \* peers the listener has yet to accept
    listener_edge,        \* whether the event loop has an event of the listener
    next_conn_id,
    connection_counter,
    connections,          \* the ids in the map
    registered,           \* the ids whose handler the event loop has
    unread,               \* the chunks of data each connection has to read
    ended,                \* the ids whose peer has closed or reset
    edge,                 \* the ids of which the event loop has a readable event
    todo,                 \* the steps each thread has before it
    conn,                 \* the connection each thread is at
    stranded,             \* history: since the last peer came, the accept loop was
                          \* left with an error or a panic, or its event was lost
    told,                 \* history: on_disconnect calls of each connection
    fate                  \* history: "dropped" by its own handler, "closed" by a
                          \* user, "refused" by on_connect or register()

acceptVars == <<waiting, listener_edge, next_conn_id>>
mapVars == <<connection_counter, connections, registered>>
socketVars == <<unread, ended, edge>>
threadVars == <<todo, conn>>
history == <<stranded, told, fate>>
vars == <<acceptVars, mapVars, socketVars, threadVars, history>>

Ids == 1 .. MaxIds
Threads == Workers \cup Users
Issued == 1 .. next_conn_id - 1

Idle(t) == todo[t] = <<>>
At(t, step) == ~Idle(t) /\ Head(todo[t]) = step
GoOn(t) == todo' = [todo EXCEPT ![t] = Tail(@)]
Become(t, steps) == todo' = [todo EXCEPT ![t] = steps]

\* A callback panics.  A user goes on: its thread is not the event loop's.
Dies(w) == MayFail /\ w \in Workers /\ Become(w, <<"dead">>)

--------------------------------------------------------------------------------
(***************************************************************************)
(* The functions, as sequences of steps.                                   *)
(***************************************************************************)
\* A loop that is left after one peer (a mutant).
AcceptedOnce == <<"register", "insert", "connect">>

\* A connection put in the map before the event loop has it (a mutant).
AcceptedInserted == <<"insert", "register", "connect", "accept">>

\* An accepted stream, and the next turn of the loop (l.352-416).
Accepted == <<"register", "insert", "connect", "accept">>

\* on_connect has failed (l.401-415).
Refused == <<"remove", "deregister", "lower", "accept">>

\* A disconnect that leaves the counter alone (a mutant).
DisconnectUncounted == <<"remove", "deregister", "tell">>

\* TcpConnectionHandler::disconnect (l.507-527)
Disconnect == <<"remove", "lower", "deregister", "tell">>

\* close_connection (l.234-254)
CloseConnection == <<"remove", "deregister", "tell">>

\* A caller that does not look at what remove() returns (a mutant).
UnlessThereAnyway(t) == Tail(todo[t])

\* What is left to do when the map did not have the connection any more.
UnlessThere(t) == IF "accept" \in ToSet(todo[t]) THEN <<"lower", "accept">> ELSE <<>>

\* The listener's lock is held for a whole turn of the accept loop (l.304).
HasListener(t) == Len(todo[t]) > 1 /\ Last(todo[t]) = "accept"

\* close_connection keeps the stream's lock until on_disconnect has returned.
StreamHeld(c) == \E u \in Users : At(u, "tell") /\ conn[u] = c

--------------------------------------------------------------------------------
(***************************************************************************)
(* The peers.                                                              *)
(***************************************************************************)
PeerConnects ==
    /\ waiting < MaxWaiting
    /\ waiting + next_conn_id <= MaxIds
    /\ waiting' = waiting + 1
    /\ listener_edge' = TRUE
    /\ stranded' = FALSE
    /\ UNCHANGED <<next_conn_id, mapVars, socketVars, threadVars, told, fate>>

\* Anything new at a socket is an event, once the event loop has it.
Noticed(c) == IF c \in registered THEN edge \cup {c} ELSE edge

PeerSends(c) ==
    /\ c \in Issued \ ended
    /\ unread[c] < MaxUnread
    /\ unread' = [unread EXCEPT ![c] = @ + 1]
    /\ edge' = Noticed(c)
    /\ UNCHANGED <<ended, acceptVars, mapVars, threadVars, history>>

PeerEnds(c) ==
    /\ c \in Issued \ ended
    /\ ended' = ended \cup {c}
    /\ edge' = Noticed(c)
    /\ UNCHANGED <<unread, acceptVars, mapVars, threadVars, history>>

--------------------------------------------------------------------------------
(***************************************************************************)
(* TcpListenerHandler::handle_event                                        *)
(***************************************************************************)
ListenerEvent(w) ==
    /\ Idle(w)
    /\ listener_edge
    /\ listener_edge' = FALSE
    /\ Become(w, <<"accept">>)
    /\ UNCHANGED <<waiting, next_conn_id, mapVars, socketVars, conn, history>>

\* One connection over the limit (a mutant).
AdmitsOneMore == MaxConnections = None \/ connection_counter <= MaxConnections

Admits == MaxConnections = None \/ connection_counter < MaxConnections

Raised == (connection_counter + 1) % CounterModulus

\* A counter that is a plain number (a mutant).
LoweredUnwrapped == connection_counter - 1

\* fetch_sub wraps.
Lowered == (connection_counter + CounterModulus - 1) % CounterModulus

\* One turn of the loop: a peer is admitted or turned away, or none is there.
\* Only fetch_sub competes with the compare_exchange, so both are one step.
Accept(w) ==
    /\ todo[w] = <<"accept">>
    /\ ~\E u \in Workers : HasListener(u)
    /\ \/ /\ waiting = 0
          /\ GoOn(w)
          /\ UNCHANGED <<acceptVars, mapVars, conn>>
       \/ /\ waiting > 0
          /\ waiting' = waiting - 1
          /\ \/ /\ ~Admits
                /\ UNCHANGED <<next_conn_id, connection_counter, threadVars>>
             \/ /\ Admits
                /\ connection_counter' = Raised
                /\ next_conn_id' = next_conn_id + 1
                /\ conn' = [conn EXCEPT ![w] = next_conn_id]
                /\ Become(w, Accepted)
          /\ UNCHANGED <<listener_edge, connections, registered>>
    /\ UNCHANGED <<socketVars, history>>

\* accept() fails with an error other than WouldBlock (l.420-424): the loop is
\* left, whoever else waits.  The peer it failed for may be gone.
AcceptFails(w) ==
    /\ MayFail
    /\ todo[w] = <<"accept">>
    /\ ~\E u \in Workers : HasListener(u)
    /\ waiting > 0
    /\ waiting' \in {waiting, waiting - 1}
    /\ stranded' = TRUE
    /\ GoOn(w)
    /\ UNCHANGED <<listener_edge, next_conn_id, mapVars, socketVars, conn, told, fate>>

\* Registering reports what is at the socket already.
Register(w) ==
    LET c == conn[w] IN
    /\ At(w, "register")
    /\ registered' = registered \cup {c}
    /\ edge' = IF unread[c] > 0 \/ c \in ended THEN edge \cup {c} ELSE edge
    /\ GoOn(w)
    /\ UNCHANGED <<acceptVars, connection_counter, connections, unread, ended, conn, history>>

\* Or fails, also because the event loop is gone (l.367-387).
RegisterFails(w) ==
    /\ MayFail
    /\ At(w, "register")
    /\ connection_counter' = Lowered
    /\ fate' = [fate EXCEPT ![conn[w]] = @ \cup {"refused"}]
    /\ Become(w, <<"accept">>)
    /\ UNCHANGED <<acceptVars, connections, registered, socketVars, conn, stranded, told>>

Insert(w) ==
    /\ At(w, "insert")
    /\ connections' = connections \cup {conn[w]}
    /\ GoOn(w)
    /\ UNCHANGED <<acceptVars, connection_counter, registered, socketVars, conn, history>>

OnConnect(w) ==
    /\ At(w, "connect")
    /\ \/ GoOn(w) /\ UNCHANGED <<fate, stranded>>
       \/ /\ MayFail
          /\ Become(w, Refused)
          /\ fate' = [fate EXCEPT ![conn[w]] = @ \cup {"refused"}]
          /\ UNCHANGED stranded
       \/ Dies(w) /\ stranded' = TRUE /\ UNCHANGED fate
    /\ UNCHANGED <<acceptVars, mapVars, socketVars, conn, told>>

--------------------------------------------------------------------------------
(***************************************************************************)
(* TcpConnectionHandler::handle_event.  One event, one read of one buffer. *)
(***************************************************************************)
ConnectionEvent(w, c) ==
    /\ Idle(w)
    /\ c \in edge \cap registered
    /\ edge' = edge \ {c}
    /\ conn' = [conn EXCEPT ![w] = c]
    /\ Become(w, <<"read">>)
    /\ UNCHANGED <<acceptVars, mapVars, unread, ended, history>>

Read(w) ==
    LET c == conn[w] IN
    /\ At(w, "read")
    /\ ~StreamHeld(c)
    /\ \/ /\ unread[c] > 0
          /\ unread' = [unread EXCEPT ![c] = @ - 1]
          /\ Become(w, <<"data">>)
       \/ /\ unread[c] = 0
          /\ Become(w, IF c \in ended THEN Disconnect ELSE <<>>)
          /\ UNCHANGED unread
    /\ UNCHANGED <<acceptVars, mapVars, ended, edge, conn, history>>

OnData(w) ==
    /\ At(w, "data")
    /\ \/ GoOn(w)
       \/ MayFail /\ Become(w, Disconnect)
       \/ Dies(w)
    /\ UNCHANGED <<acceptVars, mapVars, socketVars, conn, history>>

\* An event that is handed to a worker whose thread has ended.
EventLost(w) ==
    /\ At(w, "dead")
    /\ \/ /\ listener_edge
          /\ listener_edge' = FALSE
          /\ stranded' = TRUE
          /\ UNCHANGED edge
       \/ /\ \E c \in edge \cap registered : edge' = edge \ {c}
          /\ UNCHANGED <<listener_edge, stranded>>
    /\ UNCHANGED <<waiting, next_conn_id, mapVars, unread, ended, threadVars, told, fate>>

--------------------------------------------------------------------------------
(***************************************************************************)
(* The ways out.                                                           *)
(***************************************************************************)
Close(u, c) ==
    /\ Idle(u)
    /\ c \in Issued
    /\ conn' = [conn EXCEPT ![u] = c]
    /\ Become(u, CloseConnection)
    /\ UNCHANGED <<acceptVars, mapVars, socketVars, history>>

\* connections.remove(), which one caller wins.
RemoveFromMap(t) ==
    LET c == conn[t] IN
    /\ At(t, "remove")
    /\ \/ /\ c \in connections
          /\ connections' = connections \ {c}
          /\ fate' = [fate EXCEPT ![c] = IF t \in Users THEN @ \cup {"closed"}
                                         ELSE IF HasListener(t) THEN @
                                         ELSE @ \cup {"dropped"}]
          /\ GoOn(t)
       \/ /\ c \notin connections
          /\ Become(t, UnlessThere(t))
          /\ UNCHANGED <<connections, fate>>
    /\ UNCHANGED <<acceptVars, connection_counter, registered, socketVars, conn, stranded, told>>

Lower(t) ==
    /\ At(t, "lower")
    /\ connection_counter' = Lowered
    /\ GoOn(t)
    /\ UNCHANGED <<acceptVars, connections, registered, socketVars, conn, history>>

\* close_connection also shuts the stream down: its readers see the end.
Deregister(t) ==
    LET c == conn[t] IN
    /\ At(t, "deregister")
    /\ ~StreamHeld(c)
    /\ registered' = registered \ {c}
    /\ edge' = edge \ {c}
    /\ ended' = IF t \in Users THEN ended \cup {c} ELSE ended
    /\ GoOn(t)
    /\ UNCHANGED <<acceptVars, connection_counter, connections, unread, conn, history>>

\* on_disconnect
Tell(t) ==
    /\ At(t, "tell")
    /\ told' = [told EXCEPT ![conn[t]] = @ + 1]
    /\ GoOn(t) \/ Dies(t)
    /\ UNCHANGED <<acceptVars, mapVars, socketVars, conn, stranded, fate>>

--------------------------------------------------------------------------------
Init ==
    /\ waiting = 0
    /\ listener_edge = FALSE
    /\ next_conn_id = 1
    /\ connection_counter = 0
    /\ connections = {}
    /\ registered = {}
    /\ unread = [c \in Ids |-> 0]
    /\ ended = {}
    /\ edge = {}
    /\ todo = [t \in Threads |-> <<>>]
    /\ conn = [t \in Threads |-> None]
    /\ stranded = FALSE
    /\ told = [c \in Ids |-> 0]
    /\ fate = [c \in Ids |-> {}]

Step(t) ==
    \/ Accept(t) \/ AcceptFails(t) \/ Register(t) \/ RegisterFails(t) \/ Insert(t) \/ OnConnect(t)
    \/ Read(t) \/ OnData(t)
    \/ RemoveFromMap(t) \/ Lower(t) \/ Deregister(t) \/ Tell(t)

Next ==
    \/ PeerConnects
    \/ \E c \in Ids : PeerSends(c) \/ PeerEnds(c) \/ \E u \in Users : Close(u, c)
    \/ \E w \in Workers : ListenerEvent(w) \/ EventLost(w) \/ \E c \in Ids : ConnectionEvent(w, c)
    \/ \E t \in Threads : Step(t)

Spec == Init /\ [][Next]_vars

\* Workers are scheduled and functions return; an event is not passed over for
\* ever, as the event loop hands each to a worker that takes them in order.
\* Nobody has to connect, send, end or close.
FairSpec ==
    /\ Spec
    /\ SF_vars(\E w \in Workers : ListenerEvent(w))
    /\ \A c \in Ids : SF_vars(\E w \in Workers : ConnectionEvent(w, c))
    /\ \A t \in Threads : WF_vars(Step(t))

--------------------------------------------------------------------------------
(***************************************************************************)
(* Properties.                                                             *)
(***************************************************************************)
\* The types of the server's variables.
TypeOK ==
    /\ waiting \in 0 .. MaxWaiting
    /\ listener_edge \in BOOLEAN
    /\ next_conn_id \in 1 .. MaxIds + 1
    /\ connection_counter \in 0 .. CounterModulus - 1
    /\ connections \in SUBSET Ids
    /\ registered \in SUBSET Ids
    /\ unread \in [Ids -> 0 .. MaxUnread]
    /\ ended \in SUBSET Ids
    /\ edge \in SUBSET Ids
    /\ todo \in [Threads -> Seq({"accept", "register", "insert", "connect", "read", "data",
                                 "remove", "lower", "deregister", "tell", "dead"})]
    /\ conn \in [Threads -> Ids \cup {None}]
    /\ stranded \in BOOLEAN
    /\ told \in [Ids -> Nat]
    /\ fate \in [Ids -> SUBSET {"dropped", "closed", "refused"}]

Has(t, step) == step \in ToSet(todo[t])

Open == connections \cup {conn[t] : t \in {u \in Threads : Has(u, "insert")}}

\* Threads that will lower the counter for a connection that has left the map.
Owing ==
    {t \in Threads : /\ Has(t, "lower")
                     /\ conn[t] \notin connections
                     /\ ~Has(t, "remove") \/ HasListener(t)}

\* close_connection does not lower the counter (l.235), unless on_connect fails;
\* it is lowered twice when a connection ends while on_connect fails (l.413, 509).
Leaked == {c \in Ids : "closed" \in fate[c] /\ "refused" \notin fate[c]}
LoweredTwice == {c \in Ids : {"dropped", "refused"} \subseteq fate[c]}

\* connection_counter is the number of connections, but for those two slips,
\* whatever the order in which connections are accepted, refused, dropped and
\* closed (l.308-339, 373, 385, 413, 509).
CountAccounted ==
    connection_counter = (Cardinality(Open) + Cardinality(Owing) + Cardinality(Leaked)
                            - Cardinality(LoweredTwice)) % CounterModulus

\* There are never more connections than max_connections, but for those whose
\* place was given back twice (l.309-336).
LimitHolds ==
    MaxConnections # None =>
        Cardinality(Open) <= MaxConnections + Cardinality(LoweredTwice)

\* on_disconnect is called at most once for a connection, by whoever took it
\* out of the map, and it never comes back (l.235, 508).
ClosedOnce == \A c \in Ids : told[c] <= 1 /\ (told[c] = 1 => c \notin connections)

\* A connection in the map has its handler in the event loop; one that has left
\* the map loses it (l.377-394, 411, 512).
MapMatchesRegistry ==
    /\ connections \subseteq registered
    /\ registered \subseteq Open \cup {conn[t] : t \in {u \in Threads : Has(u, "deregister")}}

\* A peer that waits will be seen: its arrival is still to be reported, or some
\* worker is in the accept loop and comes back to the listener, unless since the
\* last arrival accept() failed, on_connect panicked or the event went to a dead
\* worker.  A peer turned away, a failed registration and an on_connect that
\* returns an error do not end the loop (l.303-426).
WaitingNoticed == waiting > 0 => listener_edge \/ stranded \/ \E w \in Workers : Has(w, "accept")

--------------------------------------------------------------------------------
\* What the module's description says (l.29-32): a readable event is read, and
\* at the end of the stream the connection is disconnected.
EndedConnectionsLeave ==
    \A c \in Ids : (c \in ended /\ c \in connections) ~> c \notin connections
================================================================================
