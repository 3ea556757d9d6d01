------------------------------ MODULE TcpServerProofs ----------------------------
(***************************************************************************)
(* Proofs about TcpServer: its type invariant, that on_disconnect is       *)
(* called once, that the map and the event loop agree about who has a      *)
(* connection, that no peer is left waiting, that connection_counter       *)
(* counts the connections but for its two recorded slips, and that the     *)
(* limit on connections holds, for any number of workers, users and        *)
(* connections, with or without a limit.                                   *)
(***************************************************************************)
EXTENDS TcpServer, FiniteSetTheorems, TLAPS

--------------------------------------------------------------------------------
(***************************************************************************)
(* What a thread can have before it: a function of the model, or the rest  *)
(* of one.                                                                 *)
(***************************************************************************)
Accepted3 == <<"insert", "connect", "accept">>
Accepted2 == <<"connect", "accept">>
Accepted1 == <<"accept">>
Refused3 == <<"deregister", "lower", "accept">>
Refused2 == <<"lower", "accept">>
Reading == <<"read">>
Receiving == <<"data">>
Disconnect3 == <<"lower", "deregister", "tell">>
Closing2 == <<"deregister", "tell">>
Closing1 == <<"tell">>
Dead == <<"dead">>

Programs ==
    {<<>>, Accepted, Accepted3, Accepted2, Accepted1, Refused, Refused3, Refused2, Reading, Receiving,
     Disconnect, Disconnect3, CloseConnection, Closing2, Closing1, Dead}
UserPrograms == {<<>>, CloseConnection, Closing2, Closing1}

\* Programs of a thread that will put a connection in the map, that has the
\* listener, that is in the accept loop, that has taken a connection out of the
\* map and will deregister it, and that will tell of it.
Inserting == {Accepted, Accepted3}
Listening == {Accepted, Accepted3, Accepted2, Refused, Refused3, Refused2}
InLoop == Listening \cup {Accepted1}
Removed == {Refused3, Disconnect3, Closing2}
Telling == {Disconnect3, Closing2, Closing1}

\* The next step of each program.
LEMMA Heads ==
    /\ Head(Accepted) = "register" /\ Head(Accepted3) = "insert" /\ Head(Accepted2) = "connect"
    /\ Head(Accepted1) = "accept" /\ Head(Reading) = "read" /\ Head(Receiving) = "data"
    /\ Head(Refused) = "remove" /\ Head(Refused3) = "deregister" /\ Head(Refused2) = "lower"
    /\ Head(Disconnect) = "remove" /\ Head(Disconnect3) = "lower"
    /\ Head(CloseConnection) = "remove" /\ Head(Closing2) = "deregister" /\ Head(Closing1) = "tell"
    /\ Head(Dead) = "dead"
BY DEF Accepted, Accepted3, Accepted2, Accepted1, Refused, Refused3, Refused2, Reading, Receiving,
       Disconnect, Disconnect3, CloseConnection, Closing2, Closing1, Dead

\* What is left of each when it is done.
LEMMA Tails ==
    /\ Tail(Accepted) = Accepted3 /\ Tail(Accepted3) = Accepted2 /\ Tail(Accepted2) = Accepted1
    /\ Tail(Accepted1) = <<>> /\ Tail(Receiving) = <<>>
    /\ Tail(Refused) = Refused3 /\ Tail(Refused3) = Refused2 /\ Tail(Refused2) = Accepted1
    /\ Tail(Disconnect) = Disconnect3 /\ Tail(Disconnect3) = Closing2
    /\ Tail(CloseConnection) = Closing2 /\ Tail(Closing2) = Closing1 /\ Tail(Closing1) = <<>>
BY DEF Accepted, Accepted3, Accepted2, Accepted1, Refused, Refused3, Refused2, Reading, Receiving,
       Disconnect, Disconnect3, CloseConnection, Closing2, Closing1, Dead

\* Programs that start alike differ, and none is over before it starts.
LEMMA Apart ==
    /\ Refused # Disconnect /\ Refused # CloseConnection /\ Disconnect # CloseConnection
    /\ Refused3 # Closing2 /\ Refused2 # Disconnect3
    /\ \A p \in Programs \ {<<>>} : p # <<>>
    /\ <<>> \notin {Accepted, Accepted3, Accepted2, Accepted1, Refused, Refused3, Refused2, Reading,
                    Receiving, Disconnect, Disconnect3, CloseConnection, Closing2, Closing1, Dead}
BY DEF Accepted, Accepted3, Accepted2, Accepted1, Refused, Refused3, Refused2, Reading, Receiving,
       Disconnect, Disconnect3, CloseConnection, Closing2, Closing1, Dead

\* Who has the listener.
LEMMA Listeners == \A t \in Threads : todo[t] \in Listening => HasListener(t)
<1>1. /\ Len(Accepted) = 4 /\ Accepted[4] = "accept" /\ Len(Refused) = 4 /\ Refused[4] = "accept"
      /\ Len(Accepted3) = 3 /\ Accepted3[3] = "accept" /\ Len(Refused3) = 3 /\ Refused3[3] = "accept"
      /\ Len(Accepted2) = 2 /\ Accepted2[2] = "accept" /\ Len(Refused2) = 2 /\ Refused2[2] = "accept"
  BY DEF Accepted, Accepted3, Accepted2, Refused, Refused3, Refused2
<1>2. /\ Last(Accepted) = "accept" /\ Last(Accepted3) = "accept" /\ Last(Accepted2) = "accept"
      /\ Last(Refused) = "accept" /\ Last(Refused3) = "accept" /\ Last(Refused2) = "accept"
  BY <1>1 DEF Last
<1>3. 4 > 1 /\ 3 > 1 /\ 2 > 1
  OBVIOUS
<1>. QED  BY <1>1, <1>2, <1>3, Zenon DEF HasListener, Listening

\* Which steps are among the rest of a program.
LEMMA Rests ==
    /\ \A p \in InLoop : "accept" \in ToSet(p)
    /\ \A p \in Inserting : "insert" \in ToSet(p)
    /\ \A p \in Removed : "deregister" \in ToSet(p)
    /\ "accept" \notin ToSet(Disconnect) /\ "accept" \notin ToSet(CloseConnection)
BY DEF ToSet, InLoop, Listening, Inserting, Removed, Accepted, Accepted3, Accepted2, Accepted1, Refused, Refused3, Refused2, Reading, Receiving,
       Disconnect, Disconnect3, CloseConnection, Closing2, Closing1, Dead

\* A remainder is less than what it was divided by.
LEMMA Modulus == \A x \in Nat, n \in Nat \ {0} : x % n \in 0 .. n - 1
OBVIOUS

--------------------------------------------------------------------------------
(***************************************************************************)
(* The inductive invariant.                                                *)
(***************************************************************************)
Types ==
    /\ waiting \in 0 .. MaxWaiting
    /\ listener_edge \in BOOLEAN
    /\ next_conn_id \in 1 .. MaxIds + 1
    /\ waiting + next_conn_id <= MaxIds + 1
    /\ connection_counter \in 0 .. CounterModulus - 1
    /\ connections \subseteq Ids
    /\ registered \subseteq Ids
    /\ unread \in [Ids -> 0 .. MaxUnread]
    /\ ended \subseteq Ids
    /\ edge \subseteq Ids
    /\ conn \in [Threads -> Ids \cup {None}]
    /\ stranded \in BOOLEAN
    /\ told \in [Ids -> Nat]
    /\ fate \in [Ids -> SUBSET {"dropped", "closed", "refused"}]

AtWork ==
    /\ todo \in [Threads -> Programs]
    /\ \A u \in Users : todo[u] \in UserPrograms
    /\ \A w \in Workers : todo[w] # CloseConnection
    /\ \A t \in Threads : todo[t] \notin {<<>>, Accepted1, Dead} => conn[t] \in Issued

\* One worker has the listener.
OneListens == \A t, u \in Threads : todo[t] \in Listening /\ todo[u] \in Listening => t = u

\* Nothing is known of a connection that was not accepted, and of one that was
\* just accepted only what its worker has done.
Unknown == \A c \in Ids \ Issued : c \notin connections /\ c \notin registered /\ told[c] = 0
Fresh ==
    \A t \in Threads : todo[t] \in Inserting =>
        /\ conn[t] \notin connections /\ told[conn[t]] = 0
        /\ conn[t] \in registered <=> todo[t] = Accepted3

\* A connection that has left the map stays out of it, and one thread tells of it.
Left ==
    \A t \in Threads : todo[t] \in Removed \cup Telling =>
        /\ conn[t] \notin connections
        /\ \A u \in Threads : todo[u] \in Inserting => conn[u] # conn[t]
ToldOnce ==
    /\ \A t \in Threads : todo[t] \in Telling => told[conn[t]] = 0
    /\ \A t, u \in Threads :
          todo[t] \in Telling /\ todo[u] \in Telling /\ conn[t] = conn[u] => t = u

\* The event loop has the connections of the map, the one that is about to go
\* there, and those that have left it and are about to be deregistered.
Handled ==
    /\ connections \subseteq registered
    /\ \A c \in registered :
          \/ c \in connections
          \/ \E t \in Threads : todo[t] \in Removed \cup {Accepted3} /\ conn[t] = c

Noticing == waiting > 0 => listener_edge \/ stranded \/ \E w \in Workers : todo[w] \in InLoop

IInv ==
    /\ Types
    /\ AtWork
    /\ OneListens
    /\ Unknown
    /\ Fresh
    /\ Left
    /\ ToldOnce
    /\ Handled
    /\ Noticing
    /\ ClosedOnce

\* Nobody has connected yet.
LEMMA InitIInv == Init => IInv
<1> SUFFICES ASSUME Init PROVE IInv
  OBVIOUS
<1> USE ServerAssumption DEF Init
<1>1. Types
  <2>1. \A c \in Ids : unread[c] \in 0 .. MaxUnread /\ told[c] \in Nat
    OBVIOUS
  <2>2. 1 <= MaxIds + 1 /\ CounterModulus > 0
    OBVIOUS
  <2>3. /\ unread \in [Ids -> 0 .. MaxUnread] /\ told \in [Ids -> Nat]
        /\ conn \in [Threads -> Ids \cup {None}]
        /\ fate \in [Ids -> SUBSET {"dropped", "closed", "refused"}]
    BY <2>1
  <2>4. /\ waiting \in 0 .. MaxWaiting /\ next_conn_id \in 1 .. MaxIds + 1
        /\ waiting + next_conn_id <= MaxIds + 1
        /\ connection_counter \in 0 .. CounterModulus - 1
    BY <2>2
  <2>. QED  BY <2>3, <2>4 DEF Types
<1>2. AtWork
  BY DEF AtWork, Programs, UserPrograms, Threads, CloseConnection
<1>3. \A t \in Threads : todo[t] \notin Listening /\ todo[t] \notin Inserting
                        /\ todo[t] \notin Removed /\ todo[t] \notin Telling
  BY Apart DEF Listening, Inserting, Removed, Telling
<1>4. OneListens /\ Unknown /\ Fresh /\ Left /\ ToldOnce /\ Handled /\ Noticing /\ ClosedOnce
  BY <1>3 DEF OneListens, Unknown, Fresh, Left, ToldOnce, Handled, Noticing, ClosedOnce
<1>. QED  BY <1>1, <1>2, <1>4 DEF IInv

\* The program of a thread that comes to a step.
LEMMA ProgramAt ==
    ASSUME AtWork, NEW t \in Threads
    PROVE  /\ At(t, "register") => todo[t] = Accepted
           /\ At(t, "insert") => todo[t] = Accepted3
           /\ At(t, "connect") => todo[t] = Accepted2
           /\ At(t, "read") => todo[t] = Reading
           /\ At(t, "data") => todo[t] = Receiving
           /\ At(t, "remove") => todo[t] \in {Refused, Disconnect, CloseConnection}
           /\ At(t, "lower") => todo[t] \in {Refused2, Disconnect3}
           /\ At(t, "deregister") => todo[t] \in {Refused3, Closing2}
           /\ At(t, "tell") => todo[t] = Closing1
BY Heads DEF AtWork, Programs, At, Idle

\* A thread is at a connection that was accepted.
LEMMA ConnAt ==
    ASSUME Types, AtWork, NEW t \in Threads, todo[t] # <<>>, todo[t] # Accepted1, todo[t] # Dead
    PROVE  conn[t] \in Ids /\ conn[t] \in Issued
BY ServerAssumption DEF Types, AtWork, Issued, Ids

\* A program goes on to another: it keeps what it owes and gains nothing.
Follows(p, q) ==
    /\ p \notin {<<>>, Accepted1, Dead} /\ q \in Programs \ {CloseConnection}
    /\ p \in UserPrograms => q \in UserPrograms
    /\ q \notin Inserting
    /\ q \in Listening => p \in Listening
    /\ q \in Removed \cup Telling => p \in Removed \cup Telling
    /\ q \in Telling => p \in Telling
    /\ p \in Removed \cup {Accepted3} => q \in Removed

\* The programs that go on so: what register(), on_connect, a read, on_data,
\* remove() and fetch_sub leave to do.
LEMMA Moves ==
    /\ Follows(Accepted, Accepted1) /\ Follows(Accepted2, Accepted1) /\ Follows(Accepted2, Refused)
    /\ Follows(Reading, <<>>) /\ Follows(Reading, Receiving) /\ Follows(Reading, Disconnect)
    /\ Follows(Receiving, <<>>) /\ Follows(Receiving, Disconnect)
    /\ Follows(Refused, Refused2) /\ Follows(Disconnect, <<>>) /\ Follows(CloseConnection, <<>>)
    /\ Follows(Refused2, Accepted1) /\ Follows(Disconnect3, Closing2)
    /\ Follows(Accepted2, Dead) /\ Follows(Receiving, Dead)
BY Heads, Apart DEF Follows, Programs, UserPrograms, Inserting, Listening, InLoop, Removed, Telling

\* The ones in the accept loop.
LEMMA Loops ==
    /\ {Accepted, Accepted2, Accepted1, Refused, Refused2} \subseteq InLoop
    /\ {Reading, Receiving, Disconnect, Disconnect3, CloseConnection} \cap InLoop = {}
BY Heads, Apart DEF InLoop, Listening

\* A thread that goes on so, and changes nothing but counters, sockets and
\* history, keeps the invariant, if it stays in the accept loop or is recorded
\* to have left it.
LEMMA GoesOn ==
    ASSUME IInv, NEW t \in Threads, NEW q, Follows(todo[t], q),
           stranded' \/ (stranded' = stranded /\ (todo[t] \in InLoop => q \in InLoop)),
           todo' = [todo EXCEPT ![t] = q],
           UNCHANGED <<waiting, listener_edge, next_conn_id, connections, registered, conn, told>>,
           Types'
    PROVE  IInv'
<1> USE DEF IInv, Follows
<1>0. todo'[t] = q /\ \A u \in Threads \ {t} : todo'[u] = todo[u]
  BY DEF AtWork
<1>1. AtWork'
  BY <1>0, Heads, Apart DEF AtWork, Threads, Issued
<1>2. OneListens' /\ Unknown'
  BY <1>0 DEF OneListens, Unknown, Issued
<1>3. Fresh'
  <2>1. \A u \in Threads : todo'[u] \in Inserting => u # t /\ todo[u] \in Inserting
    BY <1>0
  <2>. QED  BY <1>0, <2>1 DEF Fresh
<1>4. Left' /\ ToldOnce'
  <2>1. \A u \in Threads : /\ todo'[u] \in Inserting => todo[u] \in Inserting
                           /\ todo'[u] \in Telling => todo[u] \in Telling
                           /\ todo'[u] \in Removed \cup Telling => todo[u] \in Removed \cup Telling
    BY <1>0
  <2>. QED  BY <2>1 DEF Left, ToldOnce
<1>5. Handled'
  <2>1. \A u \in Threads : todo[u] \in Removed \cup {Accepted3} => todo'[u] \in Removed \cup {Accepted3}
    BY <1>0
  <2>. QED  BY <2>1 DEF Handled
<1>6. Noticing'
  <2>1. stranded' \/ \A u \in Workers : todo[u] \in InLoop => todo'[u] \in InLoop
    BY <1>0 DEF Threads
  <2>. QED  BY <2>1 DEF Noticing
<1>7. ClosedOnce'
  BY DEF ClosedOnce
<1>. QED  BY <1>1, <1>2, <1>3, <1>4, <1>5, <1>6, <1>7

\* A peer waits, and the listener has an event.
LEMMA PeerConnectsStep ==
    ASSUME IInv, PeerConnects
    PROVE  IInv'
<1> USE ServerAssumption DEF IInv
<1>0. /\ listener_edge' = TRUE /\ stranded' = FALSE
      /\ UNCHANGED <<next_conn_id, connections, registered, todo, conn, told>>
  BY DEF PeerConnects, mapVars, threadVars, history
<1>1. Types'
  <2>1. /\ waiting' = waiting + 1 /\ waiting < MaxWaiting /\ waiting + next_conn_id <= MaxIds
        /\ UNCHANGED <<connection_counter, unread, ended, edge, fate>>
    BY DEF PeerConnects, mapVars, socketVars, threadVars
  <2>2. waiting' \in 0 .. MaxWaiting /\ waiting' + next_conn_id <= MaxIds + 1
    BY <2>1 DEF Types
  <2>. QED  BY <1>0, <2>1, <2>2 DEF Types
<1>2. AtWork'
  BY <1>0, Heads, Apart DEF AtWork, Programs, UserPrograms, Threads, Issued, Types, AtWork
<1>3. OneListens'
  BY <1>0, Heads, Apart DEF OneListens, Listening, Types, AtWork
<1>4. Unknown'
  BY <1>0, Heads, Apart DEF Unknown, Issued, Types, AtWork
<1>5. Fresh'
  BY <1>0, Heads, Apart DEF Fresh, Inserting, Types, AtWork
<1>6. Left'
  BY <1>0, Heads, Apart DEF Left, Removed, Telling, Inserting, Types, AtWork
<1>7. ToldOnce'
  BY <1>0, Heads, Apart DEF ToldOnce, Telling, Types, AtWork
<1>8. Handled'
  BY <1>0, Heads, Apart DEF Handled, Removed, Types, AtWork
<1>9. Noticing'
  BY <1>0, Heads, Apart DEF Noticing, InLoop, Listening, Types, AtWork
<1>10. ClosedOnce'
  BY <1>0, Heads, Apart DEF ClosedOnce, Types, AtWork
<1>. QED  BY <1>1, <1>2, <1>3, <1>4, <1>5, <1>6, <1>7, <1>8, <1>9, <1>10

\* What a peer does at its socket.
LEMMA PeerStep ==
    ASSUME IInv, NEW c \in Ids, PeerSends(c) \/ PeerEnds(c)
    PROVE  IInv'
<1> USE ServerAssumption DEF IInv
<1>0. /\ UNCHANGED <<stranded, waiting, listener_edge, next_conn_id, connections, registered, todo, conn, told>>
  BY DEF PeerSends, PeerEnds, acceptVars, mapVars, threadVars, history
<1>1. Types'
  <2>1. UNCHANGED <<connection_counter, fate>> /\ edge' \subseteq edge \cup {c} /\ ended' \subseteq ended \cup {c}
    BY DEF PeerSends, PeerEnds, Noticed, mapVars, history
  <2>2. unread' \in [Ids -> 0 .. MaxUnread]
    BY DEF PeerSends, PeerEnds, Types
  <2>. QED  BY <1>0, <2>1, <2>2 DEF Types
<1>2. AtWork'
  BY <1>0, Heads, Apart DEF AtWork, Programs, UserPrograms, Threads, Issued, Types, AtWork
<1>3. OneListens'
  BY <1>0, Heads, Apart DEF OneListens, Listening, Types, AtWork
<1>4. Unknown'
  BY <1>0, Heads, Apart DEF Unknown, Issued, Types, AtWork
<1>5. Fresh'
  BY <1>0, Heads, Apart DEF Fresh, Inserting, Types, AtWork
<1>6. Left'
  BY <1>0, Heads, Apart DEF Left, Removed, Telling, Inserting, Types, AtWork
<1>7. ToldOnce'
  BY <1>0, Heads, Apart DEF ToldOnce, Telling, Types, AtWork
<1>8. Handled'
  BY <1>0, Heads, Apart DEF Handled, Removed, Types, AtWork
<1>9. Noticing'
  BY <1>0, Heads, Apart DEF Noticing, InLoop, Listening, Types, AtWork
<1>10. ClosedOnce'
  BY <1>0, Heads, Apart DEF ClosedOnce, Types, AtWork
<1>. QED  BY <1>1, <1>2, <1>3, <1>4, <1>5, <1>6, <1>7, <1>8, <1>9, <1>10

\* A user goes to close a connection.
LEMMA CloseStep ==
    ASSUME IInv, NEW u \in Users, NEW c \in Ids, Close(u, c)
    PROVE  IInv'
<1> USE ServerAssumption DEF IInv
<1>0. /\ u \in Threads /\ todo[u] = <<>> /\ c \in Issued
      /\ todo' = [todo EXCEPT ![u] = CloseConnection]
      /\ conn' = [conn EXCEPT ![u] = c]
      /\ UNCHANGED <<stranded, waiting, listener_edge, next_conn_id, connections, registered, told>>
  BY DEF Close, Idle, Become, acceptVars, mapVars, history, Threads
<1>1. Types'
  BY DEF Close, Idle, Become, acceptVars, mapVars, socketVars, history, Types, AtWork, Ids
<1>2. AtWork'
  BY <1>0, Heads, Apart DEF AtWork, Programs, UserPrograms, Threads, Issued, Types, AtWork
<1>3. OneListens'
  BY <1>0, Heads, Apart DEF OneListens, Listening, Types, AtWork
<1>4. Unknown'
  BY <1>0, Heads, Apart DEF Unknown, Issued, Types, AtWork
<1>5. Fresh'
  BY <1>0, Heads, Apart DEF Fresh, Inserting, Types, AtWork
<1>6. Left'
  BY <1>0, Heads, Apart DEF Left, Removed, Telling, Inserting, Types, AtWork
<1>7. ToldOnce'
  BY <1>0, Heads, Apart DEF ToldOnce, Telling, Types, AtWork
<1>8. Handled'
  BY <1>0, Heads, Apart DEF Handled, Removed, Types, AtWork
<1>9. Noticing'
  BY <1>0, Heads, Apart DEF Noticing, InLoop, Listening, Types, AtWork
<1>10. ClosedOnce'
  BY <1>0, Heads, Apart DEF ClosedOnce, Types, AtWork
<1>. QED  BY <1>1, <1>2, <1>3, <1>4, <1>5, <1>6, <1>7, <1>8, <1>9, <1>10

\* A worker goes into the accept loop.
LEMMA ListenerEventStep ==
    ASSUME IInv, NEW w \in Workers, ListenerEvent(w)
    PROVE  IInv'
<1> USE ServerAssumption DEF IInv
<1>0. /\ w \in Threads /\ todo[w] = <<>>
      /\ listener_edge' = FALSE
      /\ todo' = [todo EXCEPT ![w] = Accepted1]
      /\ UNCHANGED <<stranded, waiting, next_conn_id, connections, registered, conn, told>>
  BY DEF ListenerEvent, Idle, Become, mapVars, history, Threads, Accepted1
<1>1. Types'
  BY DEF ListenerEvent, Idle, Become, mapVars, socketVars, history, Types, AtWork, Ids
<1>2. AtWork'
  BY <1>0, Heads, Apart DEF AtWork, Programs, UserPrograms, Threads, Issued, Types, AtWork
<1>3. OneListens'
  BY <1>0, Heads, Apart DEF OneListens, Listening, Types, AtWork
<1>4. Unknown'
  BY <1>0, Heads, Apart DEF Unknown, Issued, Types, AtWork
<1>5. Fresh'
  BY <1>0, Heads, Apart DEF Fresh, Inserting, Types, AtWork
<1>6. Left'
  BY <1>0, Heads, Apart DEF Left, Removed, Telling, Inserting, Types, AtWork
<1>7. ToldOnce'
  BY <1>0, Heads, Apart DEF ToldOnce, Telling, Types, AtWork
<1>8. Handled'
  BY <1>0, Heads, Apart DEF Handled, Removed, Types, AtWork
<1>9. Noticing'
  BY <1>0, Heads, Apart DEF Noticing, InLoop, Listening, Types, AtWork
<1>10. ClosedOnce'
  BY <1>0, Heads, Apart DEF ClosedOnce, Types, AtWork
<1>. QED  BY <1>1, <1>2, <1>3, <1>4, <1>5, <1>6, <1>7, <1>8, <1>9, <1>10

\* A worker goes to read.
LEMMA ConnectionEventStep ==
    ASSUME IInv, NEW w \in Workers, NEW c \in Ids, ConnectionEvent(w, c)
    PROVE  IInv'
<1> USE ServerAssumption DEF IInv
<1>0. /\ w \in Threads /\ todo[w] = <<>> /\ c \in Issued
      /\ todo' = [todo EXCEPT ![w] = Reading]
      /\ conn' = [conn EXCEPT ![w] = c]
      /\ UNCHANGED <<stranded, waiting, listener_edge, next_conn_id, connections, registered, told>>
  BY DEF ConnectionEvent, Idle, Become, acceptVars, mapVars, history, Threads, Reading, Unknown
<1>1. Types'
  BY DEF ConnectionEvent, Idle, Become, acceptVars, mapVars, history, Types, AtWork, Ids
<1>2. AtWork'
  BY <1>0, Heads, Apart DEF AtWork, Programs, UserPrograms, Threads, Issued, Types, AtWork
<1>3. OneListens'
  BY <1>0, Heads, Apart DEF OneListens, Listening, Types, AtWork
<1>4. Unknown'
  BY <1>0, Heads, Apart DEF Unknown, Issued, Types, AtWork
<1>5. Fresh'
  BY <1>0, Heads, Apart DEF Fresh, Inserting, Types, AtWork
<1>6. Left'
  BY <1>0, Heads, Apart DEF Left, Removed, Telling, Inserting, Types, AtWork
<1>7. ToldOnce'
  BY <1>0, Heads, Apart DEF ToldOnce, Telling, Types, AtWork
<1>8. Handled'
  BY <1>0, Heads, Apart DEF Handled, Removed, Types, AtWork
<1>9. Noticing'
  BY <1>0, Heads, Apart DEF Noticing, InLoop, Listening, Types, AtWork
<1>10. ClosedOnce'
  BY <1>0, Heads, Apart DEF ClosedOnce, Types, AtWork
<1>. QED  BY <1>1, <1>2, <1>3, <1>4, <1>5, <1>6, <1>7, <1>8, <1>9, <1>10

\* The event loop has the accepted connection.
LEMMA RegisterStep ==
    ASSUME IInv, NEW w \in Threads, Register(w)
    PROVE  IInv'
<1> USE ServerAssumption DEF IInv
<1>0. /\ conn[w] \in Ids /\ conn[w] \in Issued
      /\ todo[w] = Accepted
      /\ todo' = [todo EXCEPT ![w] = Accepted3]
      /\ registered' = registered \cup {conn[w]}
      /\ UNCHANGED <<stranded, waiting, listener_edge, next_conn_id, connections, conn, told>>
  <2>1. todo[w] = Accepted
    BY ProgramAt DEF Register
  <2>2. conn[w] \in Ids /\ conn[w] \in Issued
    BY <2>1, ConnAt, Heads, Apart
  <2>. QED  BY <2>1, <2>2, Tails DEF Register, GoOn, acceptVars, history
<1>1. Types'
  BY <1>0 DEF Register, acceptVars, history, Types
<1>2. AtWork'
  BY <1>0, Heads, Apart DEF AtWork, Programs, UserPrograms, Threads, Issued, Types, AtWork
<1>3. OneListens'
  BY <1>0, Heads, Apart DEF OneListens, Listening, Types, AtWork
<1>4. Unknown'
  BY <1>0, Heads, Apart DEF Unknown, Issued, Types, AtWork
<1>5. Fresh'
  <2>1. \A t \in Threads \ {w} : todo[t] \notin Inserting
    BY <1>0 DEF OneListens, Listening, Inserting
  <2>. QED  BY <1>0, <2>1, Heads DEF Fresh, Inserting, AtWork
<1>6. Left'
  BY <1>0, Heads, Apart DEF Left, Removed, Telling, Inserting, Types, AtWork
<1>7. ToldOnce'
  BY <1>0, Heads, Apart DEF ToldOnce, Telling, Types, AtWork
<1>8. Handled'
  BY <1>0, Heads, Apart DEF Handled, Removed, Types, AtWork
<1>9. Noticing'
  BY <1>0, Heads, Apart DEF Noticing, InLoop, Listening, Types, AtWork
<1>10. ClosedOnce'
  BY <1>0, Heads, Apart DEF ClosedOnce, Types, AtWork
<1>. QED  BY <1>1, <1>2, <1>3, <1>4, <1>5, <1>6, <1>7, <1>8, <1>9, <1>10

\* The connection is in the map.
LEMMA InsertStep ==
    ASSUME IInv, NEW w \in Threads, Insert(w)
    PROVE  IInv'
<1> USE ServerAssumption DEF IInv
<1>0. /\ conn[w] \in Ids /\ conn[w] \in Issued
      /\ conn[w] \in registered /\ told[conn[w]] = 0
      /\ todo[w] = Accepted3
      /\ todo' = [todo EXCEPT ![w] = Accepted2]
      /\ connections' = connections \cup {conn[w]}
      /\ UNCHANGED <<stranded, waiting, listener_edge, next_conn_id, registered, conn, told>>
  <2>1. todo[w] = Accepted3
    BY ProgramAt DEF Insert
  <2>2. conn[w] \in Ids /\ conn[w] \in Issued
    BY <2>1, ConnAt, Heads, Apart
  <2>3. conn[w] \in registered /\ told[conn[w]] = 0
    BY <2>1 DEF Fresh, Inserting
  <2>. QED  BY <2>1, <2>2, <2>3, Tails DEF Insert, GoOn, acceptVars, history
<1>1. Types'
  BY <1>0 DEF Insert, acceptVars, socketVars, history, Types
<1>2. AtWork'
  BY <1>0, Heads, Apart DEF AtWork, Programs, UserPrograms, Threads, Issued, Types, AtWork
<1>3. OneListens'
  BY <1>0, Heads, Apart DEF OneListens, Listening, Types, AtWork
<1>4. Unknown'
  BY <1>0, Heads, Apart DEF Unknown, Issued, Types, AtWork
<1>5. Fresh'
  <2>1. \A t \in Threads \ {w} : todo[t] \notin Inserting
    BY <1>0 DEF OneListens, Listening, Inserting
  <2>. QED  BY <1>0, <2>1, Heads DEF Fresh, Inserting, AtWork
<1>6. Left'
  <2>1. \A t \in Threads : todo[t] \in Removed \cup Telling => conn[t] # conn[w]
    BY <1>0 DEF Left, Inserting
  <2>. QED  BY <1>0, <2>1, Heads DEF Left, Removed, Telling, Inserting, AtWork
<1>7. ToldOnce'
  BY <1>0, Heads, Apart DEF ToldOnce, Telling, Types, AtWork
<1>8. Handled'
  BY <1>0, Heads, Apart DEF Handled, Removed, Types, AtWork
<1>9. Noticing'
  BY <1>0, Heads, Apart DEF Noticing, InLoop, Listening, Types, AtWork
<1>10. ClosedOnce'
  BY <1>0, Heads, Apart DEF ClosedOnce, Types, AtWork
<1>. QED  BY <1>1, <1>2, <1>3, <1>4, <1>5, <1>6, <1>7, <1>8, <1>9, <1>10

\* A thread takes the connection out of the map.
LEMMA RemovedStep ==
    ASSUME IInv, NEW t \in Threads, RemoveFromMap(t), conn[t] \in connections
    PROVE  IInv'
<1> USE ServerAssumption DEF IInv
<1>0. /\ conn[t] \in Ids /\ conn[t] \in Issued /\ told[conn[t]] = 0
      /\ \/ todo[t] = Refused /\ todo' = [todo EXCEPT ![t] = Refused3]
         \/ todo[t] = Disconnect /\ todo' = [todo EXCEPT ![t] = Disconnect3]
         \/ todo[t] = CloseConnection /\ todo' = [todo EXCEPT ![t] = Closing2]
      /\ connections' = connections \ {conn[t]}
      /\ UNCHANGED <<stranded, waiting, listener_edge, next_conn_id, registered, conn, told>>
  <2>1. todo[t] \in {Refused, Disconnect, CloseConnection}
    BY ProgramAt DEF RemoveFromMap
  <2>2. conn[t] \in Ids /\ conn[t] \in Issued
    BY <2>1, ConnAt, Heads, Apart
  <2>3. told[conn[t]] = 0
    BY <2>2 DEF ClosedOnce, Types
  <2>. QED  BY <2>1, <2>2, <2>3, Tails DEF RemoveFromMap, GoOn, acceptVars
<1>1. Types'
  <2>1. UNCHANGED <<connection_counter, unread, ended, edge>>
    BY DEF RemoveFromMap, socketVars
  <2>2. fate' \in [Ids -> SUBSET {"dropped", "closed", "refused"}]
    BY DEF RemoveFromMap, Types
  <2>. QED  BY <1>0, <2>1, <2>2 DEF Types
<1>2. AtWork'
  BY <1>0, Heads, Apart DEF AtWork, Programs, UserPrograms, Threads, Issued, Types, AtWork
<1>3. OneListens'
  BY <1>0, Heads, Apart DEF OneListens, Listening, Types, AtWork
<1>4. Unknown'
  BY <1>0, Heads, Apart DEF Unknown, Issued, Types, AtWork
<1>5. Fresh'
  BY <1>0, Heads, Apart DEF Fresh, Inserting, Types, AtWork
<1>6. Left'
  <2>1. /\ \A u \in Threads : todo'[u] \in Inserting => todo[u] \in Inserting
        /\ \A u \in Threads \ {t} : todo'[u] = todo[u]
    BY <1>0, Heads DEF Inserting, AtWork
  <2>2. \A u \in Threads : todo[u] \in Inserting => conn[u] # conn[t]
    BY DEF Fresh
  <2>. QED  BY <1>0, <2>1, <2>2 DEF Left
<1>7. ToldOnce'
  <2>1. \A u \in Threads : todo[u] \in Telling => conn[u] # conn[t]
    BY DEF Left
  <2>2. \A u \in Threads \ {t} : todo'[u] = todo[u]
    BY <1>0 DEF AtWork
  <2>. QED  BY <1>0, <2>1, <2>2 DEF ToldOnce
<1>8. Handled'
  BY <1>0, Heads, Apart DEF Handled, Removed, Types, AtWork
<1>9. Noticing'
  <2>1. \A u \in Threads : todo[u] \in InLoop => todo'[u] \in InLoop
    BY <1>0, Heads, Apart DEF InLoop, Listening, AtWork
  <2>2. UNCHANGED <<stranded, waiting, listener_edge>>
    BY <1>0
  <2>. QED  BY <2>1, <2>2 DEF Noticing, Threads
<1>10. ClosedOnce'
  BY <1>0, Heads, Apart DEF ClosedOnce, Types, AtWork
<1>. QED  BY <1>1, <1>2, <1>3, <1>4, <1>5, <1>6, <1>7, <1>8, <1>9, <1>10

\* The event loop lets go of the connection.
LEMMA DeregisterStep ==
    ASSUME IInv, NEW t \in Threads, Deregister(t)
    PROVE  IInv'
<1> USE ServerAssumption DEF IInv
<1>0. /\ conn[t] \in Ids /\ conn[t] \in Issued /\ conn[t] \notin connections
      /\ \A u \in Threads : todo[u] \in Inserting => conn[u] # conn[t]
      /\ \/ todo[t] = Refused3 /\ todo' = [todo EXCEPT ![t] = Refused2]
         \/ todo[t] = Closing2 /\ todo' = [todo EXCEPT ![t] = Closing1]
      /\ registered' = registered \ {conn[t]}
      /\ UNCHANGED <<stranded, waiting, listener_edge, next_conn_id, connections, conn, told>>
  <2>1. todo[t] \in {Refused3, Closing2}
    BY ProgramAt DEF Deregister
  <2>2. conn[t] \in Ids /\ conn[t] \in Issued
    BY <2>1, ConnAt, Heads, Apart
  <2>3. conn[t] \notin connections /\ \A u \in Threads : todo[u] \in Inserting => conn[u] # conn[t]
    BY <2>1 DEF Left, Removed
  <2>. QED  BY <2>1, <2>2, <2>3, Tails DEF Deregister, GoOn, acceptVars, history
<1>1. Types'
  <2>1. UNCHANGED <<connection_counter, unread, fate>> /\ edge' \subseteq edge /\ ended' \subseteq ended \cup {conn[t]}
    BY DEF Deregister, history
  <2>. QED  BY <1>0, <2>1 DEF Types
<1>2. AtWork'
  BY <1>0, Heads, Apart DEF AtWork, Programs, UserPrograms, Threads, Issued, Types, AtWork
<1>3. OneListens'
  BY <1>0, Heads, Apart DEF OneListens, Listening, Types, AtWork
<1>4. Unknown'
  BY <1>0, Heads, Apart DEF Unknown, Issued, Types, AtWork
<1>5. Fresh'
  <2>1. \A u \in Threads : todo'[u] \in Inserting => todo[u] \in Inserting /\ todo'[u] = todo[u]
    BY <1>0, Heads DEF Inserting, AtWork
  <2>. QED  BY <1>0, <2>1 DEF Fresh
<1>6. Left'
  BY <1>0, Heads, Apart DEF Left, Removed, Telling, Inserting, Types, AtWork
<1>7. ToldOnce'
  BY ZenonT(30), <1>0, Heads, Apart DEF ToldOnce, Telling, Types, AtWork
<1>8. Handled'
  <2>1. \A u \in Threads : todo[u] \in Removed \cup {Accepted3} => u = t \/ todo'[u] = todo[u]
    BY <1>0 DEF AtWork
  <2>. QED  BY <1>0, <2>1 DEF Handled
<1>9. Noticing'
  <2>1. \A u \in Threads : todo[u] \in InLoop => todo'[u] \in InLoop
    BY <1>0, Heads, Apart DEF InLoop, Listening, AtWork
  <2>2. UNCHANGED <<stranded, waiting, listener_edge>>
    BY <1>0
  <2>. QED  BY <2>1, <2>2 DEF Noticing, Threads
<1>10. ClosedOnce'
  BY <1>0, Heads, Apart DEF ClosedOnce, Types, AtWork
<1>. QED  BY <1>1, <1>2, <1>3, <1>4, <1>5, <1>6, <1>7, <1>8, <1>9, <1>10

\* on_disconnect is called.
LEMMA TellStep ==
    ASSUME IInv, NEW t \in Threads, Tell(t)
    PROVE  IInv'
<1> USE ServerAssumption DEF IInv
<1>0. /\ conn[t] \in Ids /\ conn[t] \in Issued /\ conn[t] \notin connections /\ told[conn[t]] = 0
      /\ \A u \in Threads : todo[u] \in Inserting => conn[u] # conn[t]
      /\ todo[t] = Closing1
      /\ \/ todo' = [todo EXCEPT ![t] = <<>>]
         \/ t \in Workers /\ todo' = [todo EXCEPT ![t] = Dead]
      /\ told' = [told EXCEPT ![conn[t]] = 1]
      /\ UNCHANGED <<stranded, waiting, listener_edge, next_conn_id, connections, registered, conn>>
  <2>1. todo[t] = Closing1
    BY ProgramAt DEF Tell
  <2>2. conn[t] \in Ids /\ conn[t] \in Issued
    BY <2>1, ConnAt, Heads, Apart
  <2>3. /\ conn[t] \notin connections /\ told[conn[t]] = 0
        /\ \A u \in Threads : todo[u] \in Inserting => conn[u] # conn[t]
    BY <2>1 DEF Left, Telling, ToldOnce
  <2>4. told' = [told EXCEPT ![conn[t]] = 1]
    BY <2>3 DEF Tell
  <2>5. \/ todo' = [todo EXCEPT ![t] = <<>>]
        \/ t \in Workers /\ todo' = [todo EXCEPT ![t] = Dead]
    BY <2>1, Tails DEF Tell, GoOn, Dies, Become, Dead
  <2>6. UNCHANGED <<stranded, waiting, listener_edge, next_conn_id, connections, registered, conn>>
    BY DEF Tell, acceptVars, mapVars
  <2>. QED  BY <2>1, <2>2, <2>3, <2>4, <2>5, <2>6
<1>1. Types'
  <2>1. UNCHANGED <<connection_counter, unread, ended, edge, fate>>
    BY DEF Tell, mapVars, socketVars
  <2>. QED  BY <1>0, <2>1 DEF Types
<1>2. AtWork'
  BY <1>0, Heads, Apart DEF AtWork, Programs, UserPrograms, Threads, Issued, Types, AtWork
<1>3. OneListens'
  BY <1>0, Heads, Apart, ZenonT(90) DEF OneListens, Listening, Types, AtWork
<1>4. Unknown'
  BY <1>0, Heads, Apart DEF Unknown, Issued, Types, AtWork
<1>5. Fresh'
  <2>1. \A u \in Threads : todo'[u] \in Inserting => todo[u] \in Inserting /\ todo'[u] = todo[u]
    BY <1>0, Heads, Apart DEF Inserting, AtWork
  <2>2. \A u \in Threads : todo[u] \in Inserting => told'[conn[u]] = told[conn[u]]
    BY <1>0
  <2>. QED  BY <1>0, <2>1, <2>2 DEF Fresh
<1>6. Left'
  BY <1>0, Heads, Apart DEF Left, Removed, Telling, Inserting, Types, AtWork
<1>7. ToldOnce'
  <2>1. \A u \in Threads : todo'[u] \in Telling => todo[u] \in Telling /\ u # t
    BY <1>0, Heads, Apart DEF Telling, AtWork
  <2>2. \A u \in Threads \ {t} : todo[u] \in Telling => conn[u] # conn[t]
    BY <1>0 DEF ToldOnce, Telling
  <2>. QED  BY <1>0, <2>1, <2>2 DEF ToldOnce
<1>8. Handled'
  <2>1. \A u \in Threads : todo[u] \in Removed \cup {Accepted3} => todo'[u] = todo[u]
    <3>1. Closing1 \notin Removed \cup {Accepted3}
      BY Heads DEF Removed
    <3>2. \A u \in Threads \ {t} : todo'[u] = todo[u]
      BY <1>0 DEF AtWork
    <3>. QED  BY <1>0, <3>1, <3>2
  <2>. QED  BY <1>0, <2>1 DEF Handled
<1>9. Noticing'
  <2>1. todo[t] \notin InLoop /\ \A u \in Threads \ {t} : todo'[u] = todo[u]
    BY <1>0, Heads, Apart DEF InLoop, Listening, AtWork
  <2>2. UNCHANGED <<stranded, waiting, listener_edge>>
    BY <1>0
  <2>. QED  BY <2>1, <2>2 DEF Noticing, Threads
<1>10. ClosedOnce'
  BY <1>0 DEF ClosedOnce, Types
<1>. QED  BY <1>1, <1>2, <1>3, <1>4, <1>5, <1>6, <1>7, <1>8, <1>9, <1>10

\* A worker takes a turn of the accept loop.
LEMMA AcceptStep ==
    ASSUME IInv, NEW w \in Threads, Accept(w)
    PROVE  IInv'
<1> USE ServerAssumption DEF IInv
<1>0. /\ todo[w] = Accepted1 /\ w \in Workers
      /\ \A t \in Threads : todo[t] \notin Listening
      /\ UNCHANGED <<stranded, listener_edge, connections, registered, told>>
  <2>1. todo[w] = Accepted1
    BY DEF Accept, Accepted1
  <2>2. w \in Workers /\ \A u \in Users : todo[u] \notin Listening
    BY <2>1, Heads, Apart DEF AtWork, UserPrograms, Threads, Listening
  <2>3. \A u \in Workers : todo[u] \notin Listening
    BY Listeners DEF Accept, Threads
  <2>. QED  BY <2>1, <2>2, <2>3 DEF Accept, Threads, mapVars, acceptVars, history
<1>1. CASE waiting = 0 /\ todo' = [todo EXCEPT ![w] = <<>>]
           /\ UNCHANGED <<waiting, next_conn_id, connection_counter, conn>>
  <2>1. Types'
    BY <1>0, <1>1 DEF Types, Accept, socketVars, history
  <2>2. AtWork' /\ OneListens' /\ Unknown' /\ ClosedOnce'
    BY <1>0, <1>1, Heads, Apart DEF AtWork, Programs, UserPrograms, Threads, Issued, OneListens,
                                    Listening, Unknown, ClosedOnce
  <2>3. \A t \in Threads : todo'[t] \in Inserting \cup Removed \cup Telling => todo'[t] = todo[t]
    BY <1>0, <1>1, Apart DEF AtWork, Inserting, Removed, Telling
  <2>4. Fresh' /\ Left' /\ ToldOnce'
    BY <1>0, <1>1, <2>3 DEF Fresh, Left, ToldOnce
  <2>5. Handled' /\ Noticing'
    BY <1>0, <1>1, Heads, Apart DEF Handled, Removed, Noticing, AtWork
  <2>. QED  BY <2>1, <2>2, <2>4, <2>5
<1>2. CASE waiting > 0 /\ waiting' = waiting - 1
           /\ UNCHANGED <<next_conn_id, connection_counter, todo, conn>>
  <2>1. Types'
    BY <1>0, <1>2 DEF Types, Accept, socketVars, history
  <2>2. AtWork' /\ OneListens' /\ Unknown' /\ ClosedOnce' /\ Fresh' /\ Left' /\ ToldOnce' /\ Handled'
    BY <1>0, <1>2 DEF AtWork, Issued, OneListens, Unknown, ClosedOnce, Fresh, Left, ToldOnce, Handled
  <2>3. Noticing'
    BY <1>0, <1>2 DEF Noticing, InLoop
  <2>. QED  BY <2>1, <2>2, <2>3
<1>3. CASE /\ waiting > 0 /\ waiting' = waiting - 1
           /\ connection_counter' = Raised
           /\ next_conn_id' = next_conn_id + 1
           /\ conn' = [conn EXCEPT ![w] = next_conn_id]
           /\ todo' = [todo EXCEPT ![w] = Accepted]
  <2>1. /\ next_conn_id \in Ids \ Issued /\ next_conn_id \in Issued'
        /\ Issued \subseteq Issued' /\ \A c \in Ids \ Issued' : c \notin Issued
        /\ next_conn_id' \in 1 .. MaxIds + 1 /\ waiting' \in 0 .. MaxWaiting
        /\ waiting' + next_conn_id' <= MaxIds + 1
    BY <1>3 DEF Types, Issued, Ids
  <2>2. Types'
    <3>1. connection_counter' \in 0 .. CounterModulus - 1
      <4>1. connection_counter + 1 \in Nat /\ CounterModulus \in Nat \ {0}
        BY DEF Types
      <4>. QED  BY <1>3, <4>1, Modulus DEF Raised
    <3>2. UNCHANGED <<unread, ended, edge, fate>>
      BY DEF Accept, socketVars, history
    <3>. QED  BY <1>0, <1>3, <2>1, <3>1, <3>2 DEF Types
  <2>3. \A t \in Threads \ {w} : todo'[t] = todo[t] /\ conn'[t] = conn[t]
    BY <1>3 DEF AtWork, Types
  <2>4. todo'[w] = Accepted /\ conn'[w] = next_conn_id
    BY <1>0, <1>3 DEF AtWork, Types
  <2>5. AtWork'
    <3>1. todo' \in [Threads -> Programs]
      BY <1>0, <1>3 DEF AtWork, Programs
    <3>2. \A u \in Users : todo'[u] \in UserPrograms
      BY <1>0, <2>3 DEF AtWork, Threads
    <3>3. \A u \in Workers : todo'[u] # CloseConnection
      BY <2>3, <2>4, Heads DEF AtWork, Threads
    <3>4. \A t \in Threads : todo'[t] \notin {<<>>, Accepted1, Dead} => conn'[t] \in Issued'
      BY <2>1, <2>3, <2>4 DEF AtWork
    <3>. QED  BY <3>1, <3>2, <3>3, <3>4 DEF AtWork
  <2>6. \A t \in Threads : /\ todo'[t] \in Listening => t = w
                           /\ todo'[t] \in Inserting => t = w
                           /\ todo'[t] \in Removed \cup Telling => t # w /\ todo[t] \in Removed \cup Telling
                           /\ todo'[t] \in Telling => todo[t] \in Telling
    BY <1>0, <2>3, <2>4, Heads DEF Listening, Inserting, Removed, Telling
  <2>7. OneListens' /\ Unknown' /\ ClosedOnce'
    BY <1>0, <2>1, <2>6 DEF OneListens, Unknown, ClosedOnce
  <2>8. Fresh'
    <3>1. next_conn_id \notin connections /\ next_conn_id \notin registered /\ told[next_conn_id] = 0
      BY <2>1 DEF Unknown
    <3>2. todo'[w] # Accepted3
      BY <2>4, Heads
    <3>. QED  BY <1>0, <2>4, <2>6, <3>1, <3>2 DEF Fresh
  <2>9. Left' /\ ToldOnce'
    <3>1. \A t \in Threads : todo[t] \in Removed \cup Telling => conn[t] # next_conn_id
      BY <2>1, Heads, Apart DEF AtWork, Removed, Telling
    <3>. QED  BY <1>0, <2>3, <2>4, <2>6, <3>1 DEF Left, ToldOnce
  <2>10. Handled'
    <3>1. \A t \in Threads : todo[t] \in Removed \cup {Accepted3} =>
              todo'[t] \in Removed \cup {Accepted3} /\ conn'[t] = conn[t]
      BY <1>0, <2>3, Heads DEF Removed
    <3>. QED  BY <1>0, <3>1 DEF Handled
  <2>11. Noticing'
    BY <1>0, <2>4 DEF Noticing, InLoop, Listening
  <2>. QED  BY <2>2, <2>5, <2>7, <2>8, <2>9, <2>10, <2>11
<1>. QED
  <2>1. Tail(todo[w]) = <<>>
    BY <1>0, Tails
  <2>2. CASE waiting = 0
    <3>1. todo' = [todo EXCEPT ![w] = Tail(todo[w])] /\ UNCHANGED <<next_conn_id, connection_counter, conn, waiting>>
      BY <2>2 DEF Accept, GoOn, acceptVars, mapVars
    <3>2. todo' = [todo EXCEPT ![w] = <<>>]
      BY <2>1, <3>1
    <3>3. UNCHANGED <<waiting, next_conn_id, connection_counter, conn>>
      BY <3>1
    <3>. QED  BY <1>1, <2>2, <3>2, <3>3
  <2>3. CASE waiting > 0
    BY <1>2, <1>3, <2>3 DEF Accept, Become, threadVars
  <2>4. waiting = 0 \/ waiting > 0
    BY DEF Types
  <2>. QED  BY <2>2, <2>3, <2>4

\* The counter is lowered.
LEMMA LoweredCounter == Types => Lowered \in 0 .. CounterModulus - 1
<1> SUFFICES ASSUME Types PROVE Lowered \in 0 .. CounterModulus - 1
  OBVIOUS
<1>1. connection_counter + CounterModulus - 1 \in Nat /\ CounterModulus \in Nat \ {0}
  BY ServerAssumption DEF Types
<1>. QED  BY <1>1, Modulus DEF Lowered

\* register() fails.
LEMMA RegisterFailsStep ==
    ASSUME IInv, NEW w \in Threads, RegisterFails(w)
    PROVE  IInv'
<1>1. todo[w] = Accepted
  BY ProgramAt DEF RegisterFails, IInv
<1>2. /\ todo' = [todo EXCEPT ![w] = Accepted1]
      /\ UNCHANGED <<stranded, waiting, listener_edge, next_conn_id, connections, registered, conn, told>>
  BY DEF RegisterFails, Become, Accepted1, acceptVars
<1>3. Types'
  <2>1. connection_counter' \in 0 .. CounterModulus - 1 /\ UNCHANGED <<unread, ended, edge>>
    BY LoweredCounter DEF RegisterFails, socketVars, IInv
  <2>2. fate' \in [Ids -> SUBSET {"dropped", "closed", "refused"}]
    BY DEF RegisterFails, Types, IInv
  <2>. QED  BY <1>2, <2>1, <2>2 DEF Types, IInv
<1>. QED  BY <1>1, <1>2, <1>3, Moves, Loops, GoesOn

\* on_connect returns.
LEMMA OnConnectStep ==
    ASSUME IInv, NEW w \in Threads, OnConnect(w)
    PROVE  IInv'
<1>1. todo[w] = Accepted2
  BY ProgramAt DEF OnConnect, IInv
<1>2. /\ \/ stranded' = stranded /\ todo' = [todo EXCEPT ![w] = Accepted1]
         \/ stranded' = stranded /\ todo' = [todo EXCEPT ![w] = Refused]
         \/ stranded' = TRUE /\ todo' = [todo EXCEPT ![w] = Dead]
      /\ UNCHANGED <<waiting, listener_edge, next_conn_id, connections, registered, conn, told>>
  BY <1>1, Tails DEF OnConnect, Dies, Dead, Become, GoOn, acceptVars, mapVars
<1>3. Types'
  <2>1. UNCHANGED <<connection_counter, unread, ended, edge>>
    BY DEF OnConnect, socketVars, mapVars
  <2>2. fate' \in [Ids -> SUBSET {"dropped", "closed", "refused"}]
    BY DEF OnConnect, Types, IInv
  <2>. QED  BY <1>2, <2>1, <2>2 DEF Types, IInv
<1>. QED  BY <1>1, <1>2, <1>3, Moves, Loops, GoesOn

\* A buffer is read, or the end of the stream.
LEMMA ReadStep ==
    ASSUME IInv, NEW w \in Threads, Read(w)
    PROVE  IInv'
<1>1. todo[w] = Reading
  BY ProgramAt DEF Read, IInv
<1>2. /\ \/ todo' = [todo EXCEPT ![w] = Receiving]
         \/ todo' = [todo EXCEPT ![w] = Disconnect]
         \/ todo' = [todo EXCEPT ![w] = <<>>]
      /\ UNCHANGED <<stranded, waiting, listener_edge, next_conn_id, connections, registered, conn, told>>
  BY DEF Read, Become, Receiving, acceptVars, mapVars, history
<1>3. Types'
  <2>1. UNCHANGED <<connection_counter, ended, edge, fate>>
    BY DEF Read, mapVars, history
  <2>2. unread' \in [Ids -> 0 .. MaxUnread]
    <3>1. conn[w] \in Ids
      BY <1>1, ConnAt, Heads, Apart DEF IInv
    <3>2. unread[conn[w]] > 0 => unread[conn[w]] - 1 \in 0 .. MaxUnread
      BY <3>1, ServerAssumption DEF Types, IInv
    <3>3. unread' = unread \/ (unread[conn[w]] > 0 /\ unread' = [unread EXCEPT ![conn[w]] = @ - 1])
      BY DEF Read
    <3>. QED  BY <3>1, <3>2, <3>3 DEF Types, IInv
  <2>. QED  BY <1>2, <2>1, <2>2 DEF Types, IInv
<1>. QED  BY <1>1, <1>2, <1>3, Moves, Loops, GoesOn

\* on_data returns.
LEMMA OnDataStep ==
    ASSUME IInv, NEW w \in Threads, OnData(w)
    PROVE  IInv'
<1>1. todo[w] = Receiving
  BY ProgramAt DEF OnData, IInv
<1>2. /\ \/ todo' = [todo EXCEPT ![w] = <<>>]
         \/ todo' = [todo EXCEPT ![w] = Disconnect]
         \/ todo' = [todo EXCEPT ![w] = Dead]
      /\ UNCHANGED <<stranded, waiting, listener_edge, next_conn_id, connections, registered, conn, told>>
  BY <1>1, Tails DEF OnData, Dies, Dead, Become, GoOn, acceptVars, mapVars, history
<1>3. Types'
  BY <1>2 DEF OnData, socketVars, mapVars, history, Types, IInv
<1>. QED  BY <1>1, <1>2, <1>3, Moves, Loops, GoesOn

\* The connection was taken out of the map by somebody else.
LEMMA NotThereStep ==
    ASSUME IInv, NEW t \in Threads, RemoveFromMap(t), conn[t] \notin connections
    PROVE  IInv'
<1>1. todo[t] \in {Refused, Disconnect, CloseConnection}
  BY ProgramAt DEF RemoveFromMap, IInv
<1>2. UNCHANGED <<stranded, waiting, listener_edge, next_conn_id, connections, registered, conn, told>>
  BY DEF RemoveFromMap, acceptVars
<1>3. todo' = [todo EXCEPT ![t] = IF todo[t] = Refused THEN Refused2 ELSE <<>>]
  <2>1. "accept" \in ToSet(Refused)
    BY Rests DEF InLoop, Listening
  <2>. QED  BY <1>1, <2>1, Rests, Apart DEF RemoveFromMap, Become, UnlessThere, Refused2
<1>4. Types'
  BY <1>2 DEF RemoveFromMap, socketVars, Types, IInv
<1>. QED  BY <1>1, <1>2, <1>3, <1>4, Moves, Loops, Apart, GoesOn

\* A connection is no longer counted.
LEMMA LowerStep ==
    ASSUME IInv, NEW t \in Threads, Lower(t)
    PROVE  IInv'
<1>1. todo[t] \in {Refused2, Disconnect3}
  BY ProgramAt DEF Lower, IInv
<1>2. /\ todo' = [todo EXCEPT ![t] = Tail(todo[t])]
      /\ UNCHANGED <<stranded, waiting, listener_edge, next_conn_id, connections, registered, conn, told>>
  BY DEF Lower, GoOn, acceptVars, history
<1>3. Types'
  <2>1. connection_counter' \in 0 .. CounterModulus - 1 /\ UNCHANGED <<unread, ended, edge, fate>>
    BY LoweredCounter DEF Lower, socketVars, history, IInv
  <2>. QED  BY <1>2, <2>1 DEF Types, IInv
<1>4. Follows(todo[t], Tail(todo[t])) /\ (todo[t] \in InLoop => Tail(todo[t]) \in InLoop)
  BY <1>1, Tails, Moves, Loops
<1>. QED  BY <1>2, <1>3, <1>4, GoesOn

\* accept() fails: the worker leaves the loop, on the record.
LEMMA AcceptFailsStep ==
    ASSUME IInv, NEW w \in Threads, AcceptFails(w)
    PROVE  IInv'
<1> USE ServerAssumption DEF IInv
<1>0. /\ todo[w] = Accepted1 /\ todo' = [todo EXCEPT ![w] = <<>>]
      /\ stranded' = TRUE
      /\ waiting > 0 /\ waiting' \in {waiting, waiting - 1}
      /\ UNCHANGED <<listener_edge, next_conn_id, connection_counter, connections, registered, unread,
                    ended, edge, conn, told, fate>>
  BY Tails DEF AcceptFails, GoOn, Accepted1, mapVars, socketVars
<1>1. Types'
  BY <1>0 DEF Types
<1>2. AtWork' /\ OneListens' /\ Unknown' /\ ClosedOnce'
  BY <1>0, Heads, Apart DEF AtWork, Programs, UserPrograms, Threads, Issued, OneListens,
                            Listening, Unknown, ClosedOnce
<1>3. \A t \in Threads : todo'[t] \in Inserting \cup Removed \cup Telling => todo'[t] = todo[t]
  BY <1>0, Apart DEF AtWork, Inserting, Removed, Telling
<1>4. Fresh' /\ Left' /\ ToldOnce'
  BY <1>0, <1>3 DEF Fresh, Left, ToldOnce
<1>5. Handled' /\ Noticing'
  BY <1>0, Heads, Apart DEF Handled, Removed, Noticing, AtWork
<1>. QED  BY <1>1, <1>2, <1>4, <1>5

\* An event goes to a worker that has died; one of the listener, on the record.
LEMMA EventLostStep ==
    ASSUME IInv, NEW w \in Workers, EventLost(w)
    PROVE  IInv'
<1> USE DEF IInv
<1>0. /\ UNCHANGED <<waiting, next_conn_id, connection_counter, connections, registered, unread, ended,
                    todo, conn, told, fate>>
      /\ edge' \subseteq edge
      /\ stranded' = TRUE \/ (stranded' = stranded /\ listener_edge' = listener_edge)
      /\ listener_edge' \in {FALSE, listener_edge}
  BY DEF EventLost, mapVars, threadVars
<1>1. Types'
  BY <1>0 DEF Types
<1>2. AtWork' /\ OneListens' /\ Unknown' /\ ClosedOnce' /\ Fresh' /\ Left' /\ ToldOnce' /\ Handled'
  BY <1>0 DEF AtWork, Issued, OneListens, Unknown, ClosedOnce, Fresh, Left, ToldOnce, Handled
<1>3. Noticing'
  BY <1>0 DEF Noticing
<1>. QED  BY <1>1, <1>2, <1>3

\* Every step keeps the invariant.
LEMMA NextIInv == IInv /\ [Next]_vars => IInv'
<1> SUFFICES ASSUME IInv, [Next]_vars PROVE IInv'
  OBVIOUS
<1>1. CASE PeerConnects
  BY <1>1, PeerConnectsStep
<1>2. ASSUME NEW c \in Ids, PeerSends(c) \/ PeerEnds(c) \/ \E u \in Users : Close(u, c)
      PROVE  IInv'
  BY <1>2, PeerStep, CloseStep
<1>3. ASSUME NEW w \in Workers, ListenerEvent(w) \/ EventLost(w) \/ \E c \in Ids : ConnectionEvent(w, c)
      PROVE  IInv'
  BY <1>3, ListenerEventStep, EventLostStep, ConnectionEventStep
<1>4. ASSUME NEW t \in Threads, Step(t)
      PROVE  IInv'
  <2>1. RemoveFromMap(t) => IInv'
    BY RemovedStep, NotThereStep
  <2>2. Deregister(t) \/ Tell(t) \/ Lower(t) => IInv'
    BY DeregisterStep, TellStep, LowerStep
  <2>3. Accept(t) \/ AcceptFails(t) \/ Register(t) \/ RegisterFails(t) \/ Insert(t) \/ OnConnect(t) => IInv'
    BY AcceptStep, AcceptFailsStep, RegisterStep, RegisterFailsStep, InsertStep, OnConnectStep
  <2>4. Read(t) \/ OnData(t) => IInv'
    BY ReadStep, OnDataStep
  <2>. QED  BY <1>4, <2>1, <2>2, <2>3, <2>4 DEF Step
<1>5. CASE UNCHANGED vars
  <2>1. UNCHANGED <<stranded, waiting, listener_edge, next_conn_id, connection_counter, connections, registered,
                    unread, ended, edge, todo, conn, stranded, told, fate>>
    BY <1>5 DEF vars, acceptVars, mapVars, socketVars, threadVars, history
  <2>2. Types' /\ AtWork' /\ OneListens' /\ Unknown'
    BY <2>1 DEF IInv, Types, AtWork, OneListens, Unknown, Issued
  <2>3. Fresh' /\ Left' /\ ToldOnce' /\ Handled' /\ Noticing' /\ ClosedOnce'
    BY <2>1 DEF IInv, Fresh, Left, ToldOnce, Handled, Noticing, ClosedOnce
  <2>. QED  BY <2>2, <2>3 DEF IInv
<1>. QED  BY <1>1, <1>2, <1>3, <1>4, <1>5 DEF Next

--------------------------------------------------------------------------------
(***************************************************************************)
(* The theorems.                                                           *)
(***************************************************************************)
\* Whatever workers, users and peers do, a thread is at a place of one of the
\* functions, and connections are where IInv says.
THEOREM Invariant == Spec => []IInv
BY InitIInv, NextIInv, PTL DEF Spec

\* The server's variables keep their types (mod.rs l.57-79, 268-287).
THEOREM Typed == Spec => []TypeOK
<1>1. IInv => TypeOK
  <2> SUFFICES ASSUME IInv PROVE TypeOK
    OBVIOUS
  <2>1. Programs \subseteq Seq({"accept", "register", "insert", "connect", "read", "data",
                                "remove", "lower", "deregister", "tell", "dead"})
    BY DEF Programs, Accepted, Accepted3, Accepted2, Accepted1, Refused, Refused3, Refused2, Reading,
           Receiving, Disconnect, Disconnect3, CloseConnection, Closing2, Closing1, Dead
  <2>2. \A t \in Threads : todo[t] \in Programs
    BY DEF IInv, AtWork
  <2>. QED  BY <2>1, <2>2 DEF IInv, Types, AtWork, TypeOK
<1>. QED  BY <1>1, Invariant, PTL

\* on_disconnect is called at most once for a connection, however the ends of
\* the stream, failing callbacks and close_connection meet (l.235, 508).
THEOREM DisconnectedOnce == Spec => []ClosedOnce
<1>1. IInv => ClosedOnce
  BY DEF IInv
<1>. QED  BY <1>1, Invariant, PTL

\* A connection in the map has its handler in the event loop, and one that has
\* left the map is about to lose it (l.377-394, 411, 512).
THEOREM MapMatches == Spec => []MapMatchesRegistry
<1>1. IInv => MapMatchesRegistry
  <2> SUFFICES ASSUME IInv PROVE MapMatchesRegistry
    OBVIOUS
  <2>1. \A t \in Threads : /\ todo[t] = Accepted3 => Has(t, "insert")
                           /\ todo[t] \in Removed => Has(t, "deregister")
    BY Rests DEF Has, Inserting
  <2>. QED  BY <2>1 DEF IInv, Handled, MapMatchesRegistry, Open
<1>. QED  BY <1>1, Invariant, PTL

\* A peer that waits will be seen, although the listener's edge is consumed
\* before the loop has accepted everybody: turned away, refused or unregistered
\* peers never end the loop.  What does are an error of accept(), a panic of
\* on_connect and an event handed to a dead worker (l.303-426).
THEOREM PeersAreNoticed == Spec => []WaitingNoticed
<1>1. IInv => WaitingNoticed
  BY Rests DEF IInv, Noticing, WaitingNoticed, Has
<1>. QED  BY <1>1, Invariant, PTL

--------------------------------------------------------------------------------
(***************************************************************************)
(* The sets that are counted, by the programs of the threads.              *)
(***************************************************************************)
\* Programs that will lower the counter for a connection out of the map.
Counting == {Refused, Refused3, Refused2, Disconnect3}

\* The connections that are open: in the map, or on their way into it; and the
\* threads that owe the counter a place.
Inserters == {t \in Threads : todo[t] \in Inserting}
OpenIds == connections \cup {conn[t] : t \in Inserters}
Debtors == {t \in Threads : todo[t] \in Counting /\ conn[t] \notin connections}

\* Which programs have which steps before them.
LEMMA Parts ==
    \A p \in Programs :
        /\ "insert" \in ToSet(p) <=> p \in Inserting
        /\ "lower" \in ToSet(p) <=> p \in Counting \cup {Disconnect}
        /\ "remove" \in ToSet(p) <=> p \in {Refused, Disconnect, CloseConnection}
<1>1. /\ ToSet(<<>>) = {} /\ ToSet(Accepted) = {"register", "insert", "connect", "accept"}
      /\ ToSet(Accepted3) = {"insert", "connect", "accept"} /\ ToSet(Accepted2) = {"connect", "accept"}
      /\ ToSet(Accepted1) = {"accept"} /\ ToSet(Reading) = {"read"} /\ ToSet(Receiving) = {"data"}
      /\ ToSet(Refused) = {"remove", "deregister", "lower", "accept"}
      /\ ToSet(Refused3) = {"deregister", "lower", "accept"} /\ ToSet(Refused2) = {"lower", "accept"}
      /\ ToSet(Disconnect) = {"remove", "lower", "deregister", "tell"}
      /\ ToSet(Disconnect3) = {"lower", "deregister", "tell"}
      /\ ToSet(CloseConnection) = {"remove", "deregister", "tell"}
      /\ ToSet(Closing2) = {"deregister", "tell"} /\ ToSet(Closing1) = {"tell"}
      /\ ToSet(Dead) = {"dead"}
  BY DEF ToSet, Accepted, Accepted3, Accepted2, Accepted1, Refused, Refused3, Refused2, Reading,
         Receiving, Disconnect, Disconnect3, CloseConnection, Closing2, Closing1, Dead
<1>. QED
  BY <1>1 DEF Programs, Inserting, Counting

\* A handler that disconnects does not have the listener.
LEMMA DisconnectNotListening == \A t \in Threads : todo[t] = Disconnect => ~HasListener(t)
<1>1. Len(Disconnect) = 4 /\ Disconnect[4] = "tell"
  BY DEF Disconnect
<1>. QED  BY <1>1 DEF HasListener, Last

\* So the sets of the properties are these.
LEMMA SetsAre ==
    ASSUME AtWork
    PROVE  Open = OpenIds /\ Owing = Debtors
<1>1. \A t \in Threads : todo[t] \in Programs
  BY DEF AtWork
<1>2. \A t \in Threads : Has(t, "insert") <=> todo[t] \in Inserting
  BY <1>1, Parts DEF Has
<1>3. ASSUME NEW t \in Threads
      PROVE  (Has(t, "lower") /\ (~Has(t, "remove") \/ HasListener(t))) <=> todo[t] \in Counting
  <2>1. /\ Has(t, "lower") <=> todo[t] \in Counting \cup {Disconnect}
        /\ Has(t, "remove") <=> todo[t] \in {Refused, Disconnect, CloseConnection}
    BY <1>1, Parts DEF Has
  <2>2. /\ todo[t] = Refused => HasListener(t)
        /\ todo[t] = Disconnect => ~HasListener(t)
    BY Listeners, DisconnectNotListening DEF Listening
  <2>3. Counting \cap {Disconnect, CloseConnection} = {} /\ {Refused3, Refused2, Disconnect3} \cap {Refused, Disconnect, CloseConnection} = {}
    BY Heads, Apart DEF Counting
  <2>. QED  BY <2>1, <2>2, <2>3 DEF Counting
<1>4. Inserters = {u \in Threads : Has(u, "insert")}
  BY <1>2 DEF Inserters
<1>5. Owing = Debtors
  BY <1>3 DEF Owing, Debtors
<1>. QED  BY <1>4, <1>5 DEF Open, OpenIds

\* They are finite.
LEMMA AllFinite ==
    ASSUME Types, AtWork
    PROVE  /\ OpenIds \subseteq Ids /\ Leaked \subseteq Ids /\ LoweredTwice \subseteq Ids
           /\ Debtors \subseteq Threads
           /\ IsFiniteSet(Ids) /\ Cardinality(Ids) = MaxIds /\ IsFiniteSet(Threads)
           /\ IsFiniteSet(OpenIds) /\ IsFiniteSet(Debtors)
           /\ IsFiniteSet(Leaked) /\ IsFiniteSet(LoweredTwice)
<1>1. IsFiniteSet(Ids) /\ Cardinality(Ids) = MaxIds
  <2>1. 1 \in Int /\ MaxIds \in Int /\ MaxIds \in Nat
    BY ServerAssumption
  <2>2. IsFiniteSet(1 .. MaxIds) /\ Cardinality(1 .. MaxIds) = IF 1 > MaxIds THEN 0 ELSE MaxIds - 1 + 1
    BY <2>1, FS_Interval
  <2>. QED  BY <2>1, <2>2 DEF Ids
<1>2. IsFiniteSet(Threads)
  BY ServerAssumption, FS_Union DEF Threads
<1>3. OpenIds \subseteq Ids
  <2>1. \A t \in Inserters : conn[t] \in Ids
    BY ConnAt, Heads, Apart DEF Inserters, Inserting
  <2>. QED  BY <2>1 DEF OpenIds, Types
<1>4. Leaked \subseteq Ids /\ LoweredTwice \subseteq Ids /\ Debtors \subseteq Threads
  BY DEF Leaked, LoweredTwice, Debtors
<1>. QED  BY <1>1, <1>2, <1>3, <1>4, FS_Subset

--------------------------------------------------------------------------------
(***************************************************************************)
(* The fates of connections: what has happened to one in the map, and to   *)
(* one that a thread is at.                                                *)
(***************************************************************************)

FateUnknown == \A c \in Ids \ Issued : fate[c] = {}
\* Refused connections are in the map until their listener's thread removes them.
FateInMap ==
    \A c \in connections :
        /\ fate[c] \subseteq {"refused"}
        /\ "refused" \in fate[c] => \E t \in Threads : todo[t] = Refused /\ conn[t] = c
\* What has happened to the connection a thread is at, by what it has left to do.
FateOf(t) ==
    /\ todo[t] \in Inserting => fate[conn[t]] = {}
    /\ todo[t] = Accepted2 =>
          /\ "refused" \notin fate[conn[t]]
          /\ conn[t] \notin connections => fate[conn[t]] \in {{"dropped"}, {"closed"}}
    /\ todo[t] \in {Refused, Refused3, Refused2} => "refused" \in fate[conn[t]]
    /\ todo[t] = Refused2 => conn[t] \notin connections
    /\ todo[t] = Disconnect3 => "dropped" \in fate[conn[t]] /\ "closed" \notin fate[conn[t]]

FateInv ==
    /\ FateUnknown
    /\ FateInMap
    /\ \A t \in Threads : FateOf(t)

\* A program that goes on to another without a change of what is counted.
Unnoticed(p, q) ==
    /\ q \in Inserting <=> p \in Inserting
    /\ q \in Counting <=> p \in Counting
    /\ q \in {Accepted2, Disconnect3, Refused, Refused3} => q = p
    /\ q = Refused2 => p \in {Refused, Refused3, Refused2}
    /\ p = Refused => q \in {Refused, Refused2}

\* The programs that do.
LEMMA UnnoticedMoves ==
    /\ \A p \in Programs : Unnoticed(p, p)
    /\ Unnoticed(Accepted, Accepted3) /\ Unnoticed(Accepted2, Accepted1)
    /\ Unnoticed(Reading, <<>>) /\ Unnoticed(Reading, Receiving) /\ Unnoticed(Reading, Disconnect)
    /\ Unnoticed(Receiving, <<>>) /\ Unnoticed(Receiving, Disconnect)
    /\ Unnoticed(Refused, Refused2) /\ Unnoticed(Disconnect, <<>>) /\ Unnoticed(CloseConnection, <<>>)
    /\ Unnoticed(Refused3, Refused2) /\ Unnoticed(Closing2, Closing1) /\ Unnoticed(Closing1, <<>>)
    /\ Unnoticed(<<>>, CloseConnection) /\ Unnoticed(<<>>, Accepted1) /\ Unnoticed(<<>>, Reading)
    /\ Unnoticed(Accepted1, <<>>)
    /\ Unnoticed(Accepted2, Dead) /\ Unnoticed(Receiving, Dead) /\ Unnoticed(Closing1, Dead)
BY Heads, Apart DEF Unnoticed, Inserting, Counting

\* Steps in which all threads do.
QuietStep ==
    /\ UNCHANGED <<next_conn_id, connection_counter, connections, fate>>
    /\ \A t \in Threads :
         /\ Unnoticed(todo[t], todo'[t])
         /\ todo[t] \in Inserting \cup Counting \cup {Accepted2} => conn'[t] = conn[t]
         /\ todo'[t] = Refused2 => conn'[t] \notin connections

\* They leave all four sets as they are.
LEMMA QuietSets ==
    ASSUME QuietStep
    PROVE  /\ OpenIds' = OpenIds /\ Debtors' = Debtors
           /\ Leaked' = Leaked /\ LoweredTwice' = LoweredTwice
<1>1. Inserters' = Inserters /\ \A t \in Inserters : conn'[t] = conn[t]
  BY DEF QuietStep, Unnoticed, Inserters
<1>2. OpenIds' = OpenIds
  BY <1>1 DEF QuietStep, OpenIds
<1>3. Debtors' = Debtors
  BY DEF QuietStep, Unnoticed, Debtors
<1>. QED  BY <1>2, <1>3 DEF QuietStep, Leaked, LoweredTwice

\* And the fates.
LEMMA QuietFate ==
    ASSUME FateInv, QuietStep
    PROVE  FateInv'
<1>1. FateUnknown'
  BY DEF FateInv, FateUnknown, QuietStep, Issued
<1>2. FateInMap'
  <2>1. ASSUME NEW c \in connections, "refused" \in fate[c]
        PROVE  \E t \in Threads : todo'[t] = Refused /\ conn'[t] = c
    <3>1. PICK t \in Threads : todo[t] = Refused /\ conn[t] = c
      BY <2>1 DEF FateInv, FateInMap
    <3>2. todo'[t] = Refused /\ conn'[t] = c
      BY <3>1 DEF QuietStep, Unnoticed, Counting
    <3>. QED  BY <3>2
  <2>. QED  BY <2>1 DEF FateInv, FateInMap, QuietStep
<1>3. ASSUME NEW t \in Threads
      PROVE  FateOf(t)'
  <2>1. FateOf(t) /\ UNCHANGED <<connections, fate>>
    BY DEF FateInv, QuietStep
  <2>2. /\ todo'[t] \in Inserting => todo[t] \in Inserting /\ conn'[t] = conn[t]
        /\ todo'[t] = Accepted2 => todo[t] = Accepted2 /\ conn'[t] = conn[t]
        /\ todo'[t] = Disconnect3 => todo[t] = Disconnect3 /\ conn'[t] = conn[t]
        /\ todo'[t] \in {Refused, Refused3, Refused2} =>
              todo[t] \in {Refused, Refused3, Refused2} /\ conn'[t] = conn[t]
        /\ todo'[t] = Refused2 => conn'[t] \notin connections
    BY DEF QuietStep, Unnoticed, Counting
  <2>. QED  BY <2>1, <2>2 DEF FateOf
<1>. QED  BY <1>1, <1>2, <1>3 DEF FateInv

--------------------------------------------------------------------------------
(***************************************************************************)
(* The count: what connection_counter is, but for turns of CounterModulus. *)
(***************************************************************************)
Counted == Cardinality(OpenIds) + Cardinality(Debtors) + Cardinality(Leaked) - Cardinality(LoweredTwice)

\* What is inductive: the modulus lets the counter turn over, never drift.
CountInv == \E k \in Int : connection_counter = Counted + k * CounterModulus

\* The count is a number.
LEMMA CountedType ==
    ASSUME Types, AtWork
    PROVE  /\ Cardinality(OpenIds) \in Nat /\ Cardinality(Debtors) \in Nat
           /\ Cardinality(Leaked) \in Nat /\ Cardinality(LoweredTwice) \in Nat
           /\ Counted \in Int
<1>1. /\ Cardinality(OpenIds) \in Nat /\ Cardinality(Debtors) \in Nat
      /\ Cardinality(Leaked) \in Nat /\ Cardinality(LoweredTwice) \in Nat
  BY AllFinite, FS_CardinalityType
<1>. QED  BY <1>1 DEF Counted

\* fetch_add and fetch_sub change the counter by one, or turn it over.
LEMMA OneTurn ==
    ASSUME Types
    PROVE  /\ \E j \in Int : Raised = connection_counter + 1 + j * CounterModulus
           /\ \E j \in Int : Lowered = connection_counter - 1 + j * CounterModulus
<1>. PICK m \in Nat \ {0} : m = CounterModulus
  BY ServerAssumption
<1>. PICK n \in 0 .. m - 1 : n = connection_counter
  BY DEF Types
<1>1. (n + 1) % m = n + 1 + 0 * m \/ (n + 1) % m = n + 1 + (-1) * m
  <2>1. CASE n + 1 = m
    <3>1. m % m = 0
      OBVIOUS
    <3>. QED  BY <2>1, <3>1
  <2>2. CASE n + 1 < m
    BY <2>2
  <2>. QED  BY <2>1, <2>2
<1>2. (n + m - 1) % m = n - 1 + 0 * m \/ (n + m - 1) % m = n - 1 + 1 * m
  <2>1. CASE n = 0
    BY <2>1
  <2>2. CASE n # 0
    <3>1. PICK p \in Nat : p = n - 1 /\ p < m
      BY <2>2
    <3>2. (p + m) % m = p
      BY <3>1
    <3>3. n + m - 1 = p + m
      BY <3>1
    <3>. QED  BY <3>1, <3>2, <3>3
  <2>. QED  BY <2>1, <2>2
<1>3. 0 \in Int /\ 1 \in Int /\ -1 \in Int
  OBVIOUS
<1>4. (\E j \in Int : (n + 1) % m = n + 1 + j * m) /\ (\E j \in Int : (n + m - 1) % m = n - 1 + j * m)
  BY <1>1, <1>2, <1>3
<1>. QED  BY <1>4 DEF Raised, Lowered

\* Counter and count go together.
Together ==
    \/ connection_counter' = connection_counter /\ Counted' = Counted
    \/ connection_counter' = Raised /\ Counted' = Counted + 1
    \/ connection_counter' = Lowered /\ Counted' = Counted - 1

\* Then the one stays what it was to the other.
LEMMA CountKept ==
    ASSUME Types, AtWork, CountInv, Together
    PROVE  CountInv'
<1>. PICK m \in Nat : m = CounterModulus
  BY ServerAssumption
<1>. PICK n \in Int : n = Counted
  BY CountedType
<1>. PICK k \in Int : connection_counter = n + k * m
  BY DEF CountInv
<1>1. CASE connection_counter' = connection_counter /\ Counted' = Counted
  BY <1>1 DEF CountInv
<1>2. CASE connection_counter' = Raised /\ Counted' = Counted + 1
  <2>1. PICK j \in Int : connection_counter' = connection_counter + 1 + j * m
    BY <1>2, OneTurn
  <2>2. k + j \in Int /\ (k + j) * m = k * m + j * m /\ k * m \in Int /\ j * m \in Int
    OBVIOUS
  <2>3. connection_counter' = Counted' + (k + j) * m
    BY <1>2, <2>1, <2>2
  <2>. QED  BY <2>2, <2>3 DEF CountInv
<1>3. CASE connection_counter' = Lowered /\ Counted' = Counted - 1
  <2>1. PICK j \in Int : connection_counter' = connection_counter - 1 + j * m
    BY <1>3, OneTurn
  <2>2. k + j \in Int /\ (k + j) * m = k * m + j * m /\ k * m \in Int /\ j * m \in Int
    OBVIOUS
  <2>3. connection_counter' = Counted' + (k + j) * m
    BY <1>3, <2>1, <2>2
  <2>. QED  BY <2>2, <2>3 DEF CountInv
<1>. QED  BY <1>1, <1>2, <1>3 DEF Together

\* A set with one element more, or less.
LEMMA OneMore ==
    ASSUME NEW S, IsFiniteSet(S), NEW x
    PROVE  /\ x \notin S => Cardinality(S \cup {x}) = Cardinality(S) + 1
           /\ x \in S => Cardinality(S \ {x}) = Cardinality(S) - 1
BY FS_AddElement, FS_RemoveElement

--------------------------------------------------------------------------------
(***************************************************************************)
(* The steps that are counted.                                             *)
(***************************************************************************)
\* Whose program has the listener is the only one of its kind.
LEMMA OneListener ==
    ASSUME OneListens, NEW t \in Threads, todo[t] \in Listening, NEW u \in Threads \ {t}
    PROVE  todo[u] \notin Inserting \cup {Accepted2, Refused, Refused3, Refused2}
BY DEF OneListens, Listening, Inserting

\* A connection is admitted.
LEMMA AdmitCount ==
    ASSUME IInv, FateInv, NEW w \in Threads, todo[w] = Accepted1,
           \A u \in Threads : todo[u] \notin Listening,
           next_conn_id \in Ids, connection_counter' = Raised, next_conn_id' = next_conn_id + 1,
           conn' = [conn EXCEPT ![w] = next_conn_id], todo' = [todo EXCEPT ![w] = Accepted],
           UNCHANGED <<connections, fate>>
    PROVE  FateInv' /\ Together
<1> USE DEF IInv
<1>1. PICK c \in Ids : c = next_conn_id
  OBVIOUS
<1>2. c \notin Issued /\ c \notin connections /\ fate[c] = {} /\ \A d \in Ids \ Issued' : d \in Ids \ Issued
  BY <1>1 DEF Issued, Unknown, FateInv, FateUnknown, Types
<1>3. /\ todo'[w] = Accepted /\ conn'[w] = c
      /\ \A u \in Threads \ {w} : todo'[u] = todo[u] /\ conn'[u] = conn[u]
  BY <1>1 DEF AtWork, Types
<1>4. \A u \in Threads : todo[u] \notin Inserting
  BY DEF Listening, Inserting
<1>5. OpenIds = connections /\ OpenIds' = connections \cup {c}
  <2>1. Inserters = {} /\ Inserters' = {w}
    BY <1>3, <1>4 DEF Inserters, Inserting
  <2>. QED  BY <1>3, <2>1 DEF OpenIds
<1>6. Debtors' = Debtors /\ Leaked' = Leaked /\ LoweredTwice' = LoweredTwice
  <2>1. todo[w] \notin Counting /\ todo'[w] \notin Counting
    BY <1>3, Heads, Apart DEF Counting
  <2>. QED  BY <1>3, <2>1 DEF Debtors, Leaked, LoweredTwice
<1>7. Cardinality(OpenIds') = Cardinality(OpenIds) + 1
  BY <1>2, <1>5, AllFinite, OneMore
<1>8. Together
  BY <1>6, <1>7, CountedType DEF Together, Counted
<1>9. FateUnknown'
  BY <1>2 DEF FateInv, FateUnknown
<1>10. FateInMap'
  <2>1. \A u \in Threads : todo[u] # Refused
    BY DEF Listening
  <2>. QED  BY <2>1 DEF FateInv, FateInMap
<1>11. FateOf(w)'
  <2>1. todo'[w] \notin {Accepted2, Refused, Refused3, Refused2, Disconnect3}
    BY <1>3, Heads, Apart
  <2>. QED  BY <1>2, <1>3, <2>1 DEF FateOf
<1>12. ASSUME NEW u \in Threads \ {w}
       PROVE  FateOf(u)'
  BY <1>3 DEF FateInv, FateOf
<1>. QED  BY <1>8, <1>9, <1>10, <1>11, <1>12 DEF FateInv

\* register() fails.
LEMMA RegisterFailsCount ==
    ASSUME IInv, FateInv, NEW w \in Threads, RegisterFails(w)
    PROVE  FateInv' /\ Together
<1> USE DEF IInv
<1>1. todo[w] = Accepted /\ todo' = [todo EXCEPT ![w] = Accepted1]
  BY ProgramAt DEF RegisterFails, Become, Accepted1
<1>2. PICK c \in Ids : c = conn[w] /\ c \in Issued
  BY <1>1, ConnAt, Heads, Apart
<1>3. /\ todo'[w] = Accepted1 /\ \A u \in Threads \ {w} : todo'[u] = todo[u]
      /\ UNCHANGED <<conn, connections, next_conn_id>> /\ connection_counter' = Lowered
  BY <1>1 DEF RegisterFails, AtWork, acceptVars
<1>4. c \notin connections /\ fate[c] = {}
  BY <1>1, <1>2 DEF Inserting, Fresh, FateInv, FateOf
<1>5. fate'[c] = {"refused"} /\ \A d \in Ids \ {c} : fate'[d] = fate[d]
  BY <1>2, <1>4 DEF RegisterFails, Types
<1>6. \A u \in Threads \ {w} : todo[u] \notin Inserting \cup {Accepted2, Refused, Refused3, Refused2}
  BY <1>1, OneListener DEF Listening
<1>7. \A u \in Threads : todo[u] = Disconnect3 => conn[u] # c
  BY <1>1, <1>2 DEF Left, Removed, Inserting
<1>8. OpenIds' = OpenIds \ {c} /\ c \in OpenIds
  <2>1. Inserters = {w} /\ Inserters' = {}
    BY <1>1, <1>3, <1>6, Heads DEF Inserters, Inserting
  <2>. QED  BY <1>2, <1>3, <1>4, <2>1 DEF OpenIds
<1>9. Debtors' = Debtors
  <2>1. todo[w] \notin Counting /\ todo'[w] \notin Counting
    BY <1>1, <1>3, Heads, Apart DEF Counting
  <2>. QED  BY <1>3, <2>1 DEF Debtors
<1>10. Leaked' = Leaked /\ LoweredTwice' = LoweredTwice
  BY <1>4, <1>5 DEF Leaked, LoweredTwice
<1>11. Together
  <2>1. Cardinality(OpenIds') = Cardinality(OpenIds) - 1
    BY <1>8, AllFinite, OneMore
  <2>. QED  BY <1>3, <1>9, <1>10, <2>1, CountedType DEF Together, Counted
<1>12. FateUnknown'
  BY <1>2, <1>3, <1>5 DEF FateInv, FateUnknown, Issued
<1>13. FateInMap'
  <2>1. ASSUME NEW d \in connections
        PROVE  fate'[d] \subseteq {"refused"} /\ "refused" \notin fate'[d]
    <3>1. fate'[d] = fate[d] /\ d \in Ids
      BY <1>4, <1>5 DEF Types
    <3>2. \A u \in Threads : todo[u] # Refused
      BY <1>1, <1>6, Heads, Apart
    <3>. QED  BY <3>1, <3>2 DEF FateInv, FateInMap
  <2>. QED  BY <1>3, <2>1 DEF FateInMap
<1>14. ASSUME NEW u \in Threads
       PROVE  FateOf(u)'
  <2>1. todo'[u] \notin Inserting \cup {Accepted2, Refused, Refused3, Refused2}
    BY <1>3, <1>6, Heads, Apart DEF Inserting
  <2>2. CASE todo'[u] = Disconnect3
    <3>1. u # w /\ todo[u] = Disconnect3 /\ conn[u] # c /\ conn'[u] = conn[u]
      BY <1>3, <1>7, <2>2, Heads
    <3>2. conn[u] \in Ids
      BY <3>1, ConnAt, Heads, Apart
    <3>. QED  BY <1>5, <2>1, <2>2, <3>1, <3>2 DEF FateInv, FateOf
  <2>. QED  BY <2>1, <2>2 DEF FateOf
<1>. QED  BY <1>11, <1>12, <1>13, <1>14 DEF FateInv

\* A connection comes into the map.
LEMMA InsertCount ==
    ASSUME IInv, FateInv, NEW w \in Threads, Insert(w)
    PROVE  FateInv' /\ Together
<1> USE DEF IInv
<1>1. todo[w] = Accepted3 /\ todo' = [todo EXCEPT ![w] = Accepted2]
  BY ProgramAt, Tails DEF Insert, GoOn
<1>2. PICK c \in Ids : c = conn[w] /\ c \in Issued
  BY <1>1, ConnAt, Heads, Apart
<1>3. /\ todo'[w] = Accepted2 /\ \A u \in Threads \ {w} : todo'[u] = todo[u]
      /\ UNCHANGED <<conn, fate, next_conn_id, connection_counter>>
      /\ connections' = connections \cup {c}
  BY <1>1, <1>2 DEF Insert, AtWork, acceptVars, history
<1>4. c \notin connections /\ fate[c] = {}
  BY <1>1, <1>2 DEF Inserting, Fresh, FateInv, FateOf
<1>5. \A u \in Threads \ {w} : todo[u] \notin Inserting \cup {Accepted2, Refused, Refused3, Refused2}
  BY <1>1, OneListener DEF Listening
<1>6. \A u \in Threads : todo[u] = Disconnect3 => conn[u] # c
  BY <1>1, <1>2 DEF Left, Removed, Inserting
<1>7. OpenIds' = OpenIds
  <2>1. Inserters = {w} /\ Inserters' = {}
    BY <1>1, <1>3, <1>5, Heads DEF Inserters, Inserting
  <2>. QED  BY <1>2, <1>3, <2>1 DEF OpenIds
<1>8. Debtors' = Debtors
  <2>1. todo[w] \notin Counting /\ todo'[w] \notin Counting
    BY <1>1, <1>3, Heads, Apart DEF Counting
  <2>2. \A u \in Threads \ {w} : todo[u] \in Counting => conn[u] # c
    BY <1>5, <1>6 DEF Counting
  <2>. QED  BY <1>3, <2>1, <2>2 DEF Debtors
<1>9. Together
  BY <1>3, <1>7, <1>8 DEF Together, Counted, Leaked, LoweredTwice
<1>10. FateUnknown'
  BY <1>3 DEF FateInv, FateUnknown, Issued
<1>11. FateInMap'
  <2>1. ASSUME NEW d \in connections, "refused" \in fate[d]
        PROVE  \E t \in Threads : todo'[t] = Refused /\ conn'[t] = d
    <3>1. PICK t \in Threads : todo[t] = Refused /\ conn[t] = d
      BY <2>1 DEF FateInv, FateInMap
    <3>2. t # w
      BY <1>1, <3>1, Heads
    <3>. QED  BY <1>3, <3>1, <3>2
  <2>. QED  BY <1>3, <1>4, <2>1 DEF FateInv, FateInMap
<1>12. FateOf(w)'
  <2>1. todo'[w] \notin Inserting \cup {Refused, Refused3, Refused2, Disconnect3}
    BY <1>3, Heads, Apart DEF Inserting
  <2>. QED  BY <1>2, <1>3, <1>4, <2>1 DEF FateOf
<1>13. ASSUME NEW u \in Threads \ {w}
       PROVE  FateOf(u)'
  BY <1>3, <1>5 DEF FateInv, FateOf
<1>. QED  BY <1>9, <1>10, <1>11, <1>12, <1>13 DEF FateInv

\* on_connect fails.
LEMMA RefusedCount ==
    ASSUME IInv, FateInv, NEW w \in Threads, todo[w] = Accepted2,
           todo' = [todo EXCEPT ![w] = Refused],
           fate' = [fate EXCEPT ![conn[w]] = @ \cup {"refused"}],
           UNCHANGED <<conn, connections, next_conn_id, connection_counter>>
    PROVE  FateInv' /\ Together
<1> USE DEF IInv
<1>1. PICK c \in Ids : c = conn[w] /\ c \in Issued
  BY ConnAt, Heads, Apart
<1>2. todo'[w] = Refused /\ \A u \in Threads \ {w} : todo'[u] = todo[u]
  BY DEF AtWork
<1>3. fate'[c] = fate[c] \cup {"refused"} /\ \A d \in Ids \ {c} : fate'[d] = fate[d]
  BY <1>1 DEF Types
<1>4. \A u \in Threads \ {w} : todo[u] \notin Inserting \cup {Accepted2, Refused, Refused3, Refused2}
  BY OneListener DEF Listening
<1>5. /\ "refused" \notin fate[c]
      /\ c \notin connections => fate[c] \in {{"dropped"}, {"closed"}}
      /\ c \in connections => fate[c] \subseteq {"refused"}
  BY <1>1 DEF FateInv, FateOf, FateInMap
<1>6. OpenIds' = OpenIds
  <2>1. Inserters' = Inserters
    BY <1>2, Heads, Apart DEF Inserters, Inserting
  <2>. QED  BY <2>1 DEF OpenIds
<1>7. todo[w] \notin Counting /\ todo'[w] \in Counting
  BY <1>2, Heads, Apart DEF Counting
<1>8. Together
  <2>1. CASE c \in connections
    <3>1. Debtors' = Debtors
      BY <1>1, <1>2, <1>7, <2>1 DEF Debtors
    <3>2. Leaked' = Leaked /\ LoweredTwice' = LoweredTwice
      BY <1>3, <1>5, <2>1 DEF Leaked, LoweredTwice
    <3>. QED  BY <1>6, <3>1, <3>2 DEF Together, Counted
  <2>2. CASE c \notin connections
    <3>1. Debtors' = Debtors \cup {w} /\ w \notin Debtors
      BY <1>1, <1>2, <1>7, <2>2 DEF Debtors
    <3>2. Cardinality(Debtors') = Cardinality(Debtors) + 1
      BY <3>1, AllFinite, OneMore
    <3>3. CASE fate[c] = {"dropped"}
      <4>1. Leaked' = Leaked /\ LoweredTwice' = LoweredTwice \cup {c} /\ c \notin LoweredTwice
        BY <1>3, <3>3 DEF Leaked, LoweredTwice
      <4>2. Cardinality(LoweredTwice') = Cardinality(LoweredTwice) + 1
        BY <4>1, AllFinite, OneMore
      <4>. QED  BY <1>6, <3>2, <4>1, <4>2, CountedType DEF Together, Counted
    <3>4. CASE fate[c] = {"closed"}
      <4>1. Leaked' = Leaked \ {c} /\ c \in Leaked /\ LoweredTwice' = LoweredTwice
        BY <1>3, <3>4 DEF Leaked, LoweredTwice
      <4>2. Cardinality(Leaked') = Cardinality(Leaked) - 1
        BY <4>1, AllFinite, OneMore
      <4>. QED  BY <1>6, <3>2, <4>1, <4>2, CountedType DEF Together, Counted
    <3>. QED  BY <1>5, <2>2, <3>3, <3>4
  <2>. QED  BY <2>1, <2>2
<1>9. FateUnknown'
  BY <1>1, <1>3 DEF FateInv, FateUnknown, Issued
<1>10. FateInMap'
  <2>1. ASSUME NEW d \in connections
        PROVE  /\ fate'[d] \subseteq {"refused"}
               /\ "refused" \in fate'[d] => \E t \in Threads : todo'[t] = Refused /\ conn'[t] = d
    <3>1. CASE d = c
      BY <1>1, <1>2, <1>3, <1>5, <3>1
    <3>2. CASE d # c
      <4>1. fate'[d] = fate[d] /\ fate[d] \subseteq {"refused"}
        BY <1>3, <3>2 DEF FateInv, FateInMap, Types
      <4>2. \A t \in Threads : todo[t] # Refused
        BY <1>4, Heads, Apart
      <4>. QED  BY <4>1, <4>2 DEF FateInv, FateInMap
    <3>. QED  BY <3>1, <3>2
  <2>. QED  BY <2>1 DEF FateInMap
<1>11. FateOf(w)'
  <2>1. todo'[w] \notin Inserting \cup {Accepted2, Refused2, Disconnect3}
    BY <1>2, Heads, Apart DEF Inserting
  <2>. QED  BY <1>1, <1>3, <2>1 DEF FateOf
<1>12. ASSUME NEW u \in Threads \ {w}
       PROVE  FateOf(u)'
  <2>1. todo'[u] \notin Inserting \cup {Accepted2, Refused, Refused3, Refused2}
    BY <1>2, <1>4
  <2>2. CASE todo'[u] = Disconnect3
    <3>1. todo[u] = Disconnect3 /\ conn[u] \in Ids
      BY <1>2, <2>2, ConnAt, Heads, Apart
    <3>2. "dropped" \in fate[conn[u]] /\ "closed" \notin fate[conn[u]]
      BY <3>1 DEF FateInv, FateOf
    <3>. QED  BY <1>3, <2>1, <2>2, <3>1, <3>2 DEF FateOf
  <2>. QED  BY <2>1, <2>2 DEF FateOf
<1>. QED  BY <1>8, <1>9, <1>10, <1>11, <1>12 DEF FateInv

\* What a removal does to the fate of the connection.
LEMMA RemovedFate ==
    ASSUME IInv, NEW t \in Threads, RemoveFromMap(t), conn[t] \in connections
    PROVE  /\ conn[t] \in Ids /\ conn[t] \in Issued
           /\ connections' = connections \ {conn[t]}
           /\ UNCHANGED <<conn, next_conn_id, connection_counter>>
           /\ \A u \in Threads \ {t} : todo'[u] = todo[u]
           /\ \A d \in Ids \ {conn[t]} : fate'[d] = fate[d]
           /\ \/ todo[t] = Refused /\ todo'[t] = Refused3 /\ fate'[conn[t]] = fate[conn[t]]
              \/ /\ todo[t] = Disconnect /\ todo'[t] = Disconnect3
                 /\ fate'[conn[t]] = fate[conn[t]] \cup {"dropped"}
              \/ /\ todo[t] = CloseConnection /\ todo'[t] = Closing2
                 /\ fate'[conn[t]] = fate[conn[t]] \cup {"closed"}
<1> USE DEF IInv
<1>1. todo[t] \in {Refused, Disconnect, CloseConnection} /\ todo' = [todo EXCEPT ![t] = Tail(todo[t])]
  BY ProgramAt DEF RemoveFromMap, GoOn
<1>2. PICK c \in Ids : c = conn[t] /\ c \in Issued
  BY <1>1, ConnAt, Heads, Apart
<1>3. fate' = [fate EXCEPT ![c] = IF t \in Users THEN @ \cup {"closed"}
                                  ELSE IF HasListener(t) THEN @ ELSE @ \cup {"dropped"}]
  BY <1>2 DEF RemoveFromMap
<1>4. \A d \in Ids \ {c} : fate'[d] = fate[d]
  BY <1>3 DEF Types
<1>5. CASE todo[t] = Refused
  <2>1. t \notin Users /\ HasListener(t)
    BY <1>5, Listeners, Heads, Apart DEF AtWork, UserPrograms, Listening
  <2>. QED  BY <1>1, <1>2, <1>3, <1>4, <1>5, <2>1, Tails DEF RemoveFromMap, AtWork, Types, acceptVars
<1>6. CASE todo[t] = Disconnect
  <2>1. t \notin Users /\ ~HasListener(t)
    BY <1>6, DisconnectNotListening, Heads, Apart DEF AtWork, UserPrograms
  <2>. QED  BY <1>1, <1>2, <1>3, <1>4, <1>6, <2>1, Tails DEF RemoveFromMap, AtWork, Types, acceptVars
<1>7. CASE todo[t] = CloseConnection
  <2>1. t \in Users
    BY <1>7 DEF AtWork, Threads
  <2>. QED  BY <1>1, <1>2, <1>3, <1>4, <1>7, <2>1, Tails DEF RemoveFromMap, AtWork, Types, acceptVars
<1>. QED  BY <1>1, <1>5, <1>6, <1>7

\* A connection taken out of the map is no longer open.
LEMMA RemovedOpen ==
    ASSUME IInv, NEW t \in Threads, RemoveFromMap(t), conn[t] \in connections
    PROVE  Cardinality(OpenIds') = Cardinality(OpenIds) - 1
<1> USE DEF IInv
<1>1. \A u \in Threads : u \in Inserters => conn[u] # conn[t]
  BY DEF Inserters, Fresh
<1>2. Inserters' = Inserters
  <2>1. todo[t] \notin Inserting /\ todo'[t] \notin Inserting
    BY RemovedFate, Heads, Apart DEF Inserting
  <2>. QED  BY <2>1, RemovedFate DEF Inserters
<1>3. OpenIds' = OpenIds \ {conn[t]} /\ conn[t] \in OpenIds
  <2>1. connections' = connections \ {conn[t]} /\ conn' = conn
    BY RemovedFate
  <2>2. \A u \in Inserters : u \in Threads
    BY DEF Inserters
  <2>. QED  BY <1>1, <1>2, <2>1, <2>2 DEF OpenIds
<1>. QED  BY <1>3, AllFinite, OneMore

\* Who owes a place after it: the thread itself, but for a user, and the thread
\* whose on_connect has failed.
LEMMA RemovedDebtors ==
    ASSUME IInv, FateInv, NEW t \in Threads, RemoveFromMap(t), conn[t] \in connections
    PROVE  Debtors' = Debtors \cup {u \in Threads : /\ conn[u] = conn[t]
                                                    /\ \/ todo[u] = Refused
                                                       \/ u = t /\ todo[u] = Disconnect}
<1> USE DEF IInv
<1>1. PICK c : c = conn[t] /\ connections' = connections \ {c} /\ c \in connections /\ conn' = conn
  BY RemovedFate
<1>2. \A u \in Threads : todo[u] \in {Refused3, Disconnect3} => conn[u] # c
  BY <1>1 DEF Left, Removed
<1>3. \A u \in Threads \ {t} : todo'[u] = todo[u]
  BY RemovedFate
<1>4. /\ todo[t] \in {Refused, Disconnect, CloseConnection}
      /\ todo'[t] \in Counting <=> todo[t] \in {Refused, Disconnect}
      /\ todo[t] \in Counting <=> todo[t] = Refused
  BY RemovedFate, Heads, Apart DEF Counting
<1>5. t \notin Debtors /\ (t \in Debtors' <=> todo[t] \in {Refused, Disconnect})
  BY <1>1, <1>4 DEF Debtors
<1>6. ASSUME NEW u \in Threads \ {t}
      PROVE  u \in Debtors' <=> u \in Debtors \/ (conn[u] = c /\ todo[u] = Refused)
  <2>1. todo[u] \in Counting => todo[u] = Refused \/ conn[u] # c
    BY <1>1, <1>2 DEF Counting, FateInv, FateOf
  <2>2. Refused \in Counting
    BY DEF Counting
  <2>. QED  BY <1>1, <1>3, <2>1, <2>2 DEF Debtors
<1>7. Debtors \subseteq Threads /\ Debtors' \subseteq Threads
  BY DEF Debtors
<1>8. todo[t] = Refused => todo[t] # CloseConnection
  BY Apart
<1>. QED  BY <1>1, <1>4, <1>5, <1>6, <1>7

\* Every removal is counted: by the handler's own lowering, by a lowering that
\* never comes, or by one lowering too many.
LEMMA RemovedTogether ==
    ASSUME IInv, FateInv, NEW t \in Threads, RemoveFromMap(t), conn[t] \in connections
    PROVE  Together
<1> USE DEF IInv
<1>1. PICK c \in Ids : c = conn[t] /\ c \in connections
  BY RemovedFate
<1>2. fate[c] \subseteq {"refused"} /\ \A d \in Ids \ {c} : fate'[d] = fate[d]
  BY <1>1, RemovedFate DEF FateInv, FateInMap
<1>3. Cardinality(OpenIds') = Cardinality(OpenIds) - 1 /\ connection_counter' = connection_counter
  BY RemovedOpen, RemovedFate
<1>4. PICK E : E = {u \in Threads : conn[u] = c /\ (todo[u] = Refused \/ (u = t /\ todo[u] = Disconnect))}
  OBVIOUS
<1>5. Debtors' = Debtors \cup E /\ E \cap Debtors = {}
  <2>1. Debtors' = Debtors \cup E
    BY <1>1, <1>4, RemovedDebtors
  <2>. QED  BY <1>1, <1>4, <2>1 DEF Debtors
<1>6. \A u, v \in Threads : todo[u] = Refused /\ todo[v] = Refused => u = v
  BY DEF OneListens, Listening
<1>7. \A u \in Threads : todo[u] = Refused /\ conn[u] = c => "refused" \in fate[c]
  BY DEF FateInv, FateOf
<1>8. CASE todo[t] = Refused
  <2>1. E = {t}
    BY <1>1, <1>4, <1>6, <1>8
  <2>2. Cardinality(Debtors') = Cardinality(Debtors) + 1
    BY <1>5, <2>1, AllFinite, OneMore
  <2>3. Leaked' = Leaked /\ LoweredTwice' = LoweredTwice
    <3>1. fate'[c] = fate[c]
      BY <1>1, <1>8, RemovedFate, Apart
    <3>. QED  BY <1>2, <3>1 DEF Leaked, LoweredTwice
  <2>. QED  BY <1>3, <2>2, <2>3, CountedType DEF Together, Counted
<1>9. CASE todo[t] = Disconnect
  <2>1. fate'[c] = fate[c] \cup {"dropped"}
    BY <1>1, <1>9, RemovedFate, Apart
  <2>2. Leaked' = Leaked
    BY <1>2, <2>1 DEF Leaked
  <2>3. CASE "refused" \notin fate[c]
    <3>1. E = {t}
      BY <1>1, <1>4, <1>7, <1>9, <2>3
    <3>2. Cardinality(Debtors') = Cardinality(Debtors) + 1
      BY <1>5, <3>1, AllFinite, OneMore
    <3>3. LoweredTwice' = LoweredTwice
      BY <1>2, <2>1, <2>3 DEF LoweredTwice
    <3>. QED  BY <1>3, <2>2, <3>2, <3>3, CountedType DEF Together, Counted
  <2>4. CASE "refused" \in fate[c]
    <3>1. PICK r \in Threads : todo[r] = Refused /\ conn[r] = c
      BY <1>1, <2>4 DEF FateInv, FateInMap
    <3>2. E = {t, r} /\ t # r
      <4>1. t # r
        BY <1>9, <3>1, Apart
      <4>2. \A u \in E : u = t \/ u = r
        BY <1>4, <1>6, <3>1
      <4>3. t \in E /\ r \in E
        BY <1>1, <1>4, <1>9, <3>1
      <4>. QED  BY <4>1, <4>2, <4>3
    <3>3. Cardinality(Debtors') = Cardinality(Debtors) + 2
      <4>1. PICK S : S = Debtors \cup {t}
        OBVIOUS
      <4>2. t \notin Debtors /\ r \notin S /\ Debtors' = S \cup {r}
        BY <1>5, <3>2, <4>1
      <4>3. IsFiniteSet(S) /\ Cardinality(S) = Cardinality(Debtors) + 1
        BY <4>1, <4>2, AllFinite, FS_AddElement
      <4>4. Cardinality(Debtors') = Cardinality(S) + 1
        BY <4>2, <4>3, OneMore
      <4>. QED  BY <4>3, <4>4, CountedType
    <3>4. LoweredTwice' = LoweredTwice \cup {c} /\ c \notin LoweredTwice
      BY <1>2, <2>1, <2>4 DEF LoweredTwice
    <3>5. Cardinality(LoweredTwice') = Cardinality(LoweredTwice) + 1
      BY <3>4, AllFinite, OneMore
    <3>. QED  BY <1>3, <2>2, <3>3, <3>5, CountedType DEF Together, Counted
  <2>. QED  BY <2>3, <2>4
<1>10. CASE todo[t] = CloseConnection
  <2>1. fate'[c] = fate[c] \cup {"closed"}
    BY <1>1, <1>10, RemovedFate, Apart
  <2>2. LoweredTwice' = LoweredTwice
    BY <1>2, <2>1 DEF LoweredTwice
  <2>3. CASE "refused" \notin fate[c]
    <3>1. E = {}
      BY <1>4, <1>7, <1>10, <2>3, Apart
    <3>2. Debtors' = Debtors
      BY <1>5, <3>1
    <3>3. Leaked' = Leaked \cup {c} /\ c \notin Leaked
      BY <1>2, <2>1, <2>3 DEF Leaked
    <3>4. Cardinality(Leaked') = Cardinality(Leaked) + 1
      BY <3>3, AllFinite, OneMore
    <3>. QED  BY <1>3, <2>2, <3>2, <3>4, CountedType DEF Together, Counted
  <2>4. CASE "refused" \in fate[c]
    <3>1. PICK r \in Threads : todo[r] = Refused /\ conn[r] = c
      BY <1>1, <2>4 DEF FateInv, FateInMap
    <3>2. E = {r}
      <4>1. \A u \in E : u = r
        BY <1>4, <1>6, <1>10, <3>1, Apart
      <4>2. r \in E
        BY <1>4, <3>1
      <4>. QED  BY <4>1, <4>2
    <3>3. Cardinality(Debtors') = Cardinality(Debtors) + 1
      BY <1>5, <3>2, AllFinite, OneMore
    <3>4. Leaked' = Leaked
      BY <1>2, <2>1, <2>4 DEF Leaked
    <3>. QED  BY <1>3, <2>2, <3>3, <3>4, CountedType DEF Together, Counted
  <2>. QED  BY <2>3, <2>4
<1>. QED  BY <1>8, <1>9, <1>10, RemovedFate

\* And keeps the fates.
LEMMA RemovedFates ==
    ASSUME IInv, FateInv, NEW t \in Threads, RemoveFromMap(t), conn[t] \in connections
    PROVE  FateInv'
<1> USE DEF IInv
<1>1. PICK c \in Ids : c = conn[t] /\ c \in connections /\ c \in Issued /\ connections' = connections \ {c}
  BY RemovedFate
<1>2. fate[c] \subseteq {"refused"} /\ \A d \in Ids \ {c} : fate'[d] = fate[d]
  BY <1>1, RemovedFate DEF FateInv, FateInMap
<1>3. /\ fate[c] \subseteq fate'[c]
      /\ fate'[c] = fate[c] \/ fate'[c] \in {fate[c] \cup {"dropped"}, fate[c] \cup {"closed"}}
      /\ todo[t] \notin {Disconnect, CloseConnection} => todo[t] = Refused
      /\ fate'[c] = fate[c] => todo[t] = Refused
  <2>1. {"dropped", "closed"} \cap fate[c] = {}
    BY <1>2
  <2>. QED  BY <1>1, <2>1, RemovedFate
<1>4. UNCHANGED <<conn, next_conn_id>> /\ \A u \in Threads \ {t} : todo'[u] = todo[u]
  BY RemovedFate
<1>5. FateUnknown'
  BY <1>1, <1>2, <1>4 DEF FateInv, FateUnknown, Issued
<1>6. FateInMap'
  <2>1. ASSUME NEW d \in connections \ {c}
        PROVE  /\ fate'[d] \subseteq {"refused"}
               /\ "refused" \in fate'[d] => \E u \in Threads : todo'[u] = Refused /\ conn'[u] = d
    <3>1. fate'[d] = fate[d] /\ fate[d] \subseteq {"refused"}
      BY <1>2 DEF FateInv, FateInMap, Types
    <3>2. ASSUME "refused" \in fate[d]
          PROVE  \E u \in Threads : todo'[u] = Refused /\ conn'[u] = d
      <4>1. PICK u \in Threads : todo[u] = Refused /\ conn[u] = d
        BY <3>2 DEF FateInv, FateInMap
      <4>2. u # t
        BY <1>1, <4>1
      <4>. QED  BY <1>4, <4>1, <4>2
    <3>. QED  BY <3>1, <3>2
  <2>. QED  BY <1>1, <2>1 DEF FateInMap
<1>7. FateOf(t)'
  <2>1. conn'[t] = c /\ c \notin connections'
    BY <1>1, <1>4
  <2>2. CASE todo[t] = Refused /\ todo'[t] = Refused3
    <3>1. "refused" \in fate'[c]
      BY <1>1, <1>3, <2>2 DEF FateInv, FateOf
    <3>. QED  BY <2>1, <2>2, <3>1, Heads, Apart DEF FateOf, Inserting
  <2>3. CASE todo'[t] = Disconnect3 /\ fate'[c] = fate[c] \cup {"dropped"}
    <3>1. "dropped" \in fate'[c] /\ "closed" \notin fate'[c]
      BY <1>2, <2>3
    <3>. QED  BY <2>1, <2>3, <3>1, Heads, Apart DEF FateOf, Inserting
  <2>4. CASE todo'[t] = Closing2
    BY <2>4, Heads, Apart DEF FateOf, Inserting
  <2>. QED  BY <1>1, <2>2, <2>3, <2>4, RemovedFate
<1>8. ASSUME NEW u \in Threads \ {t}, todo[u] \notin {<<>>, Accepted1, Dead}
      PROVE  FateOf(u)'
  <2>1. FateOf(u) /\ conn'[u] = conn[u] /\ todo'[u] = todo[u] /\ conn[u] \in Ids
    BY <1>4, <1>8, ConnAt DEF FateInv
  <2>2. CASE conn[u] # c
    BY <1>1, <1>2, <2>1, <2>2 DEF FateOf
  <2>3. CASE conn[u] = c
    <3>1. todo[u] \notin Inserting /\ todo[u] # Disconnect3
      BY <1>1, <2>3 DEF Fresh, Left, Removed
    <3>2. todo[u] = Accepted2 => "refused" \notin fate'[c] /\ fate'[c] \in {{"dropped"}, {"closed"}}
      <4>1. ASSUME todo[u] = Accepted2
            PROVE  "refused" \notin fate'[c] /\ fate'[c] \in {{"dropped"}, {"closed"}}
        <5>1. fate[c] = {}
          BY <1>2, <2>1, <2>3, <4>1 DEF FateOf
        <5>2. todo[t] # Refused
          BY <4>1, OneListener DEF Listening
        <5>. QED  BY <1>3, <5>1, <5>2
      <4>. QED  BY <4>1
    <3>3. todo[u] # Refused2
      BY <1>1, <2>1, <2>3 DEF FateOf
    <3>4. todo[u] \in {Refused, Refused3} => "refused" \in fate'[c]
      BY <1>3, <2>1, <2>3 DEF FateOf
    <3>. QED  BY <2>1, <2>3, <3>1, <3>2, <3>3, <3>4 DEF FateOf
  <2>. QED  BY <2>2, <2>3
<1>9. ASSUME NEW u \in Threads \ {t}, todo[u] \in {<<>>, Accepted1, Dead}
      PROVE  FateOf(u)'
  BY <1>4, <1>9, Heads, Apart DEF FateOf, Inserting
<1>. QED  BY <1>5, <1>6, <1>7, <1>8, <1>9 DEF FateInv

\* A connection is no longer counted.
LEMMA LowerCount ==
    ASSUME IInv, FateInv, NEW t \in Threads, Lower(t)
    PROVE  FateInv' /\ Together
<1> USE DEF IInv
<1>1. todo[t] \in {Refused2, Disconnect3} /\ todo' = [todo EXCEPT ![t] = Tail(todo[t])]
  BY ProgramAt DEF Lower, GoOn
<1>2. todo'[t] \in {Accepted1, Closing2} /\ \A u \in Threads \ {t} : todo'[u] = todo[u]
  BY <1>1, Tails DEF AtWork
<1>3. UNCHANGED <<conn, connections, fate, next_conn_id>> /\ connection_counter' = Lowered
  BY DEF Lower, acceptVars, history
<1>4. conn[t] \notin connections
  BY <1>1 DEF Left, Removed, FateInv, FateOf
<1>5. /\ todo[t] \in Counting /\ todo'[t] \notin Counting
      /\ todo[t] \notin Inserting /\ todo'[t] \notin Inserting
  BY <1>1, <1>2, Heads, Apart DEF Counting, Inserting
<1>6. Debtors' = Debtors \ {t} /\ t \in Debtors
  BY <1>2, <1>3, <1>4, <1>5 DEF Debtors
<1>7. OpenIds' = OpenIds /\ Leaked' = Leaked /\ LoweredTwice' = LoweredTwice
  <2>1. Inserters' = Inserters
    BY <1>2, <1>5 DEF Inserters
  <2>. QED  BY <1>3, <2>1 DEF OpenIds, Leaked, LoweredTwice
<1>8. Cardinality(Debtors') = Cardinality(Debtors) - 1
  BY <1>6, AllFinite, OneMore
<1>9. Together
  BY <1>3, <1>7, <1>8, CountedType DEF Together, Counted
<1>10. FateUnknown'
  BY <1>3 DEF FateInv, FateUnknown, Issued
<1>11. FateInMap'
  <2>1. todo[t] # Refused
    BY <1>1, Heads, Apart
  <2>. QED  BY <1>2, <1>3, <2>1 DEF FateInv, FateInMap
<1>12. FateOf(t)'
  BY <1>2, Heads, Apart DEF FateOf, Inserting
<1>13. ASSUME NEW u \in Threads \ {t}
       PROVE  FateOf(u)'
  BY <1>2, <1>3 DEF FateInv, FateOf
<1>. QED  BY <1>9, <1>10, <1>11, <1>12, <1>13 DEF FateInv

--------------------------------------------------------------------------------
(***************************************************************************)
(* The other steps, and all of them.                                       *)
(***************************************************************************)
\* A thread that goes on unnoticed, alone.
LEMMA OneQuiet ==
    ASSUME AtWork, NEW t \in Threads, NEW q, Unnoticed(todo[t], q), todo' = [todo EXCEPT ![t] = q],
           UNCHANGED <<next_conn_id, connection_counter, connections, fate>>,
           conn' = conn \/ (todo[t] = <<>> /\ \A u \in Threads \ {t} : conn'[u] = conn[u]),
           q = Refused2 => conn[t] \notin connections,
           FateInv
    PROVE  QuietStep
<1>1. todo'[t] = q /\ \A u \in Threads \ {t} : todo'[u] = todo[u] /\ conn'[u] = conn[u]
  BY DEF AtWork
<1>2. \A u \in Threads \ {t} : Unnoticed(todo[u], todo'[u])
  BY <1>1, UnnoticedMoves DEF AtWork
<1>3. \A u \in Threads \ {t} : todo'[u] = Refused2 => conn'[u] \notin connections
  BY <1>1 DEF FateInv, FateOf
<1>4. <<>> \notin Inserting \cup Counting \cup {Accepted2} /\ (todo[t] = <<>> => q # Refused2)
  BY Apart DEF Inserting, Counting, Unnoticed
<1>5. /\ todo[t] \in Inserting \cup Counting \cup {Accepted2} => conn'[t] = conn[t]
      /\ todo'[t] = Refused2 => conn'[t] \notin connections
  BY <1>1, <1>4
<1>. QED  BY <1>1, <1>2, <1>3, <1>5 DEF QuietStep

\* Nobody goes on.
LEMMA NoneQuiet ==
    ASSUME AtWork, FateInv,
           UNCHANGED <<todo, conn, next_conn_id, connection_counter, connections, fate>>
    PROVE  QuietStep
<1>1. \A u \in Threads : Unnoticed(todo[u], todo'[u])
  BY UnnoticedMoves DEF AtWork
<1>. QED  BY <1>1 DEF QuietStep, FateInv, FateOf

\* The steps outside the functions of the server.
LEMMA OutsideQuiet ==
    ASSUME IInv, FateInv,
           \/ PeerConnects \/ UNCHANGED vars
           \/ \E c \in Ids : PeerSends(c) \/ PeerEnds(c) \/ \E u \in Users : Close(u, c)
           \/ \E w \in Workers : ListenerEvent(w) \/ EventLost(w) \/ \E c \in Ids : ConnectionEvent(w, c)
    PROVE  QuietStep
<1> USE DEF IInv
<1>1. CASE PeerConnects \/ UNCHANGED vars \/ \E c \in Ids : PeerSends(c) \/ PeerEnds(c)
  BY <1>1, NoneQuiet DEF PeerConnects, PeerSends, PeerEnds, acceptVars, mapVars, threadVars, history, vars
<1>2. ASSUME NEW u \in Users, NEW c \in Ids, Close(u, c)
      PROVE  QuietStep
  <2>1. /\ u \in Threads /\ todo[u] = <<>> /\ todo' = [todo EXCEPT ![u] = CloseConnection]
        /\ \A v \in Threads \ {u} : conn'[v] = conn[v]
        /\ UNCHANGED <<next_conn_id, connection_counter, connections, fate>>
    BY <1>2 DEF Close, Idle, Become, acceptVars, mapVars, history, Threads, Types
  <2>2. Unnoticed(todo[u], CloseConnection) /\ CloseConnection # Refused2
    BY <2>1, UnnoticedMoves, Heads
  <2>. QED  BY <2>1, <2>2, OneQuiet
<1>3. ASSUME NEW w \in Workers, ListenerEvent(w)
      PROVE  QuietStep
  <2>1. /\ w \in Threads /\ todo[w] = <<>> /\ todo' = [todo EXCEPT ![w] = Accepted1] /\ conn' = conn
        /\ UNCHANGED <<next_conn_id, connection_counter, connections, fate>>
    BY <1>3 DEF ListenerEvent, Idle, Become, Accepted1, mapVars, history, Threads
  <2>2. Unnoticed(todo[w], Accepted1) /\ Accepted1 # Refused2
    BY <2>1, UnnoticedMoves, Heads
  <2>. QED  BY <2>1, <2>2, OneQuiet
<1>4. ASSUME NEW w \in Workers, NEW c \in Ids, ConnectionEvent(w, c)
      PROVE  QuietStep
  <2>1. /\ w \in Threads /\ todo[w] = <<>> /\ todo' = [todo EXCEPT ![w] = Reading]
        /\ \A v \in Threads \ {w} : conn'[v] = conn[v]
        /\ UNCHANGED <<next_conn_id, connection_counter, connections, fate>>
    BY <1>4 DEF ConnectionEvent, Idle, Become, Reading, acceptVars, mapVars, history, Threads, Types
  <2>2. Unnoticed(todo[w], Reading) /\ Reading # Refused2
    BY <2>1, UnnoticedMoves, Heads
  <2>. QED  BY <2>1, <2>2, OneQuiet
<1>5. ASSUME NEW w \in Workers, EventLost(w)
      PROVE  QuietStep
  BY <1>5, NoneQuiet DEF EventLost, mapVars, threadVars
<1>. QED  BY <1>1, <1>2, <1>3, <1>4, <1>5

\* Steps of the functions that move nothing that is counted.
LEMMA InsideQuiet ==
    ASSUME IInv, FateInv, NEW t \in Threads,
           \/ Register(t) \/ Read(t) \/ OnData(t) \/ Deregister(t) \/ Tell(t)
           \/ AcceptFails(t)
           \/ /\ OnConnect(t) /\ fate' = fate
              /\ todo' = [todo EXCEPT ![t] = Tail(@)] \/ todo' = [todo EXCEPT ![t] = Dead]
           \/ RemoveFromMap(t) /\ conn[t] \notin connections
    PROVE  QuietStep
<1> USE DEF IInv, GoOn, Become, acceptVars, mapVars, history
<1>1. UNCHANGED <<conn, next_conn_id, connection_counter, connections, fate>>
  BY DEF Register, Read, OnData, Deregister, Tell, AcceptFails, OnConnect, RemoveFromMap
<1>2. PICK q : /\ todo' = [todo EXCEPT ![t] = q] /\ Unnoticed(todo[t], q)
               /\ q = Refused2 => conn[t] \notin connections
  <2>1. CASE Register(t)
    <3>1. todo[t] = Accepted /\ todo' = [todo EXCEPT ![t] = Accepted3]
      BY <2>1, ProgramAt, Tails DEF Register
    <3>. QED  BY <3>1, UnnoticedMoves, Heads
  <2>2. CASE Read(t)
    <3>1. todo[t] = Reading
      BY <2>2, ProgramAt DEF Read
    <3>2. \/ todo' = [todo EXCEPT ![t] = Receiving]
          \/ todo' = [todo EXCEPT ![t] = Disconnect]
          \/ todo' = [todo EXCEPT ![t] = <<>>]
      BY <2>2 DEF Read, Receiving
    <3>. QED  BY <3>1, <3>2, UnnoticedMoves, Heads, Apart
  <2>3. CASE OnData(t)
    <3>1. todo[t] = Receiving
      BY <2>3, ProgramAt DEF OnData
    <3>2. \/ todo' = [todo EXCEPT ![t] = <<>>]
          \/ todo' = [todo EXCEPT ![t] = Disconnect]
          \/ todo' = [todo EXCEPT ![t] = Dead]
      BY <2>3, <3>1, Tails DEF OnData, Dies, Dead
    <3>. QED  BY <3>1, <3>2, UnnoticedMoves, Heads, Apart
  <2>4. CASE Deregister(t)
    <3>1. todo[t] \in {Refused3, Closing2} /\ todo' = [todo EXCEPT ![t] = Tail(todo[t])]
      BY <2>4, ProgramAt DEF Deregister
    <3>2. conn[t] \notin connections
      BY <3>1 DEF Left, Removed
    <3>. QED  BY <3>1, <3>2, UnnoticedMoves, Tails
  <2>5. CASE Tell(t)
    <3>1. /\ todo[t] = Closing1
          /\ todo' = [todo EXCEPT ![t] = <<>>] \/ todo' = [todo EXCEPT ![t] = Dead]
      BY <2>5, ProgramAt, Tails DEF Tell, Dies, Dead
    <3>. QED  BY <3>1, UnnoticedMoves, Heads, Apart
  <2>6. CASE /\ OnConnect(t)
             /\ todo' = [todo EXCEPT ![t] = Tail(@)] \/ todo' = [todo EXCEPT ![t] = Dead]
    <3>1. /\ todo[t] = Accepted2
          /\ todo' = [todo EXCEPT ![t] = Accepted1] \/ todo' = [todo EXCEPT ![t] = Dead]
      BY <2>6, ProgramAt, Tails DEF OnConnect
    <3>. QED  BY <3>1, UnnoticedMoves, Heads
  <2>7. CASE RemoveFromMap(t) /\ conn[t] \notin connections
    <3>1. todo[t] \in {Refused, Disconnect, CloseConnection}
      BY <2>7, ProgramAt DEF RemoveFromMap
    <3>2. todo' = [todo EXCEPT ![t] = IF todo[t] = Refused THEN Refused2 ELSE <<>>]
      <4>1. "accept" \in ToSet(Refused)
        BY Rests DEF InLoop, Listening
      <4>. QED  BY <2>7, <3>1, <4>1, Rests, Apart DEF RemoveFromMap, UnlessThere, Refused2
    <3>. QED  BY <2>7, <3>1, <3>2, UnnoticedMoves, Apart
  <2>8. CASE AcceptFails(t)
    <3>1. todo[t] = Accepted1 /\ todo' = [todo EXCEPT ![t] = <<>>]
      BY <2>8, Tails DEF AcceptFails, Accepted1
    <3>. QED  BY <3>1, UnnoticedMoves, Apart
  <2>. QED  BY <2>1, <2>2, <2>3, <2>4, <2>5, <2>6, <2>7, <2>8
<1>. QED  BY <1>1, <1>2, OneQuiet

\* Who is in the accept loop, and nobody else, is at the listener.
LEMMA NobodyListens ==
    ASSUME IInv, NEW w \in Threads, Accept(w)
    PROVE  todo[w] = Accepted1 /\ \A u \in Threads : todo[u] \notin Listening
<1> USE DEF IInv
<1>1. todo[w] = Accepted1
  BY DEF Accept, Accepted1
<1>2. \A u \in Users : todo[u] \notin Listening
  BY Heads, Apart DEF AtWork, UserPrograms, Listening
<1>3. \A u \in Workers : todo[u] \notin Listening
  BY Listeners DEF Accept, Threads
<1>. QED  BY <1>1, <1>2, <1>3 DEF Threads

\* A turn of the accept loop without an admission.
LEMMA AcceptQuiet ==
    ASSUME IInv, FateInv, NEW w \in Threads, Accept(w), ~(waiting > 0 /\ Admits)
    PROVE  QuietStep
<1> USE DEF IInv
<1>1. CASE waiting = 0
  <2>1. todo[w] = Accepted1
    BY NobodyListens
  <2>2. /\ todo' = [todo EXCEPT ![w] = <<>>]
        /\ UNCHANGED <<conn, next_conn_id, connection_counter, connections, fate>>
    BY <1>1, <2>1, Tails DEF Accept, GoOn, acceptVars, mapVars, history
  <2>. QED  BY <2>1, <2>2, UnnoticedMoves, Apart, OneQuiet
<1>2. CASE waiting > 0 /\ ~Admits
  <2>1. UNCHANGED <<todo, conn, next_conn_id, connection_counter, connections, fate>>
    BY <1>2 DEF Accept, GoOn, threadVars, history
  <2>. QED  BY <2>1, NoneQuiet
<1>. QED  BY <1>1, <1>2, ServerAssumption DEF Types

\* Any turn of the accept loop.
LEMMA AcceptCount ==
    ASSUME IInv, FateInv, NEW w \in Threads, Accept(w)
    PROVE  FateInv' /\ Together
<1> USE DEF IInv
<1>1. CASE ~(waiting > 0 /\ Admits)
  BY <1>1, AcceptQuiet, QuietFate, QuietSets DEF QuietStep, Together, Counted
<1>2. CASE waiting > 0 /\ Admits
  <2>1. /\ connection_counter' = Raised /\ next_conn_id' = next_conn_id + 1
        /\ conn' = [conn EXCEPT ![w] = next_conn_id] /\ todo' = [todo EXCEPT ![w] = Accepted]
        /\ UNCHANGED <<connections, fate>>
    BY <1>2 DEF Accept, Become, history
  <2>2. next_conn_id \in Ids
    BY <1>2, ServerAssumption DEF Types, Ids
  <2>. QED  BY <2>1, <2>2, NobodyListens, AdmitCount
<1>. QED  BY <1>1, <1>2

\* Every step keeps the fates, and counter and count together.
LEMMA NextTogether ==
    ASSUME IInv, FateInv, [Next]_vars
    PROVE  FateInv' /\ Together
<1>1. ASSUME QuietStep
      PROVE  FateInv' /\ Together
  BY <1>1, QuietFate, QuietSets DEF QuietStep, Together, Counted
<1>2. ASSUME NEW t \in Threads, Step(t)
      PROVE  FateInv' /\ Together
  <2>1. CASE OnConnect(t)
    <3>1. todo[t] = Accepted2
      BY <2>1, ProgramAt DEF OnConnect, IInv
    <3>2. CASE /\ fate' = fate
               /\ todo' = [todo EXCEPT ![t] = Tail(@)] \/ todo' = [todo EXCEPT ![t] = Dead]
      BY <1>1, <2>1, <3>2, InsideQuiet
    <3>3. CASE /\ todo' = [todo EXCEPT ![t] = Refused]
               /\ fate' = [fate EXCEPT ![conn[t]] = @ \cup {"refused"}]
      <4>1. UNCHANGED <<conn, connections, next_conn_id, connection_counter>>
        BY <2>1 DEF OnConnect, acceptVars, mapVars
      <4>. QED  BY <3>1, <3>3, <4>1, RefusedCount
    <3>. QED  BY <2>1, <3>2, <3>3 DEF OnConnect, GoOn, Become, Dies, Dead
  <2>2. CASE RemoveFromMap(t)
    BY <1>1, <2>2, InsideQuiet, RemovedTogether, RemovedFates
  <2>3. CASE Register(t) \/ Read(t) \/ OnData(t) \/ Deregister(t) \/ Tell(t) \/ AcceptFails(t)
    BY <1>1, <2>3, InsideQuiet
  <2>4. CASE Accept(t) \/ RegisterFails(t) \/ Insert(t) \/ Lower(t)
    BY <2>4, AcceptCount, RegisterFailsCount, InsertCount, LowerCount
  <2>. QED  BY <1>2, <2>1, <2>2, <2>3, <2>4 DEF Step
<1>. QED  BY <1>1, <1>2, OutsideQuiet DEF Next

\* Nothing has happened to a connection yet, and none is counted.
LEMMA InitCount == Init => FateInv /\ CountInv
<1> SUFFICES ASSUME Init PROVE FateInv /\ CountInv
  OBVIOUS
<1>1. \A t \in Threads : todo[t] = <<>>
  BY DEF Init
<1>2. FateInv
  BY <1>1, Apart DEF Init, FateInv, FateUnknown, FateInMap, FateOf, Inserting
<1>3. OpenIds = {} /\ Debtors = {} /\ Leaked = {} /\ LoweredTwice = {}
  <2>1. \A t \in Threads : todo[t] \notin Inserting /\ todo[t] \notin Counting
    BY <1>1, Apart DEF Inserting, Counting
  <2>2. OpenIds = {} /\ Debtors = {}
    BY <2>1 DEF Init, OpenIds, Inserters, Debtors
  <2>. QED  BY <2>2 DEF Init, Leaked, LoweredTwice
<1>4. Counted = 0
  BY <1>3, FS_EmptySet DEF Counted
<1>5. connection_counter = Counted + 0 * CounterModulus /\ 0 \in Int
  BY <1>4, ServerAssumption DEF Init
<1>. QED  BY <1>2, <1>5 DEF CountInv

\* Both hold in every reachable state.
LEMMA Counts == Spec => [](FateInv /\ CountInv)
<1>1. IInv /\ FateInv /\ CountInv /\ [Next]_vars => (FateInv /\ CountInv)'
  BY NextTogether, CountKept DEF IInv
<1>. QED  BY <1>1, InitCount, Invariant, PTL DEF Spec

\* Turns of the modulus leave no remainder.
LEMMA Turns ==
    ASSUME NEW c \in Int, NEW m \in Nat \ {0}, NEW j \in Int, 0 <= c, c < m
    PROVE  (c + j * m) % m = c
OBVIOUS

--------------------------------------------------------------------------------
(***************************************************************************)
(* The limit: the count does not turn the counter over upwards, so that a  *)
(* counter below the limit means fewer connections than the limit.         *)
(***************************************************************************)
\* Different connections are as many as the threads that are at them.
LEMMA AsManyConns ==
    ASSUME NEW T, IsFiniteSet(T), NEW f, \A t, u \in T : f[t] = f[u] => t = u,
           NEW C, C = {f[t] : t \in T}, IsFiniteSet(C)
    PROVE  Cardinality(T) <= Cardinality(C)
<1>1. PICK g : g = [t \in T |-> f[t]]
  OBVIOUS
<1>2. g \in Injection(T, C)
  BY <1>1, Zenon DEF Injection, IsInjective
<1>. QED  BY <1>2, FS_Injection

\* Two disjoint sets.
LEMMA TwoSets ==
    ASSUME NEW S, IsFiniteSet(S), NEW T, IsFiniteSet(T), S \cap T = {}
    PROVE  /\ IsFiniteSet(S \cup T)
           /\ Cardinality(S \cup T) = Cardinality(S) + Cardinality(T)
<1>1. PICK I : I = S \cap T /\ I = {}
  OBVIOUS
<1>2. Cardinality(I) = 0
  BY <1>1, FS_EmptySet
<1>3. IsFiniteSet(S \cup T) /\ Cardinality(S \cup T) = Cardinality(S) + Cardinality(T) - Cardinality(I)
  BY <1>1, FS_Union
<1>4. Cardinality(S) \in Nat /\ Cardinality(T) \in Nat
  BY FS_CardinalityType
<1>. QED  BY <1>2, <1>3, <1>4

\* Disjoint sets of connections are no more than there are ids.
LEMMA ThreeSets ==
    ASSUME NEW A, NEW B, NEW C, A \cup B \cup C \subseteq Ids,
           A \cap B = {}, A \cap C = {}, B \cap C = {}
    PROVE  /\ Cardinality(A) \in Nat /\ Cardinality(B) \in Nat /\ Cardinality(C) \in Nat
           /\ Cardinality(A) + Cardinality(B) + Cardinality(C) <= MaxIds
<1>1. IsFiniteSet(Ids) /\ Cardinality(Ids) = MaxIds
  <2>1. 1 \in Int /\ MaxIds \in Int /\ MaxIds \in Nat
    BY ServerAssumption
  <2>2. IsFiniteSet(1 .. MaxIds) /\ Cardinality(1 .. MaxIds) = IF 1 > MaxIds THEN 0 ELSE MaxIds - 1 + 1
    BY <2>1, FS_Interval
  <2>. QED  BY <2>1, <2>2 DEF Ids
<1>2. IsFiniteSet(A) /\ IsFiniteSet(B) /\ IsFiniteSet(C)
  BY <1>1, FS_Subset
<1>3. Cardinality(A) \in Nat /\ Cardinality(B) \in Nat /\ Cardinality(C) \in Nat
  BY <1>2, FS_CardinalityType
<1>4. PICK D : D = A \cup B
  OBVIOUS
<1>5. IsFiniteSet(D) /\ Cardinality(D) = Cardinality(A) + Cardinality(B)
  BY <1>2, <1>4, TwoSets
<1>6. Cardinality(D \cup C) = Cardinality(D) + Cardinality(C)
  <2>1. D \cap C = {}
    BY <1>4
  <2>. QED  BY <1>2, <1>5, <2>1, TwoSets
<1>7. Cardinality(D \cup C) <= MaxIds
  BY <1>1, <1>4, FS_Subset
<1>. QED  BY <1>3, <1>5, <1>6, <1>7

\* The count is less than the modulus: every place that is owed but one is that
\* of another connection, and the one is lowered twice if it is not.
LEMMA CountBelow ==
    ASSUME IInv, FateInv
    PROVE  Counted < CounterModulus
<1> USE DEF IInv
<1>1. PICK P : P = {t \in Threads : todo[t] = Disconnect3}
  OBVIOUS
<1>2. PICK D : D = {conn[t] : t \in P}
  OBVIOUS
<1>3. /\ D \subseteq Ids /\ D \cap OpenIds = {} /\ D \cap Leaked = {}
      /\ \A c \in D : "dropped" \in fate[c]
  <2>1. ASSUME NEW t \in P
        PROVE  conn[t] \in Ids /\ conn[t] \notin OpenIds /\ conn[t] \notin Leaked /\ "dropped" \in fate[conn[t]]
    <3>1. t \in Threads /\ todo[t] = Disconnect3
      BY <1>1
    <3>2. conn[t] \in Ids
      BY <3>1, ConnAt, Heads, Apart
    <3>3. conn[t] \notin OpenIds
      BY <3>1 DEF Left, Removed, OpenIds, Inserters
    <3>4. "dropped" \in fate[conn[t]] /\ "closed" \notin fate[conn[t]]
      BY <3>1 DEF FateInv, FateOf
    <3>. QED  BY <3>2, <3>3, <3>4 DEF Leaked
  <2>. QED  BY <1>2, <2>1
<1>4. OpenIds \cap Leaked = {}
  <2>1. \A c \in OpenIds : "closed" \notin fate[c]
    BY DEF OpenIds, Inserters, FateInv, FateInMap, FateOf
  <2>. QED  BY <2>1 DEF Leaked
<1>5. IsFiniteSet(P) /\ Cardinality(P) \in Nat /\ Cardinality(P) <= Cardinality(D)
  <2>1. IsFiniteSet(P) /\ IsFiniteSet(D)
    BY <1>1, <1>3, AllFinite, FS_Subset
  <2>2. \A t, u \in P : conn[t] = conn[u] => t = u
    BY <1>1 DEF ToldOnce, Telling
  <2>. QED  BY <1>2, <2>1, <2>2, AsManyConns, FS_CardinalityType
<1>6. P \subseteq Debtors
  BY <1>1 DEF Debtors, Counting, Left, Removed
<1>7. CASE Debtors = P
  <2>1. Cardinality(OpenIds) + Cardinality(Leaked) + Cardinality(D) <= MaxIds /\ Cardinality(D) \in Nat
    BY <1>3, <1>4, AllFinite, ThreeSets
  <2>. QED  BY <1>5, <1>7, <2>1, CountedType, ServerAssumption DEF Counted
<1>8. ASSUME NEW d \in Debtors, d \notin P
      PROVE  Counted < CounterModulus
  <2>1. /\ d \in Threads /\ todo[d] \in {Refused, Refused3, Refused2} /\ conn[d] \notin connections
        /\ conn[d] \in Ids
    BY <1>1, <1>8, ConnAt, Heads, Apart DEF Debtors, Counting
  <2>2. PICK c \in Ids : c = conn[d] /\ "refused" \in fate[c] /\ c \notin connections
    BY <2>1 DEF FateInv, FateOf
  <2>3. Debtors = P \cup {d} /\ Cardinality(Debtors) = Cardinality(P) + 1
    <3>1. \A u \in Debtors : u \in P \/ u = d
      BY <1>1, <2>1, OneListener DEF Debtors, Counting, Listening
    <3>2. Debtors = P \cup {d}
      BY <1>6, <1>8, <3>1
    <3>. QED  BY <1>5, <1>8, <3>2, OneMore
  <2>4. c \notin OpenIds /\ c \notin Leaked
    <3>1. todo[d] \notin Inserting /\ \A u \in Threads \ {d} : todo[u] \notin Inserting
      BY <2>1, OneListener, Heads, Apart DEF Listening, Inserting
    <3>2. Inserters = {}
      BY <3>1 DEF Inserters
    <3>. QED  BY <2>2, <3>2 DEF OpenIds, Leaked
  <2>5. CASE c \in D
    <3>1. c \in LoweredTwice
      BY <1>3, <2>2, <2>5 DEF LoweredTwice
    <3>2. Cardinality(LoweredTwice) # 0 /\ Cardinality(LoweredTwice) \in Nat
      BY <3>1, AllFinite, FS_EmptySet, FS_CardinalityType
    <3>3. Cardinality(OpenIds) + Cardinality(Leaked) + Cardinality(D) <= MaxIds /\ Cardinality(D) \in Nat
      BY <1>3, <1>4, AllFinite, ThreeSets
    <3>. QED  BY <1>5, <2>3, <3>2, <3>3, CountedType, ServerAssumption DEF Counted
  <2>6. CASE c \notin D
    <3>1. PICK E : E = D \cup {c}
      OBVIOUS
    <3>2. Cardinality(E) = Cardinality(D) + 1 /\ Cardinality(D) \in Nat
      <4>1. IsFiniteSet(D)
        BY <1>3, AllFinite, FS_Subset
      <4>. QED  BY <2>6, <3>1, <4>1, OneMore, FS_CardinalityType
    <3>3. Cardinality(OpenIds) + Cardinality(Leaked) + Cardinality(E) <= MaxIds
      <4>1. OpenIds \cap E = {} /\ Leaked \cap E = {} /\ OpenIds \cup Leaked \cup E \subseteq Ids
        BY <1>3, <2>4, <3>1, AllFinite
      <4>. QED  BY <1>4, <4>1, ThreeSets
    <3>. QED  BY <1>5, <2>3, <3>2, <3>3, CountedType, ServerAssumption DEF Counted
  <2>. QED  BY <2>5, <2>6
<1>. QED  BY <1>6, <1>7, <1>8

\* So it is not above the counter.
LEMMA CountAtMost ==
    ASSUME IInv, FateInv, CountInv
    PROVE  Counted <= connection_counter
<1>. PICK m \in Nat : m = CounterModulus /\ m > 0
  BY ServerAssumption
<1>. PICK n \in Int : n = Counted /\ n < m
  BY CountedType, CountBelow DEF IInv
<1>. PICK c \in Nat : c = connection_counter /\ c < m
  BY DEF IInv, Types
<1>1. PICK k \in Int : c = n + k * m
  BY DEF CountInv
<1>2. CASE k >= 0
  <2>1. k * m >= 0
    BY <1>2
  <2>. QED  BY <1>1, <2>1
<1>3. CASE k < 0
  <2>1. k <= -1
    BY <1>3
  <2>2. k * m <= (-1) * m
    BY <2>1
  <2>3. k * m \in Int /\ (-1) * m = -m
    OBVIOUS
  <2>. QED  BY <1>1, <2>2, <2>3
<1>. QED  BY <1>2, <1>3

\* What has happened to a connection is never undone.
LEMMA FatesGrow ==
    ASSUME IInv, [Next]_vars
    PROVE  \A c \in Ids : fate[c] \subseteq fate'[c]
<1>1. CASE fate' = fate
  BY <1>1
<1>2. ASSUME NEW t \in Threads, RegisterFails(t) \/ OnConnect(t) \/ RemoveFromMap(t)
      PROVE  \A c \in Ids : fate[c] \subseteq fate'[c]
  BY <1>2 DEF RegisterFails, OnConnect, RemoveFromMap, IInv, Types
<1>. QED
  BY <1>1, <1>2 DEF Next, vars, history, Step, PeerConnects, PeerSends, PeerEnds, Close, ListenerEvent,
                    EventLost, ConnectionEvent, Accept, AcceptFails, Register, Insert, Read, OnData,
                    Lower, Deregister, Tell

\* Only the accept loop opens connections, one at a time, below the limit.
LEMMA OpenGrows ==
    ASSUME IInv, FateInv, [Next]_vars
    PROVE  \/ OpenIds' \subseteq OpenIds
           \/ Admits /\ \E c : OpenIds' \subseteq OpenIds \cup {c}
<1> USE DEF IInv
<1>1. CASE QuietStep
  BY <1>1, QuietSets
<1>2. ASSUME NEW t \in Threads, Accept(t), ~QuietStep
      PROVE  Admits /\ \E c : OpenIds' \subseteq OpenIds \cup {c}
  <2>1. todo[t] = Accepted1
    BY <1>2 DEF Accept, Accepted1
  <2>2. CASE waiting > 0 /\ Admits
    <3>1. /\ connections' = connections
          /\ conn' = [conn EXCEPT ![t] = next_conn_id] /\ todo' = [todo EXCEPT ![t] = Accepted]
      BY <1>2, <2>2 DEF Accept, Become
    <3>2. /\ conn'[t] = next_conn_id
          /\ \A u \in Threads \ {t} : conn'[u] = conn[u] /\ todo'[u] = todo[u]
      BY <3>1 DEF AtWork, Types
    <3>3. OpenIds' \subseteq OpenIds \cup {next_conn_id}
      BY <3>1, <3>2 DEF OpenIds, Inserters
    <3>. QED  BY <2>2, <3>3
  <2>3. CASE ~(waiting > 0 /\ Admits)
    <3>1. QuietStep
      BY <1>2, <2>1, <2>3, AcceptQuiet
    <3>. QED  BY <1>2, <3>1
  <2>. QED  BY <2>2, <2>3
<1>3. ASSUME NEW t \in Threads, connections' \subseteq connections, conn' = conn,
             NEW q, q \notin Inserting, todo' = [todo EXCEPT ![t] = q]
      PROVE  OpenIds' \subseteq OpenIds
  <2>1. Inserters' \subseteq Inserters
    BY <1>3 DEF AtWork, Inserters
  <2>. QED  BY <1>3, <2>1 DEF OpenIds
<1>4. ASSUME NEW t \in Threads, RegisterFails(t)
      PROVE  OpenIds' \subseteq OpenIds
  <2>1. Accepted1 \notin Inserting
    BY Heads DEF Inserting
  <2>2. todo' = [todo EXCEPT ![t] = Accepted1] /\ conn' = conn /\ connections' = connections
    BY <1>4 DEF RegisterFails, Become, Accepted1
  <2>. QED  BY <1>3, <2>1, <2>2
<1>5. ASSUME NEW t \in Threads, Insert(t)
      PROVE  OpenIds' \subseteq OpenIds
  <2>1. todo[t] = Accepted3 /\ todo' = [todo EXCEPT ![t] = Accepted2] /\ Accepted2 \notin Inserting
    BY <1>5, ProgramAt, Tails, Heads DEF Insert, GoOn, Inserting
  <2>2. connections' = connections \cup {conn[t]} /\ conn' = conn
    BY <1>5 DEF Insert
  <2>3. Inserters' \subseteq Inserters /\ t \in Inserters
    BY <2>1 DEF AtWork, Inserters, Inserting
  <2>. QED  BY <2>2, <2>3 DEF OpenIds
<1>6. ASSUME NEW t \in Threads, OnConnect(t)
      PROVE  OpenIds' \subseteq OpenIds
  <2>1. todo[t] = Accepted2
    BY <1>6, ProgramAt DEF OnConnect
  <2>2. Accepted1 \notin Inserting /\ Refused \notin Inserting /\ Dead \notin Inserting
    BY Heads DEF Inserting
  <2>3. conn' = conn /\ connections' = connections
    BY <1>6 DEF OnConnect, mapVars
  <2>4. \/ todo' = [todo EXCEPT ![t] = Accepted1]
        \/ todo' = [todo EXCEPT ![t] = Refused]
        \/ todo' = [todo EXCEPT ![t] = Dead]
    BY <1>6, <2>1, Tails DEF OnConnect, GoOn, Become, Dies, Dead
  <2>. QED  BY <1>3, <2>2, <2>3, <2>4
<1>7. ASSUME NEW t \in Threads, RemoveFromMap(t), conn[t] \in connections
      PROVE  OpenIds' \subseteq OpenIds
  <2>1. conn' = conn /\ connections' \subseteq connections
    BY <1>7, RemovedFate
  <2>2. todo' = [todo EXCEPT ![t] = Tail(todo[t])] /\ todo[t] \in {Refused, Disconnect, CloseConnection}
    BY <1>7, ProgramAt DEF RemoveFromMap, GoOn
  <2>3. Tail(todo[t]) \notin Inserting
    BY <2>2, Tails, Heads DEF Inserting
  <2>. QED  BY <1>3, <2>1, <2>2, <2>3
<1>8. ASSUME NEW t \in Threads, Lower(t)
      PROVE  OpenIds' \subseteq OpenIds
  <2>1. conn' = conn /\ connections' = connections
    BY <1>8 DEF Lower
  <2>2. todo' = [todo EXCEPT ![t] = Tail(todo[t])] /\ todo[t] \in {Refused2, Disconnect3}
    BY <1>8, ProgramAt DEF Lower, GoOn
  <2>3. Tail(todo[t]) \notin Inserting
    BY <2>2, Tails, Heads DEF Inserting
  <2>. QED  BY <1>3, <2>1, <2>2, <2>3
<1>9. ASSUME NEW t \in Threads, Step(t), ~QuietStep
      PROVE  \/ OpenIds' \subseteq OpenIds
             \/ Admits /\ \E c : OpenIds' \subseteq OpenIds \cup {c}
  BY <1>2, <1>4, <1>5, <1>6, <1>7, <1>8, <1>9, InsideQuiet DEF Step
<1>. QED  BY <1>1, <1>9, OutsideQuiet DEF Next

\* LimitHolds of the sets above.
LimitInv == MaxConnections # None => Cardinality(OpenIds) <= MaxConnections + Cardinality(LoweredTwice)

\* A step makes at most one connection more, and only below the limit; and what
\* was lowered twice stays so.
LEMMA NextLimit ==
    ASSUME IInv, FateInv, CountInv, LimitInv, [Next]_vars
    PROVE  LimitInv'
<1> SUFFICES ASSUME MaxConnections # None
             PROVE  Cardinality(OpenIds') <= MaxConnections + Cardinality(LoweredTwice')
  BY DEF LimitInv
<1>0. MaxConnections \in Nat
  BY ServerAssumption
<1>1. Cardinality(LoweredTwice) <= Cardinality(LoweredTwice') /\ Cardinality(LoweredTwice') \in Nat
  <2>1. LoweredTwice \subseteq LoweredTwice'
    <3>1. \A c \in Ids : fate[c] \subseteq fate'[c]
      BY FatesGrow
    <3>. QED  BY <3>1 DEF LoweredTwice
  <2>2. LoweredTwice' \subseteq Ids /\ IsFiniteSet(Ids)
    BY AllFinite DEF LoweredTwice, IInv
  <2>3. IsFiniteSet(LoweredTwice')
    BY <2>2, FS_Subset
  <2>4. Cardinality(LoweredTwice) <= Cardinality(LoweredTwice') /\ Cardinality(LoweredTwice') \in Nat
    BY <2>1, <2>3, FS_Subset, FS_CardinalityType
  <2>. QED  BY <2>4
<1>2. /\ IsFiniteSet(OpenIds) /\ Cardinality(OpenIds) \in Nat
      /\ Cardinality(LoweredTwice) \in Nat
  BY AllFinite, CountedType DEF IInv
<1>3. CASE OpenIds' \subseteq OpenIds
  <2>1. Cardinality(OpenIds') <= Cardinality(OpenIds) /\ Cardinality(OpenIds') \in Nat
    BY <1>2, <1>3, FS_Subset, FS_CardinalityType
  <2>. QED  BY <1>0, <1>1, <1>2, <2>1 DEF LimitInv
<1>4. ASSUME NEW c, OpenIds' \subseteq OpenIds \cup {c}, Admits
      PROVE  Cardinality(OpenIds') <= MaxConnections + Cardinality(LoweredTwice')
  <2>1. PICK S : S = OpenIds \cup {c}
    OBVIOUS
  <2>2. IsFiniteSet(S) /\ Cardinality(S) <= Cardinality(OpenIds) + 1 /\ Cardinality(S) \in Nat
    <3>1. /\ IsFiniteSet(S)
          /\ Cardinality(S) = IF c \in OpenIds THEN Cardinality(OpenIds) ELSE Cardinality(OpenIds) + 1
      BY <1>2, <2>1, FS_AddElement
    <3>. QED  BY <1>2, <3>1
  <2>3. Cardinality(OpenIds') <= Cardinality(S) /\ Cardinality(OpenIds') \in Nat
    BY <1>4, <2>1, <2>2, FS_Subset, FS_CardinalityType
  <2>4. Cardinality(OpenIds) + 1 <= MaxConnections + Cardinality(LoweredTwice)
    <3>1. connection_counter < MaxConnections /\ connection_counter \in Nat
      BY <1>4 DEF Admits, IInv, Types
    <3>2. /\ Counted <= connection_counter
          /\ Cardinality(Debtors) \in Nat /\ Cardinality(Leaked) \in Nat
      BY CountAtMost, CountedType DEF IInv
    <3>. QED  BY <1>0, <1>2, <3>1, <3>2 DEF Counted
  <2>. QED  BY <1>0, <1>1, <1>2, <2>2, <2>3, <2>4
<1>. QED  BY <1>3, <1>4, OpenGrows

--------------------------------------------------------------------------------
(***************************************************************************)
(* The theorems.                                                           *)
(***************************************************************************)
\* connection_counter is the number of connections, but for the connections a
\* user has closed and those whose place was given back twice (l.308-339, 373,
\* 385, 413, 509).
THEOREM CounterCounts == Spec => []CountAccounted
<1>1. IInv /\ FateInv /\ CountInv => CountAccounted
  <2> SUFFICES ASSUME IInv, CountInv PROVE CountAccounted
    OBVIOUS
  <2>1. PICK m \in Nat \ {0} : m = CounterModulus
    BY ServerAssumption
  <2>2. PICK c \in Int : c = connection_counter /\ 0 <= c /\ c < m
    BY <2>1 DEF IInv, Types
  <2>3. PICK n \in Int : n = Counted
    BY CountedType DEF IInv
  <2>4. PICK k \in Int : c = n + k * m
    BY <2>1, <2>2, <2>3 DEF CountInv
  <2>5. -k \in Int /\ n = c + (-k) * m
    BY <2>4
  <2>6. n % m = c
    BY <2>2, <2>5, Turns
  <2>. QED  BY <2>1, <2>2, <2>3, <2>6, SetsAre DEF IInv, Counted, CountAccounted
<1>. QED  BY <1>1, Invariant, Counts, PTL

\* There are never more connections than max_connections, but for those whose
\* place was given back twice (l.309-336).
THEOREM LimitKept == Spec => []LimitHolds
<1>1. Init => LimitInv
  <2> SUFFICES ASSUME Init, MaxConnections # None
               PROVE  Cardinality(OpenIds) <= MaxConnections + Cardinality(LoweredTwice)
    BY DEF LimitInv
  <2>1. IInv /\ FateInv
    BY InitIInv, InitCount
  <2>2. OpenIds = {}
    BY Apart DEF Init, OpenIds, Inserters, Inserting
  <2>3. Cardinality(OpenIds) = 0 /\ Cardinality(LoweredTwice) \in Nat /\ MaxConnections \in Nat
    BY <2>1, <2>2, FS_EmptySet, CountedType, ServerAssumption DEF IInv
  <2>. QED  BY <2>3
<1>2. IInv /\ FateInv /\ CountInv /\ LimitInv /\ [Next]_vars => LimitInv'
  BY NextLimit
<1>3. IInv /\ LimitInv => LimitHolds
  BY SetsAre DEF IInv, LimitInv, LimitHolds
<1>. QED  BY <1>1, <1>2, <1>3, Invariant, Counts, PTL DEF Spec

================================================================================
