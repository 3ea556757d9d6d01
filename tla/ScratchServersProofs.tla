--------------------------- MODULE ScratchServersProofs --------------------------
(***************************************************************************)
(* Proofs about ScratchServers: that the streams are where the handlers    *)
(* look for them, that what can be read is not forgotten, and that each    *)
(* client is answered as if the reads had been served one by one, for any  *)
(* number of clients, workers and requests, and each of the three servers. *)
(***************************************************************************)
EXTENDS ScratchServers, SequenceTheorems, WellFoundedInduction, TLAPS

--------------------------------------------------------------------------------
(***************************************************************************)
(* The inductive invariant.                                                *)
(***************************************************************************)
Steps == {"idle", "accept", "register", "handler", "insert", "lock", "read", "answer", "disconnect",
          "dead", "absent"}
Halves == [of : Requests, part : {1, 2}]
Jobs == [step : Steps, conn : Clients \cup {None}, chunk : Seq(Halves)]

Types ==
    /\ server \in {"echo", "jsonrpc", "http"}
    /\ next_token \in Nat
    /\ token \in [Clients -> Nat \cup {None}]
    /\ backlog \in Seq(Clients)
    /\ connections \subseteq Clients /\ handlers \subseteq Clients
    /\ watched \subseteq Clients /\ edge \subseteq Clients /\ ended \subseteq Clients
    /\ unread \in [Clients -> Seq(Halves)]
    /\ job \in [Workers -> Jobs]

\* A client that waits to be accepted waits once, and has no connection yet.
BacklogNew ==
    /\ \A i \in DOMAIN backlog : token[backlog[i]] = None
    /\ \A i, j \in DOMAIN backlog : backlog[i] = backlog[j] => i = j

\* Only a connection that was accepted is registered or has a handler, an event,
\* or a worker.
Accepted ==
    /\ \A c \in watched \cup handlers : token[c] # None
    /\ edge \subseteq watched
    /\ \A w \in Workers : job[w].step \notin {"idle", "accept", "dead", "absent"} =>
           job[w].conn \in Clients /\ token[job[w].conn] # None

\* One worker is at an accepted stream.  Nobody else has a stream that is not
\* registered, and nobody reads one that is not in the map.
Accepting(w) == job[w].step \in {"register", "handler", "insert"}

OneAccepts ==
    \A w \in Workers : Accepting(w) =>
        /\ job[w].conn \notin connections
        /\ job[w].step = "register" => job[w].conn \notin watched
        /\ job[w].step \in {"register", "handler"} => job[w].conn \notin handlers
        /\ job[w].step = "insert" => InMap /\ job[w].conn \in handlers
        /\ \A v \in Workers \ {w} :
               /\ ~Accepting(v)
               /\ job[v].conn = job[w].conn =>
                      \/ job[v].step \in {"idle", "accept", "dead", "absent"}
                      \/ job[w].step = "insert" /\ job[v].step = "lock"

\* One worker holds the lock of the map.
OneHolds == InMap => \A v, w \in Workers : Holds(v) /\ Holds(w) => v = w

\* A worker does not hold a poisoned lock.
Unpoisoned == \A w \in Workers : Holds(w) => ~Poisoned(ConnOf(w))

\* A stream that is registered is in the map, or a worker is about to put it there.
HandlersInMap ==
    InMap /\ "connections" \notin poisoned => \A c \in watched \cup handlers :
        c \in connections \/ \E w \in Workers : job[w].step \in {"handler", "insert"} /\ job[w].conn = c

IInv ==
    /\ Types
    /\ BacklogNew
    /\ Accepted
    /\ OneAccepts
    /\ OneHolds
    /\ Unpoisoned
    /\ HandlersInMap
    /\ StreamsInPlace
    /\ UnreadNoticed

\* What a worker goes on with is a job.
LEMMA JobTypes ==
    /\ NoJob \in Jobs
    /\ \A c \in Clients : \A step \in Steps : [step |-> step, conn |-> c, chunk |-> <<>>] \in Jobs
    /\ \A j \in Jobs : \A step \in Steps : [j EXCEPT !.step = step] \in Jobs
    /\ \A j \in Jobs : \A step \in Steps : \A s \in Seq(Halves) :
           [j EXCEPT !.step = step, !.chunk = s] \in Jobs
<1>1. <<>> \in Seq(Halves)
  OBVIOUS
<1> HIDE DEF Halves
<1>. QED  BY <1>1 DEF NoJob, Jobs, Steps

\* No client is known yet.
LEMMA InitIInv == Init => IInv
<1> SUFFICES ASSUME Init PROVE IInv
  OBVIOUS
<1> USE ScratchAssumption DEF Init, ServerInit
<1>0. \A w \in Workers : job[w].step \in {"idle", "absent"}
  BY DEF NoJob, Absent
<1>1. Types
  <2>1. <<>> \in Seq(Clients) /\ <<>> \in Seq(Halves)
    OBVIOUS
  <2>2. NoJob \in Jobs /\ Absent \in Jobs
    BY JobTypes DEF Absent, Steps
  <2>. QED  BY <2>1, <2>2 DEF Types, FirstToken
<1>2. BacklogNew /\ Accepted /\ OneAccepts /\ OneHolds /\ HandlersInMap
  BY <1>0 DEF BacklogNew, Accepted, OneAccepts, OneHolds, HandlersInMap, Accepting, Holds
<1>3. StreamsInPlace /\ UnreadNoticed /\ Unpoisoned
  BY <1>0 DEF StreamsInPlace, UnreadNoticed, Unpoisoned, Holds
<1>. QED  BY <1>1, <1>2, <1>3 DEF IInv

\* No stream that is registered loses its event, or the worker on its way.
LEMMA NoticedKept ==
    ASSUME UnreadNoticed, server' = server, watched' \subseteq watched, poisoned \subseteq poisoned',
           \A c \in watched' :
               (SomethingFrom(c)' => SomethingFrom(c)) /\ (c \in edge \cup missed => c \in edge' \cup missed'),
           \A w \in Workers : job[w].step \in {"lock", "read", "disconnect"} => job'[w] = job[w]
    PROVE  UnreadNoticed'
<1>2. \A w \in Workers : job[w].step \in {"lock", "read", "disconnect"} =>
          job'[w].step = job[w].step /\ ConnOf(w)' = ConnOf(w)
  BY DEF ConnOf
<1>3. ASSUME NEW c \in watched', SomethingFrom(c)', c \notin edge' \cup missed', ~Poisoned(c)'
      PROVE  \E w \in Workers : ConnOf(w)' = c /\ job'[w].step \in {"lock", "read", "disconnect"}
  <2>1. c \in watched /\ SomethingFrom(c) /\ c \notin edge \cup missed /\ ~Poisoned(c)
    BY <1>3 DEF Poisoned, LockOf, InMap
  <2>2. PICK w \in Workers : ConnOf(w) = c /\ job[w].step \in {"lock", "read", "disconnect"}
    BY <2>1 DEF UnreadNoticed
  <2>. QED  BY <1>2, <2>2
<1>. QED  BY <1>3 DEF UnreadNoticed

\* A client waits to be accepted: it is new.
LEMMA ConnectsStep ==
    ASSUME IInv, NEW c \in Clients, Connects(c)
    PROVE  IInv'
<1> USE ScratchAssumption DEF IInv, Connects, serverState, history, ConnOf, InMap, Holds
<1>1. Types'
  <2>1. backlog' \in Seq(Clients)
    BY DEF Types
  <2>. QED  BY <2>1 DEF Types
<1>2. BacklogNew'
  BY SMTT(30) DEF Types, BacklogNew
<1>3. Accepted'
  BY DEF Types, Accepted
<1>4. OneAccepts'
  BY DEF Types, OneAccepts, Accepting, Accepted, BacklogNew
<1>5. OneHolds'
  BY DEF Types, OneHolds
<1>6. HandlersInMap'
  BY DEF Types, HandlersInMap
<1>7. StreamsInPlace'
  BY DEF Types, StreamsInPlace, OneHolds, OneAccepts, Accepting
<1>8. UnreadNoticed'
  BY DEF Types, UnreadNoticed, SomethingFrom, Poisoned, LockOf
<1>9. Unpoisoned'
  BY DEF Types, Unpoisoned, OneHolds, Poisoned, LockOf, NoJob, Jobs
<1>. QED  BY <1>1, <1>2, <1>3, <1>4, <1>5, <1>6, <1>7, <1>8, <1>9

\* Bytes of a registered stream raise an event.
LEMMA SendsStep ==
    ASSUME IInv, NEW c \in Clients, Sends(c)
    PROVE  IInv'
<1> USE ScratchAssumption DEF IInv, Sends, Arrive, Raises, Half, serverState, history, ConnOf, InMap, Holds
<1>1. Types'
  <2>1. \A r \in Requests : /\ <<Half(r, 1)>> \in Seq(Halves) /\ <<Half(r, 2)>> \in Seq(Halves)
                            /\ <<Half(r, 1), Half(r, 2)>> \in Seq(Halves)
    BY DEF Halves
  <2>2. \E s \in Seq(Halves) : unread' = [unread EXCEPT ![c] = @ \o s]
    BY <2>1
  <2>3. unread' \in [Clients -> Seq(Halves)]
    BY <2>2 DEF Types
  <2>4. edge' \subseteq Clients
    BY DEF Types, Raises
  <2>. QED  BY <2>3, <2>4 DEF Types
<1>2. BacklogNew'
  BY DEF Types, BacklogNew
<1>3. Accepted'
  BY DEF Types, Accepted
<1>4. OneAccepts'
  BY DEF Types, OneAccepts, Accepting, Accepted, BacklogNew
<1>5. OneHolds'
  BY DEF Types, OneHolds
<1>6. HandlersInMap'
  BY DEF Types, HandlersInMap
<1>7. StreamsInPlace'
  BY DEF Types, StreamsInPlace, OneHolds, OneAccepts, Accepting
<1>8. UnreadNoticed'
  <2>1. \A d \in Clients \ {c} : unread'[d] = unread[d]
    BY DEF Types
  <2>2. (c \in watched => c \in edge') /\ edge \subseteq edge' /\ missed \ {c} \subseteq missed'
    OBVIOUS
  <2>3. UNCHANGED <<server, watched, ended, poisoned, job>>
    OBVIOUS
  <2> HIDE DEF Sends
  <2>4. \A d \in watched \ {c} : SomethingFrom(d)' => SomethingFrom(d)
    BY <2>1, <2>3 DEF Types, SomethingFrom
  <2>5. \A d : Poisoned(d)' <=> Poisoned(d)
    BY <2>3 DEF Poisoned, LockOf
  <2>6. \A d \in watched \ {c} : d \in edge \cup missed => d \in edge' \cup missed'
    BY <2>2
  <2> SUFFICES ASSUME NEW d \in watched, SomethingFrom(d)', d \notin edge' \cup missed', ~Poisoned(d)
               PROVE  \E w \in Workers : ConnOf(w)' = d /\ job'[w].step \in {"lock", "read", "disconnect"}
    BY <2>3, <2>5 DEF UnreadNoticed
  <2>7. SomethingFrom(d) /\ d \notin edge \cup missed
    BY <2>2, <2>4, <2>6
  <2>8. PICK w \in Workers : ConnOf(w) = d /\ job[w].step \in {"lock", "read", "disconnect"}
    BY <2>7 DEF UnreadNoticed
  <2>. QED  BY <2>3, <2>8
<1>9. Unpoisoned'
  BY DEF Types, Unpoisoned, OneHolds, Poisoned, LockOf, NoJob, Jobs
<1>. QED  BY <1>1, <1>2, <1>3, <1>4, <1>5, <1>6, <1>7, <1>8, <1>9

\* So does its end.
LEMMA ClosesStep ==
    ASSUME IInv, NEW c \in Clients, Closes(c)
    PROVE  IInv'
<1> USE ScratchAssumption DEF IInv, Closes, Raises, serverState, history, ConnOf, InMap, Holds
<1>1. Types'
  BY JobTypes DEF Types, Steps
<1>2. BacklogNew'
  BY DEF Types, BacklogNew
<1>3. Accepted'
  BY DEF Types, Accepted
<1>4. OneAccepts'
  BY DEF Types, OneAccepts, Accepting, Accepted, BacklogNew
<1>5. OneHolds'
  BY DEF Types, OneHolds
<1>6. HandlersInMap'
  BY DEF Types, HandlersInMap
<1>7. StreamsInPlace'
  BY DEF Types, StreamsInPlace, OneHolds, OneAccepts, Accepting
<1>8. UnreadNoticed'
  BY DEF Types, UnreadNoticed, SomethingFrom, Poisoned, LockOf
<1>9. Unpoisoned'
  BY DEF Types, Unpoisoned, OneHolds, Poisoned, LockOf, NoJob, Jobs
<1>. QED  BY <1>1, <1>2, <1>3, <1>4, <1>5, <1>6, <1>7, <1>8, <1>9

\* A worker goes to the listener.
LEMMA ListenerEventStep ==
    ASSUME IInv, NEW w \in Workers, ListenerEvent(w)
    PROVE  IInv'
<1> USE ScratchAssumption DEF IInv, ListenerEvent, serverState, history, JobAt, ConnOf, Go, InMap, Holds
<1>1. Types'
  BY JobTypes DEF Types, Steps
<1>2. BacklogNew'
  BY DEF Types, BacklogNew, Jobs
<1>3. Accepted'
  BY DEF Types, Accepted, Jobs
<1>4. OneAccepts'
  BY DEF Types, OneAccepts, Accepting, Accepted, BacklogNew, Jobs
<1>5. OneHolds'
  BY DEF Types, OneHolds, Jobs
<1>6. HandlersInMap'
  BY DEF Types, HandlersInMap, Jobs
<1>7. StreamsInPlace'
  BY DEF Types, StreamsInPlace, OneHolds, OneAccepts, Accepting, Jobs
<1>8. UnreadNoticed'
  BY ZenonT(90) DEF Types, UnreadNoticed, SomethingFrom, Poisoned, LockOf, Jobs
<1>9. Unpoisoned'
  BY DEF Types, Unpoisoned, OneHolds, Poisoned, LockOf, NoJob, Jobs
<1>. QED  BY <1>1, <1>2, <1>3, <1>4, <1>5, <1>6, <1>7, <1>8, <1>9

\* The accepted client has no handler, no stream and no worker yet.
LEMMA AcceptStep ==
    ASSUME IInv, NEW w \in Workers, Accept(w)
    PROVE  IInv'
<1> USE ScratchAssumption DEF IInv, Accept, ListenerFree, NextToken, history, JobAt, ConnOf, InMap, Holds
<1>0. /\ Head(backlog) = backlog[1] /\ 1 \in DOMAIN backlog /\ Head(backlog) \in Clients
      /\ Tail(backlog) \in Seq(Clients)
      /\ \A i \in DOMAIN Tail(backlog) :
            i + 1 \in DOMAIN backlog /\ i + 1 # 1 /\ Tail(backlog)[i] = backlog[i + 1]
  BY HeadTailProperties DEF Types
<1>1. Types'
  <2>1. job' \in [Workers -> Jobs]
    BY <1>0, JobTypes DEF Types, Steps
  <2>2. token' \in [Clients -> Nat \cup {None}] /\ next_token' \in Nat
    BY <1>0 DEF Types
  <2>. QED  BY <1>0, <2>1, <2>2 DEF Types
<1>2. BacklogNew'
  <2>1. \A i \in DOMAIN backlog : backlog[i] \in Clients
    BY DEF Types
  <2>2. \A i \in DOMAIN Tail(backlog) : Tail(backlog)[i] # Head(backlog)
    BY <1>0 DEF BacklogNew
  <2>3. \A c \in Clients \ {Head(backlog)} : token'[c] = token[c]
    BY DEF Types
  <2>. QED  BY <1>0, <2>1, <2>2, <2>3 DEF BacklogNew
<1>3. Accepted'
  BY DEF Types, Accepted, Jobs
<1>4. OneAccepts'
  <2> DEFINE c == Head(backlog)
  <2>1. token[c] = None
    BY <1>0 DEF BacklogNew
  <2>2. c \notin handlers /\ c \notin watched /\ c \notin connections
    BY <2>1 DEF Accepted, StreamsInPlace
  <2>3. \A v \in Workers : job[v].conn = c => job[v].step \in {"idle", "accept", "dead", "absent"}
    BY <2>1 DEF Accepted
  <2>4. \A v \in Workers : ~Accepting(v)
    BY DEF Accepting
  <2>5. /\ job'[w].step = "register" /\ job'[w].conn = c
        /\ \A v \in Workers \ {w} : job'[v] = job[v]
    BY DEF Types
  <2>6. UNCHANGED <<connections, handlers, watched>>
    OBVIOUS
  <2>7. \A v \in Workers : Accepting(v)' => v = w
    BY <2>4, <2>5 DEF Accepting
  <2> HIDE DEF c, Accept
  <2>. QED  BY <2>2, <2>3, <2>4, <2>5, <2>6, <2>7 DEF OneAccepts, Accepting
<1>5. OneHolds'
  BY DEF Types, OneHolds, Jobs
<1>6. HandlersInMap'
  BY DEF Types, HandlersInMap, Jobs
<1>7. StreamsInPlace'
  BY DEF Types, StreamsInPlace, OneHolds, OneAccepts, Accepting, Jobs
<1>8. UnreadNoticed'
  <2>1. \A v \in Workers : job[v].step \in {"lock", "read", "disconnect"} => job'[v] = job[v]
    BY DEF Types
  <2>. QED  BY <2>1, NoticedKept DEF SomethingFrom
<1>9. Unpoisoned'
  BY DEF Types, Unpoisoned, OneHolds, Poisoned, LockOf, NoJob, Jobs
<1>. QED  BY <1>1, <1>2, <1>3, <1>4, <1>5, <1>6, <1>7, <1>8, <1>9

\* The accept loop is left.
LEMMA AcceptsNothingStep ==
    ASSUME IInv, NEW w \in Workers, AcceptsNothing(w)
    PROVE  IInv'
<1> USE ScratchAssumption DEF IInv, AcceptsNothing, serverState, network, history, JobAt, ConnOf, Finish,
        InMap, Holds
<1>1. Types'
  BY JobTypes DEF Types, Steps
<1>2. BacklogNew'
  BY DEF Types, BacklogNew, Jobs
<1>3. Accepted'
  BY DEF Types, Accepted, NoJob, Jobs
<1>4. OneAccepts'
  BY DEF Types, OneAccepts, Accepting, Accepted, BacklogNew, NoJob, Jobs
<1>5. OneHolds'
  BY DEF Types, OneHolds, NoJob, Jobs
<1>6. HandlersInMap'
  BY DEF Types, HandlersInMap, NoJob, Jobs
<1>7. StreamsInPlace'
  BY DEF Types, StreamsInPlace, OneHolds, OneAccepts, Accepting, NoJob, Jobs
<1>8. UnreadNoticed'
  BY ZenonT(90) DEF Types, UnreadNoticed, SomethingFrom, Poisoned, LockOf, NoJob, Jobs
<1>9. Unpoisoned'
  BY DEF Types, Unpoisoned, OneHolds, Poisoned, LockOf, NoJob, Jobs
<1>. QED  BY <1>1, <1>2, <1>3, <1>4, <1>5, <1>6, <1>7, <1>8, <1>9

\* The stream has an event if there is something to read.
LEMMA RegisterStreamStep ==
    ASSUME IInv, NEW w \in Workers, RegisterStream(w)
    PROVE  IInv'
<1> USE ScratchAssumption DEF IInv, RegisterStream, serverState, history, JobAt, ConnOf, Go, InMap, Holds
<1>0. /\ job[w].step = "register" /\ job[w].conn \in Clients /\ token[job[w].conn] # None
      /\ job' = [job EXCEPT ![w].step = "handler"]
      /\ watched' = watched \cup {job[w].conn}
      /\ edge' = IF SomethingFrom(job[w].conn) THEN edge \cup {job[w].conn} ELSE edge
      /\ UNCHANGED <<server, serverState, backlog, unread, ended, missed>>
  BY DEF Accepted
<1> HIDE DEF RegisterStream
<1>1. Types'
  <2>1. job' \in [Workers -> Jobs]
    BY <1>0, JobTypes DEF Types, Steps
  <2>. QED  BY <1>0, <2>1 DEF Types
<1>2. BacklogNew'
  BY <1>0 DEF Types, BacklogNew, Jobs
<1>3. Accepted'
  BY <1>0 DEF Types, Accepted, NoJob, Jobs
<1>4. OneAccepts'
  BY <1>0 DEF Types, OneAccepts, Accepting, Accepted, BacklogNew, NoJob, Jobs
<1>5. OneHolds'
  BY <1>0 DEF Types, OneHolds, NoJob, Jobs
<1>6. HandlersInMap'
  BY <1>0 DEF Types, HandlersInMap, NoJob, Jobs
<1>7. StreamsInPlace'
  BY <1>0 DEF Types, StreamsInPlace, OneHolds, OneAccepts, Accepting, NoJob, Jobs
<1>8. UnreadNoticed'
  BY <1>0 DEF Types, UnreadNoticed, SomethingFrom, Poisoned, LockOf, NoJob, Jobs
<1>9. Unpoisoned'
  BY <1>0 DEF Types, Unpoisoned, OneHolds, Poisoned, LockOf, NoJob, Jobs
<1>. QED  BY <1>1, <1>2, <1>3, <1>4, <1>5, <1>6, <1>7, <1>8, <1>9

\* It has a handler now, and goes into the map next, if there is one.
LEMMA InsertHandlerStep ==
    ASSUME IInv, NEW w \in Workers, InsertHandler(w)
    PROVE  IInv'
<1> USE ScratchAssumption DEF IInv, InsertHandler, network, history, JobAt, ConnOf, Go, BackToAccept, InMap, Holds
<1>0. /\ job[w].step = "handler" /\ job[w].conn \in Clients /\ token[job[w].conn] # None
      /\ \A v \in Workers \ {w} : job'[v] = job[v]
      /\ \/ InMap /\ job'[w].step = "insert" /\ job'[w].conn = job[w].conn
         \/ ~InMap /\ job'[w].step = "accept" /\ job'[w].conn = None
      /\ job' \in [Workers -> Jobs]
      /\ handlers' = handlers \cup {job[w].conn}
      /\ UNCHANGED <<server, next_token, token, connections, poisoned, network, missed>>
  <2>1. job' \in [Workers -> Jobs]
    <3>1. job[w] \in Jobs
      BY DEF Types
    <3>2. [job[w] EXCEPT !.step = "insert"] \in Jobs /\ [NoJob EXCEPT !.step = "accept"] \in Jobs
      BY <3>1, JobTypes DEF Steps
    <3>. QED  BY <3>2 DEF Types
  <2>2. job[w].conn \in Clients /\ token[job[w].conn] # None
    BY DEF Accepted
  <2>3. job'[w] = IF InMap THEN [job[w] EXCEPT !.step = "insert"] ELSE [NoJob EXCEPT !.step = "accept"]
    BY DEF Types
  <2>4. job[w] \in Jobs
    BY DEF Types
  <2>5. \/ InMap /\ job'[w].step = "insert" /\ job'[w].conn = job[w].conn
        \/ ~InMap /\ job'[w].step = "accept" /\ job'[w].conn = None
    BY <2>3, <2>4 DEF NoJob, Jobs
  <2>6. \A v \in Workers \ {w} : job'[v] = job[v]
    BY DEF Types
  <2> HIDE DEF Jobs, InMap
  <2>. QED  BY <2>1, <2>2, <2>5, <2>6
<1> HIDE DEF InsertHandler
<1>1. Types'
  BY <1>0 DEF Types
<1>2. BacklogNew'
  BY <1>0 DEF Types, BacklogNew, Jobs
<1>3. Accepted'
  BY <1>0, ZenonT(40) DEF Types, Accepted, NoJob, Jobs
<1>4. OneAccepts'
  <2>1. job[w].conn # None /\ \A v \in Workers \ {w} : ~Accepting(v)
    BY <1>0 DEF OneAccepts, Accepting
  <2>2. \A v \in Workers \ {w} : job[v].conn = job[w].conn => job[v].step \in {"idle", "accept", "dead", "absent"}
    BY <1>0 DEF OneAccepts, Accepting
  <2>3. job[w].conn \notin connections
    BY <1>0 DEF OneAccepts, Accepting
  <2>. QED  BY <1>0, <2>1, <2>2, <2>3 DEF OneAccepts, Accepting
<1>5. OneHolds'
  BY <1>0 DEF Types, OneHolds, NoJob, Jobs
<1>6. HandlersInMap'
  <2> SUFFICES ASSUME InMap, "connections" \notin poisoned, NEW c \in watched \cup handlers',
                      c \notin connections
               PROVE  \E v \in Workers : job'[v].step \in {"handler", "insert"} /\ job'[v].conn = c
    BY <1>0 DEF HandlersInMap
  <2>1. CASE c = job[w].conn
    BY <1>0, <2>1
  <2>2. CASE c # job[w].conn
    <3>1. PICK v \in Workers : job[v].step \in {"handler", "insert"} /\ job[v].conn = c
      BY <1>0, <2>2 DEF HandlersInMap
    <3>. QED  BY <1>0, <2>2, <3>1
  <2>. QED  BY <2>1, <2>2
<1>7. StreamsInPlace'
  BY <1>0 DEF Types, StreamsInPlace, OneHolds, OneAccepts, Accepting, NoJob, Jobs
<1>8. UnreadNoticed'
  <2>1. \A v \in Workers : job[v].step \in {"lock", "read", "disconnect"} => job'[v] = job[v]
    BY <1>0
  <2>. QED  BY <1>0, <2>1, NoticedKept DEF SomethingFrom
<1>9. Unpoisoned'
  BY <1>0 DEF Types, Unpoisoned, OneHolds, Poisoned, LockOf, NoJob, Jobs
<1>. QED  BY <1>1, <1>2, <1>3, <1>4, <1>5, <1>6, <1>7, <1>8, <1>9

\* The listener's lock is poisoned, and nobody accepts.
LEMMA AcceptPanicsStep ==
    ASSUME IInv, NEW w \in Workers, AcceptPanics(w)
    PROVE  IInv'
<1> USE ScratchAssumption DEF IInv, AcceptPanics, serverState, network, history, JobAt, ConnOf, Dies,
        InMap, Holds
<1>1. Types'
  BY JobTypes DEF Types, Steps
<1>2. BacklogNew'
  BY DEF Types, BacklogNew, Jobs
<1>3. Accepted'
  BY DEF Types, Accepted, NoJob, Jobs
<1>4. OneAccepts'
  BY DEF Types, OneAccepts, Accepting, Accepted, BacklogNew, NoJob, Jobs
<1>5. OneHolds'
  BY DEF Types, OneHolds, NoJob, Jobs
<1>6. HandlersInMap'
  BY DEF Types, HandlersInMap, NoJob, Jobs
<1>7. StreamsInPlace'
  BY DEF Types, StreamsInPlace, OneHolds, OneAccepts, Accepting, NoJob, Jobs
<1>8. UnreadNoticed'
  <2>1. \A v \in Workers : job[v].step \in {"lock", "read", "disconnect"} => job'[v] = job[v]
    BY DEF Types
  <2>. QED  BY <2>1, NoticedKept DEF SomethingFrom
<1>9. Unpoisoned'
  BY DEF Types, Unpoisoned, OneHolds, Poisoned, LockOf, NoJob, Jobs
<1>. QED  BY <1>1, <1>2, <1>3, <1>4, <1>5, <1>6, <1>7, <1>8, <1>9

\* The stream that nobody has seen is dropped.
LEMMA RegisterFailsStep ==
    ASSUME IInv, NEW w \in Workers, RegisterFails(w)
    PROVE  IInv'
<1> USE ScratchAssumption DEF IInv, RegisterFails, serverState, network, history, JobAt, ConnOf, Finish,
        InMap, Holds
<1>1. Types'
  BY JobTypes DEF Types, Steps
<1>2. BacklogNew'
  BY DEF Types, BacklogNew, Jobs
<1>3. Accepted'
  BY DEF Types, Accepted, NoJob, Jobs
<1>4. OneAccepts'
  BY DEF Types, OneAccepts, Accepting, Accepted, BacklogNew, NoJob, Jobs
<1>5. OneHolds'
  BY DEF Types, OneHolds, NoJob, Jobs
<1>6. HandlersInMap'
  BY DEF Types, HandlersInMap, NoJob, Jobs
<1>7. StreamsInPlace'
  BY DEF Types, StreamsInPlace, OneHolds, OneAccepts, Accepting, NoJob, Jobs
<1>8. UnreadNoticed'
  BY SMTT(60) DEF Types, UnreadNoticed, SomethingFrom, Poisoned, LockOf, NoJob, Jobs
<1>9. Unpoisoned'
  BY DEF Types, Unpoisoned, OneHolds, Poisoned, LockOf, NoJob, Jobs
<1>. QED  BY <1>1, <1>2, <1>3, <1>4, <1>5, <1>6, <1>7, <1>8, <1>9

\* The stream is in the map; nobody had it before.
LEMMA InsertStreamStep ==
    ASSUME IInv, NEW w \in Workers, InsertStream(w)
    PROVE  IInv'
<1> USE ScratchAssumption DEF IInv, InsertStream, LockFree, LockOf, network, history, JobAt, ConnOf,
        BackToAccept, InMap, Holds
<1>1. Types'
  <2>1. job' \in [Workers -> Jobs]
    BY JobTypes DEF Types, Steps
  <2>2. job[w].conn \in Clients
    BY DEF Accepted
  <2>. QED  BY <2>1, <2>2 DEF Types
<1>2. BacklogNew'
  BY DEF Types, BacklogNew, Jobs
<1>3. Accepted'
  BY DEF Types, Accepted, NoJob, Jobs
<1>4. OneAccepts'
  BY DEF Types, OneAccepts, Accepting, Accepted, BacklogNew, NoJob, Jobs
<1>5. OneHolds'
  BY DEF Types, OneHolds, NoJob, Jobs
<1>6. HandlersInMap'
  BY DEF Types, HandlersInMap, NoJob, Jobs
<1>7. StreamsInPlace'
  BY DEF Types, StreamsInPlace, OneHolds, OneAccepts, Accepting, NoJob, Jobs
<1>8. UnreadNoticed'
  <2>1. \A v \in Workers : job[v].step \in {"lock", "read", "disconnect"} => job'[v] = job[v]
    BY DEF Types
  <2>. QED  BY <2>1, NoticedKept DEF SomethingFrom
<1>9. Unpoisoned'
  BY DEF Types, Unpoisoned, OneHolds, Poisoned, LockOf, NoJob, Jobs
<1>. QED  BY <1>1, <1>2, <1>3, <1>4, <1>5, <1>6, <1>7, <1>8, <1>9

\* Nobody holds a lock that this poisons.
LEMMA InsertPanicsStep ==
    ASSUME IInv, NEW w \in Workers, InsertPanics(w)
    PROVE  IInv'
<1> USE ScratchAssumption DEF IInv, InsertPanics, LockFree, LockOf, Poisoned, history, JobAt, ConnOf, Dies,
        InMap, Holds
<1>1. Types'
  BY JobTypes DEF Types, Steps
<1>2. BacklogNew'
  BY DEF Types, BacklogNew, Jobs
<1>3. Accepted'
  BY DEF Types, Accepted, NoJob, Jobs
<1>4. OneAccepts'
  BY DEF Types, OneAccepts, Accepting, Accepted, BacklogNew, NoJob, Jobs
<1>5. OneHolds'
  BY DEF Types, OneHolds, NoJob, Jobs
<1>6. HandlersInMap'
  BY DEF Types, HandlersInMap, NoJob, Jobs
<1>7. StreamsInPlace'
  BY DEF Types, StreamsInPlace, OneHolds, OneAccepts, Accepting, NoJob, Jobs
<1>8. UnreadNoticed'
  BY DEF Types, UnreadNoticed, SomethingFrom, Poisoned, LockOf, NoJob, Jobs
<1>9. Unpoisoned'
  <2>1. \A v \in Workers : job'[v].step \notin {"read", "answer"}
    <3>1. InMap
      BY DEF OneAccepts, Accepting
    <3>2. \A v \in Workers : job[v].step \notin {"read", "answer"}
      BY <3>1
    <3>3. job'[w].step = "dead" /\ \A v \in Workers \ {w} : job'[v] = job[v]
      BY DEF Types, NoJob
    <3>. QED  BY <3>2, <3>3
  <2>. QED  BY <2>1 DEF Unpoisoned
<1>. QED  BY <1>1, <1>2, <1>3, <1>4, <1>5, <1>6, <1>7, <1>8, <1>9

\* The event becomes a worker on its way.
LEMMA ConnEventStep ==
    ASSUME IInv, NEW w \in Workers, NEW c \in Clients, ConnEvent(w, c)
    PROVE  IInv'
<1> USE ScratchAssumption DEF IInv, ConnEvent, serverState, history, JobAt, ConnOf, InMap, Holds
<1>1. Types'
  BY JobTypes DEF Types, Steps
<1>2. BacklogNew'
  BY DEF Types, BacklogNew, Jobs
<1>3. Accepted'
  BY DEF Types, Accepted, Jobs
<1>4. OneAccepts'
  BY DEF Types, OneAccepts, Accepting, Accepted, BacklogNew, Jobs
<1>5. OneHolds'
  BY DEF Types, OneHolds, Jobs
<1>6. HandlersInMap'
  BY DEF Types, HandlersInMap, Jobs
<1>7. StreamsInPlace'
  BY DEF Types, StreamsInPlace, OneHolds, OneAccepts, Accepting, Jobs
<1>8. UnreadNoticed'
  <2>1. /\ job'[w].step = "lock" /\ job'[w].conn = c
        /\ \A v \in Workers \ {w} : job'[v] = job[v]
    BY DEF Types
  <2>2. \A d \in handlers \ {c} : d \in edge' <=> d \in edge
    OBVIOUS
  <2>3. \A d \in handlers : SomethingFrom(d)' <=> SomethingFrom(d)
    BY DEF SomethingFrom
  <2>. QED  BY <2>1, <2>2, <2>3 DEF UnreadNoticed, SomethingFrom, Poisoned, LockOf
<1>9. Unpoisoned'
  BY DEF Types, Unpoisoned, OneHolds, Poisoned, LockOf, NoJob, Jobs
<1>. QED  BY <1>1, <1>2, <1>3, <1>4, <1>5, <1>6, <1>7, <1>8, <1>9

\* The event is recorded as missed.
LEMMA EventLostStep ==
    ASSUME IInv, NEW w \in Workers, NEW c \in Clients, EventLost(w, c)
    PROVE  IInv'
<1> USE ScratchAssumption DEF IInv, EventLost, serverState, JobAt, ConnOf, InMap, Holds
<1>1. Types'
  BY DEF Types
<1>2. BacklogNew'
  BY DEF Types, BacklogNew, Jobs
<1>3. Accepted'
  BY DEF Types, Accepted, NoJob, Jobs
<1>4. OneAccepts'
  BY DEF Types, OneAccepts, Accepting, Accepted, BacklogNew, NoJob, Jobs
<1>5. OneHolds'
  BY DEF Types, OneHolds, NoJob, Jobs
<1>6. HandlersInMap'
  BY DEF Types, HandlersInMap, NoJob, Jobs
<1>7. StreamsInPlace'
  BY DEF Types, StreamsInPlace, OneHolds, OneAccepts, Accepting, NoJob, Jobs
<1>8. UnreadNoticed'
  BY DEF Types, UnreadNoticed, SomethingFrom, Poisoned, LockOf, NoJob, Jobs
<1>9. Unpoisoned'
  BY DEF Types, Unpoisoned, OneHolds, Poisoned, LockOf, NoJob, Jobs
<1>. QED  BY <1>1, <1>2, <1>3, <1>4, <1>5, <1>6, <1>7, <1>8, <1>9

\* Nobody goes to the listener.
LEMMA ListenerEventLostStep ==
    ASSUME IInv, NEW w \in Workers, ListenerEventLost(w)
    PROVE  IInv'
<1> USE ScratchAssumption DEF IInv, ListenerEventLost, serverState, history, JobAt, ConnOf, InMap, Holds
<1>1. Types'
  BY DEF Types
<1>2. BacklogNew'
  BY DEF Types, BacklogNew, Jobs
<1>3. Accepted'
  BY DEF Types, Accepted, NoJob, Jobs
<1>4. OneAccepts'
  BY DEF Types, OneAccepts, Accepting, Accepted, BacklogNew, NoJob, Jobs
<1>5. OneHolds'
  BY DEF Types, OneHolds, NoJob, Jobs
<1>6. HandlersInMap'
  BY DEF Types, HandlersInMap, NoJob, Jobs
<1>7. StreamsInPlace'
  BY DEF Types, StreamsInPlace, OneHolds, OneAccepts, Accepting, NoJob, Jobs
<1>8. UnreadNoticed'
  BY DEF Types, UnreadNoticed, SomethingFrom, Poisoned, LockOf, NoJob, Jobs
<1>9. Unpoisoned'
  BY DEF Types, Unpoisoned, OneHolds, Poisoned, LockOf, NoJob, Jobs
<1>. QED  BY <1>1, <1>2, <1>3, <1>4, <1>5, <1>6, <1>7, <1>8, <1>9

\* The worker takes the lock, which nobody holds, of a stream that is in the map.
LEMMA LookUpStep ==
    ASSUME IInv, NEW w \in Workers, LookUp(w)
    PROVE  IInv'
<1> USE ScratchAssumption DEF IInv, LookUp, Takes, HasStream, LockFree, LockOf, serverState, network,
        history, JobAt, ConnOf, Go, InMap, Holds
<1>1. Types'
  BY JobTypes DEF Types, Steps
<1>2. BacklogNew'
  BY DEF Types, BacklogNew, Jobs
<1>3. Accepted'
  BY DEF Types, Accepted, Jobs
<1>4. OneAccepts'
  BY DEF Types, OneAccepts, Accepting, Accepted, BacklogNew, Jobs
<1>5. OneHolds'
  BY DEF Types, OneHolds, Jobs
<1>6. HandlersInMap'
  BY DEF Types, HandlersInMap, Jobs
<1>7. StreamsInPlace'
  BY DEF Types, StreamsInPlace, OneHolds, OneAccepts, Accepting, Jobs
<1>8. UnreadNoticed'
  BY DEF Types, UnreadNoticed, SomethingFrom, Poisoned, LockOf, Jobs
<1>9. Unpoisoned'
  BY DEF Types, Unpoisoned, OneHolds, Poisoned, LockOf, NoJob, Jobs
<1>. QED  BY <1>1, <1>2, <1>3, <1>4, <1>5, <1>6, <1>7, <1>8, <1>9

\* The event is recorded as missed.
LEMMA FindsNoStreamStep ==
    ASSUME IInv, NEW w \in Workers, FindsNoStream(w)
    PROVE  IInv'
<1> USE ScratchAssumption DEF IInv, FindsNoStream, HasStream, LockFree, LockOf, serverState, network,
        JobAt, ConnOf, Finish, InMap, Holds
<1>1. Types'
  BY JobTypes DEF Types, Steps
<1>2. BacklogNew'
  BY DEF Types, BacklogNew, Jobs
<1>3. Accepted'
  BY DEF Types, Accepted, NoJob, Jobs
<1>4. OneAccepts'
  BY DEF Types, OneAccepts, Accepting, Accepted, BacklogNew, NoJob, Jobs
<1>5. OneHolds'
  BY DEF Types, OneHolds, NoJob, Jobs
<1>6. HandlersInMap'
  BY DEF Types, HandlersInMap, NoJob, Jobs
<1>7. StreamsInPlace'
  BY DEF Types, StreamsInPlace, OneHolds, OneAccepts, Accepting, NoJob, Jobs
<1>8. UnreadNoticed'
  BY DEF Types, UnreadNoticed, SomethingFrom, Poisoned, LockOf, NoJob, Jobs
<1>9. Unpoisoned'
  BY DEF Types, Unpoisoned, OneHolds, Poisoned, LockOf, NoJob, Jobs
<1>. QED  BY <1>1, <1>2, <1>3, <1>4, <1>5, <1>6, <1>7, <1>8, <1>9

\* There was nothing to read.
LEMMA ReadsNothingStep ==
    ASSUME IInv, NEW w \in Workers, ReadsNothing(w)
    PROVE  IInv'
<1> USE ScratchAssumption DEF IInv, ReadsNothing, serverState, network, history, JobAt, ConnOf, Finish,
        InMap, Holds
<1>1. Types'
  BY JobTypes DEF Types, Steps
<1>2. BacklogNew'
  BY DEF Types, BacklogNew, Jobs
<1>3. Accepted'
  BY DEF Types, Accepted, NoJob, Jobs
<1>4. OneAccepts'
  BY DEF Types, OneAccepts, Accepting, Accepted, BacklogNew, NoJob, Jobs
<1>5. OneHolds'
  BY DEF Types, OneHolds, NoJob, Jobs
<1>6. HandlersInMap'
  BY DEF Types, HandlersInMap, NoJob, Jobs
<1>7. StreamsInPlace'
  BY DEF Types, StreamsInPlace, OneHolds, OneAccepts, Accepting, NoJob, Jobs
<1>8. UnreadNoticed'
  BY DEF Types, UnreadNoticed, SomethingFrom, Poisoned, LockOf, NoJob, Jobs
<1>9. Unpoisoned'
  BY DEF Types, Unpoisoned, OneHolds, Poisoned, LockOf, NoJob, Jobs
<1>. QED  BY <1>1, <1>2, <1>3, <1>4, <1>5, <1>6, <1>7, <1>8, <1>9

\* All there was has been read, or the client is recorded as missed.
LEMMA ReadsChunkStep ==
    ASSUME IInv, NEW w \in Workers, ReadsChunk(w)
    PROVE  IInv'
<1> USE ScratchAssumption DEF IInv, ReadsChunk, serverState, JobAt, ConnOf, InMap, Holds
<1>1. Types'
  <2> DEFINE s == unread[job[w].conn]
             n == IF Len(s) < BufferSize THEN Len(s) ELSE BufferSize
  <2>0. job[w].conn \in Clients /\ job[w] \in Jobs
    BY DEF Types, Accepted
  <2>1. s \in Seq(Halves) /\ n \in 0 .. Len(s) /\ Len(s) \in Nat
    <3>1. s \in Seq(Halves)
      BY <2>0 DEF Types
    <3>2. Len(s) \in Nat
      BY <3>1
    <3> HIDE DEF s
    <3>. QED  BY <3>1, <3>2
  <2>2. SubSeq(s, 1, n) \in Seq(Halves) /\ SubSeq(s, n + 1, Len(s)) \in Seq(Halves)
    <3> HIDE DEF s, n
    <3>. QED  BY <2>1, SubSeqProperties
  <2>3. unread' = [unread EXCEPT ![job[w].conn] = SubSeq(s, n + 1, Len(s))]
    BY DEF Types, Accepted
  <2>4. job' = [job EXCEPT ![w] = [job[w] EXCEPT !.step = "answer", !.chunk = SubSeq(s, 1, n)]]
    OBVIOUS
  <2> HIDE DEF s, n
  <2>5. unread' \in [Clients -> Seq(Halves)]
    BY ZenonT(30), <2>2, <2>3 DEF Types
  <2>6. job' \in [Workers -> Jobs]
    <3>1. [job[w] EXCEPT !.step = "answer", !.chunk = SubSeq(s, 1, n)] \in Jobs
      BY <2>0, <2>2, JobTypes DEF Steps
    <3>. QED  BY <2>4, <3>1 DEF Types
  <2>. QED  BY <2>5, <2>6 DEF Types
<1>2. BacklogNew'
  BY DEF Types, BacklogNew, Jobs
<1>3. Accepted'
  BY SMTT(40) DEF Types, Accepted, Jobs
<1>4. OneAccepts'
  BY SMTT(30) DEF Types, OneAccepts, Accepting, Accepted, BacklogNew, Jobs
<1>5. OneHolds'
  BY DEF Types, OneHolds, Jobs
<1>6. HandlersInMap'
  BY DEF Types, HandlersInMap, Jobs
<1>7. StreamsInPlace'
  BY DEF Types, StreamsInPlace, OneHolds, OneAccepts, Accepting, Jobs
<1>8. UnreadNoticed'
  BY SMTT(30) DEF Types, UnreadNoticed, SomethingFrom, Poisoned, LockOf, Jobs
<1>9. Unpoisoned'
  BY DEF Types, Unpoisoned, OneHolds, Poisoned, LockOf, NoJob, Jobs
<1>. QED  BY <1>1, <1>2, <1>3, <1>4, <1>5, <1>6, <1>7, <1>8, <1>9

\* The answer is written and the lock let go.
LEMMA WritesStep ==
    ASSUME IInv, NEW w \in Workers, Writes(w)
    PROVE  IInv'
<1> USE ScratchAssumption DEF IInv, Writes, network, history, JobAt, ConnOf, Finish, InMap, Holds
<1>1. Types'
  BY JobTypes DEF Types, Steps
<1>2. BacklogNew'
  BY DEF Types, BacklogNew, Jobs
<1>3. Accepted'
  BY DEF Types, Accepted, NoJob, Jobs
<1>4. OneAccepts'
  BY DEF Types, OneAccepts, Accepting, Accepted, BacklogNew, NoJob, Jobs
<1>5. OneHolds'
  BY DEF Types, OneHolds, NoJob, Jobs
<1>6. HandlersInMap'
  BY DEF Types, HandlersInMap, NoJob, Jobs
<1>7. StreamsInPlace'
  BY DEF Types, StreamsInPlace, OneHolds, OneAccepts, Accepting, NoJob, Jobs
<1>8. UnreadNoticed'
  BY DEF Types, UnreadNoticed, SomethingFrom, Poisoned, LockOf, NoJob, Jobs
<1>9. Unpoisoned'
  BY DEF Types, Unpoisoned, OneHolds, Poisoned, LockOf, NoJob, Jobs
<1>. QED  BY <1>1, <1>2, <1>3, <1>4, <1>5, <1>6, <1>7, <1>8, <1>9

\* A worker passes by, because the lock is poisoned.
LEMMA FindsNothingStep ==
    ASSUME IInv, NEW w \in Workers, Poisoned(ConnOf(w)), job[w].step \in {"lock", "disconnect"}, Finish(w),
           UNCHANGED <<server, next_token, token, connections, handlers, poisoned, backlog, watched, edge,
                       unread, ended, missed>>
    PROVE  IInv'
<1> USE ScratchAssumption DEF IInv, Poisoned, LockOf, ConnOf, Finish, InMap, Holds
<1>1. Types'
  BY JobTypes DEF Types, Steps
<1>2. BacklogNew'
  BY DEF Types, BacklogNew, Jobs
<1>3. Accepted'
  BY DEF Types, Accepted, NoJob, Jobs
<1>4. OneAccepts'
  BY DEF Types, OneAccepts, Accepting, Accepted, BacklogNew, NoJob, Jobs
<1>5. OneHolds'
  BY DEF Types, OneHolds, NoJob, Jobs
<1>6. HandlersInMap'
  BY DEF Types, HandlersInMap, NoJob, Jobs
<1>7. StreamsInPlace'
  BY DEF Types, StreamsInPlace, OneHolds, OneAccepts, Accepting, NoJob, Jobs
<1>8. UnreadNoticed'
  BY DEF Types, UnreadNoticed, SomethingFrom, Poisoned, LockOf, NoJob, Jobs
<1>9. Unpoisoned'
  BY DEF Types, Unpoisoned, OneHolds, Poisoned, LockOf, NoJob, Jobs
<1>. QED  BY <1>1, <1>2, <1>3, <1>4, <1>5, <1>6, <1>7, <1>8, <1>9

LEMMA FindsPoisonedStep ==
    ASSUME IInv, NEW w \in Workers, FindsPoisoned(w)
    PROVE  IInv'
BY FindsNothingStep DEF FindsPoisoned, JobAt, serverState, network, history

\* The lock of the map is poisoned, which nobody else holds.
LEMMA AnswerPanicsStep ==
    ASSUME IInv, NEW w \in Workers, AnswerPanics(w)
    PROVE  IInv'
<1> USE ScratchAssumption DEF IInv, AnswerPanics, Panics, LockOf, Poisoned, network, JobAt, ConnOf, Dies,
        InMap, Holds
<1>1. Types'
  BY JobTypes DEF Types, Steps
<1>2. BacklogNew'
  BY DEF Types, BacklogNew, Jobs
<1>3. Accepted'
  BY DEF Types, Accepted, NoJob, Jobs
<1>4. OneAccepts'
  BY DEF Types, OneAccepts, Accepting, Accepted, BacklogNew, NoJob, Jobs
<1>5. OneHolds'
  BY DEF Types, OneHolds, NoJob, Jobs
<1>6. HandlersInMap'
  BY DEF Types, HandlersInMap, NoJob, Jobs
<1>7. StreamsInPlace'
  BY DEF Types, StreamsInPlace, OneHolds, OneAccepts, Accepting, NoJob, Jobs
<1>8. UnreadNoticed'
  BY DEF Types, UnreadNoticed, SomethingFrom, Poisoned, LockOf, NoJob, Jobs
<1>9. Unpoisoned'
  BY DEF Types, Unpoisoned, OneHolds, Poisoned, LockOf, NoJob, Jobs
<1>. QED  BY <1>1, <1>2, <1>3, <1>4, <1>5, <1>6, <1>7, <1>8, <1>9

\* A worker takes its connection down, while nobody else holds the lock of the map.
LEMMA TakenDown ==
    ASSUME IInv, NEW w \in Workers, job[w].step \in {"read", "answer", "disconnect"},
           InMap => \A v \in Workers \ {w} : ~Holds(v),
           ~Poisoned(job[w].conn), TakesDown(w),
           UNCHANGED <<server, next_token, token, poisoned, backlog, unread, ended, missed>>
    PROVE  IInv'
<1> USE DEF IInv, InMap, Holds
<1> DEFINE c == job[w].conn
<1>1. /\ c \in Clients /\ token[c] # None
      /\ \A v \in Workers : Accepting(v) => job[v].conn # c /\ v # w
  BY DEF Accepted, OneAccepts, Accepting
<1>2. /\ \A v \in Workers \ {w} : job'[v] = job[v]
      /\ job'[w].step = "idle" /\ job'[w].conn = None
      /\ job' \in [Workers -> Jobs]
  BY JobTypes DEF TakesDown, Finish, NoJob, Types
<1>3. /\ connections' = connections \ {c} /\ handlers' = handlers \ {c}
      /\ watched' = watched \ {c} /\ edge' = edge \ {c}
  <2>1. CASE InMap /\ c \notin connections
    <3>1. c \notin handlers /\ c \notin watched
      BY <1>1, <2>1 DEF HandlersInMap, Accepting, Poisoned, LockOf
    <3>. QED  BY <2>1, <3>1 DEF TakesDown, TakeDown, ConnOf, Accepted
  <2>2. CASE ~(InMap /\ c \notin connections)
    BY <2>2 DEF TakesDown, TakeDown, ConnOf
  <2>. QED  BY <2>1, <2>2
<1> HIDE DEF c
<1>4. Types'
  BY <1>2, <1>3 DEF Types
<1>5. BacklogNew' /\ Accepted'
  BY <1>2, <1>3 DEF BacklogNew, Accepted
<1>6. OneAccepts'
  BY <1>1, <1>2, <1>3 DEF OneAccepts, Accepting
<1>7. OneHolds' /\ Unpoisoned'
  BY <1>2 DEF OneHolds, Unpoisoned, Poisoned, LockOf, ConnOf
<1>8. HandlersInMap'
  BY <1>1, <1>2, <1>3 DEF HandlersInMap, Accepting
<1>9. StreamsInPlace'
  BY <1>2, <1>3 DEF StreamsInPlace, ConnOf
<1>10. UnreadNoticed'
  <2> SUFFICES ASSUME NEW d \in watched', SomethingFrom(d)', d \notin edge' \cup missed', ~Poisoned(d)'
               PROVE  \E v \in Workers : job'[v].conn = d /\ job'[v].step \in {"lock", "read", "disconnect"}
    BY DEF UnreadNoticed, ConnOf
  <2>1. d \in watched /\ d # c /\ SomethingFrom(d) /\ d \notin edge \cup missed /\ ~Poisoned(d)
    BY <1>3 DEF SomethingFrom, Poisoned, LockOf
  <2>2. PICK v \in Workers : job[v].conn = d /\ job[v].step \in {"lock", "read", "disconnect"}
    BY <2>1 DEF UnreadNoticed, ConnOf
  <2>. QED  BY <1>2, <2>1, <2>2 DEF c
<1>. QED  BY <1>4, <1>5, <1>6, <1>7, <1>8, <1>9, <1>10

\* A worker lets go of the lock, to take its connection down.
LEMMA LetGo ==
    ASSUME IInv, NEW w \in Workers, job[w].step \in {"read", "answer"},
           LetsGo(w),
           UNCHANGED <<server, next_token, token, poisoned, backlog, unread, ended, missed>>
    PROVE  IInv'
<1> USE DEF IInv, InMap, Holds, LetsGo
<1>1. /\ \A v \in Workers \ {w} : job'[v] = job[v]
      /\ job'[w].step = "disconnect" /\ job'[w].conn = job[w].conn
      /\ job' \in [Workers -> Jobs]
  <2>1. job[w] \in Jobs /\ <<>> \in Seq(Halves)
    BY DEF Types
  <2>2. [job[w] EXCEPT !.step = "disconnect", !.chunk = <<>>] \in Jobs
    BY <2>1, JobTypes DEF Steps
  <2>3. job' \in [Workers -> Jobs]
    BY <2>2 DEF Types
  <2>. QED  BY <2>1, <2>3 DEF Types, Jobs
<1>2. Types'
  BY <1>1 DEF Types
<1>3. BacklogNew' /\ Accepted'
  BY <1>1 DEF BacklogNew, Accepted
<1>4. OneAccepts'
  BY <1>1 DEF OneAccepts, Accepting
<1>5. OneHolds' /\ Unpoisoned' /\ HandlersInMap' /\ StreamsInPlace'
  BY <1>1 DEF OneHolds, Unpoisoned, Poisoned, LockOf, HandlersInMap, StreamsInPlace, ConnOf
<1>6. UnreadNoticed'
  BY <1>1 DEF UnreadNoticed, ConnOf, SomethingFrom, Poisoned, LockOf
<1>. QED  BY <1>2, <1>3, <1>4, <1>5, <1>6

\* A connection that is read to its end, cannot be written to, or is taken
\* down, keeps the invariant.
LEMMA EndsStep ==
    ASSUME IInv, NEW w \in Workers, ReadsEnd(w) \/ WriteFails(w) \/ Disconnect(w)
    PROVE  IInv'
<1> USE DEF JobAt
<1>1. CASE Disconnect(w)
  <2>1. InMap => \A v \in Workers \ {w} : ~Holds(v)
    BY <1>1 DEF Disconnect, LockFree, LockOf
  <2>2. CASE ~Poisoned(ConnOf(w))
    BY <1>1, <2>1, <2>2, TakenDown DEF Disconnect, TakesDown, history, ConnOf
  <2>3. CASE Poisoned(ConnOf(w))
    BY <1>1, <2>3, FindsNothingStep DEF Disconnect, history
  <2>. QED  BY <2>2, <2>3
<1>2. CASE ReadsEnd(w) \/ WriteFails(w)
  <2>1. /\ job[w].step \in {"read", "answer"} /\ EndsConnection(w)
        /\ UNCHANGED <<server, next_token, token, poisoned, backlog, unread, ended, missed>>
    BY <1>2 DEF ReadsEnd, WriteFails, history
  <2>2. InMap => \A v \in Workers \ {w} : ~Holds(v)
    BY <2>1 DEF IInv, OneHolds, Holds
  <2>5. ~Poisoned(job[w].conn)
    BY <2>1 DEF IInv, Unpoisoned, Holds, ConnOf
  <2>3. CASE server = "echo"
    BY <2>1, <2>2, <2>3, <2>5, TakenDown DEF EndsConnection
  <2>4. CASE server # "echo"
    BY <2>1, <2>4, LetGo DEF EndsConnection
  <2>. QED  BY <2>3, <2>4
<1>. QED  BY <1>1, <1>2

\* Every step keeps the invariant.
LEMMA NextIInv == IInv /\ [Next]_vars => IInv'
<1> SUFFICES ASSUME IInv, [Next]_vars PROVE IInv'
  OBVIOUS
<1>1. CASE \E c \in Clients : Client(c)
  BY <1>1, ConnectsStep, SendsStep, ClosesStep DEF Client
<1>2. ASSUME NEW w \in Workers, Worker(w) PROVE IInv'
  BY <1>2, ListenerEventStep, AcceptStep, AcceptsNothingStep, AcceptPanicsStep, ListenerEventLostStep,
     RegisterStreamStep, RegisterFailsStep, InsertHandlerStep, InsertStreamStep, InsertPanicsStep,
     ConnEventStep, EventLostStep, LookUpStep, FindsNoStreamStep, FindsPoisonedStep, ReadsNothingStep,
     ReadsChunkStep, WritesStep, AnswerPanicsStep, EndsStep DEF Worker
<1>3. CASE UNCHANGED vars
  <2> USE <1>3 DEF vars, serverState, network, history, IInv
  <2>1. Types' /\ BacklogNew' /\ Accepted'
    BY DEF Types, BacklogNew, Accepted
  <2>2. OneAccepts' /\ OneHolds' /\ Unpoisoned' /\ HandlersInMap'
    BY DEF OneAccepts, Accepting, OneHolds, Unpoisoned, Poisoned, LockOf, ConnOf, Holds, HandlersInMap, InMap
  <2>3. StreamsInPlace' /\ UnreadNoticed'
    BY DEF StreamsInPlace, UnreadNoticed, SomethingFrom, Poisoned, LockOf, ConnOf, Holds, InMap
  <2>. QED  BY <2>1, <2>2, <2>3
<1>. QED  BY <1>1, <1>2, <1>3 DEF Next

\* Streams, handlers and workers agree in every reachable state, for each of
\* the three servers (scratch_echo_server.rs l.53-169, scratch_jsonrpc_server.rs
\* l.83-274, scratch_http_server.rs l.151-275).
THEOREM Invariant == Spec => []IInv
BY InitIInv, NextIInv, PTL DEF Spec

--------------------------------------------------------------------------------
(***************************************************************************)
(* The order of the answers: the server is, at any time, where one would   *)
(* be that had served the reads of the log, but for what is in the hands   *)
(* of workers that have read and not yet written.                          *)
(***************************************************************************)
LessNat == {ss \in Nat \X Nat : ss[1] < ss[2]}

\* The library's fact, without an operator as its parameter.
LEMMA LessNatWellFounded == IsWellFoundedOn(LessNat, Nat)
BY NatLessThanWellFounded, Zenon DEF OpToRel, LessNat

\* What holds of 0, and of n + 1 if of n, holds of all.
LEMMA Induction ==
    ASSUME NEW S, 0 \in S, \A n \in Nat : n \in S => n + 1 \in S
    PROVE  Nat \subseteq S
<1> SUFFICES ASSUME Nat \ S # {} PROVE FALSE
  OBVIOUS
<1>. PICK T : T = Nat \ S
  OBVIOUS
<1>1. PICK x \in T : \A y \in T : ~(<<y, x>> \in LessNat)
  BY LessNatWellFounded, WFMin
<1>2. x \in Nat /\ x # 0 /\ x - 1 \in Nat /\ x - 1 + 1 = x
  BY <1>1
<1>3. x - 1 \in T
  BY <1>1, <1>2
<1>4. <<x - 1, x>> \in LessNat
  <2>1. <<x - 1, x>> \in Nat \X Nat /\ <<x - 1, x>>[1] = x - 1 /\ <<x - 1, x>>[2] = x /\ x - 1 < x
    BY <1>2
  <2>. QED  BY <2>1, Zenon DEF LessNat
<1>. QED  BY <1>1, <1>3, <1>4

IsSeq(s) == \E X : s \in Seq(X)

\* A sequence with another behind it.
LEMMA Longer ==
    ASSUME NEW s, NEW t, IsSeq(s), IsSeq(t)
    PROVE  IsSeq(s \o t) /\ IsPrefix(s, s \o t) /\ IsPrefix(s, s)
<1>1. PICK X : s \in Seq(X)
  BY DEF IsSeq
<1>2. PICK Y : t \in Seq(Y)
  BY DEF IsSeq
<1>3. s \in Seq(X \cup Y) /\ t \in Seq(X \cup Y)
  BY <1>1, <1>2, SeqMonotonic
<1>. PICK Z : Z = X \cup Y
  OBVIOUS
<1>4. s \in Seq(Z) /\ t \in Seq(Z) /\ s \o t \in Seq(Z)
  BY <1>3
<1>5. SubSeq(s, 1, Len(s)) = s /\ SubSeq(s \o t, 1, Len(s)) = s
  BY <1>4
<1>6. Len(s) \in Nat /\ Len(s) <= Len(s \o t)
  BY <1>4
<1>. QED  BY <1>4, <1>5, <1>6 DEF IsSeq, IsPrefix

Reads == [conn : Clients, chunk : Seq(Halves)]

LogTypes ==
    /\ log \in Seq(Reads)
    /\ written = [c \in Clients |-> written[c]]
    /\ \A c \in Clients : IsSeq(written[c])

\* One worker holds each lock, that of the map or of a stream.
OneEach ==
    \A v, w \in Workers :
        Holds(v) /\ Holds(w) /\ LockOf(ConnOf(v)) = LockOf(ConnOf(w)) => v = w

\* The states of one that serves alone, after each read.
Served(f) ==
    /\ f = [n \in 0 .. Len(log) |-> f[n]]
    /\ f[0] = Unserved
    /\ \A n \in 1 .. Len(log) : f[n] = Serve(f[n - 1], log[n])

Answering(w) == job[w].step = "answer"

\* Such a state, but for what is in the hands of workers.
Matches(state) ==
    /\ state.answers = [c \in Clients |-> state.answers[c]]
    /\ \A w \in Workers : Answering(w) =>
          /\ state.store = StoreAfter(job[w].chunk, data_store)
          /\ ConnOf(w) \notin broken =>
                state.answers[ConnOf(w)] = written[ConnOf(w)] \o AnswerTo(job[w].chunk, data_store)
    /\ (\A w \in Workers : ~Answering(w)) => state.store = data_store
    /\ \A c \in Clients \ broken :
          (\A w \in Workers : Answering(w) => ConnOf(w) # c) => state.answers[c] = written[c]

SInv ==
    /\ LogTypes
    /\ OneEach
    /\ \E f : Served(f) /\ Matches(f[Len(log)])

\* Nothing is read yet.
LEMMA InitSInv == Init => SInv
<1> SUFFICES ASSUME Init PROVE SInv
  OBVIOUS
<1> USE DEF Init, ServerInit
<1>1. LogTypes
  <2>1. <<>> \in Seq(Reads) /\ <<>> \in Seq({})
    OBVIOUS
  <2>. QED  BY <2>1 DEF LogTypes, IsSeq
<1>2. \A w \in Workers : job[w].step \in {"idle", "absent"}
  BY DEF NoJob, Absent
<1>3. OneEach
  BY <1>2 DEF OneEach, Holds
<1>4. PICK f : f = [n \in 0 .. 0 |-> Unserved]
  OBVIOUS
<1>5. Len(log) = 0 /\ f[0] = Unserved /\ Served(f)
  BY <1>4 DEF Served
<1>6. Matches(Unserved)
  BY <1>2 DEF Matches, Unserved, Answering
<1>. QED  BY <1>1, <1>3, <1>5, <1>6 DEF SInv

\* What a server answers is a sequence.
LEMMA AnswersAre ==
    ASSUME Types, NEW chunk \in Seq(Halves), NEW store
    PROVE  IsSeq(AnswerTo(chunk, store))
<1>1. \A x : <<x>> \in Seq({x})
  OBVIOUS
<1>. QED  BY <1>1 DEF AnswerTo, Types, IsSeq

\* Steps that do not change what is served.
LEMMA NothingServed ==
    ASSUME SInv, UNCHANGED <<server, data_store, written, log, broken>>, OneEach',
           \A w \in Workers : (Answering(w)' <=> Answering(w)) /\ (Answering(w) => job'[w] = job[w])
    PROVE  SInv'
<1>1. LogTypes'
  BY DEF SInv, LogTypes, IsSeq
<1>2. PICK f : Served(f) /\ Matches(f[Len(log)])
  BY DEF SInv
<1>3. \A state, read : Serve(state, read)' = Serve(state, read)
  BY DEF Serve, StoreAfter, AnswerTo
<1>4. Served(f)'
  <2>1. Unserved' = Unserved
    BY DEF Unserved, EmptyStore
  <2>. QED  BY <1>2, <1>3, <2>1 DEF Served
<1>5. \A chunk, store : AnswerTo(chunk, store)' = AnswerTo(chunk, store)
                        /\ StoreAfter(chunk, store)' = StoreAfter(chunk, store)
  BY DEF StoreAfter, AnswerTo
<1>6. Matches(f[Len(log)])'
  <2> PICK state : state = f[Len(log)]
    OBVIOUS
  <2>1. Matches(state)
    BY <1>2
  <2>2. \A w \in Workers : Answering(w) => ConnOf(w)' = ConnOf(w) /\ job'[w] = job[w]
    BY DEF ConnOf
  <2>3. Matches(state)'
    BY <1>5, <2>1, <2>2, ZenonT(30) DEF Matches
  <2>. QED  BY <2>3
<1>. QED  BY <1>1, <1>4, <1>6 DEF SInv

\* A worker takes a lock only when it is free.
LEMMA LocksKept ==
    ASSUME OneEach, NEW w \in Workers, \A v \in Workers \ {w} : job'[v] = job[v], server' = server,
           Holds(w)' => ConnOf(w)' = ConnOf(w) /\ (Holds(w) \/ LockFree(ConnOf(w)))
    PROVE  OneEach'
<1>1. \A c : LockOf(c)' = LockOf(c)
  BY DEF LockOf, InMap
<1>2. \A v \in Workers \ {w} : (Holds(v)' <=> Holds(v)) /\ ConnOf(v)' = ConnOf(v)
  BY DEF Holds, ConnOf
<1>3. ASSUME NEW v \in Workers \ {w}, Holds(v)', Holds(w)', LockOf(ConnOf(v))' = LockOf(ConnOf(w))'
      PROVE  FALSE
  <2>1. Holds(v) /\ LockOf(ConnOf(v)) = LockOf(ConnOf(w))
    BY <1>1, <1>2, <1>3
  <2>2. ~Holds(w)
    BY <2>1 DEF OneEach
  <2>. QED  BY <1>3, <2>1, <2>2 DEF LockFree
<1>. QED  BY <1>1, <1>2, <1>3 DEF OneEach

\* The steps of a worker that neither reads nor writes.
LEMMA OtherStep ==
    ASSUME IInv, SInv, NEW w \in Workers, ~Answering(w), ~Answering(w)',
           \A v \in Workers \ {w} : job'[v] = job[v],
           UNCHANGED <<server, data_store, written, log, broken>>,
           Holds(w)' => ConnOf(w)' = ConnOf(w) /\ (Holds(w) \/ LockFree(ConnOf(w)))
    PROVE  SInv'
<1>1. OneEach'
  BY LocksKept DEF SInv
<1>2. \A v \in Workers : (Answering(v)' <=> Answering(v)) /\ (Answering(v) => job'[v] = job[v])
  BY DEF Answering
<1>. QED  BY <1>1, <1>2, NothingServed

\* Who holds a lock is not disturbed, but by another stream of the HTTP server.
LEMMA OthersApart ==
    ASSUME IInv, OneEach, NEW v \in Workers, NEW w \in Workers, v # w, Holds(v), Holds(w)
    PROVE  server = "http" /\ ConnOf(v) # ConnOf(w)
BY DEF OneEach, LockOf, InMap

\* The HTTP server stores nothing.
LEMMA HttpStoresNothing ==
    ASSUME server = "http"
    PROVE  \A chunk, store, other :
               StoreAfter(chunk, store) = store /\ AnswerTo(chunk, store) = AnswerTo(chunk, other)
BY DEF StoreAfter, AnswerTo

\* A read: what it is answered with is in the worker's hands.
LEMMA ReadServed ==
    ASSUME IInv, SInv, NEW w \in Workers, ReadsChunk(w)
    PROVE  SInv'
<1>a. PICK c \in Clients : c = ConnOf(w)
  BY DEF ReadsChunk, JobAt, IInv, Accepted, ConnOf
<1>b. PICK chunk : chunk = SubSeq(unread[c], 1, IF Len(unread[c]) < BufferSize THEN Len(unread[c]) ELSE BufferSize)
  OBVIOUS
<1>c. PICK r : r = [conn |-> c, chunk |-> chunk]
  OBVIOUS
<1>1. chunk \in Seq(Halves)
  <2>1. unread[c] \in Seq(Halves)
    BY DEF IInv, Types
  <2> HIDE DEF Halves
  <2>. QED  BY <1>b, <2>1, ScratchAssumption
<1>2. /\ Holds(w) /\ ~Answering(w) /\ job[w] \in Jobs
      /\ job' = [job EXCEPT ![w] = [@ EXCEPT !.step = "answer", !.chunk = chunk]]
      /\ log' = Append(log, r)
      /\ UNCHANGED <<server, data_store, written, broken>>
  BY <1>a, <1>b, <1>c DEF ReadsChunk, JobAt, Holds, Answering, IInv, Types, serverState
<1>3. /\ Holds(w)' /\ Answering(w)' /\ ConnOf(w)' = c /\ job'[w].chunk = chunk
      /\ \A v \in Workers \ {w} : job'[v] = job[v]
  BY <1>a, <1>2 DEF IInv, Types, Jobs, Holds, Answering, ConnOf
<1>4. OneEach'
  BY <1>a, <1>2, <1>3, LocksKept DEF SInv
<1>5. LogTypes'
  BY <1>1, <1>2, <1>c DEF SInv, LogTypes, Reads, IsSeq
<1>6. PICK f : Served(f) /\ Matches(f[Len(log)])
  BY DEF SInv
<1>d. PICK n \in Nat : n = Len(log)
  BY DEF SInv, LogTypes
<1>e. PICK state : state = f[n]
  OBVIOUS
<1>f. PICK g : g = [m \in 0 .. n + 1 |-> IF m = n + 1 THEN Serve(state, r) ELSE f[m]]
  OBVIOUS
<1>7. \A s, read : Serve(s, read)' = Serve(s, read)
  BY <1>2 DEF Serve, StoreAfter, AnswerTo
<1>8. Served(g)'
  <2>1. Len(log') = n + 1 /\ log'[n + 1] = r /\ \A m \in 1 .. n : log'[m] = log[m]
    BY <1>1, <1>2, <1>c, <1>d DEF SInv, LogTypes, Reads
  <2>2. g = [m \in 0 .. n + 1 |-> g[m]] /\ g[0] = Unserved
    BY <1>6, <1>d, <1>f DEF Served
  <2>3. Unserved' = Unserved
    BY DEF Unserved, EmptyStore
  <2>4. ASSUME NEW m \in 1 .. n + 1
        PROVE  g[m] = Serve(g[m - 1], log'[m])
    <3>1. CASE m = n + 1
      BY <1>e, <1>f, <2>1, <3>1
    <3>2. CASE m # n + 1
      <4>1. m \in 1 .. n /\ m - 1 \in 0 .. n /\ m - 1 # n + 1
        BY <3>2
      <4>2. g[m] = f[m] /\ g[m - 1] = f[m - 1]
        BY <1>f, <4>1
      <4>. QED  BY <1>6, <1>d, <2>1, <4>1, <4>2 DEF Served
    <3>. QED  BY <3>1, <3>2
  <2>. QED  BY <1>7, <2>1, <2>2, <2>3, <2>4 DEF Served
<1>9. /\ \A v \in Workers : Answering(v) => v # w /\ Holds(v) /\ server = "http" /\ ConnOf(v) # c
      /\ \A v \in Workers : Answering(v)' => v = w \/ Answering(v)
  <2>1. \A v \in Workers : Answering(v) => v # w /\ Holds(v)
    BY <1>2 DEF Answering, Holds
  <2>2. \A v \in Workers : Answering(v)' => v = w \/ Answering(v)
    BY <1>3 DEF Answering
  <2>. QED  BY <1>a, <1>2, <2>1, <2>2, OthersApart DEF SInv
<1>10. state.store = data_store
  <2>1. ASSUME NEW v \in Workers, Answering(v)
        PROVE  state.store = data_store
    <3>1. state.store = StoreAfter(job[v].chunk, data_store)
      BY <1>6, <1>d, <1>e, <2>1 DEF Matches
    <3>. QED  BY <1>9, <2>1, <3>1, HttpStoresNothing
  <2>2. CASE \A v \in Workers : ~Answering(v)
    BY <1>6, <1>d, <1>e, <2>2 DEF Matches
  <2>. QED  BY <2>1, <2>2
<1>11. c \notin broken => state.answers[c] = written[c]
  BY <1>6, <1>9, <1>d, <1>e DEF Matches
<1>n. PICK next : next = Serve(state, r)
  OBVIOUS
<1>12. Matches(next)'
  <2>1. /\ Serve(state, r).store = StoreAfter(chunk, data_store)
        /\ Serve(state, r).answers = [state.answers EXCEPT ![c] = @ \o AnswerTo(chunk, data_store)]
    BY <1>10, <1>c DEF Serve
  <2>2. state.answers = [d \in Clients |-> state.answers[d]]
    BY <1>6, <1>d, <1>e DEF Matches
  <2>3. /\ Serve(state, r).answers = [d \in Clients |-> Serve(state, r).answers[d]]
        /\ Serve(state, r).answers[c] = state.answers[c] \o AnswerTo(chunk, data_store)
        /\ \A d \in Clients \ {c} : Serve(state, r).answers[d] = state.answers[d]
    BY <2>1, <2>2
  <2>4. \A ch, st : AnswerTo(ch, st)' = AnswerTo(ch, st) /\ StoreAfter(ch, st)' = StoreAfter(ch, st)
    BY <1>2 DEF StoreAfter, AnswerTo
  <2>5. ASSUME NEW v \in Workers, Answering(v)'
        PROVE  /\ next.store = StoreAfter(job'[v].chunk, data_store)
               /\ ConnOf(v)' \notin broken =>
                     next.answers[ConnOf(v)'] = written[ConnOf(v)'] \o AnswerTo(job'[v].chunk, data_store)
    <3>1. CASE v = w
      BY <1>3, <1>11, <2>1, <2>3, <1>n, <3>1
    <3>2. CASE v # w
      <4>1. Answering(v) /\ server = "http" /\ ConnOf(v) # c /\ job'[v] = job[v] /\ ConnOf(v)' = ConnOf(v)
        BY <1>3, <1>9, <2>5, <3>2 DEF ConnOf
      <4>2. ConnOf(v) \in Clients
        BY <4>1 DEF IInv, Accepted, ConnOf, Answering
      <4>3. next.store = StoreAfter(job[v].chunk, data_store)
        BY <2>1, <1>n, <4>1, HttpStoresNothing
      <4>4. ConnOf(v) \notin broken =>
                next.answers[ConnOf(v)] = written[ConnOf(v)] \o AnswerTo(job[v].chunk, data_store)
        BY <1>6, <1>d, <1>e, <2>3, <1>n, <4>1, <4>2 DEF Matches
      <4>. QED  BY <4>1, <4>3, <4>4
    <3>. QED  BY <3>1, <3>2
  <2>6. ASSUME NEW d \in Clients \ broken, \A v \in Workers : Answering(v)' => ConnOf(v)' # d
        PROVE  next.answers[d] = written[d]
    <3>1. d # c
      BY <1>3, <2>6
    <3>2. \A v \in Workers : Answering(v) => Answering(v)' /\ ConnOf(v)' = ConnOf(v)
      BY <1>3, <1>9 DEF Answering, ConnOf
    <3>3. state.answers[d] = written[d]
      BY <1>6, <1>d, <1>e, <2>6, <3>2 DEF Matches
    <3>. QED  BY <2>3, <1>n, <3>1, <3>3
  <2>7. Matches(next)'
    BY <1>2, <1>3, <2>3, <2>4, <2>5, <2>6, <1>n DEF Matches
  <2>. QED  BY <2>7
<1>13. Len(log') = n + 1 /\ g[n + 1] = next
  BY <1>1, <1>2, <1>c, <1>d, <1>f, <1>n DEF SInv, LogTypes, Reads
<1>. QED  BY <1>4, <1>5, <1>8, <1>12, <1>13 DEF SInv

\* The answer goes out, or the connection with it.
LEMMA AnswerServed ==
    ASSUME IInv, SInv, NEW w \in Workers, Answering(w), ~Holds(w)',
           \A v \in Workers \ {w} : job'[v] = job[v],
           UNCHANGED <<server, log>>,
           data_store' = StoreAfter(job[w].chunk, data_store),
           \/ /\ written' = [written EXCEPT ![ConnOf(w)] = @ \o AnswerTo(job[w].chunk, data_store)]
              /\ broken' = broken
           \/ written' = written /\ broken' = broken \cup {ConnOf(w)}
    PROVE  SInv'
<1>c. PICK c \in Clients : c = ConnOf(w)
  BY DEF IInv, Accepted, ConnOf, Answering
<1>d. PICK chunk \in Seq(Halves) : chunk = job[w].chunk
  BY DEF IInv, Types, Jobs
<1>1. OneEach'
  BY LocksKept DEF SInv
<1>2. /\ written' = [d \in Clients |-> written'[d]]
      /\ \A d \in Clients \ {c} : written'[d] = written[d]
      /\ broken' \in {broken, broken \cup {c}}
      /\ c \notin broken' => written'[c] = written[c] \o AnswerTo(chunk, data_store)
      /\ written'[c] \in {written[c], written[c] \o AnswerTo(chunk, data_store)}
  BY <1>c, <1>d DEF SInv, LogTypes
<1>3. LogTypes'
  <2>1. IsSeq(AnswerTo(chunk, data_store))
    BY <1>d, AnswersAre DEF IInv
  <2>2. IsSeq(written[c]) /\ IsSeq(written[c] \o AnswerTo(chunk, data_store))
    BY <2>1, Longer DEF SInv, LogTypes
  <2>3. \A d \in Clients : IsSeq(written'[d])
    BY <1>2, <2>2 DEF SInv, LogTypes
  <2>. QED  BY <1>2, <2>3 DEF SInv, LogTypes, IsSeq
<1>4. PICK f : Served(f) /\ Matches(f[Len(log)])
  BY DEF SInv
<1>5. \A s, read : Serve(s, read)' = Serve(s, read)
  BY DEF Serve, StoreAfter, AnswerTo
<1>6. Served(f)'
  <2>1. Unserved' = Unserved
    BY DEF Unserved, EmptyStore
  <2>. QED  BY <1>4, <1>5, <2>1 DEF Served
<1>s. PICK state : state = f[Len(log)]
  OBVIOUS
<1>7. \A v \in Workers : Answering(v)' <=> v # w /\ Answering(v)
  BY DEF Answering, Holds
<1>8. \A v \in Workers : v # w /\ Answering(v) =>
          /\ server = "http" /\ ConnOf(v) # c /\ ConnOf(v) \in Clients
          /\ job'[v] = job[v] /\ ConnOf(v)' = ConnOf(v)
  <2>1. \A v \in Workers : Answering(v) => Holds(v) /\ ConnOf(v) \in Clients
    BY DEF Answering, Holds, IInv, Accepted, ConnOf
  <2>2. \A v \in Workers \ {w} : ConnOf(v)' = ConnOf(v)
    BY DEF ConnOf
  <2>. QED  BY <1>c, <2>1, <2>2, OthersApart DEF SInv
<1>9. Matches(state)
  BY <1>4, <1>s
<1>10. state.store = data_store'
  BY <1>9, <1>d DEF Matches
<1>11. c \notin broken' => state.answers[c] = written'[c]
  BY <1>2, <1>9, <1>c, <1>d DEF Matches
<1>12. ASSUME NEW v \in Workers, Answering(v)'
       PROVE  /\ state.store = StoreAfter(job'[v].chunk, data_store')
              /\ ConnOf(v)' \notin broken' =>
                    state.answers[ConnOf(v)'] = written'[ConnOf(v)'] \o AnswerTo(job'[v].chunk, data_store')
  <2>1. /\ v # w /\ Answering(v) /\ server = "http" /\ ConnOf(v) # c /\ ConnOf(v) \in Clients
        /\ job'[v] = job[v] /\ ConnOf(v)' = ConnOf(v)
    BY <1>7, <1>8, <1>12
  <2>2. state.store = StoreAfter(job[v].chunk, data_store')
    BY <1>10, <2>1, HttpStoresNothing
  <2>3. ConnOf(v) \notin broken =>
            state.answers[ConnOf(v)] = written[ConnOf(v)] \o AnswerTo(job[v].chunk, data_store)
    BY <1>9, <2>1 DEF Matches
  <2>4. AnswerTo(job[v].chunk, data_store) = AnswerTo(job[v].chunk, data_store')
    BY <2>1, HttpStoresNothing
  <2>. QED  BY <1>2, <2>1, <2>2, <2>3, <2>4
<1>13. ASSUME NEW d \in Clients \ broken', \A v \in Workers : Answering(v)' => ConnOf(v)' # d
       PROVE  state.answers[d] = written'[d]
  <2>1. CASE d = c
    BY <1>11, <2>1
  <2>2. CASE d # c
    <3>1. \A v \in Workers : Answering(v) => ConnOf(v) # d
      BY <1>7, <1>8, <1>13, <1>c, <2>2
    <3>. QED  BY <1>2, <1>9, <2>2, <3>1 DEF Matches
  <2>. QED  BY <2>1, <2>2
<1>14. Matches(state)'
  <2>1. \A ch, st : AnswerTo(ch, st)' = AnswerTo(ch, st) /\ StoreAfter(ch, st)' = StoreAfter(ch, st)
    BY DEF StoreAfter, AnswerTo
  <2>2. state.answers = [d \in Clients |-> state.answers[d]]
    BY <1>9 DEF Matches
  <2>. QED  BY <1>10, <1>12, <1>13, <2>1, <2>2 DEF Matches
<1>15. Len(log)' = Len(log)
  OBVIOUS
<1>. QED  BY <1>1, <1>3, <1>6, <1>14, <1>15, <1>s DEF SInv

\* Every step of a worker keeps the order.
LEMMA WorkerServes ==
    ASSUME IInv, SInv, NEW w \in Workers, Worker(w)
    PROVE  SInv'
<1> USE DEF JobAt, Answering, Holds
<1>0. job[w] \in Jobs /\ NoJob.step = "idle" /\ job \in [Workers -> Jobs]
  BY DEF IInv, Types, NoJob
<1>1. CASE \/ ListenerEvent(w) \/ Accept(w) \/ AcceptsNothing(w) \/ AcceptPanics(w) \/ RegisterStream(w)
           \/ RegisterFails(w) \/ InsertHandler(w) \/ InsertStream(w) \/ InsertPanics(w)
  <2>1. job[w].step \notin {"read", "answer"} /\ job'[w].step \notin {"read", "answer"}
    BY <1>0, <1>1 DEF ListenerEvent, Accept, AcceptsNothing, AcceptPanics, RegisterStream, RegisterFails,
                      InsertHandler, InsertStream, InsertPanics, Go, Finish, Dies, BackToAccept, Jobs, NoJob
  <2>2. /\ \A v \in Workers \ {w} : job'[v] = job[v]
        /\ UNCHANGED <<server, data_store, written, log, broken>>
    BY <1>0, <1>1 DEF ListenerEvent, Accept, AcceptsNothing, AcceptPanics, RegisterStream, RegisterFails,
                      InsertHandler, InsertStream, InsertPanics, Go, Finish, Dies, BackToAccept,
                      serverState, history
  <2>. QED  BY <2>1, <2>2, OtherStep
<1>2. CASE \/ \E c \in Clients : ConnEvent(w, c)
           \/ FindsNoStream(w) \/ FindsPoisoned(w) \/ ReadsNothing(w)
  <2>1. job[w].step # "answer" /\ job'[w].step \notin {"read", "answer"}
    BY <1>0, <1>2 DEF ConnEvent, FindsNoStream, FindsPoisoned, ReadsNothing, Finish, NoJob
  <2>2. /\ \A v \in Workers \ {w} : job'[v] = job[v]
        /\ UNCHANGED <<server, data_store, written, log, broken>>
    BY <1>0, <1>2 DEF ConnEvent, FindsNoStream, FindsPoisoned, ReadsNothing, Finish, serverState, history
  <2>. QED  BY <2>1, <2>2, OtherStep
<1>3. CASE LookUp(w)
  <2>1. /\ job[w].step = "lock" /\ job'[w].step = "read" /\ job'[w].conn = job[w].conn
        /\ \A v \in Workers \ {w} : job'[v] = job[v] /\ LockFree(ConnOf(w))
    BY <1>0, <1>3 DEF LookUp, Takes, Go, Jobs
  <2>2. LockFree(ConnOf(w)) /\ UNCHANGED <<server, data_store, written, log, broken>>
    BY <1>3 DEF LookUp, Takes, serverState, history
  <2>. QED  BY <2>1, <2>2, OtherStep DEF ConnOf
<1>4. CASE ReadsChunk(w)
  BY <1>4, ReadServed
<1>5. ASSUME EndsConnection(w)
      PROVE  job'[w].step \notin {"read", "answer"} /\ \A v \in Workers \ {w} : job'[v] = job[v]
  BY <1>0, <1>5, ZenonT(30) DEF EndsConnection, TakesDown, LetsGo, Finish, NoJob, Jobs
<1>6. CASE ReadsEnd(w)
  <2>1. /\ job[w].step = "read" /\ EndsConnection(w)
        /\ UNCHANGED <<server, data_store, written, log, broken>>
    BY <1>6 DEF ReadsEnd, history
  <2>. QED  BY <1>5, <2>1, OtherStep
<1>7. CASE Disconnect(w)
  <2>1. /\ job[w].step = "disconnect" /\ job'[w].step = "idle" /\ \A v \in Workers \ {w} : job'[v] = job[v]
        /\ UNCHANGED <<server, data_store, written, log, broken>>
    BY <1>0, <1>7 DEF Disconnect, Finish, NoJob, history
  <2>. QED  BY <2>1, OtherStep
<1>8. CASE Writes(w)
  <2>1. /\ Answering(w) /\ job'[w].step = "idle" /\ \A v \in Workers \ {w} : job'[v] = job[v]
    BY <1>0, <1>8 DEF Writes, Finish, NoJob
  <2>. QED  BY <1>8, <2>1, AnswerServed DEF Writes, history
<1>9. CASE WriteFails(w)
  <2>1. Answering(w) /\ EndsConnection(w) /\ UNCHANGED <<server, log, written>>
    BY <1>9 DEF WriteFails
  <2>. QED  BY <1>5, <1>9, <2>1, AnswerServed DEF WriteFails
<1>10. CASE AnswerPanics(w)
  <2>1. /\ Answering(w) /\ job'[w].step = "dead" /\ \A v \in Workers \ {w} : job'[v] = job[v]
        /\ UNCHANGED <<server, data_store, written, log>> /\ broken' = broken \cup {ConnOf(w)}
    BY <1>0, <1>10 DEF AnswerPanics, Dies, NoJob
  <2>2. StoreAfter(job[w].chunk, data_store) = data_store
    BY <1>10, ScratchAssumption DEF AnswerPanics, Panics, StoreAfter, StoredBy
  <2>. QED  BY <2>1, <2>2, AnswerServed
<1>11. CASE ListenerEventLost(w) \/ \E c \in Clients : EventLost(w, c)
  <2>1. UNCHANGED <<server, job, data_store, written, log, broken>>
    BY <1>11 DEF ListenerEventLost, EventLost, serverState, history
  <2>2. OneEach'
    BY <2>1 DEF SInv, OneEach, LockOf, ConnOf, InMap
  <2>. QED  BY <2>1, <2>2, NothingServed
<1>. QED
  BY <1>1, <1>2, <1>3, <1>4, <1>6, <1>7, <1>8, <1>9, <1>10, <1>11 DEF Worker

\* Every step does.
LEMMA NextSInv == IInv /\ SInv /\ [Next]_vars => SInv'
<1> SUFFICES ASSUME IInv, SInv, [Next]_vars PROVE SInv'
  OBVIOUS
<1>1. CASE (\E c \in Clients : Client(c)) \/ UNCHANGED vars
  <2>1. UNCHANGED <<server, job, data_store, written, log, broken>>
    BY <1>1, ZenonT(30) DEF Client, Connects, Sends, Arrive, Closes, vars, serverState, history
  <2>2. OneEach'
    BY <2>1 DEF SInv, OneEach, Holds, LockOf, ConnOf, InMap
  <2>. QED  BY <2>1, <2>2, NothingServed DEF Answering
<1>2. CASE \E w \in Workers : Worker(w)
  BY <1>2, WorkerServes
<1>. QED  BY <1>1, <1>2 DEF Next

\* There is one such sequence of states, and it is the one that OneByOne ends.
LEMMA ServedIsOneByOne ==
    ASSUME LogTypes, NEW f, Served(f)
    PROVE  f[Len(log)] = OneByOne
<1>1. PICK n \in Nat : n = Len(log)
  BY DEF LogTypes
<1> DEFINE Body(g) == [m \in 0 .. n |-> IF m = 0 THEN Unserved ELSE Serve(g[m - 1], log[m])]
           served == CHOOSE g : g = Body(g)
<1>2. f = Body(f)
  <2>1. /\ f = [m \in 0 .. n |-> f[m]] /\ f[0] = Unserved
        /\ \A m \in 1 .. n : f[m] = Serve(f[m - 1], log[m])
    BY <1>1 DEF Served
  <2>2. \A m \in 0 .. n : f[m] = IF m = 0 THEN Unserved ELSE Serve(f[m - 1], log[m])
    BY <2>1, SMTT(30)
  <2>. QED  BY <2>1, <2>2
<1>3. served = Body(served)
  <2> HIDE DEF Body
  <2>. QED  BY <1>2
<1>4. OneByOne = served[n]
  BY <1>1 DEF OneByOne
<1>5. PICK g : g = served
  OBVIOUS
<1>6. g = Body(g)
  BY <1>3, <1>5
<1> HIDE DEF served
<1>a. \A m \in 0 .. n : f[m] = IF m = 0 THEN Unserved ELSE Serve(f[m - 1], log[m])
  BY <1>2
<1>b. \A m \in 0 .. n : g[m] = IF m = 0 THEN Unserved ELSE Serve(g[m - 1], log[m])
  BY <1>6
<1>7. Nat \subseteq {m \in Nat : m \in 0 .. n => f[m] = g[m]}
  <2> DEFINE S == {m \in Nat : m \in 0 .. n => f[m] = g[m]}
  <2>1. 0 \in S
    BY <1>2, <1>6
  <2>2. ASSUME NEW m \in Nat, m \in S
        PROVE  m + 1 \in S
    <3>1. CASE m + 1 \in 0 .. n
      <4>1. m + 1 # 0 /\ (m + 1) - 1 = m /\ m \in 0 .. n
        BY <3>1
      <4>2. f[m + 1] = Serve(f[m], log[m + 1]) /\ g[m + 1] = Serve(g[m], log[m + 1])
        BY <1>a, <1>b, <3>1, <4>1, Zenon
      <4>. QED  BY <2>2, <4>1, <4>2
    <3>. QED  BY <3>1
  <2> HIDE DEF S
  <2>3. Nat \subseteq S
    BY <2>1, <2>2, Induction
  <2>. QED  BY <2>3 DEF S
<1>8. f[n] = g[n]
  BY <1>7
<1>. QED  BY <1>1, <1>4, <1>5, <1>8
--------------------------------------------------------------------------------
(***************************************************************************)
(* The results.                                                            *)
(***************************************************************************)
\* A stream is in the map only with its handler, and a worker that reads or
\* answers has a stream that is still in the map: no other worker takes it down
\* under its hands (scratch_echo_server.rs l.68-81, 120-166,
\* scratch_jsonrpc_server.rs l.205-217).
THEOREM StreamsStay == Spec => []StreamsInPlace
BY Invariant, PTL DEF IInv

\* What can be read, or the end of a stream, has an event or a worker on its way to
\* it, unless its last event came before the handler or the stream was in its map
\* (poll.rs l.48-50, scratch_echo_server.rs l.69-80) or went to a worker that had
\* panicked, the last read took less than there was, or the lock is poisoned
\* (scratch_jsonrpc_server.rs l.174, 208, 228-231).
THEOREM NothingForgotten == Spec => []UnreadNoticed
BY Invariant, PTL DEF IInv

\* Each client gets the answers that one would give it who served the reads one
\* after the other, to the end of each, in the order in which they were made: for
\* any number of workers, and whatever is interleaved, because the lock that is
\* taken to read is held until the answer is written (scratch_echo_server.rs
\* l.117-169, scratch_jsonrpc_server.rs l.144-274, scratch_http_server.rs l.185-275).
THEOREM ServedInOrder == Spec => []ServedOneByOne
<1>1. IInv /\ SInv => ServedOneByOne
  <2> SUFFICES ASSUME IInv, SInv, NEW c \in Clients \ broken
               PROVE  IsPrefix(written[c], OneByOne.answers[c])
    BY DEF ServedOneByOne
  <2>1. PICK f : Served(f) /\ Matches(f[Len(log)])
    BY DEF SInv
  <2>2. PICK state : state = OneByOne /\ Matches(state)
    BY <2>1, ServedIsOneByOne DEF SInv
  <2>3. IsSeq(written[c])
    BY DEF SInv, LogTypes
  <2>4. ASSUME NEW w \in Workers, Answering(w), ConnOf(w) = c
        PROVE  IsPrefix(written[c], state.answers[c])
    <3>1. state.answers[c] = written[c] \o AnswerTo(job[w].chunk, data_store)
      BY <2>2, <2>4 DEF Matches
    <3>2. IsSeq(AnswerTo(job[w].chunk, data_store))
      BY AnswersAre DEF IInv, Types, Jobs
    <3>. QED  BY <2>3, <3>1, <3>2, Longer
  <2>5. CASE \A w \in Workers : Answering(w) => ConnOf(w) # c
    <3>1. state.answers[c] = written[c]
      BY <2>2, <2>5 DEF Matches
    <3>. QED  BY <2>2, <2>3, <3>1, Longer
  <2>. QED  BY <2>2, <2>4, <2>5
<1>. QED  BY <1>1, InitIInv, InitSInv, NextIInv, NextSInv, PTL DEF Spec

================================================================================
