-------------------------------- MODULE Connection -------------------------------
(***************************************************************************)
(* One TCP connection between a client and a server, each with the event   *)
(* loop of its end: what the operating system does, and mio, from how      *)
(* mill-net uses them.  Bytes arrive in order but cut anywhere; an event   *)
(* is edge triggered and says that something has arrived, bytes or the end *)
(* of the stream.  A read takes all that has arrived: less than a buffer   *)
(* (object_pool.rs l.7).                                                   *)
(***************************************************************************)
EXTENDS Integers, Sequences, SequencesExt

CONSTANTS Networks,     \* the networks that are tried: the sizes of the pieces that
                        \* bytes arrive in at each end, and a bound on the faults
          BreakSizes    \* how much a write that fails may have written

ASSUME ConnectionAssumption ==
    /\ Networks \subseteq [client : SUBSET (Nat \ {0}), server : SUBSET (Nat \ {0}), faults : Nat]
    /\ BreakSizes \subseteq Nat

VARIABLES
    net,           \* the network
    wire,          \* the bytes on their way to each end
    arrived,       \* the bytes that have arrived there and are unread
    ended,         \* whether the end of the stream has arrived
    closed,        \* whether the end has closed its own stream
    registered,    \* whether its event loop has the stream
    edge,          \* whether it has an event to hand out
    faults         \* how much has failed

connVars == <<net, wire, arrived, ended, closed, registered, edge, faults>>

Ends == {"client", "server"}
Peer(e) == IF e = "client" THEN "server" ELSE "client"

ConnectionInit ==
    /\ net \in Networks
    /\ wire = [e \in Ends |-> <<>>]
    /\ arrived = [e \in Ends |-> <<>>]
    /\ ended = [e \in Ends |-> FALSE]
    /\ closed = [e \in Ends |-> FALSE]
    /\ registered = [e \in Ends |-> FALSE]
    /\ edge = [e \in Ends |-> FALSE]
    /\ faults = 0

SomethingAt(e) == arrived[e] # <<>> \/ ended[e]

\* A piece of what is on its way arrives.
Deliver(e) ==
    /\ wire[e] # <<>>
    /\ \E size \in net[e] :
         LET n == IF size < Len(wire[e]) THEN size ELSE Len(wire[e]) IN
         /\ arrived' = [arrived EXCEPT ![e] = @ \o SubSeq(wire[e], 1, n)]
         /\ wire' = [wire EXCEPT ![e] = SubSeq(@, n + 1, Len(@))]
    /\ edge' = [edge EXCEPT ![e] = registered[e]]
    /\ UNCHANGED <<net, ended, closed, registered, faults>>

\* The end of the stream arrives behind the bytes.
DeliverEnd(e) ==
    /\ closed[Peer(e)] /\ wire[e] = <<>> /\ ~ended[e]
    /\ ended' = [ended EXCEPT ![e] = TRUE]
    /\ edge' = [edge EXCEPT ![e] = registered[e]]
    /\ UNCHANGED <<net, wire, arrived, closed, registered, faults>>

\* write_all of bytes at end e, as far as it comes.
Write(e, bytes) == wire' = [wire EXCEPT ![Peer(e)] = @ \o bytes]

\* A read or a write fails, with an error other than WouldBlock, or something
\* at an end of the connection does.
Fail ==
    /\ faults < net.faults
    /\ faults' = faults + 1

\* write_all fails when it has written a part, or nothing.
WriteBreaks(e, bytes) ==
    /\ Fail
    /\ \E n \in BreakSizes : n < Len(bytes) /\ Write(e, SubSeq(bytes, 1, n))

\* Registering reports what is there already.
Watch(e) ==
    /\ registered' = [registered EXCEPT ![e] = TRUE]
    /\ edge' = [edge EXCEPT ![e] = SomethingAt(e)]

Unwatch(e) ==
    /\ registered' = [registered EXCEPT ![e] = FALSE]
    /\ edge' = [edge EXCEPT ![e] = FALSE]

\* A worker of the event loop gets the event.
TakeEvent(e) ==
    /\ edge[e]
    /\ edge' = [edge EXCEPT ![e] = FALSE]

================================================================================
