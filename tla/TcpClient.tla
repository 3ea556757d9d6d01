--------------------------------- MODULE TcpClient -------------------------------
(***************************************************************************)
(* TcpClient of mill-net/src/tcp/mod.rs, at the client's end of a          *)
(* Connection: start, send, the two ways to disconnect, and the handler    *)
(* that the workers of its event loop run.  What on_data does is up to     *)
(* the module that uses this one: a worker is left at "data" with what it  *)
(* has read.                                                               *)
(***************************************************************************)
EXTENDS Connection

CONSTANTS ClientWorkers,    \* the workers of the client's event loop
          ClientToken,      \* the token that start() is given
          OtherTokens       \* tokens of other handlers in the same event loop

ASSUME TcpClientAssumption ==
    ClientToken \in Nat /\ OtherTokens \subseteq Nat \ {ClientToken}

VARIABLES
    stream,      \* the stream: "unstarted", "open", or "none" for None
    handlers,    \* the tokens that have a handler in the client's registry
    job,         \* what each worker is at, the chunk it has read and its frames
    told         \* calls of on_disconnect

clientVars == <<stream, handlers, job, told>>

\* conn_id is always 1 (l.548).
ConnId == 1

NoJob == [step |-> "idle", chunk |-> <<>>, frames |-> <<>>]
JobAt(x, step) == job[x].step = step
GoJob(x, step) == job' = [job EXCEPT ![x].step = step]
EndJob(x) == job' = [job EXCEPT ![x] = NoJob]

ClientInit ==
    /\ stream = "unstarted"
    /\ handlers = OtherTokens
    /\ job = [x \in ClientWorkers |-> NoJob]
    /\ told = 0

Start ==
    /\ stream = "unstarted"
    /\ stream' = "open"
    /\ handlers' = handlers \cup {ClientToken}
    /\ Watch("client")
    /\ UNCHANGED <<net, wire, arrived, ended, closed, faults, job, told>>

\* send: without a stream it does nothing and reports no error.
Send(bytes) ==
    /\ stream # "unstarted"
    /\ IF stream = "open" THEN Write("client", bytes) ELSE UNCHANGED wire

SendBreaks(bytes) ==
    /\ stream = "open"
    /\ WriteBreaks("client", bytes)

\* TcpClient::disconnect, by the user: the stream goes, the handler stays.
UserDisconnect ==
    /\ stream = "open"
    /\ stream' = "none"
    /\ closed' = [closed EXCEPT !["client"] = TRUE]
    /\ registered' = [registered EXCEPT !["client"] = FALSE]
    /\ told' = told + 1
    /\ UNCHANGED <<net, wire, arrived, ended, edge, faults, handlers, job>>

--------------------------------------------------------------------------------
(***************************************************************************)
(* TcpClientHandler                                                        *)
(***************************************************************************)
ClientEvent(x) ==
    /\ JobAt(x, "idle")
    /\ ClientToken \in handlers
    /\ TakeEvent("client")
    /\ GoJob(x, "read")
    /\ UNCHANGED <<net, wire, arrived, ended, closed, registered, faults, stream, handlers, told>>

\* Nothing to read, or nothing to read from.
ReadsNothing(x) ==
    /\ stream = "none" \/ ~SomethingAt("client")
    /\ EndJob(x)
    /\ UNCHANGED <<arrived, faults>>

\* A read of no bytes is a chunk as well (a mutant).
ReadsChunkOrEnd(x) ==
    /\ stream # "none" /\ SomethingAt("client")
    /\ job' = [job EXCEPT ![x] = [step |-> "data", chunk |-> arrived["client"], frames |-> <<>>]]
    /\ arrived' = [arrived EXCEPT !["client"] = <<>>]
    /\ UNCHANGED faults

ReadsChunk(x) ==
    /\ stream # "none" /\ arrived["client"] # <<>>
    /\ job' = [job EXCEPT ![x] = [step |-> "data", chunk |-> arrived["client"], frames |-> <<>>]]
    /\ arrived' = [arrived EXCEPT !["client"] = <<>>]
    /\ UNCHANGED faults

ReadsEnd(x) ==
    /\ stream # "none"
    /\ \/ ended["client"] /\ arrived["client"] = <<>> /\ UNCHANGED faults
       \/ Fail
    /\ GoJob(x, "disconnect")
    /\ UNCHANGED arrived

ClientRead(x) ==
    /\ JobAt(x, "read")
    /\ ReadsNothing(x) \/ ReadsChunk(x) \/ ReadsEnd(x)
    /\ UNCHANGED <<net, wire, ended, closed, registered, edge, stream, handlers, told>>

\* The handler's disconnect, under the stream's lock: the token it deregisters
\* is its connection id, not the one it was registered with.
ClientDisconnect(x) ==
    /\ JobAt(x, "disconnect")
    /\ IF stream = "open"
         THEN /\ Unwatch("client")
              /\ handlers' = handlers \ {ConnId}
         ELSE UNCHANGED <<registered, edge, handlers>>
    /\ stream' = "none"
    /\ closed' = [closed EXCEPT !["client"] = TRUE]
    /\ told' = told + 1
    /\ EndJob(x)
    /\ UNCHANGED <<net, wire, arrived, ended, faults>>

================================================================================
