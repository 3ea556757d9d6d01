-------------------------------- MODULE Registry --------------------------------
(***************************************************************************)
(* PollHandle of mill-io/src/poll.rs: sources are registered with mio and  *)
(* their handlers in a map from tokens, one after the other and without a  *)
(* lock, and the same backwards.                                           *)
(*                                                                         *)
(* mio is edge triggered.  edge is the readiness it has yet to report;     *)
(* registering a source reports what is ready already.  work is what there *)
(* is to do at a source (bytes to read, room to write) that no handler has *)
(* taken up.  The waker is one more source, with a token of its own.       *)
(***************************************************************************)
EXTENDS Integers, FiniteSets

CONSTANTS Sources,      \* the I/O sources of the program
          Waker,        \* mio::Waker
          TokenOf,      \* the token each of them is registered with
          InterestOf,   \* the interest each source is registered with
          None          \* no handler in the map

\* mio::Interest and the readiness of an event
Kinds == {"readable", "writable"}

ASSUME RegistryAssumption ==
    /\ IsFiniteSet(Sources)
    /\ Waker \notin Sources
    /\ None \notin Sources
    /\ InterestOf \in [Sources -> (SUBSET Kinds) \ {{}}]
    /\ DOMAIN TokenOf = Sources \cup {Waker}

VARIABLES
    owner,      \* how far register() or deregister() of each source is
    work,       \* what there is to do at each source
    edge,       \* what mio has to report of each source and of the waker
    registry    \* the handler of each token: the source it was registered for

registryVars == <<owner, work, edge, registry>>

Tokens == {TokenOf[s] : s \in Sources \cup {Waker}}

RegistryInit ==
    /\ owner = [s \in Sources |-> "out"]
    /\ work = [s \in Sources |-> {}]
    /\ edge = [s \in Sources \cup {Waker} |-> {}]
    /\ registry = [t \in Tokens |-> None]

--------------------------------------------------------------------------------
\* register: with mio first, which reports at once what is ready.
RegisterSource(s) ==
    /\ owner[s] = "out"
    /\ owner' = [owner EXCEPT ![s] = "adding"]
    /\ edge' = [edge EXCEPT ![s] = work[s] \cap InterestOf[s]]
    /\ UNCHANGED <<work, registry>>

\* Then in the map, over whatever handler has the token.
InsertHandler(s) ==
    /\ owner[s] = "adding"
    /\ owner' = [owner EXCEPT ![s] = "in"]
    /\ registry' = [registry EXCEPT ![TokenOf[s]] = s]
    /\ UNCHANGED <<work, edge>>

\* deregister
DeregisterSource(s) ==
    /\ owner[s] = "in"
    /\ owner' = [owner EXCEPT ![s] = "removing"]
    /\ edge' = [edge EXCEPT ![s] = {}]
    /\ UNCHANGED <<work, registry>>

RemoveHandler(s) ==
    /\ owner[s] = "removing"
    /\ owner' = [owner EXCEPT ![s] = "out"]
    /\ registry' = [registry EXCEPT ![TokenOf[s]] = None]
    /\ UNCHANGED <<work, edge>>

\* Something happens at a source.
Arrive(s, kind) ==
    /\ work' = [work EXCEPT ![s] = @ \cup {kind}]
    /\ edge' = [edge EXCEPT ![s] = IF owner[s] \in {"adding", "in"}
                                     THEN @ \cup ({kind} \cap InterestOf[s])
                                     ELSE @]
    /\ UNCHANGED <<owner, registry>>

--------------------------------------------------------------------------------
Ready == {x \in Sources \cup {Waker} : edge[x] # {}}

EventOf(x) == [source |-> x, token |-> TokenOf[x], ready |-> edge[x]]

Reported(reported) == [x \in Sources \cup {Waker} |-> IF x \in reported THEN {} ELSE edge[x]]
================================================================================
