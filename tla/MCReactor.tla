-------------------------------- MODULE MCReactor --------------------------------
(***************************************************************************)
(* Small instances of Reactor for TLC.  The waker has token 0 (poll.rs     *)
(* l.24).  With one source no more than two things are ever ready: a       *)
(* capacity of 1 makes a poll leave one for later.                         *)
(***************************************************************************)
EXTENDS Reactor, TLC

CONSTANTS s1, waker

OneSource == {s1}
OneToken == s1 :> 1 @@ waker :> 0
Reads == s1 :> {"readable"}

PoolOf(capacity) == [direct_dispatch |-> FALSE, events_capacity |-> capacity]
DirectOf(capacity) == [direct_dispatch |-> TRUE, events_capacity |-> capacity]

AllModes == {PoolOf(1), PoolOf(2), DirectOf(2)}
AmplePool == {PoolOf(2)}

================================================================================
