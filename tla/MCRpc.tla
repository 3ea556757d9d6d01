----------------------------------- MODULE MCRpc ---------------------------------
(***************************************************************************)
(* Small instances of Rpc for TLC.                                         *)
(***************************************************************************)
EXTENDS Rpc, TLC

\* Requests or responses arrive in pieces, or in one piece and something fails.
ThreeNetworks ==
    {[client |-> {99}, server |-> {7, 99}, faults |-> 0],
     [client |-> {7, 99}, server |-> {99}, faults |-> 0],
     [client |-> {99}, server |-> {99}, faults |-> 1]}

\* Two services: the second takes the id that it asks for, which is the one
\* the first was given, or another.
TwoServices == <<[explicit |-> FALSE, id |-> 0, service |-> 5],
                 [explicit |-> TRUE, id |-> 0, service |-> 6],
                 [explicit |-> FALSE, id |-> 0, service |-> 5]>>
OneMethodEach == [service \in {5, 6} |-> 1]

CallOf(service, method, args, one_way) ==
    [service |-> service, method |-> method, args |-> args, one_way |-> one_way]

ThreeCalls == {CallOf(0, 0, <<8>>, FALSE), CallOf(1, 1, <<9>>, FALSE), CallOf(1, 0, <<9>>, TRUE)}

OneCall == {CallOf(0, 0, <<8>>, FALSE)}
NoFrames == {}
OddFrames == {PingFrame, FrameOf(9, NoFlags, <<>>), RequestFrame(50, 0, 0, <<>>, FALSE)}

WholePieces == {[client |-> {99}, server |-> {99}, faults |-> 0]}

Symmetry == Permutations(Callers) \cup Permutations(ServerWorkers) \cup Permutations(ClientWorkers)

================================================================================
