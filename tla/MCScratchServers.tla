------------------------------ MODULE MCScratchServers ---------------------------
(***************************************************************************)
(* Small instances of ScratchServers for TLC.                              *)
(***************************************************************************)
EXTENDS ScratchServers, TLC

AllServers == {"echo", "jsonrpc", "http"}

\* A value stored, and a value asked for; the HTTP server has a page for one of them.
Set == [op |-> "set", arg |-> [key |-> "k", value |-> "v"]]
SetAndGet == {Set, [op |-> "get", arg |-> "k"]}
\* A sum that overflows.
Sum == [op |-> "add", arg |-> None]
JustSum == {Sum}

AllRequests == SetAndGet \cup JustSum

\* Requests of two kinds, calls that fail, or handlers that panic, one after the other.
MixedFaultyOrPanicking ==
    {[servers |-> AllServers, workers |-> 2, requests |-> SetAndGet, faults |-> 0],
     [servers |-> AllServers, workers |-> 2, requests |-> {Set}, faults |-> 1],
     [servers |-> {"jsonrpc"}, workers |-> 3, requests |-> JustSum, faults |-> 0]}
OnlySet == {"set"}

Symmetry == Permutations(Clients) \cup Permutations(Workers)

================================================================================
