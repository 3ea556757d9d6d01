--------------------------------- MODULE RpcCalls --------------------------------
(***************************************************************************)
(* What mill-rpc promises its callers: a call runs its method at most      *)
(* once, never before it is made, and returns the answer to itself or an   *)
(* error.  A call may run without its caller hearing of it, also after it  *)
(* has given up.  That it runs at most once holds as long as the bytes of  *)
(* the requests arrive as they were sent, and that it is answered with its *)
(* own answer as long as those of the responses do as well.                *)
(***************************************************************************)
EXTENDS Integers

CONSTANTS Ids,              \* the requests
          Calls,            \* the calls they may make
          Answer(_),        \* what the service answers to a call
          Runs(_),          \* whether a call runs a method
          Failures,         \* what a caller may get instead of an answer
          Nothing,          \* what a one-way call returns
          None

VARIABLES call,        \* the call that each request makes, if it is made
          ran,         \* how often it ran
          outcome,     \* what it returned, if it did
          heard,       \* whether the requests arrive as they were sent
          intact       \* whether the responses do as well

vars == <<call, ran, outcome, heard, intact>>

Init ==
    /\ call = [id \in Ids |-> None]
    /\ ran = [id \in Ids |-> 0]
    /\ outcome = [id \in Ids |-> None]
    /\ heard = TRUE /\ intact = TRUE

Make(id, request) ==
    /\ call[id] = None
    /\ call' = [call EXCEPT ![id] = request]
    /\ UNCHANGED <<ran, outcome, heard, intact>>

\* Bytes that do not arrive as they were sent may make a request of their own.
Run(id) ==
    /\ heard => call[id] # None /\ ran[id] = 0
    /\ ran' = [ran EXCEPT ![id] = @ + 1]
    /\ UNCHANGED <<call, outcome, heard, intact>>

\* A call that runs has run when its answer is there; a one-way call is
\* answered with nothing.
Deserved(id, result) ==
    IF call[id].one_way
      THEN result = Nothing
      ELSE /\ result = Answer(call[id])
           /\ Runs(call[id]) => ran[id] = 1

\* Bytes are lost or changed, of responses or of requests.
Fades == heard' \in {heard, FALSE} /\ intact' \in {intact, FALSE} /\ (intact' => heard')

Return(id) ==
    /\ call[id] # None
    /\ outcome[id] = None
    /\ outcome'[id] # None
    /\ outcome' = [outcome EXCEPT ![id] = outcome'[id]]
    /\ \/ Deserved(id, outcome'[id])
       \/ outcome'[id] \in Failures
       \/ ~intact
    /\ Fades
    /\ UNCHANGED <<call, ran>>

Break ==
    /\ Fades
    /\ UNCHANGED <<call, ran, outcome>>

Next ==
    \/ \E id \in Ids : Run(id) \/ Return(id) \/ \E request \in Calls : Make(id, request)
    \/ Break

Spec == Init /\ [][Next]_vars

================================================================================
