------------------------------- MODULE RpcCallsProofs ----------------------------
(***************************************************************************)
(* Proofs about what becomes of the requests of Rpc: none is dropped, and  *)
(* the client, the streams and the server together keep the promise of     *)
(* RpcCalls, for any number of callers, requests and workers, any services *)
(* and any network.                                                        *)
(***************************************************************************)
EXTENDS RpcProofs

--------------------------------------------------------------------------------
(***************************************************************************)
(* What becomes of the requests.                                           *)
(***************************************************************************)
\* The frames of the requests, and the replies to those that have had their turn.
RequestFrames == {FrameFor(id) : id \in Issued}

Served(id) == ~requests[id].one_way /\ (RunsCall(requests[id]) => ran[id] = 1)
OwnReply(id) == Answer(RequestIn(FrameFor(id).payload))
OwnReplies == {OwnReply(id) : id \in {i \in Issued : Served(i)}}

EntriesAwaited ==
    \A id \in Ids : pending[id] # None => user = "rpc" /\ id \in Issued /\ ~requests[id].one_way
NotYetReturned ==
    /\ \A c \in Callers : Active(c) => user = "rpc" /\ outcome[IdOf(c)] = None
    /\ \A id \in Ids : outcome[id] # None => id \in Issued

\* No request is in a list twice, or in two lists.
Distinct(list) ==
    \A id \in Ids : \A i, j \in DOMAIN list : Carries(list[i], id) /\ Carries(list[j], id) => i = j
OnceListed ==
    /\ Distinct(Untaken("server"))
    /\ \A w \in ServerWorkers : Distinct(frames[w])
    /\ \A id \in Ids : \A v \in ServerWorkers : Among(frames[v], id) =>
          /\ ~Among(Untaken("server"), id)
          /\ \A w \in ServerWorkers \ {v} : ~Among(frames[w], id)

\* A request that is in none of them has not been sent, or has had its turn.
Listed(id) == Among(Untaken("server"), id) \/ \E w \in ServerWorkers : Among(frames[w], id)
Unsent(id) == id \notin Issued \/ \E c \in Callers : At(c, "send") /\ IdOf(c) = id
RanOnce ==
    \A id \in Ids : /\ Unsent(id) => ~Listed(id) /\ ran[id] = 0
                    /\ Listed(id) => ran[id] = 0
                    /\ ran[id] <= 1

Heard == user = "rpc" /\ ~mangled["server"]
HeardInv ==
    /\ sent["server"] \in Seq(RequestFrames)
    /\ \A w \in ServerWorkers : frames[w] \in Seq(RequestFrames)
    /\ OnceListed
    /\ RanOnce
    /\ sent["client"] \in Seq(OwnReplies)
    /\ \A w \in ServerWorkers : reply[w] # Absent => reply[w] \in OwnReplies

\* And of their answers.
AnsweredOwn ==
    \A id \in Ids : pending[id] \notin {None, Waiting} => Served(id) /\ pending[id] = AnswerTo(requests[id])
Accounted == \A id \in Ids : pending[id] = Waiting => OnItsWay(id) \/ id \in unheard
IntactInv ==
    /\ \A x \in ClientWorkers : job[x].frames \in Seq(OwnReplies)
    /\ AnsweredOwn
    /\ Accounted

CallsInv ==
    /\ EntriesAwaited
    /\ NotYetReturned
    /\ Heard => HeardInv
    /\ Heard /\ ~mangled["client"] => IntactInv

--------------------------------------------------------------------------------
(***************************************************************************)
(* Requests in lists of frames.                                            *)
(***************************************************************************)
\* A list behind another.
LEMMA JoinIs ==
    ASSUME NEW S, NEW s \in Seq(S), NEW t \in Seq(S)
    PROVE  /\ s \o t \in Seq(S) /\ Len(s) \in Nat /\ Len(t) \in Nat
           /\ DOMAIN (s \o t) = 1 .. Len(s) + Len(t) /\ DOMAIN s = 1 .. Len(s) /\ DOMAIN t = 1 .. Len(t)
           /\ \A i \in 1 .. Len(s) : i \in 1 .. Len(s) + Len(t) /\ (s \o t)[i] = s[i]
           /\ \A i \in 1 .. Len(t) : /\ Len(s) + i \in 1 .. Len(s) + Len(t)
                                     /\ (s \o t)[Len(s) + i] = t[i]
<1>0. PICK m, n : m = Len(s) /\ n = Len(t)
  OBVIOUS
<1>1. PICK u : u = s \o t
  OBVIOUS
<1>2. /\ u \in Seq(S) /\ Len(u) = m + n
      /\ \A i \in 1 .. m + n : u[i] = IF i <= m THEN s[i] ELSE t[i - m]
  BY <1>0, <1>1, ConcatProperties
<1>3. m \in Nat /\ n \in Nat /\ DOMAIN s = 1 .. m /\ DOMAIN t = 1 .. n
  BY <1>0
<1>4. DOMAIN u = 1 .. m + n
  BY <1>2
<1>5. \A i \in 1 .. m : i \in 1 .. m + n /\ u[i] = s[i]
  BY <1>2, <1>3
<1>6. \A i \in 1 .. n : m + i \in 1 .. m + n /\ u[m + i] = t[i]
  <2> TAKE i \in 1 .. n
  <2>1. m + i \in 1 .. m + n /\ ~(m + i <= m) /\ (m + i) - m = i
    BY <1>3
  <2>. QED  BY <1>2, <2>1
<1>. QED  BY <1>0, <1>1, <1>2, <1>3, <1>4, <1>5, <1>6

\* Where a request is in two lists behind each other.
LEMMA AmongParts ==
    ASSUME NEW S, NEW s \in Seq(S), NEW t \in Seq(S), NEW id
    PROVE  Among(s \o t, id) <=> Among(s, id) \/ Among(t, id)
<1>m. PICK u, m, n : u = s \o t /\ m = Len(s) /\ n = Len(t)
  OBVIOUS
<1>u. /\ u \in Seq(S) /\ m \in Nat /\ n \in Nat
      /\ DOMAIN u = 1 .. m + n /\ DOMAIN s = 1 .. m /\ DOMAIN t = 1 .. n
      /\ \A i \in 1 .. m : i \in 1 .. m + n /\ u[i] = s[i]
      /\ \A i \in 1 .. n : m + i \in 1 .. m + n /\ u[m + i] = t[i]
  BY <1>m, JoinIs
<1>1. DOMAIN u = 1 .. m + n /\ DOMAIN s = 1 .. m /\ DOMAIN t = 1 .. n /\ m \in Nat /\ n \in Nat
  BY <1>u
<1>2. \A i \in 1 .. m : i \in 1 .. m + n /\ u[i] = s[i]
  BY <1>u
<1>3. \A i \in 1 .. n : m + i \in 1 .. m + n /\ u[m + i] = t[i]
  BY <1>u
<1>4. \A i \in 1 .. m + n : i \in 1 .. m \/ (i - m \in 1 .. n /\ m + (i - m) = i)
  BY <1>1
<1>5. Among(s, id) \/ Among(t, id) => Among(u, id)
  BY <1>1, <1>2, <1>3 DEF Among
<1>6. Among(u, id) => Among(s, id) \/ Among(t, id)
  <2> SUFFICES ASSUME NEW i \in 1 .. m + n, Carries(u[i], id) PROVE Among(s, id) \/ Among(t, id)
    BY <1>1 DEF Among
  <2>1. CASE i \in 1 .. m
    BY <1>1, <1>2, <2>1 DEF Among
  <2>2. CASE i - m \in 1 .. n /\ m + (i - m) = i
    <3>1. u[i] = t[i - m]
      BY <1>3, <2>2
    <3>. QED  BY <1>1, <2>2, <3>1 DEF Among
  <2>. QED  BY <1>4, <2>1, <2>2
<1>. QED  BY <1>m, <1>5, <1>6

\* Of lists behind each other in which no request is twice, a request is in one.
LEMMA DistinctParts ==
    ASSUME NEW S, NEW s \in Seq(S), NEW t \in Seq(S), Distinct(s \o t)
    PROVE  /\ Distinct(s) /\ Distinct(t)
           /\ \A id \in Ids : ~(Among(s, id) /\ Among(t, id))
<1>m. PICK u, m, n : u = s \o t /\ m = Len(s) /\ n = Len(t)
  OBVIOUS
<1>u. /\ u \in Seq(S) /\ m \in Nat /\ n \in Nat
      /\ DOMAIN u = 1 .. m + n /\ DOMAIN s = 1 .. m /\ DOMAIN t = 1 .. n
      /\ \A i \in 1 .. m : i \in 1 .. m + n /\ u[i] = s[i]
      /\ \A i \in 1 .. n : m + i \in 1 .. m + n /\ u[m + i] = t[i]
  BY <1>m, JoinIs
<1>1. DOMAIN u = 1 .. m + n /\ DOMAIN s = 1 .. m /\ DOMAIN t = 1 .. n /\ m \in Nat /\ n \in Nat
  BY <1>u
<1>2. \A i \in 1 .. m : i \in 1 .. m + n /\ u[i] = s[i]
  BY <1>u
<1>3. \A i \in 1 .. n : m + i \in 1 .. m + n /\ u[m + i] = t[i]
  BY <1>u
<1>4. \A id \in Ids : \A i, j \in 1 .. m + n : Carries(u[i], id) /\ Carries(u[j], id) => i = j
  <2>1. Distinct(u)
    BY <1>m
  <2>. QED  BY <1>1, <2>1 DEF Distinct
<1>5. Distinct(s)
  BY <1>1, <1>2, <1>4 DEF Distinct
<1>6. Distinct(t)
  <2> SUFFICES ASSUME NEW id \in Ids, NEW i \in 1 .. n, NEW j \in 1 .. n,
                      Carries(t[i], id), Carries(t[j], id)
               PROVE  i = j
    BY <1>1 DEF Distinct
  <2>1. m + i = m + j
    BY <1>3, <1>4
  <2>. QED  BY <1>1, <2>1
<1>7. ASSUME NEW id \in Ids, NEW i \in 1 .. m, NEW j \in 1 .. n, Carries(s[i], id), Carries(t[j], id)
      PROVE  FALSE
  <2>1. i = m + j
    BY <1>2, <1>3, <1>4, <1>7
  <2>. QED  BY <1>1, <2>1
<1>. QED  BY <1>1, <1>5, <1>6, <1>7 DEF Among

\* One more frame behind a list.
LEMMA AmongMore ==
    ASSUME NEW S, NEW s \in Seq(S), NEW f \in S, NEW id
    PROVE  Among(Append(s, f), id) <=> Among(s, id) \/ Carries(f, id)
<1>1. Append(s, f) = s \o <<f>>
  BY AppendIsConcat
<1>3. <<f>> \in Seq(S)
  OBVIOUS
<1>2. Among(<<f>>, id) <=> Carries(f, id)
  <2>1. DOMAIN <<f>> = {1} /\ <<f>>[1] = f
    OBVIOUS
  <2>. QED  BY <2>1 DEF Among
<1>4. Among(s \o <<f>>, id) <=> Among(s, id) \/ Among(<<f>>, id)
  BY <1>3, AmongParts
<1>. QED  BY <1>1, <1>2, <1>4

\* A list stays without repetitions when a request comes that is not in it,
LEMMA DistinctMore ==
    ASSUME NEW S, NEW s \in Seq(S), NEW f \in S, Distinct(s),
           \A id \in Ids : ~(Among(s, id) /\ Carries(f, id))
    PROVE  Distinct(Append(s, f))
<1>. PICK n \in Nat : n = Len(s)
  OBVIOUS
<1>u. PICK u : u = Append(s, f)
  OBVIOUS
<1>0. u \in Seq(S) /\ Len(u) = n + 1 /\ u[n + 1] = f /\ \A i \in 1 .. n : u[i] = s[i]
  BY <1>u, AppendProperties
<1>1. DOMAIN u = 1 .. n + 1 /\ DOMAIN s = 1 .. n /\ u[n + 1] = f /\ \A i \in 1 .. n : u[i] = s[i]
  BY <1>0
<1>2. \A i \in 1 .. n + 1 : i \in 1 .. n \/ i = n + 1
  OBVIOUS
<1>3. \A id \in Ids : \A i, j \in 1 .. n : Carries(u[i], id) /\ Carries(u[j], id) => i = j
  BY <1>1 DEF Distinct
<1>4. \A id \in Ids : \A i \in 1 .. n : ~(Carries(u[i], id) /\ Carries(f, id))
  BY <1>1 DEF Among
<1>5. \A id \in Ids : \A i, j \in 1 .. n + 1 : Carries(u[i], id) /\ Carries(u[j], id) => i = j
  BY <1>1, <1>2, <1>3, <1>4
<1>. QED  BY <1>u, <1>1, <1>5 DEF Distinct

\* The first frame of a list and the others.
LEMMA AmongFirst ==
    ASSUME NEW S, NEW s \in Seq(S), s # <<>>, NEW id
    PROVE  Among(s, id) <=> Carries(Head(s), id) \/ Among(Tail(s), id)
<1>. PICK t \in Seq(S) : /\ t = Tail(s) /\ Len(t) = Len(s) - 1 /\ \A i \in 1 .. Len(t) : t[i] = s[i + 1]
  BY TailIs
<1>. PICK n : n = Len(t)
  OBVIOUS
<1>n. n \in Nat
  OBVIOUS
<1>0. Len(s) = n + 1
  <2>1. Len(s) \in Nat
    OBVIOUS
  <2>. QED  BY <2>1
<1>1. DOMAIN s = 1 .. n + 1 /\ DOMAIN t = 1 .. n /\ Head(s) = s[1] /\ 1 \in 1 .. n + 1
  OBVIOUS
<1>2. \A i \in 1 .. n : i + 1 \in 1 .. n + 1 /\ t[i] = s[i + 1]
  OBVIOUS
<1>3. \A i \in 1 .. n + 1 : i = 1 \/ (i - 1 \in 1 .. n /\ (i - 1) + 1 = i)
  OBVIOUS
<1>4. Carries(Head(s), id) \/ Among(t, id) => Among(s, id)
  BY <1>1, <1>2 DEF Among
<1>5. Among(s, id) => Carries(Head(s), id) \/ Among(t, id)
  <2> SUFFICES ASSUME NEW i \in 1 .. n + 1, Carries(s[i], id), i # 1 PROVE Among(t, id)
    BY <1>1 DEF Among
  <2>1. i - 1 \in 1 .. n /\ t[i - 1] = s[i]
    BY <1>2, <1>3
  <2>. QED  BY <1>1, <2>1 DEF Among
<1>. QED  BY <1>4, <1>5

\* and when its first goes, which is then not in it.
LEMMA DistinctFirst ==
    ASSUME NEW S, NEW s \in Seq(S), s # <<>>, Distinct(s)
    PROVE  /\ Distinct(Tail(s))
           /\ \A id \in Ids : Carries(Head(s), id) => ~Among(Tail(s), id)
<1>1. <<Head(s)>> \in Seq(S) /\ Tail(s) \in Seq(S) /\ s = <<Head(s)>> \o Tail(s)
  OBVIOUS
<1>2. \A id : Carries(Head(s), id) => Among(<<Head(s)>>, id)
  <2>1. DOMAIN <<Head(s)>> = {1} /\ <<Head(s)>>[1] = Head(s)
    OBVIOUS
  <2>. QED  BY <2>1 DEF Among
<1>3. Distinct(<<Head(s)>> \o Tail(s))
  BY <1>1
<1>. QED  BY <1>1, <1>2, <1>3, DistinctParts

\* A request in a list carries what the frame carries.
LEMMA AmongSome ==
    ASSUME NEW S, NEW s \in Seq(S), NEW id, Among(s, id)
    PROVE  \E f \in S : Carries(f, id)
BY ElementOfSeq DEF Among

--------------------------------------------------------------------------------
(***************************************************************************)
(* Requests, their frames and their replies.                               *)
(***************************************************************************)
\* The frame of a request carries its id, and that only.
LEMMA FrameCarries ==
    ASSUME TInv, NEW id \in Issued
    PROVE  /\ id \in Ids /\ id \in Nat /\ requests[id] \in Calls
           /\ FrameFor(id) \in Frames /\ FrameFor(id) \in RequestFrames
           /\ \A j : Carries(FrameFor(id), j) <=> j = id
<1>1. id \in Ids /\ id \in Nat
  BY RpcClientAssumption DEF TInv, RequestTypes, Issued, Ids
<1>2. requests[id] \in Calls
  BY <1>1 DEF TInv, RequestTypes
<1>3. /\ FrameFor(id) \in Frames /\ FrameFor(id).payload # <<>> /\ Head(FrameFor(id).payload) = id
  BY <1>1, <1>2, FrameForIs
<1>. QED  BY <1>1, <1>2, <1>3 DEF RequestFrames, Carries

\* A service does not look at the id.
LEMMA RunsWithoutId ==
    ASSUME NEW id \in Nat, requests[id] \in Calls, NEW request, request = RequestIn(FrameFor(id).payload)
    PROVE  /\ request.id = id /\ request.service \in Nat /\ request.method \in Nat /\ request.args \in Seq(Nat)
           /\ request.service = requests[id].service /\ request.method = requests[id].method
           /\ request.args = requests[id].args
           /\ Runs(request) <=> RunsCall(requests[id])
<1>1. request = [id |-> id, service |-> requests[id].service, method |-> requests[id].method,
                 args |-> requests[id].args]
  BY FrameForIs
<1>2. /\ request.id = id /\ request.service = requests[id].service
      /\ request.method = requests[id].method /\ request.args = requests[id].args
  BY <1>1
<1>3. requests[id].service \in Nat /\ requests[id].method \in Nat /\ requests[id].args \in Seq(Nat)
  BY RpcClientAssumption
<1>. QED  BY <1>2, <1>3 DEF Runs, RunsCall

\* The reply to a request carries its id, and the answer to its call.
LEMMA OwnReplyIs ==
    ASSUME TInv, NEW id \in Issued
    PROVE  /\ OwnReply(id) \in Frames /\ IsAnswer(OwnReply(id))
           /\ \A j : Carries(OwnReply(id), j) <=> j = id
           /\ ResponseIn(OwnReply(id).payload).id = id
           /\ [ok |-> OwnReply(id).type = Response, data |-> ResponseIn(OwnReply(id).payload).data]
                 = AnswerTo(requests[id])
<1>1. id \in Nat /\ requests[id] \in Calls
  BY FrameCarries
<1>2. PICK request : request = RequestIn(FrameFor(id).payload)
  OBVIOUS
<1>3. PICK plain : plain = [id |-> 0, service |-> requests[id].service, method |-> requests[id].method,
                            args |-> requests[id].args]
  OBVIOUS
<1>4. /\ request.id = id /\ request.service \in Nat /\ request.method \in Nat /\ request.args \in Seq(Nat)
      /\ request.service = requests[id].service /\ request.method = requests[id].method
      /\ request.args = requests[id].args
      /\ Runs(request) <=> RunsCall(requests[id])
  BY <1>1, <1>2, RunsWithoutId
<1>5. /\ plain.id = 0 /\ plain.service = request.service /\ plain.method = request.method
      /\ plain.args = request.args
  BY <1>3, <1>4
<1>6. Runs(plain) <=> Runs(request)
  BY <1>5 DEF Runs
<1>7. DispatchStatus(plain) = DispatchStatus(request)
  BY <1>5 DEF DispatchStatus
<1>8. PICK f : f = Answer(request)
  OBVIOUS
<1>9. PICK g : g = Answer(plain)
  OBVIOUS
<1>10. /\ f \in Frames /\ f.payload # <<>> /\ Head(f.payload) = id /\ f.type \in {Response, Error}
       /\ f.type = Response <=> Runs(request)
       /\ Tail(f.payload) = IF Runs(request) THEN <<Services[request.service], Head(request.args)>>
                                             ELSE <<DispatchStatus(request)>>
  BY <1>1, <1>4, <1>8, AnswerIs
<1>11. /\ g.type = Response <=> Runs(plain)
       /\ Tail(g.payload) = IF Runs(plain) THEN <<Services[plain.service], Head(plain.args)>>
                                           ELSE <<DispatchStatus(plain)>>
  BY <1>4, <1>5, <1>9, AnswerIs
<1>12. Tail(f.payload) = Tail(g.payload) /\ (f.type = Response <=> g.type = Response)
  BY <1>5, <1>6, <1>7, <1>10, <1>11
<1>13. OwnReply(id) = f
  BY <1>2, <1>8 DEF OwnReply
<1>14. Len(f.payload) >= 1 /\ f.payload[1] = id
  <2>1. f.payload \in Seq(Nat)
    BY <1>10 DEF Frames
  <2>. QED  BY <1>10, <2>1
<1>15. ResponseIn(f.payload).id = id /\ ResponseIn(f.payload).data = Tail(f.payload)
  BY <1>14 DEF ResponseIn
<1>16. AnswerTo(requests[id]) = [ok |-> g.type = Response, data |-> Tail(g.payload)]
  BY <1>3, <1>9 DEF AnswerTo, ResponseIn
<1>17. IsAnswer(f)
  BY <1>10, <1>14 DEF IsAnswer, IsResponsePayload
<1>18. \A j : Carries(f, j) <=> j = id
  BY <1>10 DEF Carries
<1>19. (f.type = Response) = (g.type = Response)
  BY <1>12
<1>. QED  BY <1>10, <1>12, <1>13, <1>15, <1>16, <1>17, <1>18, <1>19

\* What the server does with the frame of a request.
LEMMA RequestServed ==
    ASSUME TInv, NEW id \in Issued
    PROVE  /\ RunBy(FrameFor(id)) <=> RunsCall(requests[id])
           /\ RequestIn(FrameFor(id).payload).id = id
           /\ ReplyTo(FrameFor(id)) = IF requests[id].one_way THEN Absent ELSE OwnReply(id)
<1>1. id \in Nat /\ requests[id] \in Calls
  BY FrameCarries
<1>2. PICK f : f = FrameFor(id)
  OBVIOUS
<1>3. /\ f.type = Request /\ IsRequestPayload(f.payload) /\ (IsOneWay(f.flags) <=> requests[id].one_way)
  BY <1>1, <1>2, FrameForIs
<1>4. RequestIn(f.payload).id = id /\ (Runs(RequestIn(f.payload)) <=> RunsCall(requests[id]))
  BY <1>1, <1>2, RunsWithoutId
<1>5. Request # Ping
  BY DEF Request, Ping
<1>6. ReplyTo(f) = IF requests[id].one_way THEN Absent ELSE Answer(RequestIn(f.payload))
  BY <1>3, <1>5 DEF ReplyTo
<1>. QED  BY <1>2, <1>3, <1>4, <1>6 DEF RunBy, OwnReply

\* Requests are only added, and what has had its turn stays so.
LEMMA Growing ==
    ASSUME Issued \subseteq Issued', \A id \in Issued : requests'[id] = requests[id],
           \A id \in Issued : Served(id) => Served(id)'
    PROVE  RequestFrames \subseteq RequestFrames' /\ OwnReplies \subseteq OwnReplies'
<1>1. \A id \in Issued : FrameFor(id)' = FrameFor(id) /\ OwnReply(id)' = OwnReply(id)
  BY DEF FrameFor, OwnReply
<1>2. RequestFrames \subseteq RequestFrames'
  BY <1>1 DEF RequestFrames
<1>3. OwnReplies \subseteq OwnReplies'
  BY <1>1 DEF OwnReplies
<1>. QED  BY <1>2, <1>3

--------------------------------------------------------------------------------
(***************************************************************************)
(* What was sent, what runs, and what is replied.                          *)
(***************************************************************************)
\* The lists of frames, and the ends they are at.
LEMMA ListTypes ==
    ASSUME TInv
    PROVE  /\ \A e \in Ends : sent[e] \in Seq(Frames) /\ taken[e] \in Seq(Frames)
           /\ \A w \in ServerWorkers : frames[w] \in Seq(Frames) /\ reply[w] \in Frames \cup {Absent}
           /\ Absent \notin Frames
           /\ "server" \in Ends /\ "client" \in Ends
           /\ DOMAIN frames = ServerWorkers /\ DOMAIN reply = ServerWorkers
BY RpcServerAssumption DEF TInv, ServerTypes, HistoryTypes, Ends

\* The requests and replies of a step that leaves the lists alone.
LEMMA HeardRests ==
    ASSUME TInv, HeardInv, Issued \subseteq Issued', \A id \in Issued : requests'[id] = requests[id],
           ran' = ran, sent'["server"] = sent["server"], sent'["client"] = sent["client"],
           Untaken("server")' = Untaken("server"), frames' = frames, reply' = reply,
           \A id \in Ids : Unsent(id)' => Unsent(id)
    PROVE  HeardInv'
<1>1. \A id \in Issued : Served(id) => Served(id)'
  BY DEF Served
<1>2. RequestFrames \subseteq RequestFrames' /\ OwnReplies \subseteq OwnReplies'
  BY <1>1, Growing
<1>3. sent'["server"] \in Seq(RequestFrames')
  <2>1. sent["server"] \in Seq(RequestFrames)
    BY DEF HeardInv
  <2>. QED  BY <1>2, <2>1, SeqMonotonic
<1>4. \A w \in ServerWorkers : frames'[w] \in Seq(RequestFrames')
  <2>1. \A w \in ServerWorkers : frames[w] \in Seq(RequestFrames)
    BY DEF HeardInv
  <2>. QED  BY <1>2, <2>1, SeqMonotonic
<1>5. sent'["client"] \in Seq(OwnReplies')
  <2>1. sent["client"] \in Seq(OwnReplies)
    BY DEF HeardInv
  <2>. QED  BY <1>2, <2>1, SeqMonotonic
<1>6. \A w \in ServerWorkers : reply'[w] # Absent => reply'[w] \in OwnReplies'
  BY <1>2 DEF HeardInv
<1>7. OnceListed'
  BY DEF HeardInv, OnceListed
<1>8. \A id \in Ids : Listed(id)' <=> Listed(id)
  BY DEF Listed
<1>9. RanOnce'
  BY <1>8 DEF HeardInv, RanOnce
<1>. QED  BY <1>3, <1>4, <1>5, <1>6, <1>7, <1>9 DEF HeardInv

\* A request is sent.
LEMMA HeardSent ==
    ASSUME TInv, HeardInv, NEW id \in Issued, Unsent(id),
           UNCHANGED <<next_request_id, requests, ran, taken, frames, reply>>,
           sent' = [sent EXCEPT !["server"] = Append(sent["server"], FrameFor(id))],
           Untaken("server") \in Seq(Frames),
           Untaken("server")' = Append(Untaken("server"), FrameFor(id)),
           \A j \in Ids : Unsent(j)' => Unsent(j) /\ j # id
    PROVE  HeardInv'
<1>f. /\ id \in Ids /\ FrameFor(id) \in Frames /\ FrameFor(id) \in RequestFrames
      /\ \A j : Carries(FrameFor(id), j) <=> j = id
  BY FrameCarries
<1>1. Issued' = Issued /\ RequestFrames' = RequestFrames /\ OwnReplies' = OwnReplies
  BY DEF Issued, RequestFrames, OwnReplies, Served, OwnReply, FrameFor
<1>u. PICK u : u = Untaken("server")
  OBVIOUS
<1>n. PICK n : n = Untaken("server")'
  OBVIOUS
<1>2. u \in Seq(Frames) /\ n = Append(u, FrameFor(id))
  BY <1>u, <1>n
<1>3. \A j : Among(n, j) <=> Among(u, j) \/ j = id
  BY <1>f, <1>2, AmongMore
<1>4. ~Listed(id) /\ ran[id] = 0
  BY <1>f DEF HeardInv, RanOnce
<1>5. ~Among(u, id) /\ \A w \in ServerWorkers : ~Among(frames[w], id)
  BY <1>u, <1>4 DEF Listed
<1>6. Distinct(n)
  <2>1. Distinct(u)
    BY <1>u DEF HeardInv, OnceListed
  <2>. QED  BY <1>f, <1>2, <1>5, <2>1, DistinctMore
<1>7. OnceListed'
  <2>1. ASSUME NEW j \in Ids, NEW v \in ServerWorkers, Among(frames[v], j)
        PROVE  ~Among(n, j) /\ \A w \in ServerWorkers \ {v} : ~Among(frames[w], j)
    BY <1>u, <1>3, <1>5, <2>1 DEF HeardInv, OnceListed
  <2>2. \A w \in ServerWorkers : Distinct(frames[w])
    BY DEF HeardInv, OnceListed
  <2>. QED  BY <1>n, <1>6, <2>1, <2>2 DEF OnceListed
<1>8. \A j \in Ids : Listed(j)' <=> Listed(j) \/ j = id
  BY <1>u, <1>n, <1>3 DEF Listed
<1>9. RanOnce'
  BY <1>4, <1>8 DEF HeardInv, RanOnce
<1>10. sent'["server"] \in Seq(RequestFrames) /\ sent'["client"] = sent["client"]
  <2>1. sent["server"] \in Seq(RequestFrames)
    BY DEF HeardInv
  <2>2. Append(sent["server"], FrameFor(id)) \in Seq(RequestFrames)
    BY <1>f, <2>1, AppendProperties
  <2>3. sent \in [Ends -> Seq(Frames)] /\ "server" \in Ends /\ "client" \in Ends
    BY DEF TInv, HistoryTypes, Ends
  <2>. QED  BY <2>2, <2>3
<1>. QED  BY <1>1, <1>7, <1>9, <1>10 DEF HeardInv

\* Requests are parsed.
LEMMA HeardParsed ==
    ASSUME TInv, HeardInv, NEW w \in ServerWorkers, frames[w] = <<>>, NEW list \in Seq(Frames),
           UNCHANGED <<next_request_id, requests, caller, ran, sent, reply>>,
           frames' = [frames EXCEPT ![w] = list], list \in Seq(RequestFrames),
           Untaken("server")' \in Seq(Frames), Untaken("server") = list \o Untaken("server")'
    PROVE  HeardInv'
<1>1. Issued' = Issued /\ RequestFrames' = RequestFrames /\ OwnReplies' = OwnReplies
  BY DEF Issued, RequestFrames, OwnReplies, Served, OwnReply, FrameFor
<1>u. PICK u : u = Untaken("server")
  OBVIOUS
<1>n. PICK n : n = Untaken("server")'
  OBVIOUS
<1>2. n \in Seq(Frames) /\ u = list \o n
  BY <1>u, <1>n
<1>3. \A j : Among(u, j) <=> Among(list, j) \/ Among(n, j)
  BY <1>2, AmongParts
<1>4. Distinct(list) /\ Distinct(n) /\ \A j \in Ids : ~(Among(list, j) /\ Among(n, j))
  <2>1. Distinct(u)
    BY <1>u DEF HeardInv, OnceListed
  <2>. QED  BY <1>2, <2>1, DistinctParts
<1>5. /\ frames'[w] = list /\ \A v \in ServerWorkers \ {w} : frames'[v] = frames[v]
  BY ListTypes
<1>6. \A j : ~Among(frames[w], j)
  BY DEF Among
<1>7. OnceListed'
  <2>1. ASSUME NEW v \in ServerWorkers PROVE Distinct(frames'[v])
    BY <1>4, <1>5 DEF HeardInv, OnceListed
  <2>2. ASSUME NEW j \in Ids, NEW v \in ServerWorkers, Among(frames'[v], j)
        PROVE  ~Among(n, j) /\ \A x \in ServerWorkers \ {v} : ~Among(frames'[x], j)
    <3>1. CASE v = w
      <4>1. Among(list, j) /\ Among(u, j)
        BY <1>3, <1>5, <2>2, <3>1
      <4>2. \A x \in ServerWorkers : ~Among(frames[x], j)
        BY <1>u, <4>1 DEF HeardInv, OnceListed
      <4>. QED  BY <1>4, <1>5, <3>1, <4>1, <4>2
    <3>2. CASE v # w
      <4>1. Among(frames[v], j)
        BY <1>5, <2>2, <3>2
      <4>2. ~Among(u, j) /\ \A x \in ServerWorkers \ {v} : ~Among(frames[x], j)
        BY <1>u, <4>1 DEF HeardInv, OnceListed
      <4>3. ~Among(n, j) /\ ~Among(list, j)
        BY <1>3, <4>2
      <4>. QED  BY <1>5, <4>2, <4>3
    <3>. QED  BY <3>1, <3>2
  <2>. QED  BY <1>n, <1>4, <2>1, <2>2 DEF OnceListed
<1>8. ASSUME NEW j \in Ids PROVE Listed(j)' <=> Listed(j)
  <2>1. Listed(j)' <=> Among(n, j) \/ \E v \in ServerWorkers : Among(frames'[v], j)
    BY <1>n DEF Listed
  <2>2. Listed(j) <=> Among(u, j) \/ \E v \in ServerWorkers : Among(frames[v], j)
    BY <1>u DEF Listed
  <2>. QED  BY <1>3, <1>5, <1>6, <2>1, <2>2
<1>9. \A j \in Ids : Unsent(j)' <=> Unsent(j)
  BY <1>1 DEF Unsent, At, IdOf
<1>10. RanOnce'
  BY <1>8, <1>9 DEF HeardInv, RanOnce
<1>11. \A v \in ServerWorkers : frames'[v] \in Seq(RequestFrames)
  BY <1>5 DEF HeardInv
<1>. QED  BY <1>1, <1>7, <1>10, <1>11 DEF HeardInv

\* A request is handled, or not to its end: it runs, if it runs, and its reply is at
\* hand, if it has one.
LEMMA HeardHandled ==
    ASSUME TInv, HeardInv, NEW w \in ServerWorkers, frames[w] # <<>>, reply[w] = Absent,
           NEW id \in Issued, Head(frames[w]) = FrameFor(id),
           UNCHANGED <<next_request_id, requests, caller, sent, taken>>,
           NEW t, t = Tail(frames[w]) \/ t = <<>>,
           frames' = [frames EXCEPT ![w] = t],
           NEW count, count = ran[id] \/ count = (IF RunsCall(requests[id]) THEN ran[id] + 1 ELSE ran[id]),
           ran' = [ran EXCEPT ![id] = count],
           NEW answer, reply' = [reply EXCEPT ![w] = answer],
           \/ answer = Absent
           \/ /\ answer = OwnReply(id) /\ ~requests[id].one_way
              /\ count = IF RunsCall(requests[id]) THEN ran[id] + 1 ELSE ran[id]
    PROVE  /\ HeardInv' /\ ran[id] = 0
           /\ \A j \in Issued : Served(j) => Served(j)'
<1>f. id \in Ids /\ \A j : Carries(FrameFor(id), j) <=> j = id
  BY FrameCarries
<1>r. ran \in [Ids -> Nat]
  BY DEF TInv, HistoryTypes
<1>s. PICK s \in Seq(Frames) : s = frames[w] /\ s # <<>>
  BY ListTypes
<1>0. Distinct(<<>>) /\ \A j : ~Among(<<>>, j)
  BY DEF Distinct, Among
<1>1. Among(s, id) /\ \A j : Among(t, j) => Among(s, j)
  <2>1. \A j : Among(s, j) <=> j = id \/ Among(Tail(s), j)
    BY <1>f, <1>s, AmongFirst, HeadTailProperties
  <2>. QED  BY <1>s, <1>0, <2>1
<1>2. Distinct(t) /\ ~Among(t, id)
  <2>1. Distinct(s)
    BY <1>s DEF HeardInv, OnceListed
  <2>2. Distinct(Tail(s)) /\ ~Among(Tail(s), id)
    BY <1>f, <1>s, <2>1, DistinctFirst
  <2>. QED  BY <1>s, <1>0, <2>2
<1>3. /\ frames'[w] = t /\ \A v \in ServerWorkers \ {w} : frames'[v] = frames[v]
  BY ListTypes
<1>4. Among(frames[w], id)
  BY <1>1, <1>s
<1>5. ~Among(Untaken("server"), id) /\ \A v \in ServerWorkers \ {w} : ~Among(frames[v], id)
  BY <1>f, <1>4 DEF HeardInv, OnceListed
<1>6. Listed(id)
  BY <1>4 DEF Listed
<1>7. ran[id] = 0 /\ ~Unsent(id)
  BY <1>f, <1>6 DEF HeardInv, RanOnce
<1>u. Untaken("server")' = Untaken("server")
  BY DEF Untaken
<1>8. \A j \in Ids : \A v \in ServerWorkers : Among(frames'[v], j) => Among(frames[v], j) /\ j # id
  BY <1>1, <1>s, <1>2, <1>3, <1>5
<1>9. OnceListed'
  <2>1. \A v \in ServerWorkers : Distinct(frames'[v])
    BY <1>2, <1>3 DEF HeardInv, OnceListed
  <2>. QED  BY <1>u, <1>8, <2>1 DEF HeardInv, OnceListed
<1>10. \A j \in Ids : Listed(j)' => Listed(j) /\ j # id
  BY <1>u, <1>5, <1>8 DEF Listed
<1>11. /\ \A j \in Ids \ {id} : ran'[j] = ran[j]
       /\ ran'[id] = count /\ count \in {0, IF RunsCall(requests[id]) THEN 1 ELSE 0}
  BY <1>f, <1>r, <1>7
<1>12. RanOnce'
  <2>1. \A j \in Ids : Unsent(j)' => Unsent(j)
    BY DEF Unsent, At, IdOf, Issued
  <2> SUFFICES ASSUME NEW j \in Ids
               PROVE  /\ Unsent(j)' => ~Listed(j)' /\ ran'[j] = 0
                      /\ Listed(j)' => ran'[j] = 0
                      /\ ran'[j] <= 1
    BY DEF RanOnce
  <2>2. CASE j = id
    BY <1>7, <1>10, <1>11, <2>1, <2>2
  <2>3. CASE j # id
    BY <1>10, <1>11, <2>1, <2>3 DEF HeardInv, RanOnce
  <2>. QED  BY <2>2, <2>3
<1>13. \A j \in Issued : Served(j) => Served(j)'
  <2>1. \A j \in Issued : j \in Ids
    BY FrameCarries
  <2> SUFFICES ASSUME NEW j \in Issued, Served(j) PROVE Served(j)'
    OBVIOUS
  <2>2. (requests[j].one_way)' = requests[j].one_way /\ (RunsCall(requests[j])' <=> RunsCall(requests[j]))
    BY DEF RunsCall
  <2>3. CASE j # id
    BY <1>11, <2>1, <2>2, <2>3 DEF Served
  <2>4. CASE j = id
    BY <1>11, <2>1, <2>2, <2>4 DEF Served
  <2>. QED  BY <2>3, <2>4
<1>14. Issued' = Issued
  BY DEF Issued
<1>15. RequestFrames \subseteq RequestFrames' /\ OwnReplies \subseteq OwnReplies'
  BY <1>13, <1>14, Growing
<1>16. sent'["server"] \in Seq(RequestFrames') /\ sent'["client"] \in Seq(OwnReplies')
  <2>1. sent["server"] \in Seq(RequestFrames) /\ sent["client"] \in Seq(OwnReplies)
    BY DEF HeardInv
  <2>. QED  BY <1>15, <2>1, SeqMonotonic
<1>17. \A v \in ServerWorkers : frames'[v] \in Seq(RequestFrames')
  <2>1. \A v \in ServerWorkers : frames[v] \in Seq(RequestFrames)
    BY DEF HeardInv
  <2>2. t \in Seq(RequestFrames)
    BY <2>1, HeadTailProperties, EmptySeq
  <2>3. \A v \in ServerWorkers : frames'[v] \in Seq(RequestFrames)
    BY <1>3, <2>1, <2>2
  <2>. QED  BY <1>15, <2>3, SeqMonotonic
<1>18. \A v \in ServerWorkers : reply'[v] # Absent => reply'[v] \in OwnReplies'
  <2>1. answer # Absent => Served(id)'
    BY <1>7, <1>11 DEF Served, RunsCall
  <2>2. answer # Absent => OwnReply(id) \in OwnReplies'
    BY <1>14, <2>1 DEF OwnReplies, OwnReply, FrameFor
  <2>3. reply'[w] # Absent => reply'[w] \in OwnReplies'
    BY <2>2, ListTypes
  <2>4. \A v \in ServerWorkers \ {w} : reply'[v] = reply[v]
    BY ListTypes
  <2>. QED  BY <1>15, <2>3, <2>4 DEF HeardInv
<1>. QED  BY <1>7, <1>9, <1>12, <1>13, <1>16, <1>17, <1>18 DEF HeardInv

\* A reply is sent, or not.
LEMMA HeardReplied ==
    ASSUME TInv, HeardInv, NEW w \in ServerWorkers, reply[w] # Absent,
           UNCHANGED <<next_request_id, requests, caller, ran, taken, frames>>,
           reply' = [reply EXCEPT ![w] = Absent],
           sent' \in {sent, [sent EXCEPT !["client"] = Append(sent["client"], reply[w])]}
    PROVE  HeardInv'
<1>1. Issued' = Issued /\ RequestFrames' = RequestFrames /\ OwnReplies' = OwnReplies
  BY DEF Issued, RequestFrames, OwnReplies, Served, OwnReply, FrameFor
<1>2. sent'["server"] = sent["server"]
  <2>1. sent \in [Ends -> Seq(Frames)] /\ "server" \in Ends /\ "server" # "client"
    BY DEF TInv, HistoryTypes, Ends
  <2>. QED  BY <2>1
<1>3. Untaken("server")' = Untaken("server")
  BY <1>2 DEF Untaken
<1>4. OnceListed'
  BY <1>3 DEF HeardInv, OnceListed
<1>5. \A j \in Ids : (Listed(j)' <=> Listed(j)) /\ (Unsent(j)' <=> Unsent(j))
  BY <1>1, <1>3 DEF Listed, Unsent, At, IdOf
<1>6. RanOnce'
  BY <1>5 DEF HeardInv, RanOnce
<1>7. sent'["client"] \in Seq(OwnReplies)
  <2>1. sent["client"] \in Seq(OwnReplies) /\ reply[w] \in OwnReplies
    BY DEF HeardInv
  <2>2. Append(sent["client"], reply[w]) \in Seq(OwnReplies)
    BY <2>1, AppendProperties
  <2>3. sent \in [Ends -> Seq(Frames)] /\ "client" \in Ends
    BY DEF TInv, HistoryTypes, Ends
  <2>. QED  BY <2>1, <2>2, <2>3
<1>8. \A v \in ServerWorkers : reply'[v] # Absent => reply'[v] \in OwnReplies
  BY ListTypes DEF HeardInv
<1>. QED  BY <1>1, <1>2, <1>4, <1>6, <1>7, <1>8 DEF HeardInv

--------------------------------------------------------------------------------
(***************************************************************************)
(* The steps, as long as the requests arrive as they were sent.            *)
(***************************************************************************)
\* What is taken is the front of what was not taken.
LEMMA TakenInFront ==
    ASSUME TInv, NEW e \in Ends, BytesInOrder(e), BytesInOrder(e)',
           sent'[e] = sent[e], NEW list \in Seq(Frames), taken'[e] = taken[e] \o list
    PROVE  /\ Untaken(e) = list \o Untaken(e)' /\ Untaken(e)' \in Seq(Frames)
           /\ \A T : sent[e] \in Seq(T) => list \in Seq(T)
<1>1. PICK s \in Seq(Frames), t \in Seq(Frames) : s = sent[e] /\ t = taken[e]
  BY ListTypes
<1>2. PICK n \in Nat, k \in Nat : n = Len(t) /\ k = Len(list)
  OBVIOUS
<1>3. n <= Len(s) /\ t = SubSeq(s, 1, n)
  BY <1>1, <1>2 DEF BytesInOrder
<1>4. PICK v : v = t \o list
  OBVIOUS
<1>5. v \in Seq(Frames) /\ Len(v) = n + k
  BY <1>2, <1>4, ConcatProperties
<1>6. taken'[e] = v
  BY <1>1, <1>4
<1>7. n + k <= Len(s) /\ v = SubSeq(s, 1, n + k)
  BY <1>1, <1>5, <1>6 DEF BytesInOrder
<1>8. PICK u : u = SubSeq(s, n + 1, Len(s))
  OBVIOUS
<1>9. PICK r : r = SubSeq(s, n + k + 1, Len(s))
  OBVIOUS
<1>10. Untaken(e) = u /\ Untaken(e)' = r
  BY <1>1, <1>2, <1>5, <1>6, <1>8, <1>9 DEF Untaken
<1>11. n \in 0 .. Len(s) /\ k \in 0 .. Len(s) - n
  BY <1>3, <1>7
<1>12. PICK f : f = SubSeq(u, 1, k)
  OBVIOUS
<1>13. /\ u \in Seq(Frames) /\ Len(u) = Len(s) - n
       /\ t \o f = v /\ SubSeq(u, k + 1, Len(u)) = r
  BY <1>3, <1>7, <1>8, <1>9, <1>11, <1>12, TakenMore, ZenonT(30)
<1>14. f \in Seq(Frames)
  BY <1>11, <1>12, <1>13
<1>15. f = list
  <2>1. t \o f = t \o list
    BY <1>4, <1>13
  <2>. QED  BY <1>14, <2>1, ConcatSimplifications, Zenon
<1>16. f \o r = u
  <2>1. 1 \in 1 .. Len(u) + 1 /\ k \in 1 - 1 .. Len(u) /\ Len(u) \in k .. Len(u)
    BY <1>11, <1>13
  <2>2. SubSeq(u, 1, k) \o SubSeq(u, k + 1, Len(u)) = SubSeq(u, 1, Len(u))
    BY <1>13, <2>1, ConcatAdjacentSubSeq
  <2>3. SubSeq(u, 1, Len(u)) = u
    BY <1>13, SubSeqFull
  <2>. QED  BY <1>12, <1>13, <2>2, <2>3
<1>17. r \in Seq(Frames)
  <2>1. n + k \in 0 .. Len(s)
    BY <1>11
  <2>. QED  BY <1>9, <2>1
<1>18. ASSUME NEW T, s \in Seq(T) PROVE list \in Seq(T)
  <2>1. u \in Seq(T)
    BY <1>8, <1>11, <1>18
  <2>2. f \in Seq(T)
    BY <1>11, <1>12, <1>13, <2>1
  <2>. QED  BY <1>15, <2>2
<1>. QED  BY <1>1, <1>10, <1>15, <1>16, <1>17, <1>18

\* What is not taken yet, and what it becomes when a frame is sent.
LEMMA UntakenIs ==
    ASSUME TInv, NEW e \in Ends, BytesInOrder(e)
    PROVE  /\ Untaken(e) \in Seq(Frames)
           /\ \A f \in Frames : sent'[e] = Append(sent[e], f) /\ taken'[e] = taken[e] =>
                 Untaken(e)' = Append(Untaken(e), f)
<1>1. PICK s \in Seq(Frames), t \in Seq(Frames) : s = sent[e] /\ t = taken[e]
  BY ListTypes
<1>2. PICK n : n = Len(t)
  OBVIOUS
<1>3. n \in 0 .. Len(s)
  BY <1>1, <1>2 DEF BytesInOrder
<1>4. \A f \in Frames : Len(Append(s, f)) = Len(s) + 1
  OBVIOUS
<1>5. SubSeq(s, n + 1, Len(s)) \in Seq(Frames)
  BY <1>3
<1>6. ASSUME NEW f \in Frames
      PROVE  SubSeq(Append(s, f), n + 1, Len(s) + 1) = Append(SubSeq(s, n + 1, Len(s)), f)
  BY <1>3, Appended
<1>. QED  BY <1>1, <1>2, <1>4, <1>5, <1>6 DEF Untaken

\* Of the requests that are not sent.
LEMMA StillUnsent ==
    ASSUME Issued' = Issued, \A d \in Callers : At(d, "send")' => At(d, "send") /\ IdOf(d)' = IdOf(d)
    PROVE  \A id : Unsent(id)' => Unsent(id)
BY DEF Unsent

\* A caller that goes on from its send leaves the others where they are.
LEMMA GoneFromSend ==
    ASSUME IInv, NEW c \in Callers, NEW next, next.step # "send", caller' = [caller EXCEPT ![c] = next]
    PROVE  /\ \A d \in Callers : At(d, "send")' => At(d, "send") /\ IdOf(d)' = IdOf(d) /\ d # c
           /\ Active(c) => \A d \in Callers : At(d, "send")' => IdOf(d)' # IdOf(c)
<1>1. caller' = [d \in Callers |-> IF d = c THEN next ELSE caller[d]]
  BY DEF IInv, CallTypes
<1>2. \A d \in Callers : At(d, "send")' => At(d, "send") /\ IdOf(d)' = IdOf(d) /\ d # c
  BY <1>1 DEF At, IdOf
<1>3. \A d \in Callers : At(d, "send") => Active(d)
  BY DEF At, Active
<1>. QED  BY <1>2, <1>3 DEF IInv, IdsDistinct

\* Every step keeps what holds of the requests that arrive.
LEMMA NextHeard ==
    ASSUME IInv, TInv, OrderInv, TInv', OrderInv', Next, Heard', Heard, HeardInv
    PROVE  HeardInv'
<1>r. user = "rpc" /\ ~mangled["server"] /\ ~mangled'["server"] /\ user' = "rpc"
  BY DEF Heard
<1>b. BytesInOrder("server") /\ BytesInOrder("server")'
  <2>1. "server" \in Ends /\ "server" # "client"
    BY DEF Ends
  <2>. QED  BY <1>r, <2>1 DEF OrderInv
<1>s. /\ sent \in [Ends -> Seq(Frames)] /\ taken \in [Ends -> Seq(Frames)]
      /\ "server" \in Ends /\ "client" \in Ends /\ "server" # "client"
  BY DEF TInv, HistoryTypes, Ends
\* Steps that leave the requests and the lists alone.
<1>1. ASSUME UNCHANGED <<next_request_id, requests, ran, sent, frames, reply>>,
             taken'["server"] = taken["server"],
             \A d \in Callers : At(d, "send")' => At(d, "send") /\ IdOf(d)' = IdOf(d)
      PROVE  HeardInv'
  <2>1. Issued' = Issued /\ Untaken("server")' = Untaken("server")
    BY <1>1 DEF Issued, Untaken
  <2>2. \A id : Unsent(id)' => Unsent(id)
    BY <1>1, <2>1, StillUnsent
  <2>. QED  BY <1>1, <2>1, <2>2, HeardRests
<1>2. ASSUME UNCHANGED <<callVars, frames, reply, ran, sent>>, taken'["server"] = taken["server"]
      PROVE  HeardInv'
  <2>1. UNCHANGED <<next_request_id, requests, caller>>
    BY <1>2 DEF callVars
  <2>. QED  BY <1>1, <1>2, <2>1 DEF At, IdOf
<1>3. CASE Network \/ ClientStep \/ ServerCloses
  <2>1. UNCHANGED <<callVars, frames, reply, ran, sent, taken>>
    BY <1>3 DEF Network, ClientStep, ServerCloses, CloseStream, serverVars, history
  <2>. QED  BY <1>2, <2>1
<1>4. ASSUME NEW frame \in RawFrames, RawSend(frame) PROVE HeardInv'
  BY <1>r, <1>4 DEF RawSend
<1>5. ASSUME NEW c \in Callers, CallerStep(c) PROVE HeardInv'
  <2>1. UNCHANGED <<frames, reply, ran, sent, taken>>
    BY <1>5 DEF CallerStep, serverVars, history
  <2>2. ASSUME NEW call \in Calls, Begin(c, call) PROVE HeardInv'
    <3>. PICK n : n = next_request_id
      OBVIOUS
    <3>1. /\ n \in Nat /\ next_request_id' = n + 1 /\ Issued = 1 .. n - 1 /\ Issued' = 1 .. n /\ n \in Ids
      BY <2>2, RpcClientAssumption DEF TInv, RequestTypes, Begin, Issued, Ids
    <3>2. \A id \in Issued : requests'[id] = requests[id]
      <4>1. requests' = [requests EXCEPT ![n] = call] /\ \A id \in Issued : id # n
        BY <2>2, <3>1 DEF Begin
      <4>. QED  BY <4>1 DEF TInv, RequestTypes
    <3>3. \A d \in Callers : At(d, "send")' => \/ At(d, "send") /\ IdOf(d)' = IdOf(d)
                                               \/ IdOf(d)' = n
      BY <2>2 DEF Begin, At, IdOf, TInv, RequestTypes
    <3>4. \A id \in Ids : Unsent(id)' => Unsent(id)
      BY <3>1, <3>3 DEF Unsent
    <3>5. Untaken("server")' = Untaken("server")
      BY <2>1 DEF Untaken
    <3>6. Issued \subseteq Issued'
      BY <3>1
    <3>7. ran' = ran /\ sent' = sent /\ frames' = frames /\ reply' = reply
      BY <2>1
    <3>8. TInv /\ HeardInv
      OBVIOUS
    <3>. QED  BY ONLY <3>2, <3>4, <3>5, <3>6, <3>7, <3>8, HeardRests
  <2>3. CASE TakeResult(c) \/ Wait(c) \/ WaitEnds(c) \/ GiveUp(c)
    <3>1. UNCHANGED <<next_request_id, requests>>
      BY <2>3 DEF TakeResult, Wait, WaitEnds, GiveUp
    <3>2. \E next : next.step # "send" /\ caller' = [caller EXCEPT ![c] = next]
      <4>1. AtEase.step # "send"
        BY DEF AtEase
      <4>2. \A step \in {"asleep", "late"} : [caller[c] EXCEPT !.step = step].step = step
        BY DEF TInv, RequestTypes
      <4>. QED  BY <2>3, <4>1, <4>2 DEF TakeResult, Wait, WaitEnds, GiveUp, Return, GoOn
    <3>3. \A d \in Callers : At(d, "send")' => At(d, "send") /\ IdOf(d)' = IdOf(d)
      BY <3>2, GoneFromSend
    <3>. QED  BY <1>1, <2>1, <3>1, <3>3
  <2>. QED  BY <1>5, <2>2, <2>3 DEF CallerStep
<1>6. ASSUME NEW c \in Callers, At(c, "send"), SendRequest(c) \/ SendFails(c)
      PROVE  /\ \A d \in Callers : At(d, "send")' => At(d, "send") /\ IdOf(d)' = IdOf(d)
             /\ \A d \in Callers : At(d, "send")' => IdOf(d)' # IdOf(c)
             /\ UNCHANGED <<next_request_id, requests>>
  <2>1. \E next : next.step # "send" /\ caller' = [caller EXCEPT ![c] = next]
    <3>1. AtEase.step # "send"
      BY DEF AtEase
    <3>2. [caller[c] EXCEPT !.step = "look"].step = "look"
      BY DEF TInv, RequestTypes
    <3>. QED  BY <1>6, <3>1, <3>2 DEF SendRequest, SendFails, Return, GoOn
  <2>2. Active(c)
    BY <1>6 DEF At, Active
  <2>3. UNCHANGED <<next_request_id, requests>>
    BY <1>6 DEF SendRequest, SendFails
  <2>. QED  BY <2>1, <2>2, <2>3, GoneFromSend
<1>7. ASSUME NEW c \in Callers, CallerFails(c) PROVE HeardInv'
  <2>1. At(c, "send") /\ SendFails(c) /\ UNCHANGED <<frames, reply, ran, sent, taken>>
    BY <1>7 DEF CallerFails, SendFails, serverVars
  <2>. QED  BY <1>1, <1>6, <2>1
<1>8. ASSUME NEW c \in Callers, CallerSends(c) PROVE HeardInv'
  <2>1. At(c, "send") /\ SendRequest(c) /\ UNCHANGED <<frames, reply, ran, taken>>
    BY <1>8 DEF CallerSends, SendRequest, serverVars
  <2>2. CASE stream # "open"
    BY <1>1, <1>6, <1>8, <2>1, <2>2 DEF CallerSends
  <2>3. CASE stream = "open"
    <3>. PICK id : id = IdOf(c)
      OBVIOUS
    <3>1. id \in Issued /\ Unsent(id) /\ FrameFor(id) \in Frames
      BY <2>1, AboutToSend DEF Unsent
    <3>2. sent' = [sent EXCEPT !["server"] = Append(sent["server"], FrameFor(id))]
      BY <1>8, <2>3 DEF CallerSends, NoteSent
    <3>3. sent'["server"] = Append(sent["server"], FrameFor(id))
      BY <1>s, <3>2
    <3>4. Untaken("server") \in Seq(Frames) /\ Untaken("server")' = Append(Untaken("server"), FrameFor(id))
      BY <1>b, <1>s, <2>1, <3>1, <3>3, UntakenIs
    <3>5. Issued' = Issued
      BY <1>6, <2>1 DEF Issued
    <3>6. \A j \in Ids : Unsent(j)' => Unsent(j) /\ j # id
      BY <1>6, <2>1, <3>1, <3>5 DEF Unsent
    <3>. QED  BY <1>6, <2>1, <3>1, <3>2, <3>4, <3>6, HeardSent
  <2>. QED  BY <2>2, <2>3
<1>9. ASSUME NEW x \in ClientWorkers, ClientWorker(x) PROVE HeardInv'
  <2>1. CASE ClientReads(x) \/ RawReceive(x)
    <3>1. UNCHANGED <<callVars, frames, reply, ran, sent, taken>>
      BY <2>1 DEF ClientReads, RawReceive, serverVars, history
    <3>. QED  BY <1>2, <3>1
  <2>2. CASE ClientReceives(x)
    <3>1. UNCHANGED <<next_request_id, requests, caller, frames, reply, ran, sent>>
      BY <2>2 DEF ClientReceives, ReceiveData, serverVars
    <3>2. taken'["server"] = taken["server"]
      BY <1>s, <2>2 DEF ClientReceives, NoteParsed
    <3>. QED  BY <1>1, <3>1, <3>2 DEF At, IdOf
  <2>3. CASE ClientHandles(x)
    <3>1. UNCHANGED <<next_request_id, requests, frames, reply, ran, sent, taken>>
      BY <2>3 DEF ClientHandles, HandleResponse, serverVars, history
    <3>2. caller' = caller \/ caller' = Woken
      BY <2>3 DEF ClientHandles, HandleResponse
    <3>3. \A d \in Callers : At(d, "send")' => At(d, "send") /\ IdOf(d)' = IdOf(d)
      BY <3>2 DEF Woken, At, IdOf, TInv, RequestTypes
    <3>. QED  BY <1>1, <3>1, <3>3
  <2>. QED  BY <1>9, <2>1, <2>2, <2>3 DEF ClientWorker
<1>10. ASSUME NEW w \in ServerWorkers, ServerStep(w) \/ ServerBuffer(w) \/ ServerReads(w) PROVE HeardInv'
  <2>1. UNCHANGED <<callVars, ran, sent, taken>>
    BY <1>10 DEF ServerStep, ServerBuffer, ServerReads, history
  <2>2. UNCHANGED <<frames, reply>>
    BY <1>10 DEF ServerStep, Register, Insert, ServerEvent, ServerEventLost, RemoveFromMap, Deregister,
       ServerBuffer, OnConnect, OnDisconnect, ServerReads, ServerRead, serverVars
  <2>. QED  BY <1>2, <2>1, <2>2
<1>11. ASSUME NEW w \in ServerWorkers, ServerReceives(w) PROVE HeardInv'
  <2>1. UNCHANGED <<next_request_id, requests, caller, ran, sent, reply>>
    BY <1>11 DEF ServerReceives, OnData, callVars
  <2>2. frames[w] = <<>>
    BY <1>11, AtStep DEF ServerReceives, OnData, TInv
  <2>. PICK list : list = ParseFrames(Buffered(w)).frames
    OBVIOUS
  <2>3. frames' = [frames EXCEPT ![w] = list] /\ taken' = [taken EXCEPT !["server"] = taken["server"] \o list]
    BY <1>11 DEF ServerReceives, OnData, NoteParsed
  <2>4. list \in Seq(Frames) /\ taken'["server"] = taken["server"] \o list
    <3>1. frames'[w] = list /\ frames'[w] \in Seq(Frames)
      BY <2>3 DEF TInv, ServerTypes
    <3>. QED  BY <1>s, <2>3, <3>1
  <2>5. /\ Untaken("server") = list \o Untaken("server")' /\ Untaken("server")' \in Seq(Frames)
        /\ list \in Seq(RequestFrames)
    <3>1. sent["server"] \in Seq(RequestFrames)
      BY DEF HeardInv
    <3>. QED  BY <1>b, <1>s, <2>1, <2>4, <3>1, TakenInFront
  <2>. QED  BY <2>1, <2>2, <2>3, <2>4, <2>5, HeardParsed
<1>12. ASSUME NEW w \in ServerWorkers, ServerHandles(w) PROVE HeardInv'
  <2>1. UNCHANGED <<next_request_id, requests, caller, sent, taken>>
    BY <1>12 DEF ServerHandles, callVars
  <2>2. frames[w] # <<>> /\ reply[w] = Absent
    BY <1>12, AtStep DEF ServerHandles, HandleFrame, TInv
  <2>3. PICK id \in Issued : Head(frames[w]) = FrameFor(id)
    <3>1. Head(frames[w]) \in RequestFrames
      BY <2>2, HeadTailProperties DEF HeardInv
    <3>. QED  BY <3>1 DEF RequestFrames
  <2>4. id \in Ids
    BY FrameCarries
  <2>5. /\ frames' = [frames EXCEPT ![w] = Tail(frames[w])]
        /\ reply' = [reply EXCEPT ![w] = IF requests[id].one_way THEN Absent ELSE OwnReply(id)]
    BY <1>12, <2>3, RequestServed DEF ServerHandles, HandleFrame
  <2>6. ran' = [j \in Ids |-> IF RunsCall(requests[id]) /\ id = j THEN ran[j] + 1 ELSE ran[j]]
    BY <1>r, <1>12, <2>3, RequestServed DEF ServerHandles, NoteRun
  <2>7. ran' = [ran EXCEPT ![id] = IF RunsCall(requests[id]) THEN ran[id] + 1 ELSE ran[id]]
    BY <2>4, <2>6 DEF TInv, HistoryTypes
  <2>. QED  BY <2>1, <2>2, <2>3, <2>5, <2>7, HeardHandled
<1>13. ASSUME NEW w \in ServerWorkers, ServerReplies(w) PROVE HeardInv'
  <2>1. UNCHANGED <<next_request_id, requests, caller, ran, taken, frames>>
    BY <1>13 DEF ServerReplies, SendReply, ReplyNowhere, ReplyBreaks, Replied, callVars
  <2>2. reply[w] # Absent
    BY <1>13, AtStep DEF ServerReplies, SendReply, ReplyNowhere, ReplyBreaks, TInv
  <2>3. /\ reply' = [reply EXCEPT ![w] = Absent]
        /\ sent' \in {sent, [sent EXCEPT !["client"] = Append(sent["client"], reply[w])]}
    BY <1>13 DEF ServerReplies, SendReply, ReplyNowhere, ReplyBreaks, Replied, NoteSent
  <2>. QED  BY <2>1, <2>2, <2>3, HeardReplied
<1>14. ASSUME NEW w \in ServerWorkers, ServerFails(w) PROVE HeardInv'
  <2>1. UNCHANGED <<next_request_id, requests, caller, sent, taken, reply>>
    BY <1>14 DEF ServerFails, MethodPanics, ErrorUnsent, callVars
  <2>2. frames[w] # <<>> /\ reply[w] = Absent
    BY <1>14, AtStep DEF ServerFails, MethodPanics, ErrorUnsent, TInv
  <2>3. PICK id \in Issued : Head(frames[w]) = FrameFor(id)
    <3>1. Head(frames[w]) \in RequestFrames
      BY <2>2, HeadTailProperties DEF HeardInv
    <3>. QED  BY <3>1 DEF RequestFrames
  <2>4. id \in Ids
    BY FrameCarries
  <2>5. PICK t : (t = Tail(frames[w]) \/ t = <<>>) /\ frames' = [frames EXCEPT ![w] = t]
    BY <1>14 DEF ServerFails, MethodPanics, ErrorUnsent
  <2>6. PICK count : /\ count = ran[id] \/ count = IF RunsCall(requests[id]) THEN ran[id] + 1 ELSE ran[id]
                     /\ ran' = [ran EXCEPT ![id] = count]
    <3>1. CASE ran' = ran
      <4>1. ran' = [ran EXCEPT ![id] = ran[id]]
        BY <2>4, <3>1 DEF TInv, HistoryTypes
      <4>. QED  BY <4>1
    <3>2. CASE NoteRun(Head(frames[w]))
      <4>1. ran' = [j \in Ids |-> IF RunsCall(requests[id]) /\ id = j THEN ran[j] + 1 ELSE ran[j]]
        BY <1>r, <2>3, <3>2, RequestServed DEF NoteRun
      <4>2. ran' = [ran EXCEPT ![id] = IF RunsCall(requests[id]) THEN ran[id] + 1 ELSE ran[id]]
        BY <2>4, <4>1 DEF TInv, HistoryTypes
      <4>. QED  BY <4>2
    <3>. QED  BY <1>14, <3>1, <3>2 DEF ServerFails
  <2>7. reply' = [reply EXCEPT ![w] = Absent]
    BY <2>1, <2>2, ListTypes DEF TInv, ServerTypes
  <2>. QED  BY <2>1, <2>2, <2>3, <2>5, <2>6, <2>7, HeardHandled
<1>. QED  BY <1>3, <1>4, <1>5, <1>7, <1>8, <1>9, <1>10, <1>11, <1>12, <1>13, <1>14 DEF Next, Caller, ServerWorker

--------------------------------------------------------------------------------
(***************************************************************************)
(* The map of pending requests and what calls returned.                    *)
(***************************************************************************)
\* Requests are only added, and runs only counted.
LEMMA RequestsStay ==
    ASSUME TInv, Next
    PROVE  /\ Issued \subseteq Issued'
           /\ \A id \in Issued : requests'[id] = requests[id]
           /\ \A id \in Ids : ran'[id] >= ran[id]
<1>t. /\ next_request_id \in 1 .. MaxRequests + 1 /\ requests \in [Ids -> Calls \cup {None}]
      /\ ran \in [Ids -> Nat] /\ MaxRequests \in Nat
  BY RpcClientAssumption DEF TInv, RequestTypes, HistoryTypes
<1>1. ASSUME UNCHANGED <<next_request_id, requests>>
      PROVE  Issued \subseteq Issued' /\ \A id \in Issued : requests'[id] = requests[id]
  BY <1>1 DEF Issued
<1>2. ran' = ran => \A id \in Ids : ran'[id] >= ran[id]
  BY <1>t
<1>3. CASE Network \/ ClientStep \/ ServerCloses \/ (\E frame \in RawFrames : RawSend(frame))
           \/ (\E x \in ClientWorkers : ClientWorker(x))
  <2>1. UNCHANGED <<next_request_id, requests, ran>>
    BY <1>3 DEF Network, ClientStep, ServerCloses, RawSend, ClientWorker, ClientReads, RawReceive,
       ClientReceives, ReceiveData, ClientHandles, HandleResponse, callVars, history
  <2>. QED  BY <1>1, <1>2, <2>1
<1>4. ASSUME NEW c \in Callers, Caller(c)
      PROVE  /\ Issued \subseteq Issued'
             /\ \A id \in Issued : requests'[id] = requests[id]
             /\ \A id \in Ids : ran'[id] >= ran[id]
  <2>1. ran' = ran
    BY <1>4 DEF Caller, CallerStep, CallerSends, CallerFails, history
  <2>2. CASE \E call \in Calls : Begin(c, call)
    <3>. PICK n : n = next_request_id
      OBVIOUS
    <3>1. n \in Nat /\ next_request_id' = n + 1 /\ Issued = 1 .. n - 1 /\ Issued' = 1 .. n
      BY <1>t, <2>2 DEF Begin, Issued
    <3>2. PICK call : requests' = [requests EXCEPT ![n] = call]
      BY <2>2 DEF Begin
    <3>. QED  BY <1>t, <1>2, <2>1, <3>1, <3>2
  <2>3. CASE ~\E call \in Calls : Begin(c, call)
    <3>1. UNCHANGED <<next_request_id, requests>>
      BY <1>4, <2>3 DEF Caller, CallerStep, CallerSends, CallerFails, SendRequest, SendFails, TakeResult, Wait,
         WaitEnds, GiveUp
    <3>. QED  BY <1>1, <1>2, <2>1, <3>1
  <2>. QED  BY <2>2, <2>3
<1>5. ASSUME NEW w \in ServerWorkers, ServerWorker(w)
      PROVE  /\ Issued \subseteq Issued'
             /\ \A id \in Issued : requests'[id] = requests[id]
             /\ \A id \in Ids : ran'[id] >= ran[id]
  <2>1. UNCHANGED <<next_request_id, requests>>
    BY <1>5 DEF ServerWorker, ServerStep, ServerBuffer, ServerReads, ServerReceives, ServerHandles,
       ServerFails, ServerReplies, callVars
  <2>2. CASE ServerHandles(w) \/ ServerFails(w)
    <3>1. \A id \in Ids : ran'[id] \in {ran[id], ran[id] + 1}
      BY <2>2 DEF ServerHandles, ServerFails, NoteRun
    <3>2. \A id \in Ids : ran[id] \in Nat
      BY <1>t
    <3>3. \A id \in Ids : ran'[id] >= ran[id]
      BY <3>1, <3>2
    <3>. QED  BY <1>1, <2>1, <3>3
  <2>3. CASE ~ServerHandles(w) /\ ~ServerFails(w)
    <3>1. ran' = ran
      BY <1>5, <2>3 DEF ServerWorker, ServerStep, ServerBuffer, ServerReads, ServerReceives, ServerReplies, history
    <3>. QED  BY <1>1, <1>2, <2>1, <3>1
  <2>. QED  BY <2>2, <2>3
<1>. QED  BY <1>3, <1>4, <1>5 DEF Next

\* A request that has had its turn has had it once.
LEMMA ServedStays ==
    ASSUME TInv, TInv', Next, HeardInv'
    PROVE  \A id \in Issued : Served(id) => Served(id)'
<1> SUFFICES ASSUME NEW id \in Issued, Served(id) PROVE Served(id)'
  OBVIOUS
<1>1. id \in Ids /\ requests'[id] = requests[id] /\ ran'[id] >= ran[id]
  BY FrameCarries, RequestsStay
<1>2. ran'[id] <= 1 /\ ran[id] \in Nat /\ ran'[id] \in Nat
  BY <1>1 DEF HeardInv, RanOnce, TInv, HistoryTypes
<1>. QED  BY <1>1, <1>2 DEF Served, RunsCall

\* What holds of the entries of the map and of what the calls returned.
LEMMA NextEntries ==
    ASSUME IInv, TInv, Next, EntriesAwaited, NotYetReturned
    PROVE  EntriesAwaited' /\ NotYetReturned'
<1>u. user' = user
  BY Lasting
<1>s. Issued \subseteq Issued' /\ \A id \in Issued : requests'[id] = requests[id]
  BY RequestsStay
<1>t. /\ pending \in [Ids -> Results \cup {None, Waiting}] /\ outcome \in [Ids -> Results \cup {None}]
      /\ caller \in [Callers -> [step : Calling, id : Ids \cup {None}]]
  BY DEF TInv, RequestTypes
<1>1. ASSUME \A id \in Ids : pending'[id] # None => pending[id] # None
      PROVE  EntriesAwaited'
  BY <1>u, <1>s, <1>1 DEF EntriesAwaited
<1>2. ASSUME outcome' = outcome, \A d \in Callers : Active(d)' => Active(d) /\ IdOf(d)' = IdOf(d)
      PROVE  NotYetReturned'
  BY <1>u, <1>s, <1>2 DEF NotYetReturned
<1>3. CASE Network \/ ClientStep \/ ServerCloses \/ (\E frame \in RawFrames : RawSend(frame))
           \/ (\E w \in ServerWorkers : ServerWorker(w))
  <2>1. UNCHANGED <<pending, outcome, caller>>
    BY <1>3 DEF Network, ClientStep, ServerCloses, RawSend, ServerWorker, ServerStep, ServerBuffer, ServerReads,
       ServerReceives, ServerHandles, ServerFails, ServerReplies, callVars
  <2>. QED  BY <1>1, <1>2, <2>1 DEF Active, At, IdOf
<1>4. ASSUME NEW x \in ClientWorkers, ClientWorker(x) PROVE EntriesAwaited' /\ NotYetReturned'
  <2>1. CASE ClientReads(x) \/ RawReceive(x) \/ ClientReceives(x)
    <3>1. UNCHANGED <<pending, outcome, caller>>
      BY <2>1 DEF ClientReads, RawReceive, ClientReceives, ReceiveData, callVars
    <3>. QED  BY <1>1, <1>2, <3>1 DEF Active, At, IdOf
  <2>2. CASE ClientHandles(x)
    <3>1. outcome' = outcome /\ caller' \in {caller, Woken}
      BY <2>2 DEF ClientHandles, HandleResponse
    <3>2. \A d \in Callers : Active(d)' => Active(d) /\ IdOf(d)' = IdOf(d)
      BY <1>t, <3>1 DEF Woken, Active, At, IdOf
    <3>3. \A id \in Ids : pending'[id] # None => pending[id] # None
      <4>1. CASE pending' = pending
        BY <4>1
      <4>2. ASSUME NEW i, NEW result,
                   pending' = [id \in Ids |-> IF id \in Completed(i) THEN result ELSE pending[id]]
            PROVE  \A id \in Ids : pending'[id] # None => pending[id] # None
        BY <4>2 DEF Completed
      <4>. QED  BY <2>2, <4>1, <4>2 DEF ClientHandles, HandleResponse
    <3>. QED  BY <1>1, <1>2, <3>1, <3>2, <3>3
  <2>. QED  BY <1>4, <2>1, <2>2 DEF ClientWorker
<1>5. ASSUME NEW c \in Callers, Active(c), NEW result, Return(c, result),
             pending' \in {pending, Forget(IdOf(c))}
      PROVE  EntriesAwaited' /\ NotYetReturned'
  <2>1. EntriesAwaited'
    BY <1>t, <1>1, <1>5 DEF Forget
  <2>2. IdOf(c) \in Issued
    BY <1>5 DEF IInv, IdsGivenOut, Issued
  <2>3. \A d \in Callers : Active(d)' => Active(d) /\ IdOf(d)' = IdOf(d) /\ d # c
    BY <1>t, <1>5 DEF Return, AtEase, Active, At, IdOf
  <2>4. \A d \in Callers : Active(d)' => IdOf(d) # IdOf(c)
    BY <1>5, <2>3 DEF IInv, IdsDistinct
  <2>5. \A id \in Ids : id # IdOf(c) => outcome'[id] = outcome[id]
    BY <1>t, <1>5 DEF Return
  <2>6. \A d \in Callers : Active(d) => IdOf(d) \in Ids
    BY ActiveIds
  <2>7. NotYetReturned'
    BY <1>u, <1>s, <2>2, <2>3, <2>4, <2>5, <2>6 DEF NotYetReturned
  <2>. QED  BY <2>1, <2>7
<1>6. ASSUME NEW c \in Callers, NEW step \in {"look", "asleep", "late"}, Active(c), GoOn(c, step),
             UNCHANGED <<pending, outcome>>
      PROVE  EntriesAwaited' /\ NotYetReturned'
  <2>1. \A d \in Callers : Active(d)' => Active(d) /\ IdOf(d)' = IdOf(d)
    BY <1>t, <1>6 DEF GoOn, Active, At, IdOf
  <2>. QED  BY <1>1, <1>2, <1>6, <2>1
<1>7. ASSUME NEW c \in Callers, NEW call \in Calls, Begin(c, call), user = "rpc"
      PROVE  EntriesAwaited' /\ NotYetReturned'
  <2>. PICK n : n = next_request_id
    OBVIOUS
  <2>1. /\ n \in Nat /\ n \in Ids /\ next_request_id' = n + 1 /\ n \notin Issued /\ n \in Issued'
    BY <1>7, RpcClientAssumption DEF TInv, RequestTypes, Begin, Issued, Ids
  <2>2. requests'[n] = call
    BY <1>7, <2>1 DEF Begin, TInv, RequestTypes
  <2>3. EntriesAwaited'
    <3> SUFFICES ASSUME NEW id \in Ids, pending'[id] # None
                 PROVE  user' = "rpc" /\ id \in Issued' /\ ~requests'[id].one_way
      BY DEF EntriesAwaited
    <3>1. CASE id = n
      <4>1. n \notin Issued => pending[n] = None
        BY <2>1 DEF EntriesAwaited
      <4>. QED  BY <1>t, <1>u, <1>7, <2>1, <2>2, <3>1, <4>1 DEF Begin
    <3>2. CASE id # n
      <4>1. pending'[id] = pending[id]
        BY <1>t, <1>7, <3>2 DEF Begin
      <4>. QED  BY <1>u, <1>s, <4>1 DEF EntriesAwaited
    <3>. QED  BY <3>1, <3>2
  <2>4. NotYetReturned'
    <3>1. \A d \in Callers : Active(d)' => (Active(d) /\ IdOf(d)' = IdOf(d)) \/ IdOf(d)' = n
      BY <1>t, <1>7 DEF Begin, Active, At, IdOf
    <3>2. outcome' = outcome /\ outcome[n] = None
      BY <1>7, <2>1 DEF Begin, NotYetReturned
    <3>. QED  BY <1>u, <1>s, <1>7, <3>1, <3>2 DEF NotYetReturned
  <2>. QED  BY <2>3, <2>4
<1>8. ASSUME NEW c \in Callers, Caller(c) PROVE EntriesAwaited' /\ NotYetReturned'
  <2>1. CASE \E call \in Calls : Begin(c, call) /\ user = "rpc"
    BY <1>7, <2>1
  <2>2. CASE SendRequest(c)
    <3>1. Active(c) /\ pending' = pending
      BY <2>2 DEF SendRequest, Active, At
    <3>. QED  BY <1>5, <1>6, <2>2, <3>1 DEF SendRequest
  <2>3. CASE SendFails(c) \/ TakeResult(c) \/ GiveUp(c)
    <3>1. Active(c)
      BY <2>3 DEF SendFails, TakeResult, GiveUp, Active, At
    <3>. QED  BY <1>5, <2>3, <3>1 DEF SendFails, TakeResult, GiveUp
  <2>4. CASE Wait(c)
    <3>1. Active(c)
      BY <2>4 DEF Wait, Active, At
    <3>. QED  BY <1>5, <1>6, <2>4, <3>1 DEF Wait
  <2>5. CASE WaitEnds(c)
    <3>1. Active(c)
      BY <2>5 DEF WaitEnds, Active, At
    <3>. QED  BY <1>6, <2>5, <3>1 DEF WaitEnds
  <2>. QED  BY <1>8, <2>1, <2>2, <2>3, <2>4, <2>5 DEF Caller, CallerStep, CallerSends, CallerFails
<1>. QED  BY <1>3, <1>4, <1>8 DEF Next

--------------------------------------------------------------------------------
(***************************************************************************)
(* The requests that wait, as long as the responses arrive as well.        *)
(***************************************************************************)
\* A request that is listed at the server, or whose answer is listed at the client.
Sending(id) == \E c \in Callers : At(c, "send") /\ IdOf(c) = id
Replying(w, id) == reply[w] # Absent /\ Carries(reply[w], id)

\* The places where a request or its answer may be.
LEMMA WayIs ==
    ASSUME NEW id
    PROVE  OnItsWay(id) <=>
              \/ Sending(id)
              \/ Among(Untaken("server"), id) \/ Among(Untaken("client"), id)
              \/ \E w \in ServerWorkers : Among(frames[w], id) \/ Replying(w, id)
              \/ \E x \in ClientWorkers : Among(job[x].frames, id)
BY DEF OnItsWay, Sending, Replying, Ends

\* Of the jobs of the client's workers one changes.
LEMMA JobIs ==
    ASSUME TInv, NEW x \in ClientWorkers, NEW next, job' = [job EXCEPT ![x] = next]
    PROVE  job'[x] = next /\ \A v \in ClientWorkers \ {x} : job'[v] = job[v]
BY DEF TInv, ClientTypes

\* The frames that a worker of the client has, and when it has any.
LEMMA JobTypes ==
    ASSUME TInv, NEW x \in ClientWorkers
    PROVE  /\ job[x].frames \in Seq(Frames)
           /\ ~JobAt(x, "frames") => job[x].frames = <<>>
           /\ JobAt(x, "frames") => job[x].frames # <<>>
           /\ NoJob.frames = <<>>
           /\ \A step, list : /\ [job[x] EXCEPT !.step = step].frames = job[x].frames
                              /\ [job[x] EXCEPT !.frames = list].frames = list
<1>1. job[x] \in Jobs
  BY DEF TInv, ClientTypes
<1>2. NoJob.frames = <<>>
  BY DEF NoJob
<1>3. job[x].frames \in Seq(Frames)
  BY <1>1, EmptySeq DEF Jobs
<1>4. (~JobAt(x, "frames") => job[x].frames = <<>>) /\ (JobAt(x, "frames") => job[x].frames # <<>>)
  BY <1>1 DEF Jobs, JobAt
<1>5. \A step, list : /\ [job[x] EXCEPT !.step = step].frames = job[x].frames
                      /\ [job[x] EXCEPT !.frames = list].frames = list
  BY <1>1 DEF Jobs
<1>. QED  BY <1>2, <1>3, <1>4, <1>5

\* The jobs of the steps of the client that handle no frames.
LEMMA JobsRest ==
    ASSUME TInv, Next,
           \A x \in ClientWorkers : ~ClientReceives(x) /\ ~ClientHandles(x) /\ ~RawReceive(x)
    PROVE  \A x \in ClientWorkers : job'[x].frames = job[x].frames
<1>1. ASSUME NEW x \in ClientWorkers, NEW next, job' = [job EXCEPT ![x] = next], next.frames = job[x].frames
      PROVE  \A v \in ClientWorkers : job'[v].frames = job[v].frames
  BY <1>1, JobIs
<1>2. CASE job' = job
  BY <1>2
<1>3. CASE ClientStep
  <2>1. CASE Start \/ UserDisconnect
    BY <1>2, <2>1 DEF Start, UserDisconnect
  <2>2. ASSUME NEW x \in ClientWorkers, ClientEvent(x)
        PROVE  \A v \in ClientWorkers : job'[v].frames = job[v].frames
    <3>. PICK next : next = [job[x] EXCEPT !.step = "read"]
      OBVIOUS
    <3>1. job' = [job EXCEPT ![x] = next] /\ next.frames = job[x].frames
      BY <2>2, JobTypes DEF ClientEvent, GoJob
    <3>. QED  BY <1>1, <3>1
  <2>3. ASSUME NEW x \in ClientWorkers, ClientDisconnect(x)
        PROVE  \A v \in ClientWorkers : job'[v].frames = job[v].frames
    <3>1. job' = [job EXCEPT ![x] = NoJob] /\ ~JobAt(x, "frames")
      BY <2>3 DEF ClientDisconnect, EndJob, JobAt
    <3>. QED  BY <1>1, <3>1, JobTypes
  <2>. QED  BY <1>3, <2>1, <2>2, <2>3 DEF ClientStep
<1>4. ASSUME NEW x \in ClientWorkers, ClientReads(x)
      PROVE  \A v \in ClientWorkers : job'[v].frames = job[v].frames
  <2>1. job[x].frames = <<>>
    BY <1>4, JobTypes DEF ClientReads, ClientRead, JobAt
  <2>2. CASE ReadsNothing(x)
    BY <1>1, <2>1, <2>2, JobTypes DEF ReadsNothing, EndJob
  <2>3. CASE ReadsChunk(x)
    <3>. PICK next : next = [step |-> "data", chunk |-> arrived["client"], frames |-> <<>>]
      OBVIOUS
    <3>1. job' = [job EXCEPT ![x] = next] /\ next.frames = job[x].frames
      BY <2>1, <2>3 DEF ReadsChunk
    <3>. QED  BY <1>1, <3>1
  <2>4. CASE ReadsEnd(x)
    <3>. PICK next : next = [job[x] EXCEPT !.step = "disconnect"]
      OBVIOUS
    <3>1. job' = [job EXCEPT ![x] = next] /\ next.frames = job[x].frames
      BY <2>4, JobTypes DEF ReadsEnd, GoJob
    <3>. QED  BY <1>1, <3>1
  <2>. QED  BY <1>4, <2>2, <2>3, <2>4 DEF ClientReads, ClientRead
<1>5. CASE Network \/ ServerCloses \/ (\E frame \in RawFrames : RawSend(frame))
           \/ (\E c \in Callers : Caller(c)) \/ \E w \in ServerWorkers : ServerWorker(w)
  BY <1>2, <1>5 DEF Network, ServerCloses, RawSend, Caller, CallerStep, CallerSends, CallerFails,
     Begin, SendRequest, SendFails, TakeResult, Wait, WaitEnds, GiveUp, ServerWorker, ServerStep, ServerBuffer,
     ServerReads, ServerReceives, ServerHandles, ServerFails, ServerReplies, clientVars
<1>. QED  BY <1>3, <1>4, <1>5 DEF Next, ClientWorker

\* Requests that wait are accounted for if no step loses one.
LEMMA AccountedKept ==
    ASSUME Accounted, unheard \subseteq unheard',
           \A id \in Ids : pending'[id] = Waiting =>
              /\ pending[id] = Waiting
              /\ OnItsWay(id) => OnItsWay(id)' \/ id \in unheard'
    PROVE  Accounted'
BY DEF Accounted

\* Answers stay what they are.
LEMMA AnswersStay ==
    ASSUME TInv, TInv', Next, HeardInv', EntriesAwaited, AnsweredOwn,
           \A id \in Ids : pending'[id] \notin {None, Waiting} => pending'[id] = pending[id]
    PROVE  AnsweredOwn'
<1> SUFFICES ASSUME NEW id \in Ids, pending'[id] \notin {None, Waiting}
             PROVE  Served(id)' /\ pending'[id] = AnswerTo(requests[id])'
  BY DEF AnsweredOwn
<1>1. Served(id) /\ pending[id] = AnswerTo(requests[id]) /\ pending'[id] = pending[id]
  BY DEF AnsweredOwn
<1>2. id \in Issued
  BY <1>1 DEF EntriesAwaited
<1>3. requests'[id] = requests[id]
  BY <1>2, RequestsStay
<1>4. AnswerTo(requests[id])' = AnswerTo(requests[id])
  BY <1>3 DEF AnswerTo
<1>. QED  BY <1>1, <1>2, <1>4, ServedStays

\* The step of a worker that parses responses.
LEMMA IntactParsed ==
    ASSUME IInv, TInv, OrderInv, TInv', OrderInv', Next, Heard, HeardInv, HeardInv', EntriesAwaited, IntactInv,
           ~mangled["client"], ~mangled'["client"], NEW x \in ClientWorkers, ClientReceives(x)
    PROVE  IntactInv'
<1>s. /\ taken \in [Ends -> Seq(Frames)] /\ "server" \in Ends /\ "client" \in Ends /\ "server" # "client"
  BY DEF TInv, HistoryTypes, Ends
<1>b. BytesInOrder("client") /\ BytesInOrder("client")'
  BY <1>s, Lasting DEF OrderInv, Heard
<1>. PICK list : list = ParseFrames(recv_buf \o job[x].chunk).frames
  OBVIOUS
<1>1. /\ UNCHANGED <<pending, caller, requests, next_request_id, frames, reply, sent, unheard>>
      /\ taken' = [taken EXCEPT !["client"] = taken["client"] \o list]
      /\ ~JobAt(x, "frames")
  BY DEF ClientReceives, ReceiveData, NoteParsed, serverVars, JobAt
<1>2. /\ job' = [job EXCEPT ![x] = IF list = <<>> THEN NoJob
                                   ELSE [step |-> "frames", chunk |-> <<>>, frames |-> list]]
  BY DEF ClientReceives, ReceiveData
<1>3. /\ job'[x].frames = list /\ job[x].frames = <<>>
      /\ \A v \in ClientWorkers \ {x} : job'[v] = job[v]
  <2>1. PICK next : next = IF list = <<>> THEN NoJob
                           ELSE [step |-> "frames", chunk |-> <<>>, frames |-> list]
    OBVIOUS
  <2>2. next.frames = list
    BY <2>1 DEF NoJob
  <2>3. job' = [job EXCEPT ![x] = next]
    BY <1>2, <2>1
  <2>. QED  BY <1>1, <2>2, <2>3, JobIs, JobTypes
<1>4. list \in Seq(Frames)
  <2>1. job'[x] \in Jobs
    BY DEF TInv, ClientTypes
  <2>2. job'[x].frames \in Seq(Frames)
    BY <2>1, EmptySeq DEF Jobs
  <2>. QED  BY <1>3, <2>2
<1>5. /\ Untaken("client") = list \o Untaken("client")' /\ Untaken("client")' \in Seq(Frames)
      /\ list \in Seq(OwnReplies)
  <2>1. taken'["client"] = taken["client"] \o list /\ sent'["client"] = sent["client"]
    BY <1>s, <1>1
  <2>2. sent["client"] \in Seq(OwnReplies)
    BY DEF HeardInv
  <2>. QED  BY <1>b, <1>s, <1>4, <2>1, <2>2, TakenInFront
<1>6. Untaken("server")' = Untaken("server")
  BY <1>s, <1>1 DEF Untaken
<1>7. \A id \in Ids : OnItsWay(id) => OnItsWay(id)'
  <2> SUFFICES ASSUME NEW id \in Ids, OnItsWay(id) PROVE OnItsWay(id)'
    OBVIOUS
  <2>u. PICK u : u = Untaken("client")
    OBVIOUS
  <2>n. PICK n : n = Untaken("client")'
    OBVIOUS
  <2>0. u = list \o n /\ n \in Seq(Frames)
    BY <1>5, <2>u, <2>n
  <2>1. Among(u, id) <=> Among(list, id) \/ Among(n, id)
    BY <1>4, <2>0, AmongParts
  <2>2. ~Among(job[x].frames, id)
    BY <1>3 DEF Among
  <2>3. CASE Sending(id) \/ \E w \in ServerWorkers : Among(frames[w], id) \/ Replying(w, id)
    BY <1>1, <2>3 DEF OnItsWay, Sending, Replying, At, IdOf
  <2>4. CASE Among(Untaken("server"), id)
    BY <1>6, <1>s, <2>4 DEF OnItsWay
  <2>5. CASE Among(u, id)
    <3>1. CASE Among(n, id)
      BY <1>s, <2>n, <3>1 DEF OnItsWay
    <3>2. CASE Among(list, id)
      BY <1>3, <3>2 DEF OnItsWay
    <3>. QED  BY <2>1, <2>5, <3>1, <3>2
  <2>6. CASE \E v \in ClientWorkers : Among(job[v].frames, id)
    BY <1>3, <2>2, <2>6 DEF OnItsWay
  <2>. QED  BY <2>u, <2>3, <2>4, <2>5, <2>6, WayIs
<1>8. Accounted'
  BY <1>1, <1>7, AccountedKept DEF IntactInv
<1>9. AnsweredOwn'
  BY <1>1, AnswersStay DEF IntactInv
<1>10. \A v \in ClientWorkers : job'[v].frames \in Seq(OwnReplies')
  <2>1. OwnReplies \subseteq OwnReplies'
    BY RequestsStay, ServedStays, Growing
  <2>2. \A v \in ClientWorkers : job'[v].frames \in Seq(OwnReplies)
    BY <1>3, <1>5 DEF IntactInv
  <2>. QED  BY <2>1, <2>2, SeqMonotonic
<1>. QED  BY <1>8, <1>9, <1>10 DEF IntactInv

\* The step of a worker that handles a response.
LEMMA IntactHandled ==
    ASSUME TInv, TInv', Next, HeardInv', EntriesAwaited, IntactInv,
           NEW x \in ClientWorkers, ClientHandles(x)
    PROVE  IntactInv'
<1>t. pending \in [Ids -> Results \cup {None, Waiting}]
  BY DEF TInv, RequestTypes
<1>1. job[x].frames \in Seq(Frames) /\ job[x].frames # <<>> /\ job[x].frames \in Seq(OwnReplies)
  BY JobTypes DEF ClientHandles, HandleResponse, IntactInv
<1>l. PICK list \in Seq(Frames) : list = job[x].frames /\ list # <<>> /\ list \in Seq(OwnReplies)
  BY <1>1
<1>r. PICK rest : rest = Tail(list)
  OBVIOUS
<1>2. rest \in Seq(Frames) /\ rest \in Seq(OwnReplies) /\ Head(list) \in OwnReplies
  BY <1>l, <1>r, HeadTailProperties
<1>3. PICK id \in Issued : Head(list) = OwnReply(id) /\ Served(id)
  BY <1>2 DEF OwnReplies
<1>i. id \in Ids
  BY FrameCarries
<1>f. PICK f : f = OwnReply(id)
  OBVIOUS
<1>4. /\ IsAnswer(f) /\ ResponseIn(f.payload).id = id
      /\ \A j : Carries(f, j) <=> j = id
      /\ [ok |-> f.type = Response, data |-> ResponseIn(f.payload).data] = AnswerTo(requests[id])
  BY <1>f, OwnReplyIs
<1>5. pending' = [i \in Ids |-> IF i \in Completed(id) THEN AnswerTo(requests[id]) ELSE pending[i]]
  BY <1>l, <1>3, <1>f, <1>4 DEF ClientHandles, HandleResponse
<1>6. caller' = Woken /\ UNCHANGED <<requests, next_request_id, ran, sent, taken, frames, reply, unheard>>
  BY <1>l, <1>3, <1>f, <1>4 DEF ClientHandles, HandleResponse, serverVars, history
<1>7. /\ \A i \in Ids \ {id} : pending'[i] = pending[i]
      /\ pending'[id] = IF pending[id] = None THEN None ELSE AnswerTo(requests[id])
  BY <1>t, <1>i, <1>5 DEF Completed
<1>8. AnswerTo(requests[id]) # Waiting
  <2>1. AnswerTo(requests[id]) = [ok |-> f.type = Response, data |-> ResponseIn(f.payload).data]
    BY <1>4
  <2>2. f \in Frames
    BY <1>f, OwnReplyIs
  <2>3. ResponseIn(f.payload).data \in Seq(Nat)
    <3>1. f.payload \in Seq(Nat) /\ f.payload # <<>>
      <4>1. Carries(f, id)
        BY <1>4
      <4>. QED  BY <2>2, <4>1 DEF Frames, Carries
    <3>2. Tail(f.payload) \in Seq(Nat)
      BY <3>1, HeadTailProperties
    <3>. QED  BY <3>2 DEF ResponseIn
  <2>4. AnswerTo(requests[id]) \in [ok : BOOLEAN, data : Seq(Nat)]
    BY <2>1, <2>3
  <2>. QED  BY <2>4, RpcClientAssumption
<1>9. job'[x].frames = rest /\ \A v \in ClientWorkers \ {x} : job'[v] = job[v]
  <2>. PICK next : next = IF rest = <<>> THEN NoJob ELSE [job[x] EXCEPT !.frames = rest]
    OBVIOUS
  <2>1. job' = [job EXCEPT ![x] = next]
    BY <1>l, <1>r DEF ClientHandles, HandleResponse
  <2>2. next.frames = rest
    BY JobTypes
  <2>. QED  BY <2>1, <2>2, JobIs, ZenonT(30)
<1>10. ASSUME NEW j \in Ids, j # id, OnItsWay(j) PROVE OnItsWay(j)'
  <2>1. Sending(j)' <=> Sending(j)
    BY <1>6 DEF Sending, Woken, At, IdOf, TInv, RequestTypes
  <2>2. Untaken("server")' = Untaken("server") /\ Untaken("client")' = Untaken("client")
    BY <1>6 DEF Untaken
  <2>3. Among(list, j) <=> Carries(Head(list), j) \/ Among(rest, j)
    BY <1>l, <1>r, AmongFirst
  <2>4. ~Carries(Head(list), j)
    BY <1>3, <1>f, <1>4, <1>10
  <2>5. (\E v \in ClientWorkers : Among(job[v].frames, j)) => \E v \in ClientWorkers : Among(job'[v].frames, j)
    BY <1>l, <1>9, <2>3, <2>4
  <2>6. \A w \in ServerWorkers : frames'[w] = frames[w] /\ (Replying(w, j)' <=> Replying(w, j))
    BY <1>6 DEF Replying
  <2>7. OnItsWay(j)' <=>
              \/ Sending(j)'
              \/ Among(Untaken("server")', j) \/ Among(Untaken("client")', j)
              \/ \E w \in ServerWorkers : Among(frames'[w], j) \/ Replying(w, j)'
              \/ \E v \in ClientWorkers : Among(job'[v].frames, j)
    BY DEF OnItsWay, Sending, Replying, Ends
  <2>. QED  BY <1>10, <2>1, <2>2, <2>5, <2>6, <2>7, WayIs
<1>11. Accounted'
  <2>1. \A i \in Ids : pending'[i] = Waiting => pending[i] = Waiting /\ i # id
    BY <1>7, <1>8, RpcClientAssumption
  <2>. QED  BY <1>6, <1>10, <2>1, AccountedKept DEF IntactInv
<1>12. AnsweredOwn'
  <2> SUFFICES ASSUME NEW i \in Ids, pending'[i] \notin {None, Waiting}
               PROVE  Served(i)' /\ pending'[i] = AnswerTo(requests[i])'
    BY DEF AnsweredOwn
  <2>1. Served(i) /\ pending'[i] = AnswerTo(requests[i])
    BY <1>3, <1>7 DEF AnsweredOwn, IntactInv
  <2>2. AnswerTo(requests[i])' = AnswerTo(requests[i])
    BY <1>6 DEF AnswerTo
  <2>3. Served(i)'
    BY <1>6, <2>1 DEF Served
  <2>. QED  BY <2>1, <2>2, <2>3
<1>13. \A v \in ClientWorkers : job'[v].frames \in Seq(OwnReplies')
  <2>1. OwnReplies \subseteq OwnReplies'
    BY RequestsStay, ServedStays, Growing
  <2>2. \A v \in ClientWorkers : job'[v].frames \in Seq(OwnReplies)
    BY <1>2, <1>9 DEF IntactInv
  <2>. QED  BY <2>1, <2>2, SeqMonotonic
<1>. QED  BY <1>11, <1>12, <1>13 DEF IntactInv

\* The other steps: of a request that waits they lose nothing.
LEMMA IntactElse ==
    ASSUME IInv, TInv, OrderInv, TInv', OrderInv', Next, Heard, Heard', HeardInv, HeardInv', EntriesAwaited, IntactInv,
           ~mangled["client"], \A x \in ClientWorkers : ~ClientReceives(x) /\ ~ClientHandles(x)
    PROVE  IntactInv'
<1>r. user = "rpc" /\ ~mangled["server"] /\ ~mangled'["server"] /\ user' = "rpc"
  BY DEF Heard
<1>s. /\ sent \in [Ends -> Seq(Frames)] /\ taken \in [Ends -> Seq(Frames)]
      /\ "server" \in Ends /\ "client" \in Ends /\ "server" # "client"
  BY DEF TInv, HistoryTypes, Ends
<1>b. BytesInOrder("server") /\ BytesInOrder("server")' /\ BytesInOrder("client")
  BY <1>r, <1>s DEF OrderInv
<1>t. /\ pending \in [Ids -> Results \cup {None, Waiting}]
      /\ caller \in [Callers -> [step : Calling, id : Ids \cup {None}]]
  BY DEF TInv, RequestTypes
<1>j. \A x \in ClientWorkers : job'[x].frames = job[x].frames
  BY <1>r, JobsRest DEF RawReceive
<1>w. \A id : OnItsWay(id)' <=>
              \/ Sending(id)'
              \/ Among(Untaken("server")', id) \/ Among(Untaken("client")', id)
              \/ \E w \in ServerWorkers : Among(frames'[w], id) \/ Replying(w, id)'
              \/ \E x \in ClientWorkers : Among(job[x].frames, id)
  BY <1>j DEF OnItsWay, Sending, Replying, Ends
<1>1. \A x \in ClientWorkers : job'[x].frames \in Seq(OwnReplies')
  <2>1. OwnReplies \subseteq OwnReplies'
    BY RequestsStay, ServedStays, Growing
  <2>2. \A x \in ClientWorkers : job'[x].frames \in Seq(OwnReplies)
    BY <1>j DEF IntactInv
  <2>. QED  BY <2>1, <2>2, SeqMonotonic
<1>2. ASSUME \A id \in Ids : pending'[id] \notin {None, Waiting} => pending'[id] = pending[id],
             Accounted'
      PROVE  IntactInv'
  BY <1>1, <1>2, AnswersStay DEF IntactInv
\* Nothing of what is on its way changes but who is about to send.
<1>3. ASSUME UNCHANGED <<frames, reply, sent, taken, unheard>>, pending' \in {pending} \cup {Forget(id) : id \in Ids},
             \A id \in Ids : pending'[id] = Waiting => (Sending(id) => Sending(id)')
      PROVE  IntactInv'
  <2>1. \A id \in Ids : pending'[id] # None => pending'[id] = pending[id]
    BY <1>t, <1>3 DEF Forget
  <2>2. \A id \in Ids : pending'[id] = Waiting => pending[id] = Waiting
    BY <2>1, RpcClientAssumption
  <2>3. Untaken("server")' = Untaken("server") /\ Untaken("client")' = Untaken("client")
    BY <1>3 DEF Untaken
  <2>4. \A id \in Ids : \A w \in ServerWorkers : Replying(w, id)' <=> Replying(w, id)
    BY <1>3 DEF Replying
  <2>5. \A id \in Ids : pending'[id] = Waiting => (OnItsWay(id) => OnItsWay(id)')
    BY <1>w, <1>3, <2>3, <2>4, WayIs
  <2>6. Accounted'
    BY <1>3, <2>2, <2>5, AccountedKept DEF IntactInv
  <2>. QED  BY <1>2, <2>1, <2>6
<1>4. ASSUME UNCHANGED <<pending, caller, frames, reply, sent, taken, unheard>> PROVE IntactInv'
  BY <1>3, <1>4 DEF Sending, At, IdOf
<1>5. CASE Network \/ ClientStep \/ ServerCloses
  BY <1>4, <1>5 DEF Network, ClientStep, ServerCloses, CloseStream, serverVars, history, callVars
<1>6. ASSUME NEW frame \in RawFrames, RawSend(frame) PROVE IntactInv'
  BY <1>r, <1>6 DEF RawSend
<1>7. ASSUME NEW x \in ClientWorkers, ClientWorker(x) PROVE IntactInv'
  <2>1. ClientReads(x)
    BY <1>r, <1>7 DEF ClientWorker, RawReceive
  <2>. QED  BY <1>4, <2>1 DEF ClientReads, serverVars, callVars
<1>8. ASSUME NEW w \in ServerWorkers, ServerStep(w) \/ ServerBuffer(w) \/ ServerReads(w) PROVE IntactInv'
  <2>1. UNCHANGED <<callVars, sent, taken, unheard>>
    BY <1>8 DEF ServerStep, ServerBuffer, ServerReads, history
  <2>2. UNCHANGED <<frames, reply>>
    BY <1>8 DEF ServerStep, Register, Insert, ServerEvent, ServerEventLost, RemoveFromMap, Deregister,
       ServerBuffer, OnConnect, OnDisconnect, ServerReads, ServerRead, serverVars
  <2>. QED  BY <1>4, <2>1, <2>2 DEF callVars
<1>9. ASSUME NEW c \in Callers, CallerStep(c) PROVE IntactInv'
  <2>1. UNCHANGED <<frames, reply, sent, taken, unheard>>
    BY <1>9 DEF CallerStep, serverVars, history
  <2>2. ASSUME NEW call \in Calls, Begin(c, call) PROVE IntactInv'
    <3>. PICK n : n = next_request_id
      OBVIOUS
    <3>1. n \in Ids
      BY <2>2, RpcClientAssumption DEF TInv, RequestTypes, Begin, Ids
    <3>2. \A id \in Ids \ {n} : pending'[id] = pending[id]
      BY <1>t, <2>2 DEF Begin
    <3>3. pending'[n] \in {pending[n], Waiting}
      BY <1>t, <2>2, <3>1 DEF Begin
    <3>4. Sending(n)' /\ \A id : Sending(id) => Sending(id)'
      <4>1. caller'[c] = [step |-> "send", id |-> n] /\ \A d \in Callers \ {c} : caller'[d] = caller[d]
        BY <1>t, <2>2 DEF Begin
      <4>2. ~At(c, "send")
        BY <2>2 DEF Begin, At
      <4>. QED  BY <4>1, <4>2 DEF Sending, At, IdOf
    <3>5. Untaken("server")' = Untaken("server") /\ Untaken("client")' = Untaken("client")
      BY <2>1 DEF Untaken
    <3>6. \A id \in Ids : \A w \in ServerWorkers : Replying(w, id)' <=> Replying(w, id)
      BY <2>1 DEF Replying
    <3>7. \A id \in Ids : OnItsWay(id) => OnItsWay(id)'
      BY <1>w, <2>1, <3>4, <3>5, <3>6, WayIs
    <3>8. OnItsWay(n)'
      BY <1>w, <3>1, <3>4
    <3>9. Accounted'
      BY <2>1, <3>2, <3>7, <3>8 DEF Accounted, IntactInv
    <3>10. \A id \in Ids : pending'[id] \notin {None, Waiting} => pending'[id] = pending[id]
      BY <3>2, <3>3
    <3>. QED  BY <1>2, <3>9, <3>10
  <2>3. CASE TakeResult(c) \/ Wait(c) \/ WaitEnds(c) \/ GiveUp(c)
    <3>1. Active(c) /\ ~At(c, "send")
      BY <2>3 DEF TakeResult, Wait, WaitEnds, GiveUp, Active, At
    <3>2. IdOf(c) \in Ids
      BY <3>1, ActiveIds
    <3>3. pending' \in {pending} \cup {Forget(id) : id \in Ids}
      BY <2>3, <3>2 DEF TakeResult, Wait, WaitEnds, GiveUp
    <3>4. \E next : caller' = [caller EXCEPT ![c] = next]
      BY <2>3 DEF TakeResult, Wait, WaitEnds, GiveUp, Return, GoOn
    <3>5. \A d \in Callers \ {c} : caller'[d] = caller[d]
      BY <1>t, <3>4
    <3>6. \A id \in Ids : Sending(id) => Sending(id)'
      BY <3>1, <3>5 DEF Sending, At, IdOf
    <3>. QED  BY <1>3, <2>1, <3>3, <3>6
  <2>. QED  BY <1>9, <2>2, <2>3 DEF CallerStep
<1>10. ASSUME NEW c \in Callers, At(c, "send"), NEW next, caller' = [caller EXCEPT ![c] = next]
       PROVE  \A id \in Ids : Sending(id) => Sending(id)' \/ id = IdOf(c)
  <2>1. \A d \in Callers \ {c} : caller'[d] = caller[d]
    BY <1>t, <1>10
  <2>. QED  BY <2>1 DEF Sending, At, IdOf
<1>11. ASSUME NEW c \in Callers, CallerFails(c) PROVE IntactInv'
  <2>1. /\ UNCHANGED <<frames, reply, sent, taken, unheard>> /\ At(c, "send")
        /\ pending' = Forget(IdOf(c)) /\ caller' = [caller EXCEPT ![c] = AtEase]
    BY <1>11 DEF CallerFails, SendFails, Return, serverVars
  <2>2. IdOf(c) \in Ids /\ pending'[IdOf(c)] # Waiting
    BY <1>t, <2>1, AboutToSend, RpcClientAssumption DEF Forget
  <2>3. \A id \in Ids : pending'[id] = Waiting => (Sending(id) => Sending(id)')
    BY <1>10, <2>1, <2>2
  <2>4. pending' \in {pending} \cup {Forget(id) : id \in Ids}
    BY <2>1, <2>2
  <2>. QED  BY <1>3, <2>1, <2>3, <2>4
<1>12. ASSUME NEW c \in Callers, CallerSends(c) PROVE IntactInv'
  <2>. PICK id : id = IdOf(c)
    OBVIOUS
  <2>1. /\ UNCHANGED <<frames, reply, taken, pending>> /\ At(c, "send") /\ SendRequest(c)
        /\ \E next : caller' = [caller EXCEPT ![c] = next]
    BY <1>12 DEF CallerSends, SendRequest, Return, GoOn, serverVars
  <2>2. \A i \in Ids : Sending(i) => Sending(i)' \/ i = id
    BY <1>10, <2>1
  <2>3. \A i \in Ids : \A w \in ServerWorkers : Replying(w, i)' <=> Replying(w, i)
    BY <2>1 DEF Replying
  <2>4. CASE stream # "open"
    <3>1. unheard' = unheard \cup {id} /\ sent' = sent
      BY <1>12, <2>4 DEF CallerSends
    <3>2. Untaken("server")' = Untaken("server") /\ Untaken("client")' = Untaken("client")
      BY <2>1, <3>1 DEF Untaken
    <3>3. \A i \in Ids : OnItsWay(i) => OnItsWay(i)' \/ i \in unheard'
      BY <1>w, <2>1, <2>2, <2>3, <3>1, <3>2, WayIs
    <3>4. Accounted'
      BY <2>1, <3>1, <3>3, AccountedKept DEF IntactInv
    <3>. QED  BY <1>2, <2>1, <3>4
  <2>5. CASE stream = "open"
    <3>1. id \in Issued /\ FrameFor(id) \in Frames
      BY <2>1, AboutToSend
    <3>2. sent' = [sent EXCEPT !["server"] = Append(sent["server"], FrameFor(id))] /\ unheard' = unheard
      BY <1>12, <2>5 DEF CallerSends, NoteSent
    <3>3. sent'["server"] = Append(sent["server"], FrameFor(id)) /\ sent'["client"] = sent["client"]
      BY <1>s, <3>2
    <3>u. PICK u : u = Untaken("server")
      OBVIOUS
    <3>n. PICK n : n = Untaken("server")'
      OBVIOUS
    <3>4. u \in Seq(Frames) /\ n = Append(u, FrameFor(id))
      BY <1>b, <1>s, <2>1, <3>1, <3>3, <3>u, <3>n, UntakenIs
    <3>5. Untaken("client")' = Untaken("client")
      BY <2>1, <3>3 DEF Untaken
    <3>6. \A i : Among(n, i) <=> Among(u, i) \/ i = id
      BY <3>1, <3>4, AmongMore, FrameCarries
    <3>7. \A i \in Ids : OnItsWay(i) => OnItsWay(i)'
      BY <1>w, <2>1, <2>2, <2>3, <3>5, <3>6, <3>u, <3>n, WayIs
    <3>8. Accounted'
      BY <2>1, <3>2, <3>7, AccountedKept DEF IntactInv
    <3>. QED  BY <1>2, <2>1, <3>8
  <2>. QED  BY <2>4, <2>5
<1>13. ASSUME NEW w \in ServerWorkers, ServerReceives(w) PROVE IntactInv'
  <2>1. UNCHANGED <<pending, caller, sent, reply, unheard>>
    BY <1>13 DEF ServerReceives, OnData, callVars
  <2>. PICK list : list = ParseFrames(Buffered(w)).frames
    OBVIOUS
  <2>2. frames' = [frames EXCEPT ![w] = list] /\ taken' = [taken EXCEPT !["server"] = taken["server"] \o list]
    BY <1>13 DEF ServerReceives, OnData, NoteParsed
  <2>3. frames[w] = <<>>
    BY <1>13, AtStep DEF ServerReceives, OnData, TInv
  <2>4. /\ frames'[w] = list /\ \A v \in ServerWorkers \ {w} : frames'[v] = frames[v]
        /\ taken'["server"] = taken["server"] \o list /\ taken'["client"] = taken["client"]
    BY <1>s, <2>2, ListTypes
  <2>5. list \in Seq(Frames)
    BY <2>4 DEF TInv, ServerTypes
  <2>u. PICK u : u = Untaken("server")
    OBVIOUS
  <2>n. PICK n : n = Untaken("server")'
    OBVIOUS
  <2>6. u = list \o n /\ n \in Seq(Frames)
    BY <1>b, <1>s, <2>1, <2>4, <2>5, <2>u, <2>n, TakenInFront
  <2>7. \A i : Among(u, i) => Among(list, i) \/ Among(n, i)
    BY <2>5, <2>6, AmongParts
  <2>8. Untaken("client")' = Untaken("client")
    BY <2>1, <2>4 DEF Untaken
  <2>9. \A i \in Ids : /\ Sending(i)' <=> Sending(i)
                       /\ \A v \in ServerWorkers : Replying(v, i)' <=> Replying(v, i)
    BY <2>1 DEF Sending, Replying, At, IdOf
  <2>10. \A i : ~Among(frames[w], i)
    BY <2>3 DEF Among
  <2>11. \A i \in Ids : OnItsWay(i) => OnItsWay(i)'
    BY <1>w, <2>4, <2>7, <2>8, <2>9, <2>10, <2>u, <2>n, WayIs
  <2>12. Accounted'
    BY <2>1, <2>11, AccountedKept DEF IntactInv
  <2>. QED  BY <1>2, <2>1, <2>12
<1>14. ASSUME NEW w \in ServerWorkers, ServerHandles(w) PROVE IntactInv'
  <2>1. UNCHANGED <<pending, caller, sent, taken, unheard>>
    BY <1>14 DEF ServerHandles, callVars
  <2>2. PICK list \in Seq(Frames) : list = frames[w] /\ list # <<>> /\ reply[w] = Absent
    BY <1>14, AtStep, ListTypes DEF ServerHandles, HandleFrame, TInv
  <2>3. PICK id \in Issued : Head(list) = FrameFor(id)
    <3>1. Head(list) \in RequestFrames
      BY <2>2, HeadTailProperties DEF HeardInv
    <3>. QED  BY <3>1 DEF RequestFrames
  <2>r. PICK rest : rest = Tail(list)
    OBVIOUS
  <2>4. /\ frames'[w] = rest /\ \A v \in ServerWorkers \ {w} : frames'[v] = frames[v] /\ reply'[v] = reply[v]
        /\ reply'[w] = IF requests[id].one_way THEN Absent ELSE OwnReply(id)
    BY <1>14, <2>2, <2>3, <2>r, RequestServed, ListTypes DEF ServerHandles, HandleFrame
  <2>5. \A i : Among(list, i) <=> i = id \/ Among(rest, i)
    BY <2>2, <2>3, <2>r, AmongFirst, FrameCarries
  <2>6. pending[id] = Waiting => ~requests[id].one_way
    BY FrameCarries, RpcClientAssumption DEF EntriesAwaited
  <2>7. pending[id] = Waiting => Replying(w, id)'
    <3>1. Carries(OwnReply(id), id) /\ OwnReply(id) \in Frames
      BY OwnReplyIs
    <3>2. OwnReply(id) # Absent
      BY <3>1, ListTypes
    <3>. QED  BY <2>4, <2>6, <3>1, <3>2 DEF Replying
  <2>8. /\ Untaken("server")' = Untaken("server") /\ Untaken("client")' = Untaken("client")
        /\ \A i \in Ids : Sending(i)' <=> Sending(i)
    BY <2>1 DEF Untaken, Sending, At, IdOf
  <2>9. \A i \in Ids : \A v \in ServerWorkers : Replying(v, i) => Replying(v, i)'
    BY <2>2, <2>4 DEF Replying
  <2>10. \A i \in Ids : pending[i] = Waiting =>
            ((\E v \in ServerWorkers : Among(frames[v], i)) =>
               \E v \in ServerWorkers : Among(frames'[v], i) \/ Replying(v, i)')
    BY <2>2, <2>4, <2>5, <2>7
  <2>11. \A i \in Ids : pending[i] = Waiting => (OnItsWay(i) => OnItsWay(i)')
    BY <1>w, <2>8, <2>9, <2>10, WayIs
  <2>12. Accounted'
    BY <2>1, <2>11, AccountedKept DEF IntactInv
  <2>. QED  BY <1>2, <2>1, <2>12
<1>15. ASSUME NEW w \in ServerWorkers, ServerReplies(w) PROVE IntactInv'
  <2>1. UNCHANGED <<pending, caller, frames, taken>>
    BY <1>15 DEF ServerReplies, SendReply, ReplyNowhere, ReplyBreaks, Replied, callVars
  <2>2. /\ reply[w] # Absent /\ reply[w] \in Frames
    BY <1>15, AtStep DEF ServerReplies, SendReply, ReplyNowhere, ReplyBreaks, TInv
  <2>3. \A v \in ServerWorkers \ {w} : reply'[v] = reply[v]
    BY <1>15, ListTypes DEF ServerReplies, SendReply, ReplyNowhere, ReplyBreaks, Replied
  <2>4. \A i : \A v \in ServerWorkers \ {w} : Replying(v, i) => Replying(v, i)'
    BY <2>3 DEF Replying
  <2>5. \A i \in Ids : Sending(i)' <=> Sending(i)
    BY <2>1 DEF Sending, At, IdOf
  <2>u. PICK u : u = Untaken("client")
    OBVIOUS
  <2>n. PICK n : n = Untaken("client")'
    OBVIOUS
  <2>. PICK f \in Frames : f = reply[w]
    BY <2>2
  <2>6. sent'["server"] = sent["server"]
    BY <1>s, <1>15 DEF ServerReplies, NoteSent
  <2>7. Untaken("server")' = Untaken("server")
    BY <2>1, <2>6 DEF Untaken
  <2>8. /\ unheard \subseteq unheard'
        /\ \A i \in Ids : Replying(w, i) => Among(n, i) \/ i \in unheard'
        /\ \A i \in Ids : Among(u, i) => Among(n, i)
    <3>1. CASE NoteSent("client", reply[w]) /\ UNCHANGED unheard
      <4>1. sent'["client"] = Append(sent["client"], f) /\ taken'["client"] = taken["client"]
        BY <1>s, <2>1, <3>1 DEF NoteSent
      <4>2. u \in Seq(Frames) /\ n = Append(u, f)
        BY <1>b, <1>s, <2>u, <2>n, <4>1, UntakenIs
      <4>3. \A i : Among(n, i) <=> Among(u, i) \/ Carries(f, i)
        BY <4>2, AmongMore
      <4>. QED  BY <3>1, <4>3 DEF Replying
    <3>2. CASE unheard' = unheard \cup Answered(reply[w]) /\ sent' = sent
      <4>1. n = u
        BY <2>1, <2>u, <2>n, <3>2 DEF Untaken
      <4>2. \A i \in Ids : Replying(w, i) => i \in Answered(reply[w])
        BY DEF Replying, Carries, Answered
      <4>. QED  BY <3>2, <4>1, <4>2
    <3>. QED  BY <1>15, <3>1, <3>2 DEF ServerReplies
  <2>9. \A i \in Ids : OnItsWay(i) => OnItsWay(i)' \/ i \in unheard'
    BY <1>w, <2>1, <2>4, <2>5, <2>7, <2>8, <2>u, <2>n, WayIs
  <2>10. Accounted'
    BY <2>1, <2>8, <2>9, AccountedKept DEF IntactInv
  <2>. QED  BY <1>2, <2>1, <2>10
<1>16. ASSUME NEW w \in ServerWorkers, ServerFails(w) PROVE IntactInv'
  <2>1. UNCHANGED <<pending, caller, sent, taken, reply>>
    BY <1>16 DEF ServerFails, MethodPanics, ErrorUnsent, callVars
  <2>2. PICK list \in Seq(Frames) : list = frames[w] /\ list # <<>>
    BY <1>16, AtStep, ListTypes DEF ServerFails, MethodPanics, ErrorUnsent, TInv
  <2>3. /\ unheard \subseteq unheard'
        /\ \A i \in Ids : Among(list, i) => Among(frames'[w], i) \/ i \in unheard'
        /\ \A v \in ServerWorkers \ {w} : frames'[v] = frames[v]
    <3>1. \A f, i : Carries(f, i) => i \in Answered(f)
      BY DEF Carries, Answered
    <3>2. CASE MethodPanics(w) /\ unheard' = unheard \cup UNION {Answered(frames[w][i]) : i \in DOMAIN frames[w]}
      BY <2>2, <3>1, <3>2, ListTypes DEF Among, MethodPanics
    <3>3. CASE ErrorUnsent(w) /\ unheard' = unheard \cup Answered(Head(frames[w]))
      <4>1. PICK rest : rest = Tail(list)
        OBVIOUS
      <4>2. frames'[w] = rest /\ \A v \in ServerWorkers \ {w} : frames'[v] = frames[v]
        BY <2>2, <3>3, <4>1, ListTypes DEF ErrorUnsent
      <4>3. \A i : Among(list, i) => Carries(Head(list), i) \/ Among(rest, i)
        BY <2>2, <4>1, AmongFirst
      <4>. QED  BY <2>2, <3>1, <3>3, <4>2, <4>3
    <3>. QED  BY <1>16, <3>2, <3>3 DEF ServerFails
  <2>4. /\ Untaken("server")' = Untaken("server") /\ Untaken("client")' = Untaken("client")
        /\ \A i \in Ids : Sending(i)' <=> Sending(i)
        /\ \A i \in Ids : \A v \in ServerWorkers : Replying(v, i)' <=> Replying(v, i)
    BY <2>1 DEF Untaken, Sending, Replying, At, IdOf
  <2>5. \A i \in Ids : OnItsWay(i) => OnItsWay(i)' \/ i \in unheard'
    BY <1>w, <2>2, <2>3, <2>4, WayIs
  <2>6. Accounted'
    BY <2>1, <2>3, <2>5, AccountedKept DEF IntactInv
  <2>. QED  BY <1>2, <2>1, <2>6
<1>. QED  BY <1>5, <1>6, <1>7, <1>8, <1>9, <1>11, <1>12, <1>13, <1>14, <1>15, <1>16
          DEF Next, Caller, ServerWorker

\* At first there are no requests.
LEMMA InitCalls == Init => CallsInv
<1> SUFFICES ASSUME Init PROVE CallsInv
  OBVIOUS
<1> USE DEF Init, RpcClientInit, RpcServerInit, ClientInit
<1>1. Issued = {} /\ \A c \in Callers : ~Active(c) /\ ~At(c, "send")
  BY DEF Issued, Active, At, AtEase
<1>2. EntriesAwaited /\ NotYetReturned
  BY <1>1 DEF EntriesAwaited, NotYetReturned
<1>3. sent["server"] = <<>> /\ sent["client"] = <<>> /\ Untaken("server") = <<>>
  <2>1. sent["server"] = <<>> /\ sent["client"] = <<>> /\ taken["server"] = <<>>
    BY DEF Ends
  <2>. QED  BY <2>1 DEF Untaken
<1>4. Distinct(<<>>) /\ \A id : ~Among(<<>>, id)
  BY DEF Distinct, Among
<1>5. \A w \in ServerWorkers : frames[w] = <<>> /\ reply[w] = Absent
  OBVIOUS
<1>6. OnceListed
  BY <1>3, <1>4, <1>5 DEF OnceListed
<1>7. RanOnce
  BY <1>3, <1>4, <1>5 DEF RanOnce, Listed
<1>8. \A S : <<>> \in Seq(S)
  BY EmptySeq
<1>9. HeardInv
  BY <1>3, <1>5, <1>6, <1>7, <1>8 DEF HeardInv
<1>10. IntactInv
  <2>1. \A x \in ClientWorkers : job[x].frames = <<>>
    BY DEF NoJob
  <2>2. \A id \in Ids : pending[id] = None
    OBVIOUS
  <2>. QED  BY <1>8, <2>1, <2>2, RpcClientAssumption DEF IntactInv, AnsweredOwn, Accounted
<1>. QED  BY <1>2, <1>9, <1>10 DEF CallsInv

\* Every step keeps what is said of them.
LEMMA NextCalls == IInv /\ TInv /\ OrderInv /\ CallsInv /\ [Next]_vars => CallsInv'
<1> SUFFICES ASSUME IInv, TInv, OrderInv, CallsInv, [Next]_vars PROVE CallsInv'
  OBVIOUS
<1>1. CASE Next
  <2>1. TInv' /\ OrderInv'
    BY <1>1, NextTypes, NextOrder
  <2>2. EntriesAwaited' /\ NotYetReturned'
    BY <1>1, NextEntries DEF CallsInv
  <2>3. /\ Heard' => Heard
        /\ ~mangled'["client"] => ~mangled["client"]
    BY <1>1, Lasting DEF Heard, Ends
  <2>4. Heard' => HeardInv'
    BY <1>1, <2>1, <2>3, NextHeard DEF CallsInv
  <2>5. ASSUME Heard', ~mangled'["client"] PROVE IntactInv'
    <3>1. Heard /\ HeardInv /\ HeardInv' /\ IntactInv /\ EntriesAwaited /\ ~mangled["client"]
      BY <2>3, <2>4, <2>5 DEF CallsInv
    <3>2. CASE \E x \in ClientWorkers : ClientReceives(x)
      BY <1>1, <2>1, <2>5, <3>1, <3>2, IntactParsed
    <3>3. CASE \E x \in ClientWorkers : ClientHandles(x)
      BY <1>1, <2>1, <3>1, <3>3, IntactHandled
    <3>4. CASE \A x \in ClientWorkers : ~ClientReceives(x) /\ ~ClientHandles(x)
      BY <1>1, <2>1, <2>5, <3>1, <3>4, IntactElse
    <3>. QED  BY <3>2, <3>3, <3>4
  <2>. QED  BY <2>2, <2>4, <2>5 DEF CallsInv
<1>2. CASE UNCHANGED vars
  <2>1. /\ UNCHANGED <<next_request_id, pending, caller, requests, outcome, frames, reply, job, user, sent, taken,
                       mangled, unheard, ran>>
    BY <1>2 DEF vars, clientVars, callVars, serverVars, history
  <2>2. Issued' = Issued /\ \A id : Served(id)' <=> Served(id)
    BY <2>1 DEF Issued, Served, RunsCall
  <2>3. RequestFrames' = RequestFrames /\ OwnReplies' = OwnReplies
    BY <2>1, <2>2 DEF RequestFrames, OwnReplies, FrameFor, OwnReply
  <2>4. Untaken("server")' = Untaken("server") /\ Untaken("client")' = Untaken("client")
    BY <2>1 DEF Untaken
  <2>5. \A id : (Listed(id)' <=> Listed(id)) /\ (Unsent(id)' <=> Unsent(id)) /\ (OnItsWay(id)' <=> OnItsWay(id))
    BY <2>1, <2>2, <2>4 DEF Listed, Unsent, OnItsWay, At, IdOf, Ends
  <2>6. EntriesAwaited' /\ NotYetReturned'
    BY <2>1, <2>2 DEF CallsInv, EntriesAwaited, NotYetReturned, Active, At, IdOf
  <2>7. HeardInv' <=> HeardInv
    <3>1. OnceListed' <=> OnceListed
      BY <2>1, <2>4 DEF OnceListed, Distinct, Among
    <3>2. RanOnce' <=> RanOnce
      BY <2>1, <2>5 DEF RanOnce
    <3>. QED  BY <2>1, <2>3, <3>1, <3>2 DEF HeardInv
  <2>8. IntactInv' <=> IntactInv
    <3>1. AnsweredOwn' <=> AnsweredOwn
      BY <2>1, <2>2 DEF AnsweredOwn, AnswerTo
    <3>2. Accounted' <=> Accounted
      BY <2>1, <2>5 DEF Accounted
    <3>. QED  BY <2>1, <2>3, <3>1, <3>2 DEF IntactInv
  <2>. QED  BY <2>1, <2>6, <2>7, <2>8 DEF CallsInv, Heard
<1>. QED  BY <1>1, <1>2

--------------------------------------------------------------------------------
(***************************************************************************)
(* The promise.                                                            *)
(***************************************************************************)
\* At first nothing is called.
LEMMA PromiseInit == Init => Promise!Init
<1> SUFFICES ASSUME Init PROVE Promise!Init
  OBVIOUS
<1>1. requests = [id \in Ids |-> None] /\ outcome = [id \in Ids |-> None] /\ ran = [id \in Ids |-> 0]
  BY DEF Init, RpcClientInit
<1>2. ~mangled["server"] /\ ~\E e \in Ends : mangled[e]
  BY DEF Init, Ends
<1>. QED  BY <1>1, <1>2 DEF Promise!Init

\* What is mangled stays so.
LEMMA PromiseFades == ASSUME TInv, Next PROVE Promise!Fades
<1>1. \A e \in Ends : mangled[e] => mangled'[e]
  BY Lasting
<1>2. "server" \in Ends
  BY DEF Ends
<1>3. (~mangled["server"])' \in {~mangled["server"], FALSE}
  BY <1>1, <1>2
<1>4. (~\E e \in Ends : mangled[e])' \in {~\E e \in Ends : mangled[e], FALSE}
  BY <1>1
<1>5. (~\E e \in Ends : mangled[e])' => (~mangled["server"])'
  BY <1>2
<1>. QED  BY <1>3, <1>4, <1>5 DEF Promise!Fades

\* A step that makes no call, runs none and ends none.
LEMMA PromiseBreak ==
    ASSUME TInv, Next, UNCHANGED <<requests, ran, outcome>>
    PROVE  Promise!Next
BY PromiseFades DEF Promise!Next, Promise!Break

\* A call begins.
LEMMA PromiseMake ==
    ASSUME TInv, NEW c \in Callers, NEW call \in Calls, Begin(c, call), UNCHANGED history
    PROVE  Promise!Next
<1>1. requests[next_request_id] = None /\ next_request_id \in Ids
  BY RpcClientAssumption DEF TInv, RequestTypes, Begin, Ids, Issued
<1>2. requests' = [requests EXCEPT ![next_request_id] = call]
  BY DEF Begin
<1>3. Promise!Make(next_request_id, call)
  BY <1>1, <1>2 DEF Promise!Make, Begin, history
<1>. QED  BY <1>1, <1>3 DEF Promise!Next

\* A call returns: it was made, and has not returned before.
LEMMA PromiseReturn ==
    ASSUME TInv, NotYetReturned, IInv, Next, NEW c \in Callers, Active(c), NEW r \in Results,
           outcome' = [outcome EXCEPT ![IdOf(c)] = r], UNCHANGED <<requests, ran>>,
           \/ r \in {Err(Unavailable), Err(DeadlineExceeded)}
           \/ Promise!Deserved(IdOf(c), r)
           \/ \E e \in Ends : mangled[e]
    PROVE  Promise!Next
<1>1. PICK id : id = IdOf(c)
  OBVIOUS
<1>2. id \in Issued /\ outcome[id] = None
  BY <1>1 DEF IInv, IdsGivenOut, Issued, NotYetReturned
<1>3. id \in Ids /\ requests[id] # None
  BY <1>2, RpcClientAssumption DEF TInv, RequestTypes, Ids, Issued
<1>4. r # None
  BY RpcClientAssumption DEF Results
<1>5. outcome'[id] = r /\ outcome' = [outcome EXCEPT ![id] = r]
  BY <1>1, <1>3 DEF TInv, RequestTypes
<1>6. Promise!Return(id)
  <2>1. \/ Promise!Deserved(id, outcome'[id])
        \/ outcome'[id] \in {Err(Unavailable), Err(DeadlineExceeded)}
        \/ ~(~\E e \in Ends : mangled[e])
    BY <1>1, <1>5
  <2>2. outcome' = [outcome EXCEPT ![id] = outcome'[id]] /\ outcome'[id] # None
    BY <1>4, <1>5
  <2>. QED  BY <1>2, <1>3, <2>1, <2>2, PromiseFades DEF Promise!Return
<1>. QED  BY <1>3, <1>6 DEF Promise!Next

\* A caller makes its call, or returns.
LEMMA PromiseCalled ==
    ASSUME IInv, TInv, CallsInv, Next, NEW c \in Callers, Caller(c)
    PROVE  Promise!Next
<1>1. NotYetReturned
  BY DEF CallsInv
<1>2. CASE CallerStep(c)
  <2>h. UNCHANGED history /\ UNCHANGED ran
    BY <1>2 DEF CallerStep, history
  <2>1. CASE \E call \in Calls : Begin(c, call)
    BY <2>h, <2>1, PromiseMake
  <2>2. CASE TakeResult(c)
    <3>1. PICK id : id = IdOf(c)
      OBVIOUS
    <3>2. Active(c) /\ user = "rpc" /\ id \in Ids
      <4>1. Active(c) /\ user = "rpc"
        BY <1>1, <2>2 DEF TakeResult, Active, At, NotYetReturned
      <4>. QED  BY <3>1, <4>1, RpcClientAssumption DEF IInv, IdsGivenOut, TInv, RequestTypes, Ids
    <3>3. PICK r : r = pending[id]
      OBVIOUS
    <3>4. r \notin {None, Waiting} /\ r \in Results /\ outcome' = [outcome EXCEPT ![id] = r] /\ requests' = requests
      BY <2>2, <3>1, <3>2, <3>3 DEF TakeResult, Return, TInv, RequestTypes
    <3>5. Promise!Deserved(id, r) \/ \E e \in Ends : mangled[e]
      <4>1. SUFFICES ASSUME ~\E e \in Ends : mangled[e] PROVE Promise!Deserved(id, r)
        OBVIOUS
      <4>2. AnsweredOwn
        BY <3>2, <4>1 DEF CallsInv, Heard, IntactInv, Ends
      <4>3. Served(id) /\ r = AnswerTo(requests[id])
        BY <3>2, <3>3, <3>4, <4>2 DEF AnsweredOwn
      <4>. QED  BY <4>3 DEF Promise!Deserved, Served
    <3>. QED  BY <1>1, <2>h, <3>1, <3>2, <3>4, <3>5, PromiseReturn
  <2>e. Err(DeadlineExceeded) \in Results
    BY DEF Err, Results, DeadlineExceeded
  <2>3. CASE Wait(c)
    <3>1. Active(c) /\ requests' = requests
      BY <2>3 DEF Wait, Active, At
    <3>2. CASE UNCHANGED outcome
      BY <2>h, <3>1, <3>2, PromiseBreak
    <3>3. CASE Return(c, Err(DeadlineExceeded))
      <4>1. outcome' = [outcome EXCEPT ![IdOf(c)] = Err(DeadlineExceeded)]
        BY <3>3 DEF Return
      <4>. QED  BY <1>1, <2>e, <2>h, <3>1, <4>1, PromiseReturn
    <3>. QED  BY <2>3, <3>2, <3>3 DEF Wait
  <2>4. CASE WaitEnds(c)
    <3>1. UNCHANGED <<requests, outcome>>
      BY <2>4 DEF WaitEnds
    <3>. QED  BY <2>h, <3>1, PromiseBreak
  <2>5. CASE GiveUp(c)
    <3>1. Active(c) /\ requests' = requests /\ outcome' = [outcome EXCEPT ![IdOf(c)] = Err(DeadlineExceeded)]
      BY <2>5 DEF GiveUp, Return, Active, At
    <3>. QED  BY <1>1, <2>e, <2>h, <3>1, PromiseReturn
  <2>. QED  BY <1>2, <2>1, <2>2, <2>3, <2>4, <2>5 DEF CallerStep
<1>3. CASE CallerSends(c)
  <2>1. Active(c) /\ UNCHANGED <<requests, ran>>
    BY <1>3 DEF CallerSends, SendRequest, Active, At
  <2>2. CASE ~requests[IdOf(c)].one_way
    <3>1. outcome' = outcome
      BY <1>3, <2>2 DEF CallerSends, SendRequest
    <3>. QED  BY <2>1, <3>1, PromiseBreak
  <2>3. CASE requests[IdOf(c)].one_way
    <3>1. outcome' = [outcome EXCEPT ![IdOf(c)] = Ok(<<>>)]
      BY <1>3, <2>3 DEF CallerSends, SendRequest, Return
    <3>2. Promise!Deserved(IdOf(c), Ok(<<>>))
      BY <2>3 DEF Promise!Deserved
    <3>3. Ok(<<>>) \in Results
      BY EmptySeq DEF Ok, Results
    <3>. QED  BY <1>1, <2>1, <3>1, <3>2, <3>3, PromiseReturn
  <2>. QED  BY <2>2, <2>3
<1>4. CASE CallerFails(c)
  <2>1. Active(c) /\ UNCHANGED <<requests, ran>> /\ outcome' = [outcome EXCEPT ![IdOf(c)] = Err(Unavailable)]
    BY <1>4 DEF CallerFails, SendFails, Return, Active, At
  <2>2. Err(Unavailable) \in Results
    BY DEF Err, Results, Unavailable
  <2>. QED  BY <1>1, <2>1, <2>2, PromiseReturn
<1>. QED  BY <1>2, <1>3, <1>4 DEF Caller

\* A worker of the server runs a request: one that has not run, if the requests
\* arrive as they were sent.
LEMMA PromiseRun ==
    ASSUME TInv, CallsInv, Next, NEW w \in ServerWorkers, ServerHandles(w) \/ ServerFails(w)
    PROVE  Promise!Next
<1>0. CASE ran' = ran
  <2>1. UNCHANGED <<requests, outcome>>
    BY DEF ServerHandles, ServerFails, callVars
  <2>. QED  BY <1>0, <2>1, PromiseBreak
<1> SUFFICES ASSUME ran' # ran PROVE Promise!Next
  BY <1>0
<1>h. NextIs(w, "frame") /\ NoteRun(Head(frames[w]))
  BY DEF ServerHandles, HandleFrame, ServerFails, MethodPanics
<1>1. PICK f : f = Head(frames[w])
  OBVIOUS
<1>2. PICK id : id = RequestIn(f.payload).id
  OBVIOUS
<1>3. ran' = [i \in Ids |-> IF user = "rpc" /\ RunBy(f) /\ id = i THEN ran[i] + 1 ELSE ran[i]]
  BY <1>1, <1>2, <1>h DEF NoteRun
<1>4. UNCHANGED <<requests, outcome, mangled>>
  BY DEF ServerHandles, ServerFails, callVars
<1>5. ran \in [Ids -> Nat] /\ frames[w] \in Seq(Frames)
  BY DEF TInv, HistoryTypes, ServerTypes
<1>6. CASE user = "rpc" /\ RunBy(f) /\ id \in Ids
  <2>1. ran' = [ran EXCEPT ![id] = ran[id] + 1]
    BY <1>3, <1>5, <1>6
  <2>2. ASSUME ~mangled["server"] PROVE requests[id] # None /\ ran[id] = 0
    <3>1. HeardInv
      BY <1>6, <2>2 DEF CallsInv, Heard
    <3>2. frames[w] # <<>> /\ 1 \in DOMAIN frames[w] /\ f = frames[w][1]
      <4>1. frames[w] # <<>>
        BY <1>h, AtStep DEF TInv
      <4>. QED  BY <1>1, <1>5, <4>1
    <3>3. PICK j \in Issued : f = FrameFor(j)
      BY <3>1, <3>2 DEF HeardInv, RequestFrames
    <3>4. j = id /\ Carries(f, id)
      BY <1>2, <3>3, FrameCarries, RequestServed
    <3>5. Among(frames[w], id)
      BY <3>2, <3>4 DEF Among
    <3>6. ran[id] = 0
      BY <1>6, <3>1, <3>5 DEF HeardInv, RanOnce, Listed
    <3>7. requests[id] # None
      BY <1>6, <3>3, <3>4 DEF TInv, RequestTypes
    <3>. QED  BY <3>6, <3>7
  <2>3. Promise!Run(id)
    BY <1>4, <2>1, <2>2 DEF Promise!Run
  <2>. QED  BY <1>6, <2>3 DEF Promise!Next
<1>7. CASE ~(user = "rpc" /\ RunBy(f) /\ id \in Ids)
  <2>1. ran' = ran
    BY <1>3, <1>5, <1>7
  <2>. QED  BY <1>4, <2>1, PromiseBreak
<1>. QED  BY <1>6, <1>7

\* Every step is one of the promise, or changes nothing that it speaks of.
LEMMA PromiseStep == IInv /\ TInv /\ CallsInv /\ [Next]_vars => [Promise!Next]_Promise!vars
<1> SUFFICES ASSUME IInv, TInv, CallsInv, [Next]_vars PROVE Promise!Next \/ UNCHANGED Promise!vars
  OBVIOUS
<1>1. CASE UNCHANGED vars
  <2>1. UNCHANGED <<requests, ran, outcome, mangled>>
    BY <1>1 DEF vars, callVars, history
  <2>. QED  BY <2>1 DEF Promise!vars
<1>2. ASSUME Next, NEW c \in Callers, Caller(c) PROVE Promise!Next
  BY <1>2, PromiseCalled
<1>3. ASSUME Next, NEW w \in ServerWorkers, ServerHandles(w) \/ ServerFails(w) PROVE Promise!Next
  BY <1>3, PromiseRun
<1>4. CASE /\ Next
           /\ \A c \in Callers : ~Caller(c)
           /\ \A w \in ServerWorkers : ~ServerHandles(w) /\ ~ServerFails(w)
  <2>1. UNCHANGED <<requests, ran, outcome>>
    <3>1. CASE Network \/ ClientStep \/ ServerCloses \/ \E frame \in RawFrames : RawSend(frame)
      BY <3>1 DEF Network, ClientStep, ServerCloses, RawSend, callVars, history
    <3>2. CASE \E x \in ClientWorkers : ClientWorker(x)
      BY <3>2 DEF ClientWorker, ClientReads, RawReceive, ClientReceives, ReceiveData, ClientHandles,
                  HandleResponse, callVars, history
    <3>3. CASE \E w \in ServerWorkers : ServerWorker(w)
      BY <1>4, <3>3 DEF ServerWorker, ServerStep, ServerBuffer, ServerReads, ServerReceives, ServerReplies,
                  callVars, history
    <3>. QED  BY <1>4, <3>1, <3>2, <3>3 DEF Next
  <2>. QED  BY <1>4, <2>1, PromiseBreak
<1>. QED  BY <1>1, <1>2, <1>3, <1>4

--------------------------------------------------------------------------------
(***************************************************************************)
(* The results.                                                            *)
(***************************************************************************)
\* What becomes of the requests, at every step.
THEOREM CallsKept == Spec => [](IInv /\ TInv /\ OrderInv /\ CallsInv)
<1>1. Init => IInv /\ TInv /\ OrderInv /\ CallsInv
  BY InitIInv, InitTypes, InitOrder, InitCalls
<1>2. (IInv /\ TInv /\ OrderInv /\ CallsInv) /\ [Next]_vars => (IInv /\ TInv /\ OrderInv /\ CallsInv)'
  BY NextIInv, NextTypes, NextOrder, NextCalls
<1>. QED  BY <1>1, <1>2, PTL DEF Spec

\* A request that waits is on its way, or its response is, unless nobody was
\* there to send to, a method of its batch panicked and took the worker along,
\* its error could not be serialized or the bytes were mangled: no other step of
\* the workers of both ends drops one (server.rs l.148-265, client.rs l.80-257).
THEOREM RequestsAccounted == Spec => []RequestAccounted
<1>1. TInv /\ CallsInv => RequestAccounted
  <2> SUFFICES ASSUME TInv, CallsInv, NEW id \in Ids, pending[id] = Waiting, ~\E e \in Ends : mangled[e]
               PROVE  OnItsWay(id) \/ id \in unheard
    BY DEF RequestAccounted
  <2>1. user = "rpc"
    BY RpcClientAssumption DEF CallsInv, EntriesAwaited
  <2>2. Accounted
    BY <2>1 DEF CallsInv, Heard, IntactInv, Ends
  <2>. QED  BY <2>2 DEF Accounted
<1>. QED  BY <1>1, CallsKept, PTL

\* Every call runs its method at most once, and returns its own answer, or an
\* error, or what came of bytes that were lost: the client, the two streams and
\* the server together implement the specification of the calls (server.rs
\* l.209-265, client.rs l.80-170, 187-257, mill-rpc-macros l.270-330).
THEOREM CallsImplemented == Spec => ImplementsCalls
<1>1. Init => Promise!Init
  BY PromiseInit
<1>2. (IInv /\ TInv /\ OrderInv /\ CallsInv) /\ [Next]_vars => [Promise!Next]_Promise!vars
  BY PromiseStep
<1>. QED  BY <1>1, <1>2, CallsKept, PTL DEF Spec, ImplementsCalls, Promise!Spec

================================================================================
