----------------------------------- MODULE Wire ----------------------------------
(***************************************************************************)
(* The wire protocol of mill-rpc (mill-rpc-core/src/protocol.rs): frames,  *)
(* their encoding, and the streaming parser.                               *)
(*                                                                         *)
(* A byte of the model is a field of the code: the two magic bytes are     *)
(* one, and so are the four of the length, the eight of an id and the two  *)
(* of a service or a method.  Where a field is short the parser sees the   *)
(* bytes that follow in its place, as in the code.                         *)
(***************************************************************************)
EXTENDS Integers, Sequences

\* 'M', which read as a length asks for more than anybody sends: the bytes "MR"
\* and what follows them make a length of 86605.
Magic == 77
Version == 1
MaxPayload == 90

HeaderSize == 5

Request == 1
Response == 2
Error == 3
Ping == 4
Pong == 5
Cancel == 6
MessageTypes == {Request, Response, Error, Ping, Pong, Cancel}

\* Flags
NoFlags == 0
OneWay == 2
IsOneWay(flags) == (flags \div OneWay) % 2 = 1

\* RpcStatus, as far as the calls tell its codes apart.
NotFound == 3
Internal == 8
Unavailable == 9
DeadlineExceeded == 10

--------------------------------------------------------------------------------
(***************************************************************************)
(* Frames.                                                                 *)
(***************************************************************************)
FrameOf(type, flags, payload) == [type |-> type, flags |-> flags, payload |-> payload]

RequestFrame(id, service, method, args, one_way) ==
    FrameOf(Request, IF one_way THEN OneWay ELSE NoFlags, <<id, service, method>> \o args)

ResponseFrame(id, data) == FrameOf(Response, NoFlags, <<id>> \o data)
ErrorFrame(id, data) == FrameOf(Error, NoFlags, <<id>> \o data)
PingFrame == FrameOf(Ping, NoFlags, <<>>)
PongFrame == FrameOf(Pong, NoFlags, <<>>)

\* FrameHeader::encode and Frame::encode
Header(frame) == <<Magic, Version, frame.flags, frame.type, Len(frame.payload)>>
Encode(frame) == Header(frame) \o frame.payload

Frames == [type : Nat, flags : Nat, payload : Seq(Nat)]

\* What FrameHeader::decode asks of a header.
Decodes(header) ==
    /\ header[1] = Magic
    /\ header[2] = Version
    /\ header[4] \in MessageTypes
    /\ header[5] <= MaxPayload

\* parse_request_payload, parse_response_payload
IsRequestPayload(payload) == Len(payload) >= 3
RequestIn(payload) ==
    [id |-> payload[1], service |-> payload[2], method |-> payload[3],
     args |-> SubSeq(payload, 4, Len(payload))]

IsResponsePayload(payload) == Len(payload) >= 1
ResponseIn(payload) == [id |-> payload[1], data |-> Tail(payload)]

--------------------------------------------------------------------------------
(***************************************************************************)
(* parse_frames: the complete frames at the front of a buffer, and what is *)
(* left behind them; or a failure, if any header on the way is bad.        *)
(***************************************************************************)
Failed == [ok |-> FALSE, frames |-> <<>>, rest |-> <<>>]
Parsed(frames, rest) == [ok |-> TRUE, frames |-> frames, rest |-> rest]

\* The outcome of the parser when it has come to offset, frame by frame.
ParseFrames(buf) ==
    LET from[offset \in 0 .. Len(buf)] ==
          LET header == SubSeq(buf, offset + 1, offset + HeaderSize)
              past == offset + HeaderSize + header[5]
              frame == FrameOf(header[4], header[3], SubSeq(buf, offset + HeaderSize + 1, past))
          IN IF offset + HeaderSize > Len(buf)
               THEN Parsed(<<>>, SubSeq(buf, offset + 1, Len(buf)))
             ELSE IF ~Decodes(header)
               THEN Failed
             ELSE IF past > Len(buf)
               THEN Parsed(<<>>, SubSeq(buf, offset + 1, Len(buf)))
             ELSE IF ~from[past].ok
               THEN Failed
               ELSE Parsed(<<frame>> \o from[past].frames, from[past].rest)
    IN from[0]

================================================================================
