-------------------------------- MODULE Frames --------------------------------
(***************************************************************************)
(* One direction of a connection: send_frame and recv_frame (frame.cpp)    *)
(* over send_all and recv_all (net.cpp), with the messages of module       *)
(* Messages as payloads.  The socket is a stream of fields: a send hands   *)
(* over some of what is left to send, a recv returns some of what has      *)
(* arrived, and neither knows where a frame ends.  The sender may go away  *)
(* at any time, also in the middle of a frame, and what it had sent may    *)
(* then be lost from some point on.                                        *)
(***************************************************************************)
EXTENDS Messages

CONSTANTS Requests, Responses,  \* frames the two ends send: a message, how many
                                \* fields are missing at the end of its payload,
                                \* and the protocol version
          kMaxFrameSize,        \* largest payload recv_frame accepts
          SocketBuffer,         \* fields the socket holds between send and recv
          MaxFrames             \* frames sent on a connection

VARIABLES direction,   \* what this direction carries: requests or responses
          sent,        \* the frames handed to send_frame
          sending,     \* what send_all has still to send
          wire,        \* what is in the socket
          peer,        \* whether the sender is there
          plen,        \* the length the header gives; 0 before recv_frame has read it
          got,         \* what recv_all has read so far
          received,    \* the payloads recv_frame has returned
          status       \* of the receiver: open, ended (recv failed) or refused

vars == <<direction, sent, sending, wire, peer, plen, got, received, status>>

kFrameMagic      == 81
kProtocolVersion == 1
HeaderSize       == 3   \* magic; version, type, flags, correlation; length

-----------------------------------------------------------------------------
(***************************************************************************)
(* Encoding.  A peer of another build may leave out the last fields of a   *)
(* payload, and may speak another version.  (Fields too many, which        *)
(* decode_request and decode_response would not notice, are not sent.)     *)
(***************************************************************************)
IsRequest(m) == "req" \in DOMAIN m

Payload(f) ==
  LET p == IF IsRequest(f.message) THEN encode_request(f.message)
                                   ELSE encode_response(f.message)
  IN  SubSeq(p, 1, Len(p) - f.missing)

\* The length has 32 bits in the code; no payload here is near 4 GiB.
encode_frame(f) ==
  <<kFrameMagic, f.version, Len(Payload(f))>> \o Payload(f)

ASSUME FrameAssumption ==
  /\ kMaxFrameSize \in Nat
  /\ \A f \in Requests : RequestTyped(f.message)
  /\ \A f \in Responses : ResponseTyped(f.message)
  /\ \A f \in Requests \cup Responses : f.missing \in Nat /\ f.version \in Nat

\* What the programs at the ends make of a payload.
Decode(p) == IF direction = "requests" THEN decode_request(p) ELSE decode_response(p)

-----------------------------------------------------------------------------
Init ==
  /\ direction \in {"requests", "responses"}
  /\ sent = <<>> /\ sending = <<>> /\ wire = <<>> /\ peer = TRUE
  /\ plen = 0 /\ got = <<>> /\ received = <<>> /\ status = "open"

(***************************************************************************)
(* The sender.  send_frame does not look at the size of the payload.       *)
(***************************************************************************)
send_frame ==
  /\ peer /\ sending = <<>> /\ Len(sent) < MaxFrames
  /\ \E f \in IF direction = "requests" THEN Requests ELSE Responses :
       sent' = Append(sent, f) /\ sending' = encode_frame(f)
  /\ UNCHANGED <<direction, wire, peer, plen, got, received, status>>

\* Mutant: takes the first send for the whole frame.
send_all_once ==
  /\ peer /\ status = "open"
  /\ \E n \in 1..Len(sending) :
       /\ Len(wire) + n <= SocketBuffer
       /\ wire' = wire \o SubSeq(sending, 1, n)
       /\ sending' = <<>>
  /\ UNCHANGED <<direction, sent, peer, plen, got, received, status>>

\* One turn of the loop of send_all.
send_all ==
  /\ peer /\ status = "open"
  /\ \E n \in 1..Len(sending) :
       /\ Len(wire) + n <= SocketBuffer
       /\ wire' = wire \o SubSeq(sending, 1, n)
       /\ sending' = SubSeq(sending, n + 1, Len(sending))
  /\ UNCHANGED <<direction, sent, peer, plen, got, received, status>>

\* The receiver has closed the connection, so that send fails.
SendFails ==
  /\ peer /\ sending # <<>> /\ status # "open"
  /\ sending' = <<>> /\ peer' = FALSE
  /\ UNCHANGED <<direction, sent, wire, plen, got, received, status>>

\* The sender ends.
PeerGone ==
  /\ peer
  /\ peer' = FALSE /\ sending' = <<>>
  /\ \E n \in 0..Len(wire) : wire' = SubSeq(wire, 1, n)
  /\ UNCHANGED <<direction, sent, plen, got, received, status>>

-----------------------------------------------------------------------------
(***************************************************************************)
(* The receiver: recv_all for the header, the tests on it, recv_all for    *)
(* the payload.                                                            *)
(***************************************************************************)
Wanted == IF plen = 0 THEN HeaderSize ELSE plen

Deliver(payload) ==
  /\ received' = Append(received, payload)
  /\ plen' = 0 /\ got' = <<>>
  /\ UNCHANGED status

Refuse ==
  /\ status' = "refused"
  /\ UNCHANGED <<plen, got, received>>

\* Mutant: takes the largest payload for one too large.
HeaderOkStrict(h) == h[1] = kFrameMagic /\ h[2] = kProtocolVersion /\ h[3] < kMaxFrameSize

\* Mutant: compares the size with nothing.
HeaderOkAnySize(h) == h[1] = kFrameMagic /\ h[2] = kProtocolVersion

HeaderOk(h) == h[1] = kFrameMagic /\ h[2] = kProtocolVersion /\ h[3] <= kMaxFrameSize

HeaderRead(h) ==
  \/ HeaderOk(h) /\ h[3] = 0 /\ Deliver(<<>>)
  \/ /\ HeaderOk(h) /\ h[3] > 0
     /\ plen' = h[3] /\ got' = <<>>
     /\ UNCHANGED <<received, status>>
  \/ ~HeaderOk(h) /\ Refuse

\* Mutant: takes the first recv for all there is.
recv_all_once ==
  /\ status = "open"
  /\ \E n \in 1..(Wanted - Len(got)) :
       /\ n <= Len(wire)
       /\ wire' = SubSeq(wire, n + 1, Len(wire))
       /\ LET g == got \o SubSeq(wire, 1, n)
          IN  \/ /\ Len(g) < Wanted /\ plen = 0
                 /\ got' = g /\ UNCHANGED <<plen, received, status>>
              \/ Len(g) = Wanted /\ plen = 0 /\ HeaderRead(g)
              \/ plen > 0 /\ Deliver(g)
  /\ UNCHANGED <<direction, sent, sending, peer>>

\* One turn of the loop of recv_all, and what follows the last one.
recv_all ==
  /\ status = "open"
  /\ \E n \in 1..(Wanted - Len(got)) :
       /\ n <= Len(wire)
       /\ wire' = SubSeq(wire, n + 1, Len(wire))
       /\ LET g == got \o SubSeq(wire, 1, n)
          IN  \/ /\ Len(g) < Wanted
                 /\ got' = g /\ UNCHANGED <<plen, received, status>>
              \/ Len(g) = Wanted /\ plen = 0 /\ HeaderRead(g)
              \/ Len(g) = Wanted /\ plen > 0 /\ Deliver(g)
  /\ UNCHANGED <<direction, sent, sending, peer>>

\* recv returns zero: nothing is left and nothing will come.
RecvEnds ==
  /\ status = "open" /\ ~peer /\ wire = <<>>
  /\ status' = "ended"
  /\ UNCHANGED <<direction, sent, sending, wire, peer, plen, got, received>>

Next == send_frame \/ send_all \/ SendFails \/ PeerGone \/ recv_all \/ RecvEnds

(***************************************************************************)
(* The loops of send_all and recv_all go on as long as the socket lets     *)
(* them, and the socket takes and gives what it can.                       *)
(***************************************************************************)
Spec == Init /\ [][Next]_vars /\ WF_vars(send_all) /\ WF_vars(recv_all \/ RecvEnds)

-----------------------------------------------------------------------------
(***************************************************************************)
(* Properties.                                                             *)
(***************************************************************************)
\* What the receiver should make of a frame: the message of the sender, up to
\* what the encoding does not carry, if nothing of it is missing and no string
\* of it is too long.
Reading(f) ==
  LET m == f.message
  IN  IF IsRequest(m)
      THEN IF f.missing > 0 \/ Len(m.name) > MaxString THEN Malformed
           ELSE [m EXCEPT !.at = SentTime(m.at)]
      ELSE IF f.missing > 0 \/ Len(m.message) > MaxString THEN Malformed ELSE m

Acceptable(f) == f.version = kProtocolVersion /\ Len(Payload(f)) <= kMaxFrameSize

Queue == INSTANCE MessageQueue
           WITH delivered <- [i \in 1..Len(received) |-> Decode(received[i])]

\* However the stream is cut into sends and receives, and wherever it breaks
\* off, the receiver decodes the messages of the sender: each once, in their
\* order, none from a part of a frame, and none spoilt by a malformed message
\* in front of it ("Never assume one recv == one frame", frame.hpp).
ImplementsQueue == Queue!QueueSpec

\* recv_frame refuses a frame only for what its sender put in it, a version
\* or a size; it never mistakes payload for a header.
RefusedForCause ==
  status = "refused" => ~Acceptable(sent[Len(received) + 1])

\* Nothing that recv_frame should refuse gets through.
OnlyAcceptable == \A i \in 1..Len(received) : Acceptable(sent[i])

\* As long as both ends keep the connection, every frame sent is decoded.
EveryFrameRead ==
  \A i \in 1..MaxFrames :
    Len(sent) >= i ~> Len(received) >= i \/ ~peer \/ status = "refused"
===============================================================================
