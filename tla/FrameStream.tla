---------------------------- MODULE FrameStream -----------------------------
(***************************************************************************)
(* One direction of a TCP connection.  Threads write frames under a mutex  *)
(* (Client::sendAll; muduo and Node take a whole frame at once, which is   *)
(* the case of a single piece).  TCP keeps the bytes in order and delivers *)
(* them in pieces of any size to one of the three readers: the server's    *)
(* ChatServer::onMessage, the client's receiverLoop, the gateway's         *)
(* ImClient.handleData.  What a reader does with an envelope is modelled   *)
(* elsewhere; here it joins `handled'.                                     *)
(***************************************************************************)
EXTENDS Codec

CONSTANTS
  Thread,     \* threads that write
  Stray,      \* frames that no Encode made (tests/codec_test.cpp sends such)
  MaxFrames,  \* bound on frames written
  MaxNext     \* bound on the bytes of which DecodeIsRight says that they come next

ASSUME StreamAssumption ==
  /\ {Base, kHeaderLength, max_frame_length, MaxFrames, MaxNext} \subseteq Nat
  /\ SerializeToString \in [Envelope -> Seq(Byte)]
  /\ Stray \subseteq Seq(Byte)

VARIABLES
  reader,        \* who reads: "ChatServer", "Client" or "ImClient"
  send_mutex,    \* threads inside sendAll's critical section
  frame,         \* thread -> bytes of its frame that are still to be written
  wire,          \* bytes on their way
  recv_buffer,
  link,          \* "up", "failed" by the reader, or "gone"
  sent,          \* what the frames hold, in the order of the mutex (history)
  handled

vars == <<reader, send_mutex, frame, wire, recv_buffer, link, sent, handled>>

Item == Envelope \cup Stray

FrameOf(x) == IF x \in Stray THEN x ELSE Encode(x)

\* onConnection made a session with an empty buffer.
Init ==
  /\ reader \in {"ChatServer", "Client", "ImClient"}
  /\ send_mutex = {} /\ frame = [t \in Thread |-> <<>>]
  /\ wire = <<>> /\ recv_buffer = <<>> /\ link = "up"
  /\ sent = <<>> /\ handled = <<>>

-----------------------------------------------------------------------------
(* Client::sendAll *)

\* A slip of MayLock: the mutex covers one send() and not the frame.
MayLock_PerSend(t) == frame[t] = <<>>

MayLock(t) == send_mutex = {}

SendBegins(t, x) ==
  /\ frame[t] = <<>> /\ MayLock(t) /\ Len(sent) < MaxFrames
  /\ send_mutex' = send_mutex \cup {t}
  /\ frame' = [frame EXCEPT ![t] = FrameOf(x)]
  /\ sent' = Append(sent, x)
  /\ UNCHANGED <<reader, wire, recv_buffer, link, handled>>

\* send() takes any part of what is left.  After the connection is gone it
\* fails, and the rest of the frame is given up.
SendPiece(t) ==
  /\ t \in send_mutex
  /\ \/ \E n \in 1..Len(frame[t]) :
          /\ link # "gone"
          /\ wire' = wire \o SubSeq(frame[t], 1, n)
          /\ frame' = [frame EXCEPT ![t] = SubSeq(@, n + 1, Len(@))]
     \/ link = "gone" /\ frame' = [frame EXCEPT ![t] = <<>>] /\ UNCHANGED wire
  /\ send_mutex' = IF frame'[t] = <<>> THEN send_mutex \ {t} ELSE send_mutex
  /\ UNCHANGED <<reader, recv_buffer, link, sent, handled>>

-----------------------------------------------------------------------------
(* The readers.  Each appends the piece to its buffer and decodes. *)

\* A slip of Unconsumed: what was decoded stays in the buffer.
Unconsumed_All(data, result) == data

Unconsumed(data, result) == SubSeq(data, result.consumed_bytes + 1, Len(data))

\* An invalid frame stays at the front of the buffer: shutdown() ends only the
\* server's own sending, and whatever still arrives fails to decode again.
onMessage(data) ==
  LET result == DecodeAll(data)
  IN  /\ reader = "ChatServer" /\ link \in {"up", "failed"}
      /\ recv_buffer' = Unconsumed(data, result)
      /\ \/ Invalid(result) /\ link' = "failed" /\ UNCHANGED handled
         \/ ~Invalid(result) /\ handled' = handled \o result.envelopes /\ UNCHANGED link

\* The client handles what it decoded before it looks at the status.
receiverLoop(data) ==
  LET result == DecodeAll(data)
  IN  /\ reader = "Client" /\ link = "up"
      /\ recv_buffer' = Unconsumed(data, result)
      /\ handled' = handled \o result.envelopes
      /\ link' = IF Invalid(result) THEN "failed" ELSE link

handleData(buffer) ==
  LET decoded == decode(buffer)
  IN  /\ reader = "ImClient" /\ link = "up"
      /\ recv_buffer' = decoded.rest
      /\ handled' = handled \o decoded.envelopes
      /\ link' = IF decoded.error THEN "failed" ELSE link

Receive ==
  /\ \E n \in 1..Len(wire) :
       LET data == recv_buffer \o SubSeq(wire, 1, n)
       IN  /\ wire' = SubSeq(wire, n + 1, Len(wire))
           /\ onMessage(data) \/ receiverLoop(data) \/ handleData(data)
  /\ UNCHANGED <<reader, send_mutex, frame, sent>>

\* The connection ends; onConnection drops the session with its buffer.
Disconnect ==
  /\ link # "gone"
  /\ link' = "gone"
  /\ wire' = <<>> /\ recv_buffer' = <<>>
  /\ UNCHANGED <<reader, send_mutex, frame, sent, handled>>

Next ==
  \/ \E t \in Thread : SendPiece(t) \/ \E x \in Item : SendBegins(t, x)
  \/ Receive \/ Disconnect

Spec == Init /\ [][Next]_vars

\* A thread in sendAll goes on, and bytes that were sent arrive.
FairSpec == Spec /\ WF_vars(Receive) /\ \A t \in Thread : WF_vars(SendPiece(t))

-----------------------------------------------------------------------------
\* Whatever bytes follow what was sent, DecodeAll returns what the format says:
\* it stops only where the data cannot be read further, with the right status,
\* and counts as consumed exactly the frames it returns.
DecodeIsRight ==
  wire = <<>> /\ send_mutex = {} => \A next \in SeqOf(Byte, MaxNext) :
    DecodeAll(recv_buffer \o next) = Reference(recv_buffer \o next)

\* However threads and TCP cut the stream, and whichever program reads it, the
\* envelopes come out in the order they went in, none twice, none missing in
\* between, and nothing is handled after an invalid frame.
Channel == INSTANCE EnvelopeChannel WITH broken <- link # "up"
ImplementsChannel == Channel!Spec

\* A connection's buffer holds less than one frame: no reader lets complete
\* frames pile up, nor waits for a frame that it would refuse.
BufferBounded == link = "up" => Len(recv_buffer) < kHeaderLength + max_frame_length

\* An envelope is handled at the latest when the frames before it are, unless
\* the connection ends or one of those before it is invalid.  The client also
\* handles what comes in one piece with an invalid frame; the server and the
\* gateway give that up.
SentIsHandled ==
  \A i \in 1..MaxFrames :
    (Len(sent) >= i /\ \A j \in 1..i : sent[j] \in Sendable)
      ~> \/ Len(handled) >= i
         \/ link = "gone"
         \/ link = "failed" /\ reader # "Client"

=============================================================================
