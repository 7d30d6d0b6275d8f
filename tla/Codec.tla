------------------------------- MODULE Codec --------------------------------
(***************************************************************************)
(* common/protocol/Codec.h and the codec of web_gateway/src/ImProtocol.ts: *)
(* a frame is a length, most significant byte first, and a body of that    *)
(* many bytes.  Protobuf is external: an envelope has a serialization, and *)
(* a body that is none does not parse.                                     *)
(***************************************************************************)
EXTENDS Naturals, SequencesExt

CONSTANTS
  Base,               \* number of values of a byte
  kHeaderLength, max_frame_length,
  Envelope,
  SerializeToString   \* envelope -> the bytes of its body

Byte == 0..(Base - 1)

\* The length is cut to the width of the header (uint32_t).
Header(n) == [i \in 1..kHeaderLength |-> (n \div Base^(kHeaderLength - i)) % Base]

Encode(envelope) ==
  LET body == SerializeToString[envelope] IN Header(Len(body)) \o body

BodyLength(data, offset) ==
  LET digits[i \in 0..kHeaderLength] ==
        IF i = 0 THEN 0 ELSE Base * digits[i - 1] + data[offset + i]
  IN  digits[kHeaderLength]

Body(data, offset) ==
  SubSeq(data, offset + kHeaderLength + 1, offset + kHeaderLength + BodyLength(data, offset))

Parses(body) == \E e \in Envelope : SerializeToString[e] = body

ParseFromArray(body) == CHOOSE e \in Envelope : SerializeToString[e] = body

\* A slip of FrameAt: a body of the greatest length is refused.
FrameAt_LimitExcluded(data, offset) ==
  LET remaining_bytes == Len(data) - offset
      body_length == BodyLength(data, offset)
  IN  IF remaining_bytes < kHeaderLength THEN "kNeedMoreData"
      ELSE IF body_length = 0 \/ body_length >= max_frame_length THEN "kInvalidLength"
      ELSE IF remaining_bytes < kHeaderLength + body_length THEN "kNeedMoreData"
      ELSE IF ~Parses(Body(data, offset)) THEN "kParseError"
      ELSE "kOk"

\* What the loop finds at an offset before the end of the data.
FrameAt(data, offset) ==
  LET remaining_bytes == Len(data) - offset
      body_length == BodyLength(data, offset)
  IN  IF remaining_bytes < kHeaderLength THEN "kNeedMoreData"
      ELSE IF body_length = 0 \/ body_length > max_frame_length THEN "kInvalidLength"
      ELSE IF remaining_bytes < kHeaderLength + body_length THEN "kNeedMoreData"
      ELSE IF ~Parses(Body(data, offset)) THEN "kParseError"
      ELSE "kOk"

Result(status, envelopes, offset) ==
  [status |-> status, envelopes |-> envelopes, consumed_bytes |-> offset]

\* A slip of DecodeAll: one envelope per call.
DecodeAll_First(data) ==
  IF data = <<>> THEN Result("kOk", <<>>, 0)
  ELSE IF FrameAt(data, 0) # "kOk" THEN Result(FrameAt(data, 0), <<>>, 0)
  ELSE Result("kOk", <<ParseFromArray(Body(data, 0))>>, kHeaderLength + BodyLength(data, 0))

\* from[offset] is what the loop returns when it has come to this offset, the
\* envelopes it has decoded before left out.
DecodeAll(data) ==
  LET from[offset \in 0..Len(data)] ==
        IF offset = Len(data) THEN Result("kOk", <<>>, offset)
        ELSE IF FrameAt(data, offset) # "kOk" THEN Result(FrameAt(data, offset), <<>>, offset)
        ELSE LET rest == from[offset + kHeaderLength + BodyLength(data, offset)]
             IN  [rest EXCEPT !.envelopes = <<ParseFromArray(Body(data, offset))>> \o @]
  IN  from[0]

Invalid(result) == result.status \in {"kInvalidLength", "kParseError"}

\* The gateway's decoder: its loop and its checks are the same, but it throws
\* on an invalid frame and what it has decoded is lost.
decode(buffer) ==
  LET result == DecodeAll(buffer)
  IN  IF Invalid(result) THEN [error |-> TRUE, envelopes |-> <<>>, rest |-> buffer]
      ELSE [error |-> FALSE, envelopes |-> result.envelopes,
            rest |-> SubSeq(buffer, result.consumed_bytes + 1, Len(buffer))]

-----------------------------------------------------------------------------
(* What a decoder should return, said by the format alone. *)

Stream(envelopes) == FlattenSeq([i \in DOMAIN envelopes |-> Encode(envelopes[i])])

Sendable == {e \in Envelope : Len(SerializeToString[e]) \in 1..max_frame_length}

\* Data is the longest stream of envelopes that it begins with, and a rest.
Reference(data) ==
  LET begins == {es \in SeqOf(Sendable, Len(data) \div (kHeaderLength + 1)) :
                   IsPrefix(Stream(es), data)}
      es     == CHOOSE x \in begins : \A y \in begins : Len(y) <= Len(x)
      rest   == SubSeq(data, Len(Stream(es)) + 1, Len(data))
      ofLength == {n \in 1..max_frame_length : IsPrefix(Header(n), rest)}
      status == CASE rest = <<>> -> "kOk"
                  [] Len(rest) \in 1..(kHeaderLength - 1) -> "kNeedMoreData"
                  [] Len(rest) >= kHeaderLength /\ ofLength = {} -> "kInvalidLength"
                  [] \E n \in ofLength : Len(rest) < kHeaderLength + n -> "kNeedMoreData"
                  [] \E n \in ofLength : Len(rest) >= kHeaderLength + n -> "kParseError"
  IN  Result(status, es, Len(Stream(es)))

=============================================================================
