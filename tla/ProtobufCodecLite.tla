------------------------- MODULE ProtobufCodecLite -------------------------
(***************************************************************************)
(* master/net/protobuf/ProtobufCodecLite.cc: how a message is framed in a  *)
(* Buffer and how the next frame is taken out of one.  No raw callback is  *)
(* set, as RpcChannel builds its codec.                                    *)
(***************************************************************************)
EXTENDS Buffer

CONSTANTS
  tag_,               \* the bytes of "RPC0"
  kMaxMessageLen,
  AdlerBase           \* 65521

\* The header fits into the cheap prepend; a checksum is an int.
ASSUME CodecBounds ==
  /\ tag_ \in Seq(Nat) /\ kMaxMessageLen \in Nat
  /\ AdlerBase \in 1..ByteBase
  /\ IntLen >= 2 /\ kCheapPrepend >= IntLen

kHeaderLen == IntLen
kChecksumLen == IntLen
kMinMessageLen == Len(tag_) + kChecksumLen

\* Sums(first, f, n)[i] is first plus what f adds up to i.
Sums(first, f, n) ==
  LET S[i \in 0..n] == IF i = 0 THEN first ELSE S[i - 1] + f[i] IN S

\* adler32(): the sum of the bytes, and the sum of those sums.
checksum(bytes) ==
  LET n == Len(bytes)
      A == Sums(1, bytes, n)
      B == Sums(0, A, n)
  IN  (B[n] % AdlerBase) * ByteBase + (A[n] % AdlerBase)

\* The buffer that send() gives to the connection.
fillEmptyBuffer(payload) ==
  LET tagged     == append(NewBuffer(kInitialSize), tag_)
      serialized == append(ensureWritableBytes(tagged, Len(payload) + kChecksumLen), payload)
      summed     == appendInt32(serialized, checksum(Content(serialized)))
  IN  prependInt32(summed, readableBytes(summed))

validateChecksum(bytes) ==
  LET end == Len(bytes) - kChecksumLen
  IN  NetworkToHost(SubSeq(bytes, end + 1, Len(bytes))) = checksum(SubSeq(bytes, 1, end))

Payload(bytes) == SubSeq(bytes, Len(tag_) + 1, Len(bytes) - kChecksumLen)

\* messages are the payloads that the message type's ParseFromArray() takes.
parse(bytes, messages) ==
  IF ~validateChecksum(bytes) THEN "kCheckSumError"
  ELSE IF SubSeq(bytes, 1, Len(tag_)) # tag_ THEN "kUnknownMessageType"
  ELSE IF Payload(bytes) \in messages THEN "kNoError" ELSE "kParseError"

HeaderArrived(b) == readableBytes(b) >= kMinMessageLen + kHeaderLen

FrameArrived(b, len) == readableBytes(b) >= kHeaderLen + len

\* One turn of the loop of onMessage(): the loop ends with "wait" or an error.
NextFrame(b, messages) ==
  LET len   == peekInt32(b)
      frame == SubSeq(Content(b), kHeaderLen + 1, kHeaderLen + len)
  IN  IF ~HeaderArrived(b) THEN [code |-> "wait"]
      ELSE IF len > kMaxMessageLen \/ len < kMinMessageLen THEN [code |-> "kInvalidLength"]
      ELSE IF ~FrameArrived(b, len) THEN [code |-> "wait"]
      ELSE [code |-> parse(frame, messages), payload |-> Payload(frame),
            rest |-> retrieve(b, kHeaderLen + len)]
=============================================================================
