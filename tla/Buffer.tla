------------------------------- MODULE Buffer -------------------------------
(***************************************************************************)
(* master/net/Buffer.h and Buffer.cc: the operations of the network buffer *)
(* as operators on its three fields.  buffer_[i + 1] is the byte at index  *)
(* i of the vector; what lies outside readerIndex_..writerIndex_ is kept,  *)
(* since the operations move and overwrite it.  Where the code asserts a   *)
(* condition, the operator is used only under it.                          *)
(***************************************************************************)
EXTENDS Naturals, Sequences

CONSTANTS
  kCheapPrepend,   \* 8
  kInitialSize,    \* 1024
  ExtraBuf,        \* size of the second vector of readv(), 65536
  ByteBase,        \* 256: an int is IntLen digits of this base, high digit first
  IntLen           \* bytes of an int

ASSUME BufferBounds ==
  {kCheapPrepend, kInitialSize, ExtraBuf, IntLen} \subseteq Nat /\ ByteBase \in Nat \ {0}

Zeros(n) == [i \in 1..n |-> 0]

NewBuffer(initialSize) ==
  [buffer_ |-> Zeros(kCheapPrepend + initialSize),
   readerIndex_ |-> kCheapPrepend, writerIndex_ |-> kCheapPrepend]

readableBytes(b) == b.writerIndex_ - b.readerIndex_
writableBytes(b) == Len(b.buffer_) - b.writerIndex_
prependableBytes(b) == b.readerIndex_

\* The readable bytes, from peek() on.
Content(b) == SubSeq(b.buffer_, b.readerIndex_ + 1, b.writerIndex_)

\* std::copy() of data to index at; what lies beyond the vector is not its memory.
CopyTo(memory, at, data) ==
  SubSeq(SubSeq(memory, 1, at) \o data \o SubSeq(memory, at + Len(data) + 1, Len(memory)),
         1, Len(memory))

-----------------------------------------------------------------------------
retrieveAll(b) == [b EXCEPT !.readerIndex_ = kCheapPrepend, !.writerIndex_ = kCheapPrepend]

\* len <= readableBytes()
retrieve(b, len) ==
  IF len < readableBytes(b) THEN [b EXCEPT !.readerIndex_ = @ + len] ELSE retrieveAll(b)

\* Mutant of MoveFits: the cheap prepend is not kept free.
MoveFitsTight(b, len) == writableBytes(b) + prependableBytes(b) >= len

MoveFits(b, len) == writableBytes(b) + prependableBytes(b) >= len + kCheapPrepend

\* The vector grows, or the readable bytes move to the front.
makeSpace(b, len) ==
  IF ~MoveFits(b, len)
    THEN [b EXCEPT !.buffer_ = SubSeq(@, 1, b.writerIndex_) \o Zeros(len)]
    ELSE [buffer_ |-> CopyTo(b.buffer_, kCheapPrepend, Content(b)),
          readerIndex_ |-> kCheapPrepend,
          writerIndex_ |-> kCheapPrepend + readableBytes(b)]

ensureWritableBytes(b, len) == IF writableBytes(b) < len THEN makeSpace(b, len) ELSE b

hasWritten(b, len) == [b EXCEPT !.writerIndex_ = @ + len]

append(b, data) ==
  LET c == ensureWritableBytes(b, Len(data))
  IN  hasWritten([c EXCEPT !.buffer_ = CopyTo(@, c.writerIndex_, data)], Len(data))

\* len <= readableBytes()
unwrite(b, len) == [b EXCEPT !.writerIndex_ = @ - len]

\* Len(data) <= prependableBytes()
prepend(b, data) ==
  LET at == b.readerIndex_ - Len(data)
  IN  [b EXCEPT !.readerIndex_ = at, !.buffer_ = CopyTo(@, at, data)]

\* A new buffer that takes the content, and the place of b by swap().
shrink(b, reserve) ==
  append(ensureWritableBytes(NewBuffer(kInitialSize), readableBytes(b) + reserve), Content(b))

\* What one readFd() can take.
ReadLimit(b) == writableBytes(b) + (IF writableBytes(b) < ExtraBuf THEN ExtraBuf ELSE 0)

\* readv() has put data into the writable part and, when it overflows, into extrabuf.
readFd(b, data) ==
  LET room == writableBytes(b)
  IN  IF Len(data) <= room
        THEN hasWritten([b EXCEPT !.buffer_ = CopyTo(@, b.writerIndex_, data)], Len(data))
        ELSE append([b EXCEPT !.buffer_ = CopyTo(@, b.writerIndex_, SubSeq(data, 1, room)),
                              !.writerIndex_ = Len(b.buffer_)],
                    SubSeq(data, room + 1, Len(data)))

-----------------------------------------------------------------------------
(* Integers, in network byte order *)

\* Shifted(x)[k] is x without its k low digits, UpTo(bytes)[k] the number of the first k.
Shifted(x) ==
  LET f[k \in 0..IntLen] == IF k = 0 THEN x ELSE f[k - 1] \div ByteBase IN f
UpTo(bytes) ==
  LET f[k \in 0..IntLen] == IF k = 0 THEN 0 ELSE f[k - 1] * ByteBase + bytes[k] IN f

HostToNetwork(x) == [i \in 1..IntLen |-> Shifted(x)[IntLen - i] % ByteBase]
NetworkToHost(bytes) == UpTo(bytes)[IntLen]

appendInt32(b, x) == append(b, HostToNetwork(x))
prependInt32(b, x) == prepend(b, HostToNetwork(x))
peekInt32(b) == NetworkToHost(Content(b))
readInt32(b) == [value |-> peekInt32(b), rest |-> retrieve(b, IntLen)]

-----------------------------------------------------------------------------
(* Searching *)

CR == 13
LF == 10

\* The index of the first CRLF in the content; 0 stands for NULL.
findCRLF(b) ==
  LET s  == Content(b)
      at == {i \in 1..(Len(s) - 1) : s[i] = CR /\ s[i + 1] = LF}
  IN  IF at = {} THEN 0 ELSE CHOOSE i \in at : \A j \in at : i <= j
=============================================================================
