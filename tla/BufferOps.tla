----------------------------- MODULE BufferOps -----------------------------
(***************************************************************************)
(* A Buffer used through all its operations, beside the byte sequence that *)
(* it stands for.                                                          *)
(***************************************************************************)
EXTENDS Buffer

CONSTANTS
  MaxContent,    \* bound on the bytes in the buffer
  Lengths,       \* the lengths written and retrieved
  MaxOps         \* bound on the operations

ASSUME BufferOpsBounds == Lengths \subseteq Nat /\ {MaxContent, MaxOps} \subseteq Nat

VARIABLES
  buf,
  content,       \* the bytes appended, prepended and read, minus those retrieved
  got,           \* what the last readInt32() or retrieveAsString() returned, and what it should
  bufCalls       \* operations so far; the bytes that one writes carry its number

bufVars == <<buf, content, got, bufCalls>>

BufInit == buf = NewBuffer(kInitialSize) /\ content = <<>> /\ got = <<<<>>, <<>>>> /\ bufCalls = 0

\* n bytes of this operation
Fresh(n) == [i \in 1..n |-> (bufCalls * 2 + i) % ByteBase]
Rest(s, n) == SubSeq(s, n + 1, Len(s))

BufAppend(n) ==
  /\ Len(content) + n <= MaxContent
  /\ buf' = append(buf, Fresh(n)) /\ content' = content \o Fresh(n)
  /\ UNCHANGED got

BufAppendInt(x) ==
  /\ Len(content) + IntLen <= MaxContent
  /\ buf' = appendInt32(buf, x) /\ content' = content \o HostToNetwork(x)
  /\ UNCHANGED got

BufReadFd(n) ==
  /\ Len(content) + n <= MaxContent /\ n <= ReadLimit(buf)
  /\ buf' = readFd(buf, Fresh(n)) /\ content' = content \o Fresh(n)
  /\ UNCHANGED got

BufPrepend(x) ==
  /\ Len(content) + IntLen <= MaxContent /\ IntLen <= prependableBytes(buf)
  /\ buf' = prependInt32(buf, x) /\ content' = HostToNetwork(x) \o content
  /\ UNCHANGED got

\* retrieve(), and what a retrieveAsString() of the same length returns
BufRetrieve(n) ==
  /\ n <= readableBytes(buf)
  /\ buf' = retrieve(buf, n) /\ content' = Rest(content, n)
  /\ got' = <<SubSeq(Content(buf), 1, n), SubSeq(content, 1, n)>>

BufReadInt ==
  /\ readableBytes(buf) >= IntLen
  /\ buf' = readInt32(buf).rest /\ content' = Rest(content, IntLen)
  /\ got' = <<HostToNetwork(readInt32(buf).value), SubSeq(content, 1, IntLen)>>

BufUnwrite(n) ==
  /\ n <= readableBytes(buf)
  /\ buf' = unwrite(buf, n) /\ content' = SubSeq(content, 1, Len(content) - n)
  /\ UNCHANGED got

BufShrink(reserve) ==
  /\ buf' = shrink(buf, reserve)
  /\ UNCHANGED <<content, got>>

BufNext ==
  /\ bufCalls < MaxOps /\ bufCalls' = bufCalls + 1
  /\ \/ \E n \in Lengths : BufAppend(n) \/ BufReadFd(n) \/ BufRetrieve(n) \/ BufUnwrite(n)
     \/ \E x \in {1, ByteBase + 1} : BufAppendInt(x) \/ BufPrepend(x)
     \/ BufReadInt
     \/ \E reserve \in {0, 2} : BufShrink(reserve)

BufSpec == BufInit /\ [][BufNext]_bufVars

\* The readable bytes are what was written and not yet retrieved, in order, however the
\* vector grew, was compacted or exchanged in between.
BufferKeepsContent ==
  /\ buf.writerIndex_ <= Len(buf.buffer_)
  /\ Content(buf) = content
  /\ got[1] = got[2]
=============================================================================
