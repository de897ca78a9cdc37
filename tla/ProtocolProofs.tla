--------------------------- MODULE ProtocolProofs ---------------------------
(***************************************************************************)
(* What TLAPS proves of the buffer and of the two protocols read from one, *)
(* each of its own specification and for every value of its constants.     *)
(*                                                                         *)
(* Buffer: readerIndex_ and writerIndex_ stay in order and in the vector,  *)
(* which keeps what each operation does to the content: makeSpace() moves  *)
(* it, readFd() continues it past the end of the vector, and the integers  *)
(* are digits whose number a recursion computes.                           *)
(*                                                                         *)
(* RpcChannel: what is on the wire and in the buffer of a side is, put     *)
(* together, the frames of the messages sent to it and not yet dispatched, *)
(* until a stranger's bytes stand in front and the connection is given up. *)
(* Each message is honest, and each id is that of one call.                *)
(*                                                                         *)
(* Http: buffer and wire, put together, are the lines of the requests      *)
(* behind the one that is parsed, so that the line in front of the buffer  *)
(* is the next one of its request however the bytes were cut.  A request   *)
(* that is not well formed breaks this for good, and the property then     *)
(* promises nothing any more.                                              *)
(*                                                                         *)
(* What a recursive function computes is proved from the least number at   *)
(* which a claim could fail (Climb), and that the function exists at all   *)
(* from the same argument (Recursion).                                     *)
(***************************************************************************)
EXTENDS BufferOps, RpcChannel, Http, SequenceTheorems, FiniteSetTheorems, NaturalsInduction,
        WellFoundedInduction, TLAPS

-----------------------------------------------------------------------------
(* Sequences of bytes *)

Bytes == Seq(Nat)

\* Two sequences with the same elements are equal.
LEMMA SameBytes ==
  ASSUME NEW s \in Bytes, NEW t \in Bytes, Len(s) = Len(t), \A i \in 1..Len(s) : s[i] = t[i]
  PROVE  s = t
BY SeqEqual, Zenon DEF Bytes

\* The part of s behind its first m bytes and up to its first n.
LEMMA Slice ==
  ASSUME NEW s \in Bytes, NEW m \in Nat, NEW n \in Nat, m <= n, n <= Len(s)
  PROVE  /\ SubSeq(s, m + 1, n) \in Bytes /\ Len(SubSeq(s, m + 1, n)) = n - m
         /\ \A i \in 1..(n - m) : SubSeq(s, m + 1, n)[i] = s[m + i]
<1>1. Len(s) \in Nat /\ \A i \in (m + 1)..n : s[i] \in Nat
  BY LenProperties DEF Bytes
<1>2. m + 1 \in Int /\ n \in Int
  OBVIOUS
<1> DEFINE t == SubSeq(s, m + 1, n)
           a == m + 1
<1>3. /\ SubSeq(s, a, n) \in Seq(Nat) /\ Len(SubSeq(s, a, n)) = IF a <= n THEN n - a + 1 ELSE 0
      /\ \A i \in 1..(n - a + 1) : SubSeq(s, a, n)[i] = s[a + i - 1]
  <2> HIDE DEF a
  <2>1. \A i \in a..n : s[i] \in Nat
    BY <1>1 DEF a
  <2> QED
    BY <1>2, <2>1, SubSeqProperties DEF a
<1> HIDE DEF t
<1>4. Len(t) = n - m
  BY <1>3 DEF t
<1>5. \A i \in 1..(n - m) : t[i] = s[m + i]
  <2>1. ASSUME NEW i \in 1..(n - m) PROVE t[i] = s[m + i]
    <3>1. i \in 1..(n - a + 1) /\ a + i - 1 = m + i
      OBVIOUS
    <3> QED
      BY <1>3, <3>1 DEF t
  <2> QED
    BY <2>1
<1> QED
  BY <1>3, <1>4, <1>5 DEF t, Bytes

\* The first n bytes of s.
LEMMA FirstBytes ==
  ASSUME NEW s \in Bytes, NEW n \in Nat, n <= Len(s)
  PROVE  /\ SubSeq(s, 1, n) \in Bytes /\ Len(SubSeq(s, 1, n)) = n
         /\ \A i \in 1..n : SubSeq(s, 1, n)[i] = s[i]
<1>1. /\ SubSeq(s, 0 + 1, n) \in Bytes /\ Len(SubSeq(s, 0 + 1, n)) = n - 0
      /\ \A i \in 1..(n - 0) : SubSeq(s, 0 + 1, n)[i] = s[0 + i]
  <2>1. 0 \in Nat /\ 0 <= n
    OBVIOUS
  <2> QED
    BY <2>1, Slice
<1>2. 0 + 1 = 1 /\ n - 0 = n /\ \A i \in 1..n : 0 + i = i
  OBVIOUS
<1> QED
  BY <1>1, <1>2

\* s followed by t.
LEMMA Joined ==
  ASSUME NEW s \in Bytes, NEW t \in Bytes
  PROVE  /\ s \o t \in Bytes /\ Len(s \o t) = Len(s) + Len(t)
         /\ Len(s) \in Nat /\ Len(t) \in Nat
         /\ \A i \in 1..Len(s) : (s \o t)[i] = s[i]
         /\ \A i \in 1..Len(t) : (s \o t)[Len(s) + i] = t[i]
<1>1. Len(s) \in Nat /\ Len(t) \in Nat
  BY LenProperties DEF Bytes
<1>2. /\ s \o t \in Seq(Nat) /\ Len(s \o t) = Len(s) + Len(t)
      /\ \A i \in 1..(Len(s) + Len(t)) : (s \o t)[i] = IF i <= Len(s) THEN s[i] ELSE t[i - Len(s)]
  BY ConcatProperties DEF Bytes
<1>3. \A i \in 1..Len(s) : (s \o t)[i] = s[i]
  BY <1>1, <1>2
<1>4. ASSUME NEW i \in 1..Len(t) PROVE (s \o t)[Len(s) + i] = t[i]
  <2>1. Len(s) + i \in 1..(Len(s) + Len(t)) /\ ~(Len(s) + i <= Len(s)) /\ (Len(s) + i) - Len(s) = i
    BY <1>1
  <2> QED
    BY <1>2, <2>1
<1> QED
  BY <1>1, <1>2, <1>3, <1>4 DEF Bytes

\* Three sequences in a row.
LEMMA InARow ==
  ASSUME NEW s \in Bytes, NEW t \in Bytes, NEW u \in Bytes
  PROVE  (s \o t) \o u = s \o (t \o u)
BY ConcatAssociative, SMTT(20) DEF Bytes

\* std::copy() within the vector.
LEMMA Copied ==
  ASSUME NEW memory \in Bytes, NEW data \in Bytes, NEW at \in Nat, at + Len(data) <= Len(memory)
  PROVE  LET m == CopyTo(memory, at, data)
         IN  /\ m \in Bytes /\ Len(m) = Len(memory)
             /\ \A i \in 1..at : m[i] = memory[i]
             /\ \A i \in 1..Len(data) : m[at + i] = data[i]
             /\ \A i \in 1..Len(memory) : i > at + Len(data) => m[i] = memory[i]
<1> DEFINE d == Len(data)
           n == Len(memory)
           a == SubSeq(memory, 1, at)
           c == SubSeq(memory, at + d + 1, n)
           ad == a \o data
           adc == ad \o c
<1>1. d \in Nat /\ n \in Nat
  BY LenProperties DEF Bytes
<1>2. a \in Bytes /\ Len(a) = at /\ \A i \in 1..at : a[i] = memory[i]
  <2>1. at <= n
    BY <1>1
  <2> HIDE DEF n
  <2> QED
    BY <2>1, FirstBytes DEF n
<1>3. c \in Bytes /\ Len(c) = n - (at + d) /\ \A i \in 1..(n - (at + d)) : c[i] = memory[(at + d) + i]
  <2> DEFINE k == at + d
  <2>1. k \in Nat /\ k <= n /\ n <= Len(memory)
    BY <1>1
  <2>2. c = SubSeq(memory, k + 1, n)
    OBVIOUS
  <2> HIDE DEF d, c, n, k
  <2>3. c \in Bytes /\ Len(c) = n - k /\ \A i \in 1..(n - k) : c[i] = memory[k + i]
    BY <1>1, <2>1, <2>2, Slice
  <2> QED
    BY <2>3 DEF k
<1> HIDE DEF a, c
<1>4. /\ ad \in Bytes /\ Len(ad) = at + d /\ \A i \in 1..at : ad[i] = a[i]
      /\ \A i \in 1..d : ad[at + i] = data[i]
  BY <1>2, Joined
<1> HIDE DEF ad
<1>5. /\ adc \in Bytes /\ Len(adc) = (at + d) + (n - (at + d)) /\ \A i \in 1..(at + d) : adc[i] = ad[i]
      /\ \A i \in 1..Len(c) : adc[(at + d) + i] = c[i]
  <2>1. /\ adc \in Bytes /\ Len(adc) = Len(ad) + Len(c) /\ \A i \in 1..Len(ad) : adc[i] = ad[i]
        /\ \A i \in 1..Len(c) : adc[Len(ad) + i] = c[i]
    BY <1>3, <1>4, Joined
  <2> HIDE DEF adc, n, d
  <2> QED
    BY <1>3, <1>4, <2>1
<1>6. Len(adc) = n
  BY <1>1, <1>5
<1> DEFINE m == SubSeq(adc, 1, n)
<1> HIDE DEF adc, n, d
<1>7. m \in Bytes /\ Len(m) = n /\ \A i \in 1..n : m[i] = adc[i]
  BY <1>1, <1>5, <1>6, FirstBytes
<1> HIDE DEF m
<1>8. \A i \in 1..at : m[i] = memory[i]
  <2>1. ASSUME NEW i \in 1..at PROVE m[i] = memory[i]
    <3>1. i \in 1..n /\ i \in 1..(at + d)
      BY <1>1 DEF n, d
    <3> QED
      BY <1>2, <1>4, <1>5, <1>7, <3>1
  <2> QED
    BY <2>1
<1>9. \A i \in 1..d : m[at + i] = data[i]
  <2>1. ASSUME NEW i \in 1..d PROVE m[at + i] = data[i]
    <3>1. at + i \in 1..n /\ at + i \in 1..(at + d)
      BY <1>1 DEF n, d
    <3> QED
      BY <1>4, <1>5, <1>7, <3>1
  <2> QED
    BY <2>1
<1>11. \A i \in 1..n : i > at + d => m[i] = memory[i]
  <2>1. ASSUME NEW i \in 1..n, i > at + d PROVE m[i] = memory[i]
    <3> DEFINE j == i - (at + d)
    <3>1. j \in 1..(n - (at + d)) /\ (at + d) + j = i
      BY <1>1, <2>1 DEF n, d
    <3>2. j \in 1..Len(c)
      BY <1>3, <3>1
    <3> HIDE DEF j
    <3> QED
      BY <1>3, <1>5, <1>7, <2>1, <3>1, <3>2
  <2> QED
    BY <2>1
<1>10. CopyTo(memory, at, data) = m
  BY DEF CopyTo, m, adc, ad, a, c, n, d
<1> QED
  BY <1>7, <1>8, <1>9, <1>10, <1>11 DEF n, d

-----------------------------------------------------------------------------
(* Buffer *)

Buffers == [buffer_ : Bytes, readerIndex_ : Nat, writerIndex_ : Nat]

\* 0 <= readerIndex_ <= writerIndex_ <= size, as the class comment draws it, and the vector
\* does not shrink below the prepended part.
BufferOK(b) ==
  /\ b \in Buffers
  /\ b.readerIndex_ <= b.writerIndex_ /\ b.writerIndex_ <= Len(b.buffer_)
  /\ kCheapPrepend <= Len(b.buffer_)

\* The readable bytes, one by one.
LEMMA ContentIs ==
  ASSUME NEW b, BufferOK(b)
  PROVE  /\ Content(b) \in Bytes /\ Len(Content(b)) = readableBytes(b)
         /\ readableBytes(b) \in Nat /\ writableBytes(b) \in Nat /\ Len(b.buffer_) \in Nat
         /\ b.writerIndex_ = b.readerIndex_ + readableBytes(b)
         /\ b.writerIndex_ + writableBytes(b) = Len(b.buffer_)
         /\ \A i \in 1..readableBytes(b) : Content(b)[i] = b.buffer_[b.readerIndex_ + i]
<1> DEFINE r == b.readerIndex_
           w == b.writerIndex_
           v == b.buffer_
<1>1. r \in Nat /\ w \in Nat /\ v \in Bytes /\ r <= w /\ w <= Len(v)
  BY DEF BufferOK, Buffers
<1>2. Len(v) \in Nat
  BY <1>1, LenProperties DEF Bytes
<1>3. Content(b) = SubSeq(v, r + 1, w) /\ readableBytes(b) = w - r /\ writableBytes(b) = Len(v) - w
  BY DEF Content, readableBytes, writableBytes
<1> HIDE DEF r, w, v
<1>4. /\ Content(b) \in Bytes /\ Len(Content(b)) = w - r
      /\ \A i \in 1..(w - r) : Content(b)[i] = v[r + i]
  BY <1>1, <1>3, Slice, SMTT(20)
<1>5. w - r \in Nat /\ Len(v) - w \in Nat /\ w = r + (w - r) /\ w + (Len(v) - w) = Len(v)
  BY <1>1, <1>2
<1> QED
  BY <1>2, <1>3, <1>4, <1>5 DEF r, w, v

\* A buffer that has s from readerIndex_ on.
LEMMA HasContent ==
  ASSUME NEW v \in Bytes, NEW r \in Nat, NEW w \in Nat, NEW s \in Bytes, w = r + Len(s), w <= Len(v),
         kCheapPrepend <= Len(v), \A i \in 1..Len(s) : v[r + i] = s[i]
  PROVE  LET b == [buffer_ |-> v, readerIndex_ |-> r, writerIndex_ |-> w]
         IN  BufferOK(b) /\ Content(b) = s
<1> DEFINE b == [buffer_ |-> v, readerIndex_ |-> r, writerIndex_ |-> w]
<1>1. Len(s) \in Nat
  BY LenProperties DEF Bytes
<1>2. b \in Buffers /\ b.buffer_ = v /\ b.readerIndex_ = r /\ b.writerIndex_ = w
  BY DEF Buffers
<1> HIDE DEF b
<1>3. BufferOK(b)
  BY <1>1, <1>2 DEF BufferOK
<1>4. readableBytes(b) = Len(s)
  BY <1>1, <1>2 DEF readableBytes
<1>5. /\ Content(b) \in Bytes /\ Len(Content(b)) = Len(s)
      /\ \A i \in 1..Len(s) : Content(b)[i] = v[r + i]
  BY <1>2, <1>3, <1>4, ContentIs
<1>6. Content(b) = s
  BY <1>5, SameBytes
<1> QED
  BY <1>3, <1>6 DEF b

\* A buffer as the record of its fields.
LEMMA BufferRecord ==
  ASSUME NEW b \in Buffers, NEW v, NEW r, NEW w
  PROVE  /\ [b EXCEPT !.buffer_ = v]
              = [buffer_ |-> v, readerIndex_ |-> b.readerIndex_, writerIndex_ |-> b.writerIndex_]
         /\ [b EXCEPT !.readerIndex_ = r]
              = [buffer_ |-> b.buffer_, readerIndex_ |-> r, writerIndex_ |-> b.writerIndex_]
         /\ [b EXCEPT !.writerIndex_ = w]
              = [buffer_ |-> b.buffer_, readerIndex_ |-> b.readerIndex_, writerIndex_ |-> w]
         /\ [b EXCEPT !.readerIndex_ = r, !.writerIndex_ = w]
              = [buffer_ |-> b.buffer_, readerIndex_ |-> r, writerIndex_ |-> w]
         /\ [b EXCEPT !.readerIndex_ = r, !.buffer_ = v]
              = [buffer_ |-> v, readerIndex_ |-> r, writerIndex_ |-> b.writerIndex_]
         /\ [b EXCEPT !.buffer_ = v, !.writerIndex_ = w]
              = [buffer_ |-> v, readerIndex_ |-> b.readerIndex_, writerIndex_ |-> w]
<1>1. b = [buffer_ |-> b.buffer_, readerIndex_ |-> b.readerIndex_, writerIndex_ |-> b.writerIndex_]
  BY DEF Buffers
<1> DEFINE x == b.buffer_
           y == b.readerIndex_
           z == b.writerIndex_
           F == {"buffer_", "readerIndex_", "writerIndex_"}
<1>0. DOMAIN b = F
  BY DEF Buffers
<1>2. b = [buffer_ |-> x, readerIndex_ |-> y, writerIndex_ |-> z]
  BY <1>1
<1>3. /\ [b EXCEPT !.buffer_ = v] = [buffer_ |-> v, readerIndex_ |-> y, writerIndex_ |-> z]
      /\ [b EXCEPT !.readerIndex_ = r] = [buffer_ |-> x, readerIndex_ |-> r, writerIndex_ |-> z]
      /\ [b EXCEPT !.writerIndex_ = w] = [buffer_ |-> x, readerIndex_ |-> y, writerIndex_ |-> w]
  <2> HIDE DEF x, y, z
  <2> QED
    BY <1>2
<1>4. [b EXCEPT !.readerIndex_ = r, !.writerIndex_ = w]
        = [buffer_ |-> x, readerIndex_ |-> r, writerIndex_ |-> w]
  <2> DEFINE g == [b EXCEPT !.readerIndex_ = r, !.writerIndex_ = w]
             h == [buffer_ |-> x, readerIndex_ |-> r, writerIndex_ |-> w]
  <2>1. g = [f \in F |-> g[f]] /\ g.buffer_ = x /\ g.readerIndex_ = r /\ g.writerIndex_ = w
    BY <1>0
  <2>2. h = [f \in F |-> h[f]] /\ h.buffer_ = x /\ h.readerIndex_ = r /\ h.writerIndex_ = w
    OBVIOUS
  <2> HIDE DEF g, h, x, y, z
  <2>3. \A f \in F : g[f] = h[f]
    BY <2>1, <2>2
  <2>4. g = h
    BY <2>1, <2>2, <2>3
  <2> QED
    BY <2>4 DEF g, h
<1>5. [b EXCEPT !.readerIndex_ = r, !.buffer_ = v]
        = [buffer_ |-> v, readerIndex_ |-> r, writerIndex_ |-> z]
  <2> DEFINE g == [b EXCEPT !.readerIndex_ = r, !.buffer_ = v]
             h == [buffer_ |-> v, readerIndex_ |-> r, writerIndex_ |-> z]
  <2>1. g = [f \in F |-> g[f]] /\ g.buffer_ = v /\ g.readerIndex_ = r /\ g.writerIndex_ = z
    BY <1>0
  <2>2. h = [f \in F |-> h[f]] /\ h.buffer_ = v /\ h.readerIndex_ = r /\ h.writerIndex_ = z
    OBVIOUS
  <2> HIDE DEF g, h, x, y, z
  <2>3. \A f \in F : g[f] = h[f]
    BY <2>1, <2>2
  <2>4. g = h
    BY <2>1, <2>2, <2>3
  <2> QED
    BY <2>4 DEF g, h
<1>6. [b EXCEPT !.buffer_ = v, !.writerIndex_ = w]
        = [buffer_ |-> v, readerIndex_ |-> y, writerIndex_ |-> w]
  <2> DEFINE g == [b EXCEPT !.buffer_ = v, !.writerIndex_ = w]
             h == [buffer_ |-> v, readerIndex_ |-> y, writerIndex_ |-> w]
  <2>1. g = [f \in F |-> g[f]] /\ g.buffer_ = v /\ g.readerIndex_ = y /\ g.writerIndex_ = w
    BY <1>0
  <2>2. h = [f \in F |-> h[f]] /\ h.buffer_ = v /\ h.readerIndex_ = y /\ h.writerIndex_ = w
    OBVIOUS
  <2> HIDE DEF g, h, x, y, z
  <2>3. \A f \in F : g[f] = h[f]
    BY <2>1, <2>2
  <2>4. g = h
    BY <2>1, <2>2, <2>3
  <2> QED
    BY <2>4 DEF g, h
<1> QED
  BY <1>3, <1>4, <1>5, <1>6

\* The bytes that a vector grows by.
LEMMA ZeroBytes ==
  ASSUME NEW n \in Nat
  PROVE  Zeros(n) \in Bytes /\ Len(Zeros(n)) = n
BY DEF Zeros, Bytes

\* The constructor makes an empty buffer.
LEMMA NewBufferOK ==
  ASSUME NEW n \in Nat
  PROVE  /\ BufferOK(NewBuffer(n)) /\ Content(NewBuffer(n)) = <<>>
         /\ NewBuffer(n).readerIndex_ = kCheapPrepend
<1>1. kCheapPrepend \in Nat /\ kCheapPrepend + n \in Nat
  BY BufferBounds
<1>2. Zeros(kCheapPrepend + n) \in Bytes /\ Len(Zeros(kCheapPrepend + n)) = kCheapPrepend + n
  BY <1>1, ZeroBytes
<1>3. <<>> \in Bytes /\ Len(<<>>) = 0
  BY DEF Bytes
<1> QED
  BY <1>1, <1>2, <1>3, HasContent DEF NewBuffer

\* retrieve() takes bytes from the front, and makes an empty buffer anew.
LEMMA Retrieved ==
  ASSUME NEW b, BufferOK(b), NEW n \in Nat, n <= readableBytes(b)
  PROVE  /\ BufferOK(retrieve(b, n))
         /\ Content(retrieve(b, n)) = SubSeq(Content(b), n + 1, Len(Content(b)))
         /\ b.readerIndex_ >= kCheapPrepend => retrieve(b, n).readerIndex_ >= kCheapPrepend
<1> DEFINE r == b.readerIndex_
           w == b.writerIndex_
           v == b.buffer_
           len == readableBytes(b)
           c == Content(b)
           s == SubSeq(c, n + 1, len)
<1>1. /\ c \in Bytes /\ Len(c) = len /\ len \in Nat /\ w = r + len /\ Len(v) \in Nat
      /\ \A i \in 1..len : c[i] = v[r + i]
  BY ContentIs
<1>2. v \in Bytes /\ r \in Nat /\ w \in Nat /\ w <= Len(v) /\ b \in Buffers /\ kCheapPrepend <= Len(v)
  BY DEF BufferOK, Buffers
<1> HIDE DEF r, w, v, len, c
<1>3. s \in Bytes /\ Len(s) = len - n /\ \A i \in 1..(len - n) : s[i] = c[n + i]
  BY <1>1, Slice DEF len
<1> HIDE DEF s
<1>4. CASE n < len
  <2>1. retrieve(b, n) = [buffer_ |-> v, readerIndex_ |-> r + n, writerIndex_ |-> w]
    BY <1>2, <1>4, BufferRecord DEF retrieve, r, w, v, len
  <2>2. r + n \in Nat /\ w = (r + n) + Len(s)
    BY <1>1, <1>2, <1>3
  <2>3. ASSUME NEW i \in 1..Len(s) PROVE v[(r + n) + i] = s[i]
    <3>1. n + i \in 1..len /\ (r + n) + i = r + (n + i) /\ i \in 1..(len - n)
      BY <1>1, <1>2, <1>3
    <3> QED
      BY <1>1, <1>3, <3>1
  <2>4. BufferOK(retrieve(b, n)) /\ Content(retrieve(b, n)) = s
    <3> DEFINE b0 == [buffer_ |-> v, readerIndex_ |-> r + n, writerIndex_ |-> w]
               r0 == r + n
    <3>1. /\ v \in Bytes /\ r0 \in Nat /\ w \in Nat /\ s \in Bytes /\ w = r0 + Len(s)
          /\ w <= Len(v) /\ kCheapPrepend <= Len(v) /\ \A i \in 1..Len(s) : v[r0 + i] = s[i]
      BY <1>2, <1>3, <2>2, <2>3
    <3>2. b0 = [buffer_ |-> v, readerIndex_ |-> r0, writerIndex_ |-> w]
      OBVIOUS
    <3> HIDE DEF r0, b0
    <3>3. BufferOK(b0) /\ Content(b0) = s
      BY <3>1, <3>2, HasContent
    <3> QED
      BY <2>1, <3>3 DEF b0
  <2>5. r >= kCheapPrepend => r + n >= kCheapPrepend
    BY <1>2, BufferBounds
  <2> QED
    BY <1>1, <2>1, <2>4, <2>5 DEF s, r, c, len
<1>5. CASE ~(n < len)
  <2>0. kCheapPrepend \in Nat
    BY BufferBounds
  <2>1. retrieve(b, n) = [buffer_ |-> v, readerIndex_ |-> kCheapPrepend, writerIndex_ |-> kCheapPrepend]
    BY <1>2, <1>5, BufferRecord DEF retrieve, retrieveAll, v, len
  <2>2. Len(s) = 0
    BY <1>1, <1>3, <1>5 DEF len
  <2>3. kCheapPrepend = kCheapPrepend + Len(s) /\ \A i \in 1..Len(s) : v[kCheapPrepend + i] = s[i]
    BY <2>0, <2>2
  <2>4. BufferOK(retrieve(b, n)) /\ Content(retrieve(b, n)) = s
    BY <1>2, <1>3, <2>0, <2>1, <2>3, HasContent
  <2> QED
    BY <1>1, <2>0, <2>1, <2>4 DEF s, c, len
<1> QED
  BY <1>4, <1>5

\* makeSpace() makes room for len bytes, whether the vector grows or the bytes move.
LEMMA SpaceMade ==
  ASSUME NEW b, BufferOK(b), NEW len \in Nat, writableBytes(b) < len
  PROVE  /\ BufferOK(makeSpace(b, len)) /\ Content(makeSpace(b, len)) = Content(b)
         /\ writableBytes(makeSpace(b, len)) >= len
         /\ b.readerIndex_ >= kCheapPrepend => makeSpace(b, len).readerIndex_ >= kCheapPrepend
<1> DEFINE r == b.readerIndex_
           w == b.writerIndex_
           v == b.buffer_
           c == Content(b)
           k == kCheapPrepend
<1>1. /\ c \in Bytes /\ Len(c) \in Nat /\ w = r + Len(c) /\ Len(v) \in Nat
      /\ \A i \in 1..Len(c) : c[i] = v[r + i]
  BY ContentIs
<1>2. v \in Bytes /\ r \in Nat /\ w \in Nat /\ w <= Len(v) /\ b \in Buffers /\ k <= Len(v) /\ k \in Nat
  BY BufferBounds DEF BufferOK, Buffers
<1>3. readableBytes(b) = Len(c) /\ writableBytes(b) = Len(v) - w /\ prependableBytes(b) = r
  BY ContentIs DEF writableBytes, prependableBytes
<1> HIDE DEF r, w, v, c
<1>4. CASE ~MoveFits(b, len)
  <2> DEFINE a == SubSeq(v, 1, w)
             u == a \o Zeros(len)
  <2>1. a \in Bytes /\ Len(a) = w /\ \A i \in 1..w : a[i] = v[i]
    BY <1>2, FirstBytes
  <2>2. Zeros(len) \in Bytes /\ Len(Zeros(len)) = len
    BY ZeroBytes
  <2>3. makeSpace(b, len) = [buffer_ |-> u, readerIndex_ |-> r, writerIndex_ |-> w]
    BY <1>2, <1>4, BufferRecord DEF makeSpace, r, w, v
  <2> HIDE DEF a
  <2>4. u \in Bytes /\ Len(u) = w + len /\ \A i \in 1..w : u[i] = a[i]
    BY <2>1, <2>2, Joined
  <2> HIDE DEF u
  <2>5. w <= Len(u) /\ k <= Len(u) /\ Len(u) - w >= len
    <3>1. Len(v) \in Nat /\ w \in Nat /\ k \in Nat /\ k <= Len(v) /\ Len(v) - w < len /\ Len(u) = w + len
      BY <1>1, <1>2, <1>3, <2>4
    <3> HIDE DEF k
    <3> QED
      BY <3>1
  <2>6. ASSUME NEW i \in 1..Len(c) PROVE u[r + i] = c[i]
    <3>1. r + i \in 1..w
      BY <1>1, <1>2
    <3> QED
      BY <1>1, <2>1, <2>4, <3>1
  <2>7. BufferOK(makeSpace(b, len)) /\ Content(makeSpace(b, len)) = c
    <3>1. /\ w = r + Len(c) /\ kCheapPrepend <= Len(u) /\ \A i \in 1..Len(c) : u[r + i] = c[i]
          /\ u \in Bytes /\ c \in Bytes /\ r \in Nat /\ w \in Nat /\ w <= Len(u)
      BY <1>1, <1>2, <2>4, <2>5, <2>6
    <3> DEFINE e == [buffer_ |-> u, readerIndex_ |-> r, writerIndex_ |-> w]
    <3>2. BufferOK(e) /\ Content(e) = c
      BY <3>1, HasContent
    <3> QED
      BY <2>3, <3>2
  <2> QED
    BY <1>2, <2>3, <2>5, <2>7 DEF writableBytes, c, r
<1>5. CASE MoveFits(b, len)
  <2> DEFINE u == CopyTo(v, k, c)
  <2>1. k + Len(c) + len <= Len(v)
    BY <1>1, <1>2, <1>3, <1>5 DEF MoveFits
  <2>2. makeSpace(b, len) = [buffer_ |-> u, readerIndex_ |-> k, writerIndex_ |-> k + Len(c)]
    BY <1>3, <1>5 DEF makeSpace, v, c
  <2>3. u \in Bytes /\ Len(u) = Len(v) /\ \A i \in 1..Len(c) : u[k + i] = c[i]
    <3>1. k + Len(c) <= Len(v)
      BY <1>1, <1>2, <2>1
    <3> QED
      BY <1>1, <1>2, <3>1, Copied
  <2> HIDE DEF u
  <2>4. k + Len(c) \in Nat /\ k + Len(c) <= Len(u) /\ k <= Len(u) /\ Len(u) - (k + Len(c)) >= len
    BY <1>1, <1>2, <2>1, <2>3
  <2>5. BufferOK(makeSpace(b, len)) /\ Content(makeSpace(b, len)) = c
    BY <1>1, <1>2, <2>2, <2>3, <2>4, HasContent
  <2> QED
    BY <1>2, <2>2, <2>4, <2>5 DEF writableBytes, c
<1> QED
  BY <1>4, <1>5

\* ensureWritableBytes() changes no content.
LEMMA Ensured ==
  ASSUME NEW b, BufferOK(b), NEW len \in Nat
  PROVE  /\ BufferOK(ensureWritableBytes(b, len)) /\ Content(ensureWritableBytes(b, len)) = Content(b)
         /\ writableBytes(ensureWritableBytes(b, len)) >= len
         /\ b.readerIndex_ >= kCheapPrepend => ensureWritableBytes(b, len).readerIndex_ >= kCheapPrepend
<1>1. CASE writableBytes(b) < len
  BY <1>1, SpaceMade DEF ensureWritableBytes
<1>2. CASE ~(writableBytes(b) < len)
  BY <1>2, ContentIs DEF ensureWritableBytes
<1> QED
  BY <1>1, <1>2

\* Data is copied behind writerIndex_, where there is room for it.
LEMMA PutBehind ==
  ASSUME NEW b, BufferOK(b), NEW data \in Bytes, Len(data) <= writableBytes(b)
  PROVE  LET c == [buffer_ |-> CopyTo(b.buffer_, b.writerIndex_, data),
                   readerIndex_ |-> b.readerIndex_, writerIndex_ |-> b.writerIndex_ + Len(data)]
         IN  BufferOK(c) /\ Content(c) = Content(b) \o data
<1> DEFINE r == b.readerIndex_
           w == b.writerIndex_
           v == b.buffer_
           c == Content(b)
           u == CopyTo(v, w, data)
           s == c \o data
<1>1. /\ c \in Bytes /\ Len(c) \in Nat /\ w = r + Len(c) /\ Len(v) \in Nat /\ writableBytes(b) = Len(v) - w
      /\ \A i \in 1..Len(c) : c[i] = v[r + i]
  BY ContentIs DEF writableBytes
<1>2. v \in Bytes /\ r \in Nat /\ w \in Nat /\ w <= Len(v) /\ kCheapPrepend <= Len(v)
  BY DEF BufferOK, Buffers
<1>3. Len(data) \in Nat
  BY LenProperties DEF Bytes
<1> HIDE DEF r, w, v, c
<1>4. w + Len(data) <= Len(v)
  BY <1>1, <1>2, <1>3
<1>5. /\ u \in Bytes /\ Len(u) = Len(v) /\ \A i \in 1..w : u[i] = v[i]
      /\ \A i \in 1..Len(data) : u[w + i] = data[i]
  BY <1>2, <1>4, Copied
<1>6. /\ s \in Bytes /\ Len(s) = Len(c) + Len(data) /\ \A i \in 1..Len(c) : s[i] = c[i]
      /\ \A i \in 1..Len(data) : s[Len(c) + i] = data[i]
  BY <1>1, Joined
<1> HIDE DEF u, s
<1>7. w + Len(data) \in Nat /\ w + Len(data) = r + Len(s)
  BY <1>1, <1>2, <1>3, <1>6
<1>8. ASSUME NEW i \in 1..Len(s) PROVE u[r + i] = s[i]
  <2>1. CASE i <= Len(c)
    <3>1. i \in 1..Len(c) /\ r + i \in 1..w
      BY <1>1, <1>2, <1>3, <1>6, <2>1
    <3> QED
      BY <1>1, <1>5, <1>6, <3>1
  <2>2. CASE i > Len(c)
    <3> DEFINE j == i - Len(c)
    <3>1. j \in 1..Len(data) /\ r + i = w + j /\ i = Len(c) + j
      BY <1>1, <1>2, <1>3, <1>6, <2>2
    <3> HIDE DEF j
    <3> QED
      BY <1>5, <1>6, <3>1
  <2>3. i <= Len(c) \/ i > Len(c)
    BY <1>1, <1>3, <1>6
  <2> QED
    BY <2>1, <2>2, <2>3
<1>9. w + Len(data) <= Len(u) /\ kCheapPrepend <= Len(u)
  BY <1>2, <1>4, <1>5
<1> DEFINE e == [buffer_ |-> u, readerIndex_ |-> r, writerIndex_ |-> w + Len(data)]
<1>10. BufferOK(e) /\ Content(e) = s
  BY <1>2, <1>5, <1>6, <1>7, <1>8, <1>9, HasContent
<1> QED
  BY <1>10 DEF u, s, c, v, w, r

\* append()
LEMMA Appended ==
  ASSUME NEW b, BufferOK(b), NEW data \in Bytes
  PROVE  /\ BufferOK(append(b, data)) /\ Content(append(b, data)) = Content(b) \o data
         /\ b.readerIndex_ >= kCheapPrepend => append(b, data).readerIndex_ >= kCheapPrepend
<1> DEFINE c == ensureWritableBytes(b, Len(data))
           u == CopyTo(c.buffer_, c.writerIndex_, data)
           e == [buffer_ |-> u, readerIndex_ |-> c.readerIndex_, writerIndex_ |-> c.writerIndex_]
<1>1. Len(data) \in Nat
  BY LenProperties DEF Bytes
<1>2. /\ BufferOK(c) /\ Content(c) = Content(b) /\ Len(data) <= writableBytes(c)
      /\ b.readerIndex_ >= kCheapPrepend => c.readerIndex_ >= kCheapPrepend
  <2>1. writableBytes(c) >= Len(data)
    BY <1>1, Ensured
  <2>2. writableBytes(c) \in Nat
    BY <1>1, Ensured, ContentIs
  <2> QED
    BY <1>1, <2>1, <2>2, Ensured
<1>3. append(b, data) = hasWritten([c EXCEPT !.buffer_ = u], Len(data))
  BY DEF append
<1> HIDE DEF c
<1>4. c \in Buffers
  BY <1>2 DEF BufferOK
<1>5. [c EXCEPT !.buffer_ = u] = e
  BY <1>4, BufferRecord
<1>6. hasWritten(e, Len(data))
        = [buffer_ |-> u, readerIndex_ |-> c.readerIndex_, writerIndex_ |-> c.writerIndex_ + Len(data)]
  BY DEF hasWritten
<1>7. append(b, data)
        = [buffer_ |-> u, readerIndex_ |-> c.readerIndex_, writerIndex_ |-> c.writerIndex_ + Len(data)]
  BY <1>3, <1>5, <1>6
<1> QED
  BY <1>2, <1>7, PutBehind, SMTT(20)

\* prepend(), where there is room in front of the content.
LEMMA Prepended ==
  ASSUME NEW b, BufferOK(b), NEW data \in Bytes, Len(data) <= prependableBytes(b)
  PROVE  BufferOK(prepend(b, data)) /\ Content(prepend(b, data)) = data \o Content(b)
<1> DEFINE r == b.readerIndex_
           w == b.writerIndex_
           v == b.buffer_
           c == Content(b)
           d == Len(data)
           at == r - d
           u == CopyTo(v, at, data)
           s == data \o c
           e == [buffer_ |-> u, readerIndex_ |-> at, writerIndex_ |-> w]
<1>1. /\ c \in Bytes /\ Len(c) \in Nat /\ w = r + Len(c) /\ Len(v) \in Nat
      /\ \A i \in 1..Len(c) : c[i] = v[r + i]
  BY ContentIs
<1>2. v \in Bytes /\ r \in Nat /\ w \in Nat /\ w <= Len(v) /\ kCheapPrepend <= Len(v) /\ b \in Buffers
  BY DEF BufferOK, Buffers
<1>3. d \in Nat /\ d <= r
  BY LenProperties DEF Bytes, prependableBytes
<1>4. prepend(b, data) = e
  <2>1. prepend(b, data) = [b EXCEPT !.readerIndex_ = at, !.buffer_ = u]
    BY DEF prepend
  <2> HIDE DEF u, at
  <2> QED
    BY <1>2, <2>1, BufferRecord
<1>5. at \in Nat /\ at + d = r
  BY <1>2, <1>3
<1> HIDE DEF r, w, v, c, at
<1>6. at + d <= Len(v)
  BY <1>1, <1>2, <1>3, <1>5
<1>7. /\ u \in Bytes /\ Len(u) = Len(v) /\ \A i \in 1..d : u[at + i] = data[i]
      /\ \A i \in 1..Len(v) : i > at + d => u[i] = v[i]
  BY <1>2, <1>5, <1>6, Copied
<1>8. /\ s \in Bytes /\ Len(s) = d + Len(c) /\ \A i \in 1..d : s[i] = data[i]
      /\ \A i \in 1..Len(c) : s[d + i] = c[i]
  BY <1>1, Joined
<1> HIDE DEF u, s, d
<1>9. w = at + Len(s) /\ w <= Len(u) /\ kCheapPrepend <= Len(u)
  BY <1>1, <1>2, <1>3, <1>5, <1>7, <1>8
<1>10. ASSUME NEW i \in 1..Len(s) PROVE u[at + i] = s[i]
  <2>1. CASE i <= d
    <3>1. i \in 1..d
      BY <1>3, <2>1
    <3> QED
      BY <1>7, <1>8, <3>1
  <2>2. CASE i > d
    <3> DEFINE j == i - d
    <3>1. /\ j \in 1..Len(c) /\ at + i = r + j /\ i = d + j
          /\ r + j \in 1..Len(v) /\ r + j > at + d
      BY <1>1, <1>2, <1>3, <1>5, <1>8, <2>2
    <3> HIDE DEF j
    <3>2. u[r + j] = v[r + j]
      BY <1>7, <3>1
    <3> QED
      BY <1>1, <1>8, <3>1, <3>2
  <2>3. i <= d \/ i > d
    BY <1>3
  <2> QED
    BY <2>1, <2>2, <2>3
<1>11. BufferOK(e) /\ Content(e) = s
  BY <1>2, <1>5, <1>7, <1>8, <1>9, <1>10, HasContent
<1> QED
  BY <1>4, <1>11 DEF s, c

\* unwrite() takes bytes from the end.
LEMMA Unwritten ==
  ASSUME NEW b, BufferOK(b), NEW n \in Nat, n <= readableBytes(b)
  PROVE  BufferOK(unwrite(b, n)) /\ Content(unwrite(b, n)) = SubSeq(Content(b), 1, Len(Content(b)) - n)
<1> DEFINE r == b.readerIndex_
           w == b.writerIndex_
           v == b.buffer_
           c == Content(b)
           k == Len(c) - n
           s == SubSeq(c, 1, k)
           e == [buffer_ |-> v, readerIndex_ |-> r, writerIndex_ |-> w - n]
<1>1. /\ c \in Bytes /\ Len(c) \in Nat /\ w = r + Len(c) /\ Len(v) \in Nat /\ Len(c) = readableBytes(b)
      /\ \A i \in 1..Len(c) : c[i] = v[r + i]
  BY ContentIs
<1>2. v \in Bytes /\ r \in Nat /\ w \in Nat /\ w <= Len(v) /\ kCheapPrepend <= Len(v) /\ b \in Buffers
  BY DEF BufferOK, Buffers
<1>3. unwrite(b, n) = e
  BY <1>2, BufferRecord DEF unwrite
<1>4. k \in Nat /\ k <= Len(c)
  BY <1>1
<1> HIDE DEF r, w, v, c
<1>5. s \in Bytes /\ Len(s) = k /\ \A i \in 1..k : s[i] = c[i]
  <2> HIDE DEF k
  <2> QED
    BY <1>1, <1>4, FirstBytes
<1> HIDE DEF s
<1>6. w - n \in Nat /\ w - n = r + Len(s) /\ w - n <= Len(v)
  BY <1>1, <1>2, <1>4, <1>5
<1>7. ASSUME NEW i \in 1..Len(s) PROVE v[r + i] = s[i]
  <2>1. i \in 1..k /\ i \in 1..Len(c)
    BY <1>1, <1>4, <1>5
  <2> QED
    BY <1>1, <1>5, <2>1
<1>8. BufferOK(e) /\ Content(e) = s
  <2> DEFINE z == w - n
  <2> HIDE DEF z
  <2>1. BufferOK([buffer_ |-> v, readerIndex_ |-> r, writerIndex_ |-> z])
        /\ Content([buffer_ |-> v, readerIndex_ |-> r, writerIndex_ |-> z]) = s
    <3>1. z \in Nat /\ z = r + Len(s) /\ z <= Len(v)
      BY <1>6 DEF z
    <3> QED
      BY <1>2, <1>5, <1>7, <3>1, HasContent
  <2> QED
    BY <2>1 DEF z
<1> QED
  BY <1>3, <1>8 DEF s, c

\* shrink() keeps the content.
LEMMA Shrunk ==
  ASSUME NEW b, BufferOK(b), NEW n \in Nat
  PROVE  BufferOK(shrink(b, n)) /\ Content(shrink(b, n)) = Content(b)
<1> DEFINE e == ensureWritableBytes(NewBuffer(kInitialSize), readableBytes(b) + n)
<1>1. kInitialSize \in Nat /\ readableBytes(b) + n \in Nat /\ Content(b) \in Bytes
  BY BufferBounds, ContentIs
<1>2. BufferOK(NewBuffer(kInitialSize)) /\ Content(NewBuffer(kInitialSize)) = <<>>
  BY <1>1, NewBufferOK
<1>3. BufferOK(e) /\ Content(e) = <<>>
  BY <1>1, <1>2, Ensured
<1>4. shrink(b, n) = append(e, Content(b))
  BY DEF shrink
<1> HIDE DEF e
<1>5. BufferOK(shrink(b, n)) /\ Content(shrink(b, n)) = <<>> \o Content(b)
  BY <1>1, <1>3, <1>4, Appended
<1> QED
  BY <1>1, <1>5 DEF Bytes

\* A sequence cut in two.
LEMMA Halves ==
  ASSUME NEW s \in Bytes, NEW n \in Nat, n <= Len(s)
  PROVE  SubSeq(s, 1, n) \o SubSeq(s, n + 1, Len(s)) = s
<1> DEFINE l == Len(s)
           a == SubSeq(s, 1, n)
           b == SubSeq(s, n + 1, l)
           ab == a \o b
<1>1. l \in Nat /\ n <= l /\ l <= Len(s)
  BY LenProperties DEF Bytes
<1>2. a \in Bytes /\ Len(a) = n /\ \A i \in 1..n : a[i] = s[i]
  BY FirstBytes
<1>3. b \in Bytes /\ Len(b) = l - n /\ \A i \in 1..(l - n) : b[i] = s[n + i]
  <2> HIDE DEF l
  <2> QED
    BY <1>1, Slice
<1> HIDE DEF a, b
<1>4. /\ ab \in Bytes /\ Len(ab) = n + (l - n) /\ \A i \in 1..n : ab[i] = a[i]
      /\ \A i \in 1..(l - n) : ab[n + i] = b[i]
  <2>1. /\ ab \in Bytes /\ Len(ab) = Len(a) + Len(b) /\ \A i \in 1..Len(a) : ab[i] = a[i]
        /\ \A i \in 1..Len(b) : ab[Len(a) + i] = b[i]
    BY <1>2, <1>3, Joined
  <2> HIDE DEF ab, l
  <2> QED
    BY <1>2, <1>3, <2>1
<1> HIDE DEF ab
<1>5. ASSUME NEW i \in 1..l PROVE ab[i] = s[i]
  <2>1. CASE i <= n
    <3>1. i \in 1..n
      BY <2>1
    <3> QED
      BY <1>2, <1>4, <3>1
  <2>2. CASE i > n
    <3> DEFINE j == i - n
    <3>1. j \in 1..(l - n) /\ n + j = i
      BY <1>1, <2>2
    <3> HIDE DEF j
    <3> QED
      BY <1>3, <1>4, <3>1
  <2>3. i <= n \/ i > n
    BY <1>1
  <2> QED
    BY <2>1, <2>2, <2>3
<1>6. Len(ab) = l
  BY <1>1, <1>4
<1>7. ab = s
  BY <1>4, <1>5, <1>6, SameBytes
<1> QED
  BY <1>7 DEF ab, a, b

\* readFd(), whether the data fits or overflows into extrabuf.
LEMMA ReadIn ==
  ASSUME NEW b, BufferOK(b), NEW data \in Bytes
  PROVE  /\ BufferOK(readFd(b, data)) /\ Content(readFd(b, data)) = Content(b) \o data
         /\ b.readerIndex_ >= kCheapPrepend => readFd(b, data).readerIndex_ >= kCheapPrepend
<1> DEFINE room == writableBytes(b)
           w == b.writerIndex_
<1>1. /\ room \in Nat /\ Content(b) \in Bytes /\ Len(b.buffer_) \in Nat /\ w + room = Len(b.buffer_)
  BY ContentIs
<1>2. b \in Buffers
  BY DEF BufferOK
<1>3. Len(data) \in Nat
  BY LenProperties DEF Bytes
<1> HIDE DEF room, w
<1>4. CASE Len(data) <= room
  <2> DEFINE u == CopyTo(b.buffer_, b.writerIndex_, data)
             e == [buffer_ |-> u, readerIndex_ |-> b.readerIndex_, writerIndex_ |-> b.writerIndex_]
             f == [buffer_ |-> u, readerIndex_ |-> b.readerIndex_, writerIndex_ |-> b.writerIndex_ + Len(data)]
  <2>1. readFd(b, data) = hasWritten([b EXCEPT !.buffer_ = u], Len(data))
    BY <1>4 DEF readFd, room
  <2>2. [b EXCEPT !.buffer_ = u] = e
    BY <1>2, BufferRecord
  <2>3. hasWritten(e, Len(data)) = f
    BY DEF hasWritten
  <2>4. BufferOK(f) /\ Content(f) = Content(b) \o data
    BY <1>4, PutBehind DEF room
  <2> QED
    BY <2>1, <2>2, <2>3, <2>4
<1>5. CASE ~(Len(data) <= room)
  <2> DEFINE l == Len(data)
             d1 == SubSeq(data, 1, room)
             d2 == SubSeq(data, room + 1, l)
             u == CopyTo(b.buffer_, b.writerIndex_, d1)
             e == [buffer_ |-> u, readerIndex_ |-> b.readerIndex_, writerIndex_ |-> Len(b.buffer_)]
             f == [buffer_ |-> u, readerIndex_ |-> b.readerIndex_, writerIndex_ |-> b.writerIndex_ + Len(d1)]
  <2>1. l \in Nat /\ room <= l /\ l <= Len(data)
    BY <1>1, <1>3, <1>5
  <2>2. d1 \in Bytes /\ Len(d1) = room
    BY <1>1, <2>1, FirstBytes
  <2>3. d2 \in Bytes
    <3> HIDE DEF l
    <3> QED
      BY <1>1, <2>1, Slice
  <2>4. d1 \o d2 = data
    BY <1>1, <2>1, Halves
  <2>5. readFd(b, data) = append(e, d2)
    <3>1. readFd(b, data) = append([b EXCEPT !.buffer_ = u, !.writerIndex_ = Len(b.buffer_)], d2)
      BY <1>5 DEF readFd, room
    <3> HIDE DEF u, d1, d2
    <3> QED
      BY <1>2, <3>1, BufferRecord
  <2> HIDE DEF d1, d2, l
  <2>6. e = f
    BY <1>1, <2>2 DEF w
  <2>7. BufferOK(f) /\ Content(f) = Content(b) \o d1
    <3>1. Len(d1) <= writableBytes(b)
      BY <1>1, <2>2 DEF room
    <3> QED
      BY <2>2, <3>1, PutBehind
  <2>8. f.readerIndex_ = b.readerIndex_
    OBVIOUS
  <2> HIDE DEF e, f
  <2>9. /\ BufferOK(append(f, d2)) /\ Content(append(f, d2)) = (Content(b) \o d1) \o d2
        /\ f.readerIndex_ >= kCheapPrepend => append(f, d2).readerIndex_ >= kCheapPrepend
    BY <2>3, <2>7, Appended
  <2>10. (Content(b) \o d1) \o d2 = Content(b) \o (d1 \o d2)
    BY <1>1, <2>2, <2>3, InARow, Zenon
  <2> QED
    BY <2>4, <2>5, <2>6, <2>8, <2>9, <2>10
<1> QED
  BY <1>4, <1>5

-----------------------------------------------------------------------------
(* Integers *)

\* A set of natural numbers has a least one.
LEMMA LeastNat ==
  ASSUME NEW S \in SUBSET Nat, S # {}
  PROVE  \E n \in S : \A m \in S : n <= m
<1> DEFINE Less == OpToRel(<, Nat)
<1>1. IsWellFoundedOn(Less, Nat)
  BY NatLessThanWellFounded
<1>2. PICK n \in S : \A m \in S : ~(<<m, n>> \in Less)
  <2> HIDE DEF Less
  <2> QED
    BY <1>1, WFMin
<1>3. ASSUME NEW m \in S PROVE n <= m
  <2>1. ~(<<m, n>> \in {p \in Nat \X Nat : p[1] < p[2]})
    BY <1>2, Zenon DEF OpToRel
  <2> QED
    BY <2>1
<1> QED
  BY <1>3

\* What holds at 0 and goes on from each number to the next holds up to n.
LEMMA Climb ==
  ASSUME NEW n \in Nat, NEW Q, 0 \in Q, \A k \in 1..n : k - 1 \in Q => k \in Q
  PROVE  \A k \in 0..n : k \in Q
<1> DEFINE S == {k \in 0..n : k \notin Q}
<1> SUFFICES ASSUME S # {} PROVE FALSE
  OBVIOUS
<1>1. S \in SUBSET Nat
  OBVIOUS
<1>2. PICK m \in S : \A k \in S : m <= k
  <2> HIDE DEF S
  <2> QED
    BY <1>1, LeastNat
<1>3. m \in 1..n /\ m - 1 \in 0..n /\ ~(m <= m - 1)
  <2>1. m \in 0..n /\ m # 0
    BY <1>2
  <2> QED
    BY <2>1
<1>4. m - 1 \in Q
  BY <1>2, <1>3
<1> QED
  BY <1>2, <1>3, <1>4

Tables(n, V) == [0..n -> V]
Steppers(n, V) == [1..n -> [V -> V]]
Follows(f, v, n, g) == f[0] = v /\ \A k \in 1..n : f[k] = g[k][f[k - 1]]

\* There is a function that starts with v and goes on by g.
LEMMA Recursion ==
  ASSUME NEW V, NEW v \in V, NEW n \in Nat, NEW g \in Steppers(n, V)
  PROVE  \E f \in Tables(n, V) : Follows(f, v, n, g)
<1> USE DEF Steppers, Tables
<1> DEFINE Good_(f, m) == f[0] = v /\ \A k \in 1..m : f[k] = g[k][f[k - 1]]
           Q == {m \in 0..n : \E f \in [0..m -> V] : Good_(f, m)}
<1>1. 0 \in Q
  <2> DEFINE f == [k \in 0..0 |-> v]
  <2>1. f \in [0..0 -> V] /\ f[0] = v
    OBVIOUS
  <2>2. 1..0 = {} /\ 0 \in 0..n
    OBVIOUS
  <2> HIDE DEF f
  <2>3. \E e \in [0..0 -> V] : Good_(e, 0)
    BY <2>1, <2>2
  <2> QED
    BY <2>2, <2>3
<1>2. ASSUME NEW m \in 1..n, m - 1 \in Q PROVE m \in Q
  <2>1. PICK f \in [0..(m - 1) -> V] : Good_(f, m - 1)
    BY <1>2
  <2> DEFINE h == [k \in 0..m |-> IF k = m THEN g[m][f[m - 1]] ELSE f[k]]
  <2>2. m - 1 \in 0..(m - 1) /\ \A k \in 0..m : k # m => k \in 0..(m - 1)
    OBVIOUS
  <2>3. g[m] \in [V -> V]
    OBVIOUS
  <2>4. g[m][f[m - 1]] \in V
    BY <2>2, <2>3
  <2>5. h \in [0..m -> V]
    BY <2>2, <2>4
  <2>6. h[0] = v
    <3>1. 0 \in 0..m /\ 0 # m
      OBVIOUS
    <3> QED
      BY <2>1, <3>1
  <2>7. ASSUME NEW k \in 1..m PROVE h[k] = g[k][h[k - 1]]
    <3>1. k \in 0..m /\ k - 1 \in 0..m /\ k - 1 # m
      OBVIOUS
    <3>2. h[k - 1] = f[k - 1]
      BY <3>1
    <3>3. CASE k = m
      BY <3>1, <3>2, <3>3
    <3>4. CASE k # m
      <4>1. k \in 1..(m - 1) /\ h[k] = f[k]
        BY <3>1, <3>4
      <4> QED
        BY <2>1, <3>2, <4>1
    <3> QED
      BY <3>3, <3>4
  <2> HIDE DEF h
  <2>8. \E e \in [0..m -> V] : Good_(e, m)
    BY <2>5, <2>6, <2>7
  <2>9. m \in 0..n
    OBVIOUS
  <2> QED
    BY <2>8, <2>9
<1> HIDE DEF Q
<1>3. n \in Q
  <2>1. \A k \in 0..n : k \in Q
    BY <1>1, <1>2, Climb
  <2> QED
    BY <2>1
<1> QED
  BY <1>3 DEF Q, Follows

\* Quotient and remainder of a number with low digit d.
LEMMA LowDigit ==
  ASSUME NEW a \in Nat, NEW B \in Nat \ {0}, NEW d \in Nat, d < B
  PROVE  (a * B + d) \div B = a /\ (a * B + d) % B = d
<1> DEFINE x == a * B + d
           q == x \div B
           r == x % B
<1>0. a * B \in Nat /\ x \in Nat
  OBVIOUS
<1>1. q \in Nat /\ r \in Nat /\ r < B /\ x = B * q + r
  <2> HIDE DEF x
  <2> QED
    BY <1>0
<1>2. a * B + d = q * B + r
  BY <1>1
<1> HIDE DEF q, r, x
<1>3. CASE a < q
  <2>1. PICK e \in Nat : q = (a + 1) + e
    <3>1. q - (a + 1) \in Nat /\ q = (a + 1) + (q - (a + 1))
      BY <1>1, <1>3
    <3> QED
      BY <3>1
  <2>2. q * B = a * B + B + e * B /\ e * B \in Nat
    BY <2>1
  <2> QED
    BY <1>0, <1>1, <1>2, <2>2
<1>4. CASE q < a
  <2>1. PICK e \in Nat : a = (q + 1) + e
    <3>1. a - (q + 1) \in Nat /\ a = (q + 1) + (a - (q + 1))
      BY <1>1, <1>4
    <3> QED
      BY <3>1
  <2>2. a * B = q * B + B + e * B /\ e * B \in Nat /\ q * B \in Nat
    BY <1>1, <2>1
  <2> QED
    BY <1>0, <1>1, <1>2, <2>2
<1>5. CASE a = q
  BY <1>0, <1>1, <1>2, <1>5 DEF x, q, r
<1>6. a < q \/ q < a \/ a = q
  BY <1>1
<1> QED
  BY <1>3, <1>4, <1>5, <1>6

\* A number is its quotient and remainder.
LEMMA Division ==
  ASSUME NEW x \in Nat, NEW B \in Nat \ {0}
  PROVE  /\ x \div B \in Nat /\ x % B \in Nat /\ x % B < B
         /\ (x \div B) * B + (x % B) = x
<1>1. x \div B \in Nat /\ x % B \in Nat /\ x % B < B /\ x = B * (x \div B) + (x % B)
  OBVIOUS
<1>2. B * (x \div B) = (x \div B) * B
  BY <1>1
<1> QED
  BY <1>1, <1>2

\* The digits of x, dropped one by one.
LEMMA ShiftedIs ==
  ASSUME NEW x \in Nat
  PROVE  /\ Shifted(x) \in [0..IntLen -> Nat] /\ Shifted(x)[0] = x
         /\ \A k \in 1..IntLen : Shifted(x)[k] = Shifted(x)[k - 1] \div ByteBase
<1> DEFINE Eq(f) == f = [k \in 0..IntLen |-> IF k = 0 THEN x ELSE f[k - 1] \div ByteBase]
           h == [y \in Nat |-> y \div ByteBase]
           g == [k \in 1..IntLen |-> h]
           S == Shifted(x)
<1>1. IntLen \in Nat /\ ByteBase \in Nat \ {0}
  BY BufferBounds
<1>2. g \in Steppers(IntLen, Nat)
  <2>1. h \in [Nat -> Nat]
    BY <1>1, Division
  <2> HIDE DEF h
  <2> QED
    BY <2>1 DEF Steppers
<1>3. \E f \in Tables(IntLen, Nat) : Follows(f, x, IntLen, g)
  <2> HIDE DEF g
  <2> QED
    BY <1>1, <1>2, Recursion, Zenon
<1>4. PICK f \in [0..IntLen -> Nat] : f[0] = x /\ \A k \in 1..IntLen : f[k] = f[k - 1] \div ByteBase
  <2>1. PICK f \in [0..IntLen -> Nat] : f[0] = x /\ \A k \in 1..IntLen : f[k] = g[k][f[k - 1]]
    BY <1>3, Zenon DEF Tables, Follows
  <2>2. ASSUME NEW k \in 1..IntLen PROVE f[k] = f[k - 1] \div ByteBase
    <3>1. k - 1 \in 0..IntLen
      BY <1>1
    <3>2. f[k] = g[k][f[k - 1]] /\ f[k - 1] \in Nat
      BY <2>1, <3>1
    <3> QED
      BY <3>2
  <2> QED
    BY <2>1, <2>2
<1>5. Eq(f)
  <2>1. ASSUME NEW k \in 0..IntLen PROVE f[k] = IF k = 0 THEN x ELSE f[k - 1] \div ByteBase
    <3>1. k = 0 \/ k \in 1..IntLen
      BY <1>1
    <3> QED
      BY <1>4, <3>1
  <2> QED
    BY <1>4, <2>1
<1>6. Eq(S)
  <2>1. S = CHOOSE e : Eq(e)
    BY DEF Shifted
  <2> HIDE DEF Eq, S
  <2> QED
    BY <1>5, <2>1
<1>7. S[0] = x /\ \A k \in 1..IntLen : S[k] = S[k - 1] \div ByteBase
  <2>1. 0 \in 0..IntLen /\ \A k \in 1..IntLen : k \in 0..IntLen /\ k # 0
    BY <1>1
  <2> HIDE DEF S
  <2> QED
    BY <1>6, <2>1
<1>8. S \in [0..IntLen -> Nat]
  <2> DEFINE Q == {k \in 0..IntLen : S[k] \in Nat}
  <2> HIDE DEF S
  <2>1. 0 \in Q
    BY <1>1, <1>7
  <2>2. ASSUME NEW k \in 1..IntLen, k - 1 \in Q PROVE k \in Q
    <3>1. S[k - 1] \in Nat /\ k \in 0..IntLen
      BY <1>1, <2>2
    <3>2. S[k - 1] \div ByteBase \in Nat
      BY <1>1, <3>1, Division
    <3> QED
      BY <1>7, <3>1, <3>2
  <2> HIDE DEF Q
  <2>3. \A k \in 0..IntLen : k \in Q
    BY <1>1, <2>1, <2>2, Climb
  <2>4. \A k \in 0..IntLen : S[k] \in Nat
    BY <2>3 DEF Q
  <2> QED
    BY <1>6, <2>4
<1> QED
  BY <1>7, <1>8

\* The number of the first bytes, digit by digit.
LEMMA UpToIs ==
  ASSUME NEW bytes \in Bytes, IntLen <= Len(bytes)
  PROVE  /\ UpTo(bytes) \in [0..IntLen -> Nat] /\ UpTo(bytes)[0] = 0
         /\ \A k \in 1..IntLen : bytes[k] \in Nat
         /\ \A k \in 1..IntLen : UpTo(bytes)[k] = UpTo(bytes)[k - 1] * ByteBase + bytes[k]
<1> DEFINE Eq(f) == f = [k \in 0..IntLen |-> IF k = 0 THEN 0 ELSE f[k - 1] * ByteBase + bytes[k]]
           g == [k \in 1..IntLen |-> [y \in Nat |-> y * ByteBase + bytes[k]]]
           S == UpTo(bytes)
<1>1. IntLen \in Nat /\ ByteBase \in Nat \ {0}
  BY BufferBounds
<1>0. \A k \in 1..IntLen : bytes[k] \in Nat
  BY <1>1, LenProperties DEF Bytes
<1>2. g \in Steppers(IntLen, Nat)
  <2>1. ASSUME NEW k \in 1..IntLen PROVE [y \in Nat |-> y * ByteBase + bytes[k]] \in [Nat -> Nat]
    <3>1. bytes[k] \in Nat
      BY <1>0
    <3>2. ASSUME NEW y \in Nat PROVE y * ByteBase + bytes[k] \in Nat
      BY <1>1, <3>1
    <3> QED
      BY <3>2
  <2> QED
    BY <2>1 DEF Steppers
<1>3. \E f \in Tables(IntLen, Nat) : Follows(f, 0, IntLen, g)
  <2> HIDE DEF g
  <2>1. 0 \in Nat
    OBVIOUS
  <2> QED
    BY <1>1, <1>2, <2>1, Recursion, Zenon
<1>4. PICK f \in [0..IntLen -> Nat] :
        f[0] = 0 /\ \A k \in 1..IntLen : f[k] = f[k - 1] * ByteBase + bytes[k]
  <2>1. PICK f \in [0..IntLen -> Nat] : f[0] = 0 /\ \A k \in 1..IntLen : f[k] = g[k][f[k - 1]]
    BY <1>3, Zenon DEF Tables, Follows
  <2>2. ASSUME NEW k \in 1..IntLen PROVE f[k] = f[k - 1] * ByteBase + bytes[k]
    <3>1. k - 1 \in 0..IntLen
      BY <1>1
    <3>2. f[k] = g[k][f[k - 1]] /\ f[k - 1] \in Nat
      BY <2>1, <3>1
    <3> QED
      BY <3>2
  <2> QED
    BY <2>1, <2>2
<1>5. Eq(f)
  <2>1. ASSUME NEW k \in 0..IntLen PROVE f[k] = IF k = 0 THEN 0 ELSE f[k - 1] * ByteBase + bytes[k]
    <3>1. k = 0 \/ k \in 1..IntLen
      BY <1>1
    <3> QED
      BY <1>4, <3>1
  <2> QED
    BY <1>4, <2>1
<1>6. Eq(S)
  <2>1. S = CHOOSE e : Eq(e)
    BY DEF UpTo
  <2> HIDE DEF Eq, S
  <2> QED
    BY <1>5, <2>1
<1>7. S[0] = 0 /\ \A k \in 1..IntLen : S[k] = S[k - 1] * ByteBase + bytes[k]
  <2>1. 0 \in 0..IntLen /\ \A k \in 1..IntLen : k \in 0..IntLen /\ k # 0
    BY <1>1
  <2> HIDE DEF S
  <2> QED
    BY <1>6, <2>1
<1>8. S \in [0..IntLen -> Nat]
  <2> DEFINE Q == {k \in 0..IntLen : S[k] \in Nat}
  <2> HIDE DEF S
  <2>1. 0 \in Q
    BY <1>1, <1>7
  <2>2. ASSUME NEW k \in 1..IntLen, k - 1 \in Q PROVE k \in Q
    <3>1. S[k - 1] \in Nat /\ k \in 0..IntLen /\ bytes[k] \in Nat
      BY <1>0, <1>1, <2>2
    <3>2. S[k - 1] * ByteBase + bytes[k] \in Nat
      <4>1. ASSUME NEW y \in Nat, NEW z \in Nat PROVE y * ByteBase + z \in Nat
        BY <1>1
      <4> QED
        BY <3>1, <4>1
    <3> QED
      BY <1>7, <3>1, <3>2
  <2> HIDE DEF Q
  <2>3. \A k \in 0..IntLen : k \in Q
    BY <1>1, <2>1, <2>2, Climb
  <2>4. \A k \in 0..IntLen : S[k] \in Nat
    BY <2>3 DEF Q
  <2> QED
    BY <1>6, <2>4
<1> QED
  BY <1>0, <1>7, <1>8

\* The value of a byte of the vector.
Digits == 0..(ByteBase - 1)

\* hostToNetwork32() makes IntLen digits.
LEMMA ToNetwork ==
  ASSUME NEW x \in Nat
  PROVE  /\ HostToNetwork(x) \in Bytes /\ Len(HostToNetwork(x)) = IntLen
         /\ \A i \in 1..IntLen : HostToNetwork(x)[i] \in Digits
<1> DEFINE S == Shifted(x)
           h == HostToNetwork(x)
<1>1. IntLen \in Nat /\ ByteBase \in Nat \ {0} /\ S \in [0..IntLen -> Nat]
  BY BufferBounds, ShiftedIs
<1>2. h = [i \in 1..IntLen |-> S[IntLen - i] % ByteBase]
  BY DEF HostToNetwork
<1> HIDE DEF S, h
<1>3. ASSUME NEW i \in 1..IntLen PROVE S[IntLen - i] % ByteBase \in Nat /\ h[i] \in Digits
  <2>1. IntLen - i \in 0..IntLen
    BY <1>1
  <2>2. S[IntLen - i] \in Nat
    BY <1>1, <2>1
  <2>3. S[IntLen - i] % ByteBase \in Nat /\ S[IntLen - i] % ByteBase < ByteBase
    BY <1>1, <2>2, Division
  <2> QED
    BY <1>1, <1>2, <2>3 DEF Digits
<1>4. h \in Seq(Nat) /\ Len(h) = IntLen
  BY <1>1, <1>2, <1>3
<1> QED
  BY <1>3, <1>4 DEF h, Bytes

\* The number of IntLen bytes has these bytes as its digits.
LEMMA ThereAndBack ==
  ASSUME NEW bytes \in Bytes, IntLen <= Len(bytes), \A i \in 1..IntLen : bytes[i] \in Digits
  PROVE  /\ NetworkToHost(bytes) \in Nat
         /\ HostToNetwork(NetworkToHost(bytes)) = SubSeq(bytes, 1, IntLen)
<1> DEFINE U == UpTo(bytes)
           x == NetworkToHost(bytes)
           S == Shifted(x)
           h == HostToNetwork(x)
           t == SubSeq(bytes, 1, IntLen)
<1>1. IntLen \in Nat /\ ByteBase \in Nat \ {0}
  BY BufferBounds
<1>2. /\ U \in [0..IntLen -> Nat] /\ U[0] = 0
      /\ \A k \in 1..IntLen : U[k] = U[k - 1] * ByteBase + bytes[k]
  BY UpToIs
<1>3. x = U[IntLen] /\ x \in Nat
  BY <1>1, <1>2 DEF NetworkToHost
<1> HIDE DEF U, x
<1>4. /\ S \in [0..IntLen -> Nat] /\ S[0] = x
      /\ \A k \in 1..IntLen : S[k] = S[k - 1] \div ByteBase
  BY <1>3, ShiftedIs
<1>5. h = [i \in 1..IntLen |-> S[IntLen - i] % ByteBase]
  BY DEF HostToNetwork
<1>6. h \in Bytes /\ Len(h) = IntLen
  BY <1>3, ToNetwork
<1> HIDE DEF S, h
<1>7. ASSUME NEW k \in 1..IntLen
      PROVE  U[k] \div ByteBase = U[k - 1] /\ U[k] % ByteBase = bytes[k]
  <2>1. k - 1 \in 0..IntLen
    BY <1>1
  <2>2. U[k - 1] \in Nat /\ bytes[k] \in Nat /\ bytes[k] < ByteBase
    BY <1>1, <1>2, <2>1, SMTT(20) DEF Digits
  <2>3. ASSUME NEW a \in Nat, NEW d \in Nat, d < ByteBase
        PROVE  (a * ByteBase + d) \div ByteBase = a /\ (a * ByteBase + d) % ByteBase = d
    BY <1>1, <2>3, LowDigit, Zenon
  <2> QED
    BY <1>2, <2>2, <2>3
<1> DEFINE Q == {k \in 0..IntLen : S[k] = U[IntLen - k]}
<1>8. 0 \in Q
  BY <1>1, <1>3, <1>4
<1>9. ASSUME NEW k \in 1..IntLen, k - 1 \in Q PROVE k \in Q
  <2> DEFINE j == (IntLen - k) + 1
  <2>1. j \in 1..IntLen /\ IntLen - (k - 1) = j /\ j - 1 = IntLen - k /\ k \in 0..IntLen
    BY <1>1
  <2>2. S[k - 1] = U[IntLen - (k - 1)]
    BY <1>9
  <2> HIDE DEF j
  <2>3. S[k - 1] = U[j]
    BY <2>1, <2>2
  <2>4. S[k] = U[IntLen - k]
    BY <1>4, <1>7, <2>1, <2>3
  <2> QED
    BY <2>1, <2>4
<1> HIDE DEF Q
<1>10. \A k \in 0..IntLen : k \in Q
  BY <1>1, <1>8, <1>9, Climb
<1>11. t \in Bytes /\ Len(t) = IntLen /\ \A i \in 1..IntLen : t[i] = bytes[i]
  BY <1>1, FirstBytes
<1> HIDE DEF t
<1>12. ASSUME NEW i \in 1..IntLen PROVE h[i] = t[i]
  <2> DEFINE k == IntLen - i
  <2>1. k \in 0..IntLen /\ IntLen - k = i
    BY <1>1
  <2>2. S[k] = U[i]
    BY <1>10, <2>1 DEF Q
  <2>3. h[i] = S[k] % ByteBase
    BY <1>5
  <2> HIDE DEF k
  <2> QED
    BY <1>7, <1>11, <2>2, <2>3
<1>13. h = t
  BY <1>6, <1>11, <1>12, SameBytes
<1> QED
  BY <1>3, <1>13 DEF h, t, x

-----------------------------------------------------------------------------
(* BufferOps *)

\* The buffer is in order and holds the bytes that it should, each one a byte.
BufInv ==
  /\ BufferOK(buf) /\ Content(buf) = content /\ content \in Seq(Digits)
  /\ got[1] = got[2] /\ bufCalls \in Nat

\* Sequences of digits are sequences of bytes.
LEMMA DigitsAreBytes ==
  /\ Digits \subseteq Nat
  /\ \A s \in Seq(Digits) : s \in Bytes /\ Len(s) \in Nat /\ \A i \in 1..Len(s) : s[i] \in Digits
<1>1. Digits \subseteq Nat
  BY BufferBounds DEF Digits
<1>2. ASSUME NEW s \in Seq(Digits)
      PROVE  s \in Seq(Nat) /\ Len(s) \in Nat /\ \A i \in 1..Len(s) : s[i] \in Digits
  <2> HIDE DEF Digits
  <2>1. Len(s) \in Nat /\ (\A i \in 1..Len(s) : s[i] \in Digits) /\ s = [i \in 1..Len(s) |-> s[i]]
    BY LenProperties, ElementOfSeq
  <2>2. s \in Seq(Nat)
    BY <1>1, <2>1
  <2> QED
    BY <2>1, <2>2
<1> QED
  BY <1>1, <1>2 DEF Bytes

\* What the operations write are digits.
LEMMA WrittenDigits ==
  /\ \A n \in Nat : bufCalls \in Nat => Fresh(n) \in Seq(Digits) /\ Fresh(n) \in Bytes
  /\ \A x \in Nat : HostToNetwork(x) \in Seq(Digits) /\ HostToNetwork(x) \in Bytes
<1>1. ASSUME NEW n \in Nat, bufCalls \in Nat PROVE Fresh(n) \in Seq(Digits)
  <2>1. ASSUME NEW i \in 1..n PROVE (bufCalls * 2 + i) % ByteBase \in Digits
    <3>1. bufCalls * 2 + i \in Nat /\ ByteBase \in Nat \ {0}
      BY <1>1, BufferBounds
    <3> DEFINE y == bufCalls * 2 + i
    <3> HIDE DEF y
    <3>2. y % ByteBase \in Nat /\ y % ByteBase < ByteBase
      BY <3>1, Division DEF y
    <3> QED
      BY <3>1, <3>2 DEF Digits, y
  <2> QED
    BY <2>1 DEF Fresh
<1>2. ASSUME NEW x \in Nat PROVE HostToNetwork(x) \in Seq(Digits)
  <2> DEFINE h == HostToNetwork(x)
  <2>1. h \in Seq(Nat) /\ Len(h) = IntLen /\ \A i \in 1..IntLen : h[i] \in Digits
    BY ToNetwork DEF Bytes
  <2> HIDE DEF h
  <2>2. h \in Seq(Digits)
    BY <2>1, ElementOfSeq, SeqDef
  <2> QED
    BY <2>2 DEF h
<1> QED
  BY <1>1, <1>2, DigitsAreBytes

\* The parts and the concatenations of sequences of digits.
LEMMA DigitParts ==
  ASSUME NEW s \in Seq(Digits), NEW t \in Seq(Digits), NEW n \in Nat, n <= Len(s)
  PROVE  /\ s \o t \in Seq(Digits)
         /\ SubSeq(s, n + 1, Len(s)) \in Seq(Digits)
         /\ SubSeq(s, 1, Len(s) - n) \in Seq(Digits)
<1> HIDE DEF Digits
<1>1. s \o t \in Seq(Digits)
  OBVIOUS
<1>2. Len(s) \in Nat /\ \A i \in 1..Len(s) : s[i] \in Digits
  OBVIOUS
<1>3. SubSeq(s, n + 1, Len(s)) \in Seq(Digits)
  <2> DEFINE a == n + 1
             e == Len(s)
  <2>1. a \in Int /\ e \in Int /\ \A i \in a..e : s[i] \in Digits
    BY <1>2
  <2> HIDE DEF a, e
  <2>2. SubSeq(s, a, e) \in Seq(Digits)
    BY <2>1, SubSeqProperties
  <2> QED
    BY <2>2 DEF a, e
<1>4. SubSeq(s, 1, Len(s) - n) \in Seq(Digits)
  <2> DEFINE a == 1
             e == Len(s) - n
  <2>1. a \in Int /\ e \in Int /\ \A i \in a..e : s[i] \in Digits
    BY <1>2
  <2> HIDE DEF a, e
  <2>2. SubSeq(s, a, e) \in Seq(Digits)
    BY <2>1, SubSeqProperties
  <2> QED
    BY <2>2 DEF a, e
<1> QED
  BY <1>1, <1>3, <1>4

\* The first digits of a number of readInt32() are those of the content.
LEMMA IntRead ==
  ASSUME NEW b, BufferOK(b), Content(b) \in Seq(Digits), IntLen <= readableBytes(b)
  PROVE  HostToNetwork(readInt32(b).value) = SubSeq(Content(b), 1, IntLen)
<1>1. Content(b) \in Bytes /\ Len(Content(b)) = readableBytes(b)
  BY ContentIs
<1>2. \A i \in 1..IntLen : Content(b)[i] \in Digits
  <2>1. Len(Content(b)) \in Nat /\ \A i \in 1..Len(Content(b)) : Content(b)[i] \in Digits
    BY DigitsAreBytes
  <2>2. IntLen \in Nat
    BY BufferBounds
  <2>3. \A i \in 1..IntLen : i \in 1..Len(Content(b))
    BY <1>1, <2>1, <2>2
  <2> QED
    BY <2>1, <2>3
<1>3. HostToNetwork(NetworkToHost(Content(b))) = SubSeq(Content(b), 1, IntLen)
  BY <1>1, <1>2, ThereAndBack
<1> QED
  BY <1>3 DEF readInt32, peekInt32

\* The bytes of the buffer are what was written into it and not yet retrieved, whatever
\* operations moved, regrew or exchanged the vector, for buffers, lengths and integers of
\* every size.
THEOREM BufferContentKept == BufSpec => []BufferKeepsContent
<1>1. BufInit => BufInv
  <2> SUFFICES ASSUME BufInit PROVE BufInv
    OBVIOUS
  <2>1. BufferOK(buf) /\ Content(buf) = <<>>
    BY BufferBounds, NewBufferOK DEF BufInit
  <2>2. <<>> \in Seq(Digits)
    OBVIOUS
  <2> QED
    BY <2>1, <2>2 DEF BufInit, BufInv
<1>2. BufInv /\ [BufNext]_bufVars => BufInv'
  <2> SUFFICES ASSUME BufInv, [BufNext]_bufVars PROVE BufInv'
    OBVIOUS
  <2>0. /\ BufferOK(buf) /\ Content(buf) = content /\ content \in Seq(Digits) /\ content \in Bytes
        /\ got[1] = got[2] /\ bufCalls \in Nat /\ Len(content) = readableBytes(buf) /\ Len(content) \in Nat
    BY DigitsAreBytes, ContentIs DEF BufInv
  <2>1. CASE UNCHANGED bufVars
    BY <2>1 DEF bufVars, BufInv
  <2>2. ASSUME BufNext PROVE BufInv'
    <3>0. bufCalls' \in Nat
      BY <2>0, <2>2 DEF BufNext
    <3> SUFFICES (BufferOK(buf) /\ Content(buf) = content /\ content \in Seq(Digits) /\ got[1] = got[2])'
      BY <3>0 DEF BufInv
    <3>1. ASSUME NEW n \in Lengths, BufAppend(n)
          PROVE  (BufferOK(buf) /\ Content(buf) = content /\ content \in Seq(Digits) /\ got[1] = got[2])'
      <4>1. Fresh(n) \in Seq(Digits) /\ Fresh(n) \in Bytes
        BY <2>0, BufferOpsBounds, WrittenDigits
      <4>2. buf' = append(buf, Fresh(n)) /\ content' = content \o Fresh(n) /\ got' = got
        BY <3>1 DEF BufAppend
      <4>3. BufferOK(buf') /\ Content(buf') = content \o Fresh(n)
        BY <2>0, <4>1, <4>2, Appended
      <4>4. content \o Fresh(n) \in Seq(Digits)
        BY <2>0, <4>1
      <4> QED
        BY <2>0, <4>2, <4>3, <4>4
    <3>2. ASSUME NEW n \in Lengths, BufReadFd(n)
          PROVE  (BufferOK(buf) /\ Content(buf) = content /\ content \in Seq(Digits) /\ got[1] = got[2])'
      <4>1. Fresh(n) \in Seq(Digits) /\ Fresh(n) \in Bytes
        BY <2>0, BufferOpsBounds, WrittenDigits
      <4>2. buf' = readFd(buf, Fresh(n)) /\ content' = content \o Fresh(n) /\ got' = got
        BY <3>2 DEF BufReadFd
      <4>3. BufferOK(buf') /\ Content(buf') = content \o Fresh(n)
        BY <2>0, <4>1, <4>2, ReadIn
      <4>4. content \o Fresh(n) \in Seq(Digits)
        BY <2>0, <4>1
      <4> QED
        BY <2>0, <4>2, <4>3, <4>4
    <3>3. ASSUME NEW n \in Lengths, BufRetrieve(n)
          PROVE  (BufferOK(buf) /\ Content(buf) = content /\ content \in Seq(Digits) /\ got[1] = got[2])'
      <4>1. n \in Nat /\ n <= readableBytes(buf)
        BY <3>3, BufferOpsBounds DEF BufRetrieve
      <4>2. /\ buf' = retrieve(buf, n) /\ content' = SubSeq(content, n + 1, Len(content))
            /\ got' = <<SubSeq(Content(buf), 1, n), SubSeq(content, 1, n)>>
        BY <3>3 DEF BufRetrieve, Rest
      <4>3. BufferOK(buf') /\ Content(buf') = SubSeq(content, n + 1, Len(content))
        BY <2>0, <4>1, <4>2, Retrieved
      <4>4. content' \in Seq(Digits)
        BY <2>0, <4>1, <4>2, DigitParts
      <4>5. got'[1] = got'[2]
        BY <2>0, <4>2
      <4> QED
        BY <4>2, <4>3, <4>4, <4>5
    <3>4. ASSUME NEW n \in Lengths, BufUnwrite(n)
          PROVE  (BufferOK(buf) /\ Content(buf) = content /\ content \in Seq(Digits) /\ got[1] = got[2])'
      <4>1. n \in Nat /\ n <= readableBytes(buf)
        BY <3>4, BufferOpsBounds DEF BufUnwrite
      <4>2. buf' = unwrite(buf, n) /\ content' = SubSeq(content, 1, Len(content) - n) /\ got' = got
        BY <3>4 DEF BufUnwrite
      <4>3. BufferOK(buf') /\ Content(buf') = SubSeq(content, 1, Len(content) - n)
        BY <2>0, <4>1, <4>2, Unwritten
      <4>4. content' \in Seq(Digits)
        BY <2>0, <4>1, <4>2, DigitParts
      <4> QED
        BY <2>0, <4>2, <4>3, <4>4
    <3>5. ASSUME NEW x \in {1, ByteBase + 1}, BufAppendInt(x)
          PROVE  (BufferOK(buf) /\ Content(buf) = content /\ content \in Seq(Digits) /\ got[1] = got[2])'
      <4>1. HostToNetwork(x) \in Seq(Digits) /\ HostToNetwork(x) \in Bytes
        <5>1. x \in Nat
          BY BufferBounds
        <5> QED
          BY <5>1, WrittenDigits
      <4>2. buf' = append(buf, HostToNetwork(x)) /\ content' = content \o HostToNetwork(x) /\ got' = got
        BY <3>5 DEF BufAppendInt, appendInt32
      <4>3. BufferOK(buf') /\ Content(buf') = content \o HostToNetwork(x)
        BY <2>0, <4>1, <4>2, Appended
      <4>4. content \o HostToNetwork(x) \in Seq(Digits)
        BY <2>0, <4>1
      <4> QED
        BY <2>0, <4>2, <4>3, <4>4
    <3>6. ASSUME NEW x \in {1, ByteBase + 1}, BufPrepend(x)
          PROVE  (BufferOK(buf) /\ Content(buf) = content /\ content \in Seq(Digits) /\ got[1] = got[2])'
      <4>1. /\ HostToNetwork(x) \in Seq(Digits) /\ HostToNetwork(x) \in Bytes
            /\ Len(HostToNetwork(x)) = IntLen
        <5>1. x \in Nat
          BY BufferBounds
        <5> QED
          BY <5>1, WrittenDigits, ToNetwork
      <4>2. /\ buf' = prepend(buf, HostToNetwork(x)) /\ content' = HostToNetwork(x) \o content
            /\ got' = got /\ IntLen <= prependableBytes(buf)
        BY <3>6 DEF BufPrepend, prependInt32
      <4>3. BufferOK(buf') /\ Content(buf') = HostToNetwork(x) \o content
        BY <2>0, <4>1, <4>2, Prepended
      <4>4. HostToNetwork(x) \o content \in Seq(Digits)
        BY <2>0, <4>1
      <4> QED
        BY <2>0, <4>2, <4>3, <4>4
    <3>7. ASSUME BufReadInt
          PROVE  (BufferOK(buf) /\ Content(buf) = content /\ content \in Seq(Digits) /\ got[1] = got[2])'
      <4>1. IntLen \in Nat /\ IntLen <= readableBytes(buf)
        BY <2>0, <3>7, BufferBounds DEF BufReadInt
      <4>2. /\ buf' = retrieve(buf, IntLen) /\ content' = SubSeq(content, IntLen + 1, Len(content))
            /\ got' = <<HostToNetwork(readInt32(buf).value), SubSeq(content, 1, IntLen)>>
        BY <3>7 DEF BufReadInt, Rest, readInt32
      <4>3. BufferOK(buf') /\ Content(buf') = SubSeq(content, IntLen + 1, Len(content))
        BY <2>0, <4>1, <4>2, Retrieved
      <4>4. content' \in Seq(Digits)
        BY <2>0, <4>1, <4>2, DigitParts
      <4>5. got'[1] = got'[2]
        BY <2>0, <4>1, <4>2, IntRead
      <4> QED
        BY <4>2, <4>3, <4>4, <4>5
    <3>8. ASSUME NEW n \in {0, 2}, BufShrink(n)
          PROVE  (BufferOK(buf) /\ Content(buf) = content /\ content \in Seq(Digits) /\ got[1] = got[2])'
      <4>1. n \in Nat
        OBVIOUS
      <4>2. buf' = shrink(buf, n) /\ content' = content /\ got' = got
        BY <3>8 DEF BufShrink
      <4> QED
        BY <2>0, <4>1, <4>2, Shrunk
    <3> QED
      BY <2>2, <3>1, <3>2, <3>3, <3>4, <3>5, <3>6, <3>7, <3>8 DEF BufNext
  <2> QED
    BY <2>1, <2>2
<1>3. BufInv => BufferKeepsContent
  BY DEF BufInv, BufferKeepsContent, BufferOK
<1> QED
  BY <1>1, <1>2, <1>3, PTL DEF BufSpec

-----------------------------------------------------------------------------
(* ProtobufCodecLite *)

\* Sums of natural numbers.
LEMMA SumsAre ==
  ASSUME NEW n \in Nat, NEW first \in Nat, NEW f, \A i \in 1..n : f[i] \in Nat
  PROVE  Sums(first, f, n) \in [0..n -> Nat]
<1> DEFINE Eq(e) == e = [i \in 0..n |-> IF i = 0 THEN first ELSE e[i - 1] + f[i]]
           g == [i \in 1..n |-> [y \in Nat |-> y + f[i]]]
           S == Sums(first, f, n)
<1>1. g \in Steppers(n, Nat)
  BY DEF Steppers
<1>2. \E e \in Tables(n, Nat) : Follows(e, first, n, g)
  <2> HIDE DEF g
  <2> QED
    BY <1>1, Recursion, Zenon
<1>3. PICK e \in [0..n -> Nat] : e[0] = first /\ \A i \in 1..n : e[i] = g[i][e[i - 1]]
  BY <1>2, Zenon DEF Tables, Follows
<1>4. ASSUME NEW i \in 1..n PROVE e[i] = e[i - 1] + f[i]
  <2>1. i - 1 \in 0..n
    OBVIOUS
  <2>2. e[i] = g[i][e[i - 1]] /\ e[i - 1] \in Nat
    BY <1>3, <2>1
  <2> QED
    BY <2>2
<1>5. Eq(e)
  <2>1. ASSUME NEW i \in 0..n PROVE e[i] = IF i = 0 THEN first ELSE e[i - 1] + f[i]
    <3>1. i = 0 \/ i \in 1..n
      OBVIOUS
    <3> QED
      BY <1>3, <1>4, <3>1
  <2> QED
    BY <1>3, <2>1
<1>6. Eq(S)
  <2>1. S = CHOOSE s : Eq(s)
    BY DEF Sums
  <2> HIDE DEF Eq, S
  <2> QED
    BY <1>5, <2>1
<1> DEFINE Q == {i \in 0..n : S[i] \in Nat}
<1> HIDE DEF S
<1>7. 0 \in Q
  BY <1>6
<1>8. ASSUME NEW i \in 1..n, i - 1 \in Q PROVE i \in Q
  <2>1. S[i - 1] \in Nat /\ f[i] \in Nat /\ i \in 0..n /\ i # 0
    BY <1>8
  <2>2. S[i] = S[i - 1] + f[i]
    BY <1>6, <2>1
  <2> QED
    BY <2>1, <2>2
<1> HIDE DEF Q
<1>9. \A i \in 0..n : i \in Q
  BY <1>7, <1>8, Climb
<1>10. \A i \in 0..n : S[i] \in Nat
  BY <1>9 DEF Q
<1> QED
  BY <1>6, <1>10 DEF S

\* A checksum fits into two digits.
LEMMA ChecksumFits ==
  ASSUME NEW bytes \in Bytes
  PROVE  checksum(bytes) \in Nat /\ checksum(bytes) < ByteBase * ByteBase
<1> DEFINE n == Len(bytes)
           A == Sums(1, bytes, n)
           B == Sums(0, A, n)
           a == A[n] % AdlerBase
           b == B[n] % AdlerBase
<1>1. n \in Nat /\ 1 \in Nat /\ 0 \in Nat /\ \A i \in 1..n : bytes[i] \in Nat
  BY LenProperties DEF Bytes
<1>2. A \in [0..n -> Nat]
  <2> HIDE DEF n
  <2> QED
    BY <1>1, SumsAre
<1>3. \A i \in 1..n : A[i] \in Nat
  BY <1>1, <1>2
<1>4. B \in [0..n -> Nat]
  <2> HIDE DEF A, n
  <2> QED
    BY <1>1, <1>3, SumsAre
<1>5. checksum(bytes) = b * ByteBase + a
  BY DEF checksum
<1> HIDE DEF A, B, n
<1>6. A[n] \in Nat /\ B[n] \in Nat
  BY <1>1, <1>2, <1>4
<1>7. AdlerBase \in Nat \ {0} /\ AdlerBase <= ByteBase /\ ByteBase \in Nat
  BY CodecBounds, BufferBounds
<1>8. a \in Nat /\ b \in Nat /\ a < AdlerBase /\ b < AdlerBase
  BY <1>6, <1>7, Division
<1> HIDE DEF a, b
<1>9. a < ByteBase /\ b + 1 <= ByteBase
  BY <1>7, <1>8
<1>10. (b + 1) * ByteBase <= ByteBase * ByteBase /\ (b + 1) * ByteBase = b * ByteBase + ByteBase
  <2>1. PICK d \in Nat : ByteBase = (b + 1) + d
    <3>1. ByteBase - (b + 1) \in Nat /\ ByteBase = (b + 1) + (ByteBase - (b + 1))
      BY <1>7, <1>8, <1>9
    <3> QED
      BY <3>1
  <2>2. ByteBase * ByteBase = (b + 1) * ByteBase + d * ByteBase /\ d * ByteBase \in Nat
    BY <1>7, <1>8, <2>1
  <2>3. (b + 1) * ByteBase = b * ByteBase + ByteBase /\ (b + 1) * ByteBase \in Nat
    BY <1>7, <1>8
  <2> QED
    BY <2>2, <2>3
<1>11. b * ByteBase \in Nat
  BY <1>7, <1>8
<1> QED
  BY <1>5, <1>7, <1>8, <1>9, <1>10, <1>11

\* A number of two digits has no more.
LEMMA TwoDigits ==
  ASSUME NEW x \in Nat, x < ByteBase * ByteBase
  PROVE  Shifted(x)[IntLen] = 0
<1> DEFINE S == Shifted(x)
           B == ByteBase
<1>1. B \in Nat \ {0} /\ IntLen \in Nat /\ 2 <= IntLen
  BY BufferBounds, CodecBounds
<1>2. /\ S \in [0..IntLen -> Nat] /\ S[0] = x
      /\ \A k \in 1..IntLen : S[k] = S[k - 1] \div B
  BY ShiftedIs
<1> HIDE DEF S
<1>3. ASSUME NEW y \in Nat, y < B PROVE y \div B = 0
  <2>1. (0 * B + y) \div B = 0
    BY <1>1, <1>3, LowDigit
  <2>2. 0 * B + y = y
    BY <1>1
  <2> QED
    BY <2>1, <2>2
<1>4. S[1] = x \div B /\ S[1] \in Nat /\ S[1] < B
  <2> DEFINE q == x \div B
             r == x % B
  <2>1. q \in Nat /\ r \in Nat /\ q * B + r = x
    BY <1>1, Division
  <2>2. S[1] = q
    <3>1. 1 \in 1..IntLen /\ 1 - 1 = 0
      BY <1>1
    <3> QED
      BY <1>2, <3>1
  <2> HIDE DEF q, r
  <2>3. q < B
    <3> SUFFICES ASSUME ~(q < B) PROVE FALSE
      OBVIOUS
    <3>1. PICK d \in Nat : q = B + d
      <4>1. q - B \in Nat /\ q = B + (q - B)
        BY <1>1, <2>1
      <4> QED
        BY <4>1
    <3>2. q * B = B * B + d * B /\ d * B \in Nat /\ B * B \in Nat
      BY <1>1, <3>1
    <3> QED
      BY <2>1, <3>2
  <2> QED
    BY <2>1, <2>2, <2>3 DEF q
<1> DEFINE Q == {k \in 0..IntLen : k >= 2 => S[k] = 0}
<1>5. 0 \in Q
  BY <1>1
<1>6. ASSUME NEW k \in 1..IntLen, k - 1 \in Q PROVE k \in Q
  <2>1. k \in 0..IntLen /\ S[k] = S[k - 1] \div B /\ (k - 1 >= 2 => S[k - 1] = 0)
    BY <1>1, <1>2, <1>6
  <2>2. CASE k = 1
    BY <2>1, <2>2
  <2>3. CASE k = 2
    <3>1. k - 1 = 1
      BY <2>3
    <3>2. S[k] = 0
      BY <1>3, <1>4, <2>1, <3>1
    <3> QED
      BY <2>1, <3>2
  <2>4. CASE k > 2
    <3>1. S[k - 1] = 0
      BY <2>1, <2>4
    <3>2. 0 \div B = 0
      BY <1>1, <1>3
    <3> QED
      BY <2>1, <3>1, <3>2
  <2>5. k = 1 \/ k = 2 \/ k > 2
    OBVIOUS
  <2> QED
    BY <2>2, <2>3, <2>4, <2>5
<1> HIDE DEF Q
<1>7. \A k \in 0..IntLen : k \in Q
  BY <1>1, <1>5, <1>6, Climb
<1>8. IntLen \in Q
  BY <1>1, <1>7
<1> QED
  BY <1>1, <1>8 DEF Q, S

\* Bytes that begin with the digits of x are read as x.
LEMMA BackAndThere ==
  ASSUME NEW x \in Nat, x < ByteBase * ByteBase, NEW bytes \in Bytes, IntLen <= Len(bytes),
         \A i \in 1..IntLen : bytes[i] = HostToNetwork(x)[i]
  PROVE  NetworkToHost(bytes) = x
<1> DEFINE U == UpTo(bytes)
           S == Shifted(x)
<1>1. IntLen \in Nat /\ ByteBase \in Nat \ {0}
  BY BufferBounds
<1>2. /\ U \in [0..IntLen -> Nat] /\ U[0] = 0
      /\ \A k \in 1..IntLen : U[k] = U[k - 1] * ByteBase + bytes[k]
  BY UpToIs
<1>3. NetworkToHost(bytes) = U[IntLen]
  BY DEF NetworkToHost
<1>4. /\ S \in [0..IntLen -> Nat] /\ S[0] = x /\ S[IntLen] = 0
      /\ \A k \in 1..IntLen : S[k] = S[k - 1] \div ByteBase
  BY ShiftedIs, TwoDigits
<1>5. \A i \in 1..IntLen : bytes[i] = S[IntLen - i] % ByteBase
  BY DEF HostToNetwork
<1> HIDE DEF S, U
<1> DEFINE Q == {k \in 0..IntLen : U[k] = S[IntLen - k]}
<1>6. 0 \in Q
  BY <1>1, <1>2, <1>4
<1>7. ASSUME NEW k \in 1..IntLen, k - 1 \in Q PROVE k \in Q
  <2> DEFINE j == (IntLen - k) + 1
  <2>1. j \in 1..IntLen /\ IntLen - (k - 1) = j /\ j - 1 = IntLen - k /\ j - 1 \in 0..IntLen /\ k \in 0..IntLen
    BY <1>1
  <2>2. U[k - 1] = S[j]
    BY <1>7, <2>1
  <2> HIDE DEF j
  <2> DEFINE y == S[j - 1]
  <2>3. S[j] = y \div ByteBase /\ bytes[k] = y % ByteBase /\ y \in Nat
    BY <1>4, <1>5, <2>1
  <2>4. U[k] = (y \div ByteBase) * ByteBase + (y % ByteBase)
    BY <1>2, <2>2, <2>3
  <2> HIDE DEF y
  <2>5. U[k] = y
    BY <1>1, <2>3, <2>4, Division
  <2> QED
    BY <2>1, <2>5 DEF y
<1> HIDE DEF Q
<1>8. \A k \in 0..IntLen : k \in Q
  BY <1>1, <1>6, <1>7, Climb
<1>9. U[IntLen] = S[IntLen - IntLen] /\ IntLen - IntLen = 0
  BY <1>1, <1>8 DEF Q
<1> QED
  BY <1>3, <1>4, <1>9

\* The part of s that agrees with t.
LEMMA PartIs ==
  ASSUME NEW s \in Bytes, NEW t \in Bytes, NEW m \in Nat, NEW n \in Nat, n = m + Len(t), n <= Len(s),
         \A i \in 1..Len(t) : s[m + i] = t[i]
  PROVE  SubSeq(s, m + 1, n) = t
<1> DEFINE p == SubSeq(s, m + 1, n)
<1>1. Len(t) \in Nat /\ m <= n /\ n - m = Len(t)
  BY LenProperties DEF Bytes
<1>2. p \in Bytes /\ Len(p) = n - m /\ \A i \in 1..(n - m) : p[i] = s[m + i]
  BY <1>1, Slice
<1> HIDE DEF p
<1>3. \A i \in 1..Len(p) : p[i] = t[i]
  BY <1>1, <1>2
<1>4. p = t
  BY <1>1, <1>2, <1>3, SameBytes
<1> QED
  BY <1>4 DEF p

\* What lies behind the header of a frame, for a message of three bytes.
Body(m) == tag_ \o m
Packed(m) == Body(m) \o HostToNetwork(checksum(Body(m)))
MessageLen == kMinMessageLen + 3
FrameLen == kHeaderLen + MessageLen
ShortMessages == {m \in Bytes : Len(m) = 3}

\* The lengths are natural numbers.
LEMMA Lengths3 ==
  /\ Len(tag_) \in Nat /\ IntLen \in Nat /\ tag_ \in Bytes /\ kMaxMessageLen \in Nat
  /\ kHeaderLen = IntLen /\ kChecksumLen = IntLen
  /\ kMinMessageLen = Len(tag_) + IntLen /\ kMinMessageLen \in Nat
  /\ MessageLen = Len(tag_) + 3 + IntLen /\ MessageLen \in Nat
  /\ FrameLen = IntLen + MessageLen /\ FrameLen \in Nat
<1>1. Len(tag_) \in Nat /\ IntLen \in Nat /\ tag_ \in Bytes /\ kMaxMessageLen \in Nat
  BY CodecBounds, BufferBounds, LenProperties DEF Bytes
<1> QED
  BY <1>1 DEF kHeaderLen, kChecksumLen, kMinMessageLen, MessageLen, FrameLen

\* What a packed message is made of.
LEMMA PackedIs ==
  ASSUME NEW m \in ShortMessages
  PROVE  /\ m \in Bytes /\ Len(m) = 3 /\ Body(m) \in Bytes /\ Len(Body(m)) = Len(tag_) + 3
         /\ Packed(m) \in Bytes /\ Len(Packed(m)) = MessageLen
         /\ \A i \in 1..Len(tag_) : Packed(m)[i] = tag_[i]
         /\ \A i \in 1..3 : Packed(m)[Len(tag_) + i] = m[i]
         /\ \A i \in 1..(Len(tag_) + 3) : Packed(m)[i] = Body(m)[i]
         /\ \A i \in 1..IntLen :
              Packed(m)[(Len(tag_) + 3) + i] = HostToNetwork(checksum(Body(m)))[i]
         /\ HostToNetwork(checksum(Body(m))) \in Bytes
         /\ Len(HostToNetwork(checksum(Body(m)))) = IntLen
<1> DEFINE b == Body(m)
           c == HostToNetwork(checksum(b))
           p == Packed(m)
           g == Len(tag_)
<1>1. m \in Bytes /\ Len(m) = 3
  BY DEF ShortMessages
<1>2. g \in Nat /\ IntLen \in Nat /\ tag_ \in Bytes /\ MessageLen = g + 3 + IntLen
  BY Lengths3
<1>3. /\ b \in Bytes /\ Len(b) = g + 3 /\ \A i \in 1..g : b[i] = tag_[i]
      /\ \A i \in 1..3 : b[g + i] = m[i]
  <2>1. /\ tag_ \o m \in Bytes /\ Len(tag_ \o m) = Len(tag_) + Len(m)
        /\ \A i \in 1..Len(tag_) : (tag_ \o m)[i] = tag_[i]
        /\ \A i \in 1..Len(m) : (tag_ \o m)[Len(tag_) + i] = m[i]
    BY <1>1, <1>2, Joined
  <2>2. b = tag_ \o m
    BY DEF Body
  <2> HIDE DEF b
  <2> QED
    BY <1>1, <2>1, <2>2
<1> HIDE DEF b
<1>4. c \in Bytes /\ Len(c) = IntLen
  BY <1>3, ChecksumFits, ToNetwork
<1>5. p = b \o c
  BY DEF Packed, b
<1> HIDE DEF c, p
<1>6. /\ p \in Bytes /\ Len(p) = (g + 3) + IntLen /\ \A i \in 1..(g + 3) : p[i] = b[i]
      /\ \A i \in 1..IntLen : p[(g + 3) + i] = c[i]
  <2>1. /\ b \o c \in Bytes /\ Len(b \o c) = Len(b) + Len(c)
        /\ \A i \in 1..Len(b) : (b \o c)[i] = b[i]
        /\ \A i \in 1..Len(c) : (b \o c)[Len(b) + i] = c[i]
    BY <1>3, <1>4, Joined
  <2> HIDE DEF g
  <2> QED
    BY <1>3, <1>4, <1>5, <2>1
<1> HIDE DEF g
<1>7. \A i \in 1..g : p[i] = tag_[i]
  <2>1. \A i \in 1..g : i \in 1..(g + 3)
    BY <1>2
  <2> QED
    BY <1>3, <1>6, <2>1
<1>8. \A i \in 1..3 : p[g + i] = m[i]
  <2>1. \A i \in 1..3 : g + i \in 1..(g + 3)
    BY <1>2
  <2> QED
    BY <1>3, <1>6, <2>1
<1>9. Len(p) = MessageLen
  BY <1>2, <1>6
<1> QED
  BY <1>1, <1>3, <1>4, <1>6, <1>7, <1>8, <1>9 DEF p, c, b, g

\* fillEmptyBuffer() writes the length, the tag, the message and the checksum.
LEMMA FrameIs ==
  ASSUME NEW m \in ShortMessages
  PROVE  /\ Content(fillEmptyBuffer(m)) = HostToNetwork(MessageLen) \o Packed(m)
         /\ Content(fillEmptyBuffer(m)) \in Bytes /\ Len(Content(fillEmptyBuffer(m))) = FrameLen
         /\ \A i \in 1..IntLen : Content(fillEmptyBuffer(m))[i] = HostToNetwork(MessageLen)[i]
         /\ \A i \in 1..MessageLen : Content(fillEmptyBuffer(m))[IntLen + i] = Packed(m)[i]
<1> DEFINE new == NewBuffer(kInitialSize)
           tagged == append(new, tag_)
           wide == ensureWritableBytes(tagged, Len(m) + kChecksumLen)
           serialized == append(wide, m)
           summed == appendInt32(serialized, checksum(Content(serialized)))
           h == HostToNetwork(MessageLen)
           f == Content(fillEmptyBuffer(m))
<1>0. fillEmptyBuffer(m) = prependInt32(summed, readableBytes(summed))
  BY DEF fillEmptyBuffer
<1>1. /\ m \in Bytes /\ Len(m) = 3 /\ Body(m) \in Bytes
      /\ Packed(m) \in Bytes /\ Len(Packed(m)) = MessageLen
      /\ HostToNetwork(checksum(Body(m))) \in Bytes
  BY PackedIs
<1>2. /\ tag_ \in Bytes /\ MessageLen \in Nat /\ FrameLen = IntLen + MessageLen
      /\ Len(m) + kChecksumLen \in Nat /\ kInitialSize \in Nat /\ IntLen \in Nat
  BY <1>1, Lengths3, BufferBounds
<1>3. BufferOK(new) /\ Content(new) = <<>> /\ new.readerIndex_ >= kCheapPrepend
  BY <1>2, NewBufferOK, BufferBounds
<1> HIDE DEF new
<1>4. BufferOK(tagged) /\ Content(tagged) = tag_ /\ tagged.readerIndex_ >= kCheapPrepend
  <2>1. BufferOK(tagged) /\ Content(tagged) = <<>> \o tag_ /\ tagged.readerIndex_ >= kCheapPrepend
    BY <1>2, <1>3, Appended
  <2>2. <<>> \o tag_ = tag_
    BY <1>2, ConcatEmptySeq DEF Bytes
  <2> QED
    BY <2>1, <2>2
<1> HIDE DEF tagged
<1>5. BufferOK(wide) /\ Content(wide) = tag_ /\ wide.readerIndex_ >= kCheapPrepend
  BY <1>2, <1>4, Ensured
<1> HIDE DEF wide
<1>6. BufferOK(serialized) /\ Content(serialized) = Body(m) /\ serialized.readerIndex_ >= kCheapPrepend
  BY <1>1, <1>5, Appended DEF Body
<1> HIDE DEF serialized
<1>7. BufferOK(summed) /\ Content(summed) = Packed(m) /\ summed.readerIndex_ >= kCheapPrepend
  BY <1>1, <1>6, Appended DEF appendInt32, Packed
<1> HIDE DEF summed
<1>8. readableBytes(summed) = MessageLen
  BY <1>1, <1>7, ContentIs
<1>9. h \in Bytes /\ Len(h) = IntLen
  BY <1>2, ToNetwork
<1>10. Len(h) <= prependableBytes(summed)
  <2>1. summed.readerIndex_ \in Nat
    BY <1>7 DEF BufferOK, Buffers
  <2> QED
    BY <1>7, <1>9, <2>1, CodecBounds, BufferBounds DEF prependableBytes
<1>11. f = h \o Packed(m)
  BY <1>0, <1>7, <1>8, <1>9, <1>10, Prepended DEF prependInt32
<1> HIDE DEF f, h
<1>12. /\ h \o Packed(m) \in Bytes /\ Len(h \o Packed(m)) = IntLen + MessageLen
       /\ \A i \in 1..IntLen : (h \o Packed(m))[i] = h[i]
       /\ \A i \in 1..MessageLen : (h \o Packed(m))[IntLen + i] = Packed(m)[i]
  <2>1. /\ h \o Packed(m) \in Bytes /\ Len(h \o Packed(m)) = Len(h) + Len(Packed(m))
        /\ \A i \in 1..Len(h) : (h \o Packed(m))[i] = h[i]
        /\ \A i \in 1..Len(Packed(m)) : (h \o Packed(m))[Len(h) + i] = Packed(m)[i]
    BY <1>1, <1>9, Joined
  <2> QED
    BY <1>1, <1>9, <2>1
<1> QED
  BY <1>2, <1>11, <1>12 DEF f, h

\* A packed message passes the checks of parse().
LEMMA PackedParses ==
  ASSUME NEW m \in ShortMessages, NEW messages, m \in messages
  PROVE  parse(Packed(m), messages) = "kNoError" /\ Payload(Packed(m)) = m
<1> DEFINE p == Packed(m)
           b == Body(m)
           c == HostToNetwork(checksum(b))
           g == Len(tag_)
           e == g + 3
           l == MessageLen
<1>1. /\ m \in Bytes /\ Len(m) = 3 /\ b \in Bytes /\ Len(b) = e /\ p \in Bytes /\ Len(p) = l
      /\ (\A i \in 1..g : p[i] = tag_[i]) /\ (\A i \in 1..3 : p[g + i] = m[i])
      /\ (\A i \in 1..e : p[i] = b[i]) /\ (\A i \in 1..IntLen : p[e + i] = c[i])
      /\ c \in Bytes /\ Len(c) = IntLen
  BY PackedIs
<1>2. g \in Nat /\ IntLen \in Nat /\ tag_ \in Bytes /\ l = e + IntLen /\ e \in Nat /\ l \in Nat
  BY Lengths3
<1>3. Len(p) - kChecksumLen = e
  BY <1>1, <1>2 DEF kChecksumLen
<1>4. checksum(b) \in Nat /\ checksum(b) < ByteBase * ByteBase
  BY <1>1, ChecksumFits
<1> HIDE DEF p, b, g, l
<1>5. SubSeq(p, e + 1, l) = c
  <2>1. l = e + Len(c) /\ l <= Len(p) /\ \A i \in 1..Len(c) : p[e + i] = c[i]
    BY <1>1, <1>2
  <2>2. p \in Bytes /\ c \in Bytes /\ e \in Nat /\ l \in Nat
    BY <1>1, <1>2
  <2> HIDE DEF c, e
  <2> QED
    BY <2>1, <2>2, PartIs
<1>6. SubSeq(p, 1, e) = b
  <2>1. e = 0 + Len(b) /\ e <= Len(p) /\ 0 \in Nat /\ \A i \in 1..Len(b) : p[0 + i] = b[i]
    BY <1>1, <1>2
  <2>2. SubSeq(p, 0 + 1, e) = b
    <3>1. p \in Bytes /\ b \in Bytes /\ e \in Nat
      BY <1>1, <1>2
    <3> HIDE DEF e
    <3> QED
      BY <2>1, <3>1, PartIs
  <2> QED
    BY <2>2
<1>7. SubSeq(p, 1, g) = tag_
  <2>1. g = 0 + Len(tag_) /\ g <= Len(p) /\ 0 \in Nat /\ \A i \in 1..Len(tag_) : p[0 + i] = tag_[i]
    BY <1>1, <1>2 DEF g
  <2>2. SubSeq(p, 0 + 1, g) = tag_
    <3>1. p \in Bytes /\ tag_ \in Bytes /\ g \in Nat
      BY <1>1, <1>2
    <3> QED
      BY <2>1, <3>1, PartIs
  <2> QED
    BY <2>2
<1>8. SubSeq(p, g + 1, e) = m
  <2>1. e = g + Len(m) /\ e <= Len(p) /\ \A i \in 1..Len(m) : p[g + i] = m[i]
    BY <1>1, <1>2
  <2> HIDE DEF e
  <2> QED
    BY <1>1, <1>2, <2>1, PartIs, ZenonT(25)
<1>9. NetworkToHost(c) = checksum(b)
  <2>1. IntLen <= Len(c) /\ \A i \in 1..IntLen : c[i] = HostToNetwork(checksum(b))[i]
    BY <1>1, <1>2
  <2> HIDE DEF c
  <2> QED
    BY <1>1, <1>4, <2>1, BackAndThere
<1>10. validateChecksum(p)
  BY <1>1, <1>3, <1>5, <1>6, <1>9 DEF validateChecksum
<1>11. Payload(p) = m
  BY <1>3, <1>8 DEF Payload, g
<1>12. SubSeq(p, 1, Len(tag_)) = tag_
  BY <1>7 DEF g
<1> HIDE DEF c, e
<1> QED
  BY <1>10, <1>11, <1>12 DEF parse, p

\* Bytes that begin alike are read as the same number.
LEMMA SameNumber ==
  ASSUME NEW s \in Bytes, NEW t \in Bytes, IntLen <= Len(s), IntLen <= Len(t),
         \A i \in 1..IntLen : s[i] = t[i]
  PROVE  NetworkToHost(s) = NetworkToHost(t) /\ NetworkToHost(t) \in Nat
<1> DEFINE U == UpTo(s)
           V == UpTo(t)
           Q == {k \in 0..IntLen : U[k] = V[k]}
<1>1. IntLen \in Nat
  BY BufferBounds
<1>2. U[0] = 0 /\ \A k \in 1..IntLen : U[k] = U[k - 1] * ByteBase + s[k]
  BY UpToIs
<1>3. V \in [0..IntLen -> Nat] /\ V[0] = 0 /\ \A k \in 1..IntLen : V[k] = V[k - 1] * ByteBase + t[k]
  BY UpToIs
<1>4. NetworkToHost(s) = U[IntLen] /\ NetworkToHost(t) = V[IntLen]
  BY DEF NetworkToHost
<1> HIDE DEF U, V
<1>5. 0 \in Q
  BY <1>1, <1>2, <1>3
<1>6. ASSUME NEW k \in 1..IntLen, k - 1 \in Q PROVE k \in Q
  <2>1. U[k - 1] = V[k - 1] /\ k \in 0..IntLen
    BY <1>1, <1>6
  <2> QED
    BY <1>2, <1>3, <2>1
<1> HIDE DEF Q
<1>7. \A k \in 0..IntLen : k \in Q
  BY <1>1, <1>5, <1>6, Climb
<1>8. U[IntLen] = V[IntLen] /\ V[IntLen] \in Nat
  BY <1>1, <1>3, <1>7 DEF Q
<1> QED
  BY <1>4, <1>8

\* The length in the header of a frame that has come that far.
LEMMA HeaderRead ==
  ASSUME NEW b, BufferOK(b), NEW m \in ShortMessages, IntLen <= readableBytes(b),
         \A i \in 1..IntLen : Content(b)[i] = Content(fillEmptyBuffer(m))[i]
  PROVE  /\ peekInt32(b) = MessageLen /\ MessageLen \in Nat
         /\ ~(MessageLen > kMaxMessageLen) /\ ~(MessageLen < kMinMessageLen)
<1>1. MessageLen \in Nat /\ MessageLen <= kMaxMessageLen /\ MessageLen < ByteBase * ByteBase
  BY RpcBounds, Lengths3 DEF MessageLen
<1>2. Content(b) \in Bytes /\ Len(Content(b)) = readableBytes(b)
  BY ContentIs
<1>3. \A i \in 1..IntLen : Content(b)[i] = HostToNetwork(MessageLen)[i]
  BY FrameIs
<1>4. NetworkToHost(Content(b)) = MessageLen
  BY <1>1, <1>2, <1>3, BackAndThere
<1>5. kMinMessageLen \in Nat /\ kMaxMessageLen \in Nat /\ MessageLen = kMinMessageLen + 3
  BY Lengths3 DEF MessageLen
<1> QED
  BY <1>1, <1>4, <1>5 DEF peekInt32

\* A whole frame at the front of the buffer is taken.
LEMMA FrameTaken ==
  ASSUME NEW b, BufferOK(b), NEW m \in ShortMessages, NEW messages, m \in messages,
         FrameLen <= Len(Content(b)),
         \A i \in 1..FrameLen : Content(b)[i] = Content(fillEmptyBuffer(m))[i]
  PROVE  /\ NextFrame(b, messages).code = "kNoError" /\ NextFrame(b, messages).payload = m
         /\ NextFrame(b, messages).rest = retrieve(b, FrameLen)
<1> DEFINE l == MessageLen
           c == Content(b)
           f == Content(fillEmptyBuffer(m))
           p == Packed(m)
           frame == SubSeq(c, IntLen + 1, IntLen + l)
<1>1. c \in Bytes /\ Len(c) = readableBytes(b) /\ readableBytes(b) \in Nat
  BY ContentIs
<1>2. /\ IntLen \in Nat /\ l \in Nat /\ FrameLen = IntLen + l /\ kHeaderLen = IntLen
      /\ kMinMessageLen \in Nat /\ l = kMinMessageLen + 3
  BY Lengths3 DEF MessageLen
<1>3. \A i \in 1..l : f[IntLen + i] = p[i]
  BY FrameIs
<1>4. p \in Bytes /\ Len(p) = l
  BY PackedIs
<1> HIDE DEF c, f, p, l
<1>5. \A i \in 1..FrameLen : c[i] = f[i]
  BY DEF c, f
<1>6. peekInt32(b) = l /\ ~(l > kMaxMessageLen) /\ ~(l < kMinMessageLen)
  <2>1. IntLen <= readableBytes(b)
    BY <1>1, <1>2 DEF c
  <2>2. \A i \in 1..IntLen : c[i] = f[i]
    <3>1. \A i \in 1..IntLen : i \in 1..FrameLen
      BY <1>2
    <3> QED
      BY <1>5, <3>1
  <2> QED
    BY <2>1, <2>2, HeaderRead DEF c, f, l
<1>7. HeaderArrived(b) /\ FrameArrived(b, l)
  BY <1>1, <1>2 DEF HeaderArrived, FrameArrived, c
<1>8. frame = p
  <2> DEFINE n == IntLen + l
  <2>1. n \in Nat /\ n = IntLen + Len(p) /\ n <= Len(c)
    BY <1>2, <1>4 DEF c
  <2>2. \A i \in 1..Len(p) : c[IntLen + i] = p[i]
    <3>1. \A i \in 1..l : IntLen + i \in 1..FrameLen
      BY <1>2
    <3> QED
      BY <1>3, <1>4, <1>5, <3>1
  <2> HIDE DEF n
  <2>3. SubSeq(c, IntLen + 1, n) = p
    BY <1>1, <1>2, <1>4, <2>1, <2>2, PartIs
  <2> QED
    BY <2>3 DEF n
<1>9. parse(p, messages) = "kNoError" /\ Payload(p) = m
  BY PackedParses DEF p
<1>10. NextFrame(b, messages)
         = [code |-> parse(frame, messages), payload |-> Payload(frame), rest |-> retrieve(b, IntLen + l)]
  BY <1>2, <1>6, <1>7 DEF NextFrame, c
<1> HIDE DEF frame
<1> QED
  BY <1>2, <1>8, <1>9, <1>10

\* A frame that is not whole is waited for.
LEMMA FrameAwaited ==
  ASSUME NEW b, BufferOK(b), NEW m \in ShortMessages, NEW messages,
         Len(Content(b)) < FrameLen,
         \A i \in 1..Len(Content(b)) : Content(b)[i] = Content(fillEmptyBuffer(m))[i]
  PROVE  NextFrame(b, messages).code = "wait"
<1>1. Len(Content(b)) = readableBytes(b) /\ readableBytes(b) \in Nat
  BY ContentIs
<1>2. CASE ~HeaderArrived(b)
  BY <1>2 DEF NextFrame
<1>3. CASE HeaderArrived(b)
  <2>1. IntLen <= readableBytes(b) /\ IntLen \in Nat /\ FrameLen = IntLen + MessageLen /\ kHeaderLen = IntLen
    BY <1>1, <1>3, Lengths3 DEF HeaderArrived
  <2>2. \A i \in 1..IntLen : Content(b)[i] = Content(fillEmptyBuffer(m))[i]
    <3>1. \A i \in 1..IntLen : i \in 1..Len(Content(b))
      BY <1>1, <2>1
    <3> QED
      BY <3>1
  <2>3. /\ peekInt32(b) = MessageLen /\ MessageLen \in Nat
        /\ ~(MessageLen > kMaxMessageLen) /\ ~(MessageLen < kMinMessageLen)
    BY <2>1, <2>2, HeaderRead
  <2>4. ~FrameArrived(b, MessageLen)
    BY <1>1, <2>1, <2>3 DEF FrameArrived
  <2> QED
    BY <1>3, <2>3, <2>4 DEF NextFrame
<1> QED
  BY <1>2, <1>3

\* Nothing is taken from the bytes of a stranger.
LEMMA StrayRefused ==
  ASSUME NEW b, BufferOK(b), NEW bytes \in Strays, bytes # <<>>,
         \A i \in 1..Len(Content(b)) : i <= Len(bytes) => Content(b)[i] = bytes[i]
  PROVE  NextFrame(b, RpcMessages).code # "kNoError"
<1> DEFINE c == Content(b)
           len == NetworkToHost(bytes)
           part == SubSeq(bytes, kHeaderLen + 1, kHeaderLen + len)
           frame == SubSeq(c, kHeaderLen + 1, kHeaderLen + len)
<1>1. c \in Bytes /\ Len(c) = readableBytes(b) /\ readableBytes(b) \in Nat
  BY ContentIs
<1>2. /\ bytes \in Bytes /\ Len(bytes) >= kMinMessageLen + kHeaderLen
      /\ \/ len > kMaxMessageLen \/ len < kMinMessageLen
         \/ Len(bytes) >= kHeaderLen + len /\ parse(part, RpcMessages) # "kNoError"
  BY RpcBounds DEF Bytes
<1>3. Len(bytes) \in Nat
  BY <1>2, LenProperties DEF Bytes
<1>4. /\ kHeaderLen = IntLen /\ IntLen \in Nat /\ kMinMessageLen \in Nat
  BY Lengths3
<1> HIDE DEF c, len
<1>5. CASE ~HeaderArrived(b)
  BY <1>5 DEF NextFrame
<1>6. CASE HeaderArrived(b)
  <2>1. IntLen <= Len(c) /\ IntLen <= Len(bytes)
    BY <1>1, <1>2, <1>3, <1>4, <1>6 DEF HeaderArrived, c
  <2>2. \A i \in 1..IntLen : c[i] = bytes[i]
    <3>1. \A i \in 1..IntLen : i \in 1..Len(c) /\ i <= Len(bytes)
      BY <1>1, <1>3, <1>4, <2>1
    <3> QED
      BY <3>1 DEF c
  <2>3. NetworkToHost(c) = len /\ len \in Nat
    BY <1>1, <1>2, <2>1, <2>2, SameNumber DEF len
  <2>4. peekInt32(b) = len
    BY <2>3 DEF peekInt32, c
  <2>5. CASE len > kMaxMessageLen \/ len < kMinMessageLen
    BY <1>6, <2>4, <2>5 DEF NextFrame
  <2>6. CASE ~(len > kMaxMessageLen \/ len < kMinMessageLen) /\ ~FrameArrived(b, len)
    BY <1>6, <2>4, <2>6 DEF NextFrame
  <2>7. CASE ~(len > kMaxMessageLen \/ len < kMinMessageLen) /\ FrameArrived(b, len)
    <3> DEFINE k == kHeaderLen
               n == kHeaderLen + len
    <3>1. /\ k \in Nat /\ n \in Nat /\ k <= n /\ n <= Len(c) /\ n <= Len(bytes)
          /\ parse(part, RpcMessages) # "kNoError"
      BY <1>1, <1>2, <1>3, <1>4, <2>3, <2>7 DEF FrameArrived, c
    <3> HIDE DEF k, n
    <3>2. /\ SubSeq(bytes, k + 1, n) \in Bytes /\ Len(SubSeq(bytes, k + 1, n)) = n - k
          /\ \A i \in 1..(n - k) : SubSeq(bytes, k + 1, n)[i] = bytes[k + i]
      BY <1>2, <3>1, Slice
    <3>3. /\ SubSeq(c, k + 1, n) \in Bytes /\ Len(SubSeq(c, k + 1, n)) = n - k
          /\ \A i \in 1..(n - k) : SubSeq(c, k + 1, n)[i] = c[k + i]
      BY <1>1, <3>1, Slice
    <3>4. \A i \in 1..(n - k) : c[k + i] = bytes[k + i]
      <4>1. \A i \in 1..(n - k) : k + i \in 1..Len(c) /\ k + i <= Len(bytes)
        BY <1>1, <1>3, <3>1
      <4> QED
        BY <4>1 DEF c
    <3>5. SubSeq(c, k + 1, n) = SubSeq(bytes, k + 1, n)
      <4> DEFINE x == SubSeq(c, k + 1, n)
                 y == SubSeq(bytes, k + 1, n)
      <4>1. x \in Bytes /\ y \in Bytes /\ Len(x) = Len(y) /\ \A i \in 1..Len(x) : x[i] = y[i]
        BY <3>2, <3>3, <3>4
      <4> HIDE DEF x, y
      <4>2. x = y
        BY <4>1, SameBytes
      <4> QED
        BY <4>2 DEF x, y
    <3>6. frame = part
      BY <3>5 DEF k, n
    <3>7. NextFrame(b, RpcMessages)
            = [code |-> parse(frame, RpcMessages), payload |-> Payload(frame),
               rest |-> retrieve(b, kHeaderLen + len)]
      BY <1>6, <2>4, <2>7 DEF NextFrame, c
    <3> HIDE DEF frame, part
    <3> QED
      BY <3>1, <3>6, <3>7
  <2> QED
    BY <2>5, <2>6, <2>7
<1> QED
  BY <1>5, <1>6

-----------------------------------------------------------------------------
(* The stream of frames *)

\* Everything that can be sent is a message of three bytes that the peer can parse.
LEMMA PayloadsAre ==
  /\ Ids \subseteq Digits /\ Payloads \subseteq ShortMessages /\ Payloads \subseteq RpcMessages
  /\ Cardinality(Callers) \in Nat
<1>1. Cardinality(Callers) \in Nat /\ Cardinality(Callers) < ByteBase /\ 9 < ByteBase /\ ByteBase \in Nat
  BY RpcBounds, BufferBounds, FS_CardinalityType DEF Result
<1>2. Ids \subseteq Digits /\ Digits \subseteq Nat
  BY <1>1 DEF Ids, Digits
<1>3. {0, 1, 2, 3, 4, 9} \subseteq Digits
  BY <1>1 DEF Digits
<1>4. ASSUME NEW m \in Payloads PROVE m \in ShortMessages /\ m \in RpcMessages
  <2>1. PICK k \in {1, 2}, id \in Ids, a \in {0, 1, 2, 3, 4, 9} : m = <<k, id, a>>
    BY <1>4 DEF Payloads, REQUEST, RESPONSE, Asks, Good, NO_SERVICE, NO_METHOD, INVALID_REQUEST, Result
  <2>2. k \in Nat /\ id \in Nat /\ a \in Nat /\ id \in Digits /\ a \in Digits
    BY <1>2, <1>3
  <2>3. <<k, id, a>> \in Seq(Nat) /\ Len(<<k, id, a>>) = 3
    BY <2>2
  <2>4. <<k, id, a>> \in {1, 2} \X Digits \X Digits
    BY <2>2
  <2> QED
    BY <2>1, <2>3, <2>4 DEF ShortMessages, Bytes, RpcMessages, REQUEST, RESPONSE, Digits
<1> QED
  BY <1>1, <1>2, <1>4

\* The frames of what can be sent.
LEMMA FramesAre ==
  ASSUME NEW m \in Payloads
  PROVE  Frames[m] = Content(fillEmptyBuffer(m)) /\ Frames[m] \in Bytes /\ Len(Frames[m]) = FrameLen
<1>1. m \in ShortMessages
  BY PayloadsAre
<1>2. Frames[m] = Content(fillEmptyBuffer(m))
  BY DEF Frames
<1> QED
  BY <1>1, <1>2, FrameIs

\* The bytes are the frames of the messages ms, one behind the other.
Carries(stream, ms) ==
  /\ stream \in Bytes /\ ms \in Seq(Payloads)
  /\ Len(stream) = Len(ms) * FrameLen
  /\ \A j \in 1..Len(ms) : \A i \in 1..FrameLen : stream[(j - 1) * FrameLen + i] = Frames[ms[j]][i]

\* Where the i-th byte of the j-th frame of n lies.
LEMMA Places ==
  ASSUME NEW n \in Nat, NEW l \in Nat, NEW j \in 1..n, NEW i \in 1..l
  PROVE  /\ (j - 1) * l + i \in 1..(n * l) /\ (j - 1) * l \in Nat
         /\ j * l = (j - 1) * l + l
<1>1. PICK d \in Nat : n = j + d
  <2>1. n - j \in Nat /\ n = j + (n - j)
    OBVIOUS
  <2> QED
    BY <2>1
<1> DEFINE e == j - 1
<1>2. e \in Nat /\ j = e + 1
  OBVIOUS
<1> HIDE DEF e
<1>3. n * l = e * l + l + d * l /\ e * l \in Nat /\ d * l \in Nat /\ j * l = e * l + l
  BY <1>1, <1>2
<1> QED
  BY <1>3 DEF e

\* Another frame is put on the wire.
LEMMA CarriesMore ==
  ASSUME NEW st, NEW ms, Carries(st, ms), NEW m \in Payloads
  PROVE  Carries(st \o Frames[m], Append(ms, m))
<1> DEFINE L == FrameLen
           n == Len(ms)
           f == Frames[m]
           sf == st \o f
           ns == Append(ms, m)
<1>1. L \in Nat
  BY Lengths3
<1>2. f \in Bytes /\ Len(f) = L
  BY FramesAre
<1>3. /\ st \in Bytes /\ ms \in Seq(Payloads) /\ Len(st) = n * L /\ n \in Nat
      /\ \A j \in 1..n : \A i \in 1..L : st[(j - 1) * L + i] = Frames[ms[j]][i]
  BY DEF Carries
<1> HIDE DEF f, n, L
<1>4. /\ sf \in Bytes /\ Len(sf) = n * L + L /\ (\A i \in 1..(n * L) : sf[i] = st[i])
      /\ \A i \in 1..L : sf[n * L + i] = f[i]
  <2>1. /\ st \o f \in Bytes /\ Len(st \o f) = Len(st) + Len(f)
        /\ \A i \in 1..Len(st) : (st \o f)[i] = st[i]
        /\ \A i \in 1..Len(f) : (st \o f)[Len(st) + i] = f[i]
    BY <1>2, <1>3, Joined
  <2> QED
    BY <1>2, <1>3, <2>1
<1>5. ns \in Seq(Payloads) /\ Len(ns) = n + 1 /\ ns[n + 1] = m /\ \A j \in 1..n : ns[j] = ms[j]
  BY <1>3, AppendProperties DEF n
<1> HIDE DEF sf, ns
<1>6. Len(sf) = Len(ns) * L
  <2>1. (n + 1) * L = n * L + L
    BY <1>1, <1>3
  <2> QED
    BY <1>4, <1>5, <2>1
<1>7. ASSUME NEW j \in 1..(n + 1), NEW i \in 1..L PROVE sf[(j - 1) * L + i] = Frames[ns[j]][i]
  <2>1. CASE j \in 1..n
    <3>1. (j - 1) * L + i \in 1..(n * L)
      BY <1>1, <1>3, <2>1, Places
    <3> QED
      BY <1>3, <1>4, <1>5, <2>1, <3>1
  <2>2. CASE j = n + 1
    <3>1. (j - 1) * L + i = n * L + i
      BY <1>3, <2>2
    <3> QED
      BY <1>4, <1>5, <2>2, <3>1 DEF f
  <2> QED
    BY <1>3, <2>1, <2>2
<1>8. sf \in Bytes /\ ns \in Seq(Payloads) /\ Len(sf) = Len(ns) * L
      /\ \A j \in 1..Len(ns) : \A i \in 1..L : sf[(j - 1) * L + i] = Frames[ns[j]][i]
  BY <1>4, <1>5, <1>6, <1>7
<1>9. Carries(sf, ns)
  BY <1>8 DEF Carries, L
<1> QED
  BY <1>9 DEF sf, f, ns

\* The first frame of a stream, and the stream without it.
LEMMA CarriesFirst ==
  ASSUME NEW st, NEW ms, Carries(st, ms), ms # <<>>
  PROVE  /\ ms[1] \in Payloads /\ Tail(ms) \in Seq(Payloads) /\ FrameLen <= Len(st)
         /\ \A i \in 1..FrameLen : st[i] = Frames[ms[1]][i]
         /\ Carries(SubSeq(st, FrameLen + 1, Len(st)), Tail(ms))
<1> DEFINE L == FrameLen
           n == Len(ms)
           z == Len(st)
           t == SubSeq(st, L + 1, z)
           ns == Tail(ms)
<1>1. L \in Nat
  BY Lengths3
<1>2. /\ st \in Bytes /\ ms \in Seq(Payloads) /\ z = n * L /\ n \in Nat /\ z \in Nat
      /\ \A j \in 1..n : \A i \in 1..L : st[(j - 1) * L + i] = Frames[ms[j]][i]
  BY LenProperties DEF Carries, Bytes
<1>3. n >= 1 /\ ms[1] \in Payloads
  BY <1>2
<1>4. ns \in Seq(Payloads) /\ Len(ns) = n - 1 /\ \A j \in 1..(n - 1) : ns[j] = ms[j + 1]
  BY <1>2, <1>3
<1> HIDE DEF L, n, ns
<1>5. n * L = (n - 1) * L + L /\ (n - 1) * L \in Nat
  <2> DEFINE k == n - 1
  <2>1. k \in Nat /\ n = k + 1
    BY <1>2, <1>3
  <2> HIDE DEF k
  <2>2. (k + 1) * L = k * L + L /\ k * L \in Nat
    BY <1>1, <2>1
  <2> QED
    BY <2>1, <2>2 DEF k
<1>6. L <= z /\ z - L = (n - 1) * L
  BY <1>1, <1>2, <1>5
<1>7. \A i \in 1..L : st[i] = Frames[ms[1]][i]
  <2>1. ASSUME NEW i \in 1..L PROVE st[i] = Frames[ms[1]][i]
    <3>1. 1 \in 1..n /\ (1 - 1) * L + i = i
      BY <1>1, <1>2, <1>3
    <3>2. st[(1 - 1) * L + i] = Frames[ms[1]][i]
      BY <1>2, <3>1
    <3> QED
      BY <3>1, <3>2
  <2> QED
    BY <2>1
<1>8. t \in Bytes /\ Len(t) = z - L /\ \A i \in 1..(z - L) : t[i] = st[L + i]
  <2>1. z <= Len(st)
    BY <1>2
  <2> HIDE DEF z
  <2> QED
    BY <1>1, <1>2, <1>6, <2>1, Slice
<1> HIDE DEF t, z
<1>9. ASSUME NEW j \in 1..(n - 1), NEW i \in 1..L PROVE t[(j - 1) * L + i] = Frames[ns[j]][i]
  <2> DEFINE k == (j - 1) * L + i
  <2>1. n - 1 \in Nat
    BY <1>2, <1>3
  <2>2. k \in 1..((n - 1) * L) /\ (j - 1) * L \in Nat /\ j * L = (j - 1) * L + L
    BY <1>1, <2>1, Places
  <2>3. j + 1 \in 1..n /\ ((j + 1) - 1) * L + i = L + k
    <3>1. j + 1 \in 1..n /\ (j + 1) - 1 = j
      BY <1>2
    <3> QED
      BY <1>1, <2>2, <3>1
  <2> HIDE DEF k
  <2>4. t[k] = st[L + k]
    BY <1>6, <1>8, <2>2
  <2>5. st[((j + 1) - 1) * L + i] = Frames[ms[j + 1]][i]
    BY <1>2, <2>3
  <2> QED
    BY <1>4, <2>3, <2>4, <2>5 DEF k
<1>10. /\ t \in Bytes /\ ns \in Seq(Payloads) /\ Len(t) = Len(ns) * L
       /\ \A j \in 1..Len(ns) : \A i \in 1..L : t[(j - 1) * L + i] = Frames[ns[j]][i]
  BY <1>4, <1>6, <1>8, <1>9
<1>11. Carries(t, ns)
  BY <1>10 DEF Carries, L
<1> QED
  BY <1>3, <1>4, <1>6, <1>7, <1>11 DEF L, t, ns, z

\* Nothing carries nothing.
LEMMA CarriesNothing == Carries(<<>>, <<>>)
<1>1. 0 * FrameLen = 0
  BY Lengths3
<1>2. <<>> \in Seq(Nat) /\ <<>> \in Seq(Payloads) /\ Len(<<>>) = 0 /\ 1..0 = {}
  OBVIOUS
<1> QED
  BY <1>1, <1>2 DEF Carries, Bytes

\* Bytes taken from the front of s are taken from the front of s and t.
LEMMA FrontTaken ==
  ASSUME NEW s \in Bytes, NEW t \in Bytes, NEW n \in Nat, n <= Len(s)
  PROVE  SubSeq(s, n + 1, Len(s)) \o t = SubSeq(s \o t, n + 1, Len(s \o t))
<1> DEFINE a == SubSeq(s, 1, n)
           b == SubSeq(s, n + 1, Len(s))
           bt == b \o t
           st == s \o t
<1>1. a \in Bytes /\ Len(a) = n
  BY FirstBytes
<1>2. Len(s) \in Nat /\ Len(t) \in Nat
  BY LenProperties DEF Bytes
<1>3. b \in Bytes
  BY <1>2, Slice
<1>4. a \o b = s
  BY Halves
<1> HIDE DEF a, b
<1>5. bt \in Bytes /\ Len(bt) \in Nat
  BY <1>3, Joined, LenProperties DEF Bytes
<1>6. st = a \o bt
  BY <1>1, <1>3, <1>4, InARow
<1> HIDE DEF bt, st
<1>7. /\ st \in Bytes /\ Len(st) = n + Len(bt) /\ \A i \in 1..Len(bt) : st[n + i] = bt[i]
  <2>1. /\ a \o bt \in Bytes /\ Len(a \o bt) = Len(a) + Len(bt)
        /\ \A i \in 1..Len(bt) : (a \o bt)[Len(a) + i] = bt[i]
    BY <1>1, <1>5, Joined
  <2> QED
    BY <1>1, <1>6, <2>1
<1> DEFINE z == Len(st)
<1>8. z \in Nat /\ z = n + Len(bt) /\ z <= Len(st)
  BY <1>5, <1>7
<1> HIDE DEF z
<1>9. SubSeq(st, n + 1, z) = bt
  BY <1>5, <1>7, <1>8, PartIs
<1> QED
  BY <1>9 DEF z, st, bt, b

-----------------------------------------------------------------------------
(* One direction of the connection: the buffer b of the receiver, the bytes w on their way *)
(* to it, the messages st sent to it and the messages gt dispatched there.                *)

\* The bytes are the frames of the messages that are sent and not yet dispatched.
Delivers(b, w, st, gt) ==
  \E ms \in Seq(Payloads) : st = gt \o ms /\ Carries(Content(b) \o w, ms)

Begins(bytes, stream) ==
  Len(bytes) <= Len(stream) /\ \A i \in 1..Len(bytes) : stream[i] = bytes[i]

\* The bytes begin with those of a stranger, and nothing has been dispatched.
Foreign(b, w, gt) ==
  gt = <<>> /\ \E bytes \in Strays \ {<<>>} : Begins(bytes, Content(b) \o w)

Line(side, b, w, st, gt) == Delivers(b, w, st, gt) \/ (side = "server" /\ Foreign(b, w, gt))

\* A message sent to this side.
LEMMA LineSend ==
  ASSUME NEW side, NEW b, BufferOK(b), NEW w \in Bytes, NEW st \in Seq(Payloads),
         NEW gt \in Seq(Payloads), Line(side, b, w, st, gt), NEW m \in Payloads
  PROVE  Line(side, b, w \o Frames[m], Append(st, m), gt)
<1> DEFINE c == Content(b)
           f == Frames[m]
<1>1. c \in Bytes /\ f \in Bytes
  BY ContentIs, FramesAre
<1>2. c \o (w \o f) = (c \o w) \o f
  BY <1>1, InARow
<1>3. CASE Delivers(b, w, st, gt)
  <2>1. PICK ms \in Seq(Payloads) : st = gt \o ms /\ Carries(c \o w, ms)
    BY <1>3 DEF Delivers
  <2>2. Carries((c \o w) \o f, Append(ms, m))
    BY <2>1, CarriesMore
  <2>3. Append(ms, m) \in Seq(Payloads) /\ Append(st, m) = gt \o Append(ms, m)
    <3>1. Append(st, m) = (gt \o ms) \o <<m>> /\ Append(ms, m) = ms \o <<m>> /\ <<m>> \in Seq(Payloads)
      BY <2>1, AppendIsConcat
    <3>2. (gt \o ms) \o <<m>> = gt \o (ms \o <<m>>)
      BY <3>1, ConcatAssociative
    <3> QED
      BY <3>1, <3>2
  <2>4. Delivers(b, w \o f, Append(st, m), gt)
    BY <1>2, <2>2, <2>3 DEF Delivers
  <2> QED
    BY <2>4, Zenon DEF Line
<1>4. CASE side = "server" /\ Foreign(b, w, gt)
  <2>1. PICK bytes \in Strays \ {<<>>} : gt = <<>> /\ Begins(bytes, c \o w)
    BY <1>4 DEF Foreign
  <2> DEFINE s == c \o w
  <2>2. s \in Bytes /\ Len(s) \in Nat
    BY <1>1, Joined, LenProperties DEF Bytes
  <2>0. Len(bytes) \in Nat
    BY RpcBounds, LenProperties
  <2> HIDE DEF s, f, c
  <2>3. Len(s \o f) = Len(s) + Len(f) /\ Len(f) \in Nat /\ \A i \in 1..Len(s) : (s \o f)[i] = s[i]
    BY <1>1, <2>2, Joined
  <2>4. Len(bytes) <= Len(s) /\ \A i \in 1..Len(bytes) : s[i] = bytes[i]
    BY <2>1 DEF Begins, s
  <2>5. \A i \in 1..Len(bytes) : i \in 1..Len(s)
    BY <2>0, <2>2, <2>4
  <2>6. Begins(bytes, s \o f)
    BY <2>0, <2>2, <2>3, <2>4, <2>5 DEF Begins
  <2>7. Foreign(b, w \o f, gt)
    BY <1>2, <2>1, <2>6 DEF Foreign, s, c
  <2> QED
    BY <1>4, <2>7 DEF Line, f
<1> QED
  BY <1>3, <1>4 DEF Line

\* Bytes read from the wire into the buffer.
LEMMA LineRead ==
  ASSUME NEW side, NEW b, BufferOK(b), NEW w \in Bytes, NEW st, NEW gt, Line(side, b, w, st, gt),
         NEW n \in Nat, n <= Len(w)
  PROVE  /\ BufferOK(readFd(b, SubSeq(w, 1, n))) /\ SubSeq(w, n + 1, Len(w)) \in Bytes
         /\ Line(side, readFd(b, SubSeq(w, 1, n)), SubSeq(w, n + 1, Len(w)), st, gt)
<1> DEFINE d == SubSeq(w, 1, n)
           v == SubSeq(w, n + 1, Len(w))
           e == readFd(b, d)
<1>1. d \in Bytes /\ d \o v = w /\ Content(b) \in Bytes
  BY FirstBytes, Halves, ContentIs
<1>2. v \in Bytes
  <2>1. Len(w) \in Nat
    BY LenProperties DEF Bytes
  <2> QED
    BY <2>1, Slice
<1> HIDE DEF d, v
<1>3. BufferOK(e) /\ Content(e) = Content(b) \o d
  BY <1>1, ReadIn
<1> HIDE DEF e
<1>4. Content(e) \o v = Content(b) \o w
  <2>1. (Content(b) \o d) \o v = Content(b) \o (d \o v)
    BY <1>1, <1>2, InARow, ZenonT(25)
  <2> QED
    BY <1>1, <1>3, <2>1
<1>5. Line(side, e, v, st, gt)
  BY <1>4 DEF Line, Delivers, Foreign
<1> QED
  BY <1>2, <1>3, <1>5 DEF e, d, v

\* A message that onMessage() takes from the buffer is the next one that was sent.
LEMMA LineTake ==
  ASSUME NEW side, NEW b, BufferOK(b), NEW w \in Bytes, NEW st \in Seq(Payloads),
         NEW gt \in Seq(Payloads), Line(side, b, w, st, gt),
         NextFrame(b, RpcMessages).code = "kNoError"
  PROVE  LET next == NextFrame(b, RpcMessages)
         IN  /\ next.payload \in Payloads /\ BufferOK(next.rest)
             /\ \E i \in 1..Len(st) : st[i] = next.payload
             /\ Line(side, next.rest, w, st, Append(gt, next.payload))
<1> DEFINE c == Content(b)
           s == c \o w
           next == NextFrame(b, RpcMessages)
<1>1. c \in Bytes /\ Len(c) = readableBytes(b) /\ Len(c) \in Nat
  BY ContentIs
<1>2. /\ s \in Bytes /\ Len(s) = Len(c) + Len(w) /\ Len(w) \in Nat /\ \A i \in 1..Len(c) : s[i] = c[i]
  BY <1>1, Joined
<1> HIDE DEF c
<1>3. ~Foreign(b, w, gt)
  <2> SUFFICES ASSUME Foreign(b, w, gt) PROVE FALSE
    OBVIOUS
  <2>1. PICK bytes \in Strays \ {<<>>} : Begins(bytes, s)
    BY DEF Foreign, c
  <2>2. \A i \in 1..Len(bytes) : s[i] = bytes[i]
    BY <2>1 DEF Begins
  <2>0. Len(bytes) \in Nat
    BY RpcBounds, LenProperties
  <2> HIDE DEF s
  <2>3. ASSUME NEW i \in 1..Len(c), i <= Len(bytes) PROVE c[i] = bytes[i]
    <3>1. i \in 1..Len(bytes)
      BY <1>1, <2>0, <2>3
    <3> QED
      BY <1>2, <2>2, <3>1
  <2>4. next.code # "kNoError"
    BY <2>3, StrayRefused DEF c
  <2> QED
    BY <2>4
<1>4. PICK ms \in Seq(Payloads) : st = gt \o ms /\ Carries(s, ms)
  BY <1>3 DEF Line, Delivers, c
<1> HIDE DEF s
<1>5. ms # <<>>
  <2> SUFFICES ASSUME ms = <<>> PROVE FALSE
    OBVIOUS
  <2>1. Len(s) = 0
    <3>1. Len(ms) = 0 /\ Len(s) = Len(ms) * FrameLen /\ FrameLen \in Nat
      BY <1>4, Lengths3 DEF Carries
    <3> QED
      BY <3>1
  <2>2. readableBytes(b) = 0
    BY <1>1, <1>2, <2>1
  <2>3. ~HeaderArrived(b)
    BY <2>2, Lengths3, CodecBounds DEF HeaderArrived
  <2> QED
    BY <2>3 DEF NextFrame
<1> DEFINE m == ms[1]
           L == FrameLen
           rest == retrieve(b, L)
<1>6. /\ m \in Payloads /\ Tail(ms) \in Seq(Payloads) /\ L <= Len(s) /\ L \in Nat
      /\ \A i \in 1..L : s[i] = Frames[m][i]
      /\ Carries(SubSeq(s, L + 1, Len(s)), Tail(ms))
  BY <1>4, <1>5, CarriesFirst, Lengths3
<1>7. m \in ShortMessages /\ m \in RpcMessages /\ Frames[m] = Content(fillEmptyBuffer(m))
  BY <1>6, PayloadsAre, FramesAre
<1> HIDE DEF m, L
<1>8. L <= Len(c)
  <2> SUFFICES ASSUME ~(L <= Len(c)) PROVE FALSE
    OBVIOUS
  <2>1. Len(c) < L /\ \A i \in 1..Len(c) : i \in 1..L
    BY <1>1, <1>6
  <2>2. \A i \in 1..Len(c) : c[i] = Content(fillEmptyBuffer(m))[i]
    BY <1>2, <1>6, <1>7, <2>1
  <2>3. next.code = "wait"
    BY <1>7, <2>1, <2>2, FrameAwaited DEF c, L
  <2> QED
    BY <2>3
<1>9. next.payload = m /\ next.rest = rest
  <2>1. \A i \in 1..L : c[i] = Content(fillEmptyBuffer(m))[i]
    <3>1. \A i \in 1..L : i \in 1..Len(c)
      BY <1>1, <1>6, <1>8
    <3> QED
      BY <1>2, <1>6, <1>7, <3>1
  <2> QED
    BY <1>7, <1>8, <2>1, FrameTaken DEF c, L
<1>10. BufferOK(rest) /\ Content(rest) = SubSeq(c, L + 1, Len(c))
  BY <1>1, <1>6, <1>8, Retrieved DEF c
<1>11. Content(rest) \o w = SubSeq(s, L + 1, Len(s))
  BY <1>1, <1>6, <1>8, <1>10, FrontTaken, ZenonT(25) DEF s
<1>12. st = Append(gt, m) \o Tail(ms)
  <2>1. ms = <<m>> \o Tail(ms) /\ <<m>> \in Seq(Payloads)
    BY <1>5, <1>6 DEF m
  <2>2. Append(gt, m) = gt \o <<m>>
    BY <1>6, AppendIsConcat
  <2>3. gt \o (<<m>> \o Tail(ms)) = (gt \o <<m>>) \o Tail(ms)
    BY <1>6, <2>1, ConcatAssociative, SMTT(20)
  <2> QED
    BY <1>4, <2>1, <2>2, <2>3
<1>13. \E i \in 1..Len(st) : st[i] = m
  <2> DEFINE k == Len(gt) + 1
  <2>1. Len(gt) \in Nat /\ Len(ms) \in Nat /\ Len(ms) >= 1
    BY <1>5
  <2>2. Len(st) = Len(gt) + Len(ms) /\ k \in 1..(Len(gt) + Len(ms)) /\ k - Len(gt) = 1 /\ ~(k <= Len(gt))
    BY <1>4, <2>1
  <2>3. st[k] = ms[k - Len(gt)]
    BY <1>4, <2>2, ConcatProperties
  <2>4. st[k] = m
    BY <2>2, <2>3 DEF m
  <2> HIDE DEF k
  <2> QED
    BY <2>2, <2>4
<1>14. Delivers(rest, w, st, Append(gt, m))
  BY <1>6, <1>11, <1>12 DEF Delivers
<1>15. Line(side, rest, w, st, Append(gt, m))
  BY <1>14, Zenon DEF Line
<1> HIDE DEF next, rest
<1>16. /\ next.payload \in Payloads /\ BufferOK(next.rest) /\ \E i \in 1..Len(st) : st[i] = next.payload
       /\ Line(side, next.rest, w, st, Append(gt, next.payload))
  BY <1>6, <1>9, <1>10, <1>13, <1>15
<1> QED
  BY <1>16 DEF next

\* What was dispatched is the beginning of what was sent.
LEMMA LineInOrder ==
  ASSUME NEW side, NEW b, NEW w, NEW st \in Seq(Payloads), NEW gt \in Seq(Payloads), Line(side, b, w, st, gt)
  PROVE  IsPrefix(gt, st)
<1>1. CASE gt = <<>>
  <2>1. Len(gt) = 0 /\ Len(st) \in Nat
    BY <1>1
  <2>2. SubSeq(gt, 1, 0) = <<>> /\ SubSeq(st, 1, 0) = <<>>
    BY <1>1
  <2> QED
    BY <2>1, <2>2 DEF IsPrefix
<1>2. CASE gt # <<>>
  <2>1. PICK ms \in Seq(Payloads) : st = gt \o ms
    BY <1>2 DEF Line, Delivers, Foreign
  <2>2. Len(gt) \in Nat /\ Len(ms) \in Nat /\ Len(st) = Len(gt) + Len(ms)
    BY <2>1
  <2>3. 1 \in 1..Len(gt) /\ Len(gt) \in 1..Len(gt)
    BY <1>2, <2>2
  <2>4. SubSeq(st, 1, Len(gt)) = SubSeq(gt, 1, Len(gt))
    BY <2>1, <2>3, SubSeqOfConcat1
  <2> QED
    BY <2>2, <2>4 DEF IsPrefix
<1> QED
  BY <1>1, <1>2

-----------------------------------------------------------------------------
(* RpcChannel *)

CallerStates == [at : 1..4, id : Nat, ask : Asks]

RpcTypeOK ==
  /\ id_ \in Nat
  /\ caller \in [Callers -> CallerStates]
  /\ wire \in [Sides -> Bytes]
  /\ inputBuffer_ \in [Sides -> Buffers] /\ \A s \in Sides : BufferOK(inputBuffer_[s])
  /\ asked \in Seq(Asks)
  /\ sent \in [Sides -> Seq(Payloads)] /\ received \in [Sides -> Seq(Payloads)]

\* The bytes of each direction are the frames of what is sent and not dispatched.
StreamsInOrder ==
  \A s \in Sides : Line(s, inputBuffer_[s], wire[s], sent[s], received[s])

\* A request names a call and what it asks, a response a call and its answer.
Honest(side, m, q) ==
  /\ m[2] \in 1..Len(q)
  /\ side = "server" => m[1] = REQUEST /\ m[3] = q[m[2]]
  /\ side = "client" => m[1] = RESPONSE /\ m[3] = AnswerTo[q[m[2]]]

SentAreHonest == \A s \in Sides : \A i \in 1..Len(sent[s]) : Honest(s, sent[s][i], asked)

\* The service keeps only requests that it can answer.
ServingIsHonest == \A id \in serving : id \in 1..Len(asked) /\ asked[id] = Good

\* Each caller has a number of its own.
CallsAreNumbered ==
  /\ id_ = Len(asked) /\ id_ = Cardinality({c \in Callers : caller[c].at > 1})
  /\ \A c \in Callers : caller[c].at > 1 => caller[c].id \in 1..id_ /\ caller[c].ask = asked[caller[c].id]
  /\ \A c, d \in Callers :
       caller[c].at > 1 /\ caller[d].at > 1 /\ caller[c].id = caller[d].id => c = d

\* What done was run for is no longer outstanding, and will not be again.
AnswersAreFinal ==
  /\ answered \in Seq((1..id_) \X Nat) /\ outstandings_ \subseteq 1..id_
  /\ \A i \in 1..Len(answered) :
       /\ answered[i][2] = AnswerTo[asked[answered[i][1]]]
       /\ answered[i][1] \notin outstandings_
  /\ \A i, j \in 1..Len(answered) : answered[i][1] = answered[j][1] => i = j
  /\ \A c \in Callers : caller[c].at = 2 =>
       /\ caller[c].id \notin outstandings_
       /\ \A i \in 1..Len(answered) : answered[i][1] # caller[c].id

RpcInv ==
  RpcTypeOK /\ StreamsInOrder /\ SentAreHonest /\ ServingIsHonest /\ CallsAreNumbered /\ AnswersAreFinal

\* What each request is answered with.
LEMMA AnswersAre ==
  /\ AnswerTo[Good] = Result /\ \A ask \in Asks : AnswerTo[ask] \in Nat
  /\ \A ask \in Asks : ask # Good => ErrorOf("server", ask) = AnswerTo[ask]
  /\ \A ask \in Asks, id \in Ids :
       <<REQUEST, id, ask>> \in Payloads /\ <<RESPONSE, id, AnswerTo[ask]>> \in Payloads
<1>1. AnswerTo[0] = 9 /\ AnswerTo[1] = 2 /\ AnswerTo[2] = 3 /\ AnswerTo[3] = 4
  <2> DEFINE t == <<9, 2, 3, 4>>
  <2>1. t[1] = 9 /\ t[2] = 2 /\ t[3] = 3 /\ t[4] = 4
    OBVIOUS
  <2>2. AnswerTo = [ask \in {0, 1, 2, 3} |-> t[ask + 1]]
    BY DEF AnswerTo, Asks, Good, NO_SERVICE, NO_METHOD, INVALID_REQUEST, Result
  <2> HIDE DEF t
  <2> QED
    BY <2>1, <2>2
<1> HIDE DEF AnswerTo
<1>2. \A ask \in Asks : AnswerTo[ask] \in {2, 3, 4, 9}
  BY <1>1 DEF Asks, Good
<1>3. \A ask \in Asks : ask # Good => ErrorOf("server", ask) = AnswerTo[ask]
  BY <1>1 DEF Asks, Good, ErrorOf, NO_SERVICE, NO_METHOD, INVALID_REQUEST
<1>4. \A ask \in Asks, id \in Ids : <<REQUEST, id, ask>> \in Payloads
  BY DEF Payloads
<1>5. ASSUME NEW ask \in Asks, NEW id \in Ids PROVE <<RESPONSE, id, AnswerTo[ask]>> \in Payloads
  <2>1. AnswerTo[ask] \in {NO_SERVICE, NO_METHOD, INVALID_REQUEST, Result}
    BY <1>2 DEF NO_SERVICE, NO_METHOD, INVALID_REQUEST, Result
  <2> QED
    BY <2>1 DEF Payloads
<1> QED
  BY <1>1, <1>2, <1>3, <1>4, <1>5 DEF Good, Result

\* The two sides.
LEMMA SidesAre ==
  /\ Sides = {"client", "server"} /\ Peer("client") = "server" /\ Peer("server") = "client"
BY DEF Sides, Peer

\* The numbers given out are ids.
LEMMA NumbersAreIds ==
  ASSUME RpcTypeOK, CallsAreNumbered
  PROVE  id_ \in Nat /\ id_ <= Cardinality(Callers) /\ 1..id_ \subseteq Ids
<1> DEFINE S == {c \in Callers : caller[c].at > 1}
<1>1. S \subseteq Callers /\ IsFiniteSet(Callers)
  BY RpcBounds
<1>2. Cardinality(S) <= Cardinality(Callers)
  BY <1>1, FS_Subset
<1>3. id_ \in Nat /\ id_ = Cardinality(S)
  BY DEF RpcTypeOK, CallsAreNumbered
<1> HIDE DEF S
<1>4. Cardinality(Callers) \in Nat
  BY PayloadsAre
<1> QED
  BY <1>2, <1>3, <1>4 DEF Ids

\* codec_.send() puts a frame behind those on their way to the peer, or nothing.
LEMMA SendPuts ==
  ASSUME RpcTypeOK, NEW from \in Sides, NEW m \in Payloads, Send(from, m)
  PROVE  /\ wire' \in [Sides -> Bytes] /\ sent' \in [Sides -> Seq(Payloads)]
         /\ wire'[from] = wire[from] /\ sent'[from] = sent[from]
         /\ \/ wire'[Peer(from)] = wire[Peer(from)] /\ sent'[Peer(from)] = sent[Peer(from)]
            \/ /\ wire'[Peer(from)] = wire[Peer(from)] \o Frames[m]
               /\ sent'[Peer(from)] = Append(sent[Peer(from)], m)
<1> DEFINE p == Peer(from)
<1>1. p \in Sides /\ p # from
  BY SidesAre
<1>2. wire \in [Sides -> Bytes] /\ sent \in [Sides -> Seq(Payloads)]
  BY DEF RpcTypeOK
<1> HIDE DEF p
<1>3. CASE connected[from]
  <2>1. wire' = [wire EXCEPT ![p] = @ \o Frames[m]] /\ sent' = [sent EXCEPT ![p] = Append(@, m)]
    BY <1>3 DEF Send, p
  <2>2. wire[p] \o Frames[m] \in Bytes /\ Append(sent[p], m) \in Seq(Payloads)
    BY <1>1, <1>2, FramesAre, Joined, AppendProperties
  <2>3. /\ wire' \in [Sides -> Bytes] /\ wire'[from] = wire[from]
        /\ wire'[p] = wire[p] \o Frames[m]
    BY <1>1, <1>2, <2>1, <2>2
  <2>4. /\ sent' \in [Sides -> Seq(Payloads)] /\ sent'[from] = sent[from]
        /\ sent'[p] = Append(sent[p], m)
    BY <1>1, <1>2, <2>1, <2>2
  <2> QED
    BY <2>3, <2>4 DEF p
<1>4. CASE ~connected[from]
  BY <1>2, <1>4 DEF Send
<1> QED
  BY <1>3, <1>4

\* A sent message keeps the peer's direction in order and what is sent to it honest.
LEMMA SendKeeps ==
  ASSUME RpcTypeOK, StreamsInOrder, SentAreHonest, NEW from \in Sides, NEW m \in Payloads, Send(from, m),
         Honest(Peer(from), m, asked)
  PROVE  LET p == Peer(from)
         IN  /\ Line(p, inputBuffer_[p], wire'[p], sent'[p], received[p])
             /\ \A s \in Sides : \A i \in 1..Len(sent'[s]) : Honest(s, sent'[s][i], asked)
<1> DEFINE p == Peer(from)
<1>1. p \in Sides /\ p # from /\ \A s \in Sides : s = p \/ s = from
  BY SidesAre
<1>2. /\ wire'[from] = wire[from] /\ sent'[from] = sent[from]
      /\ \/ wire'[p] = wire[p] /\ sent'[p] = sent[p]
         \/ wire'[p] = wire[p] \o Frames[m] /\ sent'[p] = Append(sent[p], m)
  BY SendPuts
<1>3. /\ wire[p] \in Bytes /\ sent[p] \in Seq(Payloads) /\ received[p] \in Seq(Payloads)
      /\ BufferOK(inputBuffer_[p])
  BY <1>1 DEF RpcTypeOK
<1>4. Line(p, inputBuffer_[p], wire[p], sent[p], received[p])
  BY <1>1 DEF StreamsInOrder
<1>0. Honest(p, m, asked)
  OBVIOUS
<1> HIDE DEF p
<1>5. Line(p, inputBuffer_[p], wire'[p], sent'[p], received[p])
  <2>1. Line(p, inputBuffer_[p], wire[p] \o Frames[m], Append(sent[p], m), received[p])
    BY <1>3, <1>4, LineSend
  <2> QED
    BY <1>2, <1>4, <2>1
<1>6. \A i \in 1..Len(sent'[p]) : Honest(p, sent'[p][i], asked)
  <2>1. CASE sent'[p] = sent[p]
    BY <1>1, <2>1 DEF SentAreHonest
  <2>2. CASE sent'[p] = Append(sent[p], m)
    <3> DEFINE n == Len(sent[p])
    <3>1. n \in Nat /\ Len(sent'[p]) = n + 1 /\ sent'[p][n + 1] = m /\ \A i \in 1..n : sent'[p][i] = sent[p][i]
      BY <1>3, <2>2, AppendProperties
    <3>2. \A i \in 1..n : Honest(p, sent[p][i], asked)
      BY <1>1 DEF SentAreHonest
    <3> HIDE DEF n
    <3>3. ASSUME NEW i \in 1..(n + 1) PROVE Honest(p, sent'[p][i], asked)
      <4>1. CASE i \in 1..n
        BY <3>1, <3>2, <4>1
      <4>2. CASE i = n + 1
        BY <1>0, <3>1, <4>2
      <4> QED
        BY <3>1, <4>1, <4>2
    <3> QED
      BY <3>1, <3>3
  <2> QED
    BY <1>2, <2>1, <2>2
<1>7. \A i \in 1..Len(sent'[from]) : Honest(from, sent'[from][i], asked)
  BY <1>2 DEF SentAreHonest
<1>8. \A s \in Sides : \A i \in 1..Len(sent'[s]) : Honest(s, sent'[s][i], asked)
  BY <1>1, <1>6, <1>7
<1> QED
  BY <1>5, <1>8 DEF p

\* The place of a caller in CallMethod().
LEMMA AtIs ==
  ASSUME RpcTypeOK, NEW c \in Callers
  PROVE  /\ caller[c] \in CallerStates
         /\ At(c, "number") => caller[c].at = 1
         /\ At(c, "insert") => caller[c].at = 2
         /\ At(c, "send") => caller[c].at = 3
<1>1. caller[c] \in CallerStates
  BY DEF RpcTypeOK
<1>2. caller[c].at \in 1..4
  BY <1>1 DEF CallerStates
<1> DEFINE t == CallSteps
           a == caller[c].at
<1>3. t[1] = "number" /\ t[2] = "insert" /\ t[3] = "send"
  BY DEF CallSteps
<1>4. \A step : At(c, step) => a <= 3 /\ t[a] = step
  BY DEF At
<1> HIDE DEF t, a
<1>5. At(c, "number") => a = 1
  BY <1>2, <1>3, <1>4 DEF a
<1>6. At(c, "insert") => a = 2
  BY <1>2, <1>3, <1>4 DEF a
<1>7. At(c, "send") => a = 3
  BY <1>2, <1>3, <1>4 DEF a
<1> QED
  BY <1>1, <1>5, <1>6, <1>7 DEF a

\* id_.incrementAndGet() gives a number that nobody has.
LEMMA NumberKeeps ==
  ASSUME RpcInv, NEW c \in Callers, NEW ask \in Asks, Number(c, ask)
  PROVE  RpcInv'
<1>1. /\ RpcTypeOK /\ StreamsInOrder /\ SentAreHonest /\ ServingIsHonest /\ CallsAreNumbered
      /\ AnswersAreFinal
  BY DEF RpcInv
<1> DEFINE k == id_ + 1
           me == [at |-> 2, id |-> k, ask |-> ask]
<1>2. /\ At(c, "number") /\ id_' = k /\ caller' = [caller EXCEPT ![c] = me]
      /\ asked' = Append(asked, ask)
      /\ outstandings_' = outstandings_ /\ wire' = wire /\ inputBuffer_' = inputBuffer_
      /\ serving' = serving /\ answered' = answered /\ sent' = sent /\ received' = received
  BY DEF Number
<1>3. caller[c].at = 1
  BY <1>1, <1>2, AtIs
<1>4. /\ id_ \in Nat /\ caller \in [Callers -> CallerStates] /\ asked \in Seq(Asks) /\ Len(asked) = id_
  BY <1>1 DEF RpcTypeOK, CallsAreNumbered
<1>5. /\ asked' \in Seq(Asks) /\ Len(asked') = k /\ asked'[k] = ask /\ \A i \in 1..id_ : asked'[i] = asked[i]
  BY <1>2, <1>4, AppendProperties
<1>6. /\ k \in Nat /\ \A i \in 1..id_ : i \in 1..k /\ i # k
  BY <1>4
<1>7. k \in 1..k
  BY <1>4
<1>8. /\ me \in CallerStates /\ me.at = 2 /\ me.id = k /\ me.ask = ask
  BY <1>6 DEF CallerStates
<1> HIDE DEF k, me
<1>9. /\ caller' \in [Callers -> CallerStates] /\ caller'[c] = me
      /\ \A d \in Callers : d # c => caller'[d] = caller[d]
  BY <1>2, <1>4, <1>8
<1>10. RpcTypeOK'
  BY <1>1, <1>2, <1>5, <1>6, <1>9 DEF RpcTypeOK
<1>11. StreamsInOrder'
  BY <1>1, <1>2 DEF StreamsInOrder
<1>12. SentAreHonest'
  <2>1. ASSUME NEW s \in Sides, NEW i \in 1..Len(sent[s]) PROVE Honest(s, sent[s][i], asked')
    <3>1. Honest(s, sent[s][i], asked)
      BY <1>1, <2>1 DEF SentAreHonest
    <3> QED
      BY <1>4, <1>5, <1>6, <3>1 DEF Honest
  <2> QED
    BY <1>2, <2>1 DEF SentAreHonest
<1>13. ServingIsHonest'
  BY <1>1, <1>2, <1>4, <1>5, <1>6 DEF ServingIsHonest
<1>14. CallsAreNumbered'
  <2> DEFINE S == {d \in Callers : caller[d].at > 1}
             T == {d \in Callers : caller'[d].at > 1}
  <2>1. id_ = Cardinality(S)
    BY <1>1 DEF CallsAreNumbered
  <2>2. T = S \cup {c} /\ c \notin S
    BY <1>3, <1>8, <1>9
  <2>3. IsFiniteSet(S)
    BY RpcBounds, FS_Subset
  <2> HIDE DEF S, T
  <2>4. Cardinality(T) = k
    BY <2>1, <2>2, <2>3, FS_AddElement DEF k
  <2>5. ASSUME NEW d \in Callers, caller'[d].at > 1
        PROVE  caller'[d].id \in 1..k /\ caller'[d].ask = asked'[caller'[d].id]
    <3>1. CASE d = c
      BY <1>5, <1>7, <1>8, <1>9, <3>1
    <3>2. CASE d # c
      <4>1. caller[d].id \in 1..id_ /\ caller[d].ask = asked[caller[d].id] /\ caller'[d] = caller[d]
        BY <1>1, <1>9, <2>5, <3>2 DEF CallsAreNumbered
      <4> QED
        BY <1>5, <1>6, <4>1
    <3> QED
      BY <3>1, <3>2
  <2>6. ASSUME NEW d \in Callers, NEW e \in Callers, caller'[d].at > 1, caller'[e].at > 1,
               caller'[d].id = caller'[e].id
        PROVE  d = e
    <3>0. ASSUME NEW g \in Callers, g # c, caller'[g].at > 1
          PROVE  caller'[g] = caller[g] /\ caller[g].at > 1 /\ caller[g].id # k
      <4>1. caller'[g] = caller[g] /\ caller[g].at > 1
        BY <1>9, <3>0
      <4>2. caller[g].id \in 1..id_
        BY <1>1, <4>1 DEF CallsAreNumbered
      <4> QED
        BY <1>6, <4>1, <4>2
    <3>1. CASE d # c /\ e # c
      BY <1>1, <2>6, <3>0, <3>1 DEF CallsAreNumbered
    <3>2. CASE d = c \/ e = c
      BY <1>8, <1>9, <2>6, <3>0, <3>2
    <3> QED
      BY <3>1, <3>2
  <2> QED
    BY <1>2, <1>5, <2>4, <2>5, <2>6 DEF CallsAreNumbered, T
<1>15. AnswersAreFinal'
  <2>1. /\ answered \in Seq((1..id_) \X Nat) /\ outstandings_ \subseteq 1..id_
        /\ \A i \in 1..Len(answered) : /\ answered[i][2] = AnswerTo[asked[answered[i][1]]]
                                       /\ answered[i][1] \notin outstandings_
        /\ \A i, j \in 1..Len(answered) : answered[i][1] = answered[j][1] => i = j
        /\ \A d \in Callers : caller[d].at = 2 =>
             /\ caller[d].id \notin outstandings_
             /\ \A i \in 1..Len(answered) : answered[i][1] # caller[d].id
    BY <1>1 DEF AnswersAreFinal
  <2>2. Len(answered) \in Nat /\ \A i \in 1..Len(answered) : answered[i] \in (1..id_) \X Nat
    BY <2>1
  <2>3. \A i \in 1..Len(answered) : answered[i][1] \in 1..id_
    BY <2>2
  <2>4. answered \in Seq((1..k) \X Nat)
    <3>1. \A i \in 1..Len(answered) : answered[i] \in (1..k) \X Nat
      BY <1>6, <2>2
    <3>2. answered = [i \in 1..Len(answered) |-> answered[i]]
      BY <2>1
    <3> QED
      BY <2>2, <3>1, <3>2
  <2>5. outstandings_ \subseteq 1..k /\ k \notin outstandings_
    BY <1>6, <2>1
  <2>6. \A i \in 1..Len(answered) : answered[i][2] = AnswerTo[asked'[answered[i][1]]]
    BY <1>5, <2>1, <2>3
  <2>7. \A i \in 1..Len(answered) : answered[i][1] # k
    BY <1>6, <2>3
  <2>8. ASSUME NEW d \in Callers, caller'[d].at = 2
        PROVE  /\ caller'[d].id \notin outstandings_
               /\ \A i \in 1..Len(answered) : answered[i][1] # caller'[d].id
    <3>1. CASE d = c
      BY <1>8, <1>9, <2>5, <2>7, <3>1
    <3>2. CASE d # c
      BY <1>9, <2>1, <2>8, <3>2
    <3> QED
      BY <3>1, <3>2
  <2> QED
    BY <1>2, <2>1, <2>4, <2>5, <2>6, <2>8 DEF AnswersAreFinal
<1> QED
  BY <1>10, <1>11, <1>12, <1>13, <1>14, <1>15 DEF RpcInv

\* A step of a caller behind the numbering.
LEMMA CallerGoes ==
  ASSUME RpcTypeOK, CallsAreNumbered, NEW c \in Callers, caller[c].at \in {2, 3}, Goes(c),
         id_' = id_, asked' = asked
  PROVE  /\ caller' \in [Callers -> CallerStates]
         /\ caller'[c].at = caller[c].at + 1
         /\ \A d \in Callers : caller'[d].id = caller[d].id /\ (d # c => caller'[d] = caller[d])
         /\ CallsAreNumbered'
<1>1. caller \in [Callers -> CallerStates] /\ caller' = [caller EXCEPT ![c].at = @ + 1]
  BY DEF RpcTypeOK, Goes
<1> DEFINE me == [caller[c] EXCEPT !.at = @ + 1]
<1>2. caller[c] \in CallerStates
  BY <1>1
<1>3. me \in CallerStates /\ me.at = caller[c].at + 1 /\ me.id = caller[c].id /\ me.ask = caller[c].ask
  BY <1>2 DEF CallerStates
<1>4. caller' = [caller EXCEPT ![c] = me]
  BY <1>1
<1> HIDE DEF me
<1>5. caller' \in [Callers -> CallerStates] /\ caller'[c] = me /\ \A d \in Callers : d # c => caller'[d] = caller[d]
  BY <1>1, <1>3, <1>4
<1>6. \A d \in Callers : /\ caller'[d].id = caller[d].id /\ caller'[d].ask = caller[d].ask
                         /\ (caller'[d].at > 1 <=> caller[d].at > 1)
  BY <1>3, <1>5
<1>7. {d \in Callers : caller'[d].at > 1} = {d \in Callers : caller[d].at > 1}
  BY <1>6
<1>8. CallsAreNumbered'
  BY <1>6, <1>7 DEF CallsAreNumbered
<1> QED
  BY <1>3, <1>5, <1>6, <1>8

\* outstandings_[id] = out, for an id that has not been there.
LEMMA InsertKeeps ==
  ASSUME RpcInv, NEW c \in Callers, Insert(c)
  PROVE  RpcInv'
<1>1. /\ RpcTypeOK /\ StreamsInOrder /\ SentAreHonest /\ ServingIsHonest /\ CallsAreNumbered
      /\ AnswersAreFinal
  BY DEF RpcInv
<1>2. /\ At(c, "insert") /\ Goes(c) /\ outstandings_' = outstandings_ \cup {caller[c].id}
      /\ id_' = id_ /\ asked' = asked /\ wire' = wire /\ inputBuffer_' = inputBuffer_
      /\ serving' = serving /\ answered' = answered /\ sent' = sent /\ received' = received
  BY DEF Insert
<1>3. caller[c].at = 2
  BY <1>1, <1>2, AtIs
<1>4. /\ caller' \in [Callers -> CallerStates] /\ caller'[c].at = 2 + 1 /\ CallsAreNumbered'
      /\ \A d \in Callers : caller'[d].id = caller[d].id /\ (d # c => caller'[d] = caller[d])
  BY <1>1, <1>2, <1>3, CallerGoes
<1>5. RpcTypeOK'
  BY <1>1, <1>2, <1>4 DEF RpcTypeOK
<1>6. StreamsInOrder' /\ SentAreHonest' /\ ServingIsHonest'
  BY <1>1, <1>2 DEF StreamsInOrder, SentAreHonest, ServingIsHonest
<1>7. /\ caller[c].id \in 1..id_ /\ caller[c].id \notin outstandings_
      /\ \A i \in 1..Len(answered) : answered[i][1] # caller[c].id
  BY <1>1, <1>3 DEF CallsAreNumbered, AnswersAreFinal
<1>8. ASSUME NEW d \in Callers, caller'[d].at = 2
      PROVE  /\ caller'[d].id \notin outstandings_'
             /\ \A i \in 1..Len(answered) : answered[i][1] # caller'[d].id
  <2>1. d # c /\ caller'[d] = caller[d] /\ caller[d].at = 2
    BY <1>4, <1>8
  <2>2. caller[d].id # caller[c].id
    BY <1>1, <1>3, <2>1 DEF CallsAreNumbered
  <2>3. /\ caller[d].id \notin outstandings_
        /\ \A i \in 1..Len(answered) : answered[i][1] # caller[d].id
    BY <1>1, <2>1 DEF AnswersAreFinal
  <2> QED
    BY <1>2, <2>1, <2>2, <2>3
<1>9. AnswersAreFinal'
  <2>1. /\ outstandings_' \subseteq 1..id_
        /\ \A i \in 1..Len(answered) : answered[i][1] \notin outstandings_'
    BY <1>1, <1>2, <1>7 DEF AnswersAreFinal
  <2> QED
    BY <1>1, <1>2, <1>8, <2>1 DEF AnswersAreFinal
<1> QED
  BY <1>4, <1>5, <1>6, <1>9 DEF RpcInv

\* The request goes out with the number and the question of its caller.
LEMMA SendCallKeeps ==
  ASSUME RpcInv, NEW c \in Callers, SendCall(c)
  PROVE  RpcInv'
<1>1. /\ RpcTypeOK /\ StreamsInOrder /\ SentAreHonest /\ ServingIsHonest /\ CallsAreNumbered
      /\ AnswersAreFinal
  BY DEF RpcInv
<1> DEFINE m == <<REQUEST, caller[c].id, caller[c].ask>>
<1>2. /\ At(c, "send") /\ Goes(c) /\ Send("client", m) /\ outstandings_' = outstandings_
      /\ id_' = id_ /\ asked' = asked /\ inputBuffer_' = inputBuffer_
      /\ serving' = serving /\ answered' = answered /\ received' = received
  BY DEF SendCall
<1>3. caller[c].at = 3 /\ caller[c] \in CallerStates
  BY <1>1, <1>2, AtIs
<1>4. /\ caller' \in [Callers -> CallerStates] /\ caller'[c].at = 3 + 1 /\ CallsAreNumbered'
      /\ \A d \in Callers : caller'[d].id = caller[d].id /\ (d # c => caller'[d] = caller[d])
  BY <1>1, <1>2, <1>3, CallerGoes
<1>5. caller[c].id \in 1..id_ /\ caller[c].ask = asked[caller[c].id] /\ id_ = Len(asked)
  BY <1>1, <1>3 DEF CallsAreNumbered
<1>6. m \in Payloads
  <2>1. caller[c].id \in Ids
    BY <1>1, <1>5, NumbersAreIds
  <2>2. caller[c].ask \in Asks
    BY <1>3 DEF CallerStates
  <2> QED
    BY <2>1, <2>2, AnswersAre
<1>7. Honest("server", m, asked)
  BY <1>5 DEF Honest
<1> HIDE DEF m
<1>8. "client" \in Sides /\ Peer("client") = "server" /\ Sides = {"client", "server"}
  BY SidesAre
<1>9. /\ wire' \in [Sides -> Bytes] /\ sent' \in [Sides -> Seq(Payloads)]
      /\ wire'["client"] = wire["client"] /\ sent'["client"] = sent["client"]
  BY <1>1, <1>2, <1>6, <1>8, SendPuts
<1>10. /\ Line("server", inputBuffer_["server"], wire'["server"], sent'["server"], received["server"])
       /\ \A s \in Sides : \A i \in 1..Len(sent'[s]) : Honest(s, sent'[s][i], asked)
  BY <1>1, <1>2, <1>6, <1>7, <1>8, SendKeeps
<1>11. RpcTypeOK'
  BY <1>1, <1>2, <1>4, <1>9 DEF RpcTypeOK
<1>12. StreamsInOrder'
  <2>1. Line("client", inputBuffer_["client"], wire'["client"], sent'["client"], received["client"])
    BY <1>1, <1>8, <1>9 DEF StreamsInOrder
  <2>2. \A s \in Sides : Line(s, inputBuffer_[s], wire'[s], sent'[s], received[s])
    BY <1>8, <1>10, <2>1
  <2> QED
    BY <1>2, <2>2 DEF StreamsInOrder
<1>13. SentAreHonest' /\ ServingIsHonest'
  BY <1>1, <1>2, <1>10 DEF SentAreHonest, ServingIsHonest
<1>14. \A d \in Callers : caller'[d].at = 2 => caller[d].at = 2 /\ caller'[d].id = caller[d].id
  <2>1. ASSUME NEW d \in Callers, caller'[d].at = 2 PROVE d # c
    BY <1>4, <2>1
  <2> QED
    BY <1>4, <2>1
<1>15. AnswersAreFinal'
  <2>1. ASSUME NEW d \in Callers, caller'[d].at = 2
        PROVE  /\ caller'[d].id \notin outstandings_
               /\ \A i \in 1..Len(answered) : answered[i][1] # caller'[d].id
    <3>1. caller[d].at = 2 /\ caller'[d].id = caller[d].id
      BY <1>14, <2>1
    <3>2. /\ caller[d].id \notin outstandings_
          /\ \A i \in 1..Len(answered) : answered[i][1] # caller[d].id
      BY <1>1, <3>1 DEF AnswersAreFinal
    <3> QED
      BY <3>1, <3>2
  <2> QED
    BY <1>1, <1>2, <2>1 DEF AnswersAreFinal
<1> QED
  BY <1>4, <1>11, <1>12, <1>13, <1>15 DEF RpcInv

\* Steps that leave the calls alone.
LEMMA CallsUntouched ==
  ASSUME RpcInv, id_' = id_, asked' = asked, caller' = caller, outstandings_' = outstandings_,
         answered' = answered
  PROVE  CallsAreNumbered' /\ AnswersAreFinal'
BY DEF RpcInv, CallsAreNumbered, AnswersAreFinal

\* handleRead() moves bytes from the wire to the buffer.
LEMMA ReadKeeps ==
  ASSUME RpcInv, NEW side \in Sides, NEW n, ReadBytes(side, n)
  PROVE  RpcInv'
<1>1. /\ RpcTypeOK /\ StreamsInOrder /\ SentAreHonest /\ ServingIsHonest
  BY DEF RpcInv
<1> DEFINE b == inputBuffer_[side]
           w == wire[side]
           e == readFd(b, SubSeq(w, 1, n))
           v == SubSeq(w, n + 1, Len(w))
<1>2. /\ n \in 1..Len(w)
      /\ inputBuffer_' = [inputBuffer_ EXCEPT ![side] = e] /\ wire' = [wire EXCEPT ![side] = v]
      /\ id_' = id_ /\ asked' = asked /\ caller' = caller /\ outstandings_' = outstandings_
      /\ serving' = serving /\ answered' = answered /\ sent' = sent /\ received' = received
  BY DEF ReadBytes
<1>3. /\ wire \in [Sides -> Bytes] /\ inputBuffer_ \in [Sides -> Buffers] /\ BufferOK(b) /\ w \in Bytes
      /\ Line(side, b, w, sent[side], received[side])
  BY <1>1 DEF RpcTypeOK, StreamsInOrder
<1>4. n \in Nat /\ n <= Len(w)
  BY <1>2, <1>3, LenProperties DEF Bytes
<1> HIDE DEF w, b
<1>5. BufferOK(e) /\ v \in Bytes /\ Line(side, e, v, sent[side], received[side])
  BY <1>3, <1>4, LineRead
<1>6. e \in Buffers
  BY <1>5 DEF BufferOK
<1> HIDE DEF e, v
<1>7. /\ wire' \in [Sides -> Bytes] /\ wire'[side] = v
      /\ \A s \in Sides : s # side => wire'[s] = wire[s]
  BY <1>2, <1>3, <1>5
<1>8. /\ inputBuffer_' \in [Sides -> Buffers] /\ inputBuffer_'[side] = e
      /\ \A s \in Sides : s # side => inputBuffer_'[s] = inputBuffer_[s]
  BY <1>2, <1>3, <1>6
<1>9. \A s \in Sides : BufferOK(inputBuffer_'[s])
  BY <1>1, <1>5, <1>8 DEF RpcTypeOK
<1>10. RpcTypeOK'
  BY <1>1, <1>2, <1>7, <1>8, <1>9 DEF RpcTypeOK
<1>11. \A s \in Sides : Line(s, inputBuffer_'[s], wire'[s], sent[s], received[s])
  BY <1>1, <1>5, <1>7, <1>8 DEF StreamsInOrder
<1>12. StreamsInOrder'
  BY <1>2, <1>11 DEF StreamsInOrder
<1>13. SentAreHonest' /\ ServingIsHonest'
  BY <1>1, <1>2 DEF SentAreHonest, ServingIsHonest
<1>14. CallsAreNumbered' /\ AnswersAreFinal'
  BY <1>2, CallsUntouched
<1> QED
  BY <1>10, <1>12, <1>13, <1>14 DEF RpcInv

\* The turns of onMessage() that take no frame.
LEMMA QuietKeeps ==
  ASSUME RpcInv, NEW side \in Sides, FrameWaits(side) \/ FrameWrong(side)
  PROVE  RpcInv'
<1>1. /\ id_' = id_ /\ outstandings_' = outstandings_ /\ caller' = caller /\ wire' = wire
      /\ inputBuffer_' = inputBuffer_ /\ serving' = serving /\ asked' = asked
      /\ answered' = answered /\ sent' = sent /\ received' = received
  BY DEF FrameWaits, FrameWrong
<1>2. CallsAreNumbered' /\ AnswersAreFinal'
  BY <1>1, CallsUntouched
<1>3. RpcTypeOK' /\ StreamsInOrder' /\ SentAreHonest' /\ ServingIsHonest'
  BY <1>1 DEF RpcInv, RpcTypeOK, StreamsInOrder, SentAreHonest, ServingIsHonest
<1> QED
  BY <1>2, <1>3 DEF RpcInv

\* A frame taken from the buffer of a side, while something or nothing is sent to its peer.
LEMMA TakeKeeps ==
  ASSUME RpcTypeOK, StreamsInOrder, SentAreHonest, NEW side \in Sides, NEW next,
         next = NextFrame(inputBuffer_[side], RpcMessages), next.code = "kNoError",
         inputBuffer_' = [inputBuffer_ EXCEPT ![side] = next.rest],
         received' = [received EXCEPT ![side] = Append(@, next.payload)],
         wire' \in [Sides -> Bytes], sent' \in [Sides -> Seq(Payloads)],
         wire'[side] = wire[side], sent'[side] = sent[side],
         Line(Peer(side), inputBuffer_[Peer(side)], wire'[Peer(side)], sent'[Peer(side)], received[Peer(side)]),
         id_' = id_, caller' = caller, asked' = asked
  PROVE  RpcTypeOK' /\ StreamsInOrder'
<1> DEFINE p == Peer(side)
           b == inputBuffer_[side]
           m == next.payload
           e == next.rest
<1>1. p \in Sides /\ p # side /\ \A s \in Sides : s = p \/ s = side
  BY SidesAre
<1>2. /\ BufferOK(b) /\ wire[side] \in Bytes /\ sent[side] \in Seq(Payloads) /\ received[side] \in Seq(Payloads)
      /\ Line(side, b, wire[side], sent[side], received[side])
      /\ inputBuffer_ \in [Sides -> Buffers] /\ received \in [Sides -> Seq(Payloads)]
  BY DEF RpcTypeOK, StreamsInOrder
<1>3. m \in Payloads /\ BufferOK(e) /\ Line(side, e, wire[side], sent[side], Append(received[side], m))
  BY <1>2, LineTake
<1>4. e \in Buffers /\ Append(received[side], m) \in Seq(Payloads)
  BY <1>2, <1>3, AppendProperties DEF BufferOK
<1>0. Line(p, inputBuffer_[p], wire'[p], sent'[p], received[p])
  OBVIOUS
<1> HIDE DEF p, b, m, e
<1>5. /\ inputBuffer_' \in [Sides -> Buffers] /\ inputBuffer_'[side] = e /\ inputBuffer_'[p] = inputBuffer_[p]
  BY <1>1, <1>2, <1>4 DEF e
<1>6. /\ received' \in [Sides -> Seq(Payloads)] /\ received'[side] = Append(received[side], m)
      /\ received'[p] = received[p]
  BY <1>1, <1>2, <1>4 DEF m
<1>7. \A s \in Sides : BufferOK(inputBuffer_'[s])
  <2>1. BufferOK(inputBuffer_[p])
    BY <1>1 DEF RpcTypeOK
  <2> QED
    BY <1>1, <1>3, <1>5, <2>1
<1>8. RpcTypeOK'
  BY <1>5, <1>6, <1>7 DEF RpcTypeOK
<1>9. Line(side, inputBuffer_'[side], wire'[side], sent'[side], received'[side])
  BY <1>3, <1>5, <1>6
<1>10. Line(p, inputBuffer_'[p], wire'[p], sent'[p], received'[p])
  BY <1>0, <1>5, <1>6
<1>11. \A s \in Sides : Line(s, inputBuffer_'[s], wire'[s], sent'[s], received'[s])
  BY <1>1, <1>9, <1>10
<1>12. StreamsInOrder'
  BY <1>11 DEF StreamsInOrder
<1> QED
  BY <1>8, <1>12

\* onRpcMessage() dispatches the next message that was sent.
LEMMA DispatchKeeps ==
  ASSUME RpcInv, NEW side \in Sides, onRpcMessage(side)
  PROVE  RpcInv'
<1>1. /\ RpcTypeOK /\ StreamsInOrder /\ SentAreHonest /\ ServingIsHonest /\ CallsAreNumbered
      /\ AnswersAreFinal
  BY DEF RpcInv
<1> DEFINE p == Peer(side)
           b == inputBuffer_[side]
           next == NextFrame(b, RpcMessages)
           m == next.payload
<1>2. /\ next.code = "kNoError" /\ inputBuffer_' = [inputBuffer_ EXCEPT ![side] = next.rest]
      /\ received' = [received EXCEPT ![side] = Append(@, m)]
      /\ IF m[1] = RESPONSE THEN OnResponse(side, m[2], m[3]) ELSE OnRequest(side, m[2], m[3])
      /\ id_' = id_ /\ caller' = caller /\ asked' = asked
  BY DEF onRpcMessage
<1>3. /\ BufferOK(b) /\ wire[side] \in Bytes /\ sent[side] \in Seq(Payloads) /\ received[side] \in Seq(Payloads)
      /\ Line(side, b, wire[side], sent[side], received[side])
  BY <1>1 DEF RpcTypeOK, StreamsInOrder
<1>4. m \in Payloads /\ \E i \in 1..Len(sent[side]) : sent[side][i] = m
  BY <1>2, <1>3, LineTake
<1>5. Honest(side, m, asked)
  BY <1>1, <1>4 DEF SentAreHonest
<1>6. p \in Sides /\ Sides = {"client", "server"} /\ Peer("server") = "client"
  BY SidesAre
<1>7. /\ asked \in Seq(Asks) /\ Len(asked) = id_ /\ id_ \in Nat /\ 1..id_ \subseteq Ids
      /\ wire \in [Sides -> Bytes] /\ sent \in [Sides -> Seq(Payloads)]
  BY <1>1, NumbersAreIds DEF RpcTypeOK, CallsAreNumbered
<1>8. Line(p, inputBuffer_[p], wire[p], sent[p], received[p])
  BY <1>1, <1>6 DEF StreamsInOrder
<1> DEFINE id == m[2]
           a == m[3]
<1>9. id \in 1..id_ /\ asked[id] \in Asks /\ id \in Ids
  BY <1>5, <1>7 DEF Honest
<1>10. CASE side = "client"
  <2>1. m[1] = RESPONSE /\ a = AnswerTo[asked[id]]
    BY <1>5, <1>10 DEF Honest
  <2>2. OnResponse("client", id, a)
    BY <1>2, <1>10, <2>1
  <2>3. wire' = wire /\ sent' = sent /\ serving' = serving
    BY <2>2 DEF OnResponse
  <2> HIDE DEF m, id, a
  <2>4. RpcTypeOK' /\ StreamsInOrder'
    BY <1>1, <1>2, <1>7, <1>8, <2>3, TakeKeeps DEF m
  <2>5. SentAreHonest' /\ ServingIsHonest'
    BY <1>1, <1>2, <2>3 DEF SentAreHonest, ServingIsHonest
  <2>6. CASE id \notin outstandings_
    <3>1. outstandings_' = outstandings_ /\ answered' = answered
      BY <2>2, <2>6 DEF OnResponse
    <3>2. CallsAreNumbered' /\ AnswersAreFinal'
      BY <1>2, <3>1, CallsUntouched
    <3> QED
      BY <2>4, <2>5, <3>2 DEF RpcInv
  <2>7. CASE id \in outstandings_
    <3>1. outstandings_' = outstandings_ \ {id} /\ answered' = Append(answered, <<id, a>>)
      BY <2>2, <2>7 DEF OnResponse
    <3> DEFINE D == (1..id_) \X Nat
               n == Len(answered)
               x == <<id, a>>
    <3>2. x \in D /\ x[1] = id /\ x[2] = a
      <4>1. a \in Nat
        BY <1>9, <2>1, AnswersAre
      <4> QED
        BY <1>9, <4>1
    <3>3. /\ answered \in Seq(D) /\ n \in Nat /\ outstandings_ \subseteq 1..id_
          /\ \A i \in 1..n : answered[i][2] = AnswerTo[asked[answered[i][1]]] /\ answered[i][1] \notin outstandings_
          /\ \A i, j \in 1..n : answered[i][1] = answered[j][1] => i = j
          /\ \A c \in Callers : caller[c].at = 2 =>
               /\ caller[c].id \notin outstandings_
               /\ \A i \in 1..n : answered[i][1] # caller[c].id
      <4>1. answered \in Seq(D) /\ outstandings_ \subseteq 1..id_
        BY <1>1 DEF AnswersAreFinal
      <4>2. n \in Nat
        BY <4>1, LenProperties
      <4> QED
        BY <1>1, <4>1, <4>2, Zenon DEF AnswersAreFinal
    <3> HIDE DEF x, D
    <3>4. /\ answered' \in Seq(D) /\ Len(answered') = n + 1 /\ answered'[n + 1] = x
          /\ \A i \in 1..n : answered'[i] = answered[i]
      BY <3>1, <3>2, <3>3, AppendProperties DEF x
    <3> HIDE DEF n
    <3>5. \A i \in 1..(n + 1) : i \in 1..n \/ i = n + 1
      BY <3>3
    <3>6. \A i \in 1..n : answered[i][1] # id
      BY <2>7, <3>3
    <3>7. \A i \in 1..(n + 1) : /\ answered'[i][2] = AnswerTo[asked[answered'[i][1]]]
                                /\ answered'[i][1] \notin outstandings_'
      <4>1. ASSUME NEW i \in 1..n PROVE /\ answered'[i][2] = AnswerTo[asked[answered'[i][1]]]
                                        /\ answered'[i][1] \notin outstandings_'
        BY <3>1, <3>3, <3>4
      <4>2. x[2] = AnswerTo[asked[x[1]]] /\ x[1] \notin outstandings_'
        BY <2>1, <3>1, <3>2
      <4> QED
        BY <3>4, <3>5, <4>1, <4>2
    <3>8. \A i, j \in 1..(n + 1) : answered'[i][1] = answered'[j][1] => i = j
      <4>1. ASSUME NEW i \in 1..(n + 1), NEW j \in 1..(n + 1), answered'[i][1] = answered'[j][1]
            PROVE  i = j
        <5>1. CASE i \in 1..n /\ j \in 1..n
          BY <3>3, <3>4, <4>1, <5>1
        <5>2. CASE i \in 1..n /\ j = n + 1
          BY <3>2, <3>4, <3>6, <4>1, <5>2
        <5>3. CASE i = n + 1 /\ j \in 1..n
          BY <3>2, <3>4, <3>6, <4>1, <5>3
        <5> QED
          BY <3>5, <5>1, <5>2, <5>3
      <4> QED
        BY <4>1
    <3>9. ASSUME NEW c \in Callers, caller[c].at = 2
          PROVE  /\ caller[c].id \notin outstandings_'
                 /\ \A i \in 1..(n + 1) : answered'[i][1] # caller[c].id
      <4>1. caller[c].id \notin outstandings_ /\ \A i \in 1..n : answered[i][1] # caller[c].id
        BY <3>3, <3>9
      <4>2. x[1] # caller[c].id
        BY <2>7, <3>2, <4>1
      <4> QED
        BY <3>1, <3>4, <3>5, <4>1, <4>2
    <3>10. outstandings_' \subseteq 1..id_
      BY <3>1, <3>3
    <3>11. AnswersAreFinal'
      BY <1>2, <3>4, <3>7, <3>8, <3>9, <3>10 DEF AnswersAreFinal, D
    <3>12. CallsAreNumbered'
      BY <1>1, <1>2 DEF CallsAreNumbered
    <3> QED
      BY <2>4, <2>5, <3>11, <3>12 DEF RpcInv
  <2> QED
    BY <2>6, <2>7
<1>11. CASE side = "server"
  <2>1. m[1] = REQUEST /\ a = asked[id]
    BY <1>5, <1>11 DEF Honest
  <2>2. OnRequest("server", id, a)
    BY <1>2, <1>11, <2>1 DEF REQUEST, RESPONSE
  <2>3. outstandings_' = outstandings_ /\ answered' = answered
    BY <2>2 DEF OnRequest
  <2>4. CallsAreNumbered' /\ AnswersAreFinal'
    BY <1>2, <2>3, CallsUntouched
  <2> HIDE DEF m, id, a
  <2>5. CASE a = Good
    <3>1. wire' = wire /\ sent' = sent /\ serving' = serving \cup {id}
      BY <2>2, <2>5 DEF OnRequest
    <3>2. RpcTypeOK' /\ StreamsInOrder'
      BY <1>1, <1>2, <1>7, <1>8, <3>1, TakeKeeps DEF m
    <3>3. SentAreHonest'
      BY <1>1, <1>2, <3>1 DEF SentAreHonest
    <3>4. ServingIsHonest'
      BY <1>1, <1>2, <1>7, <1>9, <2>1, <2>5, <3>1 DEF ServingIsHonest
    <3> QED
      BY <2>4, <3>2, <3>3, <3>4 DEF RpcInv
  <2>6. CASE a # Good
    <3> DEFINE r == <<RESPONSE, id, AnswerTo[a]>>
    <3>1. ErrorOf("server", a) = AnswerTo[a]
      BY <1>9, <2>1, <2>6, AnswersAre
    <3>2. Send("server", r) /\ serving' = serving
      BY <2>2, <2>6, <3>1 DEF OnRequest
    <3>3. r \in Payloads
      BY <1>9, <2>1, AnswersAre
    <3>4. Honest("client", r, asked)
      BY <1>7, <1>9, <2>1 DEF Honest
    <3>5. "server" \in Sides /\ p = "client"
      BY <1>6, <1>11
    <3> HIDE DEF r
    <3>6. /\ wire' \in [Sides -> Bytes] /\ sent' \in [Sides -> Seq(Payloads)]
          /\ wire'[side] = wire[side] /\ sent'[side] = sent[side]
      BY <1>1, <1>11, <3>2, <3>3, <3>5, SendPuts
    <3>7. /\ Line(p, inputBuffer_[p], wire'[p], sent'[p], received[p])
          /\ \A s \in Sides : \A i \in 1..Len(sent'[s]) : Honest(s, sent'[s][i], asked)
      BY <1>1, <1>6, <3>2, <3>3, <3>4, <3>5, SendKeeps
    <3>8. RpcTypeOK' /\ StreamsInOrder'
      BY <1>1, <1>2, <3>6, <3>7, TakeKeeps DEF m
    <3>9. SentAreHonest' /\ ServingIsHonest'
      BY <1>1, <1>2, <3>2, <3>7 DEF SentAreHonest, ServingIsHonest
    <3> QED
      BY <2>4, <3>8, <3>9 DEF RpcInv
  <2> QED
    BY <2>5, <2>6
<1> QED
  BY <1>6, <1>10, <1>11

\* The service answers a request that it has been keeping.
LEMMA DoneKeeps ==
  ASSUME RpcInv, NEW id \in serving, doneCallback(id)
  PROVE  RpcInv'
<1>1. /\ RpcTypeOK /\ StreamsInOrder /\ SentAreHonest /\ ServingIsHonest /\ CallsAreNumbered
  BY DEF RpcInv
<1> DEFINE r == <<RESPONSE, id, Result>>
<1>2. /\ serving' = serving \ {id} /\ Send("server", r)
      /\ id_' = id_ /\ asked' = asked /\ caller' = caller /\ outstandings_' = outstandings_
      /\ inputBuffer_' = inputBuffer_ /\ answered' = answered /\ received' = received
  BY DEF doneCallback
<1>3. id \in 1..Len(asked) /\ asked[id] = Good /\ Len(asked) = id_ /\ id \in Ids
  BY <1>1, NumbersAreIds DEF ServingIsHonest, CallsAreNumbered
<1>4. Result = AnswerTo[Good] /\ Good \in Asks
  BY AnswersAre DEF Asks
<1>5. r \in Payloads
  BY <1>3, <1>4, AnswersAre
<1>6. Honest("client", r, asked)
  BY <1>3, <1>4 DEF Honest
<1> HIDE DEF r
<1>7. "server" \in Sides /\ Peer("server") = "client" /\ Sides = {"client", "server"}
  BY SidesAre
<1>8. /\ wire' \in [Sides -> Bytes] /\ sent' \in [Sides -> Seq(Payloads)]
      /\ wire'["server"] = wire["server"] /\ sent'["server"] = sent["server"]
  BY <1>1, <1>2, <1>5, <1>7, SendPuts
<1>9. /\ Line("client", inputBuffer_["client"], wire'["client"], sent'["client"], received["client"])
      /\ \A s \in Sides : \A i \in 1..Len(sent'[s]) : Honest(s, sent'[s][i], asked)
  BY <1>1, <1>2, <1>5, <1>6, <1>7, SendKeeps
<1>10. RpcTypeOK'
  BY <1>1, <1>2, <1>8 DEF RpcTypeOK
<1>11. StreamsInOrder'
  <2>1. Line("server", inputBuffer_["server"], wire'["server"], sent'["server"], received["server"])
    BY <1>1, <1>7, <1>8 DEF StreamsInOrder
  <2>2. \A s \in Sides : Line(s, inputBuffer_[s], wire'[s], sent'[s], received[s])
    BY <1>7, <1>9, <2>1
  <2> QED
    BY <1>2, <2>2 DEF StreamsInOrder
<1>12. SentAreHonest' /\ ServingIsHonest'
  BY <1>1, <1>2, <1>9 DEF SentAreHonest, ServingIsHonest
<1>13. CallsAreNumbered' /\ AnswersAreFinal'
  BY <1>2, CallsUntouched
<1> QED
  BY <1>10, <1>11, <1>12, <1>13 DEF RpcInv

\* A stranger's bytes come first, and alone.
LEMMA StrayKeeps ==
  ASSUME RpcInv, NEW bytes \in Strays, Stray(bytes)
  PROVE  RpcInv'
<1>1. /\ RpcTypeOK /\ StreamsInOrder /\ SentAreHonest /\ ServingIsHonest
  BY DEF RpcInv
<1>2. /\ bytes # <<>> /\ received["server"] = <<>> /\ readableBytes(inputBuffer_["server"]) = 0
      /\ wire' = [wire EXCEPT !["server"] = bytes]
      /\ id_' = id_ /\ asked' = asked /\ caller' = caller /\ outstandings_' = outstandings_
      /\ inputBuffer_' = inputBuffer_ /\ answered' = answered /\ received' = received
      /\ serving' = serving /\ sent' = sent
  BY DEF Stray
<1>3. bytes \in Bytes /\ Len(bytes) \in Nat
  BY <1>2, RpcBounds, LenProperties DEF Bytes
<1>4. "server" \in Sides /\ Sides = {"client", "server"} /\ wire \in [Sides -> Bytes]
  BY <1>1, SidesAre DEF RpcTypeOK
<1>5. wire' \in [Sides -> Bytes] /\ wire'["server"] = bytes /\ wire'["client"] = wire["client"]
  BY <1>2, <1>3, <1>4
<1> DEFINE c == Content(inputBuffer_["server"])
<1>6. c \o bytes = bytes
  <2>1. BufferOK(inputBuffer_["server"])
    BY <1>1, <1>4 DEF RpcTypeOK
  <2>2. c \in Seq(Nat) /\ Len(c) = 0
    BY <1>2, <2>1, ContentIs DEF Bytes
  <2> HIDE DEF c
  <2>3. c = <<>>
    BY <2>2
  <2> QED
    BY <1>3, <2>3, ConcatEmptySeq DEF Bytes
<1>7. Foreign(inputBuffer_["server"], bytes, received["server"])
  <2>1. Begins(bytes, bytes)
    BY <1>3 DEF Begins
  <2> QED
    BY <1>2, <1>6, <2>1 DEF Foreign
<1>8. RpcTypeOK'
  BY <1>1, <1>2, <1>5 DEF RpcTypeOK
<1>9. \A s \in Sides : Line(s, inputBuffer_[s], wire'[s], sent[s], received[s])
  <2>1. Line("client", inputBuffer_["client"], wire'["client"], sent["client"], received["client"])
    BY <1>1, <1>4, <1>5 DEF StreamsInOrder
  <2>2. Line("server", inputBuffer_["server"], wire'["server"], sent["server"], received["server"])
    BY <1>5, <1>7, Zenon DEF Line
  <2> QED
    BY <1>4, <2>1, <2>2
<1>10. StreamsInOrder'
  BY <1>2, <1>9 DEF StreamsInOrder
<1>11. SentAreHonest' /\ ServingIsHonest'
  BY <1>1, <1>2 DEF SentAreHonest, ServingIsHonest
<1>12. CallsAreNumbered' /\ AnswersAreFinal'
  BY <1>2, CallsUntouched
<1> QED
  BY <1>8, <1>10, <1>11, <1>12 DEF RpcInv

\* Nothing is sent, asked or answered at first.
LEMMA RpcStarts ==
  ASSUME RpcInit
  PROVE  RpcInv
<1> DEFINE b == NewBuffer(kInitialSize)
<1>1. BufferOK(b) /\ Content(b) = <<>> /\ b \in Buffers
  BY NewBufferOK, BufferBounds DEF BufferOK
<1> HIDE DEF b
<1>2. /\ id_ = 0 /\ outstandings_ = {} /\ caller = [c \in Callers |-> [at |-> 1, id |-> 0, ask |-> Good]]
      /\ wire = [s \in Sides |-> <<>>] /\ inputBuffer_ = [s \in Sides |-> b]
      /\ serving = {} /\ asked = <<>> /\ answered = <<>>
      /\ sent = [s \in Sides |-> <<>>] /\ received = [s \in Sides |-> <<>>]
  BY DEF RpcInit, b
<1>3. [at |-> 1, id |-> 0, ask |-> Good] \in CallerStates
  BY DEF CallerStates, Asks
<1>4. <<>> \in Bytes /\ <<>> \in Seq(Payloads) /\ <<>> \in Seq(Asks) /\ Len(<<>>) = 0
  BY DEF Bytes
<1>5. RpcTypeOK
  BY <1>1, <1>2, <1>3, <1>4 DEF RpcTypeOK
<1>6. StreamsInOrder
  <2>1. Delivers(b, <<>>, <<>>, <<>>)
    <3>1. <<>> \o <<>> = <<>>
      OBVIOUS
    <3> QED
      BY <1>1, <1>4, <3>1, CarriesNothing DEF Delivers
  <2>2. \A s : Line(s, b, <<>>, <<>>, <<>>)
    BY <2>1, Zenon DEF Line
  <2> QED
    BY <1>2, <2>2 DEF StreamsInOrder
<1>7. SentAreHonest /\ ServingIsHonest
  BY <1>2, <1>4 DEF SentAreHonest, ServingIsHonest
<1>8. \A c \in Callers : caller[c].at = 1
  BY <1>2
<1>9. CallsAreNumbered
  <2>1. {c \in Callers : caller[c].at > 1} = {}
    BY <1>8
  <2>2. Cardinality({}) = 0
    BY FS_EmptySet
  <2> QED
    BY <1>2, <1>4, <1>8, <2>1, <2>2 DEF CallsAreNumbered
<1>10. AnswersAreFinal
  BY <1>2, <1>4, <1>8 DEF AnswersAreFinal
<1> QED
  BY <1>5, <1>6, <1>7, <1>9, <1>10 DEF RpcInv

\* Whatever pieces the bytes arrive in and in whatever order the calls of any number of
\* threads are answered, each side dispatches the messages sent to it, in order, a call is
\* answered at most once and with the answer to its own request.
THEOREM AnswersAlwaysMatch == RpcSpec => []AnswersMatch
<1>1. RpcInit => RpcInv
  BY RpcStarts
<1>2. RpcInv /\ [RpcNext]_rpcVars => RpcInv'
  <2> SUFFICES ASSUME RpcInv, [RpcNext]_rpcVars PROVE RpcInv'
    OBVIOUS
  <2>1. ASSUME NEW c \in Callers, NEW ask \in Asks, Number(c, ask) PROVE RpcInv'
    BY <2>1, NumberKeeps
  <2>2. ASSUME NEW c \in Callers, Insert(c) PROVE RpcInv'
    BY <2>2, InsertKeeps
  <2>3. ASSUME NEW c \in Callers, SendCall(c) PROVE RpcInv'
    BY <2>3, SendCallKeeps
  <2>4. ASSUME NEW side \in Sides, NEW n \in ReadSizes, ReadBytes(side, n) PROVE RpcInv'
    BY <2>4, ReadKeeps
  <2>5. ASSUME NEW side \in Sides, FrameWaits(side) \/ FrameWrong(side) PROVE RpcInv'
    BY <2>5, QuietKeeps
  <2>6. ASSUME NEW side \in Sides, onRpcMessage(side) PROVE RpcInv'
    BY <2>6, DispatchKeeps
  <2>7. ASSUME NEW id \in serving, doneCallback(id) PROVE RpcInv'
    BY <2>7, DoneKeeps
  <2>8. ASSUME NEW bytes \in Strays, Stray(bytes) PROVE RpcInv'
    BY <2>8, StrayKeeps
  <2>9. CASE UNCHANGED rpcVars
    <3>1. /\ id_' = id_ /\ outstandings_' = outstandings_ /\ caller' = caller /\ wire' = wire
          /\ inputBuffer_' = inputBuffer_ /\ serving' = serving /\ asked' = asked
          /\ answered' = answered /\ sent' = sent /\ received' = received
      BY <2>9 DEF rpcVars
    <3>2. CallsAreNumbered' /\ AnswersAreFinal'
      BY <3>1, CallsUntouched
    <3>3. RpcTypeOK' /\ StreamsInOrder' /\ SentAreHonest' /\ ServingIsHonest'
      BY <3>1 DEF RpcInv, RpcTypeOK, StreamsInOrder, SentAreHonest, ServingIsHonest
    <3> QED
      BY <3>2, <3>3 DEF RpcInv
  <2> QED
    BY <2>1, <2>2, <2>3, <2>4, <2>5, <2>6, <2>7, <2>8, <2>9 DEF RpcNext
<1>3. RpcInv => AnswersMatch
  <2> SUFFICES ASSUME RpcInv PROVE AnswersMatch
    OBVIOUS
  <2>1. MessagesArriveWhole
    <3>1. ASSUME NEW s \in Sides PROVE IsPrefix(received[s], sent[s])
      <4>1. sent[s] \in Seq(Payloads) /\ received[s] \in Seq(Payloads)
        BY DEF RpcInv, RpcTypeOK
      <4>2. Line(s, inputBuffer_[s], wire[s], sent[s], received[s])
        BY DEF RpcInv, StreamsInOrder
      <4> QED
        BY <4>1, <4>2, LineInOrder
    <3> QED
      BY <3>1 DEF MessagesArriveWhole
  <2>2. DOMAIN answered = 1..Len(answered)
    BY DEF RpcInv, AnswersAreFinal
  <2> QED
    BY <2>1, <2>2 DEF AnswersMatch, RpcInv, AnswersAreFinal
<1> QED
  BY <1>1, <1>2, <1>3, PTL DEF RpcSpec

-----------------------------------------------------------------------------
(* Http: what remains of a stream that is made of pieces *)

\* rest[i] is what remains of a stream when the first i of its n pieces are taken.
Laid(rest, n, piece) ==
  /\ rest \in [0..n -> Bytes] /\ rest[n] = <<>>
  /\ \A i \in 1..n : rest[i - 1] = piece[i] \o rest[i]

\* longer has the n pieces, and more behind them.
Longer(longer, piece, n, more) ==
  /\ \A i \in 1..n : piece[i] \in Bytes /\ longer[i] = piece[i]
  /\ longer[n + 1] = more /\ more \in Bytes

\* One more piece behind the others.
LEMMA LaidMore ==
  ASSUME NEW n \in Nat, NEW piece, NEW rest, Laid(rest, n, piece), NEW more, NEW longer,
         Longer(longer, piece, n, more)
  PROVE  \E all : Laid(all, n + 1, longer) /\ \A i \in 0..n : all[i] = rest[i] \o more
<1> USE DEF Longer
<1> DEFINE all == [i \in 0..(n + 1) |-> IF i = n + 1 THEN <<>> ELSE rest[i] \o more]
<1>1. /\ rest \in [0..n -> Bytes] /\ rest[n] = <<>>
      /\ \A i \in 1..n : rest[i - 1] = piece[i] \o rest[i]
  BY DEF Laid
<1>2. <<>> \in Bytes
  BY DEF Bytes
<1>3. \A i \in 0..(n + 1) : i # n + 1 => i \in 0..n
  OBVIOUS
<1>4. \A i \in 0..n : all[i] = rest[i] \o more
  OBVIOUS
<1>5. all \in [0..(n + 1) -> Bytes] /\ all[n + 1] = <<>>
  <2>1. ASSUME NEW i \in 0..n PROVE rest[i] \o more \in Bytes
    <3>1. rest[i] \in Bytes
      BY <1>1
    <3> QED
      BY <3>1, Joined
  <2>2. n + 1 \in 0..(n + 1)
    OBVIOUS
  <2> QED
    BY <1>2, <1>3, <2>1, <2>2
<1> HIDE DEF all
<1>6. ASSUME NEW i \in 1..(n + 1) PROVE all[i - 1] = longer[i] \o all[i]
  <2>1. CASE i = n + 1
    <3>1. i - 1 = n /\ n \in 0..n
      BY <2>1
    <3>2. all[i - 1] = <<>> \o more /\ all[i] = <<>> /\ longer[i] = more
      BY <1>1, <1>4, <1>5, <2>1, <3>1
    <3>3. <<>> \o more = more /\ more \o <<>> = more
      BY ConcatEmptySeq DEF Bytes
    <3> QED
      BY <3>2, <3>3
  <2>2. CASE i # n + 1
    <3>1. i \in 1..n /\ i \in 0..n /\ i - 1 \in 0..n
      BY <2>2
    <3>2. all[i - 1] = (piece[i] \o rest[i]) \o more /\ all[i] = rest[i] \o more /\ longer[i] = piece[i]
      BY <1>1, <1>4, <3>1
    <3>3. piece[i] \in Bytes /\ rest[i] \in Bytes
      BY <1>1, <3>1
    <3>4. (piece[i] \o rest[i]) \o more = piece[i] \o (rest[i] \o more)
      BY <3>3, InARow
    <3> QED
      BY <3>2, <3>4
  <2> QED
    BY <2>1, <2>2
<1>7. Laid(all, n + 1, longer)
  BY <1>5, <1>6 DEF Laid
<1> QED
  BY <1>4, <1>7 DEF all

Crlf == <<CR, LF>>

\* The lines of a request, the empty one at the end included, and each with its CRLF.
Text(r, l) == IF l = Len(r) + 1 THEN <<>> ELSE r[l]
Ended(r) == [l \in 1..(Len(r) + 1) |-> Text(r, l) \o Crlf]

\* The bytes of a request and of its lines.
LEMMA RequestIs ==
  ASSUME NEW r \in Requests
  PROVE  /\ r \in Seq(Bytes) /\ Len(r) \in Nat \ {0} /\ Crlf \in Bytes /\ Len(Crlf) = 2
         /\ Crlf[1] = CR /\ Crlf[2] = LF
         /\ \A l \in 1..Len(r) : Text(r, l) = r[l]
         /\ Text(r, Len(r) + 1) = <<>>
         /\ \A l \in 1..(Len(r) + 1) : /\ Text(r, l) \in Bytes /\ Ended(r)[l] \in Bytes
                                       /\ Ended(r)[l] = Text(r, l) \o Crlf
                                       /\ \A k \in 1..Len(Text(r, l)) : Text(r, l)[k] # CR
<1>1. /\ r \in Seq(Bytes) /\ r # <<>>
      /\ \A i \in DOMAIN r : \A k \in DOMAIN r[i] : r[i][k] # CR
  BY HttpBounds DEF Bytes
<1>2. Len(r) \in Nat \ {0} /\ DOMAIN r = 1..Len(r) /\ \A l \in 1..Len(r) : r[l] \in Bytes
  <2> HIDE DEF Bytes
  <2>1. Len(r) \in Nat /\ DOMAIN r = 1..Len(r) /\ \A l \in 1..Len(r) : r[l] \in Bytes
    BY <1>1, LenProperties, ElementOfSeq
  <2>2. Len(r) # 0
    BY <1>1, EmptySeq
  <2> QED
    BY <2>1, <2>2
<1>3. /\ Crlf \in Bytes /\ Len(Crlf) = 2 /\ Crlf[1] = CR /\ Crlf[2] = LF
  BY DEF Crlf, Bytes, CR, LF
<1>4. \A l \in 1..Len(r) : Text(r, l) = r[l]
  BY <1>2 DEF Text
<1>5. Text(r, Len(r) + 1) = <<>> /\ <<>> \in Bytes /\ Len(<<>>) = 0
  BY DEF Text, Bytes
<1>6. ASSUME NEW l \in 1..(Len(r) + 1)
      PROVE  /\ Text(r, l) \in Bytes /\ \A k \in 1..Len(Text(r, l)) : Text(r, l)[k] # CR
  <2>1. CASE l = Len(r) + 1
    BY <1>5, <2>1
  <2>2. CASE l # Len(r) + 1
    <3>1. l \in 1..Len(r)
      BY <1>2, <2>2
    <3>2. Text(r, l) = r[l] /\ r[l] \in Bytes
      BY <1>2, <1>4, <3>1
    <3>3. DOMAIN r[l] = 1..Len(r[l])
      BY <3>2, LenProperties DEF Bytes
    <3> QED
      BY <1>1, <1>2, <3>1, <3>2, <3>3
  <2> QED
    BY <2>1, <2>2
<1>7. ASSUME NEW l \in 1..(Len(r) + 1)
      PROVE  Ended(r)[l] = Text(r, l) \o Crlf /\ Ended(r)[l] \in Bytes
  BY <1>3, <1>6, Joined DEF Ended
<1> QED
  BY <1>1, <1>2, <1>3, <1>4, <1>5, <1>6, <1>7

\* The bytes of the first lines, as the recursion gives them.
LEMMA LineBytesAre ==
  ASSUME NEW r \in Requests
  PROVE  /\ LineBytes(r)[0] = <<>>
         /\ \A i \in 1..Len(r) : LineBytes(r)[i] = (LineBytes(r)[i - 1] \o r[i]) \o Crlf
<1> DEFINE n == Len(r)
           Go(s, i) == (s \o r[i]) \o Crlf
           Eq(f) == f = [i \in 0..n |-> IF i = 0 THEN <<>> ELSE Go(f[i - 1], i)]
           g == [i \in 1..n |-> [s \in Bytes |-> Go(s, i)]]
           L == LineBytes(r)
<1>1. n \in Nat /\ <<>> \in Bytes
  BY RequestIs DEF Bytes
<1>2. g \in Steppers(n, Bytes)
  <2>1. ASSUME NEW i \in 1..n, NEW s \in Bytes PROVE Go(s, i) \in Bytes
    <3>1. r[i] \in Bytes /\ Crlf \in Bytes
      BY <1>1, RequestIs
    <3>2. s \o r[i] \in Bytes
      BY <3>1, Joined
    <3> DEFINE u == s \o r[i]
    <3> HIDE DEF u
    <3>3. u \o Crlf \in Bytes
      BY <3>1, <3>2, Joined DEF u
    <3> QED
      BY <3>3 DEF u
  <2> HIDE DEF Go, Bytes
  <2> QED
    BY <2>1 DEF Steppers
<1>3. \E f \in Tables(n, Bytes) : Follows(f, <<>>, n, g)
  <2> HIDE DEF g, Bytes, n
  <2> QED
    BY <1>1, <1>2, Recursion, Zenon
<1>4. PICK f \in [0..n -> Bytes] : f[0] = <<>> /\ \A i \in 1..n : f[i] = Go(f[i - 1], i)
  <2> HIDE DEF Bytes
  <2>1. PICK f \in [0..n -> Bytes] : f[0] = <<>> /\ \A i \in 1..n : f[i] = g[i][f[i - 1]]
    BY <1>3, Zenon DEF Tables, Follows
  <2>2. ASSUME NEW i \in 1..n PROVE f[i] = Go(f[i - 1], i)
    <3>1. i - 1 \in 0..n
      BY <1>1
    <3>2. f[i] = g[i][f[i - 1]] /\ f[i - 1] \in Bytes
      BY <2>1, <3>1
    <3> HIDE DEF Go
    <3> QED
      BY <3>2
  <2> HIDE DEF Go
  <2> QED
    BY <2>1, <2>2
<1>5. Eq(f)
  <2> HIDE DEF Go, Bytes
  <2>1. ASSUME NEW i \in 0..n PROVE f[i] = IF i = 0 THEN <<>> ELSE Go(f[i - 1], i)
    <3>1. i = 0 \/ i \in 1..n
      BY <1>1
    <3> QED
      BY <1>4, <3>1
  <2> QED
    BY <1>4, <2>1
<1>6. Eq(L)
  <2>1. L = CHOOSE e : Eq(e)
    BY DEF LineBytes, Crlf
  <2> HIDE DEF Eq, L
  <2> QED
    BY <1>5, <2>1
<1>7. L[0] = <<>> /\ \A i \in 1..n : L[i] = Go(L[i - 1], i)
  <2>1. 0 \in 0..n /\ \A i \in 1..n : i \in 0..n /\ i # 0
    BY <1>1
  <2> HIDE DEF L, Go
  <2> QED
    BY <1>6, <2>1
<1> QED
  BY <1>7

\* A request on the wire is made of its lines.
LEMMA WireIsLaid ==
  ASSUME NEW r \in Requests
  PROVE  \E rest : Laid(rest, Len(r) + 1, Ended(r)) /\ rest[0] = Wire(r)
<1> DEFINE n == Len(r)
           L == LineBytes(r)
           Q == {i \in 0..n : \E rest : Laid(rest, i, Ended(r)) /\ rest[0] = L[i]}
<1>0. /\ Len(r) \in Nat /\ Crlf \in Bytes /\ \A l \in 1..Len(r) : Text(r, l) = r[l]
      /\ Text(r, Len(r) + 1) = <<>>
      /\ \A l \in 1..(Len(r) + 1) : /\ Text(r, l) \in Bytes /\ Ended(r)[l] \in Bytes
                                    /\ Ended(r)[l] = Text(r, l) \o Crlf
  BY RequestIs
<1>1. n \in Nat /\ n \in 0..n /\ L[0] = <<>> /\ \A i \in 1..n : L[i] = (L[i - 1] \o r[i]) \o Crlf
  <2>1. n \in Nat /\ n \in 0..n
    BY <1>0
  <2>2. L[0] = <<>> /\ \A i \in 1..n : L[i] = (L[i - 1] \o r[i]) \o Crlf
    BY LineBytesAre
  <2> QED
    BY <2>1, <2>2
<1>2. \A i \in 1..(n + 1) : Ended(r)[i] \in Bytes
  BY <1>0
<1> HIDE DEF L
<1>3. 0 \in Q
  <2> DEFINE rest == [i \in 0..0 |-> <<>>]
  <2>1. rest \in [0..0 -> Bytes] /\ rest[0] = <<>> /\ 1..0 = {}
    BY DEF Bytes
  <2> HIDE DEF rest
  <2>2. Laid(rest, 0, Ended(r)) /\ rest[0] = L[0]
    BY <1>1, <2>1 DEF Laid
  <2> QED
    BY <1>1, <2>2
<1>4. ASSUME NEW i \in 1..n, i - 1 \in Q PROVE i \in Q
  <2> DEFINE j == i - 1
  <2>1. j \in Nat /\ j + 1 = i /\ i \in 0..n /\ 0 \in 0..j
    BY <1>1
  <2>2. PICK rest : Laid(rest, j, Ended(r)) /\ rest[0] = L[j]
    BY <1>4
  <2> HIDE DEF j
  <2>4. Ended(r)[j + 1] = r[i] \o Crlf /\ Ended(r)[j + 1] \in Bytes /\ r[i] \in Bytes /\ Crlf \in Bytes
    <3>1. i \in 1..(n + 1)
      BY <1>1
    <3>2. Text(r, i) \in Bytes /\ Ended(r)[i] \in Bytes /\ Ended(r)[i] = Text(r, i) \o Crlf
      BY <1>0, <3>1, Zenon
    <3>3. Text(r, i) = r[i]
      BY <1>0, Zenon
    <3> QED
      BY <1>0, <2>1, <3>2, <3>3
  <2>3. Longer(Ended(r), Ended(r), j, Ended(r)[j + 1])
    <3>1. \A k \in 1..j : k \in 1..(n + 1)
      BY <1>1, <2>1
    <3> QED
      BY <1>2, <2>4, <3>1 DEF Longer
  <2>5. PICK all : /\ Laid(all, j + 1, Ended(r))
                   /\ \A k \in 0..j : all[k] = rest[k] \o Ended(r)[j + 1]
    <3>1. j \in Nat
      BY <2>1
    <3>2. Laid(rest, j, Ended(r))
      BY <2>2
    <3> DEFINE more == Ended(r)[j + 1]
    <3>3. Longer(Ended(r), Ended(r), j, more)
      BY <2>3
    <3> HIDE DEF more
    <3>4. \E all : Laid(all, j + 1, Ended(r)) /\ \A k \in 0..j : all[k] = rest[k] \o more
      BY <3>1, <3>2, <3>3, LaidMore
    <3> QED
      BY <3>4 DEF more
  <2>6. all[0] = L[i]
    <3>1. all[0] = L[j] \o (r[i] \o Crlf)
      BY <2>1, <2>2, <2>4, <2>5
    <3>2. L[j] \in Bytes
      <4>1. rest[0] \in Bytes
        BY <2>1, <2>2 DEF Laid
      <4> QED
        BY <2>2, <4>1
    <3>3. (L[j] \o r[i]) \o Crlf = L[j] \o (r[i] \o Crlf)
      BY <2>4, <3>2, InARow
    <3>4. L[i] = (L[j] \o r[i]) \o Crlf
      BY <1>1 DEF j
    <3> QED
      BY <3>1, <3>3, <3>4
  <2> QED
    BY <2>1, <2>5, <2>6
<1>5. n \in Q
  <2> HIDE DEF Q, n
  <2>1. \A i \in 0..n : i \in Q
    BY <1>1, <1>3, <1>4, Climb
  <2> QED
    BY <1>1, <2>1
<1>6. PICK rest : Laid(rest, n, Ended(r)) /\ rest[0] = L[n]
  BY <1>5
<1>7. Ended(r)[n + 1] = Crlf /\ Crlf \in Bytes
  <2>1. n + 1 \in 1..(n + 1)
    BY <1>1
  <2>2. Ended(r)[n + 1] = <<>> \o Crlf /\ Crlf \in Bytes
    BY <1>0, <2>1, Zenon
  <2> QED
    BY <2>2, ConcatEmptySeq DEF Bytes
<1>8. PICK all : Laid(all, n + 1, Ended(r)) /\ \A k \in 0..n : all[k] = rest[k] \o Crlf
  <2>1. \A k \in 1..n : k \in 1..(n + 1)
    BY <1>1
  <2>2. Longer(Ended(r), Ended(r), n, Crlf)
    BY <1>2, <1>7, <2>1 DEF Longer
  <2> HIDE DEF n
  <2> QED
    BY <1>1, <1>6, <2>2, LaidMore
<1>9. all[0] = Wire(r)
  <2>1. 0 \in 0..n
    BY <1>1
  <2>2. Wire(r) = L[n] \o Crlf
    BY DEF Wire, Crlf, L
  <2> QED
    BY <1>6, <1>8, <2>1, <2>2
<1> QED
  BY <1>8, <1>9

-----------------------------------------------------------------------------
(* Http: the line in front of the buffer *)

\* The two bytes of a line's end.
LEMMA CrlfIs == Crlf \in Bytes /\ Len(Crlf) = 2 /\ Crlf[1] = CR /\ Crlf[2] = LF
BY DEF Crlf, Bytes, CR, LF

\* findCRLF() returns the first place of CR and LF, if there is one.
LEMMA CrlfFound ==
  ASSUME NEW b, BufferOK(b)
  PROVE  LET s == Content(b)
             c == findCRLF(b)
             Is(i) == s[i] = CR /\ s[i + 1] = LF
         IN  /\ c # 0 => /\ c \in 1..(Len(s) - 1) /\ Is(c)
                         /\ \A i \in 1..(Len(s) - 1) : Is(i) => c <= i
             /\ c = 0 => \A i \in 1..(Len(s) - 1) : ~Is(i)
<1> DEFINE s == Content(b)
           at == {i \in 1..(Len(s) - 1) : s[i] = CR /\ s[i + 1] = LF}
           c == findCRLF(b)
<1>0. Len(s) \in Nat
  BY ContentIs
<1>1. c = IF at = {} THEN 0 ELSE CHOOSE i \in at : \A j \in at : i <= j
  BY DEF findCRLF
<1>2. at \in SUBSET Nat /\ 0 \notin at
  BY <1>0
<1>3. CASE at = {}
  BY <1>1, <1>3
<1>4. CASE at # {}
  <2> HIDE DEF at, c
  <2>1. \E i \in at : \A j \in at : i <= j
    BY <1>2, <1>4, LeastNat
  <2>2. c \in at /\ \A j \in at : c <= j
    BY <1>1, <1>4, <2>1
  <2>3. c # 0
    BY <1>2, <2>2
  <2> QED
    BY <2>2, <2>3 DEF at, c
<1> QED
  BY <1>3, <1>4

\* Where nothing has arrived there is no line.
LEMMA NoLine ==
  ASSUME NEW b, BufferOK(b), NEW w \in Bytes, Content(b) \o w = <<>>
  PROVE  findCRLF(b) = 0
<1>1. Content(b) \in Bytes /\ Len(Content(b)) \in Nat
  BY ContentIs
<1>2. Len(Content(b)) + Len(w) = 0 /\ Len(w) \in Nat
  <2>1. Len(Content(b) \o w) = Len(Content(b)) + Len(w) /\ Len(w) \in Nat
    BY <1>1, Joined
  <2>2. Len(<<>>) = 0
    OBVIOUS
  <2> QED
    BY <2>1, <2>2
<1>3. Len(Content(b)) = 0
  BY <1>1, <1>2
<1>4. 1..(Len(Content(b)) - 1) = {}
  BY <1>3
<1>5. findCRLF(b) # 0 => findCRLF(b) \in 1..(Len(Content(b)) - 1)
  BY CrlfFound
<1> QED
  BY <1>4, <1>5

\* A line without its end.
NoCR(x) == \A k \in 1..Len(x) : x[k] # CR

\* The first line of the stream is the one that parseRequest() finds in the buffer, once
\* all of it is there, and retrieveUntil() leaves what comes behind it.
LEMMA FirstLine ==
  ASSUME NEW b, BufferOK(b), NEW w \in Bytes, NEW x \in Bytes, NEW y \in Bytes,
         Content(b) \o w = (x \o Crlf) \o y, NoCR(x), findCRLF(b) # 0
  PROVE  /\ SubSeq(Content(b), 1, findCRLF(b) - 1) = x
         /\ BufferOK(retrieve(b, findCRLF(b) + 1))
         /\ Content(retrieve(b, findCRLF(b) + 1)) \o w = y
<1> DEFINE s == Content(b)
           c == findCRLF(b)
           v == x \o Crlf
           t == s \o w
           n == Len(x)
<1>1. s \in Bytes /\ Len(s) \in Nat /\ n \in Nat /\ Len(s) = readableBytes(b)
  BY ContentIs, LenProperties DEF Bytes
<1>2. c \in 1..(Len(s) - 1) /\ s[c] = CR /\ s[c + 1] = LF
      /\ \A i \in 1..(Len(s) - 1) : s[i] = CR /\ s[i + 1] = LF => c <= i
  BY CrlfFound
<1>3. /\ v \in Bytes /\ Len(v) = n + 2 /\ (\A i \in 1..n : v[i] = x[i])
      /\ v[n + 1] = CR /\ v[n + 2] = LF
  <2>1. /\ x \o Crlf \in Bytes /\ Len(x \o Crlf) = Len(x) + Len(Crlf)
        /\ \A i \in 1..Len(x) : (x \o Crlf)[i] = x[i]
        /\ \A i \in 1..Len(Crlf) : (x \o Crlf)[Len(x) + i] = Crlf[i]
    BY CrlfIs, Joined
  <2>2. 1 \in 1..2 /\ 2 \in 1..2
    OBVIOUS
  <2> QED
    BY <2>1, <2>2, CrlfIs
<1> HIDE DEF s, c, v, n
<1>4. t = v \o y
  BY DEF t, s, v
<1>5. /\ t \in Bytes /\ Len(t) = Len(s) + Len(w) /\ Len(w) \in Nat
      /\ \A i \in 1..Len(s) : t[i] = s[i]
  BY <1>1, Joined
<1>6. /\ Len(t) = (n + 2) + Len(y) /\ Len(y) \in Nat /\ (\A i \in 1..(n + 2) : t[i] = v[i])
      /\ \A i \in 1..Len(y) : t[(n + 2) + i] = y[i]
  <2>1. /\ Len(v \o y) = Len(v) + Len(y) /\ Len(y) \in Nat
        /\ \A i \in 1..Len(v) : (v \o y)[i] = v[i]
        /\ \A i \in 1..Len(y) : (v \o y)[Len(v) + i] = y[i]
    BY <1>3, Joined
  <2> HIDE DEF t
  <2> QED
    BY <1>3, <1>4, <2>1
<1> HIDE DEF t
<1>7. c = n + 1
  <2>1. c \in 1..Len(s) /\ c \in Nat /\ t[c] = CR
    BY <1>1, <1>2, <1>5
  <2>2. ~(c <= n)
    <3> SUFFICES ASSUME c <= n PROVE FALSE
      OBVIOUS
    <3>1. c \in 1..n /\ c \in 1..(n + 2)
      BY <1>1, <2>1
    <3>2. t[c] = x[c]
      BY <1>3, <1>6, <3>1
    <3>3. x[c] # CR
      BY <3>1 DEF n, NoCR
    <3> QED
      BY <2>1, <3>2, <3>3
  <2>3. n + 1 \in 1..(Len(s) - 1) /\ n + 1 \in 1..Len(s) /\ (n + 1) + 1 \in 1..Len(s)
    BY <1>1, <1>2, <2>1, <2>2
  <2>4. n + 1 \in 1..(n + 2) /\ n + 2 \in 1..(n + 2) /\ (n + 1) + 1 = n + 2
    BY <1>1
  <2>5. s[n + 1] = CR /\ s[(n + 1) + 1] = LF
    BY <1>3, <1>5, <1>6, <2>3, <2>4
  <2>6. c <= n + 1
    BY <1>2, <2>3, <2>5
  <2> QED
    BY <1>1, <2>1, <2>2, <2>6
<1>8. n + 2 \in Nat /\ n + 2 <= Len(s) /\ c - 1 = n /\ c + 1 = n + 2 /\ n <= Len(s)
  BY <1>1, <1>2, <1>7
<1>9. SubSeq(s, 1, n) = x
  <2> DEFINE u == SubSeq(s, 1, n)
  <2>1. u \in Bytes /\ Len(u) = n /\ \A i \in 1..n : u[i] = s[i]
    BY <1>1, <1>8, FirstBytes
  <2> HIDE DEF u
  <2>2. \A i \in 1..n : i \in 1..Len(s) /\ i \in 1..(n + 2)
    BY <1>1, <1>8
  <2>3. \A i \in 1..Len(u) : u[i] = x[i]
    BY <1>3, <1>5, <1>6, <2>1, <2>2
  <2>4. u = x
    BY <2>1, <2>3, SameBytes DEF n
  <2> QED
    BY <2>4 DEF u
<1> DEFINE e == retrieve(b, n + 2)
<1>10. BufferOK(e) /\ Content(e) = SubSeq(s, (n + 2) + 1, Len(s))
  <2>1. n + 2 \in Nat /\ n + 2 <= readableBytes(b)
    BY <1>1, <1>8
  <2> DEFINE k == n + 2
  <2> HIDE DEF k
  <2>2. BufferOK(retrieve(b, k)) /\ Content(retrieve(b, k)) = SubSeq(Content(b), k + 1, Len(Content(b)))
    BY <2>1, Retrieved DEF k
  <2> QED
    BY <2>2 DEF k, s
<1>11. SubSeq(s, (n + 2) + 1, Len(s)) \o w = SubSeq(t, (n + 2) + 1, Len(t))
  <2> DEFINE k == n + 2
  <2>1. k \in Nat /\ k <= Len(s)
    BY <1>8
  <2> HIDE DEF k
  <2>2. SubSeq(s, k + 1, Len(s)) \o w = SubSeq(s \o w, k + 1, Len(s \o w))
    BY <1>1, <2>1, FrontTaken
  <2> QED
    BY <2>2 DEF k, t
<1>12. SubSeq(t, (n + 2) + 1, Len(t)) = y
  <2> DEFINE k == n + 2
             z == Len(t)
  <2>1. k \in Nat /\ z \in Nat /\ z = k + Len(y) /\ z <= Len(t) /\ \A i \in 1..Len(y) : t[k + i] = y[i]
    BY <1>6, <1>8
  <2> HIDE DEF k, z
  <2>2. SubSeq(t, k + 1, z) = y
    BY <1>5, <2>1, PartIs
  <2> QED
    BY <2>2 DEF k, z
<1>13. Content(e) \o w = y
  BY <1>10, <1>11, <1>12
<1>14. SubSeq(s, 1, c - 1) = x /\ retrieve(b, c + 1) = e
  BY <1>8, <1>9
<1> HIDE DEF e
<1> QED
  BY <1>10, <1>13, <1>14 DEF s, c

-----------------------------------------------------------------------------
(* Http: where the parser is in the stream of requests *)

Wires(rq) == [p \in 1..Len(rq) |-> Wire(rq[p])]

\* The stream s is what remains behind the first n requests of rq, ...
Lies(rq, n, s) ==
  n <= Len(rq) /\ \E rest : Laid(rest, Len(rq), Wires(rq)) /\ s = rest[n]

\* ... and behind the first l lines of the one that follows them.
Behind(rq, n, l, s) ==
  /\ n < Len(rq)
  /\ \E rest, tail : /\ Laid(rest, Len(rq), Wires(rq))
                     /\ Laid(tail, Len(rq[n + 1]) + 1, Ended(rq[n + 1]))
                     /\ s = tail[l] \o rest[n + 1]

\* A request on the wire is a sequence of bytes.
LEMMA WireIs ==
  ASSUME NEW r \in Requests
  PROVE  Wire(r) \in Bytes
<1>1. PICK rest : Laid(rest, Len(r) + 1, Ended(r)) /\ rest[0] = Wire(r)
  BY WireIsLaid
<1>2. 0 \in 0..(Len(r) + 1)
  BY RequestIs
<1> QED
  BY <1>1, <1>2 DEF Laid

\* The requests made, one by one.
LEMMA MadeAre ==
  ASSUME NEW rq \in Seq(Requests)
  PROVE  /\ Len(rq) \in Nat /\ DOMAIN rq = 1..Len(rq)
         /\ \A p \in 1..Len(rq) : rq[p] \in Requests /\ Wires(rq)[p] = Wire(rq[p]) /\ Wires(rq)[p] \in Bytes
<1>1. /\ Len(rq) \in Nat /\ DOMAIN rq = 1..Len(rq)
      /\ \A p \in 1..Len(rq) : rq[p] \in Requests
  BY LenProperties, ElementOfSeq
<1>2. ASSUME NEW p \in 1..Len(rq) PROVE Wires(rq)[p] = Wire(rq[p]) /\ Wires(rq)[p] \in Bytes
  BY <1>1, WireIs DEF Wires
<1> QED
  BY <1>1, <1>2

\* One more request.
LEMMA OneMore ==
  ASSUME NEW rq \in Seq(Requests), NEW r \in Requests
  PROVE  /\ Append(rq, r) \in Seq(Requests) /\ Len(Append(rq, r)) = Len(rq) + 1
         /\ \A p \in 1..Len(rq) : Append(rq, r)[p] = rq[p]
         /\ Append(rq, r)[Len(rq) + 1] = r
         /\ Longer(Wires(Append(rq, r)), Wires(rq), Len(rq), Wire(r))
<1> DEFINE a == Append(rq, r)
           n == Len(rq)
<1>1. /\ a \in Seq(Requests) /\ Len(a) = n + 1 /\ n \in Nat
      /\ (\A p \in 1..n : a[p] = rq[p]) /\ a[n + 1] = r
  BY AppendProperties, LenProperties
<1>2. \A p \in 1..n : Wires(rq)[p] = Wire(rq[p]) /\ Wires(rq)[p] \in Bytes
  BY MadeAre
<1>3. \A p \in 1..(n + 1) : Wires(a)[p] = Wire(a[p])
  BY <1>1 DEF Wires
<1> HIDE DEF a
<1>4. \A p \in 1..n : p \in 1..(n + 1)
  BY <1>1
<1>5. n + 1 \in 1..(n + 1)
  BY <1>1
<1>6. Longer(Wires(a), Wires(rq), n, Wire(r))
  <2>1. \A p \in 1..n : Wires(a)[p] = Wires(rq)[p]
    BY <1>1, <1>2, <1>3, <1>4
  <2>2. Wires(a)[n + 1] = Wire(r) /\ Wire(r) \in Bytes
    BY <1>1, <1>3, <1>5, WireIs
  <2> QED
    BY <1>2, <2>1, <2>2 DEF Longer
<1> QED
  BY <1>1, <1>6 DEF a

\* A request that is made goes behind what lies there.
LEMMA LiesMore ==
  ASSUME NEW rq \in Seq(Requests), NEW n \in Nat, NEW s, NEW r \in Requests
  PROVE  /\ Lies(rq, n, s) => Lies(Append(rq, r), n, s \o Wire(r))
         /\ \A l \in Nat : l <= Len(rq[n + 1]) + 1 /\ Behind(rq, n, l, s) => Behind(Append(rq, r), n, l, s \o Wire(r))
<1> DEFINE a == Append(rq, r)
           k == Len(rq)
           more == Wire(r)
<1>1. /\ Len(a) = k + 1 /\ k \in Nat /\ (\A p \in 1..k : a[p] = rq[p])
      /\ Longer(Wires(a), Wires(rq), k, more)
  BY OneMore, MadeAre
<1>2. more \in Bytes
  BY WireIs
<1>3. ASSUME NEW rest, Laid(rest, k, Wires(rq))
      PROVE  \E all : Laid(all, k + 1, Wires(a)) /\ \A i \in 0..k : all[i] = rest[i] \o more
  <2> DEFINE W == Wires(rq)
             V == Wires(a)
  <2>1. k \in Nat /\ Laid(rest, k, W) /\ Longer(V, W, k, more)
    BY <1>1, <1>3
  <2> HIDE DEF a, k, more, W, V
  <2>2. \E all : Laid(all, k + 1, V) /\ \A i \in 0..k : all[i] = rest[i] \o more
    BY <2>1, LaidMore
  <2> QED
    BY <2>2 DEF V
<1> HIDE DEF a, k, more
<1>4. ASSUME Lies(rq, n, s) PROVE Lies(a, n, s \o more)
  <2>1. PICK rest : Laid(rest, k, Wires(rq)) /\ s = rest[n] /\ n <= k
    BY <1>4 DEF Lies, k
  <2>2. PICK all : Laid(all, k + 1, Wires(a)) /\ \A i \in 0..k : all[i] = rest[i] \o more
    BY <1>3, <2>1
  <2>3. n \in 0..k /\ n <= k + 1
    BY <1>1, <2>1
  <2>4. s \o more = all[n]
    BY <2>1, <2>2, <2>3
  <2> QED
    BY <1>1, <2>2, <2>3, <2>4 DEF Lies
<1>5. ASSUME NEW l \in Nat, l <= Len(rq[n + 1]) + 1, Behind(rq, n, l, s) PROVE Behind(a, n, l, s \o more)
  <2> DEFINE q == rq[n + 1]
  <2>1. PICK rest, tail : /\ Laid(rest, k, Wires(rq)) /\ Laid(tail, Len(q) + 1, Ended(q))
                          /\ s = tail[l] \o rest[n + 1] /\ n < k
    BY <1>5 DEF Behind, k
  <2>2. PICK all : Laid(all, k + 1, Wires(a)) /\ \A i \in 0..k : all[i] = rest[i] \o more
    BY <1>3, <2>1
  <2>3. n + 1 \in 0..k /\ n + 1 \in 1..k /\ n < k + 1
    BY <1>1, <2>1
  <2>4. a[n + 1] = q /\ q \in Requests /\ Len(q) \in Nat
    <3>1. a[n + 1] = q
      BY <1>1, <2>3
    <3>2. q \in Requests
      BY <2>3, MadeAre DEF k
    <3> HIDE DEF q
    <3>3. Len(q) \in Nat
      BY <3>2, RequestIs
    <3> QED
      BY <3>1, <3>2, <3>3
  <2> HIDE DEF q
  <2>5. tail[l] \in Bytes /\ rest[n + 1] \in Bytes
    <3>1. l \in 0..(Len(q) + 1)
      BY <1>5, <2>4 DEF q
    <3> QED
      BY <2>1, <2>3, <3>1 DEF Laid
  <2>6. s \o more = tail[l] \o all[n + 1]
    <3>1. (tail[l] \o rest[n + 1]) \o more = tail[l] \o (rest[n + 1] \o more)
      BY <1>2, <2>5, InARow
    <3> QED
      BY <2>1, <2>2, <2>3, <3>1
  <2> QED
    BY <1>1, <2>1, <2>2, <2>3, <2>4, <2>6 DEF Behind
<1> QED
  BY <1>4, <1>5 DEF a, more

\* Before the first line of a request, and behind its last one.
LEMMA LineBounds ==
  ASSUME NEW rq \in Seq(Requests), NEW n \in Nat, NEW s, n < Len(rq)
  PROVE  /\ Lies(rq, n, s) => Behind(rq, n, 0, s)
         /\ Behind(rq, n, Len(rq[n + 1]) + 1, s) => Lies(rq, n + 1, s)
<1> DEFINE k == Len(rq)
           r == rq[n + 1]
<1>1. n + 1 \in 1..k /\ n + 1 \in 0..k /\ (n + 1) - 1 = n /\ k \in Nat
  BY MadeAre
<1>2. r \in Requests /\ Wires(rq)[n + 1] = Wire(r)
  BY <1>1, MadeAre
<1>3. PICK tail : Laid(tail, Len(r) + 1, Ended(r)) /\ tail[0] = Wire(r)
  BY <1>2, WireIsLaid
<1> HIDE DEF k, r
<1>4. ASSUME Lies(rq, n, s) PROVE Behind(rq, n, 0, s)
  <2>1. PICK rest : Laid(rest, k, Wires(rq)) /\ s = rest[n]
    BY <1>4 DEF Lies, k
  <2>2. rest[(n + 1) - 1] = Wires(rq)[n + 1] \o rest[n + 1]
    BY <1>1, <2>1 DEF Laid
  <2>3. s = tail[0] \o rest[n + 1]
    BY <1>1, <1>2, <1>3, <2>1, <2>2
  <2> QED
    BY <1>3, <2>1, <2>3 DEF Behind, k, r
<1>5. ASSUME Behind(rq, n, Len(r) + 1, s) PROVE Lies(rq, n + 1, s)
  <2>1. PICK rest, end : /\ Laid(rest, k, Wires(rq)) /\ Laid(end, Len(r) + 1, Ended(r))
                         /\ s = end[Len(r) + 1] \o rest[n + 1]
    BY <1>5 DEF Behind, k, r
  <2>2. end[Len(r) + 1] = <<>> /\ rest[n + 1] \in Bytes
    BY <1>1, <2>1 DEF Laid
  <2>3. s = rest[n + 1]
    BY <2>1, <2>2, ConcatEmptySeq DEF Bytes
  <2>4. n + 1 <= k
    BY <1>1
  <2> QED
    BY <2>1, <2>3, <2>4 DEF Lies, k
<1> QED
  BY <1>4, <1>5 DEF r

\* The line that parseRequest() takes is the next one of the request it is in.
LEMMA TakeLine ==
  ASSUME NEW rq \in Seq(Requests), NEW n \in Nat, NEW l \in Nat, NEW b, BufferOK(b), NEW w \in Bytes,
         Behind(rq, n, l, Content(b) \o w), l <= Len(rq[n + 1]), findCRLF(b) # 0
  PROVE  /\ n < Len(rq)
         /\ SubSeq(Content(b), 1, findCRLF(b) - 1) = Text(rq[n + 1], l + 1)
         /\ BufferOK(retrieve(b, findCRLF(b) + 1))
         /\ Behind(rq, n, l + 1, Content(retrieve(b, findCRLF(b) + 1)) \o w)
<1> DEFINE k == Len(rq)
           r == rq[n + 1]
           s == Content(b) \o w
<1>1. PICK rest, tail : /\ Laid(rest, k, Wires(rq)) /\ Laid(tail, Len(r) + 1, Ended(r))
                        /\ s = tail[l] \o rest[n + 1] /\ n < k
  BY DEF Behind
<1>2. n + 1 \in 1..k /\ n + 1 \in 0..k /\ k \in Nat
  BY <1>1, MadeAre
<1>3. r \in Requests /\ l <= Len(r)
  BY <1>2, MadeAre
<1> HIDE DEF k, r
<1>4. Len(r) \in Nat
  BY <1>3, RequestIs
<1>5. l + 1 \in 1..(Len(r) + 1) /\ l + 1 \in 0..(Len(r) + 1) /\ (l + 1) - 1 = l
  BY <1>3, <1>4
<1> DEFINE x == Text(r, l + 1)
           y == tail[l + 1] \o rest[n + 1]
<1>6. /\ x \in Bytes /\ Crlf \in Bytes /\ Ended(r)[l + 1] = x \o Crlf
      /\ \A i \in 1..Len(x) : x[i] # CR
  <2>1. /\ Crlf \in Bytes
        /\ \A j \in 1..(Len(r) + 1) : /\ Text(r, j) \in Bytes
                                      /\ Ended(r)[j] = Text(r, j) \o Crlf
                                      /\ \A i \in 1..Len(Text(r, j)) : Text(r, j)[i] # CR
    BY <1>3, RequestIs
  <2> QED
    BY <1>5, <2>1, Zenon
<1>7. tail[l + 1] \in Bytes /\ rest[n + 1] \in Bytes
  BY <1>1, <1>2, <1>5 DEF Laid
<1>8. y \in Bytes /\ x \o Crlf \in Bytes
  <2> HIDE DEF x
  <2> QED
    BY <1>6, <1>7, Joined
<1>9. tail[l] = (x \o Crlf) \o tail[l + 1]
  <2>1. tail[(l + 1) - 1] = Ended(r)[l + 1] \o tail[l + 1]
    BY <1>1, <1>5 DEF Laid
  <2> HIDE DEF x
  <2> QED
    BY <1>5, <1>6, <2>1
<1> HIDE DEF x
<1>10. s = (x \o Crlf) \o y
  <2> DEFINE v == x \o Crlf
  <2> HIDE DEF v, s
  <2>1. (v \o tail[l + 1]) \o rest[n + 1] = v \o (tail[l + 1] \o rest[n + 1])
    BY <1>7, <1>8, InARow, ZenonT(25) DEF v
  <2> QED
    BY <1>1, <1>9, <2>1 DEF v
<1> HIDE DEF y
<1>11. /\ SubSeq(Content(b), 1, findCRLF(b) - 1) = x /\ BufferOK(retrieve(b, findCRLF(b) + 1))
       /\ Content(retrieve(b, findCRLF(b) + 1)) \o w = y
  <2>1. /\ x \in Bytes /\ y \in Bytes /\ Content(b) \o w = (x \o Crlf) \o y
        /\ NoCR(x)
    BY <1>6, <1>8, <1>10 DEF y, NoCR
  <2> QED
    BY <2>1, FirstLine, Zenon
<1>12. Behind(rq, n, l + 1, y)
  BY <1>1 DEF Behind, y, k, r
<1> QED
  BY <1>1, <1>11, <1>12 DEF x, k, r

-----------------------------------------------------------------------------
(* Http: what the parser has made of the lines *)

GoodFirst(r) == Len(r[1]) = 2 /\ r[1][1] \in {Http10, Http11}

HttpVersions == {"kUnknown", "kHttp10", "kHttp11"}
HttpRequests == [method_ : {"kInvalid", "kGet"}, version_ : HttpVersions, path_ : Nat,
                 connection : {"", "close", "Keep-Alive"}]

SaidUpTo(r, l) == {i \in 2..l : r[i][1] \in {Close, KeepAlive}}

\* The Connection header that counts after l lines.
Connection(r, l, c) ==
  \/ SaidUpTo(r, l) = {} /\ c = ""
  \/ \E i \in SaidUpTo(r, l) : /\ \A j \in SaidUpTo(r, l) : j <= i
                               /\ r[i][1] = Close => c = "close"
                               /\ r[i][1] # Close => c = "Keep-Alive"

\* q is the HttpRequest after l lines of r.
Parsed(q, r, l) ==
  /\ q \in HttpRequests
  /\ GoodFirst(r) /\ q.path_ = r[1][2]
  /\ r[1][1] = Http10 <=> q.version_ = "kHttp10"
  /\ \A i \in 2..l : r[i][1] # NoColon
  /\ Connection(r, l, q.connection)

\* After the request line.
LEMMA ParsedFirst ==
  ASSUME NEW r \in Requests, GoodFirst(r), NEW v \in HttpVersions, r[1][1] = Http10 <=> v = "kHttp10"
  PROVE  Parsed([NoRequest EXCEPT !.method_ = "kGet", !.path_ = r[1][2], !.version_ = v], r, 1)
<1> DEFINE q == [NoRequest EXCEPT !.method_ = "kGet", !.path_ = r[1][2], !.version_ = v]
<1>1. r[1][2] \in Nat
  <2>1. r[1][2] \in {Root, Favicon, OnePart, NoPart, Command}
    BY HttpBounds DEF GoodFirst
  <2> QED
    BY <2>1 DEF Root, Favicon, OnePart, NoPart, Command
<1>2. NoRequest \in HttpRequests /\ NoRequest.connection = ""
  BY DEF NoRequest, HttpRequests, HttpVersions
<1>3. q \in HttpRequests /\ q.path_ = r[1][2] /\ q.version_ = v /\ q.connection = ""
  BY <1>1, <1>2 DEF HttpRequests
<1> HIDE DEF q
<1>4. 2..1 = {}
  OBVIOUS
<1>5. SaidUpTo(r, 1) = {}
  BY <1>4 DEF SaidUpTo
<1> QED
  BY <1>3, <1>4, <1>5 DEF Parsed, Connection, q

\* After one more header.
LEMMA ParsedHeader ==
  ASSUME NEW r \in Requests, NEW l \in Nat \ {0}, l < Len(r), NEW q, Parsed(q, r, l),
         r[l + 1][1] \in {Close, KeepAlive, OtherHeader}
  PROVE  Parsed(addHeader(q, r[l + 1][1]), r, l + 1)
<1> DEFINE h == r[l + 1][1]
           e == addHeader(q, h)
           S == SaidUpTo(r, l)
           T == SaidUpTo(r, l + 1)
           c == e.connection
<1>1. /\ q \in HttpRequests /\ GoodFirst(r) /\ q.path_ = r[1][2]
      /\ r[1][1] = Http10 <=> q.version_ = "kHttp10"
      /\ \A i \in 2..l : r[i][1] # NoColon
  BY DEF Parsed
<1>2. Connection(r, l, q.connection)
  BY DEF Parsed
<1>3. h \in {Close, KeepAlive, OtherHeader} /\ Close # KeepAlive /\ Close # OtherHeader /\ KeepAlive # OtherHeader
      /\ h # NoColon
  BY DEF Close, KeepAlive, OtherHeader, NoColon
<1>4. e = IF h = Close THEN [q EXCEPT !.connection = "close"]
          ELSE IF h = KeepAlive THEN [q EXCEPT !.connection = "Keep-Alive"] ELSE q
  <2> HIDE DEF h
  <2> QED
    BY <1>3 DEF addHeader
<1>5. \A i \in 2..(l + 1) : i = l + 1 \/ i \in 2..l
  OBVIOUS
<1>6. l + 1 \in 2..(l + 1) /\ \A i \in 2..l : i \in 2..(l + 1) /\ i <= l + 1
  OBVIOUS
<1>7. \A i \in 2..(l + 1) : r[i][1] # NoColon
  BY <1>1, <1>3, <1>5
<1>8. e \in HttpRequests /\ e.path_ = q.path_ /\ e.version_ = q.version_
      /\ c = IF h = Close THEN "close" ELSE IF h = KeepAlive THEN "Keep-Alive" ELSE q.connection
  <2> HIDE DEF h, e
  <2> QED
    BY <1>1, <1>4 DEF HttpRequests
<1> HIDE DEF e
<1>9. Connection(r, l + 1, c)
  <2>1. CASE h \in {Close, KeepAlive}
    <3>1. l + 1 \in T /\ \A j \in T : j <= l + 1
      BY <1>6, <2>1 DEF SaidUpTo
    <3>2. (h = Close => c = "close") /\ (h # Close => c = "Keep-Alive")
      BY <1>3, <1>8, <2>1
    <3> HIDE DEF T, c
    <3>3. \E i \in T : (\A j \in T : j <= i) /\ (r[i][1] = Close => c = "close")
                        /\ (r[i][1] # Close => c = "Keep-Alive")
      BY <3>1, <3>2
    <3> QED
      BY <3>3 DEF Connection, T
  <2>2. CASE h \notin {Close, KeepAlive}
    <3>1. T = S
      BY <1>5, <1>6, <2>2 DEF SaidUpTo
    <3>2. c = q.connection
      BY <1>8, <2>2
    <3> QED
      BY <1>2, <3>1, <3>2 DEF Connection
  <2> QED
    BY <2>1, <2>2
<1> QED
  BY <1>1, <1>7, <1>8, <1>9 DEF Parsed, e, h

\* What onRequest() decides of a request.
AskedToClose(q) == q.connection = "close" \/ (q.version_ = "kHttp10" /\ q.connection # "Keep-Alive")

\* After the last line the request is well formed, and onRequest() closes as it asks.
LEMMA ParsedEnd ==
  ASSUME NEW r \in Requests, NEW q, Parsed(q, r, Len(r))
  PROVE  WellFormed(r) /\ AskedToClose(q) = AsksClose(r)
<1> DEFINE S == SaidUpTo(r, Len(r))
<1>1. /\ GoodFirst(r) /\ \A i \in 2..Len(r) : r[i][1] # NoColon
      /\ r[1][1] = Http10 <=> q.version_ = "kHttp10"
  BY DEF Parsed
<1>2. WellFormed(r)
  BY <1>1 DEF WellFormed, GoodFirst
<1>3. AsksClose(r) = IF S = {} THEN r[1][1] = Http10
                     ELSE \E i \in S : r[i][1] = Close /\ \A j \in S : j <= i
  BY DEF AsksClose, SaidUpTo
<1>4. Connection(r, Len(r), q.connection)
  BY DEF Parsed
<1>5. AskedToClose(q) <=> AsksClose(r)
  <2>1. CASE S = {} /\ q.connection = ""
    BY <1>1, <1>3, <2>1 DEF AskedToClose
  <2>2. CASE \E i \in S : /\ \A j \in S : j <= i
                          /\ r[i][1] = Close => q.connection = "close"
                          /\ r[i][1] # Close => q.connection = "Keep-Alive"
    <3>1. PICK i \in S : /\ \A j \in S : j <= i
                         /\ r[i][1] = Close => q.connection = "close"
                         /\ r[i][1] # Close => q.connection = "Keep-Alive"
      BY <2>2
    <3>2. S # {} /\ \A j \in S : j \in Nat
      BY <3>1, RequestIs DEF SaidUpTo
    <3> HIDE DEF S
    <3>3. \A j \in S : (\A k \in S : k <= j) => j = i
      BY <3>1, <3>2
    <3>4. AsksClose(r) <=> r[i][1] = Close
      BY <1>3, <3>1, <3>2, <3>3
    <3> QED
      BY <3>1, <3>4 DEF AskedToClose
  <2> QED
    BY <1>4, <2>1, <2>2 DEF Connection
<1>6. AskedToClose(q) \in BOOLEAN /\ AsksClose(r) \in BOOLEAN
  BY <1>3 DEF AskedToClose
<1> QED
  BY <1>2, <1>5, <1>6

-----------------------------------------------------------------------------
(* Http: the responses *)

Answers == [status : {"k200Ok", "k404NotFound", "k400BadRequest"}, close : BOOLEAN, known : BOOLEAN]

\* A response that answers r.
Fits(a, r) ==
  /\ a.close = AsksClose(r)
  /\ a.status = IF r[1][2] \in {Root, Favicon} \/ (r[1][2] = Command /\ a.known)
                  THEN "k200Ok" ELSE "k404NotFound"

\* The first i requests are made, and well formed.
WellMade(rq, i) == \A j \in 1..i : j \in DOMAIN rq /\ WellFormed(rq[j])

\* One of the first n requests is not well formed.
Spoiled(rq, n) == \E j \in DOMAIN rq : j <= n /\ ~WellFormed(rq[j])

AllFit(rs, rq) == \A i \in DOMAIN rs : WellMade(rq, i) => Fits(rs[i], rq[i])

\* A request that is made spoils nothing that was answered before.
LEMMA FitBefore ==
  ASSUME NEW rq \in Seq(Requests), NEW rs \in Seq(Answers), NEW r \in Requests,
         AllFit(rs, rq), Spoiled(rq, Len(rs)) \/ Len(rs) <= Len(rq)
  PROVE  /\ AllFit(rs, Append(rq, r))
         /\ Spoiled(Append(rq, r), Len(rs)) \/ Len(rs) <= Len(Append(rq, r))
         /\ Spoiled(rq, Len(rs)) => Spoiled(Append(rq, r), Len(rs))
<1> DEFINE a == Append(rq, r)
           k == Len(rq)
           n == Len(rs)
<1>1. /\ a \in Seq(Requests) /\ Len(a) = k + 1 /\ k \in Nat /\ DOMAIN rq = 1..k
      /\ \A p \in 1..k : a[p] = rq[p]
  BY OneMore, MadeAre
<1>2. DOMAIN a = 1..(k + 1) /\ n \in Nat /\ DOMAIN rs = 1..n
  <2>1. DOMAIN a = 1..Len(a)
    BY <1>1, MadeAre
  <2>2. n \in Nat /\ DOMAIN rs = 1..n
    BY LenProperties
  <2> QED
    BY <1>1, <2>1, <2>2
<1> HIDE DEF a, k, n
<1>3. \A j \in 1..k : j \in 1..(k + 1)
  BY <1>1
<1>4. ASSUME Spoiled(rq, n) PROVE Spoiled(a, n)
  <2>1. PICK j \in 1..k : j <= n /\ ~WellFormed(rq[j])
    BY <1>1, <1>4 DEF Spoiled
  <2>2. j \in DOMAIN a /\ a[j] = rq[j]
    BY <1>1, <1>2, <1>3, <2>1
  <2> QED
    BY <2>1, <2>2 DEF Spoiled
<1>5. Spoiled(a, n) \/ n <= Len(a)
  <2>1. n <= k => n <= k + 1
    BY <1>1, <1>2
  <2> QED
    BY <1>1, <1>4, <2>1 DEF n, k
<1>6. ASSUME NEW i \in DOMAIN rs, WellMade(a, i) PROVE Fits(rs[i], a[i])
  <2>0. i \in 1..n /\ i \in Nat
    BY <1>2, <1>6
  <2>1. i <= k
    <3> SUFFICES ASSUME ~(i <= k) PROVE FALSE
      OBVIOUS
    <3>1. ~(n <= k)
      BY <1>1, <1>2, <2>0
    <3>2. PICK j \in 1..k : j <= n /\ ~WellFormed(rq[j])
      BY <1>1, <3>1 DEF Spoiled, n, k
    <3>3. j \in 1..i /\ a[j] = rq[j]
      BY <1>1, <2>0, <3>2
    <3> QED
      BY <1>6, <3>2, <3>3 DEF WellMade
  <2>2. WellMade(rq, i) /\ a[i] = rq[i]
    <3>1. \A j \in 1..i : j \in 1..k
      BY <1>1, <2>0, <2>1
    <3>2. i \in 1..i
      BY <2>0
    <3> QED
      BY <1>1, <1>6, <3>1, <3>2 DEF WellMade
  <2>3. Fits(rs[i], rq[i])
    BY <1>6, <2>2 DEF AllFit
  <2> QED
    BY <2>2, <2>3
<1>7. AllFit(rs, a)
  BY <1>6 DEF AllFit
<1> QED
  BY <1>4, <1>5, <1>7 DEF a, n

\* A response that answers its request, or comes when one was not well formed.
LEMMA FitMore ==
  ASSUME NEW rq \in Seq(Requests), NEW rs \in Seq(Answers), NEW a \in Answers, AllFit(rs, rq),
         Spoiled(rq, Len(rs) + 1) \/ Fits(a, rq[Len(rs) + 1])
  PROVE  /\ Append(rs, a) \in Seq(Answers) /\ Len(Append(rs, a)) = Len(rs) + 1 /\ Len(rs) \in Nat
         /\ AllFit(Append(rs, a), rq)
<1> DEFINE e == Append(rs, a)
           n == Len(rs)
<1>1. /\ e \in Seq(Answers) /\ Len(e) = n + 1 /\ n \in Nat
      /\ (\A p \in 1..n : e[p] = rs[p]) /\ e[n + 1] = a
  <2> HIDE DEF Answers
  <2> QED
    BY AppendProperties, LenProperties
<1>2. DOMAIN e = 1..(n + 1) /\ DOMAIN rs = 1..n
  <2> HIDE DEF e, Answers
  <2>1. DOMAIN e = 1..Len(e) /\ DOMAIN rs = 1..Len(rs)
    BY <1>1, LenProperties
  <2> QED
    BY <1>1, <2>1
<1> HIDE DEF e, n
<1>3. ASSUME NEW i \in 1..(n + 1), WellMade(rq, i) PROVE Fits(e[i], rq[i])
  <2>1. CASE i = n + 1
    <3>1. ~Spoiled(rq, n + 1)
      <4> SUFFICES ASSUME Spoiled(rq, n + 1) PROVE FALSE
        OBVIOUS
      <4>1. PICK j \in DOMAIN rq : j <= n + 1 /\ ~WellFormed(rq[j])
        BY DEF Spoiled
      <4>2. j \in 1..i
        BY <1>1, <2>1, <4>1, MadeAre
      <4> QED
        BY <1>3, <4>1, <4>2 DEF WellMade
    <3>2. Fits(a, rq[n + 1])
      BY <3>1 DEF n
    <3> QED
      BY <1>1, <2>1, <3>2
  <2>2. CASE i # n + 1
    <3>1. i \in 1..n
      BY <1>1, <2>2
    <3>2. Fits(rs[i], rq[i])
      BY <1>2, <1>3, <3>1 DEF AllFit
    <3> QED
      BY <1>1, <3>1, <3>2
  <2> QED
    BY <2>1, <2>2
<1>4. AllFit(e, rq)
  BY <1>2, <1>3 DEF AllFit
<1> QED
  BY <1>1, <1>4 DEF e, n

-----------------------------------------------------------------------------
(* Http: the invariant *)

\* The parser is where the responses say: behind as many requests, and in the headers of
\* the next one behind the lines it has parsed.
InStep(st, q, rq, n, s) ==
  \/ st = "kExpectRequestLine" /\ q = NoRequest /\ Lies(rq, n, s)
  \/ st = "kExpectHeaders" /\ \E l \in 1..Len(rq[n + 1]) : Behind(rq, n, l, s) /\ Parsed(q, rq[n + 1], l)

\* Once a request that is not well formed was answered, or the connection is shut down, the
\* parser may be anywhere.
Follow(conn, st, q, rq, rs, s) ==
  /\ AllFit(rs, rq)
  /\ Spoiled(rq, Len(rs)) \/ Len(rs) <= Len(rq)
  /\ conn => Spoiled(rq, Len(rs)) \/ InStep(st, q, rq, Len(rs), s)

HttpTypeOK ==
  /\ httpWire \in Bytes /\ BufferOK(httpBuffer)
  /\ httpConnected \in BOOLEAN
  /\ requests \in Seq(Requests) /\ responses \in Seq(Answers)

ResponsesFollow ==
  Follow(httpConnected, state_, request_, requests, responses, Content(httpBuffer) \o httpWire)

HttpInv == HttpTypeOK /\ ResponsesFollow

\* modules_ has the command that is registered.
TableAgrees == <<"module", "command">> \in registered <=> "command" \in Entry(modules_, "module")

\* A request that is made.
LEMMA FollowMake ==
  ASSUME NEW conn, NEW st, NEW q, NEW rq \in Seq(Requests), NEW rs \in Seq(Answers), NEW s,
         Follow(conn, st, q, rq, rs, s), NEW r \in Requests
  PROVE  Follow(conn, st, q, Append(rq, r), rs, s \o Wire(r))
<1> DEFINE a == Append(rq, r)
           n == Len(rs)
           t == s \o Wire(r)
<1>0. n \in Nat
  BY LenProperties
<1>1. AllFit(rs, a) /\ (Spoiled(a, n) \/ n <= Len(a)) /\ (Spoiled(rq, n) => Spoiled(a, n))
  BY FitBefore DEF Follow
<1>2. ASSUME InStep(st, q, rq, n, s) PROVE InStep(st, q, a, n, t)
  <2>1. CASE st = "kExpectRequestLine" /\ q = NoRequest /\ Lies(rq, n, s)
    <3>1. Lies(a, n, t)
      BY <1>0, <2>1, LiesMore
    <3> QED
      BY <2>1, <3>1 DEF InStep
  <2>2. CASE st = "kExpectHeaders" /\ \E l \in 1..Len(rq[n + 1]) : Behind(rq, n, l, s) /\ Parsed(q, rq[n + 1], l)
    <3>1. PICK l \in 1..Len(rq[n + 1]) : Behind(rq, n, l, s) /\ Parsed(q, rq[n + 1], l)
      BY <2>2
    <3>2. n < Len(rq)
      BY <3>1 DEF Behind
    <3>3. n + 1 \in 1..Len(rq)
      BY <1>0, <3>2, MadeAre
    <3>4. rq[n + 1] \in Requests /\ a[n + 1] = rq[n + 1]
      BY <3>3, MadeAre, OneMore
    <3>5. Len(rq[n + 1]) \in Nat
      BY <3>4, RequestIs
    <3>6. l \in Nat /\ l <= Len(rq[n + 1]) + 1
      BY <3>5
    <3>7. Behind(a, n, l, t)
      BY <1>0, <3>1, <3>6, LiesMore
    <3> QED
      BY <2>2, <3>1, <3>4, <3>7 DEF InStep
  <2> QED
    BY <1>2, <2>1, <2>2 DEF InStep
<1>3. conn => Spoiled(a, n) \/ InStep(st, q, a, n, t)
  BY <1>1, <1>2 DEF Follow
<1> QED
  BY <1>1, <1>3 DEF Follow

\* A line that is complete leaves a buffer that is one.
LEMMA LineRetrieved ==
  ASSUME NEW b, BufferOK(b), findCRLF(b) # 0
  PROVE  BufferOK(retrieve(b, findCRLF(b) + 1))
<1>1. findCRLF(b) \in 1..(Len(Content(b)) - 1)
  BY CrlfFound
<1>2. Len(Content(b)) \in Nat /\ Len(Content(b)) = readableBytes(b)
  BY ContentIs
<1>3. findCRLF(b) + 1 \in Nat /\ findCRLF(b) + 1 <= readableBytes(b)
  BY <1>1, <1>2
<1> QED
  BY <1>3, Retrieved

\* The line in front, where the parser expects a request line.
LEMMA AtRequestLine ==
  ASSUME NEW q, NEW rq \in Seq(Requests), NEW n \in Nat, NEW b, BufferOK(b), NEW w \in Bytes,
         InStep("kExpectRequestLine", q, rq, n, Content(b) \o w), findCRLF(b) # 0
  PROVE  /\ q = NoRequest /\ n < Len(rq) /\ rq[n + 1] \in Requests
         /\ SubSeq(Content(b), 1, findCRLF(b) - 1) = rq[n + 1][1]
         /\ Behind(rq, n, 1, Content(retrieve(b, findCRLF(b) + 1)) \o w)
<1> DEFINE s == Content(b) \o w
           r == rq[n + 1]
<1>1. q = NoRequest /\ Lies(rq, n, s)
  BY DEF InStep
<1>2. n <= Len(rq) /\ Len(rq) \in Nat
  BY <1>1, MadeAre DEF Lies
<1>3. n # Len(rq)
  <2> SUFFICES ASSUME n = Len(rq) PROVE FALSE
    OBVIOUS
  <2>1. s = <<>>
    BY <1>1 DEF Lies, Laid
  <2>2. findCRLF(b) = 0
    BY <2>1, NoLine
  <2> QED
    BY <2>2
<1>4. n < Len(rq)
  BY <1>2, <1>3
<1>5. r \in Requests
  BY <1>2, <1>4, MadeAre
<1>6. Len(r) \in Nat \ {0} /\ 0 <= Len(r) /\ Text(r, 1) = r[1]
  <2>1. Len(r) \in Nat \ {0} /\ \A l \in 1..Len(r) : Text(r, l) = r[l]
    BY <1>5, RequestIs
  <2>2. 1 \in 1..Len(r) /\ 0 <= Len(r)
    BY <2>1
  <2> QED
    BY <2>1, <2>2
<1>7. Behind(rq, n, 0, s)
  BY <1>1, <1>4, LineBounds
<1>8. /\ SubSeq(Content(b), 1, findCRLF(b) - 1) = Text(r, 0 + 1)
      /\ Behind(rq, n, 0 + 1, Content(retrieve(b, findCRLF(b) + 1)) \o w)
  <2>1. 0 \in Nat
    OBVIOUS
  <2> QED
    BY <1>6, <1>7, <2>1, TakeLine
<1>9. 0 + 1 = 1
  OBVIOUS
<1> QED
  BY <1>1, <1>4, <1>5, <1>6, <1>8, <1>9

\* The line in front, where the parser expects headers.
LEMMA AtHeaders ==
  ASSUME NEW q, NEW rq \in Seq(Requests), NEW n \in Nat, NEW b, BufferOK(b), NEW w \in Bytes,
         InStep("kExpectHeaders", q, rq, n, Content(b) \o w), findCRLF(b) # 0
  PROVE  /\ n < Len(rq) /\ rq[n + 1] \in Requests
         /\ \E l \in 1..Len(rq[n + 1]) :
              /\ Parsed(q, rq[n + 1], l)
              /\ SubSeq(Content(b), 1, findCRLF(b) - 1) = Text(rq[n + 1], l + 1)
              /\ Behind(rq, n, l + 1, Content(retrieve(b, findCRLF(b) + 1)) \o w)
<1> DEFINE s == Content(b) \o w
           r == rq[n + 1]
<1>1. PICK l \in 1..Len(r) : Behind(rq, n, l, s) /\ Parsed(q, r, l)
  BY DEF InStep
<1>2. n < Len(rq)
  BY <1>1 DEF Behind
<1>3. n + 1 \in 1..Len(rq)
  BY <1>2, MadeAre
<1>4. r \in Requests
  BY <1>3, MadeAre
<1>5. Len(r) \in Nat
  BY <1>4, RequestIs
<1>6. l \in Nat /\ l <= Len(r)
  BY <1>5
<1>7. /\ SubSeq(Content(b), 1, findCRLF(b) - 1) = Text(r, l + 1)
      /\ Behind(rq, n, l + 1, Content(retrieve(b, findCRLF(b) + 1)) \o w)
  BY <1>1, <1>6, TakeLine
<1> QED
  BY <1>1, <1>2, <1>4, <1>7

\* Nothing is sent any more.
LEMMA FollowShut ==
  ASSUME NEW conn, NEW st, NEW q, NEW rq, NEW rs, NEW s, Follow(conn, st, q, rq, rs, s),
         NEW conn2, NEW st2, NEW q2, NEW s2, conn2 => Spoiled(rq, Len(rs))
  PROVE  Follow(conn2, st2, q2, rq, rs, s2)
BY DEF Follow

\* A response when a request that was answered before it, or its own, is not well formed.
LEMMA FollowSpoiled ==
  ASSUME NEW conn, NEW st, NEW q, NEW rq \in Seq(Requests), NEW rs \in Seq(Answers), NEW s,
         Follow(conn, st, q, rq, rs, s), NEW a \in Answers, Spoiled(rq, Len(rs) + 1),
         NEW conn2, NEW st2, NEW q2, NEW s2
  PROVE  Append(rs, a) \in Seq(Answers) /\ Follow(conn2, st2, q2, rq, Append(rs, a), s2)
<1>1. /\ Append(rs, a) \in Seq(Answers) /\ Len(Append(rs, a)) = Len(rs) + 1
      /\ AllFit(Append(rs, a), rq)
  BY FitMore DEF Follow
<1> QED
  BY <1>1 DEF Follow

\* Spoiled stays so.
LEMMA SpoiledMore ==
  ASSUME NEW rq \in Seq(Requests), NEW n \in Nat, Spoiled(rq, n)
  PROVE  Spoiled(rq, n + 1)
<1>1. PICK j \in DOMAIN rq : j <= n /\ ~WellFormed(rq[j])
  BY DEF Spoiled
<1>2. j <= n + 1
  BY <1>1, MadeAre
<1> QED
  BY <1>1, <1>2 DEF Spoiled

-----------------------------------------------------------------------------
(* Http: the steps *)

\* Inspector::onRequest() finds "/" and the icon, and no path of one part or none.
LEMMA StatusIs ==
  ASSUME NEW path
  PROVE  /\ StatusOf(path) \in {"k200Ok", "k404NotFound"}
         /\ path \in {Root, Favicon} => StatusOf(path) = "k200Ok"
         /\ path \in {OnePart, NoPart} => StatusOf(path) = "k404NotFound"
         /\ path = Command => StatusOf(path) = IF "command" \in Entry(modules_, "module")
                                                THEN "k200Ok" ELSE "k404NotFound"
<1>1. StatusOf(path) \in {"k200Ok", "k404NotFound"}
  BY DEF StatusOf
<1>2. /\ Root \notin {Favicon, OnePart, NoPart} /\ Favicon \notin {OnePart, NoPart, Root}
      /\ OnePart # NoPart
  BY DEF Root, Favicon, OnePart, NoPart
<1>3. path = Root => StatusOf(path) = "k200Ok"
  BY DEF StatusOf
<1>4. ASSUME path = Favicon PROVE StatusOf(path) = "k200Ok"
  <2>1. split(path) = <<"favicon.ico">>
    BY <1>4 DEF split, Root, Favicon, OnePart, NoPart, Command
  <2> QED
    BY <2>1 DEF StatusOf
<1>5. ASSUME path \in {OnePart, NoPart} PROVE StatusOf(path) = "k404NotFound"
  <2>1. split(path) = <<>> \/ split(path) = <<"module">>
    BY <1>5 DEF split, Root, Favicon, OnePart, NoPart, Command
  <2>2. Len(split(path)) # 2 /\ split(path) # <<"favicon.ico">> /\ path # Root
    <3>1. <<"module">> # <<"favicon.ico">> /\ <<>> # <<"favicon.ico">>
      <4>1. <<"module">>[1] = "module" /\ <<"favicon.ico">>[1] = "favicon.ico"
        OBVIOUS
      <4>2. Len(<<>>) = 0 /\ Len(<<"favicon.ico">>) = 1
        OBVIOUS
      <4> QED
        BY <4>1, <4>2
    <3>2. Len(<<>>) = 0 /\ Len(<<"module">>) = 1
      OBVIOUS
    <3> QED
      BY <1>2, <1>5, <2>1, <3>1, <3>2
  <2> QED
    BY <2>2 DEF StatusOf
<1>6. ASSUME path = Command
      PROVE  StatusOf(path) = IF "command" \in Entry(modules_, "module") THEN "k200Ok" ELSE "k404NotFound"
  <2>1. split(path) = <<"module", "command">> /\ path # Root
    BY <1>6 DEF split, Root, Favicon, OnePart, NoPart, Command
  <2>2. /\ <<"module", "command">> # <<"favicon.ico">> /\ Len(<<"module", "command">>) = 2
        /\ <<"module", "command">>[1] = "module" /\ <<"module", "command">>[2] = "command"
    <3>1. Len(<<"module", "command">>) = 2 /\ Len(<<"favicon.ico">>) = 1
      OBVIOUS
    <3> QED
      BY <3>1
  <2>3. /\ split(path) # <<"favicon.ico">> /\ Len(split(path)) = 2
        /\ split(path)[1] = "module" /\ split(path)[2] = "command"
    BY <2>1, <2>2
  <2> QED
    BY <2>1, <2>3 DEF StatusOf
<1> QED
  BY <1>1, <1>3, <1>4, <1>5, <1>6

\* The response to a request whose last line is parsed answers it.
LEMMA EndFits ==
  ASSUME TableAgrees, NEW r \in Requests, NEW q, Parsed(q, r, Len(r))
  PROVE  Fits(Response(StatusOf(q.path_), AskedToClose(q)), r)
<1> DEFINE path == r[1][2]
           a == Response(StatusOf(q.path_), AskedToClose(q))
<1>1. q.path_ = path /\ GoodFirst(r)
  BY DEF Parsed
<1>2. path \in {Root, Favicon, OnePart, NoPart, Command}
  BY <1>1, HttpBounds DEF GoodFirst
<1>3. AskedToClose(q) = AsksClose(r)
  BY ParsedEnd
<1>4. /\ a.status = StatusOf(path) /\ a.close = AsksClose(r)
      /\ a.known <=> "command" \in Entry(modules_, "module")
  BY <1>1, <1>3 DEF Response, TableAgrees
<1> HIDE DEF a, path
<1>5. /\ StatusOf(path) \in {"k200Ok", "k404NotFound"}
      /\ path \in {Root, Favicon} => StatusOf(path) = "k200Ok"
      /\ path \in {OnePart, NoPart} => StatusOf(path) = "k404NotFound"
      /\ path = Command => StatusOf(path) = IF "command" \in Entry(modules_, "module")
                                             THEN "k200Ok" ELSE "k404NotFound"
      /\ Command \notin {Root, Favicon, OnePart, NoPart}
      /\ {Root, Favicon} \cap {OnePart, NoPart} = {}
  BY StatusIs DEF Root, Favicon, OnePart, NoPart, Command
<1>6. path \in {Root, Favicon} \/ path = Command \/ path \in {OnePart, NoPart}
  BY <1>2
<1>7. a.status = IF path \in {Root, Favicon} \/ (path = Command /\ a.known)
                   THEN "k200Ok" ELSE "k404NotFound"
  BY <1>4, <1>5, <1>6
<1> QED
  BY <1>4, <1>7 DEF Fits, path, a

\* MakeRequest() keeps the invariant.
LEMMA MakeKeeps ==
  ASSUME HttpInv, NEW r \in Requests, MakeRequest(r)
  PROVE  HttpInv'
<1> DEFINE c == Content(httpBuffer)
<1>1. /\ httpWire \in Bytes /\ c \in Bytes /\ Wire(r) \in Bytes
      /\ requests \in Seq(Requests) /\ responses \in Seq(Answers)
  BY ContentIs, WireIs DEF HttpInv, HttpTypeOK
<1>2. /\ requests' = Append(requests, r) /\ httpWire' = httpWire \o Wire(r)
      /\ UNCHANGED <<httpBuffer, state_, request_, httpConnected, responses>>
  BY DEF MakeRequest, context
<1>3. HttpTypeOK'
  <2>1. httpWire \o Wire(r) \in Bytes /\ Append(requests, r) \in Seq(Requests)
    BY <1>1, Joined, OneMore
  <2> HIDE DEF Bytes, Answers
  <2> QED
    BY <1>2, <2>1 DEF HttpInv, HttpTypeOK, BufferOK, Buffers
<1>4. Content(httpBuffer) \o (httpWire \o Wire(r)) = (Content(httpBuffer) \o httpWire) \o Wire(r)
  BY <1>1, InARow
<1>5. Follow(httpConnected, state_, request_, Append(requests, r), responses,
             (Content(httpBuffer) \o httpWire) \o Wire(r))
  BY <1>1, FollowMake DEF HttpInv, ResponsesFollow
<1>6. ResponsesFollow'
  BY <1>2, <1>4, <1>5 DEF ResponsesFollow
<1> QED
  BY <1>3, <1>6 DEF HttpInv

\* Reading from the socket keeps the invariant.
LEMMA HttpReadKeeps ==
  ASSUME HttpInv, NEW n, HttpRead(n)
  PROVE  HttpInv'
<1> DEFINE d == SubSeq(httpWire, 1, n)
           v == SubSeq(httpWire, n + 1, Len(httpWire))
           e == readFd(httpBuffer, d)
<1>0. httpWire \in Bytes /\ BufferOK(httpBuffer) /\ Len(httpWire) \in Nat
  BY LenProperties DEF HttpInv, HttpTypeOK, Bytes
<1>1. n \in Nat /\ n <= Len(httpWire)
  BY <1>0 DEF HttpRead
<1>2. d \in Bytes /\ d \o v = httpWire /\ Content(httpBuffer) \in Bytes /\ v \in Bytes
  <2>1. d \in Bytes
    BY <1>0, <1>1, FirstBytes
  <2>2. d \o v = httpWire
    BY <1>0, <1>1, Halves
  <2>3. v \in Bytes
    BY <1>0, <1>1, Slice
  <2> QED
    BY <1>0, <2>1, <2>2, <2>3, ContentIs
<1>3. /\ httpBuffer' = e /\ httpWire' = v
      /\ UNCHANGED <<state_, request_, httpConnected, requests, responses>>
  BY DEF HttpRead, context, history
<1> HIDE DEF d, v
<1>4. BufferOK(e) /\ Content(e) = Content(httpBuffer) \o d
  BY <1>0, <1>2, ReadIn
<1> HIDE DEF e
<1>5. Content(e) \o v = Content(httpBuffer) \o httpWire
  <2>1. (Content(httpBuffer) \o d) \o v = Content(httpBuffer) \o (d \o v)
    BY <1>2, InARow
  <2> QED
    BY <1>2, <1>4, <2>1
<1>6. HttpTypeOK'
  <2> HIDE DEF Bytes, Answers
  <2> QED
    BY <1>2, <1>3, <1>4 DEF HttpInv, HttpTypeOK
<1>7. ResponsesFollow'
  BY <1>3, <1>5 DEF HttpInv, ResponsesFollow
<1> QED
  BY <1>6, <1>7 DEF HttpInv

\* Steps that touch neither the stream nor the parser keep the invariant.
LEMMA HttpQuietKeeps ==
  ASSUME HttpInv, UNCHANGED <<httpWire, httpBuffer, state_, request_, httpConnected, requests, responses>>
  PROVE  HttpInv'
<1> HIDE DEF Bytes, Answers
<1> QED
  BY DEF HttpInv, HttpTypeOK, ResponsesFollow

\* What holds before a line is parsed.
LEMMA BeforeLine ==
  ASSUME HttpInv, crlf # 0
  PROVE  /\ httpWire \in Bytes /\ BufferOK(httpBuffer) /\ httpConnected \in BOOLEAN
         /\ requests \in Seq(Requests) /\ responses \in Seq(Answers) /\ Len(responses) \in Nat
         /\ Follow(httpConnected, state_, request_, requests, responses, Content(httpBuffer) \o httpWire)
         /\ findCRLF(httpBuffer) # 0 /\ BufferOK(retrieve(httpBuffer, crlf + 1))
         /\ httpConnected => \/ Spoiled(requests, Len(responses))
                             \/ InStep(state_, request_, requests, Len(responses), Content(httpBuffer) \o httpWire)
<1>1. /\ httpWire \in Bytes /\ BufferOK(httpBuffer) /\ httpConnected \in BOOLEAN
      /\ requests \in Seq(Requests) /\ responses \in Seq(Answers)
      /\ Follow(httpConnected, state_, request_, requests, responses, Content(httpBuffer) \o httpWire)
      /\ findCRLF(httpBuffer) # 0
  BY DEF HttpInv, HttpTypeOK, ResponsesFollow, crlf
<1>2. Len(responses) \in Nat
  BY <1>1, LenProperties
<1>3. BufferOK(retrieve(httpBuffer, crlf + 1))
  BY <1>1, LineRetrieved DEF crlf
<1> QED
  BY <1>1, <1>2, <1>3 DEF Follow

\* A request line that parses keeps the invariant.
LEMMA RequestLineKeeps ==
  ASSUME HttpInv, RequestLine
  PROVE  HttpInv'
<1> DEFINE s == Content(httpBuffer) \o httpWire
           b == retrieve(httpBuffer, crlf + 1)
           n == Len(responses)
           r == requests[n + 1]
           v == IF line[1] = Http11 THEN "kHttp11" ELSE "kHttp10"
           q == [request_ EXCEPT !.method_ = "kGet", !.path_ = line[2], !.version_ = v]
<1>1. /\ httpBuffer' = b /\ state_' = "kExpectHeaders" /\ request_' = q /\ IsGoodLine
      /\ state_ = "kExpectRequestLine" /\ crlf # 0
      /\ UNCHANGED <<httpWire, httpConnected, requests, responses>>
  BY DEF RequestLine, RetrieveLine, history
<1>2. /\ httpWire \in Bytes /\ BufferOK(httpBuffer) /\ httpConnected \in BOOLEAN
      /\ requests \in Seq(Requests) /\ responses \in Seq(Answers) /\ n \in Nat
      /\ Follow(httpConnected, state_, request_, requests, responses, s)
      /\ findCRLF(httpBuffer) # 0 /\ BufferOK(b)
      /\ httpConnected => Spoiled(requests, n) \/ InStep(state_, request_, requests, n, s)
  BY <1>1, BeforeLine
<1> HIDE DEF b, n, q
<1>3. HttpTypeOK'
  <2> HIDE DEF Bytes, Answers
  <2> QED
    BY <1>1, <1>2 DEF HttpTypeOK
<1>4. Follow(httpConnected, "kExpectHeaders", q, requests, responses, Content(b) \o httpWire)
  <2>1. CASE ~httpConnected \/ Spoiled(requests, n)
    BY <1>2, <2>1, FollowShut DEF n
  <2>2. CASE InStep(state_, request_, requests, n, s)
    <3>1. /\ request_ = NoRequest /\ n < Len(requests) /\ r \in Requests /\ line = r[1]
          /\ Behind(requests, n, 1, Content(b) \o httpWire)
      BY <1>1, <1>2, <2>2, AtRequestLine DEF b, line, crlf
    <3> HIDE DEF r
    <3>2. GoodFirst(r) /\ v \in HttpVersions /\ (r[1][1] = Http10 <=> v = "kHttp10")
      BY <1>1, <3>1 DEF IsGoodLine, GoodFirst, HttpVersions, Http10, Http11
    <3> HIDE DEF v
    <3>3. Parsed([NoRequest EXCEPT !.method_ = "kGet", !.path_ = r[1][2], !.version_ = v], r, 1)
      BY <3>1, <3>2, ParsedFirst
    <3>4. Parsed(q, r, 1)
      BY <3>1, <3>3 DEF q
    <3>5. 1 \in 1..Len(r)
      <4>1. Len(r) \in Nat \ {0}
        BY <3>1, RequestIs
      <4> QED
        BY <4>1
    <3>6. InStep("kExpectHeaders", q, requests, n, Content(b) \o httpWire)
      BY <3>1, <3>4, <3>5 DEF InStep, r
    <3> QED
      BY <1>2, <3>6 DEF Follow, n
  <2> QED
    BY <1>2, <2>1, <2>2
<1>5. ResponsesFollow'
  BY <1>1, <1>4 DEF ResponsesFollow
<1> QED
  BY <1>3, <1>5 DEF HttpInv

\* A header keeps the invariant.
LEMMA HeaderLineKeeps ==
  ASSUME HttpInv, HeaderLine
  PROVE  HttpInv'
<1> DEFINE s == Content(httpBuffer) \o httpWire
           b == retrieve(httpBuffer, crlf + 1)
           n == Len(responses)
           r == requests[n + 1]
           q == addHeader(request_, line[1])
<1>1. /\ httpBuffer' = b /\ state_' = state_ /\ request_' = q /\ IsHeader
      /\ state_ = "kExpectHeaders" /\ crlf # 0
      /\ UNCHANGED <<httpWire, httpConnected, requests, responses>>
  BY DEF HeaderLine, RetrieveLine, history
<1>2. /\ httpWire \in Bytes /\ BufferOK(httpBuffer) /\ httpConnected \in BOOLEAN
      /\ requests \in Seq(Requests) /\ responses \in Seq(Answers) /\ n \in Nat
      /\ Follow(httpConnected, state_, request_, requests, responses, s)
      /\ findCRLF(httpBuffer) # 0 /\ BufferOK(b)
      /\ httpConnected => Spoiled(requests, n) \/ InStep(state_, request_, requests, n, s)
  BY <1>1, BeforeLine
<1> HIDE DEF b, n, q
<1>3. HttpTypeOK'
  <2> HIDE DEF Bytes, Answers
  <2> QED
    BY <1>1, <1>2 DEF HttpTypeOK
<1>4. Follow(httpConnected, "kExpectHeaders", q, requests, responses, Content(b) \o httpWire)
  <2>1. CASE ~httpConnected \/ Spoiled(requests, n)
    BY <1>2, <2>1, FollowShut DEF n
  <2>2. CASE InStep(state_, request_, requests, n, s)
    <3>1. /\ n < Len(requests) /\ r \in Requests
          /\ \E l \in 1..Len(r) : /\ Parsed(request_, r, l) /\ line = Text(r, l + 1)
                                  /\ Behind(requests, n, l + 1, Content(b) \o httpWire)
      BY <1>1, <1>2, <2>2, AtHeaders DEF b, line, crlf
    <3> HIDE DEF r
    <3>2. PICK l \in 1..Len(r) : /\ Parsed(request_, r, l) /\ line = Text(r, l + 1)
                                 /\ Behind(requests, n, l + 1, Content(b) \o httpWire)
      BY <3>1
    <3>3. Len(r) \in Nat /\ Text(r, Len(r) + 1) = <<>> /\ \A k \in 1..Len(r) : Text(r, k) = r[k]
      BY <3>1, RequestIs
    <3>4. l # Len(r)
      BY <1>1, <3>2, <3>3 DEF IsHeader
    <3>5. l \in Nat \ {0} /\ l < Len(r) /\ l + 1 \in 1..Len(r)
      BY <3>3, <3>4
    <3>6. line = r[l + 1] /\ r[l + 1][1] \in {Close, KeepAlive, OtherHeader}
      BY <1>1, <3>2, <3>3, <3>5 DEF IsHeader
    <3>7. Parsed(addHeader(request_, r[l + 1][1]), r, l + 1)
      BY <3>1, <3>2, <3>5, <3>6, ParsedHeader
    <3>8. Parsed(q, r, l + 1)
      BY <3>6, <3>7 DEF q
    <3>9. InStep("kExpectHeaders", q, requests, n, Content(b) \o httpWire)
      BY <3>2, <3>5, <3>8 DEF InStep, r
    <3> QED
      BY <1>2, <3>9 DEF Follow, n
  <2> QED
    BY <1>2, <2>1, <2>2
<1>5. ResponsesFollow'
  BY <1>1, <1>4 DEF ResponsesFollow
<1> QED
  BY <1>3, <1>5 DEF HttpInv

\* A request line that does not parse keeps the invariant.
LEMMA BadLineKeeps ==
  ASSUME HttpInv, BadRequestLine
  PROVE  HttpInv'
<1> DEFINE s == Content(httpBuffer) \o httpWire
           n == Len(responses)
           r == requests[n + 1]
           a == Response("k400BadRequest", TRUE)
<1>1. /\ responses' = IF httpConnected THEN Append(responses, a) ELSE responses
      /\ httpConnected' = FALSE /\ ~IsGoodLine
      /\ state_ = "kExpectRequestLine" /\ crlf # 0
      /\ UNCHANGED <<httpWire, httpBuffer, state_, requests>>
  BY DEF BadRequestLine, Respond, history
<1>2. /\ httpWire \in Bytes /\ BufferOK(httpBuffer) /\ httpConnected \in BOOLEAN
      /\ requests \in Seq(Requests) /\ responses \in Seq(Answers) /\ n \in Nat
      /\ Follow(httpConnected, state_, request_, requests, responses, s)
      /\ findCRLF(httpBuffer) # 0
      /\ httpConnected => Spoiled(requests, n) \/ InStep(state_, request_, requests, n, s)
  BY <1>1, BeforeLine
<1>3. a \in Answers
  BY DEF Response, Answers
<1> HIDE DEF n, a, s
<1>4. responses' \in Seq(Answers) /\ Follow(FALSE, state_, request_', requests, responses', s)
  <2>1. CASE ~httpConnected
    <3>1. Follow(FALSE, state_, request_', requests, responses, s)
      BY <1>2, FollowShut
    <3> QED
      BY <1>1, <1>2, <2>1, <3>1
  <2>2. CASE httpConnected
    <3>1. Spoiled(requests, n + 1)
      <4>1. CASE Spoiled(requests, n)
        BY <1>2, <4>1, SpoiledMore
      <4>2. CASE InStep(state_, request_, requests, n, s)
        <5>1. n < Len(requests) /\ r \in Requests /\ line = r[1]
          BY <1>1, <1>2, <4>2, AtRequestLine DEF line, crlf, s
        <5>2. ~WellFormed(r)
          BY <1>1, <5>1 DEF IsGoodLine, WellFormed
        <5>3. n + 1 \in DOMAIN requests /\ n + 1 <= n + 1
          BY <1>2, <5>1, MadeAre
        <5> QED
          BY <5>2, <5>3 DEF Spoiled
      <4> QED
        BY <1>2, <2>2, <4>1, <4>2
    <3>2. /\ Append(responses, a) \in Seq(Answers)
          /\ Follow(FALSE, state_, request_', requests, Append(responses, a), s)
      BY <1>2, <1>3, <3>1, FollowSpoiled DEF n
    <3> QED
      BY <1>1, <2>2, <3>2
  <2> QED
    BY <2>1, <2>2
<1>5. HttpTypeOK'
  <2> HIDE DEF Bytes, Answers
  <2> QED
    BY <1>1, <1>2, <1>4 DEF HttpTypeOK
<1>6. ResponsesFollow'
  BY <1>1, <1>4 DEF ResponsesFollow, s
<1> QED
  BY <1>5, <1>6 DEF HttpInv

\* The line that ends the headers, and the response, keep the invariant.
LEMMA EndKeeps ==
  ASSUME HttpInv, TableAgrees, EndOfHeaders
  PROVE  HttpInv'
<1> DEFINE s == Content(httpBuffer) \o httpWire
           b == retrieve(httpBuffer, crlf + 1)
           t == Content(b) \o httpWire
           n == Len(responses)
           r == requests[n + 1]
           close == AskedToClose(request_)
           a == Response(StatusOf(request_.path_), close)
           st == "kExpectRequestLine"
<1>1. /\ responses' = IF httpConnected THEN Append(responses, a) ELSE responses
      /\ httpConnected' = (httpConnected /\ ~close) /\ ~IsHeader
      /\ state_ = "kExpectHeaders" /\ crlf # 0 /\ httpBuffer' = b
      /\ state_' = st /\ request_' = NoRequest
      /\ UNCHANGED <<httpWire, requests>>
  BY DEF EndOfHeaders, Respond, history, onRequest, AskedToClose, RetrieveLine, Reset
<1>2. /\ httpWire \in Bytes /\ BufferOK(httpBuffer) /\ httpConnected \in BOOLEAN
      /\ requests \in Seq(Requests) /\ responses \in Seq(Answers) /\ n \in Nat
      /\ Follow(httpConnected, state_, request_, requests, responses, s)
      /\ findCRLF(httpBuffer) # 0 /\ BufferOK(b)
      /\ httpConnected => Spoiled(requests, n) \/ InStep(state_, request_, requests, n, s)
  BY <1>1, BeforeLine
<1>3. a \in Answers /\ close \in BOOLEAN
  <2>1. StatusOf(request_.path_) \in {"k200Ok", "k404NotFound"}
    BY StatusIs
  <2>2. close \in BOOLEAN
    BY DEF AskedToClose
  <2> HIDE DEF close
  <2> QED
    BY <2>1, <2>2 DEF Response, Answers
<1> HIDE DEF n, a, s, b, t, close
<1>4. responses' \in Seq(Answers) /\ Follow(httpConnected', st, NoRequest, requests, responses', t)
  <2>1. CASE ~httpConnected
    <3>1. Follow(FALSE, st, NoRequest, requests, responses, t)
      BY <1>2, FollowShut
    <3>2. httpConnected' = FALSE /\ responses' = responses
      BY <1>1, <2>1
    <3> QED
      BY <1>2, <3>1, <3>2
  <2>2. ASSUME httpConnected, Spoiled(requests, n + 1)
        PROVE  responses' \in Seq(Answers) /\ Follow(httpConnected', st, NoRequest, requests, responses', t)
    <3> DEFINE conn == httpConnected'
    <3> HIDE DEF conn
    <3>1. /\ Append(responses, a) \in Seq(Answers)
          /\ Follow(conn, st, NoRequest, requests, Append(responses, a), t)
      BY <1>2, <1>3, <2>2, FollowSpoiled DEF n
    <3> QED
      BY <1>1, <2>2, <3>1 DEF conn
  <2>3. CASE httpConnected /\ Spoiled(requests, n)
    BY <1>2, <2>2, <2>3, SpoiledMore
  <2>4. CASE httpConnected /\ InStep(state_, request_, requests, n, s)
    <3>1. /\ n < Len(requests) /\ r \in Requests
          /\ \E l \in 1..Len(r) : /\ Parsed(request_, r, l) /\ line = Text(r, l + 1)
                                  /\ Behind(requests, n, l + 1, t)
      BY <1>1, <1>2, <2>4, AtHeaders DEF b, line, crlf, s, t
    <3>0. n + 1 \in DOMAIN requests /\ n + 1 <= n + 1 /\ n + 1 <= Len(requests)
      BY <1>2, <3>1, MadeAre
    <3> HIDE DEF r
    <3>2. PICK l \in 1..Len(r) : /\ Parsed(request_, r, l) /\ line = Text(r, l + 1)
                                 /\ Behind(requests, n, l + 1, t)
      BY <3>1
    <3>3. Len(r) \in Nat /\ \A k \in 1..Len(r) : Text(r, k) = r[k]
      BY <3>1, RequestIs
    <3>4. CASE l # Len(r)
      <4>1. l + 1 \in 2..Len(r) /\ l + 1 \in 1..Len(r)
        BY <3>3, <3>4
      <4>2. line = r[l + 1]
        BY <3>2, <3>3, <4>1
      <4>3. r[l + 1] # <<>> /\ r[l + 1][1] \in {Close, KeepAlive, OtherHeader, NoColon}
        BY <3>1, <4>1, HttpBounds
      <4>4. r[l + 1][1] = NoColon
        BY <1>1, <4>2, <4>3 DEF IsHeader
      <4>5. ~WellFormed(r)
        BY <4>1, <4>4 DEF WellFormed
      <4>6. Spoiled(requests, n + 1)
        BY <3>0, <4>5 DEF Spoiled, r
      <4> QED
        BY <2>2, <2>4, <4>6
    <3>5. CASE l = Len(r)
      <4>1. Fits(a, r)
        BY <3>1, <3>2, <3>5, EndFits DEF a, close
      <4>2. /\ Append(responses, a) \in Seq(Answers) /\ Len(Append(responses, a)) = n + 1
            /\ AllFit(Append(responses, a), requests)
        BY <1>2, <1>3, <4>1, FitMore DEF n, r, Follow
      <4>3. Lies(requests, n + 1, t)
        BY <1>2, <3>1, <3>2, <3>5, LineBounds DEF r
      <4>4. InStep(st, NoRequest, requests, n + 1, t)
        BY <4>3 DEF InStep
      <4>5. Follow(httpConnected', st, NoRequest, requests, Append(responses, a), t)
        BY <3>0, <4>2, <4>4 DEF Follow
      <4> QED
        BY <1>1, <2>4, <4>2, <4>5
    <3> QED
      BY <3>4, <3>5
  <2> QED
    BY <1>2, <2>1, <2>3, <2>4
<1>5. httpConnected' \in BOOLEAN
  BY <1>1, <1>2, <1>3
<1>6. HttpTypeOK'
  <2> HIDE DEF Bytes, Answers
  <2> QED
    BY <1>1, <1>2, <1>4, <1>5 DEF HttpTypeOK
<1>7. ResponsesFollow'
  BY <1>1, <1>4 DEF ResponsesFollow, t
<1> QED
  BY <1>6, <1>7 DEF HttpInv

\* The invariant holds in the beginning.
LEMMA HttpStarts == HttpInit => HttpInv
<1> SUFFICES ASSUME HttpInit PROVE HttpInv
  OBVIOUS
<1>1. /\ httpWire = <<>> /\ httpBuffer = NewBuffer(kInitialSize) /\ requests = <<>> /\ responses = <<>>
      /\ state_ = "kExpectRequestLine" /\ request_ = NoRequest /\ httpConnected = TRUE
  BY DEF HttpInit
<1>2. BufferOK(httpBuffer) /\ Content(httpBuffer) = <<>>
  BY <1>1, BufferBounds, NewBufferOK
<1>3. HttpTypeOK
  BY <1>1, <1>2 DEF HttpTypeOK, Bytes
<1>4. Len(requests) = 0 /\ Len(responses) = 0 /\ DOMAIN responses = {}
  BY <1>1
<1>5. Content(httpBuffer) \o httpWire = <<>>
  BY <1>1, <1>2, ConcatEmptySeq DEF Bytes
<1>6. Lies(requests, 0, <<>>)
  <2> DEFINE rest == [i \in 0..0 |-> <<>>]
  <2>1. rest \in [0..0 -> Bytes] /\ rest[0] = <<>> /\ 1..0 = {}
    BY DEF Bytes
  <2> HIDE DEF rest
  <2>2. Laid(rest, 0, Wires(requests)) /\ 0 <= 0
    BY <2>1 DEF Laid
  <2> QED
    BY <1>4, <2>1, <2>2 DEF Lies
<1>7. InStep(state_, request_, requests, Len(responses), Content(httpBuffer) \o httpWire)
  BY <1>1, <1>4, <1>5, <1>6 DEF InStep
<1>8. ResponsesFollow
  BY <1>4, <1>7 DEF ResponsesFollow, Follow, AllFit
<1> QED
  BY <1>3, <1>8 DEF HttpInv

\* The table is empty in the beginning.
LEMMA TableStarts == HttpInit => TableAgrees
<1>1. DOMAIN <<>> = {}
  OBVIOUS
<1> QED
  BY <1>1 DEF HttpInit, TableAgrees, Entry

\* Only add() and remove() change the table.
LEMMA TableKept == TableAgrees /\ [HttpNext]_httpVars => TableAgrees'
<1> SUFFICES ASSUME TableAgrees, [HttpNext]_httpVars PROVE TableAgrees'
  OBVIOUS
<1>1. CASE AddCommand("module", "command")
  <2>1. /\ modules_' = SetEntry(modules_, "module", Entry(modules_, "module") \cup {"command"})
        /\ <<"module", "command">> \in registered'
    BY <1>1 DEF AddCommand
  <2>2. "module" \in DOMAIN modules_' /\ "command" \in modules_'["module"]
    BY <2>1 DEF SetEntry
  <2> QED
    BY <2>1, <2>2 DEF TableAgrees, Entry
<1>2. CASE RemoveCommand("module", "command")
  <2>1. /\ modules_' = [modules_ EXCEPT !["module"] = @ \ {"command"}] /\ "module" \in DOMAIN modules_
        /\ <<"module", "command">> \notin registered'
    BY <1>2 DEF RemoveCommand
  <2>2. "module" \in DOMAIN modules_' /\ "command" \notin modules_'["module"]
    BY <2>1
  <2> QED
    BY <2>1, <2>2 DEF TableAgrees, Entry
<1>3. ASSUME UNCHANGED <<modules_, registered>> PROVE TableAgrees'
  BY <1>3 DEF TableAgrees, Entry
<1>4. CASE UNCHANGED table
  BY <1>3, <1>4 DEF table
<1> QED
  BY <1>1, <1>2, <1>3, <1>4
     DEF HttpNext, MakeRequest, HttpRead, LineWaits, RequestLine, BadRequestLine, MethodSetTwice,
         HeaderLine, EndOfHeaders, httpVars

\* Response i answers request i, wherever the bytes were cut and however many requests wait
\* in the buffer, as long as the requests up to it are well formed: it tells of the end of
\* the connection what the request asks, and finds a command when it is registered.
THEOREM ResponsesAlwaysMatch == HttpSpec => []ResponsesMatch
<1>1. HttpInv /\ TableAgrees /\ [HttpNext]_httpVars => HttpInv'
  <2> SUFFICES ASSUME HttpInv, TableAgrees, [HttpNext]_httpVars PROVE HttpInv'
    OBVIOUS
  <2>1. ASSUME NEW r \in Requests, MakeRequest(r) PROVE HttpInv'
    BY <2>1, MakeKeeps
  <2>2. ASSUME AddCommand("module", "command") \/ RemoveCommand("module", "command") PROVE HttpInv'
    <3>1. UNCHANGED <<httpWire, httpBuffer, state_, request_, httpConnected, requests, responses>>
      BY <2>2 DEF AddCommand, RemoveCommand, context, history
    <3> QED
      BY <3>1, HttpQuietKeeps
  <2>3. ASSUME NEW n \in HttpReadSizes, HttpRead(n) PROVE HttpInv'
    BY <2>3, HttpReadKeeps
  <2>4. ASSUME LineWaits \/ MethodSetTwice PROVE HttpInv'
    <3>1. UNCHANGED <<httpWire, httpBuffer, state_, request_, httpConnected, requests, responses>>
      BY <2>4 DEF LineWaits, MethodSetTwice, context, history
    <3> QED
      BY <3>1, HttpQuietKeeps
  <2>5. ASSUME RequestLine PROVE HttpInv'
    BY <2>5, RequestLineKeeps
  <2>6. ASSUME BadRequestLine PROVE HttpInv'
    BY <2>6, BadLineKeeps
  <2>7. ASSUME HeaderLine PROVE HttpInv'
    BY <2>7, HeaderLineKeeps
  <2>8. ASSUME EndOfHeaders PROVE HttpInv'
    BY <2>8, EndKeeps
  <2>9. ASSUME UNCHANGED httpVars PROVE HttpInv'
    <3>1. UNCHANGED <<httpWire, httpBuffer, state_, request_, httpConnected, requests, responses>>
      BY <2>9 DEF httpVars
    <3> QED
      BY <3>1, HttpQuietKeeps
  <2> HIDE DEF HttpInv
  <2> QED
    BY <2>1, <2>2, <2>3, <2>4, <2>5, <2>6, <2>7, <2>8, <2>9 DEF HttpNext
<1>2. HttpInv => ResponsesMatch
  <2> SUFFICES ASSUME HttpInv PROVE ResponsesMatch
    OBVIOUS
  <2>1. AllFit(responses, requests)
    BY DEF HttpInv, ResponsesFollow, Follow
  <2> QED
    BY <2>1 DEF AllFit, WellMade, Fits, ResponsesMatch
<1> QED
  BY <1>1, <1>2, HttpStarts, TableStarts, TableKept, PTL DEF HttpSpec

=============================================================================
