------------------------ MODULE TcpConnectionProofs ------------------------
(***************************************************************************)
(* What TLAPS proves of TcpConnection, for any number of user threads and  *)
(* bytes, any high-water mark and any length of the I/O loop's queue.      *)
(*                                                                         *)
(* Two arguments that meet only in state_ and events.  The stream: what is *)
(* buffered continues what is written, and a buffer that is not empty has  *)
(* the channel registered for writing, so that shutdownInLoop() sees it.   *)
(* The life cycle: an object that is alive is in one of five phases, which *)
(* say together where the server's pointer, the removal and the            *)
(* connectDestroyed() are; each of them is handed on exactly once.  What   *)
(* epoll watches decides when the handlers run: a connection that is down  *)
(* is watched only if its reading was stopped, and only then can a hang-up *)
(* close it again and fail the assert of handleClose().                    *)
(***************************************************************************)
EXTENDS TcpConnection, SequenceTheorems, TLAPS

\* A functor op is in the queue q.
HasOp(q, op) == \E i \in DOMAIN q : q[i].op = op

\* At most one functor of q is op.
AtMostOnce(q, op) == \A i, j \in DOMAIN q : q[i].op = op /\ q[j].op = op => i = j

-----------------------------------------------------------------------------
(* The stream *)

\* The bytes written are 1, 2, 3, ... and those buffered go on from there.
Numbered ==
  /\ \A i \in 1..Len(wire) : wire[i] = i
  /\ \A i \in 1..Len(outputBuffer_) : outputBuffer_[i] = Len(wire) + i

\* Output that waits keeps the channel registered for writing until the end.
BufferIsWatched ==
  life # "misused" /\ state_ # "kDisconnected" /\ outputBuffer_ # <<>> => "w" \in events

-----------------------------------------------------------------------------
(* The life cycle *)

Unborn ==
  /\ state_ = "kConnecting" /\ events = {} /\ ~added
  /\ ioQueue = <<>> /\ ~batchHolds /\ removals = 0 /\ ~timer
  /\ ~connections_ /\ held = {}
  /\ ups = 0 /\ downs = 0

\* newConnection() has queued connectEstablished(), and nobody else knows the object.
Establishing ==
  /\ state_ = "kConnecting" /\ events = {} /\ ~added
  /\ Len(ioQueue) = 1 /\ ioQueue[1].op = "connectEstablished"
  /\ ~batchHolds /\ removals = 0 /\ ~timer
  /\ connections_ /\ held = {}
  /\ ups = 0 /\ downs = 0

\* Connected, or on its way down, and in the server's map.
Up ==
  /\ CanClose /\ added
  /\ ~HasOp(ioQueue, "connectEstablished") /\ ~HasOp(ioQueue, "connectDestroyed")
  /\ connections_ /\ removals = 0
  /\ ups = 1 /\ downs = 0

\* handleClose() is done and the base loop has a removeConnectionInLoop() to run.
Removing ==
  /\ state_ = "kDisconnected" /\ events = {} /\ added
  /\ ~HasOp(ioQueue, "connectEstablished") /\ ~HasOp(ioQueue, "connectDestroyed")
  /\ connections_ /\ removals = 1
  /\ ups = 1 /\ downs = 1

\* The I/O loop has the one connectDestroyed() to run.
Destroying ==
  /\ state_ = "kDisconnected" /\ events = {} /\ added
  /\ ~HasOp(ioQueue, "connectEstablished")
  /\ HasOp(ioQueue, "connectDestroyed") /\ AtMostOnce(ioQueue, "connectDestroyed")
  /\ ~connections_ /\ removals = 0
  /\ ups = 1 /\ downs = 1

\* The channel is out of the poller; only users and functors may hold the object.
Ended ==
  /\ state_ = "kDisconnected" /\ events = {} /\ ~added
  /\ ~HasOp(ioQueue, "connectEstablished") /\ ~HasOp(ioQueue, "connectDestroyed")
  /\ ~connections_ /\ removals = 0
  /\ ups = 1 /\ downs = 1

\* connectEstablished() has run, and users may know the object.
Known == Up \/ Removing \/ Destroying \/ Ended

InPhase == Establishing \/ Known

\* A thread inside a call holds a pointer.
CallersHold == \A u \in Users : user[u] # "idle" => u \in held

\* The phases of each life; the one assert that can fail is handleClose()'s.
Lives ==
  \/ life = "unborn" /\ Unborn
  \/ life = "alive" /\ InPhase
  \/ life = "dead" /\ Ended /\ ~Referenced
  \/ life = "aborted" /\ state_ = "kDisconnected" /\ ~reading_ /\ ups = 1 /\ downs = 2
  \/ life = "misused" /\ downs <= ups /\ ups <= 1

\* Until the connection is down epoll watches it when it wants events, and it wants to
\* read when reading_ says so; after that only if its reading was stopped.
EpollWatches ==
  \/ life = "misused"
  \/ state_ = "kConnecting" /\ ~watched /\ reading_
  \/ CanClose /\ (watched <=> events # {}) /\ (reading_ <=> "r" \in events)
  \/ state_ = "kDisconnected" /\ (watched => ~reading_)

ConnInv == TypeOK /\ Numbered /\ BufferIsWatched /\ Lives /\ CallersHold /\ EpollWatches

-----------------------------------------------------------------------------
(* Facts about queues *)

\* queueInLoop() puts a functor at the end.
LEMMA AppendedOps ==
  ASSUME NEW q \in Seq(Functors), NEW f \in Functors
  PROVE  /\ Append(q, f) \in Seq(Functors) /\ Len(Append(q, f)) = Len(q) + 1
         /\ \A op : HasOp(Append(q, f), op) <=> HasOp(q, op) \/ f.op = op
         /\ \A op : AtMostOnce(q, op) /\ (f.op = op => ~HasOp(q, op))
                      => AtMostOnce(Append(q, f), op)
<1> DEFINE n == Len(q) + 1
<1>1. /\ Append(q, f) \in Seq(Functors) /\ Len(Append(q, f)) = n
      /\ \A i \in 1..Len(q) : Append(q, f)[i] = q[i]
      /\ Append(q, f)[n] = f
  BY AppendProperties
<1>2. /\ DOMAIN q = 1..Len(q) /\ Len(q) \in Nat
      /\ DOMAIN Append(q, f) = 1..n
  BY <1>1, LenProperties
<1>3. 1..n = 1..Len(q) \cup {n} /\ n \notin 1..Len(q)
  BY <1>2
<1> HIDE DEF n
<1>4. ASSUME NEW op PROVE HasOp(Append(q, f), op) <=> HasOp(q, op) \/ f.op = op
  BY <1>1, <1>2, <1>3 DEF HasOp
<1>5. ASSUME NEW op, AtMostOnce(q, op), f.op = op => ~HasOp(q, op)
      PROVE  AtMostOnce(Append(q, f), op)
  BY <1>1, <1>2, <1>3, <1>5 DEF HasOp, AtMostOnce
<1> QED
  BY <1>1, <1>4, <1>5 DEF n

\* A turn of doPendingFunctors() takes the first functor.
LEMMA TailOps ==
  ASSUME NEW q \in Seq(Functors), q # <<>>
  PROVE  /\ Head(q) \in Functors /\ Head(q) = q[1] /\ HasOp(q, Head(q).op)
         /\ Tail(q) \in Seq(Functors) /\ Len(Tail(q)) = Len(q) - 1 /\ Len(q) > 0
         /\ \A op : HasOp(Tail(q), op) => HasOp(q, op)
         /\ \A op : HasOp(q, op) => HasOp(Tail(q), op) \/ Head(q).op = op
         /\ \A op : AtMostOnce(q, op) => AtMostOnce(Tail(q), op)
         /\ AtMostOnce(q, Head(q).op) => ~HasOp(Tail(q), Head(q).op)
<1>1. /\ Head(q) \in Functors /\ Head(q) = q[1]
      /\ Tail(q) \in Seq(Functors) /\ Len(Tail(q)) = Len(q) - 1
      /\ \A i \in 1..Len(Tail(q)) : Tail(q)[i] = q[i + 1]
  BY HeadTailProperties
<1>2. /\ DOMAIN q = 1..Len(q) /\ Len(q) \in Nat /\ Len(q) > 0
      /\ DOMAIN Tail(q) = 1..(Len(q) - 1)
  BY <1>1, LenProperties, EmptySeq
<1>3. \A i \in DOMAIN Tail(q) : /\ Tail(q)[i] = q[i + 1] /\ i + 1 \in DOMAIN q
                                /\ i \in Nat /\ i + 1 # 1
  BY <1>1, <1>2
<1>4. ASSUME NEW i \in DOMAIN q, i # 1
      PROVE  i - 1 \in DOMAIN Tail(q) /\ Tail(q)[i - 1] = q[i]
  <2>1. i - 1 \in DOMAIN Tail(q) /\ (i - 1) + 1 = i
    BY <1>2, <1>4
  <2> QED
    BY <1>3, <2>1
<1>5. 1 \in DOMAIN q
  BY <1>2
<1>6. HasOp(q, Head(q).op)
  BY <1>1, <1>5 DEF HasOp
<1>7. ASSUME NEW op, HasOp(Tail(q), op) PROVE HasOp(q, op)
  BY <1>3, <1>7 DEF HasOp
<1>8. ASSUME NEW op, HasOp(q, op) PROVE HasOp(Tail(q), op) \/ Head(q).op = op
  BY <1>1, <1>4, <1>8 DEF HasOp
<1>9. ASSUME NEW op, AtMostOnce(q, op) PROVE AtMostOnce(Tail(q), op)
  <2> SUFFICES ASSUME NEW i \in DOMAIN Tail(q), NEW j \in DOMAIN Tail(q),
                      Tail(q)[i].op = op, Tail(q)[j].op = op
               PROVE  i = j
    BY DEF AtMostOnce
  <2>1. i + 1 = j + 1
    BY <1>3, <1>9 DEF AtMostOnce
  <2> QED
    BY <1>3, <2>1
<1>10. ASSUME AtMostOnce(q, Head(q).op) PROVE ~HasOp(Tail(q), Head(q).op)
  <2> SUFFICES ASSUME NEW i \in DOMAIN Tail(q), Tail(q)[i].op = Head(q).op PROVE FALSE
    BY DEF HasOp
  <2> QED
    BY <1>1, <1>3, <1>5, <1>10 DEF AtMostOnce
<1> QED
  BY <1>1, <1>2, <1>6, <1>7, <1>8, <1>9, <1>10

\* The functors of newConnection(), handleClose() and the rest are functors.
LEMMA FunctorsTyped ==
  /\ \A op \in SharedOps : Functor(op) \in Functors /\ Functor(op).op = op
  /\ Functor("shutdownInLoop") \in Functors /\ Functor("shutdownInLoop").op = "shutdownInLoop"
  /\ \A n \in 0..MaxBytes : [op |-> "sendInLoop", bytes |-> n] \in Functors
  /\ \A f \in Functors : f.op \in SharedOps \cup BareOps /\ f.bytes \in 0..MaxBytes
  BY BoundsAssumption DEF Functor, Functors, BareOps

-----------------------------------------------------------------------------
(* What sendInLoop() does to the stream *)

\* A part of a sequence of bytes.
LEMMA PartOf ==
  ASSUME NEW s \in Seq(Nat), NEW m \in 1..(Len(s) + 1), NEW n \in (m - 1)..Len(s)
  PROVE  /\ SubSeq(s, m, n) \in Seq(Nat) /\ Len(SubSeq(s, m, n)) = n - m + 1
         /\ \A i \in 1..(n - m + 1) : SubSeq(s, m, n)[i] = s[m + i - 1]
  BY SubSeqProperties

\* Two sequences, one after the other.
LEMMA Joined ==
  ASSUME NEW s \in Seq(Nat), NEW t \in Seq(Nat)
  PROVE  /\ s \o t \in Seq(Nat) /\ Len(s \o t) = Len(s) + Len(t)
         /\ \A i \in 1..Len(s) : (s \o t)[i] = s[i]
         /\ \A i \in 1..Len(t) : (s \o t)[Len(s) + i] = t[i]
<1>1. /\ s \o t \in Seq(Nat) /\ Len(s \o t) = Len(s) + Len(t)
      /\ \A i \in 1..(Len(s) + Len(t)) :
           (s \o t)[i] = IF i <= Len(s) THEN s[i] ELSE t[i - Len(s)]
  BY ConcatProperties
<1>2. Len(s) \in Nat /\ Len(t) \in Nat
  BY LenProperties
<1>3. ASSUME NEW i \in 1..Len(t) PROVE (s \o t)[Len(s) + i] = t[i]
  <2>1. Len(s) + i \in 1..(Len(s) + Len(t)) /\ ~(Len(s) + i <= Len(s))
          /\ (Len(s) + i) - Len(s) = i
    BY <1>2
  <2> QED
    BY <1>1, <2>1
<1>4. ASSUME NEW i \in 1..Len(s) PROVE (s \o t)[i] = s[i]
  <2>1. i \in 1..(Len(s) + Len(t)) /\ i <= Len(s)
    BY <1>2
  <2> QED
    BY <1>1, <2>1
<1> QED
  BY <1>1, <1>3, <1>4

\* sendInLoop() writes or buffers the next bytes in their order, registers for writing
\* when it buffers, and leaves a connection that is down alone.
LEMMA SendKeepsStream ==
  ASSUME TypeOK, Numbered, NEW n \in 0..MaxBytes, NEW q \in Seq(Functors), SendInLoop(n, q)
  PROVE  /\ ioQueue' \in {q, Append(q, Functor("callback"))}
         /\ UNCHANGED channel \/ UpdateChannel(events \cup {"w"})
         /\ outputBuffer_' \in Seq(Nat) /\ wire' \in Seq(Nat)
         /\ Numbered'
         /\ outputBuffer_' # <<>> => outputBuffer_ # <<>> \/ "w" \in events'
         /\ state_ = "kDisconnected" => UNCHANGED channel
<1> DEFINE bytes == [i \in 1..n |-> Accepted + i]
<1>1. /\ wire \in Seq(Nat) /\ Len(wire) \in Nat
      /\ outputBuffer_ \in Seq(Nat) /\ Len(outputBuffer_) \in Nat
      /\ Accepted = Len(wire) + Len(outputBuffer_) /\ n \in Nat
  BY LenProperties, BoundsAssumption DEF TypeOK, Accepted
<1>2. bytes \in Seq(Nat) /\ Len(bytes) = n /\ \A i \in 1..n : bytes[i] = Accepted + i
  BY <1>1
<1> HIDE DEF bytes
<1>3. CASE UNCHANGED <<channel, outputBuffer_, wire>> /\ ioQueue' = q
  BY <1>3 DEF TypeOK, Numbered, channel
<1>4. ASSUME NEW k \in 0..n, state_ # "kDisconnected",
             WritesDirectly \/ k = 0,
             wire' = wire \o SubSeq(bytes, 1, k),
             outputBuffer_' = outputBuffer_ \o SubSeq(bytes, k + 1, n),
             IF k < n /\ "w" \notin events THEN UpdateChannel(events \cup {"w"})
               ELSE UNCHANGED channel,
             ioQueue' \in {q, Append(q, Functor("callback"))}
      PROVE  /\ ioQueue' \in {q, Append(q, Functor("callback"))}
             /\ UNCHANGED channel \/ UpdateChannel(events \cup {"w"})
             /\ outputBuffer_' \in Seq(Nat) /\ wire' \in Seq(Nat)
             /\ Numbered'
             /\ outputBuffer_' # <<>> => outputBuffer_ # <<>> \/ "w" \in events'
             /\ state_ = "kDisconnected" => UNCHANGED channel
    <2> DEFINE sent == SubSeq(bytes, 1, k)
               rest == SubSeq(bytes, k + 1, n)
    <2>1. /\ sent \in Seq(Nat) /\ Len(sent) = k
          /\ \A i \in 1..k : sent[i] = Accepted + i
      <3>1. 1 \in 1..(Len(bytes) + 1) /\ k \in (1 - 1)..Len(bytes) /\ k - 1 + 1 = k
        BY <1>1, <1>2
      <3>2. /\ sent \in Seq(Nat) /\ Len(sent) = k - 1 + 1
            /\ \A i \in 1..(k - 1 + 1) : sent[i] = bytes[1 + i - 1]
        BY <1>2, <3>1, PartOf
      <3>3. \A i \in 1..k : 1 + i - 1 = i /\ i \in 1..n
        BY <1>1
      <3> HIDE DEF sent
      <3> QED
        BY <1>2, <3>1, <3>2, <3>3
    <2>2. /\ rest \in Seq(Nat) /\ Len(rest) = n - k
          /\ \A i \in 1..(n - k) : rest[i] = Accepted + k + i
      <3>1. k + 1 \in 1..(Len(bytes) + 1) /\ n \in ((k + 1) - 1)..Len(bytes)
              /\ n - (k + 1) + 1 = n - k
        BY <1>1, <1>2
      <3>2. /\ rest \in Seq(Nat) /\ Len(rest) = n - (k + 1) + 1
            /\ \A i \in 1..(n - (k + 1) + 1) : rest[i] = bytes[(k + 1) + i - 1]
        BY <1>2, <3>1, PartOf
      <3>3. \A i \in 1..(n - k) : (k + 1) + i - 1 = k + i /\ k + i \in 1..n
        BY <1>1
      <3> HIDE DEF rest
      <3> QED
        BY <1>1, <1>2, <3>1, <3>2, <3>3
    <2> HIDE DEF sent, rest
    <2>3. /\ wire' \in Seq(Nat) /\ Len(wire') = Len(wire) + k
          /\ \A i \in 1..Len(wire) : wire'[i] = wire[i]
          /\ \A i \in 1..k : wire'[Len(wire) + i] = sent[i]
      <3>1. wire' = wire \o sent
        BY <1>4 DEF sent
      <3>2. /\ wire \o sent \in Seq(Nat) /\ Len(wire \o sent) = Len(wire) + Len(sent)
            /\ \A i \in 1..Len(wire) : (wire \o sent)[i] = wire[i]
            /\ \A i \in 1..Len(sent) : (wire \o sent)[Len(wire) + i] = sent[i]
        BY <1>1, <2>1, Joined
      <3>3. Len(sent) = k
        BY <2>1
      <3> QED
        BY <3>1, <3>2, <3>3, Zenon
    <2>4. /\ outputBuffer_' \in Seq(Nat) /\ Len(outputBuffer_') = Len(outputBuffer_) + (n - k)
          /\ \A i \in 1..Len(outputBuffer_) : outputBuffer_'[i] = outputBuffer_[i]
          /\ \A i \in 1..(n - k) : outputBuffer_'[Len(outputBuffer_) + i] = rest[i]
      <3>1. outputBuffer_' = outputBuffer_ \o rest
        BY <1>4 DEF rest
      <3>2. /\ outputBuffer_ \o rest \in Seq(Nat)
            /\ Len(outputBuffer_ \o rest) = Len(outputBuffer_) + Len(rest)
            /\ \A i \in 1..Len(outputBuffer_) : (outputBuffer_ \o rest)[i] = outputBuffer_[i]
            /\ \A i \in 1..Len(rest) : (outputBuffer_ \o rest)[Len(outputBuffer_) + i] = rest[i]
        BY <1>1, <2>2, Joined
      <3>3. Len(rest) = n - k
        BY <2>2
      <3> QED
        BY <3>1, <3>2, <3>3, Zenon
    <2>5. k = 0 \/ Len(outputBuffer_) = 0
      BY <1>4, EmptySeq DEF WritesDirectly
    <2>6. ASSUME NEW i \in 1..Len(wire') PROVE wire'[i] = i
      <3>1. CASE i <= Len(wire)
        BY <1>1, <2>3, <3>1 DEF Numbered
      <3>2. CASE ~(i <= Len(wire))
        <4>1. i - Len(wire) \in 1..k /\ Len(wire) + (i - Len(wire)) = i
          BY <1>1, <2>3, <3>2
        <4>2. wire'[i] = Accepted + (i - Len(wire))
          BY <2>1, <2>3, <4>1
        <4>3. Len(outputBuffer_) = 0
          BY <2>5, <4>1
        <4> QED
          BY <1>1, <4>2, <4>3
      <3> QED
        BY <3>1, <3>2
    <2>7. ASSUME NEW i \in 1..Len(outputBuffer_') PROVE outputBuffer_'[i] = Len(wire') + i
      <3>1. CASE i <= Len(outputBuffer_)
        <4>1. k = 0 /\ i \in 1..Len(outputBuffer_)
          BY <1>1, <2>4, <2>5, <3>1
        <4> QED
          BY <1>1, <2>3, <2>4, <4>1 DEF Numbered
      <3>2. CASE ~(i <= Len(outputBuffer_))
        <4>1. /\ i - Len(outputBuffer_) \in 1..(n - k)
              /\ Len(outputBuffer_) + (i - Len(outputBuffer_)) = i
          BY <1>1, <2>4, <3>2
        <4>2. outputBuffer_'[i] = Accepted + k + (i - Len(outputBuffer_))
          BY <2>2, <2>4, <4>1
        <4> QED
          BY <1>1, <2>3, <4>1, <4>2
      <3> QED
        BY <3>1, <3>2
    <2>8. Numbered'
      BY <2>6, <2>7 DEF Numbered
    <2>9. outputBuffer_' # <<>> => outputBuffer_ # <<>> \/ "w" \in events'
      <3>1. outputBuffer_ = <<>> /\ ~(k < n) => Len(outputBuffer_') = 0
        BY <1>1, <2>4, EmptySeq
      <3>2. Len(outputBuffer_') = 0 => outputBuffer_' = <<>>
        BY <2>4, EmptySeq
      <3> QED
        BY <1>4, <3>1, <3>2 DEF UpdateChannel, channel
    <2> QED
      BY <1>4, <2>3, <2>4, <2>8, <2>9
<1>5. \/ UNCHANGED <<channel, outputBuffer_, wire>> /\ ioQueue' = q
      \/ \E k \in 0..n :
           /\ state_ # "kDisconnected"
           /\ WritesDirectly \/ k = 0
           /\ wire' = wire \o SubSeq(bytes, 1, k)
           /\ outputBuffer_' = outputBuffer_ \o SubSeq(bytes, k + 1, n)
           /\ IF k < n /\ "w" \notin events THEN UpdateChannel(events \cup {"w"})
                ELSE UNCHANGED channel
           /\ ioQueue' \in {q, Append(q, Functor("callback"))}
  <2>1. 0 \in 0..n
    BY <1>1
  <2> QED
    BY <2>1, Zenon DEF SendInLoop, bytes
<1> QED
  BY <1>3, <1>4, <1>5, Zenon

\* handleWrite() moves the oldest bytes of the buffer to the socket.
LEMMA WriteKeepsStream ==
  ASSUME TypeOK, Numbered, NEW n \in 1..MaxBytes, HandleWrite(n)
  PROVE  outputBuffer_' \in Seq(Nat) /\ wire' \in Seq(Nat) /\ Numbered'
<1> DEFINE head == SubSeq(outputBuffer_, 1, n)
           tail == SubSeq(outputBuffer_, n + 1, Len(outputBuffer_))
<1>1. /\ wire \in Seq(Nat) /\ Len(wire) \in Nat
      /\ outputBuffer_ \in Seq(Nat) /\ Len(outputBuffer_) \in Nat
      /\ n \in Nat /\ n <= Len(outputBuffer_)
  BY LenProperties, BoundsAssumption DEF TypeOK, HandleWrite
<1>2. wire' = wire \o head /\ outputBuffer_' = tail
  BY DEF HandleWrite
<1>3. /\ head \in Seq(Nat) /\ Len(head) = n
      /\ \A i \in 1..n : head[i] = outputBuffer_[i]
  <2>1. /\ 1 \in 1..(Len(outputBuffer_) + 1) /\ n \in (1 - 1)..Len(outputBuffer_)
        /\ n - 1 + 1 = n /\ \A i \in 1..n : 1 + i - 1 = i
    BY <1>1
  <2>2. /\ head \in Seq(Nat) /\ Len(head) = n - 1 + 1
        /\ \A i \in 1..(n - 1 + 1) : head[i] = outputBuffer_[1 + i - 1]
    BY <1>1, <2>1, PartOf
  <2> HIDE DEF head
  <2> QED
    BY <2>1, <2>2
<1>4. /\ tail \in Seq(Nat) /\ Len(tail) = Len(outputBuffer_) - n
      /\ \A i \in 1..(Len(outputBuffer_) - n) : tail[i] = outputBuffer_[n + i]
  <2> DEFINE l == Len(outputBuffer_)
  <2>1. /\ n + 1 \in 1..(l + 1) /\ l \in ((n + 1) - 1)..l
        /\ l - (n + 1) + 1 = l - n /\ \A i \in 1..(l - n) : (n + 1) + i - 1 = n + i
    BY <1>1
  <2>2. /\ tail \in Seq(Nat) /\ Len(tail) = l - (n + 1) + 1
        /\ \A i \in 1..(l - (n + 1) + 1) : tail[i] = outputBuffer_[(n + 1) + i - 1]
    BY <1>1, <2>1, PartOf
  <2> HIDE DEF tail, l
  <2> QED
    BY <2>1, <2>2 DEF l
<1> HIDE DEF head, tail
<1>5. /\ wire' \in Seq(Nat) /\ Len(wire') = Len(wire) + n
      /\ \A i \in 1..Len(wire) : wire'[i] = wire[i]
      /\ \A i \in 1..n : wire'[Len(wire) + i] = head[i]
  <2>1. /\ wire \o head \in Seq(Nat) /\ Len(wire \o head) = Len(wire) + Len(head)
        /\ \A i \in 1..Len(wire) : (wire \o head)[i] = wire[i]
        /\ \A i \in 1..Len(head) : (wire \o head)[Len(wire) + i] = head[i]
    BY <1>1, <1>3, Joined
  <2>2. Len(head) = n
    BY <1>3
  <2> QED
    BY <1>2, <2>1, <2>2, Zenon
<1>6. ASSUME NEW i \in 1..Len(wire') PROVE wire'[i] = i
  <2>1. CASE i <= Len(wire)
    <3>1. i \in 1..Len(wire)
      BY <1>1, <1>5, <2>1
    <3> QED
      BY <1>5, <3>1 DEF Numbered
  <2>2. CASE ~(i <= Len(wire))
    <3>1. /\ i - Len(wire) \in 1..n /\ Len(wire) + (i - Len(wire)) = i
          /\ i - Len(wire) \in 1..Len(outputBuffer_)
      BY <1>1, <1>5, <2>2
    <3>2. wire'[i] = outputBuffer_[i - Len(wire)]
      BY <1>3, <1>5, <3>1
    <3> QED
      BY <3>1, <3>2 DEF Numbered
  <2> QED
    BY <2>1, <2>2
<1>7. ASSUME NEW i \in 1..Len(outputBuffer_') PROVE outputBuffer_'[i] = Len(wire') + i
  <2>1. i \in 1..(Len(outputBuffer_) - n) /\ n + i \in 1..Len(outputBuffer_)
    <3>1. i \in 1..(Len(outputBuffer_) - n)
      BY <1>2, <1>4, Zenon
    <3> QED
      BY <1>1, <3>1
  <2>2. outputBuffer_'[i] = Len(wire) + (n + i)
    BY <1>2, <1>4, <2>1 DEF Numbered
  <2> QED
    BY <1>1, <1>5, <2>1, <2>2
<1> QED
  BY <1>2, <1>4, <1>5, <1>6, <1>7 DEF Numbered
-----------------------------------------------------------------------------
(* Types and the numbering of bytes *)

\* The next functor of the batch is taken; what the turn adds comes after the rest.
LEMMA TurnIsTyped ==
  ASSUME TypeOK, NEW op, Turn(op)
  PROVE  /\ ioQueue # <<>> /\ Tail(ioQueue) \in Seq(Functors)
         /\ Len(Tail(ioQueue)) = Len(ioQueue) - 1
         /\ Head(ioQueue) \in Functors
         /\ batchLeft' \in 0..Len(Tail(ioQueue))
         /\ batchHolds' \in BOOLEAN
<1>1. ioQueue \in Seq(Functors) /\ Len(ioQueue) \in Nat /\ batchLeft \in 0..Len(ioQueue)
  BY LenProperties DEF TypeOK
<1>2. batchLeft > 0 /\ batchLeft' = batchLeft - 1
  BY DEF Turn
<1>3. ioQueue # <<>>
  BY <1>1, <1>2, EmptySeq
<1>4. /\ Tail(ioQueue) \in Seq(Functors) /\ Len(Tail(ioQueue)) = Len(ioQueue) - 1
      /\ Head(ioQueue) \in Functors
  BY <1>1, <1>3, HeadTailProperties
<1>5. batchLeft' \in 0..Len(Tail(ioQueue))
  BY <1>1, <1>2, <1>4
<1>6. batchHolds' \in BOOLEAN
  BY Zenon DEF Turn
<1> QED
  BY <1>3, <1>4, <1>5, <1>6

\* The end of a step leaves the object in one of its lives.
LEMMA SettleIsTyped ==
  ASSUME TypeOK, NEW asserted, Settle(asserted)
  PROVE  life' \in {"unborn", "alive", "dead", "aborted", "misused"}
  BY DEF Settle, TypeOK

\* Appending to the queue keeps the batch inside it.
LEMMA PushIsTyped ==
  ASSUME NEW q \in Seq(Functors), NEW f \in Functors, NEW left \in 0..Len(q)
  PROVE  Append(q, f) \in Seq(Functors) /\ left \in 0..Len(Append(q, f))
<1>1. Append(q, f) \in Seq(Functors) /\ Len(Append(q, f)) = Len(q) + 1 /\ Len(q) \in Nat
  BY AppendedOps, LenProperties
<1> QED
  BY <1>1

\* Every step keeps the variables in their ranges and the bytes in their order.
LEMMA StreamKept == TypeOK /\ Numbered /\ [Next]_vars => TypeOK' /\ Numbered'
<1> SUFFICES ASSUME TypeOK, Numbered, [Next]_vars PROVE TypeOK' /\ Numbered'
  OBVIOUS
<1> DEFINE StreamSame == UNCHANGED <<outputBuffer_, wire>>
<1>0. StreamSame => Numbered'
  BY DEF Numbered
<1>q. ioQueue \in Seq(Functors) /\ batchLeft \in 0..Len(ioQueue) /\ Len(ioQueue) \in Nat
  BY LenProperties DEF TypeOK
<1>f. \A op \in SharedOps : /\ Append(ioQueue, Functor(op)) \in Seq(Functors)
                            /\ batchLeft \in 0..Len(Append(ioQueue, Functor(op)))
  BY <1>q, PushIsTyped, FunctorsTyped
<1>s. ASSUME NEW op, Turn(op), ioQueue' = Tail(ioQueue)
      PROVE  /\ ioQueue' \in Seq(Functors) /\ batchLeft' \in 0..Len(ioQueue')
             /\ batchHolds' \in BOOLEAN
  BY <1>s, TurnIsTyped, Zenon
<1> USE DEF channel, conn, stream, loops, owners, history
<1>1. CASE NewConnection
  <2>1. ioQueue' \in Seq(Functors) /\ batchLeft' \in 0..Len(ioQueue')
    BY <1>1, <1>f DEF NewConnection, SharedOps
  <2> QED
    BY <1>0, <1>1, <2>1 DEF NewConnection, TypeOK
<1>2. CASE RemoveConnectionInLoop
  <2>1. ioQueue' \in Seq(Functors) /\ batchLeft' \in 0..Len(ioQueue')
    BY <1>2, <1>f DEF RemoveConnectionInLoop, SharedOps
  <2>2. life' \in {"unborn", "alive", "dead", "aborted", "misused"}
    BY <1>2, SettleIsTyped DEF RemoveConnectionInLoop
  <2>3. removals' \in Nat
    BY <1>2 DEF RemoveConnectionInLoop, TypeOK
  <2>4. /\ connections_' = FALSE
        /\ UNCHANGED <<conn, stream, peer, batchHolds, timer, held, user, history>>
    BY <1>2 DEF RemoveConnectionInLoop, EraseConnection
  <2> QED
    BY <1>0, <2>1, <2>2, <2>3, <2>4 DEF TypeOK
<1>3. CASE HandlePeerClosed
  <2>1. life' \in {"unborn", "alive", "dead", "aborted", "misused"}
    BY <1>3, SettleIsTyped DEF HandlePeerClosed
  <2> QED
    BY <1>0, <1>3, <2>1 DEF HandlePeerClosed, HandleClose, UpdateChannel, States, TypeOK
<1>4. ASSUME NEW n \in 1..MaxBytes, HandleWrite(n) PROVE TypeOK' /\ Numbered'
  <2>1. life' \in {"unborn", "alive", "dead", "aborted", "misused"}
    BY <1>4, SettleIsTyped DEF HandleWrite
  <2>2. outputBuffer_' \in Seq(Nat) /\ wire' \in Seq(Nat) /\ Numbered'
    BY <1>4, WriteKeepsStream
  <2>3. ioQueue' \in Seq(Functors) /\ batchLeft' \in 0..Len(ioQueue')
    BY <1>4, <1>f, <1>q DEF HandleWrite, SharedOps
  <2>4. fin' \in BOOLEAN
    BY <1>4 DEF HandleWrite, ShutdownAfterOutput, ShutdownInLoop, TypeOK
  <2>5. events' \in SUBSET {"r", "w"} /\ added' \in BOOLEAN /\ watched' \in BOOLEAN
    BY <1>4 DEF HandleWrite, UpdateChannel, TypeOK
  <2>6. UNCHANGED <<state_, reading_, peer, batchHolds, removals, timer,
                    connections_, held, user, ups, downs>>
    BY <1>4 DEF HandleWrite
  <2> QED
    BY <2>1, <2>2, <2>3, <2>4, <2>5, <2>6 DEF TypeOK
<1>5. CASE SwapBatch
  BY <1>0, <1>5, <1>q DEF SwapBatch, TypeOK
<1>6. CASE EndBatch
  <2>1. life' \in {"unborn", "alive", "dead", "aborted", "misused"}
    BY <1>6, SettleIsTyped DEF EndBatch
  <2> QED
    BY <1>0, <1>6, <2>1 DEF EndBatch, TypeOK
<1>7. CASE ConnectEstablished
  <2>1. life' \in {"unborn", "alive", "dead", "aborted", "misused"}
    BY <1>7, SettleIsTyped DEF ConnectEstablished
  <2>2. /\ ioQueue' \in Seq(Functors) /\ batchLeft' \in 0..Len(ioQueue')
        /\ batchHolds' \in BOOLEAN
    BY <1>7, <1>s DEF ConnectEstablished
  <2> QED
    BY <1>0, <1>7, <2>1, <2>2 DEF ConnectEstablished, UpdateChannel, States, TypeOK
<1>8. CASE ConnectDestroyed
  <2>1. life' \in {"unborn", "alive", "dead", "aborted", "misused"}
    BY <1>8, SettleIsTyped DEF ConnectDestroyed
  <2>2. /\ ioQueue' \in Seq(Functors) /\ batchLeft' \in 0..Len(ioQueue')
        /\ batchHolds' \in BOOLEAN
    BY <1>8, <1>s DEF ConnectDestroyed
  <2>3. state_' \in States /\ events' \in SUBSET {"r", "w"} /\ downs' \in Nat
    <3>1. \/ state_' = "kDisconnected" /\ events' = {} /\ downs' = downs + 1
          \/ UNCHANGED <<state_, events, downs>>
      BY <1>8 DEF ConnectDestroyed
    <3> QED
      <4>1. state_ \in States /\ events \in SUBSET {"r", "w"} /\ downs \in Nat
        BY DEF TypeOK
      <4>2. events' \in SUBSET {"r", "w"}
        BY <3>1, <4>1, Zenon
      <4> QED
        BY <3>1, <4>1, <4>2 DEF States
  <2>4. /\ added' = FALSE /\ watched' = FALSE
        /\ UNCHANGED <<reading_, stream, peer, removals, timer, owners, ups>>
    BY <1>8 DEF ConnectDestroyed
  <2> QED
    BY <1>0, <2>1, <2>2, <2>3, <2>4 DEF TypeOK
<1>9. CASE ForceCloseInLoop
  <2>1. life' \in {"unborn", "alive", "dead", "aborted", "misused"}
    BY <1>9, SettleIsTyped DEF ForceCloseInLoop
  <2>2. /\ ioQueue' \in Seq(Functors) /\ batchLeft' \in 0..Len(ioQueue')
        /\ batchHolds' \in BOOLEAN
    BY <1>9, <1>s DEF ForceCloseInLoop
  <2>3. /\ state_' \in States /\ events' \in SUBSET {"r", "w"} /\ downs' \in Nat
        /\ removals' \in Nat
    <3>1. \/ HandleClose
          \/ UNCHANGED <<state_, channel, downs, removals>>
      BY <1>9 DEF ForceCloseInLoop
    <3> QED
      <4>1. /\ state_ \in States /\ events \in SUBSET {"r", "w"} /\ downs \in Nat
            /\ removals \in Nat
        BY DEF TypeOK
      <4>2. events' \in SUBSET {"r", "w"}
        BY <3>1, <4>1, Zenon DEF HandleClose, UpdateChannel
      <4>3. downs' \in Nat /\ removals' \in Nat
        BY <3>1, <4>1 DEF HandleClose
      <4>4. state_' \in States
        BY <3>1, <4>1 DEF HandleClose, States
      <4> QED
        BY <4>2, <4>3, <4>4
  <2>4. added' \in BOOLEAN /\ watched' \in BOOLEAN
    BY <1>9 DEF ForceCloseInLoop, HandleClose, UpdateChannel, TypeOK
  <2>5. UNCHANGED <<reading_, stream, peer, timer, owners, ups>>
    BY <1>9 DEF ForceCloseInLoop
  <2> QED
    BY <1>0, <2>1, <2>2, <2>3, <2>4, <2>5 DEF TypeOK
<1>10. CASE RunCallback
  <2>1. life' \in {"unborn", "alive", "dead", "aborted", "misused"}
    BY <1>10, SettleIsTyped DEF RunCallback
  <2>2. /\ ioQueue' \in Seq(Functors) /\ batchLeft' \in 0..Len(ioQueue')
        /\ batchHolds' \in BOOLEAN
    BY <1>10, <1>s DEF RunCallback
  <2> QED
    BY <1>0, <1>10, <2>1, <2>2 DEF RunCallback, TypeOK
<1>11. CASE RunSend
  <2> DEFINE n == Head(ioQueue).bytes
             q == Tail(ioQueue)
  <2>1. life' \in {"unborn", "alive", "dead", "aborted", "misused"}
    BY <1>11, SettleIsTyped DEF RunSend
  <2>2. /\ q \in Seq(Functors) /\ n \in 0..MaxBytes
        /\ batchLeft' \in 0..Len(q) /\ batchHolds' \in BOOLEAN
    BY <1>11, TurnIsTyped, FunctorsTyped DEF RunSend
  <2>3. /\ ioQueue' \in {q, Append(q, Functor("callback"))}
        /\ events' \in SUBSET {"r", "w"} /\ added' \in BOOLEAN /\ watched' \in BOOLEAN
        /\ outputBuffer_' \in Seq(Nat) /\ wire' \in Seq(Nat) /\ Numbered'
    <3>1. SendInLoop(n, q)
      BY <1>11 DEF RunSend
    <3> HIDE DEF n, q
    <3> QED
      BY <2>2, <3>1, SendKeepsStream DEF UpdateChannel, TypeOK
  <2>4. ioQueue' \in Seq(Functors) /\ batchLeft' \in 0..Len(ioQueue')
    <3> HIDE DEF q
    <3> QED
      BY <2>2, <2>3, PushIsTyped, FunctorsTyped DEF SharedOps
  <2>5. UNCHANGED <<state_, reading_, fin, peer, removals, timer, connections_, held, user,
                    ups, downs>>
    BY <1>11 DEF RunSend
  <2>6. batchHolds' \in BOOLEAN
    BY <2>2
  <2> HIDE DEF n, q
  <2> QED
    BY <2>1, <2>3, <2>4, <2>5, <2>6 DEF TypeOK
<1>12. CASE RunDangling
  <2>1. /\ ioQueue' \in Seq(Functors) /\ batchLeft' \in 0..Len(ioQueue')
        /\ batchHolds' \in BOOLEAN
    BY <1>12, <1>s DEF RunDangling
  <2> QED
    BY <1>0, <1>12, <2>1 DEF RunDangling, TypeOK
<1>12a. CASE RunShutdown
  <2>1. life' \in {"unborn", "alive", "dead", "aborted", "misused"}
    BY <1>12a, SettleIsTyped DEF RunShutdown
  <2>2. /\ ioQueue' \in Seq(Functors) /\ batchLeft' \in 0..Len(ioQueue')
        /\ batchHolds' \in BOOLEAN
    BY <1>12a, <1>s DEF RunShutdown
  <2>3. fin' \in BOOLEAN
    BY <1>12a, Zenon DEF RunShutdown, ShutdownInLoop
  <2> QED
    BY <1>0, <1>12a, <2>1, <2>2, <2>3 DEF RunShutdown, TypeOK
<1>13. ASSUME NEW n \in 1..MaxBytes, CallbackSends(n) PROVE TypeOK' /\ Numbered'
  <2>1. life' \in {"unborn", "alive", "dead", "aborted", "misused"}
    BY <1>13, SettleIsTyped DEF CallbackSends
  <2>2. /\ ioQueue' \in {ioQueue, Append(ioQueue, Functor("callback"))}
        /\ events' \in SUBSET {"r", "w"} /\ added' \in BOOLEAN /\ watched' \in BOOLEAN
        /\ outputBuffer_' \in Seq(Nat) /\ wire' \in Seq(Nat) /\ Numbered'
    <3>1. SendInLoop(n, ioQueue) /\ n \in 0..MaxBytes
      BY <1>13, BoundsAssumption DEF CallbackSends
    <3> QED
      BY <3>1, <1>q, SendKeepsStream DEF UpdateChannel, TypeOK
  <2>3. UNCHANGED <<state_, reading_, fin, peer, batchLeft, batchHolds, removals, timer,
                    connections_, held, user, ups, downs>>
    BY <1>13 DEF CallbackSends
  <2>4. ioQueue' \in Seq(Functors) /\ batchLeft' \in 0..Len(ioQueue')
    BY <1>q, <1>f, <2>2, <2>3 DEF SharedOps
  <2> QED
    BY <2>1, <2>2, <2>3, <2>4 DEF TypeOK
<1>14. CASE CallbackShutsDown
  <2>1. life' \in {"unborn", "alive", "dead", "aborted", "misused"}
    BY <1>14, SettleIsTyped DEF CallbackShutsDown
  <2>2. fin' \in BOOLEAN
    BY <1>14, Zenon DEF CallbackShutsDown, ShutdownInLoop
  <2> QED
    BY <1>0, <1>14, <2>1, <2>2 DEF CallbackShutsDown, States, TypeOK
<1>15. CASE CallbackForceCloses
  <2>1. life' \in {"unborn", "alive", "dead", "aborted", "misused"}
    BY <1>15, SettleIsTyped DEF CallbackForceCloses
  <2>2. ioQueue' \in Seq(Functors) /\ batchLeft' \in 0..Len(ioQueue')
    BY <1>15, <1>f DEF CallbackForceCloses, ForceClose, SharedOps
  <2> QED
    BY <1>0, <1>15, <2>1, <2>2 DEF CallbackForceCloses, ForceClose, States, TypeOK
<1>16. CASE CallbackForceClosesLater
  <2>1. life' \in {"unborn", "alive", "dead", "aborted", "misused"}
    BY <1>16, SettleIsTyped DEF CallbackForceClosesLater
  <2> QED
    BY <1>0, <1>16, <2>1 DEF CallbackForceClosesLater, States, TypeOK
<1>17. CASE TimerFires
  <2>1. life' \in {"unborn", "alive", "dead", "aborted", "misused"}
    BY <1>17, SettleIsTyped DEF TimerFires
  <2>2. ioQueue' \in Seq(Functors) /\ batchLeft' \in 0..Len(ioQueue')
    BY <1>17, <1>q, <1>f DEF TimerFires, ForceClose, SharedOps
  <2> QED
    BY <1>0, <1>17, <2>1, <2>2 DEF TimerFires, ForceClose, States, TypeOK
<1>18. CASE CallbackStartsRead \/ CallbackStopsRead
  BY <1>0, <1>18 DEF CallbackStartsRead, CallbackStopsRead, Reregisters, UpdateChannel,
                         TypeOK
<1>19. ASSUME NEW u \in Users, UserTakes(u) PROVE TypeOK' /\ Numbered'
  BY <1>0, <1>19 DEF UserTakes, TypeOK
<1>20. ASSUME NEW u \in Users, UserDrops(u) PROVE TypeOK' /\ Numbered'
  <2>1. life' \in {"unborn", "alive", "dead", "aborted", "misused"}
    BY <1>20, SettleIsTyped DEF UserDrops
  <2> QED
    BY <1>0, <1>20, <2>1 DEF UserDrops, TypeOK
<1>21. ASSUME NEW u \in Users, NEW call \in Calls, UserTests(u, call)
       PROVE  TypeOK' /\ Numbered'
  BY <1>0, <1>21 DEF UserTests, TypeOK
<1>22. ASSUME NEW u \in Users, NEW n \in 0..MaxBytes, UserSends(u, n)
       PROVE  TypeOK' /\ Numbered'
  <2>1. ioQueue' \in Seq(Functors) /\ batchLeft' \in 0..Len(ioQueue')
    <3> DEFINE f == [op |-> "sendInLoop", bytes |-> n]
    <3>1. f \in Functors /\ ioQueue' = Append(ioQueue, f) /\ batchLeft' = batchLeft
      BY <1>22, FunctorsTyped DEF UserSends
    <3> HIDE DEF f
    <3> QED
      BY <1>q, <3>1, PushIsTyped
  <2> QED
    BY <1>0, <1>22, <2>1 DEF UserSends, TypeOK
<1>23. ASSUME NEW u \in Users, UserForceCloses(u) PROVE TypeOK' /\ Numbered'
  <2>1. ioQueue' \in Seq(Functors) /\ batchLeft' \in 0..Len(ioQueue')
    BY <1>23, <1>f DEF UserForceCloses, Overwrites, SharedOps
  <2> QED
    BY <1>0, <1>23, <2>1 DEF UserForceCloses, Overwrites, States, TypeOK
<1>23a. ASSUME NEW u \in Users, UserShutsDown(u) PROVE TypeOK' /\ Numbered'
  <2>1. ioQueue' \in Seq(Functors) /\ batchLeft' \in 0..Len(ioQueue')
    BY <1>23a, <1>q, PushIsTyped, FunctorsTyped DEF UserShutsDown, Overwrites
  <2> QED
    BY <1>0, <1>23a, <2>1 DEF UserShutsDown, Overwrites, States, TypeOK
<1>23b. ASSUME NEW u \in Users, UserForceClosesLater(u) PROVE TypeOK' /\ Numbered'
  BY <1>0, <1>23b DEF UserForceClosesLater, Overwrites, States, TypeOK
<1>24. CASE PeerCloses
  BY <1>0, <1>24 DEF PeerCloses, TypeOK
<1>25. CASE UNCHANGED vars
  BY <1>0, <1>25 DEF vars, TypeOK
<1> QED
  BY <1>1, <1>2, <1>3, <1>4, <1>5, <1>6, <1>7, <1>8, <1>9, <1>10, <1>11, <1>12, <1>12a,
     <1>13, <1>14, <1>15, <1>16, <1>17, <1>18, <1>19, <1>20, <1>21, <1>22, <1>23, <1>23a,
     <1>23b, <1>24, <1>25
     DEF Next, BaseLoop, IoLoop, Callbacks, OtherThreads

-----------------------------------------------------------------------------
(* The life cycle, phase by phase *)

\* The queues q and r have the same functors that begin and end the life cycle.
Quiet(q, r) ==
  /\ \A op \in {"connectEstablished", "connectDestroyed"} : HasOp(q, op) <=> HasOp(r, op)
  /\ AtMostOnce(q, "connectDestroyed") => AtMostOnce(r, "connectDestroyed")

\* Queueing a functor that neither begins nor ends the life cycle is quiet.
LEMMA PushIsQuiet ==
  ASSUME NEW q \in Seq(Functors), NEW f \in Functors,
         f.op \notin {"connectEstablished", "connectDestroyed"}
  PROVE  Quiet(q, Append(q, f))
  BY AppendedOps DEF Quiet

\* Running a functor that neither begins nor ends the life cycle is quiet.
LEMMA TurnIsQuiet ==
  ASSUME NEW q \in Seq(Functors), q # <<>>,
         Head(q).op \notin {"connectEstablished", "connectDestroyed"}
  PROVE  Quiet(q, Tail(q))
  BY TailOps DEF Quiet

\* So is running one that queues another.
LEMMA QuietTwice ==
  ASSUME NEW q, NEW r, NEW s, Quiet(q, r), Quiet(r, s)
  PROVE  Quiet(q, s)
  BY DEF Quiet

\* The end of a step that keeps the object in a phase: it dies only in the last one,
\* with the channel out of the poller, as its destructor asserts.
LEMMA SettleKeepsLife ==
  ASSUME life = "alive", NEW asserted, asserted, Settle(asserted), InPhase'
  PROVE  Lives'
<1>1. ~Referenced' => Ended'
  BY DEF InPhase, Known, Establishing, Up, Removing, Destroying, Referenced, HasOp, SharedOps
<1>2. Ended' => state_' = "kDisconnected" /\ ~added'
  BY DEF Ended
<1> QED
  BY <1>1, <1>2 DEF Settle, Lives

\* A step that moves neither the server's pointer nor the removal, that is quiet on
\* the queue and leaves a connection that is down alone, keeps the phase.
LEMMA PhaseKept ==
  ASSUME Known, Quiet(ioQueue, ioQueue'),
         UNCHANGED <<connections_, removals, ups, downs>>,
         \/ UNCHANGED <<state_, events, added>>
         \/ CanClose /\ CanClose' /\ (added => added')
  PROVE  Known'
<1>1. CASE UNCHANGED <<state_, events, added>>
  BY <1>1 DEF Known, Up, Removing, Destroying, Ended, Quiet, CanClose
<1>2. CASE CanClose /\ CanClose' /\ (added => added')
  BY <1>2 DEF Known, Up, Removing, Destroying, Ended, Quiet, CanClose
<1> QED
  BY <1>1, <1>2

\* handleClose() takes a connection that is up to the removal.
LEMMA CloseRemoves ==
  ASSUME Known, CanClose, HandleClose, Quiet(ioQueue, ioQueue'),
         UNCHANGED <<connections_, ups>>
  PROVE  Removing'
<1>1. Up
  BY DEF Known, Removing, Destroying, Ended, CanClose
<1> QED
  BY <1>1 DEF Up, Removing, HandleClose, UpdateChannel, Quiet

\* A functor of the batch is at the head of the queue.
LEMMA TurnHasOp ==
  ASSUME TypeOK, NEW op, Turn(op)
  PROVE  ioQueue \in Seq(Functors) /\ ioQueue # <<>> /\ Head(ioQueue).op = op
           /\ Head(ioQueue) = ioQueue[1] /\ HasOp(ioQueue, op)
<1>1. ioQueue \in Seq(Functors) /\ ioQueue # <<>>
  BY TurnIsTyped DEF TypeOK
<1>2. Head(ioQueue).op = op
  BY DEF Turn
<1> QED
  BY <1>1, <1>2, TailOps

\* Before newConnection() nothing can be done with the object, and when its last
\* shared pointer is gone only a functor bound to its bare this is left.
LEMMA OnlyTheLiveMove ==
  ASSUME TypeOK, Lives, Next
  PROVE  life = "alive" \/ NewConnection \/ SwapBatch \/ RunDangling
<1> SUFFICES ASSUME life # "alive", ~NewConnection, ~SwapBatch, ~RunDangling
             PROVE  FALSE
  OBVIOUS
<1>1. life \in {"unborn", "dead", "misused", "aborted"}
  BY DEF Lives
<1>2. ASSUME life \notin {"misused", "aborted"}
      PROVE  /\ ~batchHolds /\ removals = 0 /\ held = {}
             /\ \A op \in SharedOps : ~HasOp(ioQueue, op)
  <2>1. CASE life = "unborn"
    <3>1. Unborn
      BY <2>1 DEF Lives
    <3>2. DOMAIN ioQueue = {}
      BY <3>1 DEF Unborn
    <3> QED
      BY <3>1, <3>2 DEF Unborn, HasOp
  <2>2. CASE life = "dead"
    <3>1. ~Referenced /\ removals \in Nat
      BY <2>2 DEF Lives, TypeOK
    <3> QED
      BY <3>1 DEF Referenced, HasOp
  <2> QED
    BY <1>1, <1>2, <2>1, <2>2
<1>3. ASSUME Running PROVE /\ ~batchHolds /\ ~(removals > 0) /\ held = {}
                           /\ \A op \in SharedOps : ~Turn(op)
  <2>1. life \notin {"misused", "aborted"}
    BY <1>3 DEF Running
  <2> QED
    BY <1>2, <2>1, TurnHasOp
<1>4. ~RemoveConnectionInLoop /\ ~EndBatch /\ \A u \in Users : ~UserDrops(u)
  BY <1>3 DEF RemoveConnectionInLoop, EndBatch, UserDrops
<1>5. ~ConnectEstablished /\ ~ConnectDestroyed /\ ~ForceCloseInLoop /\ ~RunCallback
  BY <1>3 DEF ConnectEstablished, ConnectDestroyed, ForceCloseInLoop, RunCallback, SharedOps,
              Turn
<1>6. ~HandlePeerClosed /\ ~RunSend /\ ~RunShutdown /\ \A n : ~HandleWrite(n)
  BY DEF HandlePeerClosed, RunSend, RunShutdown, HandleWrite
<1>i. ~InCallback
  BY DEF InCallback
<1>7. ~Callbacks
  <2>1. ~TimerFires
    BY DEF TimerFires
  <2> QED
    BY <1>i, <2>1 DEF Callbacks, CallbackSends, CallbackShutsDown, CallbackForceCloses,
                      CallbackForceClosesLater, CallbackStartsRead, CallbackStopsRead
<1>8. /\ ~PeerCloses
      /\ \A u \in Users : /\ ~UserTakes(u) /\ ~UserForceCloses(u)
                          /\ ~UserShutsDown(u) /\ ~UserForceClosesLater(u)
                          /\ \A call : ~UserTests(u, call)
                          /\ \A n : ~UserSends(u, n)
  BY <1>i DEF PeerCloses, UserTakes, UserForceCloses, UserShutsDown, UserForceClosesLater,
              Overwrites, UserTests, UserSends
<1> QED
  BY <1>4, <1>5, <1>6, <1>7, <1>8 DEF Next, BaseLoop, IoLoop, OtherThreads

\* Until connectEstablished() has run the I/O loop has nothing else to do for the
\* connection, and nobody has been told of it.
LEMMA OnlyEstablishes ==
  ASSUME TypeOK, CallersHold, EpollWatches, life = "alive", Establishing, Next
  PROVE  SwapBatch \/ ConnectEstablished \/ PeerCloses
<1> SUFFICES ASSUME ~SwapBatch, ~ConnectEstablished, ~PeerCloses PROVE FALSE
  OBVIOUS
<1>1. /\ events = {} /\ ~batchHolds /\ removals = 0 /\ ~timer /\ held = {} /\ ups = 0
      /\ ioQueue[1].op = "connectEstablished"
  BY DEF Establishing
<1>0. ~(removals > 0) /\ ~(ups > 0)
  BY <1>1
<1>2. \A op : Turn(op) => op = "connectEstablished"
  BY <1>1, TurnHasOp
<1>3. /\ ~ConnectDestroyed /\ ~ForceCloseInLoop /\ ~RunCallback /\ ~RunSend
      /\ ~RunShutdown /\ ~RunDangling
  BY <1>2 DEF ConnectDestroyed, ForceCloseInLoop, RunCallback, RunSend, RunShutdown,
              RunDangling
<1>4. ~NewConnection /\ ~RemoveConnectionInLoop /\ ~EndBatch
  BY <1>0, <1>1, Zenon DEF NewConnection, RemoveConnectionInLoop, EndBatch
<1>5. ~HandlePeerClosed /\ \A n : ~HandleWrite(n)
  <2>1. ~watched
    BY DEF EpollWatches, Establishing, CanClose
  <2> QED
    BY <1>1, <2>1 DEF HandlePeerClosed, HandleWrite
<1>6. ~InCallback /\ ~TimerFires
  BY <1>0, <1>1, Zenon DEF InCallback, TimerFires
<1>7. ~Callbacks
  BY <1>6 DEF Callbacks, CallbackSends, CallbackShutsDown, CallbackForceCloses,
         CallbackForceClosesLater, CallbackStartsRead, CallbackStopsRead
<1>8. \A u \in Users : u \notin held /\ user[u] = "idle"
  BY <1>1 DEF CallersHold
<1>9. \A u \in Users : /\ ~UserTakes(u) /\ ~UserForceCloses(u) /\ ~UserDrops(u)
                       /\ ~UserShutsDown(u) /\ ~UserForceClosesLater(u)
                       /\ \A call : ~UserTests(u, call)
                       /\ \A n : ~UserSends(u, n)
  BY <1>6, <1>8 DEF UserTakes, UserDrops, UserForceCloses, UserShutsDown,
                    UserForceClosesLater, Overwrites, UserTests, UserSends
<1> QED
  BY <1>3, <1>4, <1>5, <1>7, <1>9 DEF Next, BaseLoop, IoLoop, OtherThreads

\* What the actions do to the queue, where they leave the life cycle's functors alone.
LEMMA QueueQuiet ==
  ASSUME TypeOK
  PROVE  /\ Quiet(ioQueue, ioQueue)
         /\ \A op \in {"callback", "forceCloseInLoop", "shutdownInLoop"} :
              Quiet(ioQueue, Append(ioQueue, Functor(op)))
         /\ \A n \in 0..MaxBytes :
              Quiet(ioQueue, Append(ioQueue, [op |-> "sendInLoop", bytes |-> n]))
         /\ \A op \in {"callback", "forceCloseInLoop", "sendInLoop", "shutdownInLoop"} :
              Turn(op) => /\ Quiet(ioQueue, Tail(ioQueue))
                          /\ Quiet(ioQueue, Append(Tail(ioQueue), Functor("callback")))
<1>1. ioQueue \in Seq(Functors)
  BY DEF TypeOK
<1>2. \A op \in {"callback", "forceCloseInLoop", "shutdownInLoop"} :
        Functor(op) \in Functors /\ Functor(op).op = op
  BY FunctorsTyped DEF SharedOps
<1>3. ASSUME NEW op \in {"callback", "forceCloseInLoop", "shutdownInLoop"}
      PROVE  Quiet(ioQueue, Append(ioQueue, Functor(op)))
  BY <1>1, <1>2, PushIsQuiet
<1>4. ASSUME NEW n \in 0..MaxBytes
      PROVE  Quiet(ioQueue, Append(ioQueue, [op |-> "sendInLoop", bytes |-> n]))
  <2> DEFINE f == [op |-> "sendInLoop", bytes |-> n]
  <2>1. f \in Functors /\ f.op = "sendInLoop"
    BY FunctorsTyped
  <2> HIDE DEF f
  <2>2. Quiet(ioQueue, Append(ioQueue, f))
    BY <1>1, <2>1, PushIsQuiet
  <2> QED
    BY <2>2 DEF f
<1>5. ASSUME NEW op \in {"callback", "forceCloseInLoop", "sendInLoop", "shutdownInLoop"}, Turn(op)
      PROVE  /\ Quiet(ioQueue, Tail(ioQueue))
             /\ Quiet(ioQueue, Append(Tail(ioQueue), Functor("callback")))
  <2>1. /\ ioQueue # <<>> /\ Tail(ioQueue) \in Seq(Functors)
        /\ Head(ioQueue).op \notin {"connectEstablished", "connectDestroyed"}
    BY <1>5, TurnIsTyped, TurnHasOp
  <2>2. Quiet(ioQueue, Tail(ioQueue))
    BY <1>1, <2>1, TurnIsQuiet
  <2>3. Quiet(Tail(ioQueue), Append(Tail(ioQueue), Functor("callback")))
    BY <1>2, <2>1, PushIsQuiet
  <2> QED
    BY <2>2, <2>3, QuietTwice
<1> QED
  BY <1>3, <1>4, <1>5 DEF Quiet

\* Every step takes the object from a phase to the same or to the next one: the
\* server's pointer, the removal and connectDestroyed() are handed on once each.
LEMMA LifeKept ==
  TypeOK /\ Numbered /\ Lives /\ CallersHold /\ EpollWatches /\ [Next]_vars => Lives'
<1> SUFFICES ASSUME TypeOK, Numbered, Lives, CallersHold, EpollWatches, [Next]_vars
             PROVE  Lives'
  OBVIOUS
<1> USE DEF channel, conn, stream, loops, owners, history
<1>1. CASE NewConnection
  <2>1. Unborn
    BY <1>1 DEF NewConnection, Lives
  <2>2. Len(ioQueue') = 1 /\ ioQueue'[1].op = "connectEstablished"
    <3>1. ioQueue = <<>> /\ ioQueue' = Append(<<>>, Functor("connectEstablished"))
      BY <1>1, <2>1 DEF NewConnection, Unborn
    <3> QED
      BY <3>1 DEF Functor
  <2>3. Establishing'
    BY <1>1, <2>1, <2>2 DEF NewConnection, Unborn, Establishing
  <2> QED
    BY <1>1, <2>3 DEF NewConnection, Lives, InPhase
<1>2. CASE SwapBatch \/ PeerCloses \/ UNCHANGED vars
  <2>1. UNCHANGED <<conn, ioQueue, batchHolds, removals, timer, connections_, held, life,
                    history>>
    BY <1>2 DEF SwapBatch, PeerCloses, vars
  <2> QED
    BY <2>1 DEF Lives, Unborn, InPhase, Known, Establishing, Up, Removing, Destroying, Ended,
                CanClose, Referenced
<1>3. CASE RunDangling
  <2>1. Ended /\ life' = "misused" /\ UNCHANGED <<ups, downs>>
    BY <1>3 DEF RunDangling, Lives
  <2> QED
    BY <2>1 DEF Ended, Lives
<1>4. CASE life = "alive" /\ ConnectEstablished
  <2>1. HasOp(ioQueue, "connectEstablished")
    BY <1>4, TurnHasOp DEF ConnectEstablished
  <2>2. Establishing
    BY <1>4, <2>1 DEF Lives, InPhase, Known, Up, Removing, Destroying, Ended
  <2>3. \A op : ~HasOp(ioQueue', op)
    <3>1. Len(Tail(ioQueue)) = 0 /\ Tail(ioQueue) \in Seq(Functors)
      BY <1>4, <2>2, TurnIsTyped DEF ConnectEstablished, Establishing
    <3>2. ioQueue' = <<>>
      BY <1>4, <3>1, EmptySeq DEF ConnectEstablished
    <3> QED
      BY <3>2 DEF HasOp
  <2>4. Up'
    BY <1>4, <2>2, <2>3 DEF ConnectEstablished, UpdateChannel, Establishing, Up, CanClose
  <2>5. state_ = "kConnecting" /\ Settle(state_ = "kConnecting")
    BY <1>4, <2>2 DEF ConnectEstablished, Establishing
  <2> QED
    BY <1>4, <2>4, <2>5, SettleKeepsLife DEF InPhase, Known
<1> DEFINE Goes == life = "alive" /\ Known
<1>5. CASE Goes /\ RemoveConnectionInLoop
  <2>1. Removing
    <3>1. removals # 0
      BY <1>5 DEF RemoveConnectionInLoop
    <3> QED
      BY <1>5, <3>1 DEF Known, Up, Destroying, Ended
  <2>2. /\ HasOp(ioQueue', "connectDestroyed") /\ AtMostOnce(ioQueue', "connectDestroyed")
        /\ ~HasOp(ioQueue', "connectEstablished")
    <3> DEFINE f == Functor("connectDestroyed")
    <3>1. ioQueue \in Seq(Functors) /\ f \in Functors /\ f.op = "connectDestroyed"
      BY FunctorsTyped DEF SharedOps, TypeOK
    <3>2. ioQueue' = Append(ioQueue, f)
      BY <1>5 DEF RemoveConnectionInLoop
    <3>3. ~HasOp(ioQueue, "connectDestroyed") /\ ~HasOp(ioQueue, "connectEstablished")
      BY <2>1 DEF Removing
    <3>4. AtMostOnce(ioQueue, "connectDestroyed")
      BY <3>3 DEF HasOp, AtMostOnce
    <3> HIDE DEF f
    <3> QED
      BY <3>1, <3>2, <3>3, <3>4, AppendedOps
  <2>3. removals' = 0 /\ ~connections_' /\ UNCHANGED <<conn, history>>
    BY <1>5, <2>1 DEF RemoveConnectionInLoop, EraseConnection, Removing
  <2>4. Destroying'
    BY <2>1, <2>2, <2>3 DEF Removing, Destroying
  <2>5. connections_ /\ Settle(connections_)
    BY <1>5, <2>1 DEF RemoveConnectionInLoop, Removing
  <2> QED
    BY <1>5, <2>4, <2>5, SettleKeepsLife DEF InPhase, Known
<1>6. CASE Goes /\ HandlePeerClosed
  <2>1. HandleClose /\ Settle(CanClose) /\ watched /\ UNCHANGED <<reading_, ups>>
    BY <1>6 DEF HandlePeerClosed
  <2>2. CASE CanClose
    <3>1. Removing'
      BY <1>6, <2>2, QueueQuiet, CloseRemoves DEF HandlePeerClosed
    <3> QED
      BY <1>6, <2>1, <2>2, <3>1, SettleKeepsLife DEF InPhase, Known
  <2>3. CASE ~CanClose
    <3>1. state_ = "kDisconnected" /\ ups = 1 /\ downs = 1
      BY <1>6, <2>3 DEF Known, Up, Removing, Destroying, Ended
    <3>2. ~reading_
      BY <1>6, <2>1, <3>1 DEF EpollWatches, CanClose
    <3>3. life' = "aborted" /\ state_' = "kDisconnected" /\ downs' = 2
      BY <2>1, <2>3, <3>1 DEF Settle, HandleClose
    <3> QED
      BY <2>1, <3>1, <3>2, <3>3 DEF Lives
  <2> QED
    BY <2>2, <2>3
<1>7. ASSUME Goes, NEW n \in 1..MaxBytes, HandleWrite(n) PROVE Lives'
  <2>1. CanClose
    BY <1>7 DEF HandleWrite, Known, Up, Removing, Destroying, Ended
  <2>2. Quiet(ioQueue, ioQueue')
    BY <1>7, QueueQuiet DEF HandleWrite
  <2>3. /\ UNCHANGED <<state_, connections_, removals, ups, downs>> /\ Settle(TRUE)
        /\ added => added'
    BY <1>7 DEF HandleWrite, UpdateChannel
  <2>4. Known'
    BY <1>7, <2>1, <2>2, <2>3, PhaseKept DEF CanClose
  <2> QED
    BY <1>7, <2>3, <2>4, SettleKeepsLife DEF InPhase
<1>8. CASE Goes /\ EndBatch
  <2>1. /\ UNCHANGED <<state_, events, added, ioQueue, connections_, removals, ups, downs>>
        /\ Settle(TRUE)
    BY <1>8 DEF EndBatch
  <2>2. Known'
    BY <1>8, <2>1, QueueQuiet, PhaseKept
  <2> QED
    BY <1>8, <2>1, <2>2, SettleKeepsLife DEF InPhase
<1>9. CASE Goes /\ ConnectDestroyed
  <2>1. HasOp(ioQueue, "connectDestroyed")
    BY <1>9, TurnHasOp DEF ConnectDestroyed
  <2>2. Destroying
    BY <1>9, <2>1 DEF Known, Up, Removing, Ended
  <2>3. ~HasOp(ioQueue', "connectDestroyed") /\ ~HasOp(ioQueue', "connectEstablished")
    <3>1. /\ ioQueue \in Seq(Functors) /\ ioQueue # <<>>
          /\ Head(ioQueue).op = "connectDestroyed"
      BY <1>9, TurnHasOp DEF ConnectDestroyed
    <3>2. ioQueue' = Tail(ioQueue)
      BY <1>9 DEF ConnectDestroyed
    <3>3. AtMostOnce(ioQueue, "connectDestroyed") /\ ~HasOp(ioQueue, "connectEstablished")
      BY <2>2 DEF Destroying
    <3> QED
      BY <3>1, <3>2, <3>3, TailOps
  <2>4. UNCHANGED <<state_, events, downs, connections_, removals, ups>> /\ ~added'
    BY <1>9, <2>2 DEF ConnectDestroyed, Destroying
  <2>5. Ended'
    BY <2>2, <2>3, <2>4 DEF Destroying, Ended
  <2>6. added /\ events' = {} /\ Settle(added /\ events' = {})
    BY <1>9, <2>2, <2>4 DEF ConnectDestroyed, Destroying
  <2> QED
    BY <1>9, <2>5, <2>6, SettleKeepsLife DEF InPhase, Known
<1>10. CASE Goes /\ ForceCloseInLoop
  <2>1. /\ Quiet(ioQueue, ioQueue') /\ UNCHANGED <<connections_, ups>> /\ Settle(TRUE)
    BY <1>10, QueueQuiet DEF ForceCloseInLoop
  <2>2. Known'
    <3>1. CASE CanClose
      BY <1>10, <2>1, <3>1, CloseRemoves DEF ForceCloseInLoop, Known
    <3>2. CASE ~CanClose
      <4>1. UNCHANGED <<state_, events, added, downs, removals>>
        BY <1>10, <3>2 DEF ForceCloseInLoop
      <4> QED
        BY <1>10, <2>1, <4>1, PhaseKept
    <3> QED
      BY <3>1, <3>2
  <2> QED
    BY <1>10, <2>1, <2>2, SettleKeepsLife DEF InPhase
<1>11. CASE Goes /\ (RunCallback \/ RunShutdown)
  <2>1. /\ Quiet(ioQueue, ioQueue') /\ Settle(TRUE)
        /\ UNCHANGED <<state_, events, added, connections_, removals, ups, downs>>
    BY <1>11, QueueQuiet DEF RunCallback, RunShutdown
  <2>2. Known'
    BY <1>11, <2>1, PhaseKept
  <2> QED
    BY <1>11, <2>1, <2>2, SettleKeepsLife DEF InPhase

<1>12. ASSUME Goes, NEW n \in 0..MaxBytes, NEW q \in Seq(Functors), SendInLoop(n, q),
              Quiet(ioQueue, q), Quiet(ioQueue, Append(q, Functor("callback"))),
              UNCHANGED <<state_, connections_, removals, ups, downs>>, Settle(TRUE)
       PROVE  Lives'
  <2>1. /\ ioQueue' \in {q, Append(q, Functor("callback"))}
        /\ added => added'
        /\ state_ = "kDisconnected" => UNCHANGED <<events, added>>
    BY <1>12, SendKeepsStream DEF UpdateChannel
  <2>2. Quiet(ioQueue, ioQueue')
    BY <1>12, <2>1
  <2>3. state_ = "kDisconnected" \/ (CanClose /\ CanClose')
    BY <1>12 DEF Known, Up, Removing, Destroying, Ended, CanClose
  <2>4. Known'
    BY <1>12, <2>1, <2>2, <2>3, PhaseKept
  <2> QED
    BY <1>12, <2>4, SettleKeepsLife DEF InPhase
<1>13. CASE Goes /\ RunSend
  <2> DEFINE n == Head(ioQueue).bytes
             q == Tail(ioQueue)
  <2>1. n \in 0..MaxBytes /\ q \in Seq(Functors)
    BY <1>13, TurnIsTyped, FunctorsTyped DEF RunSend
  <2>2. Quiet(ioQueue, q) /\ Quiet(ioQueue, Append(q, Functor("callback")))
    BY <1>13, QueueQuiet DEF RunSend
  <2>3. /\ SendInLoop(n, q) /\ Settle(TRUE)
        /\ UNCHANGED <<state_, connections_, removals, ups, downs>>
    BY <1>13 DEF RunSend
  <2> HIDE DEF n, q
  <2> QED
    BY <1>12, <1>13, <2>1, <2>2, <2>3
<1>14. ASSUME Goes, NEW n \in 1..MaxBytes, CallbackSends(n) PROVE Lives'
  <2>1. n \in 0..MaxBytes /\ ioQueue \in Seq(Functors)
    BY BoundsAssumption DEF TypeOK
  <2>2. /\ SendInLoop(n, ioQueue) /\ Settle(TRUE)
        /\ UNCHANGED <<state_, connections_, removals, ups, downs>>
    BY <1>14 DEF CallbackSends
  <2> QED
    BY <1>12, <1>14, <2>1, <2>2, QueueQuiet
<1>15. CASE Goes /\ (CallbackShutsDown \/ CallbackForceCloses \/ CallbackForceClosesLater)
  <2>1. /\ CanClose /\ CanClose' /\ Settle(TRUE)
        /\ UNCHANGED <<events, added, connections_, removals, ups, downs>>
    BY <1>15 DEF CallbackShutsDown, CallbackForceCloses, CallbackForceClosesLater, ForceClose,
                 CanClose
  <2>2. Quiet(ioQueue, ioQueue')
    BY <1>15, QueueQuiet
       DEF CallbackShutsDown, CallbackForceCloses, CallbackForceClosesLater, ForceClose
  <2>3. Known'
    BY <1>15, <2>1, <2>2, PhaseKept
  <2> QED
    BY <1>15, <2>1, <2>3, SettleKeepsLife DEF InPhase
<1>16. CASE Goes /\ TimerFires
  <2>1. /\ UNCHANGED <<events, added, connections_, removals, ups, downs>>
        /\ Settle(TRUE)
        /\ \/ CanClose /\ ForceClose
           \/ UNCHANGED <<state_, ioQueue>>
    BY <1>16 DEF TimerFires
  <2>2. Quiet(ioQueue, ioQueue')
    BY <2>1, QueueQuiet DEF ForceClose
  <2>3. state_' = state_ \/ (CanClose /\ CanClose')
    BY <2>1 DEF ForceClose, CanClose
  <2>4. Known'
    BY <1>16, <2>1, <2>2, <2>3, PhaseKept
  <2> QED
    BY <1>16, <2>1, <2>4, SettleKeepsLife DEF InPhase
<1>17. ASSUME Goes, NEW u \in Users, UserDrops(u) PROVE Lives'
  <2>1. /\ UNCHANGED <<state_, events, added, ioQueue, connections_, removals, ups, downs>>
        /\ Settle(TRUE)
    BY <1>17 DEF UserDrops
  <2>2. Known'
    BY <1>17, <2>1, QueueQuiet, PhaseKept
  <2> QED
    BY <1>17, <2>1, <2>2, SettleKeepsLife DEF InPhase
<1>18. ASSUME Goes,
              Quiet(ioQueue, ioQueue'),
              UNCHANGED <<connections_, removals, ups, downs>>,
              \/ UNCHANGED <<state_, events, added>> /\ life' = life
              \/ CanClose /\ CanClose' /\ (added => added') /\ life' = life
              \/ life' = "misused"
       PROVE  Lives'
  <2>1. CASE life' = "misused"
    BY <1>18, <2>1 DEF Known, Up, Removing, Destroying, Ended, Lives
  <2>2. CASE life' # "misused"
    <3>1. Known' /\ life' = "alive"
      BY <1>18, <2>2, PhaseKept
    <3> QED
      BY <3>1 DEF Lives, InPhase
  <2> QED
    BY <2>1, <2>2
<1>19. CASE Goes /\ (CallbackStartsRead \/ CallbackStopsRead)
  <2>1. /\ UNCHANGED <<state_, ioQueue, connections_, removals, ups, downs>>
        /\ added' /\ life' = IF state_ = "kDisconnected" THEN "misused" ELSE life
    BY <1>19 DEF CallbackStartsRead, CallbackStopsRead, Reregisters, UpdateChannel
  <2>2. state_ = "kDisconnected" \/ (CanClose /\ CanClose')
    BY <1>19, <2>1 DEF Known, Up, Removing, Destroying, Ended, CanClose
  <2> QED
    BY <1>18, <1>19, <2>1, <2>2, QueueQuiet
<1>20. ASSUME Goes, NEW u \in Users, UserTakes(u) \/ \E call : UserTests(u, call) PROVE Lives'
  <2>1. UNCHANGED <<state_, events, added, life, ioQueue, connections_, removals, ups, downs>>
    BY <1>20 DEF UserTakes, UserTests
  <2> QED
    BY <1>18, <1>20, <2>1, QueueQuiet
<1>21. ASSUME Goes, NEW u \in Users, NEW n \in 0..MaxBytes, UserSends(u, n) PROVE Lives'
  <2>1. UNCHANGED <<state_, events, added, life, connections_, removals, ups, downs>>
    BY <1>21 DEF UserSends
  <2>2. Quiet(ioQueue, ioQueue')
    BY <1>21, QueueQuiet, Zenon DEF UserSends
  <2> QED
    BY <1>18, <1>21, <2>1, <2>2
<1>22. ASSUME Goes, NEW u \in Users,
              UserShutsDown(u) \/ UserForceCloses(u) \/ UserForceClosesLater(u)
       PROVE  Lives'
  <2>1. /\ UNCHANGED <<events, added, connections_, removals, ups, downs>> /\ CanClose'
        /\ life' = IF state_ = "kDisconnected" THEN "misused" ELSE life
    BY <1>22 DEF UserShutsDown, UserForceCloses, UserForceClosesLater, Overwrites, CanClose
  <2>2. Quiet(ioQueue, ioQueue')
    BY <1>22, QueueQuiet DEF UserShutsDown, UserForceCloses, UserForceClosesLater
  <2>3. state_ = "kDisconnected" \/ CanClose
    BY <1>22 DEF Known, Up, Removing, Destroying, Ended
  <2> QED
    BY <1>18, <1>22, <2>1, <2>2, <2>3
<1>23. ASSUME Goes, Next PROVE Lives'
  <2>1. ~NewConnection /\ ~RunDangling
    BY <1>23 DEF NewConnection, RunDangling
  <2> HIDE DEF Goes
  <2>2. CASE BaseLoop
    BY <1>5, <1>23, <2>1, <2>2 DEF BaseLoop
  <2>3. CASE IoLoop
    <3>1. ConnectEstablished => Lives'
      BY <1>4, <1>23 DEF Goes
    <3> QED
      BY <1>2, <1>6, <1>7, <1>8, <1>9, <1>10, <1>11, <1>13, <1>23, <2>1, <2>3, <3>1
         DEF IoLoop
  <2>4. CASE Callbacks
    BY <1>14, <1>15, <1>16, <1>19, <1>23, <2>4 DEF Callbacks
  <2>5. CASE OtherThreads
    BY <1>17, <1>20, <1>21, <1>22, <1>23, <2>5 DEF OtherThreads
  <2> QED
    BY <1>2, <1>23, <2>2, <2>3, <2>4, <2>5 DEF Next
<1>24. CASE Next
  <2>1. CASE life = "alive" /\ Establishing
    BY <1>2, <1>4, <1>24, <2>1, OnlyEstablishes
  <2>2. CASE life = "alive" /\ Known
    BY <1>23, <1>24, <2>2
  <2>3. CASE life # "alive"
    BY <1>1, <1>2, <1>3, <1>24, <2>3, OnlyTheLiveMove
  <2> QED
    BY <2>1, <2>2, <2>3 DEF Lives, InPhase
<1> QED
  BY <1>2, <1>24

\* A thread gives its pointer back only between two calls.
LEMMA CallersKept == TypeOK /\ CallersHold /\ [Next]_vars => CallersHold'
<1> SUFFICES ASSUME TypeOK, CallersHold, [Next]_vars PROVE CallersHold'
  OBVIOUS
<1> USE DEF channel, conn, stream, loops, owners, history
<1>0. user \in [Users -> Calls \cup {"idle"}]
  BY DEF TypeOK
<1>1. CASE UNCHANGED <<held, user>>
  BY <1>1 DEF CallersHold
<1>2. CASE BaseLoop
  BY <1>1, <1>2 DEF BaseLoop, NewConnection, RemoveConnectionInLoop
<1>3. CASE IoLoop
  BY <1>1, <1>3 DEF IoLoop, HandlePeerClosed, HandleWrite, SwapBatch, EndBatch,
     ConnectEstablished, ConnectDestroyed, ForceCloseInLoop, RunCallback, RunSend,
     RunShutdown, RunDangling
<1>4. CASE Callbacks
  BY <1>1, <1>4 DEF Callbacks, CallbackSends, CallbackShutsDown, CallbackForceCloses,
     CallbackForceClosesLater, TimerFires, CallbackStartsRead, CallbackStopsRead
<1>5. ASSUME NEW u \in Users, UserTakes(u) PROVE CallersHold'
  BY <1>5 DEF UserTakes, CallersHold
<1>6. ASSUME NEW u \in Users, UserDrops(u) PROVE CallersHold'
  BY <1>6 DEF UserDrops, CallersHold
<1>7. ASSUME NEW u \in Users, NEW call, UserTests(u, call) PROVE CallersHold'
  BY <1>0, <1>7 DEF UserTests, CallersHold
<1>8. ASSUME NEW u \in Users, NEW n, UserSends(u, n) PROVE CallersHold'
  BY <1>0, <1>8 DEF UserSends, CallersHold
<1>9. ASSUME NEW u \in Users,
             UserShutsDown(u) \/ UserForceCloses(u) \/ UserForceClosesLater(u)
      PROVE  CallersHold'
  BY <1>0, <1>9 DEF UserShutsDown, UserForceCloses, UserForceClosesLater, Overwrites,
                    CallersHold
<1>10. CASE PeerCloses \/ UNCHANGED vars
  BY <1>1, <1>10 DEF PeerCloses, vars
<1> QED
  BY <1>2, <1>3, <1>4, <1>5, <1>6, <1>7, <1>8, <1>9, <1>10 DEF Next, OtherThreads

\* Output starts to wait only with the channel registered for writing, and it stays
\* registered until the buffer is empty or the connection is down.
LEMMA WatchKept ==
  TypeOK /\ Numbered /\ BufferIsWatched /\ Lives /\ [Next]_vars => BufferIsWatched'
<1> SUFFICES ASSUME TypeOK, Numbered, BufferIsWatched, Lives, [Next]_vars
             PROVE  BufferIsWatched'
  OBVIOUS
<1> USE DEF channel, conn, stream, loops, owners, history
<1>1. ASSUME UNCHANGED outputBuffer_, "w" \in events => "w" \in events',
             life' # "misused" => life # "misused",
             state_ = "kDisconnected" => state_' = "kDisconnected" \/ life' = "misused"
      PROVE  BufferIsWatched'
  BY <1>1 DEF BufferIsWatched
<1>2. CASE state_' = "kDisconnected" \/ life' = "misused"
  BY <1>2 DEF BufferIsWatched
<1>3. ASSUME life = "misused" PROVE UNCHANGED vars
  <2>1. ~NewConnection /\ ~SwapBatch /\ ~RunDangling
    BY <1>3 DEF NewConnection, SwapBatch, Polling, Running, RunDangling
  <2> QED
    BY <1>3, <2>1, OnlyTheLiveMove
<1>4. ASSUME life # "misused", UNCHANGED outputBuffer_, UNCHANGED state_,
             "w" \in events => "w" \in events'
      PROVE  BufferIsWatched'
  BY <1>1, <1>4
<1>5. CASE life # "misused" /\ BaseLoop
  <2>1. UNCHANGED <<outputBuffer_, state_, events>>
    BY <1>5 DEF BaseLoop, NewConnection, RemoveConnectionInLoop
  <2> QED
    BY <1>4, <1>5, <2>1
<1>6. CASE HandlePeerClosed
  BY <1>2, <1>6 DEF HandlePeerClosed, HandleClose
<1>7. ASSUME life # "misused", NEW n \in 1..MaxBytes, HandleWrite(n) PROVE BufferIsWatched'
  <2>1. outputBuffer_' = <<>> \/ "w" \in events'
    BY <1>7 DEF HandleWrite
  <2> QED
    BY <2>1 DEF BufferIsWatched
<1>8. CASE /\ life # "misused"
           /\ SwapBatch \/ EndBatch \/ RunCallback \/ RunShutdown \/ RunDangling
                \/ PeerCloses
                \/ (\E u \in Users : UserTakes(u) \/ UserDrops(u)
                      \/ (\E call : UserTests(u, call)) \/ (\E n : UserSends(u, n)))
  <2>1. UNCHANGED <<outputBuffer_, state_, events>>
    BY <1>8 DEF SwapBatch, EndBatch, RunCallback, RunShutdown, RunDangling, PeerCloses,
                UserTakes, UserDrops, UserTests, UserSends
  <2> QED
    BY <1>4, <1>8, <2>1
<1>9. CASE life # "misused" /\ ConnectEstablished
  <2>1. life \notin {"dead", "aborted"} /\ Turn("connectEstablished")
    <3>1. life = "dead" => Ended
      BY DEF Lives
    <3> QED
      BY <1>9, <3>1, TurnHasOp DEF ConnectEstablished, Turn, Running, Ended
  <2>2. state_ # "kDisconnected"
    <3>1. HasOp(ioQueue, "connectEstablished")
      BY <2>1, TurnHasOp
    <3> QED
      BY <1>9, <2>1, <3>1 DEF Lives, Unborn, InPhase, Known, Establishing, Up, Removing,
                              Destroying, Ended
  <2>3. UNCHANGED outputBuffer_ /\ ("w" \in events => "w" \in events')
    BY <1>9 DEF ConnectEstablished, UpdateChannel
  <2> QED
    BY <1>1, <1>9, <2>2, <2>3
<1>10. CASE life # "misused" /\ ConnectDestroyed
  <2>1. /\ UNCHANGED outputBuffer_
        /\ state_' = "kDisconnected" \/ UNCHANGED <<state_, events>>
    BY <1>10 DEF ConnectDestroyed
  <2> QED
    BY <1>2, <1>4, <1>10, <2>1
<1>11. CASE life # "misused" /\ ForceCloseInLoop
  <2>1. /\ UNCHANGED outputBuffer_
        /\ state_' = "kDisconnected" \/ UNCHANGED <<state_, events>>
    BY <1>11 DEF ForceCloseInLoop, HandleClose
  <2> QED
    BY <1>2, <1>4, <1>11, <2>1
<1>12. ASSUME life # "misused", NEW n \in 0..MaxBytes, NEW q \in Seq(Functors),
              SendInLoop(n, q), UNCHANGED state_
       PROVE  BufferIsWatched'
  <2>1. /\ events' \in {events, events \cup {"w"}}
        /\ outputBuffer_' # <<>> => outputBuffer_ # <<>> \/ "w" \in events'
    BY <1>12, SendKeepsStream DEF UpdateChannel
  <2> QED
    BY <1>12, <2>1 DEF BufferIsWatched
<1>13. CASE life # "misused" /\ RunSend
  <2>1. /\ Head(ioQueue).bytes \in 0..MaxBytes /\ Tail(ioQueue) \in Seq(Functors)
    BY <1>13, TurnIsTyped, FunctorsTyped DEF RunSend
  <2>2. SendInLoop(Head(ioQueue).bytes, Tail(ioQueue)) /\ UNCHANGED state_
    BY <1>13 DEF RunSend
  <2> QED
    BY <1>12, <1>13, <2>1, <2>2
<1>14. ASSUME life # "misused", NEW n \in 1..MaxBytes, CallbackSends(n)
       PROVE  BufferIsWatched'
  <2>1. n \in 0..MaxBytes /\ ioQueue \in Seq(Functors)
    BY BoundsAssumption DEF TypeOK
  <2>2. SendInLoop(n, ioQueue) /\ UNCHANGED state_
    BY <1>14 DEF CallbackSends
  <2> QED
    BY <1>12, <1>14, <2>1, <2>2
<1>15. CASE CallbackShutsDown \/ CallbackForceCloses \/ CallbackForceClosesLater \/ TimerFires
  <2>1. UNCHANGED <<outputBuffer_, events>> /\ life = "alive"
    BY <1>15 DEF CallbackShutsDown, CallbackForceCloses, CallbackForceClosesLater, TimerFires,
                 InCallback
  <2>2. state_' = state_ \/ state_ # "kDisconnected"
    BY <1>15 DEF CallbackShutsDown, CallbackForceCloses, CallbackForceClosesLater, TimerFires,
                 CanClose
  <2> QED
    BY <1>1, <2>1, <2>2
<1>16. CASE CallbackStartsRead \/ CallbackStopsRead
  <2>1. UNCHANGED <<outputBuffer_, state_>> /\ life = "alive"
    BY <1>16 DEF CallbackStartsRead, CallbackStopsRead, InCallback
  <2>2. "w" \in events => "w" \in events'
    BY <1>16 DEF CallbackStartsRead, CallbackStopsRead, UpdateChannel
  <2> QED
    BY <1>1, <2>1, <2>2
<1>17. ASSUME NEW u \in Users,
              UserShutsDown(u) \/ UserForceCloses(u) \/ UserForceClosesLater(u)
       PROVE  BufferIsWatched'
  <2>1. /\ UNCHANGED <<outputBuffer_, events>> /\ life = "alive"
        /\ state_ = "kDisconnected" => life' = "misused"
    BY <1>17 DEF UserShutsDown, UserForceCloses, UserForceClosesLater, Overwrites
  <2> QED
    BY <1>1, <2>1
<1>18. CASE UNCHANGED vars
  BY <1>18 DEF vars, BufferIsWatched
<1> QED
  <2>1. CASE life = "misused"
    BY <1>3, <1>18, <2>1
  <2>2. CASE life # "misused" /\ IoLoop
    BY <1>6, <1>7, <1>8, <1>9, <1>10, <1>11, <1>13, <2>2 DEF IoLoop
  <2>3. CASE life # "misused" /\ Callbacks
    BY <1>14, <1>15, <1>16, <2>3 DEF Callbacks
  <2>4. CASE life # "misused" /\ OtherThreads
    BY <1>8, <1>17, <2>4 DEF OtherThreads
  <2> QED
    BY <1>5, <1>8, <1>18, <2>1, <2>2, <2>3, <2>4 DEF Next

\* epoll's watch follows what the channel wants until handleClose(), which turns it
\* around: a descriptor that was not watched is, and one that was is not.
LEMMA EpollKept ==
  TypeOK /\ Numbered /\ Lives /\ CallersHold /\ EpollWatches /\ [Next]_vars => EpollWatches'
<1> SUFFICES ASSUME TypeOK, Numbered, Lives, CallersHold, EpollWatches, [Next]_vars
             PROVE  EpollWatches'
  OBVIOUS
<1> USE DEF channel, conn, stream, loops, owners, history
<1>0. watched \in BOOLEAN /\ reading_ \in BOOLEAN /\ events \in SUBSET {"r", "w"}
  BY DEF TypeOK
<1>1. ASSUME UNCHANGED conn, life' = "misused" \/ life # "misused" PROVE EpollWatches'
  BY <1>1 DEF EpollWatches, CanClose
<1>2. ASSUME UNCHANGED <<events, watched, reading_>>, life # "misused",
             state_' = state_ \/ (CanClose /\ CanClose') \/ life' = "misused"
      PROVE  EpollWatches'
  BY <1>2 DEF EpollWatches, CanClose
<1>3. ASSUME life # "alive" PROVE EpollWatches'
  <2>1. CASE NewConnection \/ SwapBatch \/ RunDangling
    <3>1. UNCHANGED conn /\ (life' = "misused" \/ life # "misused")
      BY <2>1 DEF NewConnection, SwapBatch, Polling, Running, RunDangling
    <3> QED
      BY <1>1, <3>1
  <2>2. CASE UNCHANGED vars
    BY <2>2 DEF vars, EpollWatches, CanClose
  <2> QED
    BY <1>3, <2>1, <2>2, OnlyTheLiveMove
<1>4. ASSUME CanClose, life = "alive", HandleClose, UNCHANGED reading_ PROVE EpollWatches'
  <2>1. /\ (watched <=> events # {}) /\ (reading_ <=> "r" \in events)
        /\ state_' = "kDisconnected" /\ watched' = ~watched
    BY <1>0, <1>4 DEF EpollWatches, CanClose, HandleClose, UpdateChannel
  <2> QED
    BY <1>4, <2>1 DEF EpollWatches
<1>5. ASSUME life = "alive", HandlePeerClosed PROVE EpollWatches'
  <2>1. HandleClose /\ watched /\ UNCHANGED reading_
    BY <1>5 DEF HandlePeerClosed
  <2>2. ~CanClose => state_' = "kDisconnected" /\ ~watched'
    BY <1>0, <2>1 DEF HandleClose, UpdateChannel
  <2> QED
    BY <1>4, <1>5, <2>1, <2>2 DEF EpollWatches
<1>6. ASSUME life = "alive", NEW n \in 1..MaxBytes, HandleWrite(n) PROVE EpollWatches'
  <2>1. /\ "w" \in events /\ UNCHANGED <<state_, reading_>>
        /\ UNCHANGED channel \/ UpdateChannel(events \ {"w"})
    BY <1>6 DEF HandleWrite
  <2>2. CanClose
    BY <1>6, <2>1 DEF Lives, InPhase, Known, Establishing, Up, Removing, Destroying, Ended
  <2>3. watched /\ (reading_ <=> "r" \in events)
    BY <1>6, <2>1, <2>2 DEF EpollWatches, CanClose
  <2>4. CanClose' /\ (watched' <=> events' # {}) /\ (reading_' <=> "r" \in events')
    BY <2>1, <2>2, <2>3 DEF UpdateChannel, CanClose
  <2> QED
    BY <2>4 DEF EpollWatches
<1>7. ASSUME life = "alive", ConnectEstablished PROVE EpollWatches'
  <2>1. HasOp(ioQueue, "connectEstablished")
    BY <1>7, TurnHasOp DEF ConnectEstablished
  <2>2. state_ = "kConnecting"
    BY <1>7, <2>1 DEF Lives, InPhase, Known, Establishing, Up, Removing, Destroying, Ended
  <2>3. reading_ /\ CanClose' /\ watched' /\ "r" \in events' /\ UNCHANGED reading_
    BY <1>7, <2>2 DEF ConnectEstablished, UpdateChannel, EpollWatches, CanClose
  <2> QED
    BY <2>3 DEF EpollWatches
<1>8. ASSUME life = "alive", ConnectDestroyed PROVE EpollWatches'
  <2>1. HasOp(ioQueue, "connectDestroyed")
    BY <1>8, TurnHasOp DEF ConnectDestroyed
  <2>2. ~Establishing
    <3>1. ASSUME Establishing PROVE FALSE
      BY <1>8, <3>1, TurnHasOp DEF ConnectDestroyed, Establishing
    <3> QED
      BY <3>1
  <2>3. state_ = "kDisconnected"
    BY <1>8, <2>1, <2>2 DEF Lives, InPhase, Known, Up, Removing, Destroying, Ended
  <2>4. state_' = "kDisconnected" /\ ~watched'
    BY <1>8, <2>3 DEF ConnectDestroyed
  <2> QED
    BY <2>4 DEF EpollWatches
<1>9. ASSUME life = "alive", ForceCloseInLoop PROVE EpollWatches'
  <2>1. UNCHANGED reading_ /\ ((CanClose /\ HandleClose) \/ UNCHANGED <<state_, channel>>)
    BY <1>9 DEF ForceCloseInLoop
  <2> QED
    BY <1>2, <1>4, <1>9, <2>1
<1>10. ASSUME life = "alive", NEW n \in 0..MaxBytes, NEW q \in Seq(Functors),
              SendInLoop(n, q), UNCHANGED <<state_, reading_>>, state_ # "kConnecting"
       PROVE  EpollWatches'
  <2>1. /\ UNCHANGED channel \/ UpdateChannel(events \cup {"w"})
        /\ state_ = "kDisconnected" => UNCHANGED channel
    BY <1>10, SendKeepsStream
  <2>2. CASE UNCHANGED channel
    BY <1>2, <1>10, <2>2
  <2>3. CASE ~UNCHANGED channel
    <3>1. CanClose /\ (reading_ <=> "r" \in events)
      BY <1>10, <2>1, <2>3 DEF EpollWatches
    <3>2. CanClose' /\ watched' /\ "w" \in events' /\ ("r" \in events <=> "r" \in events')
      BY <1>10, <2>1, <2>3, <3>1 DEF UpdateChannel, CanClose
    <3> QED
      BY <1>10, <3>1, <3>2 DEF EpollWatches
  <2> QED
    BY <2>2, <2>3
<1>11. ASSUME life = "alive", RunSend PROVE EpollWatches'
  <2>1. HasOp(ioQueue, "sendInLoop") /\ Head(ioQueue) = ioQueue[1]
          /\ Head(ioQueue).op = "sendInLoop"
    BY <1>11, TurnHasOp DEF RunSend
  <2>2. state_ # "kConnecting"
    BY <1>11, <2>1 DEF Lives, InPhase, Known, Establishing, Up, Removing, Destroying, Ended,
                       CanClose
  <2>3. Head(ioQueue).bytes \in 0..MaxBytes /\ Tail(ioQueue) \in Seq(Functors)
    BY <1>11, TurnIsTyped, FunctorsTyped DEF RunSend
  <2>4. SendInLoop(Head(ioQueue).bytes, Tail(ioQueue)) /\ UNCHANGED <<state_, reading_>>
    BY <1>11 DEF RunSend
  <2> QED
    BY <1>10, <1>11, <2>2, <2>3, <2>4
<1>12. ASSUME life = "alive", NEW n \in 1..MaxBytes, CallbackSends(n) PROVE EpollWatches'
  <2>1. n \in 0..MaxBytes /\ ioQueue \in Seq(Functors)
    BY BoundsAssumption DEF TypeOK
  <2>2. SendInLoop(n, ioQueue) /\ UNCHANGED <<state_, reading_>> /\ state_ # "kConnecting"
    BY <1>12 DEF CallbackSends
  <2> QED
    BY <1>10, <1>12, <2>1, <2>2
<1>13. ASSUME life = "alive", CallbackStartsRead \/ CallbackStopsRead PROVE EpollWatches'
  <2>1. /\ UNCHANGED state_ /\ (state_ = "kDisconnected" => life' = "misused")
        /\ ups > 0
    BY <1>13 DEF CallbackStartsRead, CallbackStopsRead, Reregisters, InCallback
  <2>2. state_ = "kDisconnected" \/ CanClose
    BY <1>13, <2>1 DEF Lives, InPhase, Known, Establishing, Up, Removing, Destroying, Ended
  <2>3. ASSUME CanClose PROVE EpollWatches'
    <3>1. (watched <=> events # {}) /\ (reading_ <=> "r" \in events)
      BY <1>13, <2>3 DEF EpollWatches, CanClose
    <3>2. CASE CallbackStartsRead
      <4>1. watched' /\ "r" \in events' /\ reading_'
        BY <3>2 DEF CallbackStartsRead, UpdateChannel
      <4> QED
        BY <2>1, <2>3, <4>1 DEF EpollWatches, CanClose
    <3>3. CASE CallbackStopsRead
      <4>1. "r" \in events /\ events' = events \ {"r"} /\ ~reading_' /\ watched
              /\ watched' = (~watched \/ events' # {})
        BY <3>1, <3>3 DEF CallbackStopsRead, UpdateChannel
      <4> QED
        BY <2>1, <2>3, <4>1 DEF EpollWatches, CanClose
    <3> QED
      BY <1>13, <3>2, <3>3
  <2> QED
    BY <2>1, <2>2, <2>3 DEF EpollWatches
<1>14. ASSUME life = "alive",
              \/ RemoveConnectionInLoop \/ SwapBatch \/ EndBatch \/ RunCallback \/ RunShutdown
              \/ PeerCloses \/ UNCHANGED vars
              \/ \E u \in Users : \/ UserTakes(u) \/ UserDrops(u)
                                 \/ (\E call : UserTests(u, call)) \/ \E n : UserSends(u, n)
       PROVE  EpollWatches'
  <2>1. UNCHANGED conn
    BY <1>14 DEF RemoveConnectionInLoop, SwapBatch, EndBatch, RunCallback, RunShutdown,
       PeerCloses, vars, UserTakes, UserDrops, UserTests, UserSends
  <2> QED
    BY <1>1, <1>14, <2>1
<1>15. ASSUME life = "alive",
              \/ CallbackShutsDown \/ CallbackForceCloses \/ CallbackForceClosesLater
              \/ TimerFires
       PROVE  EpollWatches'
  <2>1. UNCHANGED <<events, watched, reading_>>
    BY <1>15 DEF CallbackShutsDown, CallbackForceCloses, CallbackForceClosesLater, TimerFires
  <2>2. state_' = state_ \/ (CanClose /\ CanClose')
    BY <1>15 DEF CallbackShutsDown, CallbackForceCloses, CallbackForceClosesLater, TimerFires,
                 ForceClose, CanClose
  <2> QED
    BY <1>2, <1>15, <2>1, <2>2
<1>16. ASSUME life = "alive", NEW u \in Users,
              UserShutsDown(u) \/ UserForceCloses(u) \/ UserForceClosesLater(u)
       PROVE  EpollWatches'
  <2>1. /\ UNCHANGED <<events, watched, reading_>> /\ user[u] # "idle"
        /\ state_' = "kDisconnecting" /\ (state_ = "kDisconnected" => life' = "misused")
    BY <1>16 DEF UserShutsDown, UserForceCloses, UserForceClosesLater, Overwrites
  <2>2. u \in held
    BY <2>1 DEF CallersHold
  <2>3. state_ = "kDisconnected" \/ CanClose
    BY <1>16, <2>2 DEF Lives, InPhase, Known, Establishing, Up, Removing, Destroying, Ended
  <2> QED
    BY <1>2, <1>16, <2>1, <2>3 DEF CanClose
<1> QED
  <2>1. CASE life = "alive" /\ BaseLoop
    BY <1>14, <2>1 DEF BaseLoop, NewConnection
  <2>2. CASE life = "alive" /\ IoLoop
    <3>1. ~RunDangling
      BY <2>2 DEF RunDangling
    <3> QED
      BY <1>5, <1>6, <1>7, <1>8, <1>9, <1>11, <1>14, <2>2, <3>1 DEF IoLoop
  <2>3. CASE life = "alive" /\ Callbacks
    BY <1>12, <1>13, <1>15, <2>3 DEF Callbacks
  <2>4. CASE life = "alive" /\ OtherThreads
    BY <1>14, <1>16, <2>4 DEF OtherThreads
  <2> QED
    BY <1>3, <1>14, <2>1, <2>2, <2>3, <2>4 DEF Next

-----------------------------------------------------------------------------
(* Theorems *)

\* The connection before newConnection().
LEMMA ConnInitially == Init => ConnInv
<1> SUFFICES ASSUME Init PROVE ConnInv
  OBVIOUS
<1>1. ioQueue = <<>> /\ Len(ioQueue) = 0 /\ ioQueue \in Seq(Functors)
  BY DEF Init
<1>2. TypeOK
  <2>1. /\ user \in [Users -> Calls \cup {"idle"}]
        /\ held \in SUBSET Users /\ events \in SUBSET {"r", "w"}
    BY DEF Init
  <2>2. /\ batchLeft \in 0..Len(ioQueue) /\ removals \in Nat /\ ups \in Nat /\ downs \in Nat
        /\ outputBuffer_ \in Seq(Nat) /\ wire \in Seq(Nat)
    BY <1>1 DEF Init
  <2>3. /\ state_ \in States /\ peer \in {"open", "closed"}
        /\ life \in {"unborn", "alive", "dead", "aborted", "misused"}
    BY DEF Init, States
  <2>4. /\ added \in BOOLEAN /\ watched \in BOOLEAN /\ reading_ \in BOOLEAN /\ fin \in BOOLEAN
        /\ batchHolds \in BOOLEAN /\ timer \in BOOLEAN /\ connections_ \in BOOLEAN
    BY Zenon DEF Init
  <2> QED
    BY <1>1, <2>1, <2>2, <2>3, <2>4 DEF TypeOK
<1>3. Numbered /\ BufferIsWatched
  BY DEF Init, Numbered, BufferIsWatched
<1>4. Lives /\ CallersHold /\ EpollWatches
  BY DEF Init, Lives, Unborn, CallersHold, EpollWatches
<1> QED
  BY <1>2, <1>3, <1>4 DEF ConnInv

\* The inductive invariant: the bytes are in order, output that waits is watched, and
\* the object is in a phase of its life.
THEOREM ConnInvariant == Spec => []ConnInv
<1>1. ConnInv /\ [Next]_vars => ConnInv'
  BY StreamKept, LifeKept, CallersKept, WatchKept, EpollKept DEF ConnInv
<1> QED
  BY <1>1, ConnInitially, PTL DEF Spec

\* sendInLoop(), handleWrite() and the high-water mark never lose, repeat or reorder a
\* byte, however many threads send and however short the writes.
THEOREM ConnStreamIsWhole == Spec => []StreamIsWhole
<1>1. ConnInv => StreamIsWhole
  <2> SUFFICES ASSUME ConnInv, NEW i \in 1..Accepted
               PROVE  (wire \o outputBuffer_)[i] = i
    BY DEF StreamIsWhole
  <2>1. /\ wire \in Seq(Nat) /\ outputBuffer_ \in Seq(Nat)
        /\ Len(wire) \in Nat /\ Len(outputBuffer_) \in Nat
        /\ i \in 1..(Len(wire) + Len(outputBuffer_))
    BY LenProperties DEF ConnInv, TypeOK, Accepted
  <2>2. /\ \A j \in 1..Len(wire) : (wire \o outputBuffer_)[j] = wire[j]
        /\ \A j \in 1..Len(outputBuffer_) :
             (wire \o outputBuffer_)[Len(wire) + j] = outputBuffer_[j]
    BY <2>1, Joined
  <2>3. CASE i <= Len(wire)
    <3>1. i \in 1..Len(wire)
      BY <2>1, <2>3
    <3> QED
      BY <2>2, <3>1 DEF ConnInv, Numbered
  <2>4. CASE ~(i <= Len(wire))
    <3>1. i - Len(wire) \in 1..Len(outputBuffer_) /\ Len(wire) + (i - Len(wire)) = i
      BY <2>1, <2>4
    <3>2. (wire \o outputBuffer_)[i] = outputBuffer_[i - Len(wire)]
      BY <2>2, <3>1
    <3>3. outputBuffer_[i - Len(wire)] = Len(wire) + (i - Len(wire))
      BY <3>1 DEF ConnInv, Numbered
    <3> QED
      BY <3>1, <3>2, <3>3
  <2> QED
    BY <2>3, <2>4
<1> QED
  BY <1>1, ConnInvariant, PTL

\* shutdownInLoop() looks at the channel and not at the buffer, and handleWrite() calls
\* it for a shutdown() that had to wait: neither cuts off output that was taken.
THEOREM ConnShutdownDrains == Spec => ShutdownDrains
<1>1. ConnInv /\ [Next]_vars => [fin' /\ ~fin => outputBuffer_' = <<>> \/ state_' = "kDisconnected"]_vars
  <2> SUFFICES ASSUME ConnInv, Next, fin', ~fin
               PROVE  outputBuffer_' = <<>> \/ state_' = "kDisconnected"
    BY DEF vars
  <2> USE DEF channel, conn, stream, loops, owners, history
  <2>1. CASE \E n \in 1..MaxBytes : HandleWrite(n)
    BY <2>1 DEF HandleWrite
  <2>2. CASE CallbackShutsDown
    <3>1. /\ life = "alive" /\ state_ = "kConnected" /\ UNCHANGED outputBuffer_
          /\ "w" \notin events
      BY <2>2 DEF CallbackShutsDown, InCallback, ShutdownInLoop
    <3> QED
      BY <3>1 DEF ConnInv, BufferIsWatched
  <2>2a. CASE RunShutdown
    <3>1. /\ life = "alive" /\ UNCHANGED <<state_, outputBuffer_>> /\ "w" \notin events
      BY <2>2a DEF RunShutdown, ShutdownInLoop
    <3> QED
      BY <3>1 DEF ConnInv, BufferIsWatched
  <2>3. CASE BaseLoop
    BY <2>3 DEF BaseLoop, NewConnection, RemoveConnectionInLoop
  <2>4. CASE IoLoop
    BY <2>1, <2>2a, <2>4 DEF IoLoop, HandlePeerClosed, SwapBatch, EndBatch,
       ConnectEstablished, ConnectDestroyed, ForceCloseInLoop, RunCallback, RunSend,
       RunDangling
  <2>5. CASE Callbacks
    BY <2>2, <2>5 DEF Callbacks, CallbackSends, CallbackForceCloses,
       CallbackForceClosesLater, TimerFires, CallbackStartsRead, CallbackStopsRead
  <2>6. CASE OtherThreads \/ PeerCloses
    BY <2>6 DEF OtherThreads, PeerCloses, UserTakes, UserDrops, UserTests, UserSends,
       UserShutsDown, UserForceCloses, UserForceClosesLater
  <2> QED
    BY <2>3, <2>4, <2>5, <2>6 DEF Next
<1> QED
  BY <1>1, ConnInvariant, PTL DEF Spec, ShutdownDrains

\* No assert of the life cycle fails, from connectEstablished() to the destructors, but
\* handleClose()'s on a connection whose reading was stopped.
THEOREM ConnAssertsHold == Spec => []AssertsHold
<1>1. ConnInv => AssertsHold
  BY DEF ConnInv, Lives, AssertsHold
<1> QED
  BY <1>1, ConnInvariant, PTL

\* The user is told of the connection's beginning and end once each, in this order,
\* until that assert fails.
THEOREM ConnCallbacksPair == Spec => []CallbacksPair
<1>1. ConnInv => CallbacksPair
  <2>1. Unborn \/ Establishing => ups = 0 /\ downs = 0
    BY DEF Unborn, Establishing
  <2>2. Known => ups = 1 /\ (downs = 0 \/ downs = 1)
    BY DEF Known, Up, Removing, Destroying, Ended
  <2>3. Ended => ups = 1 /\ downs = 1
    BY DEF Ended
  <2> QED
    BY <2>1, <2>2, <2>3 DEF ConnInv, Lives, InPhase, CallbacksPair
<1> QED
  BY <1>1, ConnInvariant, PTL

=============================================================================
