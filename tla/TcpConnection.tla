--------------------------- MODULE TcpConnection ---------------------------
(***************************************************************************)
(* master/net/TcpConnection.cc and the part of TcpServer.cc that creates   *)
(* and removes a connection: one connection of a server whose I/O loops    *)
(* run in threads of their own, from newConnection() to the destructor.    *)
(*                                                                         *)
(* The actors are the server's base loop, the I/O loop of the connection,  *)
(* other threads that hold a TcpConnectionPtr, and the peer.  Both loops   *)
(* run their functors first in, first out (EventLoop refines TaskQueue).   *)
(* The I/O loop takes them in batches, and the vector of a batch keeps its *)
(* shared pointers until the batch is over.                                *)
(*                                                                         *)
(* The object lives as long as a shared pointer to it; a functor bound to  *)
(* a bare this does not count.  A failed assert ends the behaviour in      *)
(* life = "aborted", after the whole handler, as a build without asserts   *)
(* would run it.  Three things the code has no defence against end it in   *)
(* life = "misused": another thread's shutdown(), forceClose() or          *)
(* forceCloseWithDelay() that overwrites kDisconnected after a stale test, *)
(* startRead() or stopRead() on a connection that is down, and a functor   *)
(* bound to a bare this that runs when the object is gone.                 *)
(*                                                                         *)
(* The poller is EPollPoller, the default one: it takes a channel that     *)
(* wants no events out of epoll, and puts it back, for hang-ups and errors *)
(* only, when the channel is updated again and still wants none.           *)
(*                                                                         *)
(* Abstractions.  Bytes are numbered in the order in which sendInLoop()    *)
(* takes them.  Callbacks run in the I/O loop; user code there may call    *)
(* send(), shutdown(), forceClose(), startRead() and stopRead(), and is an *)
(* action of its own, since nothing follows a callback in its handler that *)
(* the callback could disturb.  The input side is left out but for its end.*)
(***************************************************************************)
EXTENDS Naturals, Sequences

CONSTANTS
  Users,            \* threads other than the two loops
  HighWaterMark,
  MaxBytes,         \* bound on the bytes given to send() in a behaviour
  MaxQueue          \* bound on the functors waiting when forceClose() is called

ASSUME BoundsAssumption == {HighWaterMark, MaxBytes, MaxQueue} \subseteq Nat

VARIABLES
  state_,
  events,           \* what channel_ is registered for: "r", "w"
  added,            \* channel_ is in the poller's channels_
  watched,          \* epoll watches the descriptor: channel_'s index_ is kAdded
  reading_,
  outputBuffer_,
  wire,             \* the bytes written to the socket
  fin,              \* shutdownWrite() was called
  peer,             \* "open", or "closed": read() gives 0, epoll a hang-up
  ioQueue,          \* the I/O loop's functors, the rest of the current batch first
  batchLeft,        \* how many of them are in the current batch
  batchHolds,       \* a functor of the batch that has run holds a shared pointer
  removals,         \* removeConnectionInLoop()s waiting in the base loop
  timer,            \* forceCloseWithDelay() has a timer
  connections_,     \* the server's map holds the connection
  held,             \* the users that hold a TcpConnectionPtr
  user,             \* the call in which a user has tested state_ and not gone on
  life,             \* of the object, or how the behaviour ended
  ups, downs        \* history: calls of connectionCallback_ by establishment, closing

channel == <<events, added, watched>>
conn == <<state_, channel, reading_>>
stream == <<outputBuffer_, wire, fin>>
loops == <<ioQueue, batchLeft, batchHolds, removals, timer>>
owners == <<connections_, held, user>>
history == <<ups, downs>>
vars == <<conn, stream, peer, loops, owners, life, history>>

States == {"kConnecting", "kConnected", "kDisconnecting", "kDisconnected"}

\* What another thread may call: a test of state_, and the rest.
Calls == {"send", "shutdown", "forceClose", "forceCloseWithDelay"}

\* Functors bound to shared_from_this() or to a TcpConnectionPtr; "callback" is
\* writeCompleteCallback_ or highWaterMarkCallback_.
SharedOps == {"connectEstablished", "connectDestroyed", "forceCloseInLoop", "callback"}

\* Functors bound to a bare this.
BareOps == {"sendInLoop", "shutdownInLoop"}

Functors == [op : SharedOps \cup BareOps, bytes : 0..MaxBytes]

Functor(op) == [op |-> op, bytes |-> 0]

TypeOK ==
  /\ state_ \in States
  /\ events \in SUBSET {"r", "w"}
  /\ added \in BOOLEAN /\ watched \in BOOLEAN /\ reading_ \in BOOLEAN
  /\ outputBuffer_ \in Seq(Nat) /\ wire \in Seq(Nat)
  /\ fin \in BOOLEAN
  /\ peer \in {"open", "closed"}
  /\ ioQueue \in Seq(Functors)
  /\ batchLeft \in 0..Len(ioQueue)
  /\ batchHolds \in BOOLEAN
  /\ removals \in Nat
  /\ timer \in BOOLEAN
  /\ connections_ \in BOOLEAN
  /\ held \in SUBSET Users
  /\ user \in [Users -> Calls \cup {"idle"}]
  /\ life \in {"unborn", "alive", "dead", "aborted", "misused"}
  /\ ups \in Nat /\ downs \in Nat

Init ==
  /\ state_ = "kConnecting"
  /\ events = {} /\ added = FALSE /\ watched = FALSE /\ reading_ = TRUE
  /\ outputBuffer_ = <<>> /\ wire = <<>> /\ fin = FALSE
  /\ peer = "open"
  /\ ioQueue = <<>> /\ batchLeft = 0 /\ batchHolds = FALSE
  /\ removals = 0 /\ timer = FALSE
  /\ connections_ = FALSE /\ held = {} /\ user = [u \in Users |-> "idle"]
  /\ life = "unborn"
  /\ ups = 0 /\ downs = 0

-----------------------------------------------------------------------------
(* The life of the object *)

Running == life \notin {"aborted", "misused"}

Referenced ==
  \/ connections_ \/ held # {} \/ batchHolds \/ removals > 0
  \/ \E i \in DOMAIN ioQueue : ioQueue[i].op \in SharedOps

\* The end of every step: a failed assert aborts; with the last shared pointer
\* goes the object, whose destructor and that of its channel assert too.
Settle(asserted) ==
  LET dies == life = "alive" /\ ~Referenced'
      clean == state_' = "kDisconnected" /\ ~added'
  IN  life' = IF asserted /\ (dies => clean)
                THEN IF dies THEN "dead" ELSE life
                ELSE "aborted"

-----------------------------------------------------------------------------
(* The base loop: TcpServer *)

\* newConnection(): ioLoop is another thread's, so runInLoop() queues.
NewConnection ==
  /\ life = "unborn"
  /\ connections_' = TRUE
  /\ ioQueue' = Append(ioQueue, Functor("connectEstablished"))
  /\ life' = "alive"
  /\ UNCHANGED <<conn, stream, peer, batchLeft, batchHolds, removals, timer, held,
                 user, history>>

\* connections_.erase(conn->name())
EraseConnection == connections_' = FALSE

\* removeConnectionInLoop()
RemoveConnectionInLoop ==
  /\ Running
  /\ removals > 0
  /\ removals' = removals - 1
  /\ EraseConnection
  /\ ioQueue' = Append(ioQueue, Functor("connectDestroyed"))
  /\ UNCHANGED <<conn, stream, peer, batchLeft, batchHolds, timer, held, user, history>>
  /\ Settle(connections_)

-----------------------------------------------------------------------------
(* What the handlers do; each leaves ioQueue' to start from the queue q. *)

\* Channel::update() with the events ev, and EPollPoller::updateChannel(): a channel
\* that epoll does not watch is added, whatever it wants.
UpdateChannel(ev) ==
  /\ events' = ev
  /\ added' = TRUE
  /\ watched' = (~watched \/ ev # {})

Accepted == Len(wire) + Len(outputBuffer_)

\* Mutant of WritesDirectly: always tries the socket first.
WritesAlways == TRUE

\* No output waits, so sendInLoop() tries the socket first.
WritesDirectly == "w" \notin events /\ outputBuffer_ = <<>>

\* sendInLoop(): the connection is down; or write() fails with EPIPE or
\* ECONNRESET and the data is dropped; or k bytes, none for EWOULDBLOCK, are
\* written and the rest is buffered.
SendInLoop(n, q) ==
  LET bytes == [i \in 1..n |-> Accepted + i]
      Rest(k) == SubSeq(bytes, k + 1, n)
      completes(k) == WritesDirectly /\ k = n
      crosses(k) == /\ k < n
                    /\ Len(outputBuffer_) < HighWaterMark
                    /\ Len(outputBuffer_) + (n - k) >= HighWaterMark
  IN
  \/ /\ state_ = "kDisconnected"
     /\ ioQueue' = q
     /\ UNCHANGED <<channel, outputBuffer_, wire>>
  \/ /\ state_ # "kDisconnected" /\ WritesDirectly
     /\ fin \/ peer = "closed"
     /\ ioQueue' = q
     /\ UNCHANGED <<channel, outputBuffer_, wire>>
  \/ /\ state_ # "kDisconnected" /\ (WritesDirectly => ~fin)
     /\ \E k \in IF WritesDirectly THEN 0..n ELSE {0} :
          /\ wire' = wire \o SubSeq(bytes, 1, k)
          /\ outputBuffer_' = outputBuffer_ \o Rest(k)
          /\ IF k < n /\ "w" \notin events
               THEN UpdateChannel(events \cup {"w"})
               ELSE UNCHANGED channel
          /\ ioQueue' = IF completes(k) \/ crosses(k)
                         THEN Append(q, Functor("callback")) ELSE q

\* Mutant of ShutdownInLoop: cuts off what is still buffered.
ShutdownAtOnce(ev) == fin' = TRUE

\* shutdownInLoop(), where the channel is registered for ev.
ShutdownInLoop(ev) == fin' = (fin \/ "w" \notin ev)

\* Mutant of ShutdownAfterOutput: forgets that shutdown() waits.
NoShutdownAfterOutput(ev) == UNCHANGED fin

\* The end of handleWrite(): a shutdown() that had to wait for the buffer.
ShutdownAfterOutput(ev) ==
  IF state_ = "kDisconnecting" THEN ShutdownInLoop(ev) ELSE UNCHANGED fin

\* Mutant of HandleClose: disableAll() is missing.
HandleCloseKeepsEvents ==
  /\ state_' = "kDisconnected"
  /\ downs' = downs + 1
  /\ removals' = removals + 1
  /\ UNCHANGED channel

\* handleClose(); closeCallback_ is TcpServer::removeConnection(), which queues in
\* the base loop.
HandleClose ==
  /\ state_' = "kDisconnected"
  /\ UpdateChannel({})
  /\ downs' = downs + 1
  /\ removals' = removals + 1

\* Mutant of CanClose: closes in any state.
CanAlwaysClose == TRUE

\* What forceCloseInLoop() tests and handleClose() asserts.
CanClose == state_ \in {"kConnected", "kDisconnecting"}

-----------------------------------------------------------------------------
(* The I/O loop: events *)

\* The I/O loop is between two batches of functors, where it handles events.
Polling == Running /\ batchLeft = 0 /\ ~batchHolds

\* handleRead() gets 0 from read(), or epoll reports POLLHUP, for which a channel need
\* not want any events.
HandlePeerClosed ==
  /\ Polling /\ life = "alive"
  /\ peer = "closed"
  /\ watched
  /\ HandleClose
  /\ UNCHANGED <<reading_, stream, peer, ioQueue, batchLeft, batchHolds, timer,
                 owners, ups>>
  /\ Settle(CanClose)

\* handleWrite(): write() takes n bytes; a failed write() changes nothing.
HandleWrite(n) ==
  /\ Polling /\ life = "alive"
  /\ "w" \in events /\ n <= Len(outputBuffer_)
  /\ wire' = wire \o SubSeq(outputBuffer_, 1, n)
  /\ outputBuffer_' = SubSeq(outputBuffer_, n + 1, Len(outputBuffer_))
  /\ IF outputBuffer_' = <<>>
       THEN /\ UpdateChannel(events \ {"w"})
            /\ ioQueue' = Append(ioQueue, Functor("callback"))
            /\ ShutdownAfterOutput(events')
       ELSE UNCHANGED <<channel, ioQueue, fin>>
  /\ UNCHANGED <<state_, reading_, peer, batchLeft, batchHolds, removals, timer,
                 owners, history>>
  /\ Settle(TRUE)

-----------------------------------------------------------------------------
(* The I/O loop: functors *)

\* doPendingFunctors() swaps; its functors follow, and at the end the vector dies.
SwapBatch ==
  /\ Polling
  /\ ioQueue # <<>>
  /\ batchLeft' = Len(ioQueue)
  /\ UNCHANGED <<conn, stream, peer, ioQueue, batchHolds, removals, timer, owners, life,
                 history>>

EndBatch ==
  /\ Running
  /\ batchLeft = 0 /\ batchHolds
  /\ batchHolds' = FALSE
  /\ UNCHANGED <<conn, stream, peer, ioQueue, batchLeft, removals, timer, owners, history>>
  /\ Settle(TRUE)

\* The next functor of the batch is op.
Turn(op) ==
  /\ Running
  /\ batchLeft > 0
  /\ Head(ioQueue).op = op
  /\ batchLeft' = batchLeft - 1
  /\ batchHolds' = (batchHolds \/ op \in SharedOps)

ConnectEstablished ==
  /\ Turn("connectEstablished")
  /\ ioQueue' = Tail(ioQueue)
  /\ state_' = "kConnected"
  /\ UpdateChannel(events \cup {"r"})
  /\ ups' = ups + 1
  /\ UNCHANGED <<reading_, stream, peer, removals, timer, owners, downs>>
  /\ Settle(state_ = "kConnecting")

\* connectDestroyed(), and channel_->remove() with its asserts.
ConnectDestroyed ==
  /\ Turn("connectDestroyed")
  /\ ioQueue' = Tail(ioQueue)
  /\ IF state_ = "kConnected"
       THEN state_' = "kDisconnected" /\ events' = {} /\ downs' = downs + 1
       ELSE UNCHANGED <<state_, events, downs>>
  /\ added' = FALSE /\ watched' = FALSE
  /\ UNCHANGED <<reading_, stream, peer, removals, timer, owners, ups>>
  /\ Settle(added /\ events' = {})

ForceCloseInLoop ==
  /\ Turn("forceCloseInLoop")
  /\ ioQueue' = Tail(ioQueue)
  /\ IF CanClose THEN HandleClose
     ELSE UNCHANGED <<state_, channel, downs, removals>>
  /\ UNCHANGED <<reading_, stream, peer, timer, owners, ups>>
  /\ Settle(TRUE)

RunCallback ==
  /\ Turn("callback")
  /\ ioQueue' = Tail(ioQueue)
  /\ UNCHANGED <<conn, stream, peer, removals, timer, owners, history>>
  /\ Settle(TRUE)

\* sendInLoop() for another thread; bound to a bare this.
RunSend ==
  /\ Turn("sendInLoop")
  /\ life = "alive"
  /\ SendInLoop(Head(ioQueue).bytes, Tail(ioQueue))
  /\ UNCHANGED <<state_, reading_, fin, peer, removals, timer, owners, history>>
  /\ Settle(TRUE)

\* shutdownInLoop() for another thread.
RunShutdown ==
  /\ Turn("shutdownInLoop")
  /\ life = "alive"
  /\ ioQueue' = Tail(ioQueue)
  /\ ShutdownInLoop(events)
  /\ UNCHANGED <<conn, outputBuffer_, wire, peer, removals, timer, owners, history>>
  /\ Settle(TRUE)

RunDangling ==
  /\ \E op \in BareOps : Turn(op)
  /\ life = "dead"
  /\ ioQueue' = Tail(ioQueue)
  /\ life' = "misused"
  /\ UNCHANGED <<conn, stream, peer, removals, timer, owners, history>>

-----------------------------------------------------------------------------
(* The I/O loop: user code in callbacks, for a connection it was told of *)

InCallback == life = "alive" /\ ups > 0

QueuedBytes ==
  LET sum[i \in 0..Len(ioQueue)] == IF i = 0 THEN 0 ELSE sum[i - 1] + ioQueue[i].bytes
  IN  sum[Len(ioQueue)]

BytesLeft(n) == Accepted + QueuedBytes + n <= MaxBytes

CallbackSends(n) ==
  /\ InCallback
  /\ state_ = "kConnected"
  /\ BytesLeft(n)
  /\ SendInLoop(n, ioQueue)
  /\ UNCHANGED <<state_, reading_, fin, peer, batchLeft, batchHolds, removals, timer,
                 owners, history>>
  /\ Settle(TRUE)

CallbackShutsDown ==
  /\ InCallback
  /\ state_ = "kConnected"
  /\ state_' = "kDisconnecting"
  /\ ShutdownInLoop(events)
  /\ UNCHANGED <<channel, reading_, outputBuffer_, wire, peer, loops, owners, history>>
  /\ Settle(TRUE)

\* forceClose() in the I/O loop.
ForceClose ==
  /\ state_' = "kDisconnecting"
  /\ ioQueue' = Append(ioQueue, Functor("forceCloseInLoop"))

CallbackForceCloses ==
  /\ InCallback
  /\ CanClose
  /\ Len(ioQueue) < MaxQueue
  /\ ForceClose
  /\ UNCHANGED <<channel, reading_, stream, peer, batchLeft, batchHolds, removals,
                 timer, owners, history>>
  /\ Settle(TRUE)

CallbackForceClosesLater ==
  /\ InCallback
  /\ CanClose
  /\ ~timer /\ Len(ioQueue) < MaxQueue
  /\ state_' = "kDisconnecting"
  /\ timer' = TRUE
  /\ UNCHANGED <<channel, reading_, stream, peer, ioQueue, batchLeft, batchHolds,
                 removals, owners, history>>
  /\ Settle(TRUE)

\* The timer of forceCloseWithDelay(), whose callback holds a weak pointer.
TimerFires ==
  /\ life = "alive"
  /\ timer
  /\ timer' = FALSE
  /\ IF CanClose THEN ForceClose ELSE UNCHANGED <<state_, ioQueue>>
  /\ UNCHANGED <<channel, reading_, stream, peer, batchLeft, batchHolds, removals,
                 owners, history>>
  /\ Settle(TRUE)

\* startReadInLoop() and stopReadInLoop() do not look at state_, and register the
\* channel again when the connection is down.
Reregisters == life' = IF state_ = "kDisconnected" THEN "misused" ELSE life

CallbackStartsRead ==
  /\ InCallback
  /\ ~reading_ \/ "r" \notin events
  /\ UpdateChannel(events \cup {"r"})
  /\ reading_' = TRUE
  /\ Reregisters
  /\ UNCHANGED <<state_, stream, peer, loops, owners, history>>

CallbackStopsRead ==
  /\ InCallback
  /\ reading_ \/ "r" \in events
  /\ UpdateChannel(events \ {"r"})
  /\ reading_' = FALSE
  /\ Reregisters
  /\ UNCHANGED <<state_, stream, peer, loops, owners, history>>

-----------------------------------------------------------------------------
(* Other threads *)

\* A callback hands the TcpConnectionPtr on.
UserTakes(u) ==
  /\ InCallback /\ state_ # "kDisconnected"
  /\ u \notin held
  /\ held' = held \cup {u}
  /\ UNCHANGED <<conn, stream, peer, loops, connections_, user, life, history>>

UserDrops(u) ==
  /\ Running
  /\ u \in held /\ user[u] = "idle"
  /\ held' = held \ {u}
  /\ UNCHANGED <<conn, stream, peer, loops, connections_, user, history>>
  /\ Settle(TRUE)

\* A call up to its test of state_, when it succeeds.
UserTests(u, call) ==
  /\ life = "alive"
  /\ u \in held /\ user[u] = "idle"
  /\ Len(ioQueue) < MaxQueue
  /\ call \in {"send", "shutdown"} => state_ = "kConnected"
  /\ call \in {"forceClose", "forceCloseWithDelay"} => CanClose
  /\ user' = [user EXCEPT ![u] = call]
  /\ UNCHANGED <<conn, stream, peer, loops, connections_, held, life, history>>

\* The rest of send(): runInLoop() queues.
UserSends(u, n) ==
  /\ life = "alive"
  /\ user[u] = "send"
  /\ n = 0 \/ BytesLeft(n)
  /\ ioQueue' = Append(ioQueue, [op |-> "sendInLoop", bytes |-> n])
  /\ user' = [user EXCEPT ![u] = "idle"]
  /\ UNCHANGED <<conn, stream, peer, batchLeft, batchHolds, removals, timer, connections_,
                 held, life, history>>

\* The rest of the other calls: state_ is overwritten whatever it is by now.
Overwrites(u, call) ==
  /\ life = "alive"
  /\ user[u] = call
  /\ state_' = "kDisconnecting"
  /\ life' = IF state_ = "kDisconnected" THEN "misused" ELSE life
  /\ user' = [user EXCEPT ![u] = "idle"]

UserShutsDown(u) ==
  /\ Overwrites(u, "shutdown")
  /\ ioQueue' = Append(ioQueue, Functor("shutdownInLoop"))
  /\ UNCHANGED <<channel, reading_, stream, peer, batchLeft, batchHolds, removals,
                 timer, connections_, held, history>>

UserForceCloses(u) ==
  /\ Overwrites(u, "forceClose")
  /\ ioQueue' = Append(ioQueue, Functor("forceCloseInLoop"))
  /\ UNCHANGED <<channel, reading_, stream, peer, batchLeft, batchHolds, removals,
                 timer, connections_, held, history>>

UserForceClosesLater(u) ==
  /\ Overwrites(u, "forceCloseWithDelay")
  /\ ~timer
  /\ timer' = TRUE
  /\ UNCHANGED <<channel, reading_, stream, peer, ioQueue, batchLeft, batchHolds,
                 removals, connections_, held, history>>

PeerCloses ==
  /\ life = "alive"
  /\ peer = "open"
  /\ peer' = "closed"
  /\ UNCHANGED <<conn, stream, loops, owners, life, history>>

BaseLoop == NewConnection \/ RemoveConnectionInLoop

IoLoop ==
  \/ HandlePeerClosed
  \/ \E n \in 1..MaxBytes : HandleWrite(n)
  \/ SwapBatch \/ EndBatch
  \/ ConnectEstablished \/ ConnectDestroyed \/ ForceCloseInLoop
  \/ RunCallback \/ RunSend \/ RunShutdown \/ RunDangling

Callbacks ==
  \/ \E n \in 1..MaxBytes : CallbackSends(n)
  \/ CallbackShutsDown \/ CallbackForceCloses \/ CallbackForceClosesLater
  \/ TimerFires
  \/ CallbackStartsRead \/ CallbackStopsRead

OtherThreads ==
  \E u \in Users :
    \/ UserTakes(u) \/ UserDrops(u)
    \/ \E call \in Calls : UserTests(u, call)
    \/ \E n \in 0..MaxBytes : UserSends(u, n)
    \/ UserShutsDown(u) \/ UserForceCloses(u) \/ UserForceClosesLater(u)

Next == BaseLoop \/ IoLoop \/ Callbacks \/ OtherThreads \/ PeerCloses

Spec == Init /\ [][Next]_vars

(***************************************************************************)
(* Both loops run what is queued (EventLoop!FunctorsRun), the timer of     *)
(* forceCloseWithDelay() fires, a thread inside a call goes on and gives  *)
(* its pointer back some day, and the peer keeps reading, so  *)
(* that a socket waited on becomes writable.  Nobody is made to call       *)
(* anything, nor the peer to close.                                        *)
(***************************************************************************)
Fairness ==
  /\ WF_vars(RemoveConnectionInLoop)
  /\ WF_vars(SwapBatch \/ EndBatch \/ ConnectEstablished \/ ConnectDestroyed
               \/ ForceCloseInLoop \/ RunCallback \/ RunSend \/ RunShutdown \/ RunDangling)
  /\ SF_vars(\E n \in 1..MaxBytes : HandleWrite(n))
  /\ WF_vars(TimerFires)
  /\ \A u \in Users :
       /\ WF_vars(\/ \E n \in 0..MaxBytes : UserSends(u, n)
                  \/ UserShutsDown(u) \/ UserForceCloses(u) \/ UserForceClosesLater(u))
       /\ SF_vars(UserDrops(u))

FairSpec == Spec /\ Fairness

-----------------------------------------------------------------------------
(* Properties *)

\* One assert of the life cycle can fail, handleClose()'s own, and only for a connection
\* whose reading was stopped: the closing puts its descriptor back into epoll, and a
\* hang-up reported before connectDestroyed() closes it again.  Every other assert, from
\* connectEstablished() to the destructors of the connection and its channel, holds in
\* every interleaving of the two loops, the callbacks and the other threads short of
\* the three kinds of misuse.
AssertsHold ==
  life = "aborted" => state_ = "kDisconnected" /\ ~reading_ /\ ups = 1 /\ downs = 2

\* What sendInLoop() took reaches the socket whole and in order: the bytes written
\* and those buffered are 1, 2, 3, ... whoever sent them.
StreamIsWhole ==
  \A i \in 1..Accepted : (wire \o outputBuffer_)[i] = i

\* shutdown() lets the buffer drain: the write side of a connection that is not down
\* yet is shut down only when nothing that was taken is left to write.
ShutdownDrains ==
  [][fin' /\ ~fin => outputBuffer_' = <<>> \/ state_' = "kDisconnected"]_vars

\* A connection that is being shut down or closed gets there: its write side is
\* shut down or it is disconnected.  One that is down is taken out of the server's
\* map and of the poller and destroyed: it does not leak.
ClosingEnds ==
  /\ (life = "alive" /\ state_ = "kDisconnecting")
       ~> (fin \/ state_ = "kDisconnected" \/ life # "alive")
  /\ (life = "alive" /\ state_ = "kDisconnected") ~> life # "alive"

\* connectionCallback_ tells of the connection's end once, and only after its
\* beginning, unless the assert of handleClose() has failed first; of every connection
\* that was destroyed it told both.
CallbacksPair ==
  ups <= 1 /\ (life # "aborted" => downs <= ups) /\ (life = "dead" => downs = 1)

\* What the assert of handleClose() says (TcpConnection.cc:420): a connection is closed
\* once, and its end told once.
ClosesOnce == downs <= 1

=============================================================================
