----------------------------- MODULE TcpServer ------------------------------
(***************************************************************************)
(* master/net/TcpServer.cc, Acceptor.cc and EventLoopThreadPool.cc: a      *)
(* server that accepts connections in its base loop, hands them to its I/O *)
(* loops in turn, takes them out of its map when they close, and is        *)
(* destroyed while connections are open.                                   *)
(*                                                                         *)
(* Loop 0 is the base loop, loops 1..numThreads_ are those of the pool;    *)
(* queue[l] holds the functors of loop l, first in, first out.  What a     *)
(* connection does between its establishment and its closing is the        *)
(* subject of TcpConnection; here it may be shut down (kDisconnecting) and *)
(* closed, once: nobody calls stopRead() (see TcpConnection's ClosesOnce). *)
(* File descriptors are limited, and other threads use them too: that is   *)
(* what Acceptor's idleFd_ is for.                                         *)
(*                                                                         *)
(* serverLife = "misused" ends a behaviour where the code has no defence:  *)
(* a connection in kDisconnecting when ~TcpServer() is called, an I/O loop *)
(* that leaves loop() with functors waiting, and a removal that runs when  *)
(* the server is gone ("FIXME: unsafe").                                   *)
(***************************************************************************)
EXTENDS Naturals, Sequences, FiniteSets

CONSTANTS
  MaxThreads,    \* setThreadNum() gives up to so many
  MaxConns,      \* bound on the clients that connect
  MaxFds         \* file descriptors for idleFd_, connections and other threads

ASSUME ServerBounds == {MaxThreads, MaxConns, MaxFds} \subseteq Nat

VARIABLES
  numThreads_, started_,
  next_,          \* EventLoopThreadPool's
  clients,        \* how many have connected
  backlog,        \* the clients that wait for accept()
  idleFd_,        \* "open", "lost", inside handleRead() "closed" and "reopening"
  otherFds,       \* descriptors that other threads hold
  nextConnId_,
  connections_,   \* the server's map, by connection number
  ioLoop,         \* the loop of each connection made
  st,             \* its state_; "made" before connectEstablished(), "dead" after
                  \* connectDestroyed()
  queue,          \* the functors of each loop
  quit,           \* the I/O loops that ~EventLoopThread() told to quit
  serverLife      \* "alive", "joining", "dead", "aborted", "fatal", "misused"

tcpServerVars ==
  <<numThreads_, started_, next_, clients, backlog, idleFd_, otherFds, nextConnId_,
    connections_, ioLoop, st, queue, quit, serverLife>>

Conns == 1..MaxConns
Loops == 0..MaxThreads
Call(o, c) == [op |-> o, conn |-> c]

ServerTypeOK ==
  /\ numThreads_ \in Loops /\ started_ \in BOOLEAN /\ next_ \in 0..MaxThreads
  /\ clients \in 0..MaxConns /\ backlog \in 0..clients
  /\ idleFd_ \in {"open", "closed", "reopening", "lost"} /\ otherFds \in 0..MaxFds
  /\ nextConnId_ \in 1..(MaxConns + 1)
  /\ connections_ \subseteq Conns
  /\ ioLoop \in [Conns -> Loops]
  /\ st \in [Conns -> {"none", "made", "up", "closing", "down", "dead"}]
  /\ queue \in [Loops -> Seq([op : {"established", "destroyed", "remove"}, conn : Conns])]
  /\ quit \subseteq Loops
  /\ serverLife \in {"alive", "joining", "dead", "aborted", "fatal", "misused"}

TcpServerInit ==
  /\ numThreads_ \in Loops
  /\ started_ = FALSE /\ next_ = 0
  /\ clients = 0 /\ backlog = 0
  /\ idleFd_ = "open" /\ otherFds = 0 /\ nextConnId_ = 1
  /\ connections_ = {} /\ ioLoop = [c \in Conns |-> 0] /\ st = [c \in Conns |-> "none"]
  /\ queue = [l \in Loops |-> <<>>]
  /\ quit = {}
  /\ serverLife = "alive"

ServerRuns == serverLife \notin {"aborted", "fatal", "misused"}

server == <<numThreads_, started_>>
fds == <<idleFd_, otherFds>>
connObjects == <<connections_, ioLoop, st, queue>>

OpenFds ==
  (IF idleFd_ = "open" THEN 1 ELSE 0) + otherFds
    + Cardinality({c \in Conns : st[c] \notin {"none", "dead"}})

-----------------------------------------------------------------------------
(* The outside: clients, and threads that open and close descriptors *)

ClientConnects ==
  /\ ServerRuns /\ started_ /\ serverLife = "alive" /\ clients < MaxConns
  /\ clients' = clients + 1
  /\ backlog' = backlog + 1
  /\ UNCHANGED <<server, next_, fds, nextConnId_, connObjects, quit, serverLife>>

OtherThreadOpens ==
  /\ ServerRuns /\ OpenFds < MaxFds
  /\ otherFds' = otherFds + 1
  /\ UNCHANGED <<server, next_, clients, backlog, idleFd_, nextConnId_, connObjects,
                 quit, serverLife>>

OtherThreadCloses ==
  /\ ServerRuns /\ otherFds > 0
  /\ otherFds' = otherFds - 1
  /\ UNCHANGED <<server, next_, clients, backlog, idleFd_, nextConnId_, connObjects,
                 quit, serverLife>>

-----------------------------------------------------------------------------
(* The base loop: start(), Acceptor::handleRead(), newConnection() *)

\* start(): the pool's loops run when EventLoopThreadPool::start() returns (see
\* EventLoopThread), and the acceptor listens.
Start ==
  /\ ServerRuns /\ serverLife = "alive" /\ ~started_
  /\ started_' = TRUE
  /\ UNCHANGED <<numThreads_, next_, clients, backlog, fds, nextConnId_, connObjects,
                 quit, serverLife>>

\* getNextLoop()'s round robin
NextIndex == IF next_ + 1 >= numThreads_ THEN 0 ELSE next_ + 1

\* getNextLoop(): base loop when the pool has no thread.
NextLoop == IF numThreads_ = 0 THEN 0 ELSE next_ + 1

\* handleRead() is not inside the EMFILE branch.
Accepting == serverLife = "alive" /\ started_ /\ backlog > 0 /\ idleFd_ \in {"open", "lost"}

\* accept() gives a descriptor; newConnection(): runInLoop() establishes at once when
\* the I/O loop is the base loop.
Accept ==
  LET c == nextConnId_ IN
  /\ Accepting /\ OpenFds < MaxFds
  /\ backlog' = backlog - 1
  /\ nextConnId_' = c + 1
  /\ connections_' = connections_ \cup {c}
  /\ ioLoop' = [ioLoop EXCEPT ![c] = NextLoop]
  /\ next_' = IF numThreads_ = 0 THEN next_ ELSE NextIndex
  /\ IF NextLoop = 0
       THEN st' = [st EXCEPT ![c] = "up"] /\ UNCHANGED queue
       ELSE /\ st' = [st EXCEPT ![c] = "made"]
            /\ queue' = [queue EXCEPT ![NextLoop] = Append(@, Call("established", c))]
  /\ UNCHANGED <<server, clients, fds, quit, serverLife>>

\* accept() fails with an expected error (ECONNABORTED): the client is gone.
AcceptFails ==
  /\ Accepting
  /\ backlog' = backlog - 1
  /\ UNCHANGED <<server, next_, clients, fds, nextConnId_, connObjects, quit, serverLife>>

\* sockets::accept() logs other errors as fatal, which aborts the process.
AcceptIsFatal ==
  /\ Accepting
  /\ serverLife' = "fatal"
  /\ UNCHANGED <<server, next_, clients, backlog, fds, nextConnId_, connObjects, quit>>

\* accept() fails with EMFILE: handleRead() closes idleFd_ (a lost one is -1).
AcceptFindsNoFd ==
  /\ Accepting /\ OpenFds >= MaxFds
  /\ idleFd_' = "closed"
  /\ UNCHANGED <<server, next_, clients, backlog, otherFds, nextConnId_, connObjects,
                 quit, serverLife>>

\* Mutant of TurnedAway: leaves the client waiting.
NotTurnedAway == UNCHANGED backlog

\* accept() takes the client into the slot and close() turns it away, unless another
\* thread has taken the slot meanwhile.
TurnedAway == backlog' = IF OpenFds < MaxFds THEN backlog - 1 ELSE backlog

TurnAway ==
  /\ ServerRuns /\ idleFd_ = "closed"
  /\ TurnedAway
  /\ idleFd_' = "reopening"
  /\ UNCHANGED <<server, next_, clients, otherFds, nextConnId_, connObjects, quit,
                 serverLife>>

\* The open() at the end of the branch fails if the slot is taken.
ReopenIdleFd ==
  /\ ServerRuns /\ idleFd_ = "reopening"
  /\ idleFd_' = IF OpenFds < MaxFds THEN "open" ELSE "lost"
  /\ UNCHANGED <<server, next_, clients, backlog, otherFds, nextConnId_, connObjects,
                 quit, serverLife>>

\* The base loop's thread is neither in handleRead() nor in ~TcpServer().
BaseFree == serverLife \in {"alive", "dead"} /\ idleFd_ \notin {"closed", "reopening"}

-----------------------------------------------------------------------------
(* The loops: connections and functors *)

\* Loop l can take a step.
LoopRuns(l) == ServerRuns /\ IF l = 0 THEN BaseFree ELSE l <= numThreads_ /\ serverLife # "dead"

\* TcpConnection::shutdown() by user code
Shutdown(c) ==
  /\ ServerRuns /\ st[c] = "up"
  /\ st' = [st EXCEPT ![c] = "closing"]
  /\ UNCHANGED <<server, next_, clients, backlog, fds, nextConnId_, connections_,
                 ioLoop, queue,
                 quit, serverLife>>

\* handleClose(), and removeConnection() of the server: runInLoop() removes at once when
\* the I/O loop is the base loop.
Close(c) ==
  /\ LoopRuns(ioLoop[c]) /\ ioLoop[c] \notin quit
  /\ st[c] \in {"up", "closing"}
  /\ st' = [st EXCEPT ![c] = "down"]
  /\ IF ioLoop[c] = 0
       THEN /\ connections_' = connections_ \ {c}
            /\ queue' = [queue EXCEPT ![0] = Append(@, Call("destroyed", c))]
            /\ serverLife' = IF c \in connections_ THEN serverLife ELSE "aborted"
       ELSE /\ queue' = [queue EXCEPT ![0] = Append(@, Call("remove", c))]
            /\ UNCHANGED <<connections_, serverLife>>
  /\ UNCHANGED <<server, next_, clients, backlog, fds, nextConnId_, ioLoop, quit>>

Turn(l, op) ==
  /\ LoopRuns(l)
  /\ queue[l] # <<>> /\ Head(queue[l]).op = op

\* connectEstablished()
Established(l) ==
  LET c == Head(queue[l]).conn IN
  /\ Turn(l, "established")
  /\ st' = [st EXCEPT ![c] = "up"]
  /\ queue' = [queue EXCEPT ![l] = Tail(@)]
  /\ serverLife' = IF st[c] = "made" THEN serverLife ELSE "aborted"
  /\ UNCHANGED <<server, next_, clients, backlog, fds, nextConnId_, connections_,
                 ioLoop, quit>>

\* connectDestroyed(): one in kDisconnecting keeps its channel registered.
Destroyed(l) ==
  LET c == Head(queue[l]).conn IN
  /\ Turn(l, "destroyed")
  /\ st' = [st EXCEPT ![c] = "dead"]
  /\ queue' = [queue EXCEPT ![l] = Tail(@)]
  /\ serverLife' = CASE st[c] \in {"up", "down"} -> serverLife
               [] st[c] = "closing" -> "misused"
               [] OTHER -> "aborted"
  /\ UNCHANGED <<server, next_, clients, backlog, fds, nextConnId_, connections_,
                 ioLoop, quit>>

\* removeConnectionInLoop()
Remove ==
  LET c == Head(queue[0]).conn IN
  /\ Turn(0, "remove")
  /\ connections_' = connections_ \ {c}
  /\ queue' = [l \in Loops |-> IF l = 0 THEN Tail(queue[0])
                               ELSE IF l = ioLoop[c] THEN Append(queue[l], Call("destroyed", c))
                               ELSE queue[l]]
  /\ serverLife' = CASE serverLife # "alive" -> "misused"
               [] c \in connections_ -> serverLife
               [] OTHER -> "aborted"
  /\ UNCHANGED <<server, next_, clients, backlog, fds, nextConnId_, ioLoop, st, quit>>

-----------------------------------------------------------------------------
(* ~TcpServer(), in the base loop's thread *)

\* Mutant of Doomed: skips the connections that are not established yet.
DoomedEstablished(l) == {c \in connections_ : ioLoop[c] = l /\ st[c] # "made"}

\* The connections for which the destructor queues connectDestroyed() in loop l.
Doomed(l) == {c \in connections_ : ioLoop[c] = l}

\* The loop over the map meets each connection once.  The map is ordered by the names,
\* which matters to nothing here.
EachOnce(S) ==
  CHOOSE q \in [1..Cardinality(S) -> S] :
    /\ \A c \in S : \E i \in DOMAIN q : q[i] = c
    /\ \A i, j \in DOMAIN q : q[i] = q[j] => i = j

\* The body; in the base loop connectDestroyed() runs at once.
Destroy ==
  /\ ServerRuns /\ serverLife = "alive" /\ BaseFree
  /\ connections_' = {}
  /\ queue' = [l \in Loops |-> IF l = 0 THEN queue[0]
                 ELSE queue[l] \o [i \in 1..Cardinality(Doomed(l)) |->
                                     Call("destroyed", EachOnce(Doomed(l))[i])]]
  /\ st' = [c \in Conns |-> IF c \in Doomed(0) THEN "dead" ELSE st[c]]
  /\ serverLife' = IF \E c \in Doomed(0) : st[c] = "closing" THEN "misused" ELSE "joining"
  /\ UNCHANGED <<server, next_, clients, backlog, fds, nextConnId_, ioLoop, quit>>

\* ~EventLoopThread() of the next I/O thread, when the one before is joined; threads
\* that were never started have nothing to quit.
TellQuit(l) ==
  /\ ServerRuns /\ serverLife = "joining" /\ started_
  /\ l \in 1..numThreads_ /\ quit = 1..(l - 1)
  /\ \A k \in 1..(l - 1) : queue[k] = <<>>
  /\ quit' = quit \cup {l}
  /\ UNCHANGED <<server, next_, clients, backlog, fds, nextConnId_, connObjects,
                 serverLife>>

\* A loop told to quit may find quit_ before its last functors: they are dropped, and
\* with them the last pointers to connections that were not destroyed.
LeavesEarly(l) ==
  /\ ServerRuns /\ serverLife = "joining" /\ l \in quit /\ queue[l] # <<>>
  /\ serverLife' = "misused"
  /\ UNCHANGED <<server, next_, clients, backlog, fds, nextConnId_, connObjects, quit>>

\* The last thread is joined and the acceptor goes.
EndDestroy ==
  /\ ServerRuns /\ serverLife = "joining"
  /\ ~started_ \/ (quit = 1..numThreads_ /\ \A l \in quit : queue[l] = <<>>)
  /\ serverLife' = "dead"
  /\ UNCHANGED <<server, next_, clients, backlog, fds, nextConnId_, connObjects, quit>>

-----------------------------------------------------------------------------
IoLoop(l) == Established(l) \/ Destroyed(l)

AcceptorStep == Accept \/ AcceptFails \/ AcceptIsFatal \/ AcceptFindsNoFd

TcpServerNext ==
  \/ ClientConnects \/ OtherThreadOpens \/ OtherThreadCloses
  \/ Start \/ AcceptorStep \/ TurnAway \/ ReopenIdleFd
  \/ \E c \in Conns : Shutdown(c) \/ Close(c)
  \/ \E l \in Loops : IoLoop(l) \/ TellQuit(l) \/ LeavesEarly(l)
  \/ Remove \/ Destroy \/ EndDestroy

TcpServerSpec == TcpServerInit /\ [][TcpServerNext]_tcpServerVars

-----------------------------------------------------------------------------
(* Properties *)

\* A functor of some loop, or the map, holds the connection.
Referenced(c) ==
  \/ c \in connections_
  \/ \E l \in Loops : \E i \in DOMAIN queue[l] : queue[l][i].conn = c

\* Every connection stays referenced, by the map or by a functor on its way between two
\* loops, until connectDestroyed() has run in its I/O loop: ~TcpConnection() asserts as
\* much.  removeConnectionInLoop(), connectEstablished() and connectDestroyed() each find
\* what they assert.  This holds through ~TcpServer(), its three gaps aside.
ServerAssertsHold ==
  /\ serverLife # "aborted"
  /\ ServerRuns => \A c \in Conns : st[c] \in {"none", "dead"} \/ Referenced(c)

\* While the server is alive, a client that waits is accepted or turned away, also when the
\* process has no descriptor left, unless another thread has snatched that of idleFd_.
WaitingIsServed ==
  \A n \in 1..MaxConns :
    (serverLife = "alive" /\ backlog = n)
      ~> (serverLife # "alive" \/ backlog # n \/ idleFd_ = "lost")
=============================================================================
