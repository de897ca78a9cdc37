----------------------------- MODULE TcpClient ------------------------------
(***************************************************************************)
(* master/net/TcpClient.cc and Connector.cc: a client that connects,       *)
(* retries after a while, and connects again when the connection is lost.  *)
(*                                                                         *)
(* The actors are the client's loop and one other thread that may call     *)
(* stop() or disconnect().  A round of the loop polls, handles the events  *)
(* that poll() returned, and runs the functors queued before (a functor    *)
(* queued by a functor waits for the next round).  The order matters:      *)
(* Connector::resetChannel() is such a functor.                            *)
(*                                                                         *)
(* connect() is called once: neither class defends against a second call   *)
(* ("FIXME: check state").  The delay between retries, which doubles up to *)
(* kMaxRetryDelayMs, is left out: a timer fires some time, but not before  *)
(* the functors that were queued when it was set.  That half a second is   *)
(* longer than a round of the loop is an assumption of the code, as it is  *)
(* for the timer that keeps the connector alive after ~TcpClient()         *)
(* ("FIXME: HACK").                                                        *)
(*                                                                         *)
(* life = "misused" ends a behaviour where the code has no defence:        *)
(* ~TcpClient() in the round of the loop in which the connector has        *)
(* connected, before resetChannel() has run, or with a stopInLoop() on its *)
(* way to the connector that goes; and a connector that connects when the  *)
(* client is gone ("FIXME: unsafe").                                       *)
(***************************************************************************)
EXTENDS Naturals, Sequences

CONSTANTS MaxLosses    \* bound on the connections lost in a behaviour

ASSUME LossesAssumption == MaxLosses \in Nat

VARIABLES
  retry_,        \* enableRetry() was called
  wanted,        \* TcpClient::connect_
  connect_,      \* Connector::connect_
  state_,        \* Connector::state_
  channel_,      \* "none", "on" (registered), "off" (removed, not yet reset)
  timers,        \* retry timers that wait
  connection_,   \* TcpClient::connection_ is set
  conn,          \* its state: "none", "up", "closing" (shut down), "down"
  closeCallback, \* of the connection: "client" or "detail"
  phase,         \* of the loop: "poll", "events", "functors"
  active,        \* the events of this round that are not handled yet
  functors, batchLeft,
  removing,      \* removeConnection() has tested retry_ && connect_, and restarts
  other,         \* the other thread: "idle", "stop1", "stop2", "done"
  started,       \* connect() was called
  gaveUp,        \* connect(2) failed with an error that is not retried
  overtaken,     \* history: stop() came between that test and restart()
  losses,        \* how many connections were lost
  life           \* "alive", "destroyed", "gone" (the connector too), "aborted", "misused"

connector == <<connect_, state_, channel_, timers, gaveUp>>
client == <<wanted, connection_, conn, closeCallback, removing>>
loop == <<phase, active, functors, batchLeft>>
clientVars == <<retry_, connector, client, loop, other, started, overtaken, losses, life>>

Sources == {"connector", "timer", "conn"}
FunctorOps == {"startInLoop", "stopInLoop", "resetChannel", "connectDestroyed",
               "forceCloseInLoop"}

ClientTypeOK ==
  /\ {retry_, wanted, connect_, connection_, removing, started, gaveUp, overtaken}
       \subseteq BOOLEAN
  /\ state_ \in {"kDisconnected", "kConnecting", "kConnected"}
  /\ channel_ \in {"none", "on", "off"}
  /\ timers \in Nat /\ losses \in 0..MaxLosses
  /\ conn \in {"none", "up", "closing", "down"}
  /\ closeCallback \in {"client", "detail"}
  /\ phase \in {"poll", "events", "functors"}
  /\ active \subseteq Sources
  /\ functors \in Seq(FunctorOps) /\ batchLeft \in 0..Len(functors)
  /\ other \in {"idle", "stop1", "stop2", "done"}
  /\ life \in {"alive", "destroyed", "gone", "aborted", "misused"}

ClientInit ==
  /\ retry_ \in BOOLEAN
  /\ wanted = TRUE /\ connect_ = FALSE
  /\ state_ = "kDisconnected" /\ channel_ = "none" /\ timers = 0
  /\ connection_ = FALSE /\ conn = "none" /\ closeCallback = "client"
  /\ phase = "poll" /\ active = {} /\ functors = <<>> /\ batchLeft = 0
  /\ removing = FALSE /\ other = "idle" /\ started = FALSE /\ gaveUp = FALSE
  /\ overtaken = FALSE /\ losses = 0 /\ life = "alive"

Running == life \notin {"aborted", "misused"}

\* A failed assert ends the behaviour.
Assert(ok) == life' = IF ok THEN life ELSE "aborted"

-----------------------------------------------------------------------------
(* Connector *)

\* startInLoop(), connect() and connecting(), with state_ = st and t retry timers:
\* connect(2) succeeds or is in progress, fails with an error that is worth a
\* retry(), or with another.
StartInLoop(st, wants, t) ==
  /\ \/ /\ ~wants
        /\ state_' = st /\ timers' = t
        /\ UNCHANGED <<channel_, gaveUp>>
     \/ /\ wants
        /\ state_' = "kConnecting" /\ channel_' = "on" /\ timers' = t
        /\ UNCHANGED gaveUp
     \/ /\ wants
        /\ state_' = "kDisconnected" /\ timers' = t + 1
        /\ UNCHANGED <<channel_, gaveUp>>
     \/ /\ wants
        /\ gaveUp' = TRUE
        /\ state_' = st /\ timers' = t
        /\ UNCHANGED channel_
  /\ Assert(st = "kDisconnected" /\ (state_' = "kConnecting" => channel_ = "none"))

\* Mutant of Retry: sets no timer.
RetryForgets == state_' = "kDisconnected" /\ UNCHANGED timers

\* retry()
Retry ==
  /\ state_' = "kDisconnected"
  /\ timers' = IF connect_ THEN timers + 1 ELSE timers

\* removeAndResetChannel()
RemoveAndResetChannel(q) ==
  /\ channel_' = "off"
  /\ functors' = Append(q, "resetChannel")

-----------------------------------------------------------------------------
(* The loop *)

\* The loop's thread is not in the middle of removeConnection().
Free == Running /\ ~removing

Queued(op) == \E i \in DOMAIN functors : functors[i] = op

Pollable ==
  {s \in Sources : \/ s = "connector" /\ channel_ = "on"
                   \/ s = "timer" /\ timers > 0 /\ ~Queued("resetChannel")
                   \/ s = "conn" /\ (conn = "closing" \/ (conn = "up" /\ losses < MaxLosses))}

Poll(ready) ==
  /\ Free /\ phase = "poll"
  /\ phase' = "events"
  /\ active' = ready
  /\ UNCHANGED <<retry_, connector, client, functors, batchLeft, other, started, overtaken,
                 losses, life>>

EndEvents ==
  /\ Free /\ phase = "events" /\ active = {}
  /\ phase' = "functors"
  /\ batchLeft' = Len(functors)
  /\ UNCHANGED <<retry_, connector, client, active, functors, other, started, overtaken,
                 losses, life>>

EndFunctors ==
  /\ Free /\ phase = "functors" /\ batchLeft = 0
  /\ phase' = "poll"
  /\ UNCHANGED <<retry_, connector, client, active, functors, batchLeft, other, started,
                 overtaken, losses, life>>

Event(src) ==
  /\ Free /\ phase = "events" /\ src \in active
  /\ active' = active \ {src}

Functor(op) ==
  /\ Free /\ phase = "functors" /\ batchLeft > 0
  /\ Head(functors) = op
  /\ batchLeft' = batchLeft - 1

\* A retry timer calls startInLoop().
TimerFires ==
  /\ Event("timer")
  /\ StartInLoop(state_, connect_, timers - 1)
  /\ UNCHANGED <<retry_, connect_, client, phase, functors, batchLeft, other, started,
                 overtaken, losses>>

\* The connector's channel: handleWrite() finds an error or a self connection, or
\* handleError() comes first, after which handleWrite() finds kDisconnected.
ConnectFails ==
  /\ Event("connector")
  /\ IF state_ = "kConnecting"
       THEN Retry /\ RemoveAndResetChannel(functors)
       ELSE UNCHANGED <<state_, timers, channel_, functors>>
  /\ Assert(state_ # "kConnected")
  /\ UNCHANGED <<retry_, connect_, gaveUp, client, phase, batchLeft, other, started,
                 overtaken, losses>>

\* handleWrite() finds the connection made; newConnection() of the client.
ConnectSucceeds ==
  /\ Event("connector")
  /\ state_ = "kConnecting"
  /\ RemoveAndResetChannel(functors)
  /\ state_' = "kConnected"
  /\ IF connect_
       THEN /\ connection_' = TRUE /\ conn' = "up" /\ closeCallback' = "client"
            /\ life' = IF life = "alive" THEN life ELSE "misused"
       ELSE UNCHANGED <<connection_, conn, closeCallback, life>>
  /\ UNCHANGED <<retry_, connect_, timers, gaveUp, wanted, removing, phase, batchLeft, other,
                 started, overtaken, losses>>

\* Mutant of Restarts: does not ask whether the user still wants a connection.
RestartsAlways == retry_

\* removeConnection()'s test
Restarts == retry_ /\ wanted

\* handleClose(), and the close callback: removeConnection() up to its test, or
\* detail::removeConnection().
CloseConn(q) ==
  /\ conn' = "down"
  /\ functors' = Append(q, "connectDestroyed")
  /\ losses' = IF losses < MaxLosses THEN losses + 1 ELSE losses
  /\ IF closeCallback = "client"
       THEN /\ connection_' = FALSE
            /\ removing' = Restarts
            /\ Assert(connection_)
       ELSE UNCHANGED <<connection_, removing, life>>

ConnectionLost ==
  /\ Event("conn")
  /\ CloseConn(functors)
  /\ UNCHANGED <<retry_, connector, wanted, closeCallback, phase, batchLeft, other, started,
                 overtaken>>

\* Connector::restart()
Restart ==
  /\ Running /\ removing
  /\ removing' = FALSE
  /\ connect_' = TRUE
  /\ StartInLoop("kDisconnected", TRUE, timers)
  /\ UNCHANGED <<retry_, wanted, connection_, conn, closeCallback, loop, other, started,
                 overtaken, losses>>

RunStart ==
  /\ Functor("startInLoop")
  /\ functors' = Tail(functors)
  /\ StartInLoop(state_, connect_, timers)
  /\ UNCHANGED <<retry_, connect_, client, phase, active, other, started, overtaken, losses>>

\* stopInLoop()
RunStop ==
  /\ Functor("stopInLoop")
  /\ IF state_ = "kConnecting"
       THEN Retry /\ RemoveAndResetChannel(Tail(functors))
       ELSE functors' = Tail(functors) /\ UNCHANGED <<state_, timers, channel_>>
  /\ UNCHANGED <<retry_, connect_, gaveUp, client, phase, active, other, started, overtaken,
                 losses, life>>

RunResetChannel ==
  /\ Functor("resetChannel")
  /\ functors' = Tail(functors)
  /\ channel_' = "none"
  /\ UNCHANGED <<retry_, connect_, state_, timers, gaveUp, client, phase, active, other,
                 started, overtaken, losses, life>>

RunConnectDestroyed ==
  /\ Functor("connectDestroyed")
  /\ functors' = Tail(functors)
  /\ conn' = IF conn = "down" THEN "none" ELSE conn
  /\ UNCHANGED <<retry_, connector, wanted, connection_, closeCallback, removing, phase,
                 active, other, started, overtaken, losses, life>>

RunForceClose ==
  /\ Functor("forceCloseInLoop")
  /\ IF conn \in {"up", "closing"}
       THEN CloseConn(Tail(functors))
       ELSE /\ functors' = Tail(functors)
            /\ UNCHANGED <<conn, connection_, removing, losses, life>>
  /\ UNCHANGED <<retry_, connector, wanted, closeCallback, phase, active, other, started,
                 overtaken>>

-----------------------------------------------------------------------------
(* The user: callbacks in the loop's thread, and the other thread *)

InCallback == Free /\ phase # "poll" /\ life = "alive"

\* connect() by a callback, or by the other thread
Connect ==
  /\ InCallback /\ ~started
  /\ started' = TRUE /\ wanted' = TRUE /\ connect_' = TRUE
  /\ StartInLoop(state_, TRUE, timers)
  /\ UNCHANGED <<retry_, connection_, conn, closeCallback, removing, loop, other, overtaken,
                 losses>>

OtherConnects ==
  /\ Running /\ life = "alive" /\ ~started
  /\ started' = TRUE /\ wanted' = TRUE /\ connect_' = TRUE
  /\ functors' = Append(functors, "startInLoop")
  /\ UNCHANGED <<retry_, state_, channel_, timers, gaveUp, connection_, conn, closeCallback,
                 removing, phase, active, batchLeft, other, overtaken, losses, life>>

CallbackForceCloses ==
  /\ InCallback /\ conn = "up" /\ losses < MaxLosses
  /\ conn' = "closing"
  /\ functors' = Append(functors, "forceCloseInLoop")
  /\ UNCHANGED <<retry_, connector, wanted, connection_, closeCallback, removing, phase,
                 active, batchLeft, other, started, overtaken, losses, life>>

\* disconnect(), under mutex_; a connection that is being made is not touched.
Disconnect ==
  /\ Running /\ life = "alive" /\ started /\ other = "idle"
  /\ wanted' = FALSE
  /\ conn' = IF connection_ /\ conn = "up" THEN "closing" ELSE conn
  /\ UNCHANGED <<retry_, connector, connection_, closeCallback, removing, loop, other,
                 started, overtaken, losses, life>>

\* stop() by the other thread, in its three steps
OtherStops1 ==
  /\ Running /\ life = "alive" /\ started /\ other = "idle"
  /\ other' = "stop1"
  /\ wanted' = FALSE
  /\ UNCHANGED <<retry_, connector, connection_, conn, closeCallback, removing, loop, started,
                 overtaken, losses, life>>

OtherStops2 ==
  /\ Running /\ other = "stop1"
  /\ other' = "stop2"
  /\ connect_' = FALSE
  /\ overtaken' = (overtaken \/ removing)
  /\ UNCHANGED <<retry_, state_, channel_, timers, gaveUp, client, loop, started, losses, life>>

\* Connector::stop() hands stopInLoop() to the loop.
QueueStop == functors' = Append(functors, "stopInLoop")

OtherStops3 ==
  /\ Running /\ other = "stop2"
  /\ other' = "done"
  /\ QueueStop
  /\ UNCHANGED <<retry_, connector, client, phase, active, batchLeft, started, overtaken,
                 losses, life>>

\* ~TcpClient() by a callback in the loop's thread, with a connection: unique says
\* that nobody else holds it.  The connector goes at once, although functors bound to
\* its bare this may wait, and its channel may not be reset yet.
DestroyConnected(unique) ==
  /\ InCallback /\ other \in {"idle", "done"}
  /\ connection_
  /\ closeCallback' = "detail"
  /\ IF unique /\ conn \in {"up", "closing"}
       THEN conn' = "closing" /\ functors' = Append(functors, "forceCloseInLoop")
       ELSE UNCHANGED <<conn, functors>>
  /\ life' = IF channel_ = "none" /\ \A i \in DOMAIN functors : functors[i] # "stopInLoop"
               THEN "gone" ELSE "misused"
  /\ UNCHANGED <<retry_, connector, wanted, connection_, removing, phase, active, batchLeft,
                 other, started, overtaken, losses>>

\* ~TcpClient() without a connection
DestroyUnconnected ==
  /\ InCallback /\ other \in {"idle", "done"}
  /\ ~connection_
  /\ connect_' = FALSE
  /\ QueueStop
  /\ life' = "destroyed"
  /\ UNCHANGED <<retry_, state_, channel_, timers, gaveUp, client, phase, active, batchLeft,
                 other, started, overtaken, losses>>

\* The timer of removeConnector(), after which only retry timers hold the connector.
ConnectorDies ==
  /\ Free /\ life = "destroyed" /\ functors = <<>> /\ timers = 0
  /\ life' = IF channel_ = "none" THEN "gone" ELSE "aborted"
  /\ UNCHANGED <<retry_, connector, client, loop, other, started, overtaken, losses>>

-----------------------------------------------------------------------------
Handlers ==
  \/ EndEvents \/ EndFunctors \/ TimerFires \/ ConnectFails \/ ConnectSucceeds
  \/ ConnectionLost \/ Restart \/ RunStart \/ RunStop \/ RunResetChannel
  \/ RunConnectDestroyed \/ RunForceClose

ClientUser ==
  \/ Connect \/ OtherConnects \/ CallbackForceCloses \/ Disconnect
  \/ OtherStops1 \/ OtherStops2 \/ OtherStops3
  \/ (\E unique \in BOOLEAN : DestroyConnected(unique)) \/ DestroyUnconnected

PollSome == \E ready \in SUBSET Pollable : Poll(ready)
PollTimer == \E ready \in SUBSET Pollable : "timer" \in ready /\ Poll(ready)

ClientNext ==
  \/ PollSome
  \/ Handlers \/ ConnectorDies \/ ClientUser

ClientSpec == ClientInit /\ [][ClientNext]_clientVars

-----------------------------------------------------------------------------
(* Properties *)

\* The asserts of startInLoop(), connecting(), handleWrite(), removeConnection() and
\* ~Connector() hold: every attempt finds the connector disconnected and the channel of
\* the attempt before it reset, also when a connection is lost right after it was made.
ClientAssertsHold == life # "aborted"

\* A client that was started and not stopped is connected, or has exactly one attempt
\* under way or waiting: none is lost in retry() or restart(), and none is doubled,
\* which would fail the asserts later.
OneAttempt ==
  LET count(b) == IF b THEN 1 ELSE 0 IN
  (started /\ life = "alive" /\ other = "idle" /\ ~gaveUp) =>
    /\ timers + count(Queued("startInLoop")) + count(state_ = "kConnecting")
         + count(state_ = "kConnected") = 1
    /\ (state_ = "kConnected" /\ retry_ /\ wanted) => connection_ \/ removing

\* After stop() the client comes to rest for good: no attempt, no retry timer, unless
\* stop() came between removeConnection()'s test of connect_ and restart(), which then
\* undoes it.
StopEnds ==
  (other = "done" /\ ~overtaken /\ Running)
    ~> [](~Running \/ (state_ # "kConnecting" /\ timers = 0))
=============================================================================
