----------------------------- MODULE NetProofs -----------------------------
(***************************************************************************)
(* What TLAPS proves of TcpClient, for any number of lost connections, of  *)
(* TcpServer, for any number of loops, connections and descriptors, and of *)
(* the two together.                                                       *)
(*                                                                         *)
(* TcpClient: an attempt to connect is at one place: in a queued           *)
(* startInLoop(), in a retry timer, in a channel that connects, or in a    *)
(* connection.  That no assert fails depends further on the order of the   *)
(* loop's work: the resetChannel() of an attempt runs before anything that *)
(* can close the connection which the attempt made, and so before          *)
(* restart().                                                              *)
(*                                                                         *)
(* TcpServer: a connection is passed from one holder to the next: the map, *)
(* the removal on its way to the base loop, the destruction on its way to  *)
(* the I/O loop.  The invariant says, of each kind of functor, in which    *)
(* loop it can wait, with the connection in which state, once at most, and *)
(* that connectEstablished() comes before connectDestroyed().              *)
(***************************************************************************)
EXTENDS MCNet, SequenceTheorems, FiniteSetTheorems, FunctionTheorems, TLAPS

-----------------------------------------------------------------------------
(* TcpClient *)

\* Facts about a queue q of functors: op is in it, once at most, among the first n;
\* every a comes before every b.
Has(q, op) == \E i \in DOMAIN q : q[i] = op
Once(q, op) == \A i, j \in DOMAIN q : q[i] = op /\ q[j] = op => i = j
Within(q, op, n) == \A i \in DOMAIN q : q[i] = op => i <= n
Precedes(q, a, b) == \A i, j \in DOMAIN q : q[i] = a /\ q[j] = b => i < j

\* The connection is there and has not been closed.
Linked == conn \in {"up", "closing"}

-----------------------------------------------------------------------------
\* An attempt is at one place at most, and at one exactly while it is wanted.
Attempts ==
  /\ timers <= 1
  /\ timers = 1 => state_ = "kDisconnected" /\ ~Has(functors, "startInLoop")
  /\ Has(functors, "startInLoop") => /\ state_ = "kDisconnected" /\ channel_ = "none"
                                     /\ ~Has(functors, "forceCloseInLoop")
  /\ Once(functors, "startInLoop")
  /\ started /\ life = "alive" /\ other = "idle" /\ ~gaveUp =>
       timers = 1 \/ Has(functors, "startInLoop") \/ state_ # "kDisconnected"

\* Nothing has happened before connect().
NotStarted ==
  ~started => /\ state_ = "kDisconnected" /\ channel_ = "none" /\ timers = 0
              /\ ~Has(functors, "startInLoop") /\ ~Has(functors, "forceCloseInLoop")
              /\ other = "idle"

\* The channel is registered while it connects, and what is removed is to be reset.
ChannelAgrees ==
  /\ channel_ = "on" <=> state_ = "kConnecting"
  /\ channel_ = "off" <=> Has(functors, "resetChannel")
  /\ Once(functors, "resetChannel")

\* The events of a round are still true when they are handled.
EventsAreFresh ==
  /\ phase # "events" => active = {}
  /\ phase # "functors" => batchLeft = 0
  /\ "connector" \in active => state_ = "kConnecting"
  /\ "timer" \in active => timers = 1 /\ channel_ = "none"
  /\ "conn" \in active => Linked /\ channel_ = "none"

\* The channel of the attempt that succeeded is reset by the end of the round.
ResetInTime ==
  state_ = "kConnected" =>
    /\ phase = "poll" => channel_ = "none"
    /\ phase = "functors" => Within(functors, "resetChannel", batchLeft)

\* A forceCloseInLoop() is for the connection there is, or that was there a round ago,
\* and comes after the resetChannel() of its attempt.
ClosesInTime ==
  life = "alive" =>
    /\ Once(functors, "forceCloseInLoop")
    /\ conn = "up" => ~Has(functors, "forceCloseInLoop")
    /\ removing /\ phase = "functors" => ~Has(functors, "forceCloseInLoop")
    /\ "connector" \in active => ~Has(functors, "forceCloseInLoop")
    /\ state_ = "kConnecting" =>
         /\ phase = "poll" => ~Has(functors, "forceCloseInLoop")
         /\ phase = "functors" => Within(functors, "forceCloseInLoop", batchLeft)
    /\ state_ = "kConnected" => Precedes(functors, "resetChannel", "forceCloseInLoop")

\* The client's pointer, the connection and the connector's state.
ConnectionAgrees ==
  /\ Linked => connection_
  /\ connection_ => state_ = "kConnected"
  /\ removing => /\ life = "alive" /\ phase # "poll"
                 /\ state_ = "kConnected" /\ channel_ = "none" /\ ~connection_
  /\ closeCallback = "detail" => life = "gone"

\* While the user wants a connection, the client has it or makes it again.
StillWanted ==
  /\ life = "alive" /\ started /\ wanted =>
       /\ connect_
       /\ state_ = "kConnected" /\ retry_ => connection_ \/ removing
  /\ other # "idle" => ~wanted

\* After ~TcpClient() no attempt begins, and the one under way is stopped.
AfterClient ==
  /\ life = "alive" /\ started /\ other = "idle" => connect_
  /\ life = "destroyed" => /\ ~connection_ /\ ~connect_ /\ other \in {"idle", "done"}
                           /\ channel_ = "on" => Has(functors, "stopInLoop")
  /\ life = "gone" => /\ channel_ = "none" /\ timers = 0 /\ ~Has(functors, "startInLoop")
                      /\ connection_ => closeCallback = "detail"
                      /\ other \in {"idle", "done"}

ClientInv ==
  /\ ClientTypeOK
  /\ life # "aborted"
  /\ Running => /\ Attempts /\ NotStarted /\ ChannelAgrees /\ EventsAreFresh /\ ResetInTime
                /\ ClosesInTime /\ ConnectionAgrees /\ StillWanted /\ AfterClient

-----------------------------------------------------------------------------
(* What queueing a functor, and running the first one, do to these facts *)

\* A functor that is queued comes last.
LEMMA Push ==
  ASSUME NEW Ops, NEW q \in Seq(Ops), NEW x \in Ops
  PROVE  /\ Append(q, x) \in Seq(Ops)
         /\ Len(Append(q, x)) = Len(q) + 1
         /\ \A op : Has(Append(q, x), op) <=> Has(q, op) \/ op = x
         /\ \A op : Once(q, op) /\ (op = x => ~Has(q, x)) => Once(Append(q, x), op)
         /\ \A op, n : Within(q, op, n) /\ op # x => Within(Append(q, x), op, n)
         /\ \A a, b : Precedes(q, a, b) /\ a # b /\ (a = x => ~Has(q, b))
                        => Precedes(Append(q, x), a, b)
<1> DEFINE p == Append(q, x)
<1>1. /\ p \in Seq(Ops) /\ Len(p) = Len(q) + 1 /\ Len(q) \in Nat
      /\ DOMAIN q = 1..Len(q) /\ DOMAIN p = 1..Len(p)
  BY LenProperties, AppendProperties
<1>2. p[Len(q) + 1] = x /\ \A i \in 1..Len(q) : p[i] = q[i]
  BY <1>1, AppendProperties
<1> HIDE DEF p
<1>3. \A op : Has(p, op) <=> Has(q, op) \/ op = x
  BY <1>1, <1>2 DEF Has
<1>4. \A op : Once(q, op) /\ (op = x => ~Has(q, x)) => Once(p, op)
  BY <1>1, <1>2 DEF Once, Has
<1>5. \A op, n : Within(q, op, n) /\ op # x => Within(p, op, n)
  BY <1>1, <1>2 DEF Within
<1>6. \A a, b : Precedes(q, a, b) /\ a # b /\ (a = x => ~Has(q, b)) => Precedes(p, a, b)
  BY <1>1, <1>2 DEF Precedes, Has
<1> QED
  BY <1>1, <1>3, <1>4, <1>5, <1>6 DEF p

\* The first functor leaves the queue when it runs.
LEMMA Pop ==
  ASSUME NEW Ops, NEW q \in Seq(Ops), Len(q) > 0
  PROVE  /\ Tail(q) \in Seq(Ops)
         /\ Len(Tail(q)) = Len(q) - 1
         /\ \A op : Has(q, op) <=> Has(Tail(q), op) \/ op = Head(q)
         /\ \A op : Once(q, op) => Once(Tail(q), op)
         /\ Once(q, Head(q)) => ~Has(Tail(q), Head(q))
         /\ \A op : \A n \in Nat : Within(q, op, n) => Within(Tail(q), op, n - 1)
         /\ \A a, b : Precedes(q, a, b) => Precedes(Tail(q), a, b)
         /\ \A a : Precedes(q, a, Head(q)) => ~Has(q, a)
<1> DEFINE p == Tail(q)
<1>0. q # << >>
  BY LenProperties, EmptySeq
<1>1. /\ p \in Seq(Ops) /\ Len(p) = Len(q) - 1 /\ Len(q) \in Nat
      /\ DOMAIN q = 1..Len(q) /\ DOMAIN p = 1..Len(p)
  BY <1>0, LenProperties, HeadTailProperties
<1>2. Head(q) = q[1] /\ \A i \in 1..Len(p) : i + 1 \in 1..Len(q) /\ p[i] = q[i + 1]
  BY <1>0, <1>1, HeadTailProperties
<1>3. \A i \in 2..Len(q) : i - 1 \in 1..Len(p) /\ p[i - 1] = q[i]
  BY <1>1, <1>2
<1> HIDE DEF p
<1>4. \A op : Has(q, op) <=> Has(p, op) \/ op = q[1]
  <2> TAKE op
  <2>1. Has(p, op) => Has(q, op)
    BY <1>1, <1>2 DEF Has
  <2>2. ASSUME NEW i \in 1..Len(q), q[i] = op, op # q[1]
        PROVE  Has(p, op)
    <3>1. i \in 2..Len(q)
      BY <1>1, <2>2
    <3> QED
      BY <1>1, <1>3, <2>2, <3>1 DEF Has
  <2> QED
    BY <1>1, <2>1, <2>2 DEF Has
<1>5. \A op : Once(q, op) => Once(p, op)
  <2> SUFFICES ASSUME NEW op, Once(q, op),
                      NEW i \in 1..Len(p), NEW j \in 1..Len(p), p[i] = op, p[j] = op
               PROVE  i = j
    BY <1>1 DEF Once
  <2>1. i + 1 \in DOMAIN q /\ j + 1 \in DOMAIN q /\ q[i + 1] = op /\ q[j + 1] = op
    BY <1>1, <1>2
  <2>2. i + 1 = j + 1
    BY <2>1, Zenon DEF Once
  <2> QED
    BY <2>2
<1>6. Once(q, q[1]) => ~Has(p, q[1])
  <2> SUFFICES ASSUME Once(q, q[1]), NEW i \in 1..Len(p), p[i] = q[1]
               PROVE  FALSE
    BY <1>1 DEF Has
  <2>1. 1 \in DOMAIN q /\ i + 1 \in DOMAIN q /\ q[i + 1] = q[1] /\ i + 1 # 1
    BY <1>1, <1>2
  <2> QED
    BY <2>1, Zenon DEF Once
<1>7. \A op : \A n \in Nat : Within(q, op, n) => Within(p, op, n - 1)
  <2> SUFFICES ASSUME NEW op, NEW n \in Nat, Within(q, op, n), NEW i \in 1..Len(p), p[i] = op
               PROVE  i <= n - 1
    BY <1>1 DEF Within
  <2>1. i + 1 \in DOMAIN q /\ q[i + 1] = op
    BY <1>1, <1>2
  <2>2. i + 1 <= n
    BY <2>1, Zenon DEF Within
  <2> QED
    BY <2>2
<1>8. \A a, b : Precedes(q, a, b) => Precedes(p, a, b)
  <2> SUFFICES ASSUME NEW a, NEW b, Precedes(q, a, b),
                      NEW i \in 1..Len(p), NEW j \in 1..Len(p), p[i] = a, p[j] = b
               PROVE  i < j
    BY <1>1 DEF Precedes
  <2>1. i + 1 \in DOMAIN q /\ j + 1 \in DOMAIN q /\ q[i + 1] = a /\ q[j + 1] = b
    BY <1>1, <1>2
  <2>2. i + 1 < j + 1
    BY <2>1, Zenon DEF Precedes
  <2> QED
    BY <1>1, <2>2
<1>9. \A a : Precedes(q, a, q[1]) => ~Has(q, a)
  BY <1>1 DEF Precedes, Has
<1> QED
  BY <1>1, <1>2, <1>4, <1>5, <1>6, <1>7, <1>8, <1>9 DEF p

\* What is not in the queue, and what a round that begins or ends can say.
LEMMA Bounds ==
  ASSUME NEW Ops, NEW q \in Seq(Ops)
  PROVE  /\ Len(q) \in Nat
         /\ \A op : Within(q, op, Len(q))
         /\ \A op : Within(q, op, 0) => ~Has(q, op)
         /\ \A op : ~Has(q, op) => Once(q, op)
         /\ \A op, n : ~Has(q, op) => Within(q, op, n)
         /\ \A a, b : ~Has(q, a) \/ ~Has(q, b) => Precedes(q, a, b)
<1>1. Len(q) \in Nat /\ DOMAIN q = 1..Len(q)
  BY LenProperties
<1> QED
  BY <1>1 DEF Within, Has, Once, Precedes

-----------------------------------------------------------------------------
(* The types *)

\* The Boolean variables, and the others.
Flags ==
  {retry_, wanted, connect_, connection_, removing, started, gaveUp, overtaken}
    \subseteq BOOLEAN

Places ==
  /\ state_ \in {"kDisconnected", "kConnecting", "kConnected"}
  /\ channel_ \in {"none", "on", "off"}
  /\ timers \in Nat /\ losses \in 0..MaxLosses
  /\ conn \in {"none", "up", "closing", "down"}
  /\ closeCallback \in {"client", "detail"}
  /\ phase \in {"poll", "events", "functors"}
  /\ active \subseteq Sources
  /\ functors \in Seq(FunctorOps) /\ batchLeft \in 0..Len(functors)
  /\ other \in {"idle", "stop1", "stop2", "done"}
  /\ life \in {"alive", "destroyed", "gone", "aborted", "misused"}

\* Every action leaves every flag a Boolean.
LEMMA FlagsTyped ==
  ASSUME Flags, ClientNext
  PROVE  Flags'
<1> USE DEF Flags, connector, client
<1>1. CASE PollSome \/ EndEvents \/ EndFunctors \/ ConnectorDies
  BY <1>1 DEF PollSome, Poll, EndEvents, EndFunctors, ConnectorDies
<1>2. CASE TimerFires \/ Restart \/ RunStart
  BY <1>2 DEF TimerFires, Restart, RunStart, StartInLoop
<1>3. CASE ConnectFails \/ ConnectSucceeds
  BY <1>3 DEF ConnectFails, ConnectSucceeds
<1>4. CASE ConnectionLost \/ RunForceClose
  BY <1>4 DEF ConnectionLost, RunForceClose, CloseConn, Restarts
<1>5. CASE RunStop \/ RunResetChannel \/ RunConnectDestroyed
  BY <1>5 DEF RunStop, RunResetChannel, RunConnectDestroyed
<1>6. CASE ClientUser
  <2>1. CASE Connect \/ OtherConnects
    BY <2>1 DEF Connect, OtherConnects, StartInLoop
  <2>2. CASE OtherStops2 \/ DestroyUnconnected
    BY <2>2 DEF OtherStops2, DestroyUnconnected
  <2>3. CASE \E unique \in BOOLEAN : DestroyConnected(unique)
    BY <2>3 DEF DestroyConnected
  <2>4. CASE CallbackForceCloses \/ Disconnect \/ OtherStops1 \/ OtherStops3
    BY <2>4 DEF CallbackForceCloses, Disconnect, OtherStops1, OtherStops3
  <2> QED
    BY <1>6, <2>1, <2>2, <2>3, <2>4 DEF ClientUser
<1> QED
  BY <1>1, <1>2, <1>3, <1>4, <1>5, <1>6 DEF ClientNext, Handlers

\* Every action leaves the other variables in their types; a timer that fires was set.
LEMMA PlacesTyped ==
  ASSUME Places, ClientNext, "timer" \in active => timers > 0
  PROVE  Places'
<1> USE DEF Places, Running, Free, connector, client, loop, Event, Functor,
            Assert, FunctorOps
<1>0. functors \in Seq(FunctorOps) /\ Len(functors) \in Nat /\ batchLeft \in 0..Len(functors)
  BY LenProperties
<1>1. CASE PollSome
  BY <1>0, <1>1 DEF PollSome, Poll, Pollable, Sources
<1>2. CASE EndEvents
  BY <1>0, <1>2 DEF EndEvents
<1>3. CASE EndFunctors
  BY <1>0, <1>3 DEF EndFunctors
<1>4. CASE TimerFires
  BY <1>0, <1>4 DEF TimerFires, StartInLoop
<1>5. CASE ConnectFails
  <2>1. /\ Append(functors, "resetChannel") \in Seq(FunctorOps)
        /\ Len(Append(functors, "resetChannel")) = Len(functors) + 1
    BY <1>0, Push
  <2>2. CASE state_ = "kConnecting"
    BY <1>0, <1>5, <2>1, <2>2 DEF ConnectFails, Retry, RemoveAndResetChannel
  <2>3. CASE state_ # "kConnecting"
    BY <1>0, <1>5, <2>3 DEF ConnectFails
  <2> QED
    BY <2>2, <2>3
<1>6. CASE ConnectSucceeds
  BY <1>0, <1>6, Push DEF ConnectSucceeds, RemoveAndResetChannel
<1>7. CASE ConnectionLost
  BY <1>0, <1>7, Push, LossesAssumption DEF ConnectionLost, CloseConn, Restarts
<1>8. CASE Restart
  BY <1>0, <1>8 DEF Restart, StartInLoop
<1>9. CASE RunStart
  BY <1>0, <1>9, Pop DEF RunStart, StartInLoop
<1>10. CASE RunStop
  <2>1. Tail(functors) \in Seq(FunctorOps) /\ Len(Tail(functors)) = Len(functors) - 1
    BY <1>0, <1>10, Pop DEF RunStop
  <2> QED
    BY <1>0, <1>10, <2>1, Push DEF RunStop, Retry, RemoveAndResetChannel
<1>11. CASE RunResetChannel
  BY <1>0, <1>11, Pop DEF RunResetChannel
<1>12. CASE RunConnectDestroyed
  BY <1>0, <1>12, Pop DEF RunConnectDestroyed
<1>13. CASE RunForceClose
  <2>1. Tail(functors) \in Seq(FunctorOps) /\ Len(Tail(functors)) = Len(functors) - 1
    BY <1>0, <1>13, Pop DEF RunForceClose
  <2> QED
    <3>1. functors' \in {Tail(functors), Append(Tail(functors), "connectDestroyed")}
      BY <1>13 DEF RunForceClose, CloseConn
    <3>2. functors' \in Seq(FunctorOps) /\ batchLeft' \in 0..Len(functors')
      <4>1. /\ Append(Tail(functors), "connectDestroyed") \in Seq(FunctorOps)
            /\ Len(Append(Tail(functors), "connectDestroyed")) = Len(functors)
        BY <1>0, <2>1, Push
      <4> QED
        BY <1>0, <1>13, <2>1, <3>1, <4>1 DEF RunForceClose
    <3>3. losses' \in 0..MaxLosses
      BY <1>13, LossesAssumption DEF RunForceClose, CloseConn
    <3>4. conn' \in {"none", "up", "closing", "down"} /\ life' \in {life, "aborted"}
      BY <1>13 DEF RunForceClose, CloseConn
    <3> QED
      BY <1>13, <3>2, <3>3, <3>4 DEF RunForceClose
<1>14. CASE Connect
  BY <1>0, <1>14 DEF Connect, StartInLoop, InCallback
<1>15. CASE OtherConnects
  BY <1>0, <1>15, Push DEF OtherConnects
<1>16. CASE CallbackForceCloses
  BY <1>0, <1>16, Push DEF CallbackForceCloses, InCallback
<1>17. CASE Disconnect
  BY <1>0, <1>17 DEF Disconnect
<1>18. CASE OtherStops1
  BY <1>0, <1>18 DEF OtherStops1
<1>19. CASE OtherStops2
  BY <1>0, <1>19 DEF OtherStops2
<1>20. CASE OtherStops3
  BY <1>0, <1>20, Push DEF OtherStops3, QueueStop
<1>21. CASE DestroyUnconnected
  BY <1>0, <1>21, Push DEF DestroyUnconnected, QueueStop, InCallback
<1>22. CASE ConnectorDies
  BY <1>0, <1>22 DEF ConnectorDies
<1>23. ASSUME NEW unique \in BOOLEAN, DestroyConnected(unique)
      PROVE  Places'
  <2>1. functors' \in {functors, Append(functors, "forceCloseInLoop")}
    BY <1>23 DEF DestroyConnected
  <2>2. functors' \in Seq(FunctorOps) /\ batchLeft' \in 0..Len(functors')
    BY <1>0, <1>23, <2>1, Push DEF DestroyConnected
  <2>3. conn' \in {"none", "up", "closing", "down"} /\ life' \in {"gone", "misused"}
    BY <1>23, Zenon DEF DestroyConnected
  <2> QED
    BY <1>23, <2>2, <2>3 DEF DestroyConnected
<1> QED
  BY <1>1, <1>2, <1>3, <1>4, <1>5, <1>6, <1>7, <1>8, <1>9, <1>10, <1>11, <1>12, <1>13, <1>14, <1>15, <1>16, <1>17, <1>18, <1>19, <1>20, <1>21, <1>22, <1>23 DEF ClientNext, Handlers, ClientUser

\* The types together.
LEMMA ClientTyped ==
  ASSUME ClientInv, ClientNext
  PROVE  ClientTypeOK'
<1>1. Flags /\ Places
  BY DEF ClientInv, ClientTypeOK, Flags, Places
<1>2. "timer" \in active => timers > 0
  <2>1. Running
    BY DEF ClientNext, PollSome, Poll, Handlers, EndEvents, EndFunctors, TimerFires,
           ConnectFails, ConnectSucceeds, ConnectionLost, Restart, RunStart, RunStop,
           RunResetChannel, RunConnectDestroyed, RunForceClose, Event, Functor, Free,
           ConnectorDies, ClientUser, Connect, OtherConnects, CallbackForceCloses, InCallback,
           Disconnect, OtherStops1, OtherStops2, OtherStops3, DestroyConnected,
           DestroyUnconnected
  <2> QED
    BY <2>1 DEF ClientInv, EventsAreFresh
<1> QED
  BY <1>1, <1>2, FlagsTyped, PlacesTyped DEF ClientTypeOK, Flags, Places

-----------------------------------------------------------------------------
(* The invariant, one step per action *)

\* Every action keeps an attempt at one place, and the loop's work in the order that
\* the asserts rely on.
LEMMA ClientStep ==
  ASSUME ClientInv, ClientNext
  PROVE  ClientInv'
<1> USE DEF Attempts, NotStarted, ChannelAgrees, EventsAreFresh, ResetInTime, ClosesInTime,
            ConnectionAgrees, StillWanted, AfterClient, ClientInv, Linked, Running, Free,
            connector, client, loop, Event, Functor, Sources, Assert, FunctorOps
<1>0. /\ ClientTypeOK /\ ClientTypeOK'
      /\ functors \in Seq(FunctorOps) /\ Len(functors) \in Nat /\ batchLeft \in 0..Len(functors)
  BY ClientTyped, LenProperties DEF ClientTypeOK
<1>1. CASE PollSome
  BY <1>0, <1>1, Bounds DEF PollSome, Poll, Pollable, Queued, Has, ClientTypeOK
<1>2. CASE EndEvents
  BY <1>0, <1>2, Bounds DEF EndEvents, ClientTypeOK
<1>3. CASE EndFunctors
  BY <1>0, <1>3, Bounds DEF EndFunctors, ClientTypeOK
<1>4. CASE TimerFires
  BY <1>0, <1>4, Bounds DEF TimerFires, StartInLoop, ClientTypeOK
<1>5. CASE ConnectFails
  <2>1. state_ = "kConnecting" /\ active' \subseteq active
    BY <1>5 DEF ConnectFails
  <2>2. /\ functors' = Append(functors, "resetChannel") /\ channel_' = "off"
        /\ state_' = "kDisconnected" /\ timers' = IF connect_ THEN timers + 1 ELSE timers
        /\ life' = life
    BY <1>5, <2>1 DEF ConnectFails, Retry, RemoveAndResetChannel
  <2> QED
    BY <1>0, <1>5, <2>1, <2>2, Bounds, Push DEF ConnectFails, ClientTypeOK
<1>6. CASE ConnectSucceeds
  BY <1>0, <1>6, Bounds, Push DEF ConnectSucceeds, RemoveAndResetChannel, ClientTypeOK
<1>7. CASE ConnectionLost
  BY <1>0, <1>7, Bounds, Push DEF ConnectionLost, CloseConn, Restarts, ClientTypeOK
<1>8. CASE Restart
  BY <1>0, <1>8, Bounds DEF Restart, StartInLoop, ClientTypeOK
<1>9. CASE RunStart
  <2>1. Has(functors, "startInLoop") /\ ~Has(functors', "startInLoop")
    BY <1>0, <1>9, Pop DEF RunStart
  <2>2. state_ = "kDisconnected" /\ channel_ = "none" /\ timers = 0 /\ life' = life
    BY <1>0, <1>9, <2>1 DEF RunStart, StartInLoop, ClientTypeOK
  <2>3. /\ \A op : op # "startInLoop" => (Has(functors', op) <=> Has(functors, op))
        /\ \A op : Once(functors, op) => Once(functors', op)
    BY <1>0, <1>9, Pop DEF RunStart
  <2>4. ~Has(functors', "forceCloseInLoop") /\ ~Has(functors', "resetChannel")
    BY <1>9, <2>1, <2>2, <2>3 DEF RunStart
  <2>5. \/ state_' = state_ /\ channel_' = channel_ /\ timers' = 0 /\ (~connect_ \/ gaveUp')
        \/ connect_ /\ state_' = "kConnecting" /\ channel_' = "on" /\ timers' = 0
        \/ connect_ /\ state_' = "kDisconnected" /\ channel_' = channel_ /\ timers' = 1
    BY <1>9, <2>2 DEF RunStart, StartInLoop
  <2>6. Attempts' /\ NotStarted' /\ ChannelAgrees'
    BY <1>0, <1>9, <2>1, <2>2, <2>3, <2>4, <2>5, Bounds DEF RunStart, ClientTypeOK
  <2>7. EventsAreFresh' /\ ResetInTime' /\ ClosesInTime'
    BY <1>0, <1>9, <2>2, <2>4, <2>5, Bounds DEF RunStart, ClientTypeOK
  <2>8. ConnectionAgrees' /\ StillWanted' /\ AfterClient'
    BY <1>9, <2>1, <2>2, <2>4, <2>5 DEF RunStart
  <2> QED
    BY <1>0, <2>2, <2>6, <2>7, <2>8
<1>10. CASE RunStop
  <2> DEFINE q == Tail(functors)
  <2>1. q \in Seq(FunctorOps)
    BY <1>0, <1>10, Pop DEF RunStop
  <2>2. \A op : op # "stopInLoop" =>
          /\ Has(q, op) <=> Has(functors, op)
          /\ Once(functors, op) => Once(q, op)
          /\ Within(functors, op, batchLeft) => Within(q, op, batchLeft - 1)
    BY <1>0, <1>10, Pop DEF RunStop
  <2>3. Precedes(functors, "resetChannel", "forceCloseInLoop")
          => Precedes(q, "resetChannel", "forceCloseInLoop")
    BY <1>0, <1>10, Pop DEF RunStop
  <2> HIDE DEF q
  <2>4. CASE state_ = "kConnecting"
    <3>1. /\ functors' = Append(q, "resetChannel") /\ channel_' = "off"
          /\ state_' = "kDisconnected" /\ timers' = IF connect_ THEN timers + 1 ELSE timers
      BY <1>10, <2>4 DEF RunStop, Retry, RemoveAndResetChannel, q
    <3> QED
      BY <1>0, <1>10, <2>1, <2>2, <2>4, <3>1, Bounds, Push DEF RunStop, ClientTypeOK
  <2>5. CASE state_ # "kConnecting"
    <3>1. functors' = q /\ UNCHANGED <<state_, timers, channel_>>
      BY <1>10, <2>5 DEF RunStop, q
    <3> QED
      BY <1>0, <1>10, <2>2, <2>3, <2>5, <3>1, Bounds DEF RunStop, ClientTypeOK
  <2> QED
    BY <2>4, <2>5
<1>11. CASE RunResetChannel
  BY <1>0, <1>11, Bounds, Pop DEF RunResetChannel, ClientTypeOK
<1>12. CASE RunConnectDestroyed
  BY <1>0, <1>12, Bounds, Pop DEF RunConnectDestroyed, ClientTypeOK
<1>13. CASE RunForceClose
  <2> DEFINE q == Tail(functors)
  <2>1. q \in Seq(FunctorOps)
    BY <1>0, <1>13, Pop DEF RunForceClose
  <2>2. \A op : op # "forceCloseInLoop" =>
          /\ Has(q, op) <=> Has(functors, op)
          /\ Once(functors, op) => Once(q, op)
          /\ Within(functors, op, batchLeft) => Within(q, op, batchLeft - 1)
    BY <1>0, <1>13, Pop DEF RunForceClose
  <2>3. /\ Has(functors, "forceCloseInLoop")
        /\ Once(functors, "forceCloseInLoop") => ~Has(q, "forceCloseInLoop")
        /\ Precedes(functors, "resetChannel", "forceCloseInLoop")
             => ~Has(functors, "resetChannel")
        /\ Precedes(functors, "resetChannel", "forceCloseInLoop")
             => Precedes(q, "resetChannel", "forceCloseInLoop")
    BY <1>0, <1>13, Pop DEF RunForceClose
  <2> HIDE DEF q
  <2>4. CASE Linked
    <3>1. /\ functors' = Append(q, "connectDestroyed") /\ conn' = "down"
          /\ IF closeCallback = "client"
               THEN connection_' = FALSE /\ removing' = (retry_ /\ wanted) /\ life' = life
               ELSE UNCHANGED <<connection_, removing, life>>
      BY <1>13, <2>4 DEF RunForceClose, CloseConn, Restarts, q
    <3> QED
      BY <1>0, <1>13, <2>1, <2>2, <2>3, <2>4, <3>1, Bounds, Push DEF RunForceClose, ClientTypeOK
  <2>5. CASE ~Linked
    <3>1. functors' = q /\ UNCHANGED <<conn, connection_, removing, life>>
      BY <1>13, <2>5 DEF RunForceClose, q
    <3> QED
      BY <1>0, <1>13, <2>2, <2>3, <2>5, <3>1, Bounds DEF RunForceClose, ClientTypeOK
  <2> QED
    BY <2>4, <2>5
<1>14. CASE Connect
  BY <1>0, <1>14, Bounds DEF Connect, StartInLoop, InCallback, ClientTypeOK
<1>15. CASE OtherConnects
  BY <1>0, <1>15, Bounds, Push DEF OtherConnects, ClientTypeOK
<1>16. CASE CallbackForceCloses
  BY <1>0, <1>16, Bounds, Push DEF CallbackForceCloses, InCallback, ClientTypeOK
<1>17. CASE Disconnect
  BY <1>0, <1>17, Bounds DEF Disconnect, ClientTypeOK
<1>18. CASE OtherStops1
  BY <1>0, <1>18, Bounds DEF OtherStops1, ClientTypeOK
<1>19. CASE OtherStops2
  BY <1>0, <1>19, Bounds DEF OtherStops2, ClientTypeOK
<1>20. CASE OtherStops3
  BY <1>0, <1>20, Bounds, Push DEF OtherStops3, QueueStop, ClientTypeOK
<1>21. CASE DestroyUnconnected
  <2>1. /\ \A op : Has(functors', op) <=> Has(functors, op) \/ op = "stopInLoop"
        /\ \A op : op # "stopInLoop" /\ Once(functors, op) => Once(functors', op)
        /\ \A op, n : Within(functors, op, n) /\ op # "stopInLoop" => Within(functors', op, n)
        /\ \A a, b : Precedes(functors, a, b) /\ a # b /\ a # "stopInLoop"
                        => Precedes(functors', a, b)
    BY <1>0, <1>21, Push DEF DestroyUnconnected, QueueStop, ClientTypeOK
  <2> QED
    BY <1>0, <1>21, <2>1, Bounds DEF DestroyUnconnected, InCallback, ClientTypeOK
<1>22. CASE ConnectorDies
  BY <1>0, <1>22, Bounds, ZenonT(25) DEF ConnectorDies, ClientTypeOK
<1>23. ASSUME NEW unique \in BOOLEAN, DestroyConnected(unique)
      PROVE  ClientInv'
  <2>1. life' \in {"gone", "misused"} /\ (life' = "gone" => channel_ = "none")
    BY <1>23, Zenon DEF DestroyConnected
  <2>2. \/ functors' = functors /\ conn' = conn
        \/ functors' = Append(functors, "forceCloseInLoop") /\ conn' = "closing" /\ Linked
    BY <1>23 DEF DestroyConnected
  <2>3. CASE life' = "gone"
    <3>1. connection_ /\ state_ = "kConnected" /\ channel_ = "none" /\ timers = 0
      BY <1>0, <1>23, <2>1, <2>3 DEF DestroyConnected, InCallback, ClientTypeOK
    <3>2. /\ \A op : op # "forceCloseInLoop" => (Has(functors', op) <=> Has(functors, op))
          /\ \A op : op # "forceCloseInLoop" => (Once(functors, op) => Once(functors', op))
      <4>1. CASE functors' = functors
        BY <4>1
      <4>2. CASE functors' = Append(functors, "forceCloseInLoop")
        BY <1>0, <4>2, Push
      <4> QED
        BY <2>2, <4>1, <4>2
    <3>3. ~Has(functors', "startInLoop") /\ ~Has(functors', "resetChannel")
      BY <1>23, <3>1, <3>2 DEF DestroyConnected, InCallback
    <3>4. Attempts' /\ NotStarted' /\ ChannelAgrees'
      BY <1>0, <1>23, <3>1, <3>2, <3>3 DEF DestroyConnected, InCallback
    <3>5. EventsAreFresh' /\ ResetInTime' /\ ClosesInTime'
      BY <1>0, <1>23, <2>2, <2>3, <3>1, <3>3, Bounds DEF DestroyConnected, InCallback, ClientTypeOK
    <3>6. ConnectionAgrees' /\ StillWanted' /\ AfterClient'
      BY <1>23, <2>2, <2>3, <3>1, <3>3 DEF DestroyConnected, InCallback
    <3> QED
      BY <1>0, <2>3, <3>4, <3>5, <3>6
  <2>4. CASE life' = "misused"
    BY <1>0, <2>4
  <2> QED
    BY <2>1, <2>3, <2>4
<1> QED
  BY <1>1, <1>2, <1>3, <1>4, <1>5, <1>6, <1>7, <1>8, <1>9, <1>10, <1>11, <1>12, <1>13, <1>14, <1>15, <1>16, <1>17, <1>18, <1>19, <1>20, <1>21, <1>22, <1>23 DEF ClientNext, Handlers, ClientUser

\* The initial states: nothing is queued and nothing has happened.
LEMMA ClientInitially == ClientInit => ClientInv
<1> SUFFICES ASSUME ClientInit
             PROVE  ClientInv
  OBVIOUS
<1>1. functors = << >> /\ functors \in Seq(FunctorOps) /\ Len(functors) = 0
  BY EmptySeq DEF ClientInit
<1>2. \A op : ~Has(functors, op)
  BY <1>1 DEF Has
<1>3. Flags
  BY DEF ClientInit, Flags
<1>4. /\ timers = 0 /\ batchLeft = 0 /\ losses = 0 /\ active = {}
      /\ state_ = "kDisconnected" /\ channel_ = "none" /\ conn = "none" /\ phase = "poll"
      /\ closeCallback = "client" /\ other = "idle" /\ life = "alive"
      /\ started = FALSE /\ connection_ = FALSE /\ removing = FALSE /\ connect_ = FALSE
  BY DEF ClientInit
<1>5. Places
  BY <1>1, <1>4, LossesAssumption DEF Places
<1>6. ClientTypeOK
  BY <1>3, <1>5 DEF ClientTypeOK, Flags, Places
<1>7. \A op : Once(functors, op)
  BY <1>1, <1>2, Bounds
<1>8. Attempts /\ NotStarted /\ ChannelAgrees /\ EventsAreFresh /\ ResetInTime
  BY <1>2, <1>4, <1>7 DEF Attempts, NotStarted, ChannelAgrees, EventsAreFresh, ResetInTime
<1>9. ClosesInTime /\ ConnectionAgrees /\ StillWanted /\ AfterClient
  BY <1>2, <1>4, <1>7 DEF ClosesInTime, ConnectionAgrees, StillWanted, AfterClient, Linked
<1> QED
  BY <1>4, <1>6, <1>8, <1>9 DEF ClientInv

\* A step that changes nothing the client has.
LEMMA ClientStutters ==
  ASSUME ClientInv, UNCHANGED clientVars
  PROVE  ClientInv'
  BY DEF ClientInv, ClientTypeOK, Attempts, NotStarted, ChannelAgrees, EventsAreFresh,
         ResetInTime, ClosesInTime, ConnectionAgrees, StillWanted, AfterClient, Linked,
         Running, clientVars, connector, client, loop

\* The invariant holds of the client.
THEOREM ClientInvariant == ClientSpec => []ClientInv
<1>1. ClientInv /\ [ClientNext]_clientVars => ClientInv'
  BY ClientStep, ClientStutters
<1> QED
  BY <1>1, ClientInitially, PTL DEF ClientSpec

\* A client that was started and not stopped is connected, or has exactly one attempt
\* queued, waiting in a timer or under way, however often Connector::retry() and
\* restart() hand it on, and for any number of lost connections.
THEOREM ClientOneAttempt == ClientSpec => []OneAttempt
<1>1. ClientInv => OneAttempt
  <2> SUFFICES ASSUME ClientInv, started, life = "alive", other = "idle", ~gaveUp
               PROVE  OneAttempt
    BY DEF OneAttempt
  <2>1. Attempts /\ StillWanted /\ timers \in Nat
    BY DEF ClientInv, ClientTypeOK, Running
  <2>2. Queued("startInLoop") <=> Has(functors, "startInLoop")
    BY DEF Queued, Has
  <2>3. state_ \in {"kDisconnected", "kConnecting", "kConnected"}
    BY DEF ClientInv, ClientTypeOK
  <2> QED
    BY <2>1, <2>2, <2>3 DEF Attempts, StillWanted, OneAttempt
<1> QED
  BY <1>1, ClientInvariant, PTL

\* The asserts of startInLoop(), connecting(), handleWrite(), removeConnection() and
\* ~Connector() hold in every state of the client, what is misuse aside.
THEOREM ClientAsserts == ClientSpec => []ClientAssertsHold
<1>1. ClientInv => ClientAssertsHold
  BY DEF ClientInv, ClientAssertsHold
<1> QED
  BY <1>1, ClientInvariant, PTL

-----------------------------------------------------------------------------
(* TcpServer, and both *)

CallOps == {"established", "destroyed", "remove"}
Calls == [op : CallOps, conn : Conns]

\* The functor o of connection c waits in loop l.
Waits(l, o, c) == Has(queue[l], Call(o, c))

-----------------------------------------------------------------------------
\* accept() has a number for every client, and TurnAway a client to turn away.
AcceptorAgrees ==
  /\ nextConnId_ + backlog <= clients + 1
  /\ idleFd_ = "closed" => backlog > 0
  /\ next_ = 0 \/ next_ < numThreads_

\* A number that was not given yet stands for no connection.
Unborn(c) ==
  c >= nextConnId_ => /\ st[c] = "none" /\ c \notin connections_
                      /\ \A l \in Loops, o \in CallOps : ~Waits(l, o, c)

\* What waits in loop l for connection c.
EstablishedAgrees(l, c) ==
  Waits(l, "established", c) => l = ioLoop[c] /\ l # 0 /\ st[c] = "made"

DestroyedAgrees(l, c) ==
  Waits(l, "destroyed", c) =>
    /\ l = ioLoop[c] /\ c \notin connections_ /\ st[c] \notin {"none", "dead"}
    /\ l = 0 \/ serverLife = "alive" => st[c] = "down"

RemoveAgrees(l, c) ==
  Waits(l, "remove", c) =>
    /\ l = 0 /\ ioLoop[c] # 0 /\ st[c] \in {"down", "dead"}
    /\ serverLife = "alive" => c \in connections_

\* Each functor waits once, and the two ends of a connection in their order.
Orderly(q, c) ==
  /\ \A o \in CallOps : Once(q, Call(o, c))
  /\ Precedes(q, Call("established", c), Call("destroyed", c))

InTurn(l, c) == Orderly(queue[l], c)

\* A connection that is there is held, and established before anything else.
Held(c) ==
  /\ st[c] = "made" => Waits(ioLoop[c], "established", c)
  /\ st[c] \notin {"none", "dead"} => c \in connections_ \/ Waits(ioLoop[c], "destroyed", c)
  /\ c \in connections_ => st[c] \notin {"none", "dead"} /\ serverLife = "alive"

ConnAgrees(c) ==
  /\ Unborn(c) /\ Held(c)
  /\ \A l \in Loops : /\ EstablishedAgrees(l, c) /\ DestroyedAgrees(l, c)
                      /\ RemoveAgrees(l, c) /\ InTurn(l, c)

ServerInv ==
  /\ ServerTypeOK /\ AcceptorAgrees
  /\ serverLife # "aborted"
  /\ ServerRuns => \A c \in Conns : ConnAgrees(c)

-----------------------------------------------------------------------------
(* Functors, and the queues of loops *)

\* A functor is its operation and its connection.
LEMMA CallFacts ==
  /\ \A o, p, c, d : Call(o, c) = Call(p, d) <=> o = p /\ c = d
  /\ \A o \in CallOps, c \in Conns : Call(o, c) \in Calls
  /\ \A f \in Calls : f.op \in CallOps /\ f.conn \in Conns /\ f = Call(f.op, f.conn)
<1>1. \A o, p, c, d : Call(o, c) = Call(p, d) => o = p /\ c = d
  <2> SUFFICES ASSUME NEW o, NEW p, NEW c, NEW d, Call(o, c) = Call(p, d)
               PROVE  o = p /\ c = d
    OBVIOUS
  <2>1. /\ Call(o, c).op = o /\ Call(o, c).conn = c
        /\ Call(p, d).op = p /\ Call(p, d).conn = d
    BY DEF Call
  <2> QED
    BY <2>1
<1>2. \A o \in CallOps, c \in Conns : Call(o, c) \in Calls
  BY DEF Call, Calls
<1>3. \A f \in Calls : f.op \in CallOps /\ f.conn \in Conns /\ f = Call(f.op, f.conn)
  BY DEF Call, Calls
<1> QED
  BY <1>1, <1>2, <1>3

\* A functor that is queued in its turn.
LEMMA PushCall ==
  ASSUME NEW q \in Seq(Calls), NEW o \in CallOps, NEW d \in Conns
  PROVE  /\ Append(q, Call(o, d)) \in Seq(Calls)
         /\ \A p, c : Has(Append(q, Call(o, d)), Call(p, c))
                        <=> Has(q, Call(p, c)) \/ (p = o /\ c = d)
         /\ \A c : /\ Orderly(q, c)
                   /\ c = d => /\ ~Has(q, Call(o, d))
                               /\ o = "established" => ~Has(q, Call("destroyed", d))
                   => Orderly(Append(q, Call(o, d)), c)
<1>1. Call(o, d) \in Calls /\ \A p, c : Call(p, c) = Call(o, d) <=> p = o /\ c = d
  BY CallFacts
<1> DEFINE r == Append(q, Call(o, d))
<1>2. /\ r \in Seq(Calls)
      /\ \A p, c : Has(r, Call(p, c)) <=> Has(q, Call(p, c)) \/ (p = o /\ c = d)
  BY <1>1, Push
<1>3. ASSUME NEW c, Orderly(q, c),
             c = d => /\ ~Has(q, Call(o, d))
                      /\ o = "established" => ~Has(q, Call("destroyed", d))
      PROVE  Orderly(r, c)
  <2>1. ASSUME NEW p \in CallOps
        PROVE  Once(r, Call(p, c))
    <3>1. Once(q, Call(p, c)) /\ (Call(p, c) = Call(o, d) => ~Has(q, Call(o, d)))
      BY <1>1, <1>3 DEF Orderly
    <3> QED
      BY <1>1, <3>1, Push
  <2>2. Precedes(r, Call("established", c), Call("destroyed", c))
    <3>1. Call("established", c) # Call("destroyed", c)
      BY CallFacts
    <3>2. Call("established", c) = Call(o, d) => ~Has(q, Call("destroyed", c))
      BY <1>1, <1>3
    <3>3. Precedes(q, Call("established", c), Call("destroyed", c))
      BY <1>3 DEF Orderly
    <3> QED
      BY <1>1, <3>1, <3>2, <3>3, Push
  <2> QED
    BY <2>1, <2>2 DEF Orderly
<1> QED
  BY <1>2, <1>3

\* The functor that a loop runs.
LEMMA PopCall ==
  ASSUME NEW q \in Seq(Calls), q # << >>
  PROVE  /\ Tail(q) \in Seq(Calls)
         /\ Head(q).op \in CallOps /\ Head(q).conn \in Conns
         /\ \A p, c : Has(q, Call(p, c))
                        <=> \/ Has(Tail(q), Call(p, c))
                            \/ p = Head(q).op /\ c = Head(q).conn
         /\ \A c : Orderly(q, c) => Orderly(Tail(q), c)
         /\ Orderly(q, Head(q).conn) =>
              /\ ~Has(Tail(q), Call(Head(q).op, Head(q).conn))
              /\ Head(q).op = "destroyed" => ~Has(q, Call("established", Head(q).conn))
<1>1. Len(q) > 0 /\ Head(q) \in Calls
  BY HeadTailProperties, LenProperties, EmptySeq
<1> DEFINE o == Head(q).op
           d == Head(q).conn
<1>2. o \in CallOps /\ d \in Conns /\ Head(q) = Call(o, d)
  BY <1>1, CallFacts
<1> HIDE DEF o, d
<1>3. \A p, c : Has(q, Call(p, c)) <=> Has(Tail(q), Call(p, c)) \/ (p = o /\ c = d)
  BY <1>1, <1>2, Pop, CallFacts
<1>4. \A c : Orderly(q, c) => Orderly(Tail(q), c)
  BY <1>1, Pop DEF Orderly
<1>5. ASSUME Orderly(q, d)
      PROVE  /\ ~Has(Tail(q), Call(o, d))
             /\ o = "destroyed" => ~Has(q, Call("established", d))
  <2>1. Once(q, Head(q)) /\ Precedes(q, Call("established", d), Call("destroyed", d))
    BY <1>2, <1>5 DEF Orderly
  <2> QED
    BY <1>1, <1>2, <2>1, Pop
<1> QED
  BY <1>1, <1>2, <1>3, <1>4, <1>5, Pop DEF o, d

\* The connections that the destructor meets: each of them, once.
LEMMA EachOnceFacts ==
  ASSUME NEW S \in SUBSET Conns
  PROVE  LET q == EachOnce(S) IN
         /\ Cardinality(S) \in Nat
         /\ q \in [1..Cardinality(S) -> S]
         /\ \A c \in S : \E i \in 1..Cardinality(S) : q[i] = c
         /\ \A i, j \in 1..Cardinality(S) : q[i] = q[j] => i = j
<1> DEFINE n == Cardinality(S)
           Good(q) == /\ \A c \in S : \E i \in DOMAIN q : q[i] = c
                      /\ \A i, j \in DOMAIN q : q[i] = q[j] => i = j
<1>1. IsFiniteSet(Conns)
  BY FS_Interval, ServerBounds DEF Conns
<1>2. n \in Nat /\ ExistsBijection(1..n, S)
  BY <1>1, FS_Subset, FS_CardinalityType
<1>3. PICK f \in [1..n -> S] :
        /\ \A c \in S : \E i \in 1..n : f[i] = c
        /\ \A i, j \in 1..n : f[i] = f[j] => i = j
  BY <1>2, Fun_ExistsBij, Fun_BijectionProperties
<1>4. EachOnce(S) \in [1..n -> S] /\ Good(EachOnce(S))
  <2>1. \E q \in [1..n -> S] : Good(q)
    BY <1>3
  <2> QED
    BY <2>1, Zenon DEF EachOnce
<1> QED
  BY <1>2, <1>4

\* The destructions that ~TcpServer() queues in a loop come after what waits there.
LEMMA JoinCalls ==
  ASSUME NEW q \in Seq(Calls), NEW S \in SUBSET Conns,
         \A c \in S : ~Has(q, Call("destroyed", c))
  PROVE  LET r == q \o [i \in 1..Cardinality(S) |-> Call("destroyed", EachOnce(S)[i])] IN
         /\ r \in Seq(Calls)
         /\ \A p, c : Has(r, Call(p, c)) <=> Has(q, Call(p, c)) \/ (p = "destroyed" /\ c \in S)
         /\ \A c : Orderly(q, c) => Orderly(r, c)
<1> DEFINE n == Cardinality(S)
           f == EachOnce(S)
           s == [i \in 1..n |-> Call("destroyed", f[i])]
           r == q \o s
           m == Len(q)
<1>1. /\ n \in Nat /\ \A i \in 1..n : f[i] \in S
      /\ \A c \in S : \E i \in 1..n : f[i] = c
      /\ \A i, j \in 1..n : f[i] = f[j] => i = j
  BY EachOnceFacts
<1>2. \A i \in 1..n : s[i] = Call("destroyed", f[i]) /\ s[i] \in Calls
  BY <1>1, CallFacts DEF CallOps
<1>3. s \in Seq(Calls) /\ Len(s) = n
  <2>1. s \in [1..n -> Calls]
    BY <1>2
  <2> QED
    BY <1>1, <2>1, SeqDef, LenProperties
<1> HIDE DEF s
<1>4. /\ m \in Nat /\ r \in Seq(Calls) /\ Len(r) = m + n
      /\ DOMAIN r = 1..(m + n) /\ DOMAIN q = 1..m
      /\ \A i \in 1..m : r[i] = q[i]
      /\ \A i \in 1..n : m + i \in 1..(m + n) /\ r[m + i] = Call("destroyed", f[i])
  <2>1. /\ m \in Nat /\ r \in Seq(Calls) /\ Len(r) = m + Len(s)
        /\ \A i \in 1..Len(r) : r[i] = IF i <= m THEN q[i] ELSE s[i - m]
    BY <1>3, ConcatProperties, LenProperties
  <2>2. DOMAIN r = 1..(m + n) /\ DOMAIN q = 1..m
    BY <1>3, <2>1, LenProperties
  <2> HIDE DEF r, m
  <2>3. \A i \in 1..m : i \in 1..(m + n) /\ i <= m
    BY <1>1, <2>1
  <2>4. \A i \in 1..n : m + i \in 1..(m + n) /\ ~(m + i <= m) /\ (m + i) - m = i
    BY <1>1, <2>1
  <2>5. \A i \in 1..n : r[m + i] = s[i]
    BY <1>3, <2>1, <2>4
  <2> QED
    BY <1>2, <1>3, <2>1, <2>2, <2>3, <2>4, <2>5
<1>5. ASSUME NEW i \in 1..(m + n)
      PROVE  \/ i \in 1..m /\ r[i] = q[i]
             \/ i > m /\ i - m \in 1..n /\ r[i] = Call("destroyed", f[i - m])
  <2>1. CASE i <= m
    BY <1>4, <2>1
  <2>2. CASE i > m
    <3>1. i - m \in 1..n /\ m + (i - m) = i
      BY <1>1, <1>4, <2>2
    <3>2. r[m + (i - m)] = Call("destroyed", f[i - m])
      BY <1>4, <3>1, Zenon
    <3> QED
      BY <2>2, <3>1, <3>2
  <2> QED
    BY <1>4, <2>1, <2>2
<1> HIDE DEF r, m, f
<1>6. \A p, c : Has(r, Call(p, c)) <=> Has(q, Call(p, c)) \/ (p = "destroyed" /\ c \in S)
  <2> TAKE p, c
  <2>1. ASSUME Has(r, Call(p, c))
        PROVE  Has(q, Call(p, c)) \/ (p = "destroyed" /\ c \in S)
    <3>1. PICK i \in 1..(m + n) : r[i] = Call(p, c)
      BY <1>4, <2>1 DEF Has
    <3>2. CASE i \in 1..m /\ r[i] = q[i]
      BY <1>4, <3>1, <3>2 DEF Has
    <3>3. CASE i - m \in 1..n /\ r[i] = Call("destroyed", f[i - m])
      <4>1. Call("destroyed", f[i - m]) = Call(p, c) /\ f[i - m] \in S
        BY <1>1, <3>1, <3>3
      <4> QED
        BY <4>1, CallFacts
    <3> QED
      BY <1>5, <3>2, <3>3
  <2>2. ASSUME Has(q, Call(p, c))
        PROVE  Has(r, Call(p, c))
    BY <1>1, <1>4, <2>2 DEF Has
  <2>3. ASSUME p = "destroyed", c \in S
        PROVE  Has(r, Call(p, c))
    <3>1. PICK i \in 1..n : f[i] = c
      BY <1>1, <2>3
    <3> QED
      BY <1>4, <2>3, <3>1 DEF Has
  <2> QED
    BY <2>1, <2>2, <2>3
<1>7. ASSUME NEW c, Orderly(q, c)
      PROVE  Orderly(r, c)
  <2>1. ASSUME NEW o \in CallOps, NEW i \in 1..(m + n), NEW j \in 1..(m + n),
               r[i] = Call(o, c), r[j] = Call(o, c)
        PROVE  i = j
    <3>1. CASE i \in 1..m /\ j \in 1..m
      <4>1. q[i] = Call(o, c) /\ q[j] = Call(o, c) /\ i \in DOMAIN q /\ j \in DOMAIN q
        BY <1>4, <2>1, <3>1
      <4> QED
        BY <1>7, <4>1 DEF Orderly, Once
    <3>2. CASE i > m /\ j > m
      <4>1. /\ i - m \in 1..n /\ Call("destroyed", f[i - m]) = Call(o, c)
            /\ j - m \in 1..n /\ Call("destroyed", f[j - m]) = Call(o, c)
        BY <1>4, <1>5, <2>1, <3>2
      <4>2. f[i - m] = f[j - m]
        BY <4>1, CallFacts
      <4>3. i - m = j - m
        BY <1>1, <4>1, <4>2, Zenon
      <4> QED
        BY <1>1, <1>4, <4>3
    <3>3. ASSUME NEW a \in 1..m, NEW b \in 1..n, r[a] = Call("destroyed", f[b])
          PROVE  FALSE
      <4>1. Has(q, Call("destroyed", f[b]))
        BY <1>4, <3>3 DEF Has
      <4> QED
        BY <1>1, <4>1
    <3> QED
      BY <1>1, <1>4, <1>5, <2>1, <3>1, <3>2, <3>3
  <2>2. ASSUME NEW i \in 1..(m + n), NEW j \in 1..(m + n),
               r[i] = Call("established", c), r[j] = Call("destroyed", c)
        PROVE  i < j
    <3>1. i \in 1..m /\ q[i] = Call("established", c)
      BY <1>4, <1>5, <2>2, CallFacts
    <3>2. CASE j \in 1..m
      <4>1. q[j] = Call("destroyed", c) /\ i \in DOMAIN q /\ j \in DOMAIN q
        BY <1>4, <2>2, <3>1, <3>2
      <4> QED
        BY <1>7, <3>1, <4>1 DEF Orderly, Precedes
    <3>3. CASE j > m
      BY <1>1, <1>4, <3>1, <3>3
    <3> QED
      BY <1>1, <1>4, <3>2, <3>3
  <2> QED
    BY <1>4, <2>1, <2>2 DEF Orderly, Once, Precedes
<1> QED
  BY <1>4, <1>6, <1>7 DEF r, s, f

-----------------------------------------------------------------------------
(* The types *)

States == {"none", "made", "up", "closing", "down", "dead"}

\* The acceptor's part and the connections' part of the types.
AcceptorTyped ==
  /\ numThreads_ \in Loops /\ started_ \in BOOLEAN /\ next_ \in 0..MaxThreads
  /\ clients \in 0..MaxConns /\ backlog \in 0..clients
  /\ idleFd_ \in {"open", "closed", "reopening", "lost"} /\ otherFds \in 0..MaxFds
  /\ nextConnId_ \in 1..(MaxConns + 1)

ObjectsTyped ==
  /\ connections_ \subseteq Conns
  /\ ioLoop \in [Conns -> Loops]
  /\ st \in [Conns -> States]
  /\ queue \in [Loops -> Seq(Calls)]

LifeTyped ==
  /\ quit \subseteq Loops
  /\ serverLife \in {"alive", "joining", "dead", "aborted", "fatal", "misused"}

\* The parts are the whole.
LEMMA TypeParts == ServerTypeOK <=> AcceptorTyped /\ ObjectsTyped /\ LifeTyped
  BY DEF ServerTypeOK, AcceptorTyped, ObjectsTyped, LifeTyped, States, Calls, CallOps

\* Descriptors are counted.
LEMMA FdsCounted ==
  ASSUME AcceptorTyped
  PROVE  OpenFds \in Nat /\ otherFds <= OpenFds
<1> DEFINE S == {c \in Conns : st[c] \notin {"none", "dead"}}
<1>1. IsFiniteSet(Conns)
  BY FS_Interval, ServerBounds DEF Conns
<1>2. Cardinality(S) \in Nat
  BY <1>1, FS_Subset, FS_CardinalityType
<1> QED
  BY <1>2, ServerBounds DEF OpenFds, AcceptorTyped

\* Every step leaves the acceptor's counters in their types and in agreement.
LEMMA AcceptorStays ==
  ASSUME AcceptorTyped, AcceptorAgrees, TcpServerNext
  PROVE  AcceptorTyped' /\ AcceptorAgrees'
<1> USE DEF AcceptorTyped, AcceptorAgrees, server, fds
<1>0. MaxThreads \in Nat /\ MaxConns \in Nat /\ MaxFds \in Nat
  BY ServerBounds
<1>1. CASE ClientConnects
  BY <1>0, <1>1 DEF ClientConnects
<1>9. CASE Start
  BY <1>9 DEF Start
<1>2. CASE OtherThreadOpens \/ OtherThreadCloses
  BY <1>0, <1>2, FdsCounted DEF OtherThreadOpens, OtherThreadCloses
<1>3. CASE Accept
  <2>1. /\ backlog > 0 /\ backlog' = backlog - 1 /\ nextConnId_' = nextConnId_ + 1
        /\ next_' = (IF numThreads_ = 0 THEN next_ ELSE NextIndex)
        /\ UNCHANGED <<numThreads_, started_, clients, idleFd_, otherFds>>
    BY <1>3 DEF Accept, Accepting
  <2>2. idleFd_ # "closed"
    BY <1>3 DEF Accept, Accepting
  <2> QED
    BY <1>0, <2>1, <2>2 DEF NextIndex, Loops
<1>4. CASE AcceptFails \/ AcceptIsFatal \/ AcceptFindsNoFd
  BY <1>0, <1>4 DEF AcceptFails, AcceptIsFatal, AcceptFindsNoFd, Accepting
<1>5. CASE TurnAway \/ ReopenIdleFd
  BY <1>0, <1>5 DEF TurnAway, TurnedAway, ReopenIdleFd
<1>6. CASE Remove \/ Destroy \/ EndDestroy
  BY <1>6 DEF Remove, Destroy, EndDestroy
<1>7. ASSUME NEW c \in Conns, Shutdown(c) \/ Close(c)
      PROVE  AcceptorTyped' /\ AcceptorAgrees'
  BY <1>7 DEF Shutdown, Close
<1>8. ASSUME NEW l \in Loops, IoLoop(l) \/ TellQuit(l) \/ LeavesEarly(l)
      PROVE  AcceptorTyped' /\ AcceptorAgrees'
  BY <1>8 DEF IoLoop, Established, Destroyed, TellQuit, LeavesEarly
<1> QED
  BY <1>1, <1>2, <1>3, <1>4, <1>5, <1>6, <1>7, <1>8, <1>9 DEF TcpServerNext, AcceptorStep

-----------------------------------------------------------------------------
(* The connections, one lemma per action that concerns them *)

\* The functor o of connection d is queued in loop k: what waits afterwards, and that it
\* waits in its turn unless it waited already or came too late.
Enqueued(k, o, d) ==
  /\ \A l \in Loops : \A p, c :
       Has(queue'[l], Call(p, c)) <=> Has(queue[l], Call(p, c)) \/ (l = k /\ p = o /\ c = d)
  /\ \A l \in Loops : \A c :
       /\ Orderly(queue[l], c)
       /\ l = k /\ c = d => /\ ~Has(queue[k], Call(o, d))
                            /\ o = "established" => ~Has(queue[k], Call("destroyed", d))
       => Orderly(queue'[l], c)

\* What Append does to the queues.
LEMMA QueuePush ==
  ASSUME ObjectsTyped, NEW k \in Loops, NEW o \in CallOps, NEW d \in Conns,
         queue' = [queue EXCEPT ![k] = Append(queue[k], Call(o, d))]
  PROVE  queue' \in [Loops -> Seq(Calls)] /\ Enqueued(k, o, d)
<1>1. queue \in [Loops -> Seq(Calls)] /\ queue[k] \in Seq(Calls)
  BY DEF ObjectsTyped
<1>2. queue'[k] = Append(queue[k], Call(o, d)) /\ \A l \in Loops \ {k} : queue'[l] = queue[l]
  BY <1>1
<1>3. queue' \in [Loops -> Seq(Calls)]
  BY <1>1, PushCall
<1>4. ASSUME NEW l \in Loops, l # k
      PROVE  queue'[l] = queue[l]
  BY <1>2, <1>4
<1>5. \A p, c : Has(queue'[k], Call(p, c)) <=> Has(queue[k], Call(p, c)) \/ (p = o /\ c = d)
  BY <1>1, <1>2, PushCall
<1>6. \A c : /\ Orderly(queue[k], c)
             /\ c = d => /\ ~Has(queue[k], Call(o, d))
                         /\ o = "established" => ~Has(queue[k], Call("destroyed", d))
             => Orderly(queue'[k], c)
  BY <1>1, <1>2, PushCall
<1> QED
  BY <1>3, <1>4, <1>5, <1>6 DEF Enqueued

\* Loop k runs its first functor, o of connection d.
Dequeued(k, o, d) ==
  /\ o \in CallOps /\ d \in Conns
  /\ Has(queue[k], Call(o, d)) /\ ~Has(queue'[k], Call(o, d))
  /\ o = "destroyed" => ~Has(queue[k], Call("established", d))
  /\ \A l \in Loops : \A p, c :
       Has(queue[l], Call(p, c)) <=> Has(queue'[l], Call(p, c)) \/ (l = k /\ p = o /\ c = d)
  /\ \A l \in Loops : \A c : Orderly(queue[l], c) => Orderly(queue'[l], c)

\* What Tail does to the queues.
LEMMA QueuePop ==
  ASSUME ObjectsTyped, NEW k \in Loops, queue[k] # << >>,
         queue' = [queue EXCEPT ![k] = Tail(queue[k])],
         \A c \in Conns : Orderly(queue[k], c),
         NEW o, NEW d, o = Head(queue[k]).op, d = Head(queue[k]).conn
  PROVE  queue' \in [Loops -> Seq(Calls)] /\ Dequeued(k, o, d)
<1>1. queue \in [Loops -> Seq(Calls)] /\ queue[k] \in Seq(Calls)
  BY DEF ObjectsTyped
<1>2. queue'[k] = Tail(queue[k]) /\ \A l \in Loops \ {k} : queue'[l] = queue[l]
  BY <1>1
<1>3. queue' \in [Loops -> Seq(Calls)]
  BY <1>1, PopCall
<1>4. ASSUME NEW l \in Loops, l # k
      PROVE  queue'[l] = queue[l]
  BY <1>2, <1>4
<1>5. /\ o \in CallOps /\ d \in Conns
      /\ \A p, c : Has(queue[k], Call(p, c)) <=> Has(queue'[k], Call(p, c)) \/ (p = o /\ c = d)
  BY <1>1, <1>2, PopCall
<1>6. /\ ~Has(queue'[k], Call(o, d))
      /\ o = "destroyed" => ~Has(queue[k], Call("established", d))
  BY <1>1, <1>2, <1>5, PopCall
<1>7. \A c : Orderly(queue[k], c) => Orderly(queue'[k], c)
  BY <1>1, <1>2, PopCall
<1> QED
  BY <1>3, <1>4, <1>5, <1>6, <1>7 DEF Dequeued

\* What a step that touches no connection may do.
LEMMA Untouched ==
  ASSUME UNCHANGED <<connections_, ioLoop, st, queue, nextConnId_>>,
         serverLife' = serverLife \/ "alive" \notin {serverLife, serverLife'},
         NEW c \in Conns, ConnAgrees(c)
  PROVE  ConnAgrees(c)'
  BY DEF ConnAgrees, Unborn, Held, EstablishedAgrees, DestroyedAgrees, RemoveAgrees, InTurn,
         Waits

\* The part of the invariant that the actions on connections keep.
ObjectsAgree ==
  /\ ObjectsTyped /\ LifeTyped /\ serverLife # "aborted"
  /\ ServerRuns => \A c \in Conns : ConnAgrees(c)

\* handleClose() in the connection's loop.
LEMMA CloseStays ==
  ASSUME ObjectsAgree, NEW d \in Conns, Close(d)
  PROVE  ObjectsAgree'
<1>0. ObjectsTyped /\ LifeTyped /\ ServerRuns /\ \A c \in Conns : ConnAgrees(c)
  BY DEF ObjectsAgree, Close, LoopRuns
<1>1. PICK k \in Loops, o \in {"remove", "destroyed"} :
        k = ioLoop[d] /\ (o = "remove" <=> k # 0)
  BY <1>0 DEF ObjectsTyped
<1>2. queue' = [queue EXCEPT ![0] = Append(queue[0], Call(o, d))]
  BY <1>1 DEF Close
<1>3. /\ st[d] \in {"up", "closing"} /\ st' = [st EXCEPT ![d] = "down"]
      /\ connections_' = (IF k = 0 THEN connections_ \ {d} ELSE connections_)
      /\ serverLife' = (IF k = 0 /\ d \notin connections_ THEN "aborted" ELSE serverLife)
      /\ UNCHANGED <<ioLoop, nextConnId_, quit>>
  BY <1>1 DEF Close
<1>8. serverLife' = serverLife /\ (k = 0 => d \in connections_)
  <2>1. k = 0 => d \in connections_
    BY <1>0, <1>1, <1>3 DEF ConnAgrees, Held, DestroyedAgrees
  <2> QED
    BY <1>3, <2>1
<1>4. 0 \in Loops /\ o \in CallOps
  BY ServerBounds DEF Loops, CallOps
<1>7. queue' \in [Loops -> Seq(Calls)] /\ Enqueued(0, o, d)
  BY <1>0, <1>2, <1>4, QueuePush
<1>5. ObjectsTyped' /\ LifeTyped' /\ serverLife' # "aborted"
  BY <1>0, <1>3, <1>7, <1>8 DEF ObjectsTyped, LifeTyped, States, ServerRuns
<1>6. ASSUME ServerRuns', NEW c \in Conns
      PROVE  ConnAgrees(c)'
  <2>1. ConnAgrees(c) /\ ConnAgrees(d) /\ (k = 0 => d \in connections_) /\ serverLife' = serverLife
    BY <1>0, <1>8
  <2>2. \A l \in Loops, p \in CallOps :
          Has(queue'[l], Call(p, c)) <=> Has(queue[l], Call(p, c)) \/ (l = 0 /\ p = o /\ c = d)
    BY <1>7 DEF Enqueued
  <2>3. ~Has(queue[0], Call(o, d))
    BY <1>1, <1>3, <1>4, <2>1 DEF ConnAgrees, DestroyedAgrees, RemoveAgrees, Waits
  <2>4. \A l \in Loops : Orderly(queue'[l], c)
    BY <1>1, <1>7, <2>1, <2>3 DEF Enqueued, ConnAgrees, InTurn
  <2>5. st'[c] = (IF c = d THEN "down" ELSE st[c]) /\ ioLoop[c] \in Loops
    BY <1>0, <1>3 DEF ObjectsTyped
  <2> QED
    BY <1>1, <1>3, <2>1, <2>2, <2>3, <2>4, <2>5
       DEF ConnAgrees, Unborn, Held, EstablishedAgrees, DestroyedAgrees, RemoveAgrees, CallOps,
           Waits, InTurn
<1> QED
  BY <1>5, <1>6 DEF ObjectsAgree

\* newConnection(): the connection with the next number enters the map, and is
\* established or waits for it.
LEMMA AcceptStays ==
  ASSUME ObjectsAgree, AcceptorTyped, AcceptorAgrees, Accept
  PROVE  ObjectsAgree'
<1>0. /\ ObjectsTyped /\ LifeTyped /\ serverLife = "alive" /\ serverLife' = serverLife
      /\ \A c \in Conns : ConnAgrees(c)
  BY DEF ObjectsAgree, ServerRuns, Accept, Accepting
<1>1. PICK d \in Conns : d = nextConnId_
  <2>1. nextConnId_ \in 1..MaxConns
    BY ServerBounds DEF Accept, Accepting, AcceptorTyped, AcceptorAgrees
  <2> QED
    BY <2>1 DEF Conns
<1>2. PICK k \in Loops : k = NextLoop
  BY ServerBounds DEF NextLoop, AcceptorTyped, AcceptorAgrees, Loops
<1>3. /\ connections_' = connections_ \cup {d} /\ nextConnId_' = d + 1
      /\ ioLoop' = [ioLoop EXCEPT ![d] = k]
      /\ st' = [st EXCEPT ![d] = IF k = 0 THEN "up" ELSE "made"]
      /\ UNCHANGED quit
  BY <1>1, <1>2 DEF Accept
<1>4. /\ k = 0 => queue' = queue
      /\ k # 0 => queue' = [queue EXCEPT ![k] = Append(queue[k], Call("established", d))]
  BY <1>1, <1>2 DEF Accept
<1>5. queue' \in [Loops -> Seq(Calls)] /\ (k # 0 => Enqueued(k, "established", d))
  <2>1. "established" \in CallOps
    BY DEF CallOps
  <2> QED
    BY <1>0, <1>4, <2>1, QueuePush DEF ObjectsTyped
<1>6. ObjectsTyped' /\ LifeTyped'
  BY <1>0, <1>1, <1>3, <1>5 DEF ObjectsTyped, LifeTyped, States
<1>7. ASSUME NEW c \in Conns
      PROVE  ConnAgrees(c)'
  <2>1. ConnAgrees(c) /\ ConnAgrees(d)
    BY <1>0
  <2>2. \A l \in Loops, p \in CallOps : Has(queue'[l], Call(p, c)) <=>
          Has(queue[l], Call(p, c)) \/ (k # 0 /\ l = k /\ p = "established" /\ c = d)
    BY <1>4, <1>5 DEF Enqueued
  <2>3. \A l \in Loops, p \in CallOps : ~Has(queue[l], Call(p, d))
    BY <1>1, <2>1 DEF ConnAgrees, Unborn, Waits, Conns
  <2>4. \A l \in Loops : Orderly(queue'[l], c)
    BY <1>4, <1>5, <2>1, <2>3 DEF Enqueued, ConnAgrees, InTurn, CallOps
  <2>5. /\ st'[c] = (IF c = d THEN IF k = 0 THEN "up" ELSE "made" ELSE st[c])
        /\ ioLoop'[c] = (IF c = d THEN k ELSE ioLoop[c]) /\ ioLoop[c] \in Loops
        /\ c >= nextConnId_' => c >= nextConnId_ /\ c # d
    BY <1>0, <1>1, <1>3 DEF ObjectsTyped, Conns
  <2> QED
    BY <1>0, <1>1, <1>3, <2>1, <2>2, <2>3, <2>4, <2>5
       DEF ConnAgrees, Unborn, Held, EstablishedAgrees, DestroyedAgrees, RemoveAgrees, CallOps,
           Waits, InTurn
<1> QED
  BY <1>0, <1>6, <1>7 DEF ObjectsAgree

\* TcpConnection::shutdown()
LEMMA ShutdownStays ==
  ASSUME ObjectsAgree, NEW d \in Conns, Shutdown(d)
  PROVE  ObjectsAgree'
<1>0. ObjectsTyped /\ LifeTyped /\ ServerRuns /\ \A c \in Conns : ConnAgrees(c)
  BY DEF ObjectsAgree, Shutdown
<1>1. /\ st[d] = "up" /\ st' = [st EXCEPT ![d] = "closing"]
      /\ UNCHANGED <<connections_, ioLoop, queue, nextConnId_, quit, serverLife>>
  BY DEF Shutdown
<1>2. ObjectsTyped' /\ LifeTyped'
  BY <1>0, <1>1 DEF ObjectsTyped, LifeTyped, States
<1>3. ASSUME NEW c \in Conns
      PROVE  ConnAgrees(c)'
  <2>1. ConnAgrees(c) /\ st'[c] = (IF c = d THEN "closing" ELSE st[c])
    BY <1>0, <1>1 DEF ObjectsTyped
  <2> QED
    BY <1>1, <2>1
       DEF ConnAgrees, Unborn, Held, EstablishedAgrees, DestroyedAgrees, RemoveAgrees, Waits,
           InTurn
<1> QED
  BY <1>0, <1>1, <1>2, <1>3 DEF ObjectsAgree, ServerRuns

\* connectEstablished() finds the connection in kConnecting.
LEMMA EstablishedStays ==
  ASSUME ObjectsAgree, NEW k \in Loops, Established(k)
  PROVE  ObjectsAgree'
<1>0. ObjectsTyped /\ LifeTyped /\ ServerRuns /\ \A c \in Conns : ConnAgrees(c)
  BY DEF ObjectsAgree, Established, Turn, LoopRuns
<1>1. PICK d : d = Head(queue[k]).conn
  OBVIOUS
<1>2. /\ queue[k] # << >> /\ Head(queue[k]).op = "established"
      /\ queue' = [queue EXCEPT ![k] = Tail(queue[k])]
      /\ st' = [st EXCEPT ![d] = "up"]
      /\ serverLife' = (IF st[d] = "made" THEN serverLife ELSE "aborted")
      /\ UNCHANGED <<connections_, ioLoop, nextConnId_, quit>>
  BY <1>1 DEF Established, Turn
<1>3. queue' \in [Loops -> Seq(Calls)] /\ Dequeued(k, "established", d)
  <2>1. \A c \in Conns : Orderly(queue[k], c)
    BY <1>0 DEF ConnAgrees, InTurn
  <2> QED
    BY <1>0, <1>1, <1>2, <2>1, QueuePop
<1>4. d \in Conns /\ st[d] = "made" /\ serverLife' = serverLife /\ ioLoop[d] = k
  BY <1>0, <1>2, <1>3 DEF Dequeued, ConnAgrees, EstablishedAgrees, Waits
<1>5. ObjectsTyped' /\ LifeTyped'
  BY <1>0, <1>2, <1>3, <1>4 DEF ObjectsTyped, LifeTyped, States
<1>6. ASSUME NEW c \in Conns
      PROVE  ConnAgrees(c)'
  <2>1. ConnAgrees(c) /\ ConnAgrees(d)
    BY <1>0, <1>4
  <2>2. \A l \in Loops, p \in CallOps : Has(queue[l], Call(p, c)) <=>
          Has(queue'[l], Call(p, c)) \/ (l = k /\ p = "established" /\ c = d)
    BY <1>3 DEF Dequeued
  <2>3. ~Has(queue'[k], Call("established", d)) /\ \A l \in Loops : Orderly(queue'[l], c)
    BY <1>3, <2>1 DEF Dequeued, ConnAgrees, InTurn
  <2>4. st'[c] = (IF c = d THEN "up" ELSE st[c]) /\ ioLoop[c] \in Loops
    BY <1>0, <1>2 DEF ObjectsTyped
  <2> QED
    BY <1>2, <1>4, <2>1, <2>2, <2>3, <2>4
       DEF ConnAgrees, Unborn, Held, EstablishedAgrees, DestroyedAgrees, RemoveAgrees, CallOps,
           Waits, InTurn
<1> QED
  BY <1>0, <1>4, <1>5, <1>6 DEF ObjectsAgree, ServerRuns

\* connectDestroyed() finds the connection established, and runs once.
LEMMA DestroyedStays ==
  ASSUME ObjectsAgree, NEW k \in Loops, Destroyed(k)
  PROVE  ObjectsAgree'
<1>0. ObjectsTyped /\ LifeTyped /\ ServerRuns /\ \A c \in Conns : ConnAgrees(c)
  BY DEF ObjectsAgree, Destroyed, Turn, LoopRuns
<1>1. PICK d : d = Head(queue[k]).conn
  OBVIOUS
<1>2. /\ queue[k] # << >> /\ Head(queue[k]).op = "destroyed"
      /\ queue' = [queue EXCEPT ![k] = Tail(queue[k])]
      /\ st' = [st EXCEPT ![d] = "dead"]
      /\ UNCHANGED <<connections_, ioLoop, nextConnId_, quit>>
  BY <1>1 DEF Destroyed, Turn
<1>3. queue' \in [Loops -> Seq(Calls)] /\ Dequeued(k, "destroyed", d)
  <2>1. \A c \in Conns : Orderly(queue[k], c)
    BY <1>0 DEF ConnAgrees, InTurn
  <2> QED
    BY <1>0, <1>1, <1>2, <2>1, QueuePop
<1>4. d \in Conns /\ ConnAgrees(d) /\ ioLoop[d] = k /\ d \notin connections_
  BY <1>0, <1>3 DEF Dequeued, ConnAgrees, DestroyedAgrees, Waits
<1>5. st[d] \in {"up", "closing", "down"}
  <2>1. st[d] \in States
    BY <1>0, <1>4 DEF ObjectsTyped
  <2>2. st[d] \notin {"none", "dead", "made"}
    BY <1>3, <1>4 DEF Dequeued, ConnAgrees, DestroyedAgrees, Held, Waits
  <2> QED
    BY <2>1, <2>2 DEF States
<1>6. serverLife' \in {serverLife, "misused"}
  BY <1>1, <1>5 DEF Destroyed
<1>7. ObjectsTyped' /\ LifeTyped'
  BY <1>0, <1>2, <1>3, <1>4, <1>6 DEF ObjectsTyped, LifeTyped, States
<1>8. ASSUME ServerRuns', NEW c \in Conns
      PROVE  ConnAgrees(c)'
  <2>1. ConnAgrees(c) /\ ConnAgrees(d) /\ serverLife' = serverLife
    BY <1>0, <1>4, <1>6, <1>8 DEF ServerRuns
  <2>2. \A l \in Loops, p \in CallOps : Has(queue[l], Call(p, c)) <=>
          Has(queue'[l], Call(p, c)) \/ (l = k /\ p = "destroyed" /\ c = d)
    BY <1>3 DEF Dequeued
  <2>3. ~Has(queue'[k], Call("destroyed", d)) /\ \A l \in Loops : Orderly(queue'[l], c)
    BY <1>3, <2>1 DEF Dequeued, ConnAgrees, InTurn
  <2>4. st'[c] = (IF c = d THEN "dead" ELSE st[c]) /\ ioLoop[c] \in Loops
    BY <1>0, <1>2 DEF ObjectsTyped
  <2> QED
    BY <1>2, <1>4, <1>5, <2>1, <2>2, <2>3, <2>4
       DEF ConnAgrees, Unborn, Held, EstablishedAgrees, DestroyedAgrees, RemoveAgrees, CallOps,
           Waits, InTurn
<1> QED
  BY <1>0, <1>6, <1>7, <1>8 DEF ObjectsAgree, ServerRuns

\* removeConnectionInLoop() finds the connection in the map, and hands it to its loop.
LEMMA RemoveStays ==
  ASSUME ObjectsAgree, Remove
  PROVE  ObjectsAgree'
<1>0. ObjectsTyped /\ LifeTyped /\ ServerRuns /\ \A c \in Conns : ConnAgrees(c)
  BY DEF ObjectsAgree, Remove, Turn, LoopRuns
<1>1. PICK d : d = Head(queue[0]).conn
  OBVIOUS
<1>2. /\ queue[0] # << >> /\ Head(queue[0]).op = "remove"
      /\ connections_' = connections_ \ {d}
      /\ queue' = [l \in Loops |-> IF l = 0 THEN Tail(queue[0])
                     ELSE IF l = ioLoop[d] THEN Append(queue[l], Call("destroyed", d))
                     ELSE queue[l]]
      /\ UNCHANGED <<ioLoop, nextConnId_, st, quit>>
  BY <1>1 DEF Remove, Turn
<1>3. 0 \in Loops /\ queue \in [Loops -> Seq(Calls)] /\ queue[0] \in Seq(Calls)
  BY <1>0, ServerBounds DEF Loops, ObjectsTyped
<1>4. /\ d \in Conns /\ Has(queue[0], Call("remove", d))
      /\ Tail(queue[0]) \in Seq(Calls)
      /\ \A p, c : Has(queue[0], Call(p, c))
                     <=> Has(Tail(queue[0]), Call(p, c)) \/ (p = "remove" /\ c = d)
      /\ \A c : Orderly(queue[0], c) => Orderly(Tail(queue[0]), c)
  BY <1>1, <1>2, <1>3, PopCall
<1>5. ConnAgrees(d) /\ ~Has(Tail(queue[0]), Call("remove", d))
  <2>1. ConnAgrees(d) /\ Orderly(queue[0], d)
    BY <1>0, <1>3, <1>4 DEF ConnAgrees, InTurn
  <2> QED
    BY <1>1, <1>2, <1>3, <2>1, PopCall
<1>6. PICK k \in Loops : k = ioLoop[d] /\ k # 0
  BY <1>0, <1>3, <1>4, <1>5 DEF ConnAgrees, RemoveAgrees, Waits, ObjectsTyped
<1>7. /\ Append(queue[k], Call("destroyed", d)) \in Seq(Calls)
      /\ \A p, c : Has(Append(queue[k], Call("destroyed", d)), Call(p, c))
                     <=> Has(queue[k], Call(p, c)) \/ (p = "destroyed" /\ c = d)
      /\ \A c : Orderly(queue[k], c) /\ (c = d => ~Has(queue[k], Call("destroyed", d)))
                  => Orderly(Append(queue[k], Call("destroyed", d)), c)
  <2>1. queue[k] \in Seq(Calls) /\ "destroyed" \in CallOps /\ "destroyed" # "established"
    BY <1>3 DEF CallOps
  <2> QED
    BY <1>4, <2>1, PushCall
<1>8. /\ queue' \in [Loops -> Seq(Calls)]
      /\ queue'[0] = Tail(queue[0]) /\ queue'[k] = Append(queue[k], Call("destroyed", d))
      /\ \A l \in Loops \ {0, k} : queue'[l] = queue[l]
  BY <1>2, <1>3, <1>4, <1>6, <1>7
<1>9. serverLife' \in {serverLife, "misused"} /\ (serverLife' # "misused" => serverLife = "alive")
  <2>1. serverLife = "alive" => d \in connections_
    BY <1>3, <1>4, <1>5 DEF ConnAgrees, RemoveAgrees, Waits
  <2>2. serverLife' = CASE serverLife # "alive" -> "misused"
                        [] d \in connections_ -> serverLife
                        [] OTHER -> "aborted"
    BY <1>1 DEF Remove
  <2>3. CASE serverLife = "alive"
    BY <2>1, <2>2, <2>3
  <2>4. CASE serverLife # "alive"
    <3>1. serverLife' = "misused" \/ (d \in connections_ /\ serverLife' = serverLife)
      BY <2>2, <2>4
    <3>2. d \notin connections_
      BY <1>5, <2>4 DEF ConnAgrees, Held
    <3> QED
      BY <3>1, <3>2
  <2> QED
    BY <2>3, <2>4
<1>10. ObjectsTyped' /\ LifeTyped'
  BY <1>0, <1>2, <1>8, <1>9 DEF ObjectsTyped, LifeTyped
<1>11. ASSUME ServerRuns', NEW c \in Conns
       PROVE  ConnAgrees(c)'
  <2>1. /\ ConnAgrees(c) /\ serverLife = "alive" /\ serverLife' = "alive"
        /\ d \in connections_ /\ st[d] = "down"
    BY <1>0, <1>3, <1>4, <1>5, <1>9, <1>11
       DEF ServerRuns, ConnAgrees, RemoveAgrees, Held, Waits
  <2>2. \A l \in Loops : ~Has(queue[l], Call("destroyed", d))
    BY <1>5, <2>1 DEF ConnAgrees, DestroyedAgrees, Waits
  <2>3. ASSUME NEW l \in Loops, NEW p \in CallOps
        PROVE  Has(queue'[l], Call(p, c)) <=>
                 \/ Has(queue[l], Call(p, c)) /\ ~(l = 0 /\ p = "remove" /\ c = d)
                 \/ l = k /\ p = "destroyed" /\ c = d
    <3>1. CASE l = 0
      BY <1>4, <1>5, <1>6, <1>8, <3>1
    <3>2. CASE l = k
      BY <1>6, <1>7, <1>8, <3>2
    <3>3. CASE l \notin {0, k}
      BY <1>8, <3>3
    <3> QED
      BY <3>1, <3>2, <3>3
  <2>4. ASSUME NEW l \in Loops
        PROVE  Orderly(queue'[l], c)
    <3>1. Orderly(queue[l], c)
      BY <2>1 DEF ConnAgrees, InTurn
    <3>2. CASE l = 0
      BY <1>4, <1>8, <3>1, <3>2
    <3>3. CASE l = k
      BY <1>7, <1>8, <2>2, <3>1, <3>3
    <3>4. CASE l \notin {0, k}
      BY <1>8, <3>1, <3>4
    <3> QED
      BY <3>2, <3>3, <3>4
  <2>5. ioLoop[c] \in Loops
    BY <1>0 DEF ObjectsTyped
  <2> QED
    BY <1>2, <1>3, <1>6, <2>1, <2>2, <2>3, <2>4, <2>5
       DEF ConnAgrees, Unborn, Held, EstablishedAgrees, DestroyedAgrees, RemoveAgrees, CallOps,
           Waits, InTurn
<1> QED
  BY <1>0, <1>9, <1>10, <1>11 DEF ObjectsAgree, ServerRuns

\* ~TcpServer(): connectDestroyed() for every connection of the map, at once in the base
\* loop and queued in the others.
LEMMA DestroyStays ==
  ASSUME ObjectsAgree, Destroy
  PROVE  ObjectsAgree'
<1>0. /\ ObjectsTyped /\ LifeTyped /\ serverLife = "alive" /\ \A c \in Conns : ConnAgrees(c)
      /\ connections_ \subseteq Conns /\ 0 \in Loops
  BY ServerBounds DEF ObjectsAgree, ServerRuns, Destroy, ObjectsTyped, Loops
<1>1. /\ connections_' = {} /\ serverLife' \in {"misused", "joining"}
      /\ st' = [c \in Conns |-> IF c \in Doomed(0) THEN "dead" ELSE st[c]]
      /\ UNCHANGED <<ioLoop, nextConnId_, quit>>
  BY DEF Destroy
<1>2. \A l \in Loops : Doomed(l) \in SUBSET Conns
  BY <1>0 DEF Doomed
<1>3. \A c \in connections_ : \A l \in Loops : ~Has(queue[l], Call("destroyed", c))
  BY <1>0 DEF ConnAgrees, DestroyedAgrees, Waits
<1>4. ASSUME NEW l \in Loops
      PROVE  /\ queue'[l] \in Seq(Calls)
             /\ \A p, c : Has(queue'[l], Call(p, c)) <=>
                  \/ Has(queue[l], Call(p, c))
                  \/ l # 0 /\ p = "destroyed" /\ c \in Doomed(l)
             /\ \A c : Orderly(queue[l], c) => Orderly(queue'[l], c)
  <2>1. queue[l] \in Seq(Calls)
    BY <1>0 DEF ObjectsTyped
  <2>2. CASE l = 0
    <3>1. queue'[l] = queue[l]
      BY <1>0, <2>2 DEF Destroy
    <3> QED
      BY <2>1, <2>2, <3>1
  <2>3. CASE l # 0
    <3> DEFINE S == Doomed(l)
    <3>1. queue'[l] = queue[l] \o [i \in 1..Cardinality(S) |-> Call("destroyed", EachOnce(S)[i])]
      BY <2>3 DEF Destroy
    <3>2. S \in SUBSET Conns /\ \A c \in S : ~Has(queue[l], Call("destroyed", c))
      BY <1>2, <1>3 DEF Doomed
    <3> HIDE DEF S
    <3>3. /\ queue'[l] \in Seq(Calls)
          /\ \A p, c : Has(queue'[l], Call(p, c)) <=>
               Has(queue[l], Call(p, c)) \/ (p = "destroyed" /\ c \in S)
          /\ \A c : Orderly(queue[l], c) => Orderly(queue'[l], c)
      BY <2>1, <3>1, <3>2, JoinCalls
    <3> QED
      BY <2>3, <3>3 DEF S
  <2> QED
    BY <2>2, <2>3
<1>5. queue' \in [Loops -> Seq(Calls)]
  <2>1. \E Q \in [Loops -> Seq(Calls)] : queue' = Q
    <3> DEFINE Q == [l \in Loops |-> queue'[l]]
    <3>1. queue' = Q
      BY DEF Destroy
    <3>2. Q \in [Loops -> Seq(Calls)]
      BY <1>4
    <3> QED
      BY <3>1, <3>2
  <2> QED
    BY <2>1
<1>6. ObjectsTyped' /\ LifeTyped'
  BY <1>0, <1>1, <1>5 DEF ObjectsTyped, LifeTyped, States
<1>7. ASSUME NEW c \in Conns, serverLife' = "joining"
      PROVE  ConnAgrees(c)'
  <2>1. ConnAgrees(c) /\ ioLoop[c] \in Loops
    BY <1>0 DEF ObjectsTyped
  <2>2. \A l \in Loops, p \in CallOps : Has(queue'[l], Call(p, c)) <=>
          \/ Has(queue[l], Call(p, c))
          \/ l # 0 /\ p = "destroyed" /\ c \in connections_ /\ ioLoop[c] = l
    BY <1>4 DEF Doomed
  <2>3. \A l \in Loops : Orderly(queue'[l], c)
    BY <1>4, <2>1 DEF ConnAgrees, InTurn
  <2>4. st'[c] = (IF c \in connections_ /\ ioLoop[c] = 0 THEN "dead" ELSE st[c])
    BY <1>1 DEF Doomed
  <2> QED
    BY <1>0, <1>1, <1>7, <2>1, <2>2, <2>3, <2>4
       DEF ConnAgrees, Unborn, Held, EstablishedAgrees, DestroyedAgrees, RemoveAgrees, CallOps,
           Waits, InTurn
<1> QED
  BY <1>1, <1>6, <1>7 DEF ObjectsAgree, ServerRuns

-----------------------------------------------------------------------------
(* The theorems *)

\* The two halves of the invariant.
LEMMA ServerParts == ServerInv <=> AcceptorTyped /\ AcceptorAgrees /\ ObjectsAgree
  BY TypeParts DEF ServerInv, ObjectsAgree

\* A step that changes nothing the server has.
LEMMA ServerStutters ==
  ASSUME ServerInv, UNCHANGED tcpServerVars
  PROVE  ServerInv'
<1>1. /\ UNCHANGED <<numThreads_, started_, next_, clients, backlog, idleFd_, otherFds>>
      /\ UNCHANGED <<connections_, ioLoop, st, queue, nextConnId_, quit, serverLife>>
  BY DEF tcpServerVars
<1>2. AcceptorAgrees' /\ ServerTypeOK'
  BY <1>1 DEF ServerInv, AcceptorAgrees, ServerTypeOK
<1>3. ASSUME ServerRuns, NEW c \in Conns
      PROVE  ConnAgrees(c)'
  BY <1>1, <1>3, Untouched DEF ServerInv
<1> QED
  BY <1>1, <1>2, <1>3 DEF ServerInv, ServerRuns

\* Every step of the server keeps the invariant.
LEMMA ServerStep ==
  ASSUME ServerInv, TcpServerNext
  PROVE  ServerInv'
<1>0. AcceptorTyped /\ AcceptorAgrees /\ ObjectsAgree
  BY ServerParts
<1>1. ASSUME UNCHANGED <<connections_, ioLoop, st, queue, nextConnId_>>, LifeTyped',
             serverLife' = serverLife \/ "alive" \notin {serverLife, serverLife'},
             serverLife' # "aborted", ServerRuns' => ServerRuns
      PROVE  ObjectsAgree'
  <2>1. ObjectsTyped'
    BY <1>0, <1>1 DEF ObjectsAgree, ObjectsTyped
  <2>2. ASSUME ServerRuns', NEW c \in Conns
        PROVE  ConnAgrees(c)'
    BY <1>0, <1>1, <2>2, Untouched DEF ObjectsAgree
  <2> QED
    BY <1>1, <2>1, <2>2 DEF ObjectsAgree
<1>2. ASSUME \/ ClientConnects \/ OtherThreadOpens \/ OtherThreadCloses \/ Start \/ AcceptFails
             \/ AcceptFindsNoFd \/ TurnAway \/ ReopenIdleFd
      PROVE  ObjectsAgree'
  <2>1. UNCHANGED <<connections_, ioLoop, st, queue, nextConnId_, quit, serverLife>>
    BY <1>2 DEF ClientConnects, OtherThreadOpens, OtherThreadCloses, Start, AcceptFails,
                AcceptFindsNoFd, TurnAway, ReopenIdleFd, connObjects
  <2>2. LifeTyped' /\ serverLife' # "aborted" /\ (ServerRuns' => ServerRuns)
    BY <1>0, <2>1 DEF ObjectsAgree, LifeTyped, ServerRuns
  <2> QED
    BY <1>1, <2>1, <2>2
<1>3. ASSUME AcceptIsFatal
      PROVE  ObjectsAgree'
  <2>1. UNCHANGED <<connections_, ioLoop, st, queue, nextConnId_, quit>> /\ serverLife' = "fatal"
    BY <1>3 DEF AcceptIsFatal, connObjects
  <2>2. ObjectsTyped' /\ LifeTyped'
    BY <1>0, <2>1 DEF ObjectsAgree, ObjectsTyped, LifeTyped
  <2> QED
    BY <2>1, <2>2 DEF ObjectsAgree, ServerRuns
<1>4. ASSUME NEW l \in Loops, TellQuit(l)
      PROVE  ObjectsAgree'
  <2>1. UNCHANGED <<connections_, ioLoop, st, queue, nextConnId_, serverLife>>
    BY <1>4 DEF TellQuit, connObjects
  <2>2. quit' = quit \cup {l}
    BY <1>4 DEF TellQuit
  <2> QED
    BY <1>0, <1>1, <2>1, <2>2 DEF ObjectsAgree, LifeTyped, ServerRuns
<1>5. ASSUME NEW l \in Loops, LeavesEarly(l)
      PROVE  ObjectsAgree'
  <2>1. /\ UNCHANGED <<connections_, ioLoop, st, queue, nextConnId_, quit>>
        /\ serverLife' = "misused"
    BY <1>5 DEF LeavesEarly, connObjects
  <2> QED
    BY <1>0, <2>1 DEF ObjectsAgree, ObjectsTyped, LifeTyped, ServerRuns
<1>6. ASSUME EndDestroy
      PROVE  ObjectsAgree'
  <2>1. /\ UNCHANGED <<connections_, ioLoop, st, queue, nextConnId_, quit>>
        /\ serverLife = "joining" /\ serverLife' = "dead"
    BY <1>6 DEF EndDestroy, connObjects
  <2>2. LifeTyped' /\ ServerRuns
    BY <1>0, <2>1 DEF ObjectsAgree, LifeTyped, ServerRuns
  <2> QED
    BY <1>1, <2>1, <2>2
<1>7. ObjectsAgree'
  <2>1. CASE Accept \/ Remove \/ Destroy
    BY <1>0, <2>1, AcceptStays, RemoveStays, DestroyStays
  <2>2. ASSUME NEW c \in Conns, Shutdown(c) \/ Close(c)
        PROVE  ObjectsAgree'
    BY <1>0, <2>2, ShutdownStays, CloseStays
  <2>3. ASSUME NEW l \in Loops, Established(l) \/ Destroyed(l)
        PROVE  ObjectsAgree'
    BY <1>0, <2>3, EstablishedStays, DestroyedStays
  <2> QED
    BY <1>2, <1>3, <1>4, <1>5, <1>6, <2>1, <2>2, <2>3 DEF TcpServerNext, AcceptorStep, IoLoop
<1>8. ServerTypeOK'
  BY <1>0, <1>7, AcceptorStays
     DEF ServerTypeOK, AcceptorTyped, ObjectsTyped, LifeTyped, ObjectsAgree, States, Calls,
         CallOps
<1> QED
  BY <1>0, <1>7, <1>8, AcceptorStays DEF ServerInv, ObjectsAgree

\* The server begins with no connection and nothing queued.
LEMMA ServerInitially == TcpServerInit => ServerInv
<1> SUFFICES ASSUME TcpServerInit
             PROVE  ServerInv
  OBVIOUS
<1>0. MaxThreads \in Nat /\ MaxConns \in Nat /\ MaxFds \in Nat
  BY ServerBounds
<1>1. AcceptorTyped /\ AcceptorAgrees
  BY <1>0 DEF TcpServerInit, AcceptorTyped, AcceptorAgrees, Loops
<1>2. /\ connections_ = {} /\ serverLife = "alive" /\ quit = {} /\ nextConnId_ = 1
      /\ ioLoop = [c \in Conns |-> 0] /\ st = [c \in Conns |-> "none"]
      /\ queue = [l \in Loops |-> <<>>]
  BY DEF TcpServerInit
<1>3. \A l \in Loops : queue[l] = <<>> /\ queue[l] \in Seq(Calls)
  BY <1>2, EmptySeq
<1>4. ObjectsTyped /\ LifeTyped
  <2>1. ioLoop \in [Conns -> Loops]
    BY <1>0, <1>2 DEF Loops
  <2>2. st \in [Conns -> States] /\ queue \in [Loops -> Seq(Calls)]
    BY <1>2, EmptySeq DEF States
  <2> QED
    BY <1>2, <2>1, <2>2 DEF ObjectsTyped, LifeTyped
<1>5. \A l \in Loops : \A f : ~Has(queue[l], f)
  BY <1>3 DEF Has
<1>6. \A l \in Loops : \A c : Orderly(queue[l], c)
  BY <1>3, <1>5, Bounds DEF Orderly
<1>7. ASSUME NEW c \in Conns
      PROVE  ConnAgrees(c)
  BY <1>2, <1>5, <1>6, <1>7
     DEF ConnAgrees, Unborn, Held, EstablishedAgrees, DestroyedAgrees, RemoveAgrees, Waits,
         InTurn
<1> QED
  BY <1>1, <1>2, <1>4, <1>7, ServerParts DEF ObjectsAgree

\* What the invariant says of the asserts.
LEMMA ServerInvAsserts == ServerInv => ServerAssertsHold
<1> SUFFICES ASSUME ServerInv
             PROVE  ServerAssertsHold
  OBVIOUS
<1>1. ASSUME ServerRuns, NEW c \in Conns, st[c] \notin {"none", "dead"}
      PROVE  Referenced(c)
  <2>1. ConnAgrees(c) /\ ioLoop[c] \in Loops
    BY <1>1 DEF ServerInv, ServerTypeOK
  <2>2. CASE c \in connections_
    BY <2>2 DEF Referenced
  <2>3. CASE Has(queue[ioLoop[c]], Call("destroyed", c))
    <3>1. PICK i \in DOMAIN queue[ioLoop[c]] : queue[ioLoop[c]][i] = Call("destroyed", c)
      BY <2>3 DEF Has
    <3>2. queue[ioLoop[c]][i].conn = c
      BY <3>1 DEF Call
    <3> QED
      BY <2>1, <3>2 DEF Referenced
  <2> QED
    BY <1>1, <2>1, <2>2, <2>3 DEF ConnAgrees, Held, Waits
<1> QED
  BY <1>1 DEF ServerAssertsHold, ServerInv

\* For any numbers of loops, connections and descriptors: a connection is referenced, by
\* the map or by a functor between two loops, until connectDestroyed() has run in its loop,
\* and removeConnectionInLoop(), connectEstablished() and connectDestroyed() each find
\* what they assert, through ~TcpServer() too, its three gaps aside.
THEOREM ServerAsserts == TcpServerSpec => []ServerAssertsHold
<1>1. ServerInv /\ [TcpServerNext]_tcpServerVars => ServerInv'
  BY ServerStep, ServerStutters
<1> QED
  BY <1>1, ServerInitially, ServerInvAsserts, PTL DEF TcpServerSpec

\* The server and the client, as the run has them: no assert of TcpServer, Acceptor,
\* TcpClient and Connector fails, outside of what ends as misused.
THEOREM NetAsserts == Spec => []NetAssertsHold
<1> DEFINE NetInv == ServerInv /\ ClientInv
<1>1. Init => NetInv
  BY ServerInitially, ClientInitially DEF Init
<1>2. NetInv /\ [Next]_vars => NetInv'
  <2> SUFFICES ASSUME NetInv, [Next]_vars
               PROVE  NetInv'
    OBVIOUS
  <2>1. CASE TcpServerNext /\ UNCHANGED clientVars
    BY <2>1, ServerStep, ClientStutters
  <2>2. CASE ClientNext /\ UNCHANGED tcpServerVars
    BY <2>2, ClientStep, ServerStutters
  <2>3. CASE UNCHANGED vars
    BY <2>3, ClientStutters, ServerStutters DEF vars
  <2> QED
    BY <2>1, <2>2, <2>3 DEF Next, OnlyServer, OnlyClient
<1>3. NetInv => NetAssertsHold
  BY ServerInvAsserts DEF NetAssertsHold, ClientAssertsHold, ClientInv
<1> QED
  BY <1>1, <1>2, <1>3, PTL DEF Spec

=============================================================================
