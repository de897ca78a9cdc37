------------------------------- MODULE MCNet -------------------------------
(***************************************************************************)
(* A server and a client, which share no state, in one run: which says the *)
(* one that a behaviour is about.                                          *)
(***************************************************************************)
EXTENDS TcpServer, TcpClient

VARIABLE which

vars == <<which, tcpServerVars, clientVars>>

Init ==
  /\ which \in {"server", "client"} /\ TcpServerInit /\ ClientInit
  /\ which # "server" => numThreads_ = 0
  /\ which # "client" => ~retry_

OnlyServer(A) == which = "server" /\ A /\ UNCHANGED <<which, clientVars>>
OnlyClient(A) == which = "client" /\ A /\ UNCHANGED <<which, tcpServerVars>>

Next == OnlyServer(TcpServerNext) \/ OnlyClient(ClientNext)

\* Every loop of the server runs: it accepts while clients wait and runs its functors.
\* Other threads do not snatch the slot of idleFd_ every time.
ServerFairness ==
  /\ SF_vars(OnlyServer(AcceptorStep)) /\ WF_vars(OnlyServer(TurnAway))
  /\ WF_vars(OnlyServer(ReopenIdleFd)) /\ SF_vars(OnlyServer(OpenFds < MaxFds /\ TurnAway))
  /\ SF_vars(OnlyServer(Remove)) /\ WF_vars(OnlyServer(EndDestroy))
  /\ \A l \in Loops : SF_vars(OnlyServer(IoLoop(l))) /\ WF_vars(OnlyServer(TellQuit(l)))

\* The client's loop goes on, a call that has begun ends, and poll() reports a timer that
\* is due.  The network owes no answer to connect(2).
ClientFairness ==
  /\ WF_vars(OnlyClient(Handlers)) /\ WF_vars(OnlyClient(OtherStops2))
  /\ WF_vars(OnlyClient(OtherStops3)) /\ WF_vars(OnlyClient(PollSome))
  /\ SF_vars(OnlyClient(PollTimer))

Spec == Init /\ [][Next]_vars /\ ServerFairness /\ ClientFairness

\* Whatever clients and connections come and go on the server, whatever calls and losses
\* the client sees, and whenever either is destroyed: every assert of TcpServer, Acceptor,
\* TcpClient and Connector, and the pairing of connectDestroyed() with the last pointer.
\* The asserts that do fail in the code end a behaviour as misused, as the headers of
\* TcpServer and TcpClient say, and are outside of this: that of Channel::remove() for a
\* connection that ~TcpServer() finds in kDisconnecting, and that of ~Connector() when
\* ~TcpClient() lets go of a connector that has not reset its channel yet.
NetAssertsHold == ServerAssertsHold /\ ClientAssertsHold
=============================================================================
