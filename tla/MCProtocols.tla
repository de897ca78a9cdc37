---------------------------- MODULE MCProtocols ----------------------------
(***************************************************************************)
(* The buffer and the two protocols that are read from one, in one run:    *)
(* which says the one that a behaviour is about.                           *)
(***************************************************************************)
EXTENDS BufferOps, RpcChannel, Http

VARIABLE which

vars == <<which, bufVars, rpcVars, httpVars>>

Init == which \in {"buffer", "rpc", "http"} /\ BufInit /\ RpcInit /\ HttpInit

Next ==
  /\ UNCHANGED which
  /\ \/ which = "buffer" /\ BufNext /\ UNCHANGED <<rpcVars, httpVars>>
     \/ which = "rpc" /\ RpcNext /\ UNCHANGED <<bufVars, httpVars>>
     \/ which = "http" /\ HttpNext /\ UNCHANGED <<bufVars, rpcVars>>

OnlyRpc(A) == which = "rpc" /\ A /\ UNCHANGED <<which, bufVars, httpVars>>
OnlyHttp(A) == which = "http" /\ A /\ UNCHANGED <<which, bufVars, rpcVars>>

\* The loop threads go on, CallMethod() returns and the service answers what it was asked.
Fairness ==
  /\ \A side \in Sides : WF_vars(OnlyRpc(LoopStep(side)))
  /\ \A c \in Callers : WF_vars(OnlyRpc(Insert(c) \/ SendCall(c)))
  /\ WF_vars(OnlyRpc(\E id \in serving : doneCallback(id)))
  /\ WF_vars(OnlyHttp(HttpLoop))

Spec == Init /\ [][Next]_vars /\ Fairness

MCTag == <<7>>

\* A wrong length, checksum, tag and payload.
MCStrays == {<<0, 1, 7, 7, 7>>, <<0, 3, 7, 0, 0>>, <<0, 3, 8, 9, 9>>, <<0, 3, 7, 8, 8>>}

MCRequests ==
  {<<<<Http11, Command>>, <<Close>>>>, <<<<Http10, Root>>>>, <<<<Http10, OnePart>>, <<KeepAlive>>>>,
   <<<<Http11, Command>>, <<OtherHeader>>>>, <<<<BadMethod, Root>>>>, <<<<BadVersion, Root>>>>,
   <<<<Http11, Favicon>>, <<NoColon>>>>, <<<<Http11, NoPart>>>>}
=============================================================================
