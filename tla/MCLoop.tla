------------------------------- MODULE MCLoop -------------------------------
(***************************************************************************)
(* One run for the event loop alone, which any thread may use and quit, and*)
(* for the loop of an EventLoopThread: which says the one that a behaviour *)
(* is about.                                                               *)
(***************************************************************************)
EXTENDS EventLoopThread

VARIABLE which

mcVars == <<which, allVars>>

MCInit == which \in {"loop", "thread"} /\ ThreadInit

OnlyLoop(A) == which = "loop" /\ A /\ UNCHANGED <<which, threadVars>>
OnlyThread(A) == which = "thread" /\ A /\ UNCHANGED which

MCNext == OnlyLoop(Next) \/ OnlyThread(ThreadNext)

\* As Fairness and ThreadFairness say.
MCFairness ==
  /\ \A t \in Callers : WF_mcVars(OnlyLoop(Wakeup(t)))
  /\ WF_mcVars(OnlyLoop(PollWoken)) /\ WF_mcVars(OnlyLoop(Running))
  /\ WF_mcVars(OnlyThread(UserWakes \/ DanglingWakeup))
  /\ WF_mcVars(OnlyThread(StartLoopReturns))
  /\ WF_mcVars(OnlyThread(DtorQuit \/ DtorFaults \/ DtorJoins))
  /\ WF_mcVars(OnlyThread(ThreadCreates \/ ThreadPublishes \/ ThreadLoops \/ ThreadClears
                            \/ ThreadDestroys))
  /\ WF_mcVars(OnlyThread(thread = "looping" /\ (PollWoken \/ Running) /\ UNCHANGED threadVars))

MCSpec == MCInit /\ [][MCNext]_mcVars /\ MCFairness
=============================================================================
