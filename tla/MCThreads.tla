----------------------------- MODULE MCThreads -----------------------------
(***************************************************************************)
(* ThreadPool, AsyncLogging, Poller and Calendar, which share no state, in *)
(* one run: which says the one that a behaviour is about.                  *)
(***************************************************************************)
EXTENDS ThreadPool, AsyncLogging, Poller, Calendar

VARIABLE which

\* Standard time of the zones, and the whole of the first one.
Std == [gmtOffset |-> -20, isDst |-> FALSE]

vars == <<which, poolVars, logVars, pollerVars, calendarVars>>

Init ==
  /\ which \in {"pool", "log", "poller", "day", "second"}
  /\ PoolInit /\ LogInit /\ PollerInit /\ CalendarInit
  /\ (which # "log" => now = 1) /\ (which # "pool" => threads_ = MaxThreads)
  /\ (which # "day" => days = 0) /\ (which # "second" => data.localtimes = <<Std>>)

Next ==
  /\ UNCHANGED which
  /\ \/ which = "pool" /\ PoolNext /\ UNCHANGED <<logVars, pollerVars, calendarVars>>
     \/ which = "log" /\ LogNext /\ UNCHANGED <<poolVars, pollerVars, calendarVars>>
     \/ which = "poller" /\ PollerNext /\ UNCHANGED <<poolVars, logVars, calendarVars>>
     \/ which = "day" /\ NextDay /\ UNCHANGED <<poolVars, logVars, pollerVars>>
     \/ which = "second" /\ NextSecond /\ UNCHANGED <<poolVars, logVars, pollerVars>>

OnlyPool(A) == which = "pool" /\ A /\ UNCHANGED <<which, logVars, pollerVars, calendarVars>>
OnlyLog(A) == which = "log" /\ A /\ UNCHANGED <<which, poolVars, pollerVars, calendarVars>>

\* A thread that can go on does so; producers end what they called, and the owners' calls
\* return when what they wait for has happened.
Fairness ==
  /\ \A w \in 1..MaxThreads :
       WF_vars(OnlyPool(WorkerStep(w))) /\ WF_vars(OnlyPool(CreateThread(w)))
  /\ \A p \in Producers : WF_vars(OnlyPool(RunHere(p) \/ Run(p)))
  /\ WF_vars(OnlyPool(StartReturns \/ JoinWorkers))
  /\ WF_vars(OnlyLog(Writer)) /\ WF_vars(OnlyLog(Started \/ JoinWriter))

Spec == Init /\ [][Next]_vars /\ Fairness

\* A connection, an acceptor and a connector.
MCCallbacks == 0 :> {"close", "error", "read", "write"} @@ 1 :> {"read"} @@ 2 :> {"write", "error"}

\* The first days of a century year, of 2000, of a year before 1970, and 1970 itself.
MCStarts == {<<-25567, 1900>>, <<-731, 1968>>, <<0, 1970>>, <<10957, 2000>>, <<47482, 2100>>}

\* No transition; daylight saving time twice; a first local time that is given up later; and
\* files that end before the second and before the first local time.
MCZones ==
  LET Dst == [gmtOffset |-> -16, isDst |-> TRUE]
      Lmt == [gmtOffset |-> -22, isDst |-> FALSE]
      Twice == [localtimes |-> <<Std, Dst>>, times |-> <<30, 80, 130, 180>>,
                types |-> <<2, 1, 2, 1>>, read |-> 2]
      Moved == [localtimes |-> <<Lmt, Std, Dst>>, times |-> <<20, 60, 110>>,
                types |-> <<2, 3, 2>>, read |-> 3]
  IN  {[localtimes |-> <<Std>>, times |-> <<>>, types |-> <<>>, read |-> 1],
       Twice, Moved, [Moved EXCEPT !.read = 1], [Moved EXCEPT !.read = 0]}
=============================================================================
