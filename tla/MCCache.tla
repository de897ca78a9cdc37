------------------------------ MODULE MCCache ------------------------------
(***************************************************************************)
(* The cache's own parts in one run: one Db, a server with two of three    *)
(* Dbs, the master's slot tables and the lock of its routing tables.       *)
(* which says the one that a behaviour is about.  The keys fall into slots *)
(* 1 and 2.                                                                *)
(***************************************************************************)
EXTENDS Db, DbServer, MasterSlots, RWLock

CONSTANT k1

VARIABLE which

vars == <<which, dbVars, serverVars, slotsVars, lockVars>>

Init ==
  /\ which \in {"db", "server", "master", "lock"}
  /\ DbInit /\ ServerInit /\ SlotsInit /\ LockInit
  /\ which # "db" => db.maxSize_ = maxSize_
  /\ which # "server" => \A i \in ids_ : idToDb_[i].slots_ = {}

OnlyLock(A) == which = "lock" /\ A /\ UNCHANGED <<which, dbVars, serverVars, slotsVars>>

Next ==
  \/ which = "db" /\ DbNext /\ UNCHANGED <<which, serverVars, slotsVars, lockVars>>
  \/ which = "server" /\ ServerNext /\ UNCHANGED <<which, dbVars, slotsVars, lockVars>>
  \/ which = "master" /\ SlotsNext /\ UNCHANGED <<which, dbVars, serverVars, lockVars>>
  \/ OnlyLock(LockNext)

\* As LockFairness says.
Fairness ==
  /\ \A w \in Writers : WF_vars(OnlyLock(LockAcquire(w))) /\ SF_vars(OnlyLock(Unlock(w)))
  /\ \A r \in Readers :
       /\ WF_vars(OnlyLock(LockSharedAcquire(r))) /\ WF_vars(OnlyLock(UnlockShared(r)))
       /\ SF_vars(OnlyLock(pc[r] = "notified" /\ LockSharedTest(r)))

Spec == Init /\ [][Next]_vars /\ Fairness

MCSlotOf == [k \in Keys |-> IF k = k1 THEN 2 ELSE 1]
=============================================================================
