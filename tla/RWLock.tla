------------------------------- MODULE RWLock -------------------------------
(***************************************************************************)
(* master/RWLock.h: a reader/writer lock put together from a std::mutex m, *)
(* a flag has_writer, a condition variable cv_readers and the inherited    *)
(* std::shared_mutex.  PpMaster guards its routing tables with it: server  *)
(* I/O threads write, client I/O threads read.                             *)
(*                                                                         *)
(* Every operation is split where the thread can block: at m, at           *)
(* cv_readers and at the shared_mutex.  Note that lock() and lock_shared() *)
(* keep m while they block on the shared_mutex, that unlock() needs m, and *)
(* that unlock_shared() does not.                                          *)
(***************************************************************************)
EXTENDS Naturals, FiniteSets

CONSTANTS Readers, Writers

\* A thread is a reader or a writer, never both, and there is one.
ASSUME ThreadsAssumption == Readers \cap Writers = {} /\ Readers \cup Writers # {}

Threads == Readers \cup Writers

Free == "free"   \* nobody holds the mutex, or the shared_mutex exclusively

ASSUME FreeAssumption == Free \notin Threads

VARIABLES
  pc,           \* where each thread is
  m,            \* the thread that holds m, or Free
  has_writer,
  exclusive,    \* the thread that holds the shared_mutex exclusively, or Free
  shared        \* the threads that hold it shared

lockVars == <<pc, m, has_writer, exclusive, shared>>

ReaderPlaces == {"idle", "waiting", "notified", "locking", "holding"}
WriterPlaces == {"idle", "locking", "holding"}

LockTypeOK ==
  /\ pc \in [Threads -> ReaderPlaces]
  /\ \A w \in Writers : pc[w] \in WriterPlaces
  /\ m \in Threads \cup {Free}
  /\ has_writer \in BOOLEAN
  /\ exclusive \in Writers \cup {Free}
  /\ shared \in SUBSET Readers

LockInit ==
  /\ pc = [t \in Threads |-> "idle"]
  /\ m = Free
  /\ has_writer = FALSE
  /\ exclusive = Free
  /\ shared = {}

-----------------------------------------------------------------------------
(* Writers *)

\* lock() up to shared_mutex::lock().  Nobody ever waits on cv_writers.
LockAnnounce(w) ==
  /\ pc[w] = "idle"
  /\ m = Free
  /\ m' = w
  /\ has_writer' = TRUE
  /\ pc' = [pc EXCEPT ![w] = "locking"]
  /\ UNCHANGED <<exclusive, shared>>

\* Mutant of LockAcquire: locks shared where it should lock exclusively.
LockAcquireBesideReaders(w) ==
  /\ pc[w] = "locking"
  /\ exclusive = Free
  /\ exclusive' = w
  /\ m' = Free
  /\ pc' = [pc EXCEPT ![w] = "holding"]
  /\ UNCHANGED <<has_writer, shared>>

\* Mutant of LockAcquire: lock() returns with m in its hands.
LockAcquireKeepsM(w) ==
  /\ pc[w] = "locking"
  /\ exclusive = Free /\ shared = {}
  /\ exclusive' = w
  /\ pc' = [pc EXCEPT ![w] = "holding"]
  /\ UNCHANGED <<m, has_writer, shared>>

\* shared_mutex::lock() returns, and lock() gives m back.
LockAcquire(w) ==
  /\ pc[w] = "locking"
  /\ exclusive = Free /\ shared = {}
  /\ exclusive' = w
  /\ m' = Free
  /\ pc' = [pc EXCEPT ![w] = "holding"]
  /\ UNCHANGED <<has_writer, shared>>

\* cv_readers.notify_all()
Notified(f) == [t \in Threads |-> IF f[t] = "waiting" THEN "notified" ELSE f[t]]

\* Mutant of Unlock: no notify_all().
UnlockQuietly(w) ==
  /\ pc[w] = "holding"
  /\ m = Free
  /\ has_writer' = FALSE
  /\ exclusive' = Free
  /\ pc' = [pc EXCEPT ![w] = "idle"]
  /\ UNCHANGED <<m, shared>>

\* unlock(): with m free it runs to its end without blocking.
Unlock(w) ==
  /\ pc[w] = "holding"
  /\ m = Free
  /\ has_writer' = FALSE
  /\ exclusive' = Free
  /\ pc' = Notified([pc EXCEPT ![w] = "idle"])
  /\ UNCHANGED <<m, shared>>

-----------------------------------------------------------------------------
(* Readers *)

\* lock_shared() takes m and tests the predicate, for the first time or after it
\* was woken, spuriously too: it waits again, or goes on with m.
LockSharedTest(r) ==
  /\ pc[r] \in {"idle", "waiting", "notified"}
  /\ m = Free
  /\ IF has_writer
       THEN pc' = [pc EXCEPT ![r] = "waiting"] /\ m' = m
       ELSE pc' = [pc EXCEPT ![r] = "locking"] /\ m' = r
  /\ UNCHANGED <<has_writer, exclusive, shared>>

\* shared_mutex::lock_shared() returns, and lock_shared() gives m back.
LockSharedAcquire(r) ==
  /\ pc[r] = "locking"
  /\ exclusive = Free
  /\ shared' = shared \cup {r}
  /\ m' = Free
  /\ pc' = [pc EXCEPT ![r] = "holding"]
  /\ UNCHANGED <<has_writer, exclusive>>

\* unlock_shared(), without m.
UnlockShared(r) ==
  /\ pc[r] = "holding"
  /\ shared' = shared \ {r}
  /\ pc' = [pc EXCEPT ![r] = "idle"]
  /\ UNCHANGED <<m, has_writer, exclusive>>

WriterStep(w) == LockAnnounce(w) \/ LockAcquire(w) \/ Unlock(w)

ReaderStep(r) == LockSharedTest(r) \/ LockSharedAcquire(r) \/ UnlockShared(r)

LockNext ==
  \/ \E w \in Writers : WriterStep(w)
  \/ \E r \in Readers : ReaderStep(r)

LockSpec == LockInit /\ [][LockNext]_lockVars

(***************************************************************************)
(* The shared_mutex is granted when it is free, critical sections end, and *)
(* a thread that wants m again and again gets it: m is free infinitely     *)
(* often and its waiters are served (strong fairness of a std::mutex under *)
(* contention, which the futex queue gives in practice).  No thread is     *)
(* assumed to ask for the lock, nor a reader to be woken spuriously.       *)
(***************************************************************************)
LockFairness ==
  /\ \A w \in Writers : WF_lockVars(LockAcquire(w)) /\ SF_lockVars(Unlock(w))
  /\ \A r \in Readers :
       /\ WF_lockVars(LockSharedAcquire(r)) /\ WF_lockVars(UnlockShared(r))
       /\ SF_lockVars(pc[r] = "notified" /\ LockSharedTest(r))

FairLockSpec == LockSpec /\ LockFairness

-----------------------------------------------------------------------------
(* Properties *)

\* Readers and a writer never hold the lock together, nor two writers: what
\* PpMaster relies on when it reads its tables under lock_shared().
Exclusion ==
  \A t \in Threads, w \in Writers :
    t # w => ~(pc[t] = "holding" /\ pc[w] = "holding")

\* A reader that came through the wait of lock_shared() never blocks on the
\* shared_mutex, so it never keeps m from the writer that is to unlock.
ReaderNeverBlocksWithM == \A r \in Readers : pc[r] = "locking" => exclusive = Free

\* A reader sleeps in cv_readers only while a writer holds or awaits the lock:
\* unlock() loses no reader.
NoReaderForgotten == \A r \in Readers : pc[r] = "waiting" => has_writer

\* Writers go first: from the moment lock() has m no reader gets the lock before
\* that writer.
WriterGoesFirst ==
  [][(\E w \in Writers : pc[w] = "locking") => shared' \subseteq shared]_lockVars

\* The one way the lock seizes up: a second writer blocks in lock() with m in its
\* hands while the first one needs m for unlock().
Seized ==
  \E v, w \in Writers : pc[v] = "holding" /\ pc[w] = "locking" /\ m = w

\* A writer inside lock() gets the lock, or the lock has seized up: no stream of
\* readers keeps it out.
WriterIsServed ==
  \A w \in Writers : pc[w] = "locking" ~> (pc[w] = "holding" \/ Seized)

\* A reader that sleeps in cv_readers is woken, or the lock has seized up.
WaitingReaderIsWoken ==
  \A r \in Readers : pc[r] = "waiting" ~> (pc[r] # "waiting" \/ Seized)

\* Neither writers inside lock() nor sleeping readers are left for ever, unless the lock
\* has seized up.
LockIsServed == WriterIsServed /\ WaitingReaderIsWoken

\* Some thread can go on.
CanMove ==
  \/ \E t \in Threads : m = Free /\ pc[t] \in {"idle", "waiting", "notified"}
  \/ \E w \in Writers : pc[w] = "holding" /\ m = Free
  \/ \E w \in Writers : pc[w] = "locking" /\ exclusive = Free /\ shared = {}
  \/ \E r \in Readers : pc[r] = "locking" /\ exclusive = Free
  \/ shared # {}

\* All threads are stuck only when two writers have seized the lock up.
OnlyWritersDeadlock == ~CanMove => Seized

\* A writer that calls lock() gets the lock, as the routing tables "set by the
\* server I/O threads" (PpMaster.h:54) need it.
WriterGetsLock == \A w \in Writers : pc[w] = "locking" ~> pc[w] = "holding"

=============================================================================
