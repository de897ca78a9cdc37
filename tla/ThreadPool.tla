----------------------------- MODULE ThreadPool -----------------------------
(***************************************************************************)
(* master/base/ThreadPool.cc over Thread, CountDownLatch, Condition and    *)
(* MutexLock: start() creates the threads one after the other, then a      *)
(* bounded queue of tasks lies between the threads that call run() and the *)
(* pool's threads, until stop().                                           *)
(*                                                                         *)
(* What a thread does while it holds mutex_ is one step; wait() ends the   *)
(* step and puts the thread into the condition's wait set, notify() takes  *)
(* one thread out of it, and a spurious wakeup may take out any.  Tasks    *)
(* end and throw nothing, and call no operation of the pool: a task that   *)
(* calls run() on a full queue can block its own pool.                     *)
(***************************************************************************)
EXTENDS Naturals, Sequences, FiniteSets

CONSTANTS
  NumThreads,      \* the numbers start() may be given; with 0 run() runs the task itself
  MaxThreads,      \* the largest of them
  Producers,       \* threads that call run()
  maxQueueSize_,   \* 0: not bounded
  MaxTasks         \* bound on the tasks given to run()

ASSUME PoolBounds ==
  /\ {MaxThreads, maxQueueSize_, MaxTasks} \subseteq Nat
  /\ NumThreads \subseteq 0..MaxThreads
  /\ IsFiniteSet(Producers)

VARIABLES
  threads_,        \* how many threads the pool has
  queue_, running_,
  notEmpty_, notFull_,   \* the threads that wait for each condition
  worker,          \* "none", "created", then "test" (of running_), "take", "waiting",
                   \* "running" (a task), "done"
  producer,        \* "idle", "run", "waiting"
  submitted,       \* tasks given to run() so far; the task of a producer in run()
  task,
  pool,            \* "starting", "started", "stopping" (joining the workers), "stopped"
  ranTasks         \* history: the tasks in the order they were taken

Workers == 1..threads_

poolVars == <<threads_, queue_, running_, notEmpty_, notFull_, worker, producer, submitted, task,
              pool, ranTasks>>
conditions == <<notEmpty_, notFull_>>

PoolTypeOK ==
  /\ threads_ \in NumThreads
  /\ queue_ \in Seq(1..MaxTasks) /\ ranTasks \in Seq(1..MaxTasks)
  /\ running_ \in BOOLEAN
  /\ notEmpty_ \subseteq Workers /\ notFull_ \subseteq Producers
  /\ worker \in [1..MaxThreads -> {"none", "created", "test", "take", "waiting", "running", "done"}]
  /\ producer \in [Producers -> {"idle", "run", "waiting"}]
  /\ submitted \in 0..MaxTasks
  /\ task \in [Producers -> 0..MaxTasks]
  /\ pool \in {"starting", "started", "stopping", "stopped"}

PoolInit ==
  /\ threads_ \in NumThreads
  /\ queue_ = <<>> /\ running_ = TRUE
  /\ notEmpty_ = {} /\ notFull_ = {}
  /\ worker = [w \in 1..MaxThreads |-> "none"]
  /\ producer = [p \in Producers |-> "idle"]
  /\ submitted = 0 /\ task = [p \in Producers |-> 0]
  /\ pool = "starting"
  /\ ranTasks = <<>>

\* Condition::notify(): one waiting thread, if there is one, leaves the set.
Notify(set, after) == IF set = {} THEN after = {} ELSE \E t \in set : after = set \ {t}

-----------------------------------------------------------------------------
(* start() *)

\* Thread::start(): the thread is created when the latch of the one before it is open.
CreateThread(w) ==
  /\ pool = "starting" /\ worker[w] = "none"
  /\ \A v \in 1..(w - 1) : worker[v] \notin {"none", "created"}
  /\ worker' = [worker EXCEPT ![w] = "created"]
  /\ UNCHANGED <<threads_, queue_, running_, conditions, producer, submitted, task,
                 pool, ranTasks>>

\* ThreadData::runInThread(): latch_->countDown(), then func_().
EnterThread(w) ==
  /\ worker[w] = "created"
  /\ worker' = [worker EXCEPT ![w] = "test"]
  /\ UNCHANGED <<threads_, queue_, running_, conditions, producer, submitted, task,
                 pool, ranTasks>>

\* latch_.wait() of the last thread returns, and start() with it.
StartReturns ==
  /\ pool = "starting" /\ \A w \in Workers : worker[w] \notin {"none", "created"}
  /\ pool' = "started"
  /\ UNCHANGED <<threads_, queue_, running_, conditions, worker, producer, submitted,
                 task, ranTasks>>

-----------------------------------------------------------------------------
(* run() *)

CallRun(p) ==
  /\ pool # "starting"
  /\ producer[p] = "idle" /\ submitted < MaxTasks
  /\ submitted' = submitted + 1
  /\ task' = [task EXCEPT ![p] = submitted + 1]
  /\ producer' = [producer EXCEPT ![p] = "run"]
  /\ UNCHANGED <<threads_, queue_, running_, conditions, worker, pool, ranTasks>>

\* Mutant of isFull: the test is off by one.
isFullLate == maxQueueSize_ > 0 /\ Len(queue_) > maxQueueSize_

isFull == maxQueueSize_ > 0 /\ Len(queue_) >= maxQueueSize_

\* Mutant of Enqueue: the task is queued but nobody is told.
EnqueueQuietly(p) ==
  /\ queue_' = Append(queue_, task[p])
  /\ UNCHANGED notEmpty_

\* push_back() and notEmpty_.notify()
Enqueue(p) ==
  /\ queue_' = Append(queue_, task[p])
  /\ Notify(notEmpty_, notEmpty_')

\* Without threads the caller runs the task.
RunHere(p) ==
  /\ producer[p] = "run" /\ threads_ = 0
  /\ ranTasks' = Append(ranTasks, task[p])
  /\ producer' = [producer EXCEPT ![p] = "idle"]
  /\ task' = [task EXCEPT ![p] = 0]
  /\ UNCHANGED <<threads_, queue_, running_, conditions, worker, submitted, pool>>

Run(p) ==
  /\ threads_ > 0
  /\ producer[p] = "run" \/ (producer[p] = "waiting" /\ p \notin notFull_)
  /\ IF isFull
       THEN /\ notFull_' = notFull_ \cup {p}
            /\ producer' = [producer EXCEPT ![p] = "waiting"]
            /\ UNCHANGED <<queue_, notEmpty_, task>>
       ELSE /\ Enqueue(p)
            /\ producer' = [producer EXCEPT ![p] = "idle"]
            /\ task' = [task EXCEPT ![p] = 0]
            /\ UNCHANGED notFull_
  /\ UNCHANGED <<threads_, running_, worker, submitted, pool, ranTasks>>

-----------------------------------------------------------------------------
(* runInThread() and take() *)

TestRunning(w) ==
  /\ worker[w] = "test"
  /\ worker' = [worker EXCEPT ![w] = IF running_ THEN "take" ELSE "done"]
  /\ UNCHANGED <<threads_, queue_, running_, conditions, producer, submitted, task,
                 pool, ranTasks>>

\* Mutant of Room: a waiting run() is not told.
RoomQuietly == UNCHANGED notFull_

\* notFull_.notify()
Room == IF maxQueueSize_ > 0 THEN Notify(notFull_, notFull_') ELSE UNCHANGED notFull_

Take(w) ==
  /\ worker[w] = "take" \/ (worker[w] = "waiting" /\ w \notin notEmpty_)
  /\ \/ /\ queue_ = <<>> /\ running_
        /\ notEmpty_' = notEmpty_ \cup {w}
        /\ worker' = [worker EXCEPT ![w] = "waiting"]
        /\ UNCHANGED <<queue_, notFull_, ranTasks>>
     \/ /\ queue_ = <<>> /\ ~running_
        /\ worker' = [worker EXCEPT ![w] = "test"]
        /\ UNCHANGED <<queue_, conditions, ranTasks>>
     \/ /\ queue_ # <<>>
        /\ queue_' = Tail(queue_)
        /\ ranTasks' = Append(ranTasks, Head(queue_))
        /\ worker' = [worker EXCEPT ![w] = "running"]
        /\ Room
        /\ UNCHANGED notEmpty_
  /\ UNCHANGED <<threads_, running_, producer, submitted, task, pool>>

TaskEnds(w) ==
  /\ worker[w] = "running"
  /\ worker' = [worker EXCEPT ![w] = "test"]
  /\ UNCHANGED <<threads_, queue_, running_, conditions, producer, submitted, task,
                 pool, ranTasks>>

SpuriousWakeup ==
  /\ \/ \E w \in notEmpty_ : notEmpty_' = notEmpty_ \ {w} /\ UNCHANGED notFull_
     \/ \E p \in notFull_ : notFull_' = notFull_ \ {p} /\ UNCHANGED notEmpty_
  /\ UNCHANGED <<threads_, queue_, running_, worker, producer, submitted, task, pool,
                 ranTasks>>

-----------------------------------------------------------------------------
(* stop() *)

\* notEmpty_.notifyAll(); threads that wait in run() are not woken.
WakeWorkers == notEmpty_' = {}

Stop ==
  /\ pool = "started"
  /\ running_' = FALSE
  /\ WakeWorkers
  /\ pool' = "stopping"
  /\ UNCHANGED <<threads_, queue_, notFull_, worker, producer, submitted, task, ranTasks>>

JoinWorkers ==
  /\ pool = "stopping"
  /\ \A w \in Workers : worker[w] = "done"
  /\ pool' = "stopped"
  /\ UNCHANGED <<threads_, queue_, running_, conditions, worker, producer, submitted,
                 task, ranTasks>>

-----------------------------------------------------------------------------
WorkerStep(w) == EnterThread(w) \/ TestRunning(w) \/ Take(w) \/ TaskEnds(w)

PoolNext ==
  \/ \E w \in Workers : CreateThread(w)
  \/ StartReturns
  \/ \E p \in Producers : CallRun(p) \/ RunHere(p) \/ Run(p)
  \/ \E w \in Workers : EnterThread(w) \/ TestRunning(w) \/ Take(w) \/ TaskEnds(w)
  \/ SpuriousWakeup \/ Stop \/ JoinWorkers

PoolSpec == PoolInit /\ [][PoolNext]_poolVars

-----------------------------------------------------------------------------
(* Properties *)

\* The workers that are on their way to take(), and the calls of run() that were woken.
Coming == {w \in Workers \ notEmpty_ : worker[w] \notin {"running", "done"}}
Woken == {p \in Producers \ notFull_ : producer[p] = "waiting"}

\* No notify() of run() or take() is lost or too few: while a worker sleeps, every queued task
\* has a worker of its own that comes to take it, and while a call of run() sleeps, every free
\* place of the queue has a call of its own that was woken for it.
NobodyOversleeps ==
  /\ notEmpty_ # {} => Len(queue_) <= Cardinality(Coming)
  /\ notFull_ # {} => maxQueueSize_ <= Len(queue_) + Cardinality(Woken)

\* A task given to run() is at one place, with its caller, in the queue or among those taken,
\* and there once; and the queue keeps its bound, which run() asserts, whoever wakes first.
TasksTakenOnce ==
  /\ maxQueueSize_ > 0 => Len(queue_) <= maxQueueSize_
  /\ \A i, j \in DOMAIN queue_ : queue_[i] = queue_[j] => i = j
  /\ \A i, j \in DOMAIN ranTasks : ranTasks[i] = ranTasks[j] => i = j
  /\ \A i \in DOMAIN queue_, j \in DOMAIN ranTasks : queue_[i] # ranTasks[j]
  /\ \A p \in Producers : producer[p] # "idle" =>
       /\ \A i \in DOMAIN queue_ : queue_[i] # task[p]
       /\ \A i \in DOMAIN ranTasks : ranTasks[i] # task[p]
       /\ \A q \in Producers \ {p} : task[q] # task[p]
  /\ \A t \in 1..submitted :
       \/ \E i \in DOMAIN queue_ : queue_[i] = t
       \/ \E i \in DOMAIN ranTasks : ranTasks[i] = t
       \/ \E p \in Producers : task[p] = t

\* Until stop() is called, every task given to run() is taken, although a notify() may go
\* to a thread that finds nothing and a full queue holds run() up; and stop() ends: every
\* worker leaves, whether it waits, runs a task or is about to wait.
PoolGoesOn ==
  /\ \A t \in 1..MaxTasks :
       (submitted >= t) ~> (\E i \in DOMAIN ranTasks : ranTasks[i] = t) \/ pool # "started"
  /\ (pool = "stopping") ~> (pool = "stopped")
=============================================================================
