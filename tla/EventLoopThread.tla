-------------------------- MODULE EventLoopThread --------------------------
(***************************************************************************)
(* master/net/EventLoopThread.cc: a thread with an EventLoop on its stack, *)
(* started by startLoop() and stopped by the destructor, over the EventLoop*)
(* of the module of that name.                                             *)
(*                                                                         *)
(* The user thread constructs the object, calls startLoop(), queues        *)
(* functors and destroys the object.  The destructor reads loop_ without   *)
(* mutex_, and reads it again for the call of quit().  The loop is a local *)
(* of threadFunc() and dies with it.                                       *)
(***************************************************************************)
EXTENDS EventLoop

CONSTANT User         \* the thread that owns the EventLoopThread object

ASSUME UserAssumption == User \in Callers

VARIABLES
  user,      \* where the user thread is
  thread,    \* where threadFunc() is
  loop_      \* TRUE: loop_ points to the loop

threadVars == <<user, thread, loop_>>

allVars == <<vars, threadVars>>

ThreadTypeOK ==
  /\ TypeOK
  /\ user \in {"new", "waiting", "started", "quitting", "joining", "gone", "faulted"}
  /\ thread \in {"new", "starting", "created", "published", "looping", "cleared",
                 "destroyed"}
  /\ loop_ \in BOOLEAN

ThreadInit == Init /\ user = "new" /\ thread = "new" /\ loop_ = FALSE

-----------------------------------------------------------------------------
(* The user thread *)

\* startLoop() up to its wait; Thread::start() returns when the thread runs.
StartLoop ==
  /\ user = "new" /\ thread = "new"
  /\ user' = "waiting"
  /\ thread' = "starting"
  /\ UNCHANGED <<vars, loop_>>

\* cond_.wait() is left once loop_ is seen set, under mutex_.
StartLoopReturns ==
  /\ user = "waiting"
  /\ loop_
  /\ user' = "started"
  /\ UNCHANGED <<vars, thread, loop_>>

UserQueues ==
  /\ user = "started" /\ thread # "destroyed"
  /\ QueueInLoop(User)
  /\ UNCHANGED threadVars

UserWakes == thread # "destroyed" /\ Wakeup(User) /\ UNCHANGED threadVars

\* Mutant of DtorTest: no join() after quit().
DtorTestOnly ==
  /\ user \in {"new", "started"} /\ caller[User] = "idle"
  /\ user' = "gone"
  /\ UNCHANGED <<vars, thread, loop_>>

\* ~EventLoopThread() up to its test of loop_: nothing to stop, or on to quit().
DtorTest ==
  /\ user \in {"new", "started"} /\ caller[User] = "idle"
  /\ user' = IF loop_ THEN "quitting" ELSE "gone"
  /\ UNCHANGED <<vars, thread, loop_>>

\* loop_->quit(), up to its wakeup().
DtorQuit ==
  /\ user = "quitting"
  /\ loop_ /\ thread # "destroyed"
  /\ Quit(User)
  /\ user' = "joining"
  /\ UNCHANGED <<thread, loop_>>

\* The same when threadFunc() has cleared loop_ since the test: a null pointer is
\* dereferenced, or the old value still in a register leads to a dead loop.
DtorFaults ==
  /\ user = "quitting"
  /\ ~loop_
  /\ user' \in {"faulted", "joining"}
  /\ UNCHANGED <<vars, thread, loop_>>

\* wakeup() of a loop that is gone: a fault, or a write to a closed descriptor.
DanglingWakeup ==
  /\ thread = "destroyed"
  /\ caller[User] = "wakeup"
  /\ caller' = [caller EXCEPT ![User] = "idle"]
  /\ user' \in {"faulted", user}
  /\ UNCHANGED <<pc, quit_, callingPendingFunctors_, pendingFunctors_, functors,
                 wakeupFd_, wakeupActive, ioActive, inCallback, unannounced, ran,
                 thread, loop_>>

\* thread_.join() returns when threadFunc() has.
DtorJoins ==
  /\ user = "joining" /\ caller[User] = "idle"
  /\ thread = "destroyed"
  /\ user' = "gone"
  /\ UNCHANGED <<vars, thread, loop_>>

UserThread ==
  \/ StartLoop \/ StartLoopReturns \/ UserQueues \/ UserWakes
  \/ DtorTest \/ DtorQuit \/ DtorFaults \/ DanglingWakeup \/ DtorJoins

-----------------------------------------------------------------------------
(* threadFunc() *)

\* EventLoop loop; callback_(&loop) may queue functors (below).
ThreadCreates ==
  /\ thread = "starting"
  /\ thread' = "created"
  /\ UNCHANGED <<vars, user, loop_>>

\* callback_(&loop) queues a functor.
ThreadInitCallback ==
  /\ thread = "created"
  /\ OwnerQueuesOutside
  /\ UNCHANGED threadVars

\* Mutant of ThreadPublishes: notifies, and leaves loop_ null.
ThreadForgetsToPublish ==
  /\ thread = "created"
  /\ thread' = "published"
  /\ UNCHANGED <<vars, user, loop_>>

\* loop_ = &loop; cond_.notify()
ThreadPublishes ==
  /\ thread = "created"
  /\ thread' = "published"
  /\ loop_' = TRUE
  /\ UNCHANGED <<vars, user>>

ThreadLoops ==
  /\ thread = "published"
  /\ Loop
  /\ thread' = "looping"
  /\ UNCHANGED <<user, loop_>>

\* One step inside loop().
ThreadInLoop ==
  /\ thread = "looping"
  /\ LoopThread
  /\ UNCHANGED threadVars

\* loop() returned: loop_ = NULL under mutex_.
ThreadClears ==
  /\ thread = "looping" /\ pc = "idle"
  /\ thread' = "cleared"
  /\ loop_' = FALSE
  /\ UNCHANGED <<vars, user>>

\* End of threadFunc(): ~EventLoop()
ThreadDestroys ==
  /\ thread = "cleared"
  /\ thread' = "destroyed"
  /\ UNCHANGED <<vars, user, loop_>>

LoopOwner ==
  \/ ThreadCreates \/ ThreadInitCallback \/ ThreadPublishes \/ ThreadLoops
  \/ ThreadInLoop \/ ThreadClears \/ ThreadDestroys

ThreadNext == UserThread \/ LoopOwner

ThreadSpec == ThreadInit /\ [][ThreadNext]_allVars

(***************************************************************************)
(* As for EventLoop, and: threadFunc() goes on, a user inside startLoop()  *)
(* or inside the destructor goes on.                                       *)
(***************************************************************************)
ThreadFairness ==
  /\ WF_allVars(UserWakes \/ DanglingWakeup)
  /\ WF_allVars(StartLoopReturns)
  /\ WF_allVars(DtorQuit \/ DtorFaults \/ DtorJoins)
  /\ WF_allVars(ThreadCreates \/ ThreadPublishes \/ ThreadLoops \/ ThreadClears
                  \/ ThreadDestroys)
  /\ WF_allVars(thread = "looping" /\ (PollWoken \/ Running) /\ UNCHANGED threadVars)

FairThreadSpec == ThreadSpec /\ ThreadFairness

-----------------------------------------------------------------------------
(* Properties *)

\* When the EventLoopThread object is gone its loop runs no callback any more.
ObjectOutlivesLoop == user = "gone" => pc = "idle" /\ thread \notin {"published", "looping"}

\* startLoop() returns, unless the loop's own callbacks quit it first; and once its
\* quit() has reached a loop inside loop(), the destructor ends.
StartAndDtorEnd ==
  /\ user = "waiting" ~> (user = "started" \/ quit_)
  /\ (user = "joining" /\ quit_ /\ pc # "idle") ~> user \in {"gone", "faulted"}

\* The destructor of a started object stops the loop and ends, as the comment
\* "dtor calls quit()" of EventLoopThread_unittest.cc:33 has it.
DtorEnds == user = "quitting" ~> user \in {"gone", "faulted"}

=============================================================================
