----------------------------- MODULE EventLoop -----------------------------
(***************************************************************************)
(* master/net/EventLoop.cc: one EventLoop, the thread that owns it and the *)
(* other threads that call queueInLoop()/runInLoop() and quit() on it.     *)
(*                                                                         *)
(* The loop thread blocks in poll() and is woken through an eventfd.  A    *)
(* caller pushes its functor under mutex_ and only then writes the eventfd;*)
(* the loop thread swaps pendingFunctors_ out under the same mutex and runs*)
(* the functors without it.  Everything between two accesses to shared     *)
(* state is one step here, so a caller can be stopped between its push and *)
(* its wakeup for as long as the scheduler likes.                          *)
(*                                                                         *)
(* Abstractions.  The eventfd counter is reduced to "readable".  A functor *)
(* or an I/O callback is user code: it queues functors, calls quit(), and  *)
(* returns.  Functors are numbered in the order of their push; the number  *)
(* stands for the std::function.                                           *)
(***************************************************************************)
EXTENDS Naturals, Sequences

CONSTANTS Callers,       \* threads other than the loop's own
          IOChannels,    \* channels of the poller besides wakeupChannel_
          MaxFunctors    \* bound on the functors queued in a behaviour

ASSUME MaxFunctorsAssumption == MaxFunctors \in Nat

VARIABLES
  pc,                       \* where the loop thread is in loop()
  quit_,
  callingPendingFunctors_,
  pendingFunctors_,         \* guarded by mutex_
  functors,                 \* doPendingFunctors()' local vector, what is left of it
  wakeupFd_,                \* TRUE: the eventfd is readable
  wakeupActive,             \* wakeupChannel_ is in activeChannels_ and not handled yet
  ioActive,                 \* the other channels of activeChannels_, not handled yet
  inCallback,               \* the loop thread is inside user code
  caller,                   \* Callers -> "idle", or "wakeup" between push and wakeup()
  unannounced,              \* history: the owner queued outside loop() since the last swap
  ran                       \* history: the functors run, oldest first

vars == <<pc, quit_, callingPendingFunctors_, pendingFunctors_, functors,
          wakeupFd_, wakeupActive, ioActive, inCallback, caller, unannounced, ran>>

\* History: how many functors were ever pushed, and so the next one's number.
Queued == Len(ran) + Len(functors) + Len(pendingFunctors_)

TypeOK ==
  /\ pc \in {"idle", "check", "poll", "events", "run"}
  /\ quit_ \in BOOLEAN
  /\ callingPendingFunctors_ \in BOOLEAN
  /\ pendingFunctors_ \in Seq(Nat)
  /\ functors \in Seq(Nat)
  /\ wakeupFd_ \in BOOLEAN
  /\ wakeupActive \in BOOLEAN
  /\ ioActive \in SUBSET IOChannels
  /\ inCallback \in BOOLEAN
  /\ caller \in [Callers -> {"idle", "wakeup"}]
  /\ unannounced \in BOOLEAN
  /\ ran \in Seq(Nat)

Init ==
  /\ pc = "idle"
  /\ quit_ = FALSE
  /\ callingPendingFunctors_ = FALSE
  /\ pendingFunctors_ = <<>>
  /\ functors = <<>>
  /\ wakeupFd_ = FALSE
  /\ wakeupActive = FALSE
  /\ ioActive = {}
  /\ inCallback = FALSE
  /\ caller = [t \in Callers |-> "idle"]
  /\ unannounced = FALSE
  /\ ran = <<>>

-----------------------------------------------------------------------------
(* Other threads *)

\* queueInLoop() up to the unlock; runInLoop() from another thread is the same.
QueueInLoop(t) ==
  /\ caller[t] = "idle"
  /\ Queued < MaxFunctors
  /\ pendingFunctors_' = Append(pendingFunctors_, Queued + 1)
  /\ caller' = [caller EXCEPT ![t] = "wakeup"]
  /\ UNCHANGED <<pc, quit_, callingPendingFunctors_, functors, wakeupFd_,
                 wakeupActive, ioActive, inCallback, unannounced, ran>>

\* Mutant of Quit: the flag alone.
QuitWithoutWakeup(t) ==
  /\ caller[t] = "idle"
  /\ quit_' = TRUE
  /\ UNCHANGED <<pc, callingPendingFunctors_, pendingFunctors_, functors,
                 wakeupFd_, wakeupActive, ioActive, inCallback, caller,
                 unannounced, ran>>

\* quit() up to its isInLoopThread() test.
Quit(t) ==
  /\ caller[t] = "idle"
  /\ quit_' = TRUE
  /\ caller' = [caller EXCEPT ![t] = "wakeup"]
  /\ UNCHANGED <<pc, callingPendingFunctors_, pendingFunctors_, functors,
                 wakeupFd_, wakeupActive, ioActive, inCallback, unannounced,
                 ran>>

\* wakeup(), which ends both queueInLoop() and quit() in another thread.
Wakeup(t) ==
  /\ caller[t] = "wakeup"
  /\ wakeupFd_' = TRUE
  /\ caller' = [caller EXCEPT ![t] = "idle"]
  /\ UNCHANGED <<pc, quit_, callingPendingFunctors_, pendingFunctors_, functors,
                 wakeupActive, ioActive, inCallback, unannounced, ran>>

-----------------------------------------------------------------------------
(* The loop thread *)

\* Mutant of CallbackQueues: the test "|| callingPendingFunctors_" is missing.
CallbackQueuesSilently ==
  /\ inCallback
  /\ Queued < MaxFunctors
  /\ pendingFunctors_' = Append(pendingFunctors_, Queued + 1)
  /\ UNCHANGED <<pc, quit_, callingPendingFunctors_, functors, wakeupFd_,
                 wakeupActive, ioActive, inCallback, caller, unannounced, ran>>

\* queueInLoop() called by user code in the loop thread (runInLoop() would run
\* its argument at once): it wakes the loop only from inside a functor.
CallbackQueues ==
  /\ inCallback
  /\ Queued < MaxFunctors
  /\ pendingFunctors_' = Append(pendingFunctors_, Queued + 1)
  /\ wakeupFd_' = (wakeupFd_ \/ callingPendingFunctors_)
  /\ UNCHANGED <<pc, quit_, callingPendingFunctors_, functors, wakeupActive,
                 ioActive, inCallback, caller, unannounced, ran>>

\* queueInLoop() in the owning thread before it calls loop(), or after: the
\* thread is the loop's own and runs no functor, so nothing is written.
OwnerQueuesOutside ==
  /\ pc = "idle"
  /\ Queued < MaxFunctors
  /\ pendingFunctors_' = Append(pendingFunctors_, Queued + 1)
  /\ unannounced' = TRUE
  /\ UNCHANGED <<pc, quit_, callingPendingFunctors_, functors, wakeupFd_,
                 wakeupActive, ioActive, inCallback, caller, ran>>

\* quit() called by user code in the loop thread: no wakeup.
CallbackQuits ==
  /\ inCallback
  /\ quit_' = TRUE
  /\ UNCHANGED <<pc, callingPendingFunctors_, pendingFunctors_, functors,
                 wakeupFd_, wakeupActive, ioActive, inCallback, caller,
                 unannounced, ran>>

CallbackReturns ==
  /\ inCallback
  /\ inCallback' = FALSE
  /\ UNCHANGED <<pc, quit_, callingPendingFunctors_, pendingFunctors_, functors,
                 wakeupFd_, wakeupActive, ioActive, caller, unannounced, ran>>

\* loop() up to its while; quit_ is overwritten.
Loop ==
  /\ pc = "idle"
  /\ quit_' = FALSE
  /\ pc' = "check"
  /\ UNCHANGED <<callingPendingFunctors_, pendingFunctors_, functors, wakeupFd_,
                 wakeupActive, ioActive, inCallback, caller, unannounced, ran>>

\* while (!quit_): one more iteration, or loop() returns.
TestQuit ==
  /\ pc = "check"
  /\ pc' = IF quit_ THEN "idle" ELSE "poll"
  /\ UNCHANGED <<quit_, callingPendingFunctors_, pendingFunctors_, functors,
                 wakeupFd_, wakeupActive, ioActive, inCallback, caller,
                 unannounced, ran>>

\* poll() returns the channels with events: wakeupChannel_ if its descriptor is
\* readable, any of the others as the peers decide.
Poll(io) ==
  /\ pc = "poll"
  /\ wakeupFd_ \/ io # {}
  /\ wakeupActive' = wakeupFd_
  /\ ioActive' = io
  /\ pc' = "events"
  /\ UNCHANGED <<quit_, callingPendingFunctors_, pendingFunctors_, functors,
                 wakeupFd_, inCallback, caller, unannounced, ran>>

\* poll() returns no channel, after kPollTimeMs or a signal.
PollTimeout ==
  /\ pc = "poll"
  /\ ~wakeupFd_
  /\ pc' = "events"
  /\ UNCHANGED <<quit_, callingPendingFunctors_, pendingFunctors_, functors,
                 wakeupFd_, wakeupActive, ioActive, inCallback, caller,
                 unannounced, ran>>

\* handleRead() of wakeupChannel_ drains the eventfd.
HandleRead ==
  /\ pc = "events" /\ ~inCallback
  /\ wakeupActive
  /\ wakeupActive' = FALSE
  /\ wakeupFd_' = FALSE
  /\ UNCHANGED <<pc, quit_, callingPendingFunctors_, pendingFunctors_, functors,
                 ioActive, inCallback, caller, unannounced, ran>>

\* Channel::handleEvent() of another active channel.
HandleEvent(c) ==
  /\ pc = "events" /\ ~inCallback
  /\ c \in ioActive
  /\ ioActive' = ioActive \ {c}
  /\ inCallback' = TRUE
  /\ UNCHANGED <<pc, quit_, callingPendingFunctors_, pendingFunctors_, functors,
                 wakeupFd_, wakeupActive, caller, unannounced, ran>>

\* Mutant of SwapFunctors: copies pendingFunctors_ where it should swap.
SwapCopies ==
  /\ pc = "events" /\ ~inCallback
  /\ ~wakeupActive /\ ioActive = {}
  /\ callingPendingFunctors_' = TRUE
  /\ functors' = pendingFunctors_
  /\ unannounced' = FALSE
  /\ pc' = "run"
  /\ UNCHANGED <<quit_, pendingFunctors_, wakeupFd_, wakeupActive, ioActive,
                 inCallback, caller, ran>>

\* doPendingFunctors() up to the end of its critical section.
SwapFunctors ==
  /\ pc = "events" /\ ~inCallback
  /\ ~wakeupActive /\ ioActive = {}
  /\ callingPendingFunctors_' = TRUE
  /\ functors' = pendingFunctors_
  /\ pendingFunctors_' = <<>>
  /\ unannounced' = FALSE
  /\ pc' = "run"
  /\ UNCHANGED <<quit_, wakeupFd_, wakeupActive, ioActive, inCallback, caller,
                 ran>>

\* One turn of doPendingFunctors()' for.
RunFunctor ==
  /\ pc = "run" /\ ~inCallback
  /\ functors # <<>>
  /\ ran' = Append(ran, Head(functors))
  /\ functors' = Tail(functors)
  /\ inCallback' = TRUE
  /\ UNCHANGED <<pc, quit_, callingPendingFunctors_, pendingFunctors_,
                 wakeupFd_, wakeupActive, ioActive, caller, unannounced>>

FunctorsDone ==
  /\ pc = "run" /\ ~inCallback
  /\ functors = <<>>
  /\ callingPendingFunctors_' = FALSE
  /\ pc' = "check"
  /\ UNCHANGED <<quit_, pendingFunctors_, functors, wakeupFd_, wakeupActive,
                 ioActive, inCallback, caller, unannounced, ran>>

LoopThread ==
  \/ CallbackQueues
  \/ CallbackQuits
  \/ CallbackReturns
  \/ TestQuit
  \/ \E io \in SUBSET IOChannels : Poll(io)
  \/ PollTimeout
  \/ HandleRead
  \/ \E c \in IOChannels : HandleEvent(c)
  \/ SwapFunctors
  \/ RunFunctor
  \/ FunctorsDone

Next ==
  \/ \E t \in Callers : QueueInLoop(t) \/ Quit(t) \/ Wakeup(t)
  \/ OwnerQueuesOutside
  \/ Loop
  \/ LoopThread

(***************************************************************************)
(* A runnable thread is scheduled: a caller that has pushed gets to its    *)
(* wakeup, user code returns, and the loop thread goes on whenever it is   *)
(* not blocked in poll().  Blocked there, it returns once the eventfd is   *)
(* readable; nothing is assumed of the peers, nor of the 10 s timeout, nor *)
(* that anybody calls loop(), queueInLoop() or quit().                     *)
(***************************************************************************)
PollWoken == wakeupFd_ /\ \E io \in SUBSET IOChannels : Poll(io)

Running ==
  \/ CallbackReturns
  \/ TestQuit
  \/ HandleRead
  \/ \E c \in IOChannels : HandleEvent(c)
  \/ SwapFunctors
  \/ RunFunctor
  \/ FunctorsDone

Fairness ==
  /\ \A t \in Callers : WF_vars(Wakeup(t))
  /\ WF_vars(PollWoken)
  /\ WF_vars(Running)

Spec == Init /\ [][Next]_vars

FairSpec == Spec /\ Fairness

-----------------------------------------------------------------------------
(* Properties *)

\* The eventfd is readable, or a thread is on its way to make it so.
WakeupComing == wakeupFd_ \/ \E t \in Callers : caller[t] = "wakeup"

\* Whenever the loop thread sits in poll() with a functor in pendingFunctors_ or
\* with quit_ set, something is there to get it out: queueInLoop() and quit()
\* never leave their work to the 10 s timeout.  The exception is in the code: a
\* functor that the owning thread queues outside loop() wakes nobody.
NoLostWakeup ==
  pc = "poll" /\ (quit_ \/ (pendingFunctors_ # <<>> /\ ~unannounced)) => WakeupComing

\* The loop thread runs every functor once, in the order in which queueInLoop()
\* pushed them, whichever thread pushed it and whichever batch it fell into.
Tasks == INSTANCE TaskQueue WITH todo <- functors \o pendingFunctors_
RunsInOrder == Tasks!TaskSpec

FunctorsRun ==
  \A i \in 1..MaxFunctors :
    (i <= Queued /\ pc # "idle" /\ ~unannounced) ~> (Len(ran) >= i \/ quit_)
QuitEndsLoop == (quit_ /\ pc # "idle") ~> (pc = "idle")

\* What other threads ask of a running loop happens: a queued functor is run, unless quit()
\* ends the loop first or the owning thread queued it outside loop(), and quit() from any
\* thread ends the loop.
LoopGoesOn == FunctorsRun /\ QuitEndsLoop

=============================================================================
