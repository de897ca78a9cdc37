-------------------------- MODULE EventLoopProofs --------------------------
(***************************************************************************)
(* What TLAPS proves of EventLoop and of EventLoopThread, for any number   *)
(* of calling threads, channels and functors.                              *)
(***************************************************************************)
EXTENDS EventLoopThread, SequenceTheorems, TLAPS

\* TypeOK is inductive by itself: loop(), queueInLoop(), quit() and the handlers
\* keep every variable of the loop in its range.
LEMMA TypeOKKept == TypeOK /\ [Next]_vars => TypeOK'
<1> SUFFICES ASSUME TypeOK, [Next]_vars PROVE TypeOK'
  OBVIOUS
<1> Queued \in Nat
  BY LenProperties DEF TypeOK, Queued
<1> USE DEF TypeOK
<1>1. ASSUME NEW t \in Callers, QueueInLoop(t) PROVE TypeOK'
  BY <1>1, AppendProperties DEF QueueInLoop
<1>2. ASSUME NEW t \in Callers, Quit(t) PROVE TypeOK'
  BY <1>2 DEF Quit
<1>3. ASSUME NEW t \in Callers, Wakeup(t) PROVE TypeOK'
  BY <1>3 DEF Wakeup
<1>4. CASE OwnerQueuesOutside
  BY <1>4, AppendProperties DEF OwnerQueuesOutside
<1>5. CASE Loop
  BY <1>5 DEF Loop
<1>6. CASE CallbackQueues
  BY <1>6, AppendProperties DEF CallbackQueues
<1>7. CASE CallbackQuits
  BY <1>7 DEF CallbackQuits
<1>8. CASE CallbackReturns
  BY <1>8 DEF CallbackReturns
<1>9. CASE TestQuit
  BY <1>9 DEF TestQuit
<1>10. ASSUME NEW io \in SUBSET IOChannels, Poll(io) PROVE TypeOK'
  BY <1>10 DEF Poll
<1>11. CASE PollTimeout
  BY <1>11 DEF PollTimeout
<1>12. CASE HandleRead
  BY <1>12 DEF HandleRead
<1>13. ASSUME NEW c \in IOChannels, HandleEvent(c) PROVE TypeOK'
  BY <1>13 DEF HandleEvent
<1>14. CASE SwapFunctors
  BY <1>14, EmptySeq DEF SwapFunctors
<1>15. CASE RunFunctor
  BY <1>15, HeadTailProperties, AppendProperties DEF RunFunctor
<1>16. CASE FunctorsDone
  BY <1>16 DEF FunctorsDone
<1>17. CASE UNCHANGED vars
  BY <1>17 DEF vars
<1> QED
  BY <1>1, <1>2, <1>3, <1>4, <1>5, <1>6, <1>7, <1>8, <1>9, <1>10, <1>11,
     <1>12, <1>13, <1>14, <1>15, <1>16, <1>17 DEF Next, LoopThread

\* Every variable of the loop starts in its range.
LEMMA TypeOKInitially == Init => TypeOK
<1> <<>> \in Seq(Nat)
  BY EmptySeq
<1> QED
  BY Zenon DEF Init, TypeOK

\* The loop's variables stay in their ranges whoever calls it and in whatever order.
THEOREM TypeCorrect == Spec => []TypeOK
  BY TypeOKInitially, TypeOKKept, PTL DEF Spec

-----------------------------------------------------------------------------
(***************************************************************************)
(* NoLostWakeup speaks of poll() only; to carry it round the loop one has  *)
(* to know where the thread is while a functor may wait without a wakeup.  *)
(* That is only between poll() and the swap, where doPendingFunctors() is  *)
(* still to come; in every other place a wakeup is pending or on its way.  *)
(***************************************************************************)

\* A functor waits without a wakeup only where the swap is still ahead.
PendingIsAnnounced ==
  ~unannounced /\ pc # "events" /\ pendingFunctors_ # <<>> => WakeupComing

\* quit_ was still FALSE when the loop thread went into poll().
QuitIsAnnounced == pc = "poll" /\ quit_ => WakeupComing

\* The flags of loop() and doPendingFunctors() say where the thread is.
WhereTheLoopIs ==
  /\ callingPendingFunctors_ <=> pc = "run"
  /\ pc # "run" => functors = <<>>
  /\ inCallback => pc \in {"events", "run"}
  /\ wakeupActive \/ ioActive # {} => pc = "events"
  /\ wakeupActive => wakeupFd_

IInv == TypeOK /\ WhereTheLoopIs /\ PendingIsAnnounced /\ QuitIsAnnounced

\* The flags and the local vector of loop() agree with its place in the code.
LEMMA WhereTheLoopIsInductive ==
  TypeOK /\ WhereTheLoopIs /\ [Next]_vars => WhereTheLoopIs'
<1> SUFFICES ASSUME TypeOK, WhereTheLoopIs, [Next]_vars PROVE WhereTheLoopIs'
  OBVIOUS
<1> USE DEF WhereTheLoopIs, TypeOK
<1>1. ASSUME NEW t \in Callers, QueueInLoop(t) PROVE WhereTheLoopIs'
  BY <1>1 DEF QueueInLoop
<1>2. ASSUME NEW t \in Callers, Quit(t) PROVE WhereTheLoopIs'
  BY <1>2 DEF Quit
<1>3. ASSUME NEW t \in Callers, Wakeup(t) PROVE WhereTheLoopIs'
  BY <1>3 DEF Wakeup
<1>4. CASE OwnerQueuesOutside
  BY <1>4 DEF OwnerQueuesOutside
<1>5. CASE Loop
  BY <1>5 DEF Loop
<1>6. CASE CallbackQueues
  BY <1>6 DEF CallbackQueues
<1>7. CASE CallbackQuits
  BY <1>7 DEF CallbackQuits
<1>8. CASE CallbackReturns
  BY <1>8 DEF CallbackReturns
<1>9. CASE TestQuit
  BY <1>9 DEF TestQuit
<1>10. ASSUME NEW io \in SUBSET IOChannels, Poll(io) PROVE WhereTheLoopIs'
  BY <1>10 DEF Poll
<1>11. CASE PollTimeout
  BY <1>11 DEF PollTimeout
<1>12. CASE HandleRead
  BY <1>12 DEF HandleRead
<1>13. ASSUME NEW c \in IOChannels, HandleEvent(c) PROVE WhereTheLoopIs'
  BY <1>13 DEF HandleEvent
<1>14. CASE SwapFunctors
  BY <1>14 DEF SwapFunctors
<1>15. CASE RunFunctor
  BY <1>15 DEF RunFunctor
<1>16. CASE FunctorsDone
  BY <1>16 DEF FunctorsDone
<1>17. CASE UNCHANGED vars
  BY <1>17 DEF vars
<1> QED
  BY <1>1, <1>2, <1>3, <1>4, <1>5, <1>6, <1>7, <1>8, <1>9, <1>10, <1>11,
     <1>12, <1>13, <1>14, <1>15, <1>16, <1>17 DEF Next, LoopThread

\* No step takes a wakeup away from functors or a quit() that still need it.
LEMMA AnnouncedInductive ==
  TypeOK /\ TypeOK' /\ WhereTheLoopIs /\ PendingIsAnnounced /\ QuitIsAnnounced
    /\ [Next]_vars => PendingIsAnnounced' /\ QuitIsAnnounced'
<1> SUFFICES ASSUME TypeOK, TypeOK', WhereTheLoopIs, PendingIsAnnounced,
                    QuitIsAnnounced, [Next]_vars
             PROVE  PendingIsAnnounced' /\ QuitIsAnnounced'
  OBVIOUS
<1> USE DEF WhereTheLoopIs, PendingIsAnnounced, QuitIsAnnounced, WakeupComing, TypeOK
<1>1. ASSUME NEW t \in Callers, QueueInLoop(t) PROVE PendingIsAnnounced' /\ QuitIsAnnounced'
  BY <1>1 DEF QueueInLoop
<1>2. ASSUME NEW t \in Callers, Quit(t) PROVE PendingIsAnnounced' /\ QuitIsAnnounced'
  BY <1>2 DEF Quit
<1>3. ASSUME NEW t \in Callers, Wakeup(t) PROVE PendingIsAnnounced' /\ QuitIsAnnounced'
  BY <1>3 DEF Wakeup
<1>4. CASE OwnerQueuesOutside
  BY <1>4 DEF OwnerQueuesOutside
<1>5. CASE Loop
  BY <1>5 DEF Loop
<1>6. CASE CallbackQueues
  BY <1>6 DEF CallbackQueues
<1>7. CASE CallbackQuits
  BY <1>7 DEF CallbackQuits
<1>8. CASE CallbackReturns
  BY <1>8 DEF CallbackReturns
<1>9. CASE TestQuit
  BY <1>9 DEF TestQuit
<1>10. ASSUME NEW io \in SUBSET IOChannels, Poll(io) PROVE PendingIsAnnounced' /\ QuitIsAnnounced'
  BY <1>10 DEF Poll
<1>11. CASE PollTimeout
  BY <1>11 DEF PollTimeout
<1>12. CASE HandleRead
  BY <1>12 DEF HandleRead
<1>13. ASSUME NEW c \in IOChannels, HandleEvent(c) PROVE PendingIsAnnounced' /\ QuitIsAnnounced'
  BY <1>13 DEF HandleEvent
<1>14. CASE SwapFunctors
  BY <1>14 DEF SwapFunctors
<1>15. CASE RunFunctor
  BY <1>15 DEF RunFunctor
<1>16. CASE FunctorsDone
  BY <1>16 DEF FunctorsDone
<1>17. CASE UNCHANGED vars
  BY <1>17 DEF vars
<1> QED
  BY <1>1, <1>2, <1>3, <1>4, <1>5, <1>6, <1>7, <1>8, <1>9, <1>10, <1>11,
     <1>12, <1>13, <1>14, <1>15, <1>16, <1>17 DEF Next, LoopThread

\* queueInLoop() and quit() never leave their work to the poll timeout, however
\* many threads call them, but for what the owner queues outside loop().
THEOREM WakeupNeverLost == Spec => []NoLostWakeup
<1>1. Init => WhereTheLoopIs /\ PendingIsAnnounced /\ QuitIsAnnounced
  BY Zenon DEF Init, WhereTheLoopIs, PendingIsAnnounced, QuitIsAnnounced
<1>2. IInv /\ TypeOK' /\ [Next]_vars => IInv'
  BY WhereTheLoopIsInductive, AnnouncedInductive DEF IInv
<1>3. IInv => NoLostWakeup
  BY DEF IInv, PendingIsAnnounced, QuitIsAnnounced, NoLostWakeup
<1>4. Spec => []IInv
  BY <1>1, <1>2, TypeCorrect, PTL DEF Spec, IInv
<1> QED
  BY <1>3, <1>4, PTL

-----------------------------------------------------------------------------
(***************************************************************************)
(* Refinement of TaskQueue.  Only the swap and the run loop need thought:  *)
(* the swap moves the whole of pendingFunctors_ into an empty vector, so   *)
(* the order of acceptance is unchanged.                                   *)
(***************************************************************************)

\* Appending to a concatenation appends to its second part.
LEMMA AppendOfConcat ==
  ASSUME NEW s \in Seq(Nat), NEW t \in Seq(Nat), NEW n \in Nat
  PROVE  Append(s \o t, n) = s \o Append(t, n)
<1>1. s \o t \in Seq(Nat) /\ Append(t, n) \in Seq(Nat)
  BY ConcatProperties, AppendProperties
<1>2. Append(s \o t, n) \in Seq(Nat) /\ s \o Append(t, n) \in Seq(Nat)
  BY <1>1, ConcatProperties, AppendProperties
<1>3. Len(Append(s \o t, n)) = Len(s \o Append(t, n))
  BY <1>1, ConcatProperties, AppendProperties, LenProperties
<1>4. \A i \in 1..Len(Append(s \o t, n)) :
        Append(s \o t, n)[i] = (s \o Append(t, n))[i]
  BY <1>1, <1>2
<1> QED
  BY <1>2, <1>3, <1>4, SeqEqual

\* queueInLoop() pushes at the back of what is waiting.
LEMMA PushAccepts ==
  ASSUME TypeOK, Queued < MaxFunctors,
         pendingFunctors_' = Append(pendingFunctors_, Queued + 1),
         functors' = functors, ran' = ran
  PROVE  Tasks!Accept
<1> DEFINE todo == functors \o pendingFunctors_
<1>1. Queued \in Nat /\ Len(todo) = Len(functors) + Len(pendingFunctors_)
  BY LenProperties, ConcatProperties DEF TypeOK, Queued
<1>2. Tasks!NextFunctor = Queued + 1
  BY <1>1, LenProperties DEF Tasks!NextFunctor, Queued, TypeOK
<1>3. Append(todo, Queued + 1) = functors \o Append(pendingFunctors_, Queued + 1)
  <2>1. functors \in Seq(Nat) /\ pendingFunctors_ \in Seq(Nat) /\ Queued + 1 \in Nat
    BY <1>1 DEF TypeOK
  <2> QED
    BY <2>1, AppendOfConcat
<1> QED
  BY <1>1, <1>2, <1>3, MaxFunctorsAssumption DEF Tasks!Accept

\* The run loop takes the oldest functor.
LEMMA RunTakesOldest ==
  ASSUME TypeOK, RunFunctor
  PROVE  Tasks!RunOldest
<1> DEFINE todo == functors \o pendingFunctors_
<1>1. todo \in Seq(Nat) /\ todo # <<>>
  BY ConcatProperties, ConcatSimplifications DEF TypeOK, RunFunctor
<1>2. Head(todo) = Head(functors)
  BY <1>1, ConcatProperties, EmptySeq DEF TypeOK, RunFunctor
<1>3. Tail(todo) = Tail(functors) \o pendingFunctors_
  <2> DEFINE rest == Tail(functors) \o pendingFunctors_
  <2>1. functors \in Seq(Nat) /\ pendingFunctors_ \in Seq(Nat) /\ functors # <<>>
    BY DEF TypeOK, RunFunctor
  <2>2. Tail(functors) \in Seq(Nat) /\ Len(Tail(functors)) = Len(functors) - 1
    BY <2>1, HeadTailProperties
  <2>3. /\ Len(todo) = Len(functors) + Len(pendingFunctors_)
        /\ Len(Tail(todo)) = Len(todo) - 1
        /\ Tail(todo) \in Seq(Nat)
    BY <1>1, <2>1, ConcatProperties, HeadTailProperties
  <2>4. rest \in Seq(Nat) /\ Len(rest) = Len(Tail(todo))
    BY <2>1, <2>2, <2>3, ConcatProperties, LenProperties
  <2>5. ASSUME NEW i \in 1..Len(Tail(todo)) PROVE Tail(todo)[i] = rest[i]
    <3>1. Tail(todo)[i] = todo[i + 1]
      BY <1>1, HeadTailProperties
    <3>2. i + 1 \in 1..(Len(functors) + Len(pendingFunctors_)) /\ i \in Nat
      BY <2>1, <2>3, LenProperties
    <3>3. todo[i + 1] = IF i + 1 <= Len(functors) THEN functors[i + 1]
                        ELSE pendingFunctors_[i + 1 - Len(functors)]
      BY <2>1, <3>2, ConcatProperties
    <3>4. rest[i] = IF i <= Len(functors) - 1 THEN Tail(functors)[i]
                    ELSE pendingFunctors_[i - (Len(functors) - 1)]
      BY <2>1, <2>2, <2>3, <3>2, ConcatProperties, LenProperties
    <3>5. i <= Len(functors) - 1 => Tail(functors)[i] = functors[i + 1]
      BY <2>1, <2>2, <3>2, HeadTailProperties, LenProperties
    <3> QED
      BY <2>1, <3>1, <3>2, <3>3, <3>4, <3>5, LenProperties
  <2> QED
    BY <2>3, <2>4, <2>5, SeqEqual
<1> QED
  BY <1>1, <1>2, <1>3 DEF Tasks!RunOldest, RunFunctor

\* A step of the loop or of its callers is one of the task queue, or moves no task.
LEMMA LoopStepIsTaskStep ==
  TypeOK /\ WhereTheLoopIs /\ [Next]_vars => [Tasks!TaskNext]_(Tasks!taskVars)
<1> SUFFICES ASSUME TypeOK, WhereTheLoopIs, [Next]_vars
             PROVE  Tasks!TaskNext \/ UNCHANGED Tasks!taskVars
  OBVIOUS
<1> USE DEF Tasks!TaskNext
<1>1. ASSUME NEW t \in Callers, QueueInLoop(t) PROVE Tasks!TaskNext
  BY <1>1, PushAccepts DEF QueueInLoop
<1>2. CASE OwnerQueuesOutside
  BY <1>2, PushAccepts DEF OwnerQueuesOutside
<1>3. CASE CallbackQueues
  BY <1>3, PushAccepts DEF CallbackQueues
<1>4. CASE RunFunctor
  BY <1>4, RunTakesOldest
<1>5. CASE SwapFunctors
  <2>1. functors \o pendingFunctors_ = pendingFunctors_
    BY <1>5, ConcatEmptySeq DEF WhereTheLoopIs, TypeOK, SwapFunctors
  <2>2. (functors \o pendingFunctors_)' = pendingFunctors_
    BY <1>5, ConcatEmptySeq DEF TypeOK, SwapFunctors
  <2> QED
    BY <1>5, <2>1, <2>2 DEF Tasks!taskVars, SwapFunctors
<1>6. CASE UNCHANGED <<functors, pendingFunctors_, ran>>
  BY <1>6 DEF Tasks!taskVars
<1>7. \/ \E t \in Callers : QueueInLoop(t)
      \/ OwnerQueuesOutside \/ CallbackQueues \/ RunFunctor \/ SwapFunctors
      \/ UNCHANGED <<functors, pendingFunctors_, ran>>
  BY DEF Next, LoopThread, vars, Quit, Wakeup, Loop, CallbackQuits,
         CallbackReturns, TestQuit, Poll, PollTimeout, HandleRead,
         HandleEvent, FunctorsDone
<1> QED
  BY <1>1, <1>2, <1>3, <1>4, <1>5, <1>6, <1>7

\* Nothing is queued and nothing has run when the loop is made.
LEMMA InitiallyNoTask == Init => Tasks!TaskInit /\ WhereTheLoopIs
<1>1. Init => Tasks!TaskInit
  BY ConcatEmptySeq, EmptySeq DEF Init, Tasks!TaskInit
<1>2. Init => WhereTheLoopIs
  BY Zenon DEF Init, WhereTheLoopIs
<1> QED
  BY <1>1, <1>2

\* The event loop implements the task queue: whatever the interleaving of
\* queueInLoop(), the swap and the run loop, every functor is run at most once
\* and in the order of acceptance.
THEOREM LoopIsTaskQueue == Spec => RunsInOrder
  BY InitiallyNoTask, LoopStepIsTaskStep, TypeCorrect, WhereTheLoopIsInductive, PTL
     DEF Spec, RunsInOrder, Tasks!TaskSpec

-----------------------------------------------------------------------------
(***************************************************************************)
(* EventLoopThread.  Its steps are steps of the loop and its callers, but  *)
(* for the late wakeup() of a loop that is already destroyed; so the facts *)
(* above carry over, those about wakeups for as long as there is a loop.   *)
(***************************************************************************)

\* Who may be where: threadFunc() is inside loop() only while loop_ points to it, a
\* user past startLoop() has seen loop_ set, and one past the destructor has either
\* never started the thread or seen it leave the loop.
WhereTheThreadsAre ==
  /\ thread # "looping" => pc = "idle"
  /\ loop_ <=> thread \in {"published", "looping"}
  /\ user = "new" => thread = "new"
  /\ user = "started" => thread \in {"published", "looping", "cleared", "destroyed"}
  /\ user = "gone" => thread \in {"new", "cleared", "destroyed"}

ThreadIInv ==
  /\ ThreadTypeOK /\ WhereTheLoopIs /\ WhereTheThreadsAre
  /\ thread # "destroyed" => PendingIsAnnounced /\ QuitIsAnnounced

\* Every step of the composition is one of the loop, or a wakeup() that comes late.
LEMMA ThreadStepIsLoopStep ==
  [ThreadNext]_allVars => [Next]_vars \/ DanglingWakeup
<1> SUFFICES ASSUME [ThreadNext]_allVars PROVE [Next]_vars \/ DanglingWakeup
  OBVIOUS
<1>1. CASE UNCHANGED allVars
  BY <1>1 DEF allVars
<1>2. CASE UserThread
  BY <1>2, UserAssumption
     DEF UserThread, StartLoop, StartLoopReturns, UserQueues, UserWakes, DtorTest,
         DtorQuit, DtorFaults, DtorJoins, Next
<1>3. CASE LoopOwner
  BY <1>3 DEF LoopOwner, ThreadCreates, ThreadInitCallback, ThreadPublishes, ThreadLoops,
              ThreadInLoop, ThreadClears, ThreadDestroys, Next
<1> QED
  BY <1>1, <1>2, <1>3 DEF ThreadNext

\* The object and its thread keep to the places that startLoop() and join() allow.
LEMMA WhereTheThreadsAreKept ==
  ThreadTypeOK /\ WhereTheLoopIs /\ WhereTheThreadsAre /\ [ThreadNext]_allVars
    => WhereTheThreadsAre'
<1> SUFFICES ASSUME ThreadTypeOK, WhereTheLoopIs, WhereTheThreadsAre, [ThreadNext]_allVars
             PROVE  WhereTheThreadsAre'
  OBVIOUS
<1> USE DEF ThreadTypeOK, WhereTheThreadsAre, vars, threadVars
<1>1. CASE StartLoop
  BY <1>1 DEF StartLoop
<1>2. CASE StartLoopReturns
  BY <1>2 DEF StartLoopReturns
<1>3. CASE UserQueues
  BY <1>3 DEF UserQueues, QueueInLoop
<1>4. CASE UserWakes
  BY <1>4 DEF UserWakes, Wakeup
<1>5. CASE DtorTest
  BY <1>5 DEF DtorTest
<1>6. CASE DtorQuit
  BY <1>6 DEF DtorQuit, Quit
<1>7. CASE DtorFaults
  BY <1>7 DEF DtorFaults
<1>8. CASE DanglingWakeup
  BY <1>8 DEF DanglingWakeup
<1>9. CASE DtorJoins
  BY <1>9 DEF DtorJoins
<1>10. CASE ThreadCreates
  BY <1>10 DEF ThreadCreates
<1>11. CASE ThreadInitCallback
  BY <1>11 DEF ThreadInitCallback, OwnerQueuesOutside
<1>12. CASE ThreadPublishes
  BY <1>12 DEF ThreadPublishes
<1>13. CASE ThreadLoops
  BY <1>13 DEF ThreadLoops, Loop
<1>14. CASE ThreadInLoop
  BY <1>14 DEF ThreadInLoop
<1>15. CASE ThreadClears
  BY <1>15 DEF ThreadClears
<1>16. CASE ThreadDestroys
  BY <1>16 DEF ThreadDestroys
<1>17. CASE UNCHANGED allVars
  BY <1>17 DEF allVars
<1> QED
  BY <1>1, <1>2, <1>3, <1>4, <1>5, <1>6, <1>7, <1>8, <1>9, <1>10, <1>11, <1>12,
     <1>13, <1>14, <1>15, <1>16, <1>17 DEF ThreadNext, UserThread, LoopOwner

\* The variables of the object stay in their ranges.
LEMMA ThreadTypeOKKept ==
  ThreadTypeOK /\ [ThreadNext]_allVars => ThreadTypeOK'
<1> SUFFICES ASSUME ThreadTypeOK, [ThreadNext]_allVars PROVE ThreadTypeOK'
  OBVIOUS
<1>1. TypeOK'
  <2>1. CASE DanglingWakeup
    BY <2>1, UserAssumption DEF DanglingWakeup, ThreadTypeOK, TypeOK
  <2> QED
    BY <2>1, ThreadStepIsLoopStep, TypeOKKept DEF ThreadTypeOK
<1>2. /\ user' \in {"new", "waiting", "started", "quitting", "joining", "gone", "faulted"}
      /\ thread' \in {"new", "starting", "created", "published", "looping", "cleared",
                      "destroyed"}
      /\ loop_' \in BOOLEAN
  BY DEF ThreadTypeOK, ThreadNext, UserThread, LoopOwner, StartLoop, StartLoopReturns,
         UserQueues, UserWakes, DtorTest, DtorQuit, DtorFaults, DanglingWakeup, DtorJoins,
         ThreadCreates, ThreadInitCallback, ThreadPublishes, ThreadLoops, ThreadInLoop,
         ThreadClears, ThreadDestroys, threadVars, allVars
<1> QED
  BY <1>1, <1>2 DEF ThreadTypeOK

\* The invariant of the composition holds in every state of it.
LEMMA ThreadInvariant == ThreadSpec => []ThreadIInv
<1>1. ThreadInit => ThreadIInv
  <2> SUFFICES ASSUME ThreadInit PROVE ThreadIInv
    OBVIOUS
  <2>1. TypeOK /\ WhereTheLoopIs /\ PendingIsAnnounced /\ QuitIsAnnounced
    BY TypeOKInitially, InitiallyNoTask, Zenon
       DEF ThreadInit, Init, PendingIsAnnounced, QuitIsAnnounced
  <2>2. WhereTheThreadsAre /\ ThreadTypeOK
    BY <2>1 DEF ThreadInit, Init, WhereTheThreadsAre, ThreadTypeOK
  <2> QED
    BY <2>1, <2>2 DEF ThreadIInv
<1>2. ThreadIInv /\ [ThreadNext]_allVars => ThreadIInv'
  <2> SUFFICES ASSUME ThreadIInv, [ThreadNext]_allVars PROVE ThreadIInv'
    OBVIOUS
  <2>1. ThreadTypeOK' /\ WhereTheThreadsAre'
    BY ThreadTypeOKKept, WhereTheThreadsAreKept DEF ThreadIInv
  <2>2. CASE DanglingWakeup
    <3>1. WhereTheLoopIs'
      BY <2>2 DEF ThreadIInv, WhereTheLoopIs, DanglingWakeup
    <3>2. thread' = "destroyed"
      BY <2>2 DEF DanglingWakeup
    <3> QED
      BY <2>1, <3>1, <3>2 DEF ThreadIInv
  <2>3. CASE [Next]_vars
    <3>1. WhereTheLoopIs'
      BY <2>3, WhereTheLoopIsInductive DEF ThreadIInv, ThreadTypeOK
    <3>2. thread' # "destroyed" => thread # "destroyed"
      BY DEF ThreadNext, UserThread, LoopOwner, StartLoop, StartLoopReturns, UserQueues,
             UserWakes, DtorTest, DtorQuit, DtorFaults, DanglingWakeup, DtorJoins,
             ThreadCreates, ThreadInitCallback, ThreadPublishes, ThreadLoops, ThreadInLoop,
             ThreadClears, ThreadDestroys, threadVars, allVars
    <3>3. thread' # "destroyed" => PendingIsAnnounced' /\ QuitIsAnnounced'
      BY <2>1, <2>3, <3>2, AnnouncedInductive DEF ThreadIInv, ThreadTypeOK
    <3> QED
      BY <2>1, <3>1, <3>3 DEF ThreadIInv
  <2> QED
    BY <2>2, <2>3, ThreadStepIsLoopStep
<1> QED
  BY <1>1, <1>2, PTL DEF ThreadSpec

\* When ~EventLoopThread() has ended, whether it stopped the loop or found loop_ null,
\* threadFunc() is outside loop() and will not enter it.
THEOREM ThreadOutlived == ThreadSpec => []ObjectOutlivesLoop
<1>1. ThreadIInv => ObjectOutlivesLoop
  BY DEF ThreadIInv, WhereTheThreadsAre, ObjectOutlivesLoop
<1> QED
  BY <1>1, ThreadInvariant, PTL

\* No wakeup is lost in the composition either: a late wakeup() of a destroyed loop
\* finds nobody in poll().
THEOREM ThreadLosesNoWakeup == ThreadSpec => []NoLostWakeup
<1>1. ThreadIInv => NoLostWakeup
  BY DEF ThreadIInv, WhereTheThreadsAre, PendingIsAnnounced, QuitIsAnnounced, NoLostWakeup
<1> QED
  BY <1>1, ThreadInvariant, PTL

\* The loop of an EventLoopThread runs what the ThreadInitCallback and the user queue
\* in the order in which they did.
THEOREM ThreadRunsInOrder == ThreadSpec => RunsInOrder
<1>1. ThreadIInv /\ [ThreadNext]_allVars => [Tasks!TaskNext]_(Tasks!taskVars)
  <2>1. DanglingWakeup => UNCHANGED Tasks!taskVars
    BY DEF DanglingWakeup, Tasks!taskVars
  <2> QED
    BY <2>1, ThreadStepIsLoopStep, LoopStepIsTaskStep DEF ThreadIInv, ThreadTypeOK
<1>2. ThreadInit => Tasks!TaskInit
  BY InitiallyNoTask DEF ThreadInit
<1> QED
  BY <1>1, <1>2, ThreadInvariant, PTL DEF ThreadSpec, RunsInOrder, Tasks!TaskSpec

=============================================================================
