----------------------------- MODULE TimerQueue -----------------------------
(***************************************************************************)
(* master/net/TimerQueue.cc with Timer.cc and the timer calls of           *)
(* EventLoop.cc: the timers of one loop, added and cancelled by callbacks  *)
(* in the loop's thread and by other threads.                              *)
(*                                                                         *)
(* A Timer is an object at an address of Addrs, and an address is used     *)
(* again after delete: a TimerId is the pair of address and sequence       *)
(* number.  timerfd_ counts down in real time, the expirations are wall    *)
(* clock times, and the wall clock may be set back.  Time is counted in    *)
(* units of the 100 microseconds that howMuchTimeFromNow() asks for at     *)
(* least.  The destructor is left out: it runs when the loop is over.      *)
(***************************************************************************)
EXTENDS Naturals, Sequences, FiniteSets

CONSTANTS
  Addrs,       \* addresses of Timer timerAt, natural numbers
  MaxTimers,   \* bound on the timers created
  MaxTime,     \* the wall clock stops here
  MaxJumps,    \* bound on how often the wall clock is set back
  MaxQueue     \* bound on the functors waiting when another thread adds one

ASSUME TimerBounds ==
  Addrs \subseteq Nat /\ {MaxTimers, MaxTime, MaxJumps, MaxQueue} \subseteq Nat /\ MaxTime > 0

VARIABLES
  now,               \* Timestamp::now()
  jumps,             \* how often it was set back
  alarm,             \* what timerfd_ has left to count, 0 when it is disarmed
  ready,             \* timerfd_ is readable
  polled,            \* timerfdChannel_ is among the active channels of this round
  timerAt,           \* the live Timer at each address, or Freed
  numCreated,        \* Timer::s_numCreated_
  timers_, activeTimers_, cancelingTimers_, callingExpiredTimers_,
  expired,           \* handleRead()'s local vector
  next,              \* how many of expired have run
  readAt,            \* handleRead()'s local now
  timerCalls,        \* addTimerInLoop() and cancelInLoop() calls queued in the loop
  ids,               \* history: the TimerIds handed out
  ran,               \* history: the TimerIds that ran
  cancelled,         \* history: those cancelInLoop() was given after addTimerInLoop()
  overtaken          \* history: those it was given in vain, while addTimerInLoop() still
                     \* waited, until they run or are given to it again

clock == <<now, jumps>>
fd == <<alarm, ready>>
sets == <<timers_, activeTimers_, cancelingTimers_>>
batch == <<callingExpiredTimers_, expired, next, readAt>>
history == <<ids, ran, cancelled, overtaken>>
timerVars == <<clock, fd, polled, timerAt, numCreated, sets, batch, timerCalls, history>>

Freed == [sequence |-> 0, expiration |-> 0, interval |-> 0, first |-> 0]

Id(a) == <<a, timerAt[a].sequence>>

TimerTypeOK ==
  /\ now \in 0..MaxTime /\ jumps \in 0..MaxJumps
  /\ alarm \in Nat /\ ready \in BOOLEAN /\ polled \in BOOLEAN
  /\ timerAt \in [Addrs -> [sequence : 0..MaxTimers, expiration : Nat, interval : Nat,
                            first : Nat]]
  /\ numCreated \in 0..MaxTimers
  /\ timers_ \subseteq (Nat \X Addrs)
  /\ {activeTimers_, cancelingTimers_, ids, ran, cancelled, overtaken}
       \subseteq SUBSET (Addrs \X (1..MaxTimers))
  /\ callingExpiredTimers_ \in BOOLEAN
  /\ expired \in Seq(Nat \X Addrs) /\ next \in 0..Len(expired)
  /\ readAt \in 0..MaxTime
  /\ timerCalls \in Seq([op : {"add", "cancel"}, id : Addrs \X (1..MaxTimers)])

TimerInit ==
  /\ now = 1 /\ jumps = 0
  /\ alarm = 0 /\ ready = FALSE /\ polled = FALSE
  /\ timerAt = [a \in Addrs |-> Freed] /\ numCreated = 0
  /\ timers_ = {} /\ activeTimers_ = {} /\ cancelingTimers_ = {}
  /\ callingExpiredTimers_ = FALSE /\ expired = <<>> /\ next = 0 /\ readAt = 0
  /\ timerCalls = <<>>
  /\ ids = {} /\ ran = {} /\ cancelled = {} /\ overtaken = {}

-----------------------------------------------------------------------------
(* Clock and timerfd *)

\* resetTimerfd() and howMuchTimeFromNow(): timerfd_settime() also takes back
\* an expiration that nobody has read.
ResetTimerfd(when) ==
  /\ alarm' = IF when > now + 1 THEN when - now ELSE 1
  /\ ready' = FALSE

Tick ==
  /\ now' = IF now < MaxTime THEN now + 1 ELSE now
  /\ alarm' = IF alarm > 0 THEN alarm - 1 ELSE 0
  /\ ready' = (ready \/ alarm = 1)
  /\ UNCHANGED <<jumps, polled, timerAt, numCreated, sets, batch, timerCalls, history>>

ClockSetBack ==
  /\ jumps < MaxJumps /\ now > 1
  /\ now' = now - 1
  /\ jumps' = jumps + 1
  /\ UNCHANGED <<fd, polled, timerAt, numCreated, sets, batch, timerCalls, history>>

-----------------------------------------------------------------------------
(* What the operations do in the loop *)

\* std::pair's order: the expiration first, then the address.
Before(e, f) == e[1] < f[1] \/ (e[1] = f[1] /\ e[2] < f[2])

Earliest(entries) == CHOOSE e \in entries : \A f \in entries : e = f \/ Before(e, f)

\* insert() returns earliestChanged.
EarliestChanged(when) == \A e \in timers_ : when < e[1]

\* addTimerInLoop(): insert(), and the alarm if the timer is the earliest now.
AddTimerInLoop(a, timer) ==
  /\ timers_' = timers_ \cup {<<timer.expiration, a>>}
  /\ activeTimers_' = activeTimers_ \cup {<<a, timer.sequence>>}
  /\ IF EarliestChanged(timer.expiration) THEN ResetTimerfd(timer.expiration)
                                          ELSE UNCHANGED fd

\* Mutant of FindActive: takes every timer for a waiting one.
FindAlways(id) == {id}

\* activeTimers_.find()
FindActive(id) == activeTimers_ \cap {id}

\* The ids whose addTimerInLoop() still waits: addTimer() in another thread has
\* returned the id, and a cancelInLoop() that overtakes the functor finds nothing.
Unadded == {timerCalls[i].id : i \in {j \in DOMAIN timerCalls : timerCalls[j].op = "add"}}

\* What cancelInLoop() is given, for the history.
Given(id) ==
  /\ cancelled' = cancelled \cup ({id} \ Unadded)
  /\ overtaken' = (overtaken \ {id}) \cup ({id} \cap Unadded)

\* Mutant of CancelInLoop: does not remember what is cancelled while it runs.
CancelWaiting(id) ==
  /\ timers_' = {e \in timers_ : FindActive(id) = {} \/ e[2] # id[1]}
  /\ activeTimers_' = activeTimers_ \ FindActive(id)
  /\ timerAt' = IF FindActive(id) = {} THEN timerAt
                ELSE [timerAt EXCEPT ![id[1]] = Freed]
  /\ UNCHANGED cancelingTimers_
  /\ Given(id)

\* cancelInLoop(): a waiting timer is deleted, one that runs now is remembered.
CancelInLoop(id) ==
  /\ timers_' = {e \in timers_ : FindActive(id) = {} \/ e[2] # id[1]}
  /\ activeTimers_' = activeTimers_ \ FindActive(id)
  /\ timerAt' = IF FindActive(id) = {} THEN timerAt
                ELSE [timerAt EXCEPT ![id[1]] = Freed]
  /\ cancelingTimers_' = IF FindActive(id) = {} /\ callingExpiredTimers_
                           THEN cancelingTimers_ \cup {id} ELSE cancelingTimers_
  /\ Given(id)

-----------------------------------------------------------------------------
(* The interface: runAt(), runAfter(), runEvery() and cancel() *)

\* The constructor of Timer, at a free address.
NewTimer(a) ==
  /\ timerAt[a] = Freed
  /\ numCreated < MaxTimers
  /\ numCreated' = numCreated + 1
  /\ ids' = ids \cup {<<a, numCreated + 1>>}

MadeTimer(when, interval) ==
  [sequence |-> numCreated + 1, expiration |-> when, interval |-> interval, first |-> when]

\* addTimer() by a callback or functor in the loop's thread
AddTimer(a, when, interval) ==
  /\ NewTimer(a)
  /\ timerAt' = [timerAt EXCEPT ![a] = MadeTimer(when, interval)]
  /\ AddTimerInLoop(a, MadeTimer(when, interval))
  /\ UNCHANGED <<clock, polled, cancelingTimers_, batch, timerCalls, ran, cancelled,
                 overtaken>>

\* addTimer() by another thread
QueueTimer(a, when, interval) ==
  /\ Len(timerCalls) < MaxQueue
  /\ NewTimer(a)
  /\ timerAt' = [timerAt EXCEPT ![a] = MadeTimer(when, interval)]
  /\ timerCalls' = Append(timerCalls, [op |-> "add", id |-> <<a, numCreated + 1>>])
  /\ UNCHANGED <<clock, fd, polled, sets, batch, ran, cancelled, overtaken>>

\* cancel() by a callback or functor in the loop's thread
Cancel(id) ==
  /\ CancelInLoop(id)
  /\ UNCHANGED <<clock, fd, polled, numCreated, batch, timerCalls, ids, ran>>

\* cancel() by another thread
QueueCancel(id) ==
  /\ Len(timerCalls) < MaxQueue
  /\ timerCalls' = Append(timerCalls, [op |-> "cancel", id |-> id])
  /\ UNCHANGED <<clock, fd, polled, timerAt, numCreated, sets, batch, history>>

-----------------------------------------------------------------------------
(* The loop *)

\* doPendingFunctors(), one functor; no channel is active then.
RunTimerCall ==
  /\ ~callingExpiredTimers_ /\ ~polled
  /\ timerCalls # <<>>
  /\ timerCalls' = Tail(timerCalls)
  /\ LET f == Head(timerCalls) IN
     \/ /\ f.op = "add"
        /\ AddTimerInLoop(f.id[1], timerAt[f.id[1]])
        /\ UNCHANGED <<timerAt, cancelingTimers_, cancelled, overtaken>>
     \/ /\ f.op = "cancel"
        /\ CancelInLoop(f.id)
        /\ UNCHANGED fd
  /\ UNCHANGED <<clock, polled, numCreated, batch, ids, ran>>

\* poll() finds the timerfd readable; other channels may be handled before it.
PollTimerfd ==
  /\ ~callingExpiredTimers_ /\ ~polled
  /\ ready
  /\ polled' = TRUE
  /\ UNCHANGED <<clock, fd, timerAt, numCreated, sets, batch, timerCalls, history>>

\* getExpired(): lower_bound() of the sentry (now, UINTPTR_MAX).
Due(t) == {e \in timers_ : e[1] <= t}

\* The set's elements in its order, as std::copy() of a std::set yields them: there is one.
Sortings(entries) ==
  {s \in [1..Cardinality(entries) -> entries] :
     \A i, j \in DOMAIN s : i < j => Before(s[i], s[j])}

\* handleRead() up to the first run(): readTimerfd(), getExpired(), clear().
HandleRead ==
  /\ polled
  /\ polled' = FALSE
  /\ ready' = FALSE
  /\ expired' \in Sortings(Due(now))
  /\ timers_' = timers_ \ Due(now)
  /\ activeTimers_' = activeTimers_ \ {Id(e[2]) : e \in Due(now)}
  /\ callingExpiredTimers_' = TRUE
  /\ next' = 0
  /\ readAt' = now
  /\ cancelingTimers_' = {}
  /\ UNCHANGED <<clock, alarm, timerAt, numCreated, timerCalls, history>>

RunTimer ==
  /\ callingExpiredTimers_
  /\ next < Len(expired)
  /\ next' = next + 1
  /\ ran' = ran \cup {Id(expired[next + 1][2])}
  /\ overtaken' = overtaken \ ran'
  /\ UNCHANGED <<clock, fd, polled, timerAt, numCreated, sets, callingExpiredTimers_,
                 expired, readAt, timerCalls, ids, cancelled>>

\* Mutant of ArmsNext: rearms only when timers have run.
ArmsAfterRun(entries) == entries # {} /\ expired # <<>>

\* reset() arms the timerfd when a valid expiration is left.
ArmsNext(entries) == entries # {} /\ Earliest(entries)[1] > 0

\* reset(): repeating timers that were not cancelled are restarted, the others deleted.
Reset(t) ==
  LET batchAddrs == {expired[i][2] : i \in DOMAIN expired}
      restarted == {a \in batchAddrs : timerAt[a].interval > 0 /\ Id(a) \notin cancelingTimers_}
      left == timers_ \cup {<<t + timerAt[a].interval, a>> : a \in restarted}
  IN
  /\ timers_' = left
  /\ activeTimers_' = activeTimers_ \cup {Id(a) : a \in restarted}
  /\ timerAt' = [a \in Addrs |->
                   IF a \in restarted
                     THEN [timerAt[a] EXCEPT !.expiration = t + timerAt[a].interval]
                   ELSE IF a \in batchAddrs THEN Freed ELSE timerAt[a]]
  /\ IF ArmsNext(left) THEN ResetTimerfd(Earliest(left)[1]) ELSE UNCHANGED fd

EndHandleRead ==
  /\ callingExpiredTimers_
  /\ next = Len(expired)
  /\ callingExpiredTimers_' = FALSE
  /\ Reset(readAt)
  /\ expired' = <<>> /\ next' = 0 /\ readAt' = 0
  /\ UNCHANGED <<clock, polled, numCreated, cancelingTimers_, timerCalls, history>>
-----------------------------------------------------------------------------
TimerUser ==
  \E a \in Addrs :
    \/ \E when \in 0..MaxTime : AddTimer(a, when, 0) \/ QueueTimer(a, when, 0)
    \/ AddTimer(a, now + 1, 1) \/ QueueTimer(a, now + 1, 1)
    \/ \E id \in ids : Cancel(id) \/ QueueCancel(id)

Loop == RunTimerCall \/ PollTimerfd \/ HandleRead \/ RunTimer \/ EndHandleRead

TimerNext == Tick \/ ClockSetBack \/ TimerUser \/ Loop

\* The clock runs, callbacks return, and every round of loop() polls and then runs
\* the functors that wait: neither keeps the other out for ever.
TimerFairness ==
  /\ WF_timerVars(Tick) /\ WF_timerVars(HandleRead) /\ WF_timerVars(RunTimer)
  /\ WF_timerVars(EndHandleRead) /\ SF_timerVars(PollTimerfd) /\ SF_timerVars(RunTimerCall)

Spec == TimerInit /\ [][TimerNext]_timerVars /\ TimerFairness

-----------------------------------------------------------------------------
(* Properties *)

\* The two sets hold the same timers, as the asserts of cancelInLoop(), getExpired()
\* and insert() demand, and no set and no batch refers to a deleted Timer or to
\* another one that got its address.
NoDanglingTimer ==
  /\ activeTimers_ = {Id(e[2]) : e \in timers_}
  /\ Cardinality(timers_) = Cardinality(activeTimers_)
  /\ \A e \in timers_ : timerAt[e[2]].sequence > 0 /\ timerAt[e[2]].expiration = e[1]
  /\ \A i \in DOMAIN expired :
       timerAt[expired[i][2]].sequence > 0 /\ Id(expired[i][2]) \notin activeTimers_

\* A timer given to cancelInLoop() once its addTimerInLoop() has run is never waiting
\* again: not even a repeating one that was cancelled by its own callback, or by a
\* callback before it in its batch, which still runs that one time.
CancelIsFinal == cancelled \cap activeTimers_ = {}

\* What EventLoop.h:75-76 says of cancel(), "Cancels the timer. Safe to call from other
\* threads.": no timer given to cancelInLoop() is waiting afterwards, not even one whose
\* addTimerInLoop() another thread has queued and the loop not run yet.
CancelNeverMissed == (cancelled \cup overtaken) \cap activeTimers_ = {}

\* Every timer that is not cancelled, or cancelled in vain because its addTimerInLoop()
\* still waited, runs once its time has come, whatever other timers come and go and
\* although the wall clock may be set back: the timerfd is never left disarmed, and
\* cancelling by an old TimerId hits no other timer.
TimersRun ==
  \A a \in Addrs : \A s \in 1..MaxTimers :
    (Id(a) = <<a, s>> /\ timerAt[a].first <= MaxTime) ~> (<<a, s>> \in ran \cup cancelled)
=============================================================================
