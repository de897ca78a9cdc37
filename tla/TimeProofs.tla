----------------------------- MODULE TimeProofs -----------------------------
(***************************************************************************)
(* What TLAPS proves of TimerQueue and Calendar.                           *)
(*                                                                         *)
(* TimerQueue, for any number of addresses, timers and queued calls and    *)
(* for a clock that is set back as often as it likes.                      *)
(*                                                                         *)
(* NoDanglingTimer and CancelIsFinal are not inductive.  A Timer is in one *)
(* of four places: in timers_ and activeTimers_, in the batch that         *)
(* handleRead() runs, in an addTimerInLoop() that still waits, or gone.    *)
(* The invariant says that these places are disjoint and that whoever      *)
(* holds an address holds the Timer that is alive there; and that an id    *)
(* once cancelled is in none of them, but for the batch, where             *)
(* cancelingTimers_ remembers it until reset().                            *)
(*                                                                         *)
(* Calendar, for any day after any first of January and any second of any  *)
(* zone that ZoneBounds allows.  The formulas of Date.cc are taken apart   *)
(* into a year that begins in March and a day of it, from which each of    *)
(* their quotients is found again; findLocaltime() is shown to find the    *)
(* last transition not after a time, by either key.                        *)
(***************************************************************************)
EXTENDS TimerQueue, Calendar, SequenceTheorems, FiniteSetTheorems, WellFoundedInduction, TLAPS

\* What waits is alive, and both sets have it under the same id and expiration.
WaitingAgree ==
  /\ IsFiniteSet(timers_)
  /\ \A e \in timers_ : /\ timerAt[e[2]].sequence > 0
                        /\ timerAt[e[2]].expiration = e[1]
                        /\ Id(e[2]) \in activeTimers_
  /\ \A id \in activeTimers_ : /\ timerAt[id[1]].sequence = id[2]
                               /\ <<timerAt[id[1]].expiration, id[1]>> \in timers_

\* What handleRead() runs is alive and does not wait.
BatchIsOut ==
  /\ ~callingExpiredTimers_ => expired = <<>>
  /\ \A i \in DOMAIN expired : /\ timerAt[expired[i][2]].sequence > 0
                               /\ Id(expired[i][2]) \notin activeTimers_

\* What is still to be added is alive, neither waits nor runs, and is added once.
QueuedAreOut ==
  \A i \in DOMAIN timerCalls : timerCalls[i].op = "add" =>
    /\ timerAt[timerCalls[i].id[1]].sequence = timerCalls[i].id[2]
    /\ timerCalls[i].id \notin activeTimers_
    /\ \A j \in DOMAIN expired : expired[j][2] # timerCalls[i].id[1]
    /\ \A j \in DOMAIN timerCalls :
         timerCalls[j].op = "add" /\ timerCalls[j].id = timerCalls[i].id => i = j

\* What is cancelled neither waits nor will be added, and reset() will not restart it.
CancelledAreOut ==
  \A id \in cancelled :
    /\ id \notin activeTimers_
    /\ \A i \in DOMAIN timerCalls : timerCalls[i].op = "add" => timerCalls[i].id # id
    /\ \A i \in DOMAIN expired : Id(expired[i][2]) = id => id \in cancelingTimers_

\* Nobody holds the id of a timer that is yet to be created.
IdsAreOld ==
  /\ \A id \in ids : id[2] <= numCreated
  /\ cancelled \subseteq ids
  /\ \A i \in DOMAIN timerCalls : timerCalls[i].id \in ids

TimerInv ==
  /\ TimerTypeOK /\ WaitingAgree /\ BatchIsOut /\ QueuedAreOut /\ CancelledAreOut
  /\ IdsAreOld

PlacesKept ==
  WaitingAgree' /\ BatchIsOut' /\ QueuedAreOut' /\ CancelledAreOut' /\ IdsAreOld'

-----------------------------------------------------------------------------
(* Facts about the operators *)

\* A set of natural numbers has a least one.
LEMMA LeastNat ==
  ASSUME NEW S \in SUBSET Nat, S # {}
  PROVE  \E n \in S : \A m \in S : n <= m
<1> DEFINE Less == OpToRel(<, Nat)
<1>1. IsWellFoundedOn(Less, Nat)
  BY NatLessThanWellFounded
<1>2. PICK n \in S : \A m \in S : ~(<<m, n>> \in Less)
  <2> HIDE DEF Less
  <2> QED
    BY <1>1, WFMin
<1>3. ASSUME NEW m \in S PROVE n <= m
  <2>1. ~(<<m, n>> \in {p \in Nat \X Nat : p[1] < p[2]})
    BY <1>2, Zenon DEF OpToRel
  <2> QED
    BY <2>1
<1> QED
  BY <1>3

\* timers_.begin() is an entry of the set when there is any.
LEMMA EarliestIsEntry ==
  ASSUME NEW entries \in SUBSET (Nat \X Addrs), entries # {}
  PROVE  Earliest(entries) \in entries
<1> DEFINE Times == {e[1] : e \in entries}
<1>1. PICK t \in Times : \A u \in Times : t <= u
  <2>1. Times \in SUBSET Nat /\ Times # {}
    OBVIOUS
  <2> HIDE DEF Times
  <2> QED
    BY <2>1, LeastNat
<1> DEFINE Places == {e[2] : e \in {f \in entries : f[1] = t}}
<1>2. PICK a \in Places : \A b \in Places : a <= b
  <2>1. Places \in SUBSET Nat /\ Places # {}
    BY TimerBounds
  <2> HIDE DEF Places
  <2> QED
    BY <2>1, LeastNat
<1>3. PICK e \in entries : e[1] = t /\ e[2] = a
  OBVIOUS
<1>4. ASSUME NEW f \in entries PROVE e = f \/ Before(e, f)
  <2>1. t \in Nat /\ f[1] \in Nat /\ a \in Nat /\ f[2] \in Nat /\ t <= f[1]
    BY <1>1, <1>2, TimerBounds
  <2>2. f[1] = t => a <= f[2]
    BY <1>2
  <2>3. e = <<e[1], e[2]>> /\ f = <<f[1], f[2]>>
    OBVIOUS
  <2> QED
    BY <1>3, <2>1, <2>2, <2>3 DEF Before
<1> QED
  BY <1>3, <1>4 DEF Earliest

\* getExpired()'s vector holds entries that are due, and all of them are typed.
LEMMA SortingsAreEntries ==
  ASSUME NEW entries \in SUBSET (Nat \X Addrs), IsFiniteSet(entries),
         NEW s \in Sortings(entries)
  PROVE  s \in Seq(Nat \X Addrs) /\ \A i \in DOMAIN s : s[i] \in entries
<1>1. Cardinality(entries) \in Nat
  BY FS_CardinalityType
<1>2. s \in [1..Cardinality(entries) -> entries]
  BY DEF Sortings
<1> QED
  BY <1>1, <1>2

\* resetTimerfd() arms the timerfd with some number.
LEMMA ResetIsTyped ==
  ASSUME TimerTypeOK, NEW when \in Nat, ResetTimerfd(when)
  PROVE  alarm' \in Nat /\ ready' \in BOOLEAN
<1>1. now \in Nat
  BY TimerBounds DEF TimerTypeOK
<1>2. alarm' \in Nat
  BY <1>1 DEF ResetTimerfd
<1>3. ready' \in BOOLEAN
  BY Zenon DEF ResetTimerfd
<1> QED
  BY <1>2, <1>3

\* A batch has finitely many timers.
LEMMA BatchIsFinite ==
  ASSUME NEW s \in Seq(Nat \X Addrs), NEW Restarted, NEW time \in [Addrs -> Nat],
         Restarted \subseteq {s[i][2] : i \in DOMAIN s}
  PROVE  IsFiniteSet({<<time[a], a>> : a \in Restarted})
<1> DEFINE Batch == {s[i][2] : i \in DOMAIN s}
           place == [i \in 1..Len(s) |-> s[i][2]]
           entry == [a \in Restarted |-> <<time[a], a>>]
<1>1. IsFiniteSet(1..Len(s)) /\ DOMAIN s = 1..Len(s)
  BY FS_Interval, LenProperties
<1>2. place \in Surjection(1..Len(s), Batch)
  BY <1>1 DEF Surjection
<1>3. IsFiniteSet(Batch)
  BY <1>1, <1>2, FS_Surjection
<1>4. IsFiniteSet(Restarted)
  BY <1>3, FS_Subset
<1>5. entry \in Surjection(Restarted, {<<time[a], a>> : a \in Restarted})
  BY DEF Surjection
<1> QED
  BY <1>4, <1>5, FS_Surjection

-----------------------------------------------------------------------------
(* Types *)

\* addTimerInLoop() keeps the sets and the timerfd typed.
LEMMA AddIsTyped ==
  ASSUME TimerTypeOK, NEW a \in Addrs, NEW timer, AddTimerInLoop(a, timer),
         timer.expiration \in Nat, timer.sequence \in 1..MaxTimers
  PROVE  /\ timers_' \subseteq Nat \X Addrs
         /\ activeTimers_' \subseteq Addrs \X (1..MaxTimers)
         /\ alarm' \in Nat /\ ready' \in BOOLEAN
<1>1. timers_' \subseteq Nat \X Addrs
  BY DEF TimerTypeOK, AddTimerInLoop
<1>2. activeTimers_' \subseteq Addrs \X (1..MaxTimers)
  BY DEF TimerTypeOK, AddTimerInLoop
<1>3. ResetTimerfd(timer.expiration) \/ UNCHANGED fd
  BY DEF AddTimerInLoop
<1>4. CASE UNCHANGED fd
  BY <1>1, <1>2, <1>4, Zenon DEF fd, TimerTypeOK
<1> QED
  BY <1>1, <1>2, <1>3, <1>4, ResetIsTyped

\* cancelInLoop() keeps the sets typed.
LEMMA CancelIsTyped ==
  ASSUME TimerTypeOK, NEW id \in Addrs \X (1..MaxTimers), CancelInLoop(id)
  PROVE  /\ timers_' \subseteq Nat \X Addrs
         /\ {activeTimers_', cancelingTimers_', cancelled', overtaken'}
              \subseteq SUBSET (Addrs \X (1..MaxTimers))
         /\ timerAt' \in [Addrs -> [sequence : 0..MaxTimers, expiration : Nat,
                                    interval : Nat, first : Nat]]
<1>1. timers_' \subseteq Nat \X Addrs
  BY DEF TimerTypeOK, CancelInLoop
<1>2. /\ activeTimers_' \subseteq Addrs \X (1..MaxTimers)
      /\ cancelingTimers_' \subseteq Addrs \X (1..MaxTimers)
      /\ {cancelled', overtaken'} \subseteq SUBSET (Addrs \X (1..MaxTimers))
  <2>1. activeTimers_' \subseteq Addrs \X (1..MaxTimers)
    BY DEF TimerTypeOK, CancelInLoop
  <2>2. cancelingTimers_' \subseteq Addrs \X (1..MaxTimers)
    BY DEF TimerTypeOK, CancelInLoop
  <2>3. {cancelled', overtaken'} \subseteq SUBSET (Addrs \X (1..MaxTimers))
    BY DEF TimerTypeOK, CancelInLoop, Given
  <2> QED
    BY <2>1, <2>2, <2>3
<1>3. timerAt' \in [Addrs -> [sequence : 0..MaxTimers, expiration : Nat,
                              interval : Nat, first : Nat]]
  <2>1. Freed \in [sequence : 0..MaxTimers, expiration : Nat, interval : Nat, first : Nat]
    BY TimerBounds DEF Freed
  <2> QED
    BY <2>1 DEF TimerTypeOK, CancelInLoop
<1> QED
  BY <1>1, <1>2, <1>3

\* reset() keeps the sets, the timers and the timerfd typed.
LEMMA ResetBatchIsTyped ==
  ASSUME TimerTypeOK, BatchIsOut, NEW t \in Nat, Reset(t)
  PROVE  /\ timers_' \subseteq Nat \X Addrs
         /\ activeTimers_' \subseteq Addrs \X (1..MaxTimers)
         /\ timerAt' \in [Addrs -> [sequence : 0..MaxTimers, expiration : Nat,
                                    interval : Nat, first : Nat]]
         /\ alarm' \in Nat /\ ready' \in BOOLEAN
<1> DEFINE batchAddrs == {expired[i][2] : i \in DOMAIN expired}
           restarted == {a \in batchAddrs :
                           timerAt[a].interval > 0 /\ Id(a) \notin cancelingTimers_}
           left == timers_ \cup {<<t + timerAt[a].interval, a>> : a \in restarted}
<1>1. ASSUME NEW i \in DOMAIN expired
      PROVE  expired[i][2] \in Addrs /\ timerAt[expired[i][2]].sequence > 0
  <2>1. expired[i] \in Nat \X Addrs
    BY DEF TimerTypeOK
  <2> QED
    BY <2>1 DEF BatchIsOut
<1>2. /\ timers_' = left
      /\ activeTimers_' = activeTimers_ \cup {Id(a) : a \in restarted}
      /\ timerAt' = [a \in Addrs |->
                       IF a \in restarted
                         THEN [timerAt[a] EXCEPT !.expiration = t + timerAt[a].interval]
                       ELSE IF a \in batchAddrs THEN Freed ELSE timerAt[a]]
      /\ \/ ArmsNext(left) /\ ResetTimerfd(Earliest(left)[1])
         \/ UNCHANGED fd
  BY DEF Reset
<1>3. \A a \in restarted : a \in Addrs /\ timerAt[a].sequence > 0
  BY <1>1
<1> HIDE DEF restarted, batchAddrs
<1>4. left \subseteq Nat \X Addrs
  BY <1>3 DEF TimerTypeOK
<1>5. ASSUME NEW a \in restarted PROVE Id(a) \in Addrs \X (1..MaxTimers)
  <2>1. timerAt[a].sequence \in 0..MaxTimers /\ timerAt[a].sequence > 0 /\ a \in Addrs
    BY <1>3 DEF TimerTypeOK
  <2> QED
    BY <2>1, TimerBounds DEF Id
<1>6. timerAt' \in [Addrs -> [sequence : 0..MaxTimers, expiration : Nat,
                              interval : Nat, first : Nat]]
  <2>1. Freed \in [sequence : 0..MaxTimers, expiration : Nat, interval : Nat, first : Nat]
    BY TimerBounds DEF Freed
  <2>2. ASSUME NEW a \in Addrs
        PROVE  /\ timerAt[a] \in [sequence : 0..MaxTimers, expiration : Nat,
                                  interval : Nat, first : Nat]
               /\ t + timerAt[a].interval \in Nat
    BY DEF TimerTypeOK
  <2>3. ASSUME NEW a \in Addrs
        PROVE  [timerAt[a] EXCEPT !.expiration = t + timerAt[a].interval]
                 \in [sequence : 0..MaxTimers, expiration : Nat, interval : Nat, first : Nat]
    BY <2>2
  <2> QED
    BY <1>2, <2>1, <2>2, <2>3
<1>7. alarm' \in Nat /\ ready' \in BOOLEAN
  <2>1. CASE UNCHANGED fd
    BY <2>1, Zenon DEF fd, TimerTypeOK
  <2>2. CASE ArmsNext(left) /\ ResetTimerfd(Earliest(left)[1])
    <3>1. Earliest(left) \in left
      BY <2>2, <1>4, EarliestIsEntry DEF ArmsNext
    <3>2. Earliest(left)[1] \in Nat
      BY <1>4, <3>1
    <3> QED
      BY <2>2, <3>2, ResetIsTyped
  <2> QED
    BY <1>2, <2>1, <2>2
<1>8. activeTimers_' \subseteq Addrs \X (1..MaxTimers)
  <2>1. activeTimers_ \subseteq Addrs \X (1..MaxTimers)
    BY DEF TimerTypeOK
  <2> QED
    BY <1>2, <1>3, <1>5, <2>1
<1> QED
  BY <1>2, <1>4, <1>6, <1>7, <1>8

\* Every step keeps the variables in their ranges.
LEMMA TimerTypeOKKept == TimerInv /\ [TimerNext]_timerVars => TimerTypeOK'
<1> SUFFICES ASSUME TimerInv, [TimerNext]_timerVars PROVE TimerTypeOK'
  OBVIOUS
<1> USE TimerBounds DEF clock, fd, sets, batch, history
<1>0. TimerTypeOK /\ BatchIsOut
  BY DEF TimerInv
<1>1. CASE Tick
  <2>1. now' \in 0..MaxTime /\ alarm' \in Nat
    BY <1>0, <1>1 DEF Tick, TimerTypeOK
  <2>2. ready' \in BOOLEAN
    BY <1>1, Zenon DEF Tick
  <2> QED
    BY <1>0, <1>1, <2>1, <2>2 DEF Tick, TimerTypeOK
<1>2. CASE ClockSetBack
  <2>1. now' \in 0..MaxTime /\ jumps' \in 0..MaxJumps
    BY <1>0, <1>2 DEF ClockSetBack, TimerTypeOK
  <2> QED
    BY <1>0, <1>2, <2>1 DEF ClockSetBack, TimerTypeOK
<1>3. ASSUME NEW a \in Addrs, NEW when \in Nat, NEW interval \in Nat,
             AddTimer(a, when, interval) \/ QueueTimer(a, when, interval)
      PROVE  TimerTypeOK'
  <2> DEFINE timer == MadeTimer(when, interval)
  <2>1. /\ timer \in [sequence : 1..MaxTimers, expiration : Nat, interval : Nat, first : Nat]
        /\ numCreated' \in 0..MaxTimers
        /\ ids' \subseteq Addrs \X (1..MaxTimers)
        /\ <<a, numCreated + 1>> \in Addrs \X (1..MaxTimers)
    <3>1. NewTimer(a)
      BY <1>3 DEF AddTimer, QueueTimer
    <3>2. numCreated + 1 \in 1..MaxTimers /\ numCreated' = numCreated + 1
      BY <1>0, <3>1 DEF NewTimer, TimerTypeOK
    <3>3. timer \in [sequence : 1..MaxTimers, expiration : Nat, interval : Nat, first : Nat]
      BY <3>2 DEF MadeTimer
    <3>4. ids' \subseteq Addrs \X (1..MaxTimers)
      BY <1>0, <3>1, <3>2 DEF NewTimer, TimerTypeOK
    <3> QED
      BY <3>2, <3>3, <3>4
  <2>2. timerAt' \in [Addrs -> [sequence : 0..MaxTimers, expiration : Nat,
                                interval : Nat, first : Nat]]
    <3>1. timerAt' = [timerAt EXCEPT ![a] = timer]
      BY <1>3 DEF AddTimer, QueueTimer
    <3>2. timer \in [sequence : 0..MaxTimers, expiration : Nat, interval : Nat, first : Nat]
      BY <2>1
    <3> HIDE DEF timer
    <3> QED
      BY <1>0, <3>1, <3>2 DEF TimerTypeOK
  <2>3. CASE AddTimer(a, when, interval)
    <3>1. /\ timers_' \subseteq Nat \X Addrs
          /\ activeTimers_' \subseteq Addrs \X (1..MaxTimers)
          /\ alarm' \in Nat /\ ready' \in BOOLEAN
      BY <1>0, <2>1, <2>3, AddIsTyped DEF AddTimer
    <3>2. UNCHANGED <<clock, polled, cancelingTimers_, batch, timerCalls, ran, cancelled,
                      overtaken>>
      BY <2>3 DEF AddTimer
    <3>3. {activeTimers_', cancelingTimers_', ids', ran', cancelled', overtaken'}
            \subseteq SUBSET (Addrs \X (1..MaxTimers))
      BY <1>0, <2>1, <3>1, <3>2 DEF TimerTypeOK
    <3>4. numCreated' \in 0..MaxTimers
      BY <2>1
    <3> QED
      BY <1>0, <2>2, <3>1, <3>2, <3>3, <3>4, Zenon DEF clock, batch, TimerTypeOK
  <2>4. CASE QueueTimer(a, when, interval)
    <3>1. timerCalls' \in Seq([op : {"add", "cancel"}, id : Addrs \X (1..MaxTimers)])
      BY <1>0, <2>1, <2>4, AppendProperties DEF QueueTimer, TimerTypeOK
    <3> QED
      BY <1>0, <2>1, <2>2, <2>4, <3>1, ZenonT(30) DEF QueueTimer, TimerTypeOK
  <2> QED
    BY <1>3, <2>3, <2>4
<1>4. ASSUME NEW id \in ids, Cancel(id) PROVE TimerTypeOK'
  <2>1. id \in Addrs \X (1..MaxTimers)
    BY <1>0 DEF TimerTypeOK
  <2>2. CancelInLoop(id)
    BY <1>4 DEF Cancel
  <2> QED
    BY <1>0, <1>4, <2>1, <2>2, CancelIsTyped DEF Cancel, TimerTypeOK
<1>5. ASSUME NEW id \in ids, QueueCancel(id) PROVE TimerTypeOK'
  <2>1. [op |-> "cancel", id |-> id]
          \in [op : {"add", "cancel"}, id : Addrs \X (1..MaxTimers)]
    BY <1>0 DEF TimerTypeOK
  <2>2. timerCalls' \in Seq([op : {"add", "cancel"}, id : Addrs \X (1..MaxTimers)])
    BY <1>0, <1>5, <2>1, AppendProperties DEF QueueCancel, TimerTypeOK
  <2> QED
    BY <1>0, <1>5, <2>2 DEF QueueCancel, TimerTypeOK
<1>6. CASE RunTimerCall
  <2> DEFINE f == Head(timerCalls)
  <2>1. /\ f \in [op : {"add", "cancel"}, id : Addrs \X (1..MaxTimers)]
        /\ timerCalls' \in Seq([op : {"add", "cancel"}, id : Addrs \X (1..MaxTimers)])
        /\ 1 \in DOMAIN timerCalls /\ f = timerCalls[1]
    <3>1. /\ timerCalls # <<>> /\ timerCalls' = Tail(timerCalls)
          /\ timerCalls \in Seq([op : {"add", "cancel"}, id : Addrs \X (1..MaxTimers)])
      BY <1>0, <1>6 DEF RunTimerCall, TimerTypeOK
    <3> DEFINE Calls == [op : {"add", "cancel"}, id : Addrs \X (1..MaxTimers)]
    <3> HIDE DEF Calls
    <3>2. timerCalls \in Seq(Calls)
      BY <3>1 DEF Calls
    <3>3. f \in Calls /\ timerCalls' \in Seq(Calls) /\ f = timerCalls[1] /\ 1 \in DOMAIN timerCalls
      BY <3>1, <3>2, HeadTailProperties, EmptySeq, LenProperties
    <3> QED
      BY <3>3 DEF Calls
  <2>2. CASE f.op = "add" /\ AddTimerInLoop(f.id[1], timerAt[f.id[1]])
               /\ UNCHANGED <<timerAt, cancelingTimers_, cancelled, overtaken>>
    <3>1. f.id[1] \in Addrs /\ timerAt[f.id[1]].sequence = f.id[2]
      BY <2>1, <2>2 DEF TimerInv, QueuedAreOut
    <3>2. timerAt[f.id[1]].expiration \in Nat /\ timerAt[f.id[1]].sequence \in 1..MaxTimers
      BY <1>0, <2>1, <3>1 DEF TimerTypeOK
    <3>3. /\ timers_' \subseteq Nat \X Addrs
          /\ activeTimers_' \subseteq Addrs \X (1..MaxTimers)
          /\ alarm' \in Nat /\ ready' \in BOOLEAN
      BY <1>0, <2>2, <3>1, <3>2, AddIsTyped
    <3>4. UNCHANGED <<clock, polled, numCreated, batch, ids, ran>>
      BY <1>6 DEF RunTimerCall
    <3>5. {activeTimers_', cancelingTimers_', ids', ran', cancelled', overtaken'}
            \subseteq SUBSET (Addrs \X (1..MaxTimers))
      BY <1>0, <2>2, <3>3, <3>4 DEF TimerTypeOK
    <3>6. timerCalls' \in Seq([op : {"add", "cancel"}, id : Addrs \X (1..MaxTimers)])
      BY <2>1
    <3> QED
      BY <1>0, <2>2, <3>3, <3>4, <3>5, <3>6, Zenon DEF TimerTypeOK
  <2>3. CASE CancelInLoop(f.id) /\ UNCHANGED fd
    <3>1. f.id \in Addrs \X (1..MaxTimers)
      BY <2>1
    <3> QED
      BY <1>0, <1>6, <2>1, <2>3, <3>1, CancelIsTyped DEF RunTimerCall, TimerTypeOK
  <2> QED
    BY <1>6, <2>2, <2>3 DEF RunTimerCall
<1>7. CASE PollTimerfd
  BY <1>0, <1>7 DEF PollTimerfd, TimerTypeOK
<1>8. CASE HandleRead
  <2>1. IsFiniteSet(Due(now)) /\ Due(now) \in SUBSET (Nat \X Addrs)
    BY <1>0, FS_Subset DEF Due, TimerInv, WaitingAgree, TimerTypeOK
  <2>2. expired' \in Seq(Nat \X Addrs)
    BY <1>8, <2>1, SortingsAreEntries DEF HandleRead
  <2>3. next' \in 0..Len(expired')
    BY <1>8, <2>2, LenProperties DEF HandleRead
  <2> QED
    BY <1>0, <1>8, <2>2, <2>3 DEF HandleRead, TimerTypeOK
<1>9. CASE RunTimer
  <2>1. next' \in 0..Len(expired)
    BY <1>0, <1>9, LenProperties DEF RunTimer, TimerTypeOK
  <2>2. Id(expired[next + 1][2]) \in Addrs \X (1..MaxTimers)
    <3>1. next + 1 \in DOMAIN expired
      BY <1>0, <1>9, LenProperties DEF RunTimer, TimerTypeOK
    <3>2. expired[next + 1] \in Nat \X Addrs
      BY <1>0, <3>1 DEF TimerTypeOK
    <3>3. timerAt[expired[next + 1][2]].sequence \in 1..MaxTimers
      <4>1. timerAt[expired[next + 1][2]].sequence \in 0..MaxTimers
        BY <1>0, <3>2 DEF TimerTypeOK
      <4>2. timerAt[expired[next + 1][2]].sequence > 0
        BY <1>0, <3>1 DEF BatchIsOut
      <4> QED
        BY <4>1, <4>2
    <3> QED
      BY <3>2, <3>3 DEF Id
  <2>3. ran' \subseteq Addrs \X (1..MaxTimers)
    BY <1>0, <1>9, <2>2 DEF RunTimer, TimerTypeOK
  <2>4. overtaken' \subseteq Addrs \X (1..MaxTimers)
    BY <1>0, <1>9 DEF RunTimer, TimerTypeOK
  <2> QED
    BY <1>0, <1>9, <2>1, <2>3, <2>4, ZenonT(30) DEF RunTimer, TimerTypeOK
<1>10. CASE EndHandleRead
  <2>1. readAt \in Nat /\ Reset(readAt)
    BY <1>0, <1>10 DEF EndHandleRead, TimerTypeOK
  <2>2. expired' \in Seq(Nat \X Addrs) /\ next' \in 0..Len(expired')
    BY <1>10, EmptySeq DEF EndHandleRead
  <2> QED
    <3>1. /\ timers_' \subseteq Nat \X Addrs
          /\ activeTimers_' \subseteq Addrs \X (1..MaxTimers)
          /\ timerAt' \in [Addrs -> [sequence : 0..MaxTimers, expiration : Nat,
                                     interval : Nat, first : Nat]]
          /\ alarm' \in Nat /\ ready' \in BOOLEAN
      BY <1>0, <2>1, ResetBatchIsTyped
    <3>2. /\ callingExpiredTimers_' = FALSE /\ readAt' = 0
          /\ UNCHANGED <<clock, polled, numCreated, cancelingTimers_, timerCalls, history>>
      BY <1>10 DEF EndHandleRead
    <3>3. {activeTimers_', cancelingTimers_', ids', ran', cancelled', overtaken'}
            \subseteq SUBSET (Addrs \X (1..MaxTimers))
      BY <1>0, <3>1, <3>2 DEF TimerTypeOK
    <3>4. readAt' \in 0..MaxTime
      BY <3>2
    <3>5. callingExpiredTimers_' \in BOOLEAN
      BY <3>2, Zenon
    <3> QED
      BY <1>0, <2>2, <3>1, <3>2, <3>3, <3>4, <3>5, Zenon DEF TimerTypeOK
<1>11. CASE UNCHANGED timerVars
  BY <1>0, <1>11 DEF timerVars, TimerTypeOK
<1>12. CASE TimerUser
  <2>1. now + 1 \in Nat /\ 0..MaxTime \subseteq Nat
    BY <1>0 DEF TimerTypeOK
  <2> QED
    BY <1>3, <1>4, <1>5, <1>12, <2>1 DEF TimerUser
<1> QED
  BY <1>1, <1>2, <1>6, <1>7, <1>8, <1>9, <1>10, <1>11, <1>12 DEF TimerNext, Loop

\* What the variables of the queue are made of.
LEMMA TypedElements ==
  ASSUME TimerTypeOK
  PROVE  /\ \A e \in timers_ : e[1] \in Nat /\ e[2] \in Addrs /\ e = <<e[1], e[2]>>
         /\ \A id \in activeTimers_ \cup ids \cup cancelled \cup cancelingTimers_ :
              id[1] \in Addrs /\ id[2] \in 1..MaxTimers /\ id = <<id[1], id[2]>>
         /\ \A i \in DOMAIN expired : expired[i] \in Nat \X Addrs /\ expired[i][2] \in Addrs
         /\ \A i \in DOMAIN timerCalls :
              /\ timerCalls[i].op \in {"add", "cancel"}
              /\ timerCalls[i].id[1] \in Addrs /\ timerCalls[i].id[2] \in 1..MaxTimers
              /\ timerCalls[i].id = <<timerCalls[i].id[1], timerCalls[i].id[2]>>
         /\ \A a \in Addrs : /\ timerAt[a].sequence \in Nat /\ timerAt[a].expiration \in Nat
                             /\ timerAt[a].interval \in Nat
<1>1. \A e \in timers_ : e[1] \in Nat /\ e[2] \in Addrs /\ e = <<e[1], e[2]>>
  BY DEF TimerTypeOK
<1>2. ASSUME NEW id \in activeTimers_ \cup ids \cup cancelled \cup cancelingTimers_
      PROVE  id[1] \in Addrs /\ id[2] \in 1..MaxTimers /\ id = <<id[1], id[2]>>
  <2>1. id \in Addrs \X (1..MaxTimers)
    BY DEF TimerTypeOK
  <2> QED
    BY <2>1
<1>3. ASSUME NEW i \in DOMAIN expired
      PROVE  expired[i] \in Nat \X Addrs /\ expired[i][2] \in Addrs
  <2>1. expired[i] \in Nat \X Addrs
    BY DEF TimerTypeOK
  <2> QED
    BY <2>1
<1>4. ASSUME NEW i \in DOMAIN timerCalls
      PROVE  /\ timerCalls[i].op \in {"add", "cancel"}
             /\ timerCalls[i].id[1] \in Addrs /\ timerCalls[i].id[2] \in 1..MaxTimers
             /\ timerCalls[i].id = <<timerCalls[i].id[1], timerCalls[i].id[2]>>
  <2> DEFINE Calls == [op : {"add", "cancel"}, id : Addrs \X (1..MaxTimers)]
  <2>0. timerCalls \in Seq(Calls)
    BY DEF TimerTypeOK
  <2>1. timerCalls[i] \in Calls
    <3> HIDE DEF Calls
    <3> QED
      BY <2>0
  <2>2. timerCalls[i].id \in Addrs \X (1..MaxTimers) /\ timerCalls[i].op \in {"add", "cancel"}
    BY <2>1
  <2> QED
    BY <2>2
<1>5. ASSUME NEW a \in Addrs
      PROVE  /\ timerAt[a].sequence \in Nat /\ timerAt[a].expiration \in Nat
             /\ timerAt[a].interval \in Nat
  <2>1. timerAt[a] \in [sequence : 0..MaxTimers, expiration : Nat, interval : Nat, first : Nat]
    BY DEF TimerTypeOK
  <2> QED
    BY <2>1
<1> QED
  BY <1>1, <1>2, <1>3, <1>4, <1>5

-----------------------------------------------------------------------------
(* The operations keep the places apart *)

\* addTimerInLoop() of a live Timer that does not wait yet.
LEMMA AddKeepsWaiting ==
  ASSUME TimerTypeOK, WaitingAgree, NEW a \in Addrs, NEW timer, AddTimerInLoop(a, timer),
         timer.sequence > 0, \A id \in activeTimers_ : id[1] # a,
         timerAt'[a] = timer, \A b \in Addrs \ {a} : timerAt'[b] = timerAt[b]
  PROVE  WaitingAgree'
<1>1. /\ timers_' = timers_ \cup {<<timer.expiration, a>>}
      /\ activeTimers_' = activeTimers_ \cup {<<a, timer.sequence>>}
  BY DEF AddTimerInLoop
<1>2. IsFiniteSet(timers_')
  BY <1>1, FS_AddElement DEF WaitingAgree
<1>3. \A e \in timers_ : e[2] \in Addrs /\ e[2] # a
  BY TypedElements DEF WaitingAgree, Id
<1>4. \A e \in timers_' : /\ timerAt'[e[2]].sequence > 0
                          /\ timerAt'[e[2]].expiration = e[1]
                          /\ <<e[2], timerAt'[e[2]].sequence>> \in activeTimers_'
  BY <1>1, <1>3 DEF WaitingAgree, Id
<1>5. \A id \in activeTimers_' : /\ timerAt'[id[1]].sequence = id[2]
                                 /\ <<timerAt'[id[1]].expiration, id[1]>> \in timers_'
  BY <1>1, TypedElements DEF WaitingAgree
<1> QED
  BY <1>2, <1>4, <1>5 DEF WaitingAgree, Id

\* A new Timer, at an address that was free, is nobody's until it is added.
LEMMA FreeIsNobodys ==
  ASSUME TimerInv, NEW a \in Addrs, timerAt[a] = Freed
  PROVE  /\ \A id \in activeTimers_ : id[1] # a
         /\ \A e \in timers_ : e[2] # a
         /\ \A i \in DOMAIN expired : expired[i][2] # a
         /\ \A i \in DOMAIN timerCalls : timerCalls[i].op = "add" => timerCalls[i].id[1] # a
<1>1. timerAt[a].sequence = 0 /\ TimerTypeOK
  BY DEF Freed, TimerInv
<1>2. ASSUME NEW id \in activeTimers_ PROVE id[1] # a
  <2>1. id[2] \in 1..MaxTimers
    BY <1>1, TypedElements
  <2>2. timerAt[id[1]].sequence = id[2]
    BY DEF TimerInv, WaitingAgree
  <2> QED
    BY <1>1, <2>1, <2>2
<1>3. \A e \in timers_ : e[2] # a
  BY <1>1 DEF TimerInv, WaitingAgree
<1>4. \A i \in DOMAIN expired : expired[i][2] # a
  BY <1>1 DEF TimerInv, BatchIsOut
<1>5. \A i \in DOMAIN timerCalls : timerCalls[i].op = "add" => timerCalls[i].id[1] # a
  BY <1>1, TypedElements DEF TimerInv, QueuedAreOut
<1> QED
  BY <1>2, <1>3, <1>4, <1>5

\* cancelInLoop() deletes a Timer only if it waits, and forgets it in both sets.
LEMMA CancelKeepsPlaces ==
  ASSUME TimerInv, NEW id \in ids, CancelInLoop(id),
         UNCHANGED <<callingExpiredTimers_, expired>>
  PROVE  /\ WaitingAgree'
         /\ BatchIsOut'
         /\ activeTimers_' \subseteq activeTimers_ \ {id}
         /\ cancelled' \subseteq cancelled \cup {id}
         /\ \A i \in DOMAIN expired : timerAt'[expired[i][2]] = timerAt[expired[i][2]]
         /\ \A i \in DOMAIN timerCalls :
              timerCalls[i].op = "add" =>
                timerAt'[timerCalls[i].id[1]] = timerAt[timerCalls[i].id[1]]
<1>0. TimerTypeOK /\ WaitingAgree /\ BatchIsOut /\ QueuedAreOut
  BY DEF TimerInv
<1>1. id = <<id[1], id[2]>> /\ id[1] \in Addrs
  BY <1>0, TypedElements
<1>2. CASE id \notin activeTimers_
  <2>1. FindActive(id) = {}
    BY <1>2 DEF FindActive
  <2>2. timers_' = timers_ /\ activeTimers_' = activeTimers_ /\ timerAt' = timerAt
    BY <2>1 DEF CancelInLoop
  <2> QED
    BY <1>0, <1>2, <2>2 DEF WaitingAgree, BatchIsOut, Id, CancelInLoop, Given
<1>3. CASE id \in activeTimers_
  <2>1. FindActive(id) = {id}
    BY <1>3 DEF FindActive
  <2>2. /\ timers_' = {e \in timers_ : e[2] # id[1]}
        /\ activeTimers_' = activeTimers_ \ {id}
        /\ timerAt' = [timerAt EXCEPT ![id[1]] = Freed]
    BY <2>1 DEF CancelInLoop
  <2>3. \A b \in Addrs \ {id[1]} : timerAt'[b] = timerAt[b]
    BY <2>2 DEF TimerTypeOK
  <2>4. timerAt[id[1]].sequence = id[2]
    BY <1>0, <1>3 DEF WaitingAgree
  <2>5. IsFiniteSet(timers_')
    BY <1>0, <2>2, FS_Subset DEF WaitingAgree
  <2>6. \A e \in timers_' : /\ timerAt'[e[2]].sequence > 0
                            /\ timerAt'[e[2]].expiration = e[1]
                            /\ <<e[2], timerAt'[e[2]].sequence>> \in activeTimers_'
    BY <1>0, <1>1, <2>2, <2>3, TypedElements DEF WaitingAgree, Id
  <2>7. ASSUME NEW other \in activeTimers_'
        PROVE  /\ timerAt'[other[1]].sequence = other[2]
               /\ <<timerAt'[other[1]].expiration, other[1]>> \in timers_'
    <3>1. other \in activeTimers_ /\ other # id /\ other = <<other[1], other[2]>>
            /\ other[1] \in Addrs
      BY <1>0, <2>2, TypedElements
    <3>2. other[1] # id[1]
      BY <1>0, <1>1, <2>4, <3>1 DEF WaitingAgree
    <3> QED
      BY <1>0, <2>2, <2>3, <3>1, <3>2 DEF WaitingAgree
  <2>8. \A i \in DOMAIN expired : expired[i][2] # id[1] /\ expired[i][2] \in Addrs
    BY <1>0, <1>1, <1>3, <2>4, TypedElements DEF BatchIsOut, Id
  <2>9. \A i \in DOMAIN timerCalls :
          timerCalls[i].op = "add" => timerCalls[i].id[1] # id[1] /\ timerCalls[i].id[1] \in Addrs
    BY <1>0, <1>1, <1>3, <2>4, TypedElements DEF QueuedAreOut
  <2>10. WaitingAgree'
    BY <2>5, <2>6, <2>7 DEF WaitingAgree, Id
  <2>11. BatchIsOut'
    BY <1>0, <2>2, <2>3, <2>8 DEF BatchIsOut, Id
  <2> QED
    BY <2>2, <2>3, <2>8, <2>9, <2>10, <2>11 DEF CancelInLoop, Given
<1> QED
  BY <1>2, <1>3

\* addTimer(), in the loop's thread or in another one.
LEMMA NewTimerKeepsPlaces ==
  ASSUME TimerInv, NEW a \in Addrs, NEW when \in Nat, NEW interval \in Nat,
         AddTimer(a, when, interval) \/ QueueTimer(a, when, interval)
  PROVE  PlacesKept
<1> DEFINE timer == MadeTimer(when, interval)
           id == <<a, numCreated + 1>>
<1>0. TimerTypeOK /\ WaitingAgree /\ BatchIsOut /\ QueuedAreOut /\ CancelledAreOut /\ IdsAreOld
  BY DEF TimerInv
<1>1. /\ timerAt[a] = Freed /\ timerAt' = [timerAt EXCEPT ![a] = timer]
      /\ numCreated' = numCreated + 1 /\ ids' = ids \cup {id}
      /\ UNCHANGED <<cancelingTimers_, callingExpiredTimers_, expired, cancelled>>
  BY DEF AddTimer, QueueTimer, NewTimer, sets, batch
<1>2. numCreated \in Nat /\ timer.sequence = numCreated + 1
  BY <1>0, TimerBounds DEF MadeTimer, TimerTypeOK
<1>3. timerAt'[a] = timer /\ \A b \in Addrs \ {a} : timerAt'[b] = timerAt[b]
  BY <1>0, <1>1 DEF TimerTypeOK
<1>4. /\ \A other \in activeTimers_ : other[1] # a /\ other[1] \in Addrs
      /\ \A e \in timers_ : e[2] # a /\ e[2] \in Addrs
      /\ \A i \in DOMAIN expired : expired[i][2] # a /\ expired[i][2] \in Addrs
      /\ \A i \in DOMAIN timerCalls :
           timerCalls[i].op = "add" => timerCalls[i].id[1] # a /\ timerCalls[i].id[1] \in Addrs
  BY <1>0, <1>1, FreeIsNobodys, TypedElements
<1>5. id \notin ids
  BY <1>0, <1>2 DEF IdsAreOld
<1> HIDE DEF timer
<1>6. CASE AddTimer(a, when, interval)
  <2>1. timerCalls' = timerCalls /\ AddTimerInLoop(a, timer)
    BY <1>6 DEF AddTimer, timer
  <2>2. activeTimers_' = activeTimers_ \cup {id}
    BY <1>2, <2>1 DEF AddTimerInLoop
  <2>3. WaitingAgree'
    BY <1>0, <1>2, <1>3, <1>4, <2>1, AddKeepsWaiting
  <2>4. BatchIsOut'
    BY <1>0, <1>1, <1>3, <1>4, <2>2 DEF BatchIsOut, Id
  <2>5. QueuedAreOut'
    BY <1>0, <1>1, <1>3, <1>4, <2>1, <2>2 DEF QueuedAreOut
  <2>6. CancelledAreOut'
    BY <1>0, <1>1, <1>3, <1>4, <1>5, <2>1, <2>2 DEF CancelledAreOut, IdsAreOld, Id
  <2>7. IdsAreOld'
    <3>1. \A other \in ids' : other[2] <= numCreated'
      BY <1>0, <1>1, <1>2, TypedElements DEF IdsAreOld
    <3> QED
      BY <1>0, <1>1, <2>1, <3>1 DEF IdsAreOld
  <2> QED
    BY <2>3, <2>4, <2>5, <2>6, <2>7 DEF PlacesKept
<1>7. CASE QueueTimer(a, when, interval)
  <2>1. /\ timerCalls' = Append(timerCalls, [op |-> "add", id |-> id])
        /\ UNCHANGED <<timers_, activeTimers_>>
    BY <1>7 DEF QueueTimer, sets
  <2> DEFINE n == Len(timerCalls) + 1
  <2>2. /\ DOMAIN timerCalls' = DOMAIN timerCalls \cup {n} /\ n \notin DOMAIN timerCalls
        /\ timerCalls'[n] = [op |-> "add", id |-> id]
        /\ \A i \in DOMAIN timerCalls : timerCalls'[i] = timerCalls[i]
    <3> DEFINE Calls == [op : {"add", "cancel"}, id : Addrs \X (1..MaxTimers)]
               call == [op |-> "add", id |-> id]
    <3>1. timerCalls \in Seq(Calls)
      BY <1>0 DEF TimerTypeOK
    <3> HIDE DEF Calls, call
    <3>2. timerCalls' = Append(timerCalls, call)
      BY <2>1 DEF call
    <3>3. DOMAIN timerCalls = 1..Len(timerCalls) /\ Len(timerCalls) \in Nat
      BY <3>1, LenProperties
    <3>4. DOMAIN timerCalls' = 1..n /\ timerCalls'[n] = call
            /\ \A i \in DOMAIN timerCalls : timerCalls'[i] = timerCalls[i]
      BY <3>1, <3>2, <3>3
    <3> QED
      BY <3>3, <3>4 DEF call
  <2> HIDE DEF n
  <2>3. WaitingAgree'
    BY <1>0, <1>3, <1>4, <2>1 DEF WaitingAgree, Id
  <2>4. BatchIsOut'
    BY <1>0, <1>1, <1>3, <1>4, <2>1 DEF BatchIsOut, Id
  <2>5. QueuedAreOut'
    <3>1. ASSUME NEW i \in DOMAIN timerCalls, timerCalls[i].op = "add"
          PROVE  /\ timerAt'[timerCalls'[i].id[1]].sequence = timerCalls'[i].id[2]
                 /\ timerCalls'[i].id \notin activeTimers_'
                 /\ \A j \in DOMAIN expired' : expired'[j][2] # timerCalls'[i].id[1]
                 /\ \A j \in DOMAIN timerCalls' :
                      timerCalls'[j].op = "add" /\ timerCalls'[j].id = timerCalls'[i].id => i = j
      BY <1>0, <1>1, <1>3, <1>4, <2>1, <2>2, <3>1 DEF QueuedAreOut
    <3>2. /\ timerAt'[timerCalls'[n].id[1]].sequence = timerCalls'[n].id[2]
          /\ timerCalls'[n].id \notin activeTimers_'
          /\ \A j \in DOMAIN expired' : expired'[j][2] # timerCalls'[n].id[1]
          /\ \A j \in DOMAIN timerCalls' :
               timerCalls'[j].op = "add" /\ timerCalls'[j].id = timerCalls'[n].id => n = j
      BY <1>1, <1>2, <1>3, <1>4, <2>1, <2>2
    <3> QED
      BY <2>2, <3>1, <3>2 DEF QueuedAreOut
  <2>6. CancelledAreOut'
    BY <1>0, <1>1, <1>3, <1>4, <1>5, <2>1, <2>2 DEF CancelledAreOut, IdsAreOld, Id
  <2>7. IdsAreOld'
    <3>1. \A other \in ids' : other[2] <= numCreated'
      BY <1>0, <1>1, <1>2, TypedElements DEF IdsAreOld
    <3> QED
      BY <1>0, <1>1, <2>2, <3>1 DEF IdsAreOld
  <2> QED
    BY <2>3, <2>4, <2>5, <2>6, <2>7 DEF PlacesKept
<1> QED
  BY <1>6, <1>7

\* cancel(), by a callback or by a functor of the loop.
LEMMA CancelKeepsCancelled ==
  ASSUME TimerInv, NEW id \in ids, CancelInLoop(id),
         UNCHANGED <<callingExpiredTimers_, expired, timerCalls>>
  PROVE  CancelledAreOut'
<1>0. TimerTypeOK /\ WaitingAgree /\ BatchIsOut /\ QueuedAreOut /\ CancelledAreOut
  BY DEF TimerInv
<1>1. /\ activeTimers_' \subseteq activeTimers_ \ {id}
      /\ cancelled' \subseteq cancelled \cup {id}
      /\ \A i \in DOMAIN expired : timerAt'[expired[i][2]] = timerAt[expired[i][2]]
  BY CancelKeepsPlaces
<1>2. /\ cancelingTimers_ \subseteq cancelingTimers_'
      /\ id \in cancelled' /\ id \notin cancelled => id \notin Unadded
      /\ id \notin activeTimers_ /\ callingExpiredTimers_ => id \in cancelingTimers_'
  BY DEF CancelInLoop, Given, FindActive
<1>3. \A i \in DOMAIN timerCalls :
        id \in cancelled' /\ id \notin cancelled /\ timerCalls[i].op = "add"
          => timerCalls[i].id # id
  BY <1>2 DEF Unadded
<1>4. \A i \in DOMAIN expired : Id(expired[i][2]) = id => id \in cancelingTimers_'
  BY <1>0, <1>2 DEF BatchIsOut
<1> QED
  BY <1>0, <1>1, <1>2, <1>3, <1>4 DEF CancelledAreOut, Id

\* cancel() in the loop's thread.
LEMMA CancelStepKeepsPlaces ==
  ASSUME TimerInv, NEW id \in ids, Cancel(id)
  PROVE  PlacesKept
<1>0. TimerTypeOK /\ QueuedAreOut /\ IdsAreOld
  BY DEF TimerInv
<1>1. /\ CancelInLoop(id)
      /\ UNCHANGED <<callingExpiredTimers_, expired, timerCalls, numCreated, ids>>
  BY DEF Cancel, batch
<1>2. /\ WaitingAgree' /\ BatchIsOut'
      /\ activeTimers_' \subseteq activeTimers_ \ {id}
      /\ cancelled' \subseteq cancelled \cup {id}
      /\ \A i \in DOMAIN timerCalls :
           timerCalls[i].op = "add" =>
             timerAt'[timerCalls[i].id[1]] = timerAt[timerCalls[i].id[1]]
  BY <1>1, CancelKeepsPlaces
<1>3. QueuedAreOut'
  BY <1>0, <1>1, <1>2 DEF QueuedAreOut
<1>4. CancelledAreOut'
  BY <1>1, CancelKeepsCancelled
<1>5. IdsAreOld'
  BY <1>0, <1>1, <1>2 DEF IdsAreOld
<1> QED
  BY <1>2, <1>3, <1>4, <1>5 DEF PlacesKept

\* One functor of another thread's addTimer() or cancel().
LEMMA TimerCallKeepsPlaces ==
  ASSUME TimerInv, RunTimerCall
  PROVE  PlacesKept
<1> DEFINE f == Head(timerCalls)
<1>0. TimerTypeOK /\ WaitingAgree /\ BatchIsOut /\ QueuedAreOut /\ CancelledAreOut /\ IdsAreOld
  BY DEF TimerInv
<1>1. /\ ~callingExpiredTimers_
      /\ UNCHANGED <<numCreated, callingExpiredTimers_, expired, ids>>
      /\ timerCalls # <<>> /\ timerCalls' = Tail(timerCalls)
  BY DEF RunTimerCall, batch
<1>2. expired = <<>>
  BY <1>0, <1>1 DEF BatchIsOut
<1>3. /\ f = timerCalls[1] /\ 1 \in DOMAIN timerCalls
      /\ \A i \in DOMAIN timerCalls' : /\ timerCalls'[i] = timerCalls[i + 1]
                                       /\ i + 1 \in DOMAIN timerCalls
                                       /\ i \in Nat /\ i + 1 # 1
  <2> DEFINE Calls == [op : {"add", "cancel"}, id : Addrs \X (1..MaxTimers)]
  <2>1. timerCalls \in Seq(Calls)
    BY <1>0 DEF TimerTypeOK
  <2> HIDE DEF Calls
  <2>2. /\ Tail(timerCalls) \in Seq(Calls) /\ f = timerCalls[1]
        /\ Len(Tail(timerCalls)) = Len(timerCalls) - 1
        /\ \A i \in 1..Len(Tail(timerCalls)) : Tail(timerCalls)[i] = timerCalls[i + 1]
    BY <1>1, <2>1, HeadTailProperties
  <2>3. /\ DOMAIN timerCalls = 1..Len(timerCalls) /\ Len(timerCalls) \in Nat \ {0}
        /\ DOMAIN timerCalls' = 1..(Len(timerCalls) - 1)
    BY <1>1, <2>1, <2>2, LenProperties, EmptySeq
  <2> QED
    BY <1>1, <2>2, <2>3
<1> HIDE DEF f
<1>4. CASE f.op = "add"
  <2>1. /\ AddTimerInLoop(f.id[1], timerAt[f.id[1]])
        /\ UNCHANGED <<timerAt, cancelingTimers_, cancelled>>
    BY <1>4 DEF RunTimerCall, f
  <2>2. /\ f.id[1] \in Addrs /\ f.id[2] \in 1..MaxTimers /\ f.id = <<f.id[1], f.id[2]>>
    BY <1>0, <1>3, TypedElements
  <2>3. timerAt[f.id[1]].sequence = f.id[2] /\ f.id \notin activeTimers_
    BY <1>0, <1>3, <1>4 DEF QueuedAreOut
  <2>4. activeTimers_' = activeTimers_ \cup {f.id}
    BY <2>1, <2>2, <2>3 DEF AddTimerInLoop
  <2>5. ASSUME NEW id \in activeTimers_ PROVE id[1] # f.id[1]
    <3>1. id = <<id[1], id[2]>>
      BY <1>0, TypedElements
    <3>2. timerAt[id[1]].sequence = id[2]
      BY <1>0 DEF WaitingAgree
    <3> QED
      BY <2>2, <2>3, <3>1, <3>2
  <2>6. WaitingAgree'
    <3>1. timerAt[f.id[1]].sequence > 0
      BY <2>2, <2>3
    <3>2. timerAt'[f.id[1]] = timerAt[f.id[1]]
            /\ \A b \in Addrs \ {f.id[1]} : timerAt'[b] = timerAt[b]
      BY <2>1
    <3> QED
      BY <1>0, <2>1, <2>2, <2>5, <3>1, <3>2, AddKeepsWaiting
  <2>7. BatchIsOut'
    BY <1>1, <1>2 DEF BatchIsOut
  <2>8. QueuedAreOut'
    BY <1>0, <1>1, <1>3, <1>4, <2>1, <2>4 DEF QueuedAreOut
  <2>9. CancelledAreOut'
    BY <1>0, <1>1, <1>2, <1>3, <1>4, <2>1, <2>4 DEF CancelledAreOut
  <2>10. IdsAreOld'
    BY <1>0, <1>1, <1>3, <2>1 DEF IdsAreOld
  <2> QED
    BY <2>6, <2>7, <2>8, <2>9, <2>10 DEF PlacesKept
<1>5. CASE f.op = "cancel"
  <2>1. CancelInLoop(f.id) /\ f.id \in ids
    BY <1>0, <1>3, <1>5 DEF RunTimerCall, f, IdsAreOld
  <2>2. /\ WaitingAgree' /\ BatchIsOut'
        /\ activeTimers_' \subseteq activeTimers_ \ {f.id}
        /\ cancelled' \subseteq cancelled \cup {f.id}
        /\ \A i \in DOMAIN timerCalls :
             timerCalls[i].op = "add" =>
               timerAt'[timerCalls[i].id[1]] = timerAt[timerCalls[i].id[1]]
    BY <1>1, <2>1, CancelKeepsPlaces
  <2>3. QueuedAreOut'
    BY <1>0, <1>1, <1>2, <1>3, <2>2 DEF QueuedAreOut
  <2>4. CancelledAreOut'
    <3>1. \A i \in DOMAIN timerCalls :
            f.id \in cancelled' /\ f.id \notin cancelled /\ timerCalls[i].op = "add"
              => timerCalls[i].id # f.id
      BY <2>1 DEF CancelInLoop, Given, Unadded
    <3> QED
      BY <1>0, <1>1, <1>2, <1>3, <2>2, <3>1 DEF CancelledAreOut
  <2>5. IdsAreOld'
    BY <1>0, <1>1, <1>3, <2>1, <2>2 DEF IdsAreOld
  <2> QED
    BY <2>2, <2>3, <2>4, <2>5 DEF PlacesKept
<1> QED
  BY <1>4, <1>5 DEF RunTimerCall, f

\* handleRead() up to the first run(): the due timers go from the sets to the batch.
LEMMA HandleReadKeepsPlaces ==
  ASSUME TimerInv, HandleRead
  PROVE  PlacesKept
<1>0. TimerTypeOK /\ WaitingAgree /\ BatchIsOut /\ QueuedAreOut /\ CancelledAreOut /\ IdsAreOld
  BY DEF TimerInv
<1>1. /\ timers_' = timers_ \ Due(now)
      /\ activeTimers_' = activeTimers_ \ {Id(e[2]) : e \in Due(now)}
      /\ callingExpiredTimers_' = TRUE
      /\ UNCHANGED <<timerAt, numCreated, timerCalls, ids, cancelled>>
  BY DEF HandleRead, history
<1>2. \A i \in DOMAIN expired' : expired'[i] \in Due(now)
  <2>1. IsFiniteSet(Due(now)) /\ Due(now) \in SUBSET (Nat \X Addrs)
    BY <1>0, FS_Subset DEF Due, WaitingAgree, TimerTypeOK
  <2>2. expired' \in Sortings(Due(now))
    BY DEF HandleRead
  <2> QED
    BY <2>1, <2>2, SortingsAreEntries
<1>3. Due(now) \subseteq timers_
  BY DEF Due
<1>4. WaitingAgree'
  <2>1. IsFiniteSet(timers_')
    BY <1>0, <1>1, FS_Subset DEF WaitingAgree
  <2>2. ASSUME NEW e \in timers_'
        PROVE  /\ timerAt'[e[2]].sequence > 0 /\ timerAt'[e[2]].expiration = e[1]
               /\ <<e[2], timerAt'[e[2]].sequence>> \in activeTimers_'
    <3>1. \A f \in Due(now) : f[2] # e[2]
      BY <1>0, <1>1, <1>3, TypedElements DEF WaitingAgree
    <3> QED
      BY <1>0, <1>1, <3>1 DEF WaitingAgree, Id
  <2>3. ASSUME NEW id \in activeTimers_'
        PROVE  /\ timerAt'[id[1]].sequence = id[2]
               /\ <<timerAt'[id[1]].expiration, id[1]>> \in timers_'
    <3>1. id \in activeTimers_ /\ id = <<id[1], id[2]>> /\ timerAt[id[1]].sequence = id[2]
      BY <1>0, <1>1, TypedElements DEF WaitingAgree
    <3>2. <<timerAt[id[1]].expiration, id[1]>> \notin Due(now)
      BY <1>1, <3>1 DEF Id
    <3> QED
      BY <1>0, <1>1, <3>1, <3>2 DEF WaitingAgree
  <2> QED
    BY <2>1, <2>2, <2>3 DEF WaitingAgree, Id
<1>5. BatchIsOut'
  BY <1>0, <1>1, <1>2, <1>3 DEF BatchIsOut, WaitingAgree, Id
<1>6. QueuedAreOut'
  <2>1. \A i \in DOMAIN timerCalls : timerCalls[i].op = "add" =>
          \A e \in timers_ : e[2] # timerCalls[i].id[1]
    BY <1>0, TypedElements DEF QueuedAreOut, WaitingAgree, Id
  <2> QED
    BY <1>0, <1>1, <1>2, <1>3, <2>1 DEF QueuedAreOut
<1>7. CancelledAreOut'
  BY <1>0, <1>1, <1>2, <1>3 DEF CancelledAreOut, WaitingAgree, Id
<1>8. IdsAreOld'
  BY <1>0, <1>1 DEF IdsAreOld
<1> QED
  BY <1>4, <1>5, <1>6, <1>7, <1>8 DEF PlacesKept

\* reset(): a timer of the batch goes back to the sets if it repeats and nobody
\* cancelled it, and is deleted otherwise.
LEMMA EndHandleReadKeepsPlaces ==
  ASSUME TimerInv, EndHandleRead
  PROVE  PlacesKept
<1> DEFINE t == readAt
           batchAddrs == {expired[i][2] : i \in DOMAIN expired}
           restarted == {a \in batchAddrs :
                           timerAt[a].interval > 0 /\ Id(a) \notin cancelingTimers_}
           back == {<<t + timerAt[a].interval, a>> : a \in restarted}
<1>0. TimerTypeOK /\ WaitingAgree /\ BatchIsOut /\ QueuedAreOut /\ CancelledAreOut /\ IdsAreOld
  BY DEF TimerInv
<1>1. /\ timers_' = timers_ \cup back
      /\ activeTimers_' = activeTimers_ \cup {Id(a) : a \in restarted}
      /\ UNCHANGED <<numCreated, timerCalls, ids, cancelled>>
      /\ expired' = <<>>
  BY DEF EndHandleRead, Reset, history
<1>1a. timerAt' = [a \in Addrs |->
                     IF a \in restarted
                       THEN [timerAt[a] EXCEPT !.expiration = t + timerAt[a].interval]
                     ELSE IF a \in batchAddrs THEN Freed ELSE timerAt[a]]
  BY DEF EndHandleRead, Reset
<1>2. /\ \A i \in DOMAIN expired : expired[i][2] \in Addrs
      /\ restarted \subseteq batchAddrs /\ batchAddrs \subseteq Addrs
  BY <1>0, TypedElements
<1>3. IsFiniteSet(back)
  <2> DEFINE time == [a \in Addrs |-> t + timerAt[a].interval]
  <2>1. expired \in Seq(Nat \X Addrs) /\ time \in [Addrs -> Nat]
    <3>1. t \in Nat /\ expired \in Seq(Nat \X Addrs)
      BY <1>0, TimerBounds DEF TimerTypeOK
    <3>2. \A a \in Addrs : t + timerAt[a].interval \in Nat
      BY <1>0, <3>1, TypedElements
    <3> QED
      BY <3>1, <3>2
  <2>2. restarted \subseteq {expired[i][2] : i \in DOMAIN expired}
    OBVIOUS
  <2>3. back = {<<time[a], a>> : a \in restarted}
    BY <1>2
  <2> HIDE DEF time, restarted, back
  <2> QED
    BY <2>1, <2>2, <2>3, BatchIsFinite
<1>4. \A a \in restarted : /\ a \in Addrs /\ timerAt[a].sequence > 0
                           /\ Id(a) \notin activeTimers_ /\ Id(a) \notin cancelled
  BY <1>0, <1>2 DEF BatchIsOut, CancelledAreOut
<1>5. \A e \in timers_ : e[2] \notin batchAddrs /\ e[2] \in Addrs
  BY <1>0, TypedElements DEF WaitingAgree, BatchIsOut
<1>6. \A id \in activeTimers_ : id[1] \notin batchAddrs /\ id[1] \in Addrs
  BY <1>0, TypedElements DEF WaitingAgree, BatchIsOut, Id
<1>7. \A i \in DOMAIN timerCalls : timerCalls[i].op = "add" =>
        timerCalls[i].id[1] \notin batchAddrs /\ timerCalls[i].id[1] \in Addrs
  BY <1>0, TypedElements DEF QueuedAreOut
<1>8. /\ \A a \in restarted : /\ timerAt'[a].sequence = timerAt[a].sequence
                              /\ timerAt'[a].expiration = t + timerAt[a].interval
      /\ \A a \in Addrs \ batchAddrs : timerAt'[a] = timerAt[a]
  <2>1. ASSUME NEW a \in restarted
        PROVE  /\ timerAt'[a].sequence = timerAt[a].sequence
               /\ timerAt'[a].expiration = t + timerAt[a].interval
    <3>1. timerAt'[a] = [timerAt[a] EXCEPT !.expiration = t + timerAt[a].interval]
      BY <1>2, <1>1a
    <3>2. timerAt[a] \in [sequence : 0..MaxTimers, expiration : Nat, interval : Nat, first : Nat]
      BY <1>0, <1>2 DEF TimerTypeOK
    <3> QED
      BY <3>1, <3>2
  <2>2. ASSUME NEW a \in Addrs \ batchAddrs PROVE timerAt'[a] = timerAt[a]
    BY <1>2, <1>1a
  <2> QED
    BY <2>1, <2>2
<1> HIDE DEF batchAddrs, restarted
<1>9. WaitingAgree'
  <2>1. IsFiniteSet(timers_')
    BY <1>0, <1>1, <1>3, FS_Union DEF WaitingAgree
  <2>2. \A e \in timers_' : /\ timerAt'[e[2]].sequence > 0
                            /\ timerAt'[e[2]].expiration = e[1]
                            /\ <<e[2], timerAt'[e[2]].sequence>> \in activeTimers_'
    <3>1. ASSUME NEW e \in timers_
          PROVE  /\ timerAt'[e[2]].sequence > 0 /\ timerAt'[e[2]].expiration = e[1]
                 /\ <<e[2], timerAt'[e[2]].sequence>> \in activeTimers_'
      BY <1>0, <1>1, <1>5, <1>8 DEF WaitingAgree, Id
    <3>2. ASSUME NEW a \in restarted
          PROVE  /\ timerAt'[a].sequence > 0
                 /\ timerAt'[a].expiration = t + timerAt[a].interval
                 /\ <<a, timerAt'[a].sequence>> \in activeTimers_'
      BY <1>1, <1>4, <1>8 DEF Id
    <3>3. ASSUME NEW e \in back
          PROVE  /\ timerAt'[e[2]].sequence > 0 /\ timerAt'[e[2]].expiration = e[1]
                 /\ <<e[2], timerAt'[e[2]].sequence>> \in activeTimers_'
      <4>1. PICK a \in restarted : e = <<t + timerAt[a].interval, a>>
        OBVIOUS
      <4>2. e[1] = t + timerAt[a].interval /\ e[2] = a
        BY <4>1
      <4> QED
        BY <3>2, <4>2
    <3> HIDE DEF back
    <3> QED
      BY <1>1, <3>1, <3>3
  <2>3. \A id \in activeTimers_' : /\ timerAt'[id[1]].sequence = id[2]
                                   /\ <<timerAt'[id[1]].expiration, id[1]>> \in timers_'
    <3>1. ASSUME NEW id \in activeTimers_
          PROVE  /\ timerAt'[id[1]].sequence = id[2]
                 /\ <<timerAt'[id[1]].expiration, id[1]>> \in timers_'
      BY <1>0, <1>1, <1>6, <1>8 DEF WaitingAgree
    <3>2. ASSUME NEW a \in restarted
          PROVE  /\ timerAt'[a].sequence = timerAt[a].sequence
                 /\ <<timerAt'[a].expiration, a>> \in timers_'
      BY <1>1, <1>8
    <3>3. ASSUME NEW id \in {Id(a) : a \in restarted}
          PROVE  /\ timerAt'[id[1]].sequence = id[2]
                 /\ <<timerAt'[id[1]].expiration, id[1]>> \in timers_'
      <4>1. PICK a \in restarted : id[1] = a /\ id[2] = timerAt[a].sequence
        BY DEF Id
      <4> QED
        BY <3>2, <4>1
    <3> QED
      BY <1>1, <3>1, <3>3
  <2> QED
    BY <2>1, <2>2, <2>3 DEF WaitingAgree, Id
<1>10. BatchIsOut'
  BY <1>1 DEF BatchIsOut
<1>11. QueuedAreOut'
  <2>1. \A i \in DOMAIN timerCalls : timerCalls[i].op = "add" =>
          \A a \in restarted : timerCalls[i].id # Id(a)
    BY <1>2, <1>7 DEF Id
  <2> QED
    BY <1>0, <1>1, <1>7, <1>8, <2>1 DEF QueuedAreOut
<1>12. CancelledAreOut'
  BY <1>0, <1>1, <1>4 DEF CancelledAreOut
<1>13. IdsAreOld'
  BY <1>0, <1>1 DEF IdsAreOld
<1> QED
  BY <1>9, <1>10, <1>11, <1>12, <1>13 DEF PlacesKept

\* The clock, poll(), a run() and the queueing of a cancel() move no timer.
LEMMA OthersKeepPlaces ==
  ASSUME TimerInv,
         \/ Tick \/ ClockSetBack \/ PollTimerfd \/ RunTimer \/ UNCHANGED timerVars
         \/ \E id \in ids : QueueCancel(id)
  PROVE  PlacesKept
<1>0. TimerTypeOK /\ WaitingAgree /\ BatchIsOut /\ QueuedAreOut /\ CancelledAreOut /\ IdsAreOld
  BY DEF TimerInv
<1>1. UNCHANGED <<timers_, activeTimers_, cancelingTimers_, timerAt, numCreated,
                  callingExpiredTimers_, expired, ids, cancelled>>
  BY DEF Tick, ClockSetBack, PollTimerfd, RunTimer, QueueCancel, timerVars, sets, batch,
         history
<1>2. \A i \in DOMAIN timerCalls' :
        \/ i \in DOMAIN timerCalls /\ timerCalls'[i] = timerCalls[i]
        \/ timerCalls'[i].op # "add" /\ timerCalls'[i].id \in ids
  <2>1. CASE timerCalls' = timerCalls
    BY <2>1
  <2>2. ASSUME NEW id \in ids, QueueCancel(id)
        PROVE  \A i \in DOMAIN timerCalls' :
                 \/ i \in DOMAIN timerCalls /\ timerCalls'[i] = timerCalls[i]
                 \/ timerCalls'[i].op # "add" /\ timerCalls'[i].id \in ids
    <3> DEFINE Calls == [op : {"add", "cancel"}, id : Addrs \X (1..MaxTimers)]
               call == [op |-> "cancel", id |-> id]
    <3>1. timerCalls \in Seq(Calls)
      BY <1>0 DEF TimerTypeOK
    <3>2. call.op # "add" /\ call.id \in ids
      OBVIOUS
    <3>3. timerCalls' = Append(timerCalls, call)
      BY <2>2 DEF QueueCancel
    <3> HIDE DEF Calls, call
    <3>4. ASSUME NEW i \in DOMAIN timerCalls'
          PROVE  \/ i \in DOMAIN timerCalls /\ timerCalls'[i] = timerCalls[i]
                 \/ timerCalls'[i] = call
      BY <3>1, <3>3, <3>4, LenProperties, AppendProperties
    <3> QED
      BY <3>2, <3>4
  <2> QED
    BY <2>1, <2>2 DEF Tick, ClockSetBack, PollTimerfd, RunTimer, timerVars
<1>3. WaitingAgree' /\ BatchIsOut'
  BY <1>0, <1>1 DEF WaitingAgree, BatchIsOut, Id
<1>4. QueuedAreOut'
  BY <1>0, <1>1, <1>2 DEF QueuedAreOut
<1>5. CancelledAreOut'
  BY <1>0, <1>1, <1>2 DEF CancelledAreOut, Id
<1>6. IdsAreOld'
  BY <1>0, <1>1, <1>2 DEF IdsAreOld
<1> QED
  BY <1>3, <1>4, <1>5, <1>6 DEF PlacesKept
-----------------------------------------------------------------------------
(* The theorems *)

\* The invariant holds whatever callbacks, other threads and the clock do.
THEOREM TimerInvariant == Spec => []TimerInv
<1>1. TimerInit => TimerInv
  <2> SUFFICES ASSUME TimerInit PROVE TimerInv
    OBVIOUS
  <2> USE DEF TimerInit
  <2>1. TimerTypeOK
    <3>1. Freed \in [sequence : 0..MaxTimers, expiration : Nat, interval : Nat, first : Nat]
      BY TimerBounds DEF Freed
    <3>2. timerAt \in [Addrs -> [sequence : 0..MaxTimers, expiration : Nat, interval : Nat,
                                 first : Nat]]
      BY <3>1
    <3>3. now \in 0..MaxTime /\ jumps \in 0..MaxJumps /\ numCreated \in 0..MaxTimers
            /\ readAt \in 0..MaxTime
      BY TimerBounds
    <3>4. /\ expired \in Seq(Nat \X Addrs) /\ next \in 0..Len(expired)
          /\ timerCalls \in Seq([op : {"add", "cancel"}, id : Addrs \X (1..MaxTimers)])
      BY EmptySeq
    <3> QED
      BY <3>2, <3>3, <3>4 DEF TimerTypeOK
  <2>2. WaitingAgree
    BY FS_EmptySet DEF WaitingAgree
  <2>3. BatchIsOut /\ QueuedAreOut /\ CancelledAreOut /\ IdsAreOld
    BY DEF BatchIsOut, QueuedAreOut, CancelledAreOut, IdsAreOld
  <2> QED
    BY <2>1, <2>2, <2>3 DEF TimerInv
<1>2. TimerInv /\ [TimerNext]_timerVars => TimerInv'
  <2> SUFFICES ASSUME TimerInv, [TimerNext]_timerVars PROVE PlacesKept
    BY TimerTypeOKKept DEF PlacesKept, TimerInv
  <2>1. CASE TimerUser
    <3>1. now + 1 \in Nat /\ 0..MaxTime \subseteq Nat
      BY TimerBounds DEF TimerInv, TimerTypeOK
    <3> QED
      BY <2>1, <3>1, NewTimerKeepsPlaces, CancelStepKeepsPlaces, OthersKeepPlaces
         DEF TimerUser
  <2>2. CASE Loop
    BY <2>2, TimerCallKeepsPlaces, HandleReadKeepsPlaces, EndHandleReadKeepsPlaces,
       OthersKeepPlaces DEF Loop
  <2> QED
    BY <2>1, <2>2, OthersKeepPlaces DEF TimerNext
<1> QED
  BY <1>1, <1>2, PTL DEF Spec

\* No set, batch or queued call of the timer queue ever refers to a Timer that was
\* deleted or to a later one at its address, and both sets hold the same timers, which
\* is what the asserts of cancelInLoop(), getExpired() and insert() demand.
THEOREM TimersNeverDangle == Spec => []NoDanglingTimer
<1>1. TimerInv => NoDanglingTimer
  <2> SUFFICES ASSUME TimerInv PROVE NoDanglingTimer
    OBVIOUS
  <2>0. TimerTypeOK /\ WaitingAgree /\ BatchIsOut
    BY DEF TimerInv
  <2>1. activeTimers_ = {Id(e[2]) : e \in timers_}
    <3>1. ASSUME NEW id \in activeTimers_ PROVE id \in {Id(e[2]) : e \in timers_}
      <4>1. id = <<id[1], id[2]>> /\ timerAt[id[1]].sequence = id[2]
              /\ <<timerAt[id[1]].expiration, id[1]>> \in timers_
        BY <2>0, TypedElements DEF WaitingAgree
      <4> QED
        BY <4>1 DEF Id
    <3> QED
      BY <2>0, <3>1 DEF WaitingAgree
  <2>2. Cardinality(timers_) = Cardinality(activeTimers_)
    <3> DEFINE id == [e \in timers_ |-> Id(e[2])]
    <3>1. ASSUME NEW e \in timers_, NEW f \in timers_, Id(e[2]) = Id(f[2]) PROVE e = f
      <4>1. e = <<e[1], e[2]>> /\ f = <<f[1], f[2]>> /\ e[2] = f[2]
        BY <2>0, <3>1, TypedElements DEF Id
      <4>2. timerAt[e[2]].expiration = e[1] /\ timerAt[f[2]].expiration = f[1]
        BY <2>0 DEF WaitingAgree
      <4> QED
        BY <4>1, <4>2
    <3>2. id \in Bijection(timers_, activeTimers_)
      BY <2>1, <3>1 DEF Bijection, Injection, Surjection, IsInjective
    <3> QED
      BY <2>0, <3>2, FS_Bijection DEF WaitingAgree, ExistsBijection
  <2> QED
    BY <2>0, <2>1, <2>2 DEF WaitingAgree, BatchIsOut, NoDanglingTimer
<1> QED
  BY <1>1, TimerInvariant, PTL

\* A timer that cancelInLoop() was given after its addTimerInLoop() had run never waits
\* again, whichever thread cancelled it, and at whatever point of handleRead() a callback
\* did.  A cancel that overtakes the add is lost, which the theorem does not speak of.
THEOREM CancelledForGood == Spec => []CancelIsFinal
<1>1. TimerInv => CancelIsFinal
  BY DEF TimerInv, CancelledAreOut, CancelIsFinal
<1> QED
  BY <1>1, TimerInvariant, PTL

-----------------------------------------------------------------------------
(* Calendar: day numbers *)

\* The year that begins in March, counted from -4800, and the month of it, from 0.
MarchYear(year, month) == IF month <= 2 THEN year + 4799 ELSE year + 4800
MarchMonth(month) == IF month <= 2 THEN month + 9 ELSE month - 3

\* Days of the months before a month.
DaysBefore(march) == (153 * march + 2) \div 5

\* The formula, in these terms.
LEMMA JulianIs ==
  ASSUME NEW year \in Int, NEW month \in 1..12, NEW day \in Int
  PROVE  getJulianDayNumber(year, month, day)
           = day + DaysBefore(MarchMonth(month)) + MarchYear(year, month) * 365
               + LeapDays(MarchYear(year, month)) - 32045
<1> DEFINE a == (14 - month) \div 12
           y == year + 4800 - a
           k == month + 12 * a - 3
<1>1. a = IF month <= 2 THEN 1 ELSE 0
  OBVIOUS
<1>2. y = MarchYear(year, month) /\ k = MarchMonth(month)
  BY <1>1 DEF MarchYear, MarchMonth
<1>3. MarchMonth(month) \in 0..11 /\ MarchYear(year, month) \in Int
  BY DEF MarchMonth, MarchYear
<1>4. getJulianDayNumber(year, month, day)
        = day + (153 * k + 2) \div 5 + y * 365 + y \div 4 - y \div 100 + y \div 400 - 32045
  BY DEF getJulianDayNumber
<1> HIDE DEF a, y, k
<1> DEFINE M == MarchMonth(month)
           Y == MarchYear(year, month)
<1>5. M \in 0..11 /\ Y \in Int /\ y = Y /\ k = M
  BY <1>2, <1>3
<1> HIDE DEF M, Y
<1>6. getJulianDayNumber(year, month, day) = day + DaysBefore(M) + Y * 365 + LeapDays(Y) - 32045
  BY <1>4, <1>5 DEF DaysBefore, LeapDays
<1> QED
  BY <1>6 DEF M, Y

\* Its parts are integers.
LEMMA JulianTypes ==
  ASSUME NEW year \in Int, NEW month \in 1..12
  PROVE  /\ MarchMonth(month) \in 0..11 /\ DaysBefore(MarchMonth(month)) \in Nat
         /\ MarchYear(year, month) \in Int /\ LeapDays(MarchYear(year, month)) \in Int
<1>1. MarchMonth(month) \in 0..11 /\ MarchYear(year, month) \in Int
  BY DEF MarchMonth, MarchYear
<1>2. \A i \in 0..11 : DaysBefore(i) \in Nat
  BY DEF DaysBefore
<1>3. \A i \in Int : LeapDays(i) \in Int
  BY DEF LeapDays
<1> QED
  BY <1>1, <1>2, <1>3

\* The lengths of the months and where they begin in the year of March.
MonthLies(n, k, month, year) ==
  /\ n \in 28..31 /\ k \in 0..11 /\ DaysBefore(k) \in 0..337
  /\ \A e \in 0..(n - 1) : (5 * (DaysBefore(k) + e) + 2) \div 153 = k
  /\ month # 2 => n = DaysBefore(k + 1) - DaysBefore(k)
  /\ month = 2 => DaysBefore(k) = 337 /\ n = (IF IsLeap(year) THEN 29 ELSE 28)

\* They do lie so.
LEMMA Months ==
  ASSUME NEW year \in Int, NEW month \in 1..12
  PROVE  MonthLies(MonthLength(year, month), MarchMonth(month), month, year)
<1> DEFINE n == MonthLength(year, month)
           k == MarchMonth(month)
<1>1. \/ month = 1 /\ k = 10 /\ n = 31
      \/ month = 2 /\ k = 11 /\ n = (IF IsLeap(year) THEN 29 ELSE 28)
      \/ month = 3 /\ k = 0 /\ n = 31
      \/ month = 4 /\ k = 1 /\ n = 30
      \/ month = 5 /\ k = 2 /\ n = 31
      \/ month = 6 /\ k = 3 /\ n = 30
      \/ month = 7 /\ k = 4 /\ n = 31
      \/ month = 8 /\ k = 5 /\ n = 31
      \/ month = 9 /\ k = 6 /\ n = 30
      \/ month = 10 /\ k = 7 /\ n = 31
      \/ month = 11 /\ k = 8 /\ n = 30
      \/ month = 12 /\ k = 9 /\ n = 31
  BY DEF MonthLength, MarchMonth
<1> HIDE DEF n, k
<1>2. n \in 28..31 /\ k \in 0..11 /\ DaysBefore(k) \in 0..337
  BY <1>1 DEF DaysBefore
<1>3. month # 2 => n = DaysBefore(k + 1) - DaysBefore(k)
  BY <1>1 DEF DaysBefore
<1>4. month = 2 => DaysBefore(k) = 337 /\ n = (IF IsLeap(year) THEN 29 ELSE 28)
  BY <1>1 DEF DaysBefore
<1>5. ASSUME NEW e \in 0..(n - 1) PROVE (5 * (DaysBefore(k) + e) + 2) \div 153 = k
  BY <1>1, <1>2, <1>5 DEF DaysBefore
<1> QED
  BY <1>2, <1>3, <1>4, <1>5 DEF n, k, MonthLies

\* A year is leap when it ends a year of March with 366 days.
LEMMA LeapStep ==
  ASSUME NEW year \in Int
  PROVE  LeapDays(year + 4800) - LeapDays(year + 4799) = IF IsLeap(year) THEN 1 ELSE 0
<1>1. /\ (year + 4800) \div 4 - (year + 4799) \div 4 = (IF year % 4 = 0 THEN 1 ELSE 0)
      /\ (year + 4800) \div 100 - (year + 4799) \div 100 = (IF year % 100 = 0 THEN 1 ELSE 0)
      /\ (year + 4800) \div 400 - (year + 4799) \div 400 = (IF year % 400 = 0 THEN 1 ELSE 0)
  OBVIOUS
<1>2. (year % 400 = 0 => year % 100 = 0) /\ (year % 100 = 0 => year % 4 = 0)
  OBVIOUS
<1> QED
  BY <1>1, <1>2 DEF LeapDays, IsLeap

\* b, c, d and e of getYearMonthDay(): the century, the days of it, and of these the year and
\* the day of that year.
CenturyOf(a) == (4 * a + 3) \div 146097
CenturyDay(a) == a - (CenturyOf(a) * 146097) \div 4
YearOf(c) == (4 * c + 3) \div 1461
YearDay(c) == c - (1461 * YearOf(c)) \div 4
Found(a, Y, E) ==
  CenturyOf(a) * 100 + YearOf(CenturyDay(a)) = Y /\ YearDay(CenturyDay(a)) = E

\* A year of March that has 366 days.
LongYear(Y) == (Y + 1) % 4 = 0 /\ ((Y + 1) % 100 = 0 => (Y + 1) % 400 = 0)

\* They are the year and the day of it from which the day number was made.
LEMMA YearFound ==
  ASSUME NEW Y \in Int, NEW E \in 0..365,
         E = 365 => LongYear(Y)
  PROVE  Found(365 * Y + LeapDays(Y) + E, Y, E)
<1> DEFINE A == 365 * Y + LeapDays(Y) + E
           C == Y \div 100
           R == Y - 100 * C
           K == C \div 4
           j == C - 4 * K
           P == R \div 4
           p == R - 4 * P
           F == 365 * R + P + E
<1>1. C \in Int /\ R \in 0..99 /\ Y = 100 * C + R
  OBVIOUS
<1>2. Y \div 4 = 25 * C + P /\ Y \div 400 = K
  OBVIOUS
<1> HIDE DEF C, R
<1>3. K \in Int /\ j \in 0..3 /\ C = 4 * K + j
  BY <1>1
<1>4. P \in 0..24 /\ p \in 0..3 /\ R = 4 * P + p
  BY <1>1
<1>5. A = 36524 * C + K + F
  BY <1>1, <1>2, <1>3, <1>4 DEF LeapDays, C
<1>6. E = 365 => p = 3 /\ (R = 99 => j = 3)
  <2> SUFFICES ASSUME E = 365 PROVE p = 3 /\ (R = 99 => j = 3)
    OBVIOUS
  <2>1. Y + 1 = 400 * K + 100 * j + 4 * P + p + 1
    BY <1>1, <1>3, <1>4
  <2> HIDE DEF K, j, P, p
  <2>2. p = 3
    BY <1>3, <1>4, <2>1 DEF LongYear
  <2>3. ASSUME R = 99 PROVE j = 3
    <3>1. Y + 1 = 400 * K + 100 * (j + 1)
      BY <1>1, <1>3, <2>3
    <3>2. (Y + 1) % 100 = 0
      BY <1>3, <3>1
    <3>3. (Y + 1) % 400 = 0
      BY <3>2 DEF LongYear
    <3> QED
      BY <1>3, <3>1, <3>3
  <2> QED
    BY <2>2, <2>3
<1> HIDE DEF A, K, j, P, p
<1>7. F \in Int /\ F >= 0 /\ F <= 36524 /\ (F = 36524 => j = 3)
  BY <1>1, <1>3, <1>4, <1>6
<1>8. F = 1461 * P + 365 * p + E
  BY <1>4, <1>1
<1> HIDE DEF F
<1>9. (4 * A + 3) \div 146097 = C
  <2> DEFINE r == 4 * F + 3 - j
  <2>1. 4 * A + 3 = 146097 * C + r
    BY <1>1, <1>3, <1>5, <1>7
  <2>2. CASE F = 36524
    <3>1. r = 146096
      BY <1>7, <2>2
    <3> QED
      BY <1>1, <2>1, <3>1
  <2>3. CASE F < 36524
    <3>1. r \in Int /\ 0 <= r /\ r < 146097
      BY <1>3, <1>7, <2>3
    <3> HIDE DEF r
    <3> QED
      BY <1>1, <2>1, <3>1
  <2> QED
    BY <1>7, <2>2, <2>3
<1>10. (C * 146097) \div 4 = 36524 * C + K
  BY <1>1, <1>3
<1>11. A - (C * 146097) \div 4 = F
  BY <1>1, <1>3, <1>5, <1>7, <1>10
<1>12. (4 * F + 3) \div 1461 = R
  <2> DEFINE r == 4 * E + 3 - p
  <2>1. 4 * F + 3 = 1461 * R + r
    BY <1>1, <1>4, <1>8
  <2>2. r \in Int /\ 0 <= r /\ r < 1461
    BY <1>4, <1>6
  <2> HIDE DEF r
  <2> QED
    BY <1>1, <2>1, <2>2
<1>13. (1461 * R) \div 4 = 365 * R + P
  BY <1>1, <1>4
<1>14. F - (1461 * R) \div 4 = E
  BY <1>1, <1>4, <1>8, <1>13
<1>15. C * 100 + R = Y
  BY <1>1
<1> QED
  BY <1>9, <1>11, <1>12, <1>14, <1>15 DEF A, CenturyOf, CenturyDay, YearOf, YearDay, Found

\* A day of a month that the year has.
RealDay(year, month, day) ==
  year \in Int /\ month \in 1..12 /\ day \in 1..MonthLength(year, month)

\* getYearMonthDay() leads back from getJulianDayNumber().
LEMMA JulianInverse ==
  ASSUME NEW year, NEW month, NEW day, RealDay(year, month, day)
  PROVE  getYearMonthDay(getJulianDayNumber(year, month, day))
           = [year |-> year, month |-> month, day |-> day]
<1>1. year \in Int /\ month \in 1..12 /\ day \in 1..MonthLength(year, month)
  BY DEF RealDay
<1>2. MonthLies(MonthLength(year, month), MarchMonth(month), month, year)
  BY <1>1, Months
<1>3. day \in Int
  BY <1>1, <1>2 DEF MonthLies
<1>4. getJulianDayNumber(year, month, day)
        = day + DaysBefore(MarchMonth(month)) + MarchYear(year, month) * 365
            + LeapDays(MarchYear(year, month)) - 32045
  BY <1>1, <1>3, JulianIs
<1>5. MarchYear(year, month) \in Int /\ LeapDays(MarchYear(year, month)) \in Int
  BY <1>1, JulianTypes
<1> DEFINE Y == MarchYear(year, month)
           k == MarchMonth(month)
           n == MonthLength(year, month)
           E == day - 1 + DaysBefore(k)
           J == getJulianDayNumber(year, month, day)
           a == J + 32044
           b == CenturyOf(a)
           c == CenturyDay(a)
           d == YearOf(c)
           e == YearDay(c)
           m == (5 * e + 2) \div 153
<1>6. /\ n \in 28..31 /\ k \in 0..11 /\ DaysBefore(k) \in 0..337
      /\ \A i \in 0..(n - 1) : (5 * (DaysBefore(k) + i) + 2) \div 153 = k
      /\ month # 2 => n = DaysBefore(k + 1) - DaysBefore(k)
      /\ month = 2 => DaysBefore(k) = 337 /\ n = (IF IsLeap(year) THEN 29 ELSE 28)
  BY <1>2 DEF MonthLies
<1>7. day \in 1..n /\ n \in Int
  BY <1>1, <1>6
<1>8. /\ J = day + DaysBefore(k) + Y * 365 + LeapDays(Y) - 32045
      /\ J \in Int /\ Y \in Int /\ LeapDays(Y) \in Int
  BY <1>4, <1>5, <1>6, <1>7
<1>9. Y = (IF month <= 2 THEN year + 4799 ELSE year + 4800) /\ k = (IF month <= 2 THEN month + 9 ELSE month - 3)
  BY DEF MarchYear, MarchMonth
<1> HIDE DEF Y, k, n, J
<1>10. month # 2 => E < DaysBefore(k + 1) /\ DaysBefore(k + 1) <= 337 /\ DaysBefore(k + 1) \in Int
  <2>1. month # 2 => k \in 0..10
    BY <1>1, <1>9
  <2>2. \A i \in 0..10 : DaysBefore(i + 1) \in Int /\ DaysBefore(i + 1) <= 337
    BY DEF DaysBefore
  <2> QED
    BY <1>6, <1>7, <2>1, <2>2
<1>11. E \in 0..365 /\ (E = 365 => month = 2 /\ IsLeap(year))
  <2>1. CASE month = 2
    BY <1>6, <1>7, <2>1
  <2>2. CASE month # 2
    <3>1. E \in Int /\ 0 <= E /\ E < 337
      BY <1>6, <1>7, <1>10, <2>2
    <3> HIDE DEF E
    <3> QED
      BY <3>1
  <2> QED
    BY <2>1, <2>2
<1>12. E = 365 => LongYear(Y)
  <2> SUFFICES ASSUME E = 365 PROVE LongYear(Y)
    OBVIOUS
  <2>1. IsLeap(year) /\ Y + 1 = year + 4800
    BY <1>1, <1>9, <1>11
  <2>2. /\ (year + 4800) % 4 = year % 4 /\ (year + 4800) % 100 = year % 100
        /\ (year + 4800) % 400 = year % 400
    BY <1>1
  <2>3. year % 400 = 0 => year % 4 = 0
    BY <1>1
  <2> QED
    BY <2>1, <2>2, <2>3 DEF IsLeap, LongYear
<1>13. a = 365 * Y + LeapDays(Y) + E
  BY <1>6, <1>7, <1>8, SMTT(20)
<1>14. b * 100 + d = Y /\ e = E
  <2> HIDE DEF a, E
  <2>2. Y \in Int /\ E \in 0..365
    BY <1>8, <1>11
  <2>1. Found(365 * Y + LeapDays(Y) + E, Y, E)
    BY <1>12, <2>2, YearFound, Zenon
  <2> QED
    BY <1>13, <2>1 DEF Found
<1>15. m = k
  <2>1. E = DaysBefore(k) + (day - 1) /\ day - 1 \in 0..(n - 1)
    BY <1>6, <1>7
  <2> HIDE DEF E, e
  <2> QED
    BY <1>6, <1>14, <2>1
<1>16. b \in Int /\ d \in Int
  <2>1. a \in Int
    BY <1>8
  <2> HIDE DEF a
  <2>2. b \in Int
    BY <2>1 DEF CenturyOf
  <2>3. c \in Int
    BY <2>1, <2>2 DEF CenturyDay
  <2> HIDE DEF c
  <2> QED
    BY <2>2, <2>3 DEF YearOf
<1>17. getYearMonthDay(J) = [year |-> b * 100 + d - 4800 + m \div 10,
                             month |-> m + 3 - 12 * (m \div 10),
                             day |-> e - (153 * m + 2) \div 5 + 1]
  BY DEF getYearMonthDay, CenturyOf, CenturyDay, YearOf, YearDay
<1> HIDE DEF b, d, e, m
<1>18. k \div 10 = IF month <= 2 THEN 1 ELSE 0
  BY <1>1, <1>9
<1>19. b * 100 + d - 4800 + m \div 10 = year
  <2>1. b * 100 + d - 4800 + m \div 10 = Y - 4800 + k \div 10
    BY <1>6, <1>14, <1>15, <1>16
  <2> QED
    BY <1>1, <1>8, <1>9, <1>18, <2>1
<1>20. m + 3 - 12 * (m \div 10) = month
  BY <1>1, <1>9, <1>15, <1>18
<1>21. e - (153 * m + 2) \div 5 + 1 = day
  BY <1>6, <1>7, <1>14, <1>15 DEF DaysBefore
<1> QED
  BY <1>17, <1>19, <1>20, <1>21 DEF J

\* The day after a day has the next number, at the end of a month and of a year too.
LEMMA NextJulian ==
  ASSUME NEW year, NEW month, NEW day, RealDay(year, month, day)
  PROVE  /\ day < MonthLength(year, month)
              => /\ RealDay(year, month, day + 1)
                 /\ getJulianDayNumber(year, month, day + 1)
                      = getJulianDayNumber(year, month, day) + 1
         /\ ~(day < MonthLength(year, month)) /\ month < 12
              => /\ RealDay(year, month + 1, 1)
                 /\ getJulianDayNumber(year, month + 1, 1)
                      = getJulianDayNumber(year, month, day) + 1
         /\ ~(day < MonthLength(year, month)) /\ ~(month < 12)
              => /\ RealDay(year + 1, 1, 1)
                 /\ getJulianDayNumber(year + 1, 1, 1)
                      = getJulianDayNumber(year, month, day) + 1
<1>1. year \in Int /\ month \in 1..12 /\ day \in 1..MonthLength(year, month)
  BY DEF RealDay
<1>2. \A y \in Int, m \in 1..12 : MonthLength(y, m) \in 28..31
  <2> TAKE y \in Int, m \in 1..12
  <2>1. MonthLies(MonthLength(y, m), MarchMonth(m), m, y)
    BY Months
  <2> QED
    BY <2>1 DEF MonthLies
<1>3. day \in Int /\ MonthLength(year, month) \in Int
  BY <1>1, <1>2
<1>4. \A y \in Int, m \in 1..12, d \in Int :
        getJulianDayNumber(y, m, d)
          = d + DaysBefore(MarchMonth(m)) + MarchYear(y, m) * 365 + LeapDays(MarchYear(y, m)) - 32045
  BY JulianIs
<1> DEFINE Y == MarchYear(year, month)
           B == DaysBefore(MarchMonth(month))
           L == LeapDays(Y)
<1>5. B \in Nat /\ Y \in Int /\ L \in Int
  BY <1>1, JulianTypes
<1>6. getJulianDayNumber(year, month, day) = day + B + Y * 365 + L - 32045
  BY <1>1, <1>3, <1>4
<1>7. ASSUME day < MonthLength(year, month)
      PROVE  /\ RealDay(year, month, day + 1)
             /\ getJulianDayNumber(year, month, day + 1) = getJulianDayNumber(year, month, day) + 1
  <2>1. getJulianDayNumber(year, month, day + 1) = (day + 1) + B + Y * 365 + L - 32045
    BY <1>1, <1>3, <1>4
  <2> HIDE DEF B, Y, L
  <2>2. getJulianDayNumber(year, month, day + 1) = getJulianDayNumber(year, month, day) + 1
    BY <1>3, <1>5, <1>6, <2>1
  <2>3. day + 1 \in 1..MonthLength(year, month)
    BY <1>1, <1>3, <1>7
  <2> QED
    BY <1>1, <2>2, <2>3 DEF RealDay
<1>8. ASSUME ~(day < MonthLength(year, month)), month < 12
      PROVE  /\ RealDay(year, month + 1, 1)
             /\ getJulianDayNumber(year, month + 1, 1) = getJulianDayNumber(year, month, day) + 1
  <2>1. month + 1 \in 1..12 /\ day = MonthLength(year, month)
    BY <1>1, <1>3, <1>8
  <2>2. 1 \in 1..MonthLength(year, month + 1)
    BY <1>1, <1>2, <2>1
  <2> DEFINE Y1 == MarchYear(year, month + 1)
             B1 == DaysBefore(MarchMonth(month + 1))
             L1 == LeapDays(Y1)
  <2>3. getJulianDayNumber(year, month + 1, 1) = 1 + B1 + Y1 * 365 + L1 - 32045
    BY <1>1, <1>4, <2>1
  <2>4. B1 \in Nat /\ Y1 \in Int /\ L1 \in Int
    BY <1>1, <2>1, JulianTypes
  <2>5. MonthLies(MonthLength(year, month), MarchMonth(month), month, year)
    BY <1>1, Months
  <2>6. B1 + Y1 * 365 + L1 = day + B + Y * 365 + L
    <3>1. CASE month = 2
      <4>1. Y = year + 4799 /\ Y1 = year + 4800 /\ MarchMonth(month + 1) = 0
        BY <1>1, <3>1 DEF MarchYear, MarchMonth
      <4>2. B = 337 /\ day = 28 + (IF IsLeap(year) THEN 1 ELSE 0)
        BY <2>1, <2>5, <3>1 DEF MonthLies
      <4>3. B1 = 0
        BY <4>1 DEF DaysBefore
      <4>4. L1 - L = IF IsLeap(year) THEN 1 ELSE 0
        BY <1>1, <4>1, LeapStep
      <4> HIDE DEF B, Y, L, B1, Y1, L1
      <4> QED
        BY <1>1, <1>3, <1>5, <2>4, <4>1, <4>2, <4>3, <4>4
    <3>2. CASE month # 2
      <4>1. Y1 = Y /\ MarchMonth(month + 1) = MarchMonth(month) + 1
        BY <1>1, <2>1, <3>2 DEF MarchYear, MarchMonth
      <4>2. B1 = B + day
        <5>1. day = DaysBefore(MarchMonth(month) + 1) - DaysBefore(MarchMonth(month))
          BY <2>1, <2>5, <3>2 DEF MonthLies
        <5>2. DaysBefore(MarchMonth(month) + 1) = B1
          BY <4>1
        <5> HIDE DEF B1
        <5> QED
          BY <1>5, <2>4, <5>1, <5>2
      <4>3. L1 = L
        BY <4>1
      <4> HIDE DEF B, Y, L, B1, Y1, L1
      <4> QED
        BY <1>3, <1>5, <2>4, <4>1, <4>2, <4>3
    <3> QED
      BY <3>1, <3>2
  <2> HIDE DEF B, Y, L, B1, Y1, L1
  <2>7. getJulianDayNumber(year, month + 1, 1) = getJulianDayNumber(year, month, day) + 1
    BY <1>3, <1>5, <1>6, <2>3, <2>4, <2>6
  <2> QED
    BY <1>1, <2>1, <2>2, <2>7 DEF RealDay
<1>9. ASSUME ~(day < MonthLength(year, month)), ~(month < 12)
      PROVE  /\ RealDay(year + 1, 1, 1)
             /\ getJulianDayNumber(year + 1, 1, 1) = getJulianDayNumber(year, month, day) + 1
  <2>1. month = 12 /\ day = 31
    <3>1. month = 12 /\ day = MonthLength(year, month)
      BY <1>1, <1>3, <1>9
    <3> QED
      BY <3>1 DEF MonthLength
  <2>2. 1 \in 1..MonthLength(year + 1, 1) /\ year + 1 \in Int
    BY <1>1, <1>2
  <2>3. getJulianDayNumber(year + 1, 1, 1)
          = 1 + DaysBefore(MarchMonth(1)) + MarchYear(year + 1, 1) * 365
              + LeapDays(MarchYear(year + 1, 1)) - 32045
    BY <1>4, <2>2
  <2>4. MarchYear(year + 1, 1) = Y
    BY <1>1, <2>1 DEF MarchYear
  <2>5. DaysBefore(MarchMonth(1)) = 306 /\ B = 275
    BY <2>1 DEF MarchMonth, DaysBefore
  <2> HIDE DEF B
  <2>6. getJulianDayNumber(year + 1, 1, 1) = 1 + 306 + Y * 365 + L - 32045
    BY <2>3, <2>4, <2>5
  <2> HIDE DEF Y, L
  <2>7. getJulianDayNumber(year + 1, 1, 1) = getJulianDayNumber(year, month, day) + 1
    BY <1>3, <1>5, <1>6, <2>1, <2>5, <2>6
  <2> QED
    BY <2>2, <2>7 DEF RealDay
<1> QED
  BY <1>7, <1>8, <1>9

\* 1970-01-01, and the first of January of any year.
LEMMA Januaries ==
  ASSUME NEW year \in Int
  PROVE  /\ kJulianDayOf1970_01_01 = 2440588
         /\ getJulianDayNumber(year, 1, 1)
              = 365 * (year - 1970) + LeapDays(year - 1) - LeapDays(1969) + 2440588
<1>1. ASSUME NEW y \in Int
      PROVE  getJulianDayNumber(y, 1, 1) = 307 + (y + 4799) * 365 + LeapDays(y + 4799) - 32045
  <2>1. DaysBefore(MarchMonth(1)) = 306 /\ MarchYear(y, 1) = y + 4799
    BY DEF DaysBefore, MarchMonth, MarchYear
  <2>2. getJulianDayNumber(y, 1, 1)
          = 1 + DaysBefore(MarchMonth(1)) + MarchYear(y, 1) * 365 + LeapDays(MarchYear(y, 1)) - 32045
    BY JulianIs
  <2>3. LeapDays(y + 4799) \in Int
    BY DEF LeapDays
  <2> QED
    BY <2>1, <2>2, <2>3
<1>2. LeapDays(6769) = 1641 /\ LeapDays(1969) = 477
  BY DEF LeapDays
<1>3. kJulianDayOf1970_01_01 = 2440588
  BY <1>1, <1>2 DEF kJulianDayOf1970_01_01
<1>4. LeapDays(year + 4799) = LeapDays(year - 1) + 1164 /\ LeapDays(year - 1) \in Int
  BY DEF LeapDays
<1> QED
  BY <1>1, <1>2, <1>3, <1>4

-----------------------------------------------------------------------------
(* Calendar: times of a day *)

\* The quotient and the remainder of a number are the only ones.
LEMMA LowDigit ==
  ASSUME NEW a \in Nat, NEW B \in Nat \ {0}, NEW d \in Nat, d < B
  PROVE  (a * B + d) \div B = a /\ (a * B + d) % B = d
<1> DEFINE x == a * B + d
           q == x \div B
           r == x % B
<1>1. a * B \in Nat /\ x \in Nat
  OBVIOUS
<1>2. q \in Nat /\ r \in Nat /\ r < B /\ x = B * q + r
  <2> HIDE DEF x
  <2> QED
    BY <1>1
<1>3. a * B + d = q * B + r
  BY <1>2
<1> HIDE DEF q, r, x
<1>4. ASSUME NEW u \in Nat, NEW v \in Nat, NEW c \in Nat, NEW e \in Nat,
             u * B + c = v * B + e, e < B
      PROVE  ~(u < v /\ c < B) /\ ~(v < u)
  <2>1. ASSUME NEW h \in Nat, NEW l \in Nat, l < h
        PROVE  h * B >= l * B + B /\ l * B \in Nat /\ h * B \in Nat
    <3>1. PICK k \in Nat : h = (l + 1) + k
      <4>1. h - (l + 1) \in Nat /\ h = (l + 1) + (h - (l + 1))
        BY <2>1
      <4> QED
        BY <4>1
    <3>2. h * B = l * B + B + k * B /\ k * B \in Nat /\ l * B \in Nat
      BY <3>1
    <3> QED
      BY <3>2
  <2>2. ~(u < v /\ c < B)
    <3> SUFFICES ASSUME u < v, c < B PROVE FALSE
      OBVIOUS
    <3>1. v * B >= u * B + B /\ u * B \in Nat /\ v * B \in Nat
      BY <2>1
    <3> QED
      BY <1>4, <3>1
  <2>3. ~(v < u)
    <3> SUFFICES ASSUME v < u PROVE FALSE
      OBVIOUS
    <3>1. u * B >= v * B + B /\ u * B \in Nat /\ v * B \in Nat
      BY <2>1
    <3> QED
      BY <1>4, <3>1
  <2> QED
    BY <2>2, <2>3
<1>5. ~(a < q) /\ ~(q < a)
  BY <1>2, <1>3, <1>4
<1>6. a = q
  BY <1>2, <1>5
<1> QED
  BY <1>1, <1>2, <1>3, <1>6 DEF x, q, r

\* A number is its quotient and its remainder.
LEMMA Division ==
  ASSUME NEW x \in Nat, NEW B \in Nat \ {0}
  PROVE  /\ x \div B \in Nat /\ x % B \in Nat /\ x % B < B
         /\ (x \div B) * B + (x % B) = x
<1>1. x \div B \in Nat /\ x % B \in Nat /\ x % B < B /\ x = B * (x \div B) + (x % B)
  OBVIOUS
<1>2. B * (x \div B) = (x \div B) * B
  BY <1>1
<1> QED
  BY <1>1, <1>2

\* The seconds of an hour and of a day.
LEMMA Spans ==
  /\ kSecondsPerHour \in Nat \ {0} /\ kSecondsPerHour = Base * Base /\ kSecondsPerHour >= 4
  /\ kSecondsPerDay \in Nat \ {0} /\ kSecondsPerDay = HoursPerDay * kSecondsPerHour
  /\ kSecondsPerDay >= kSecondsPerHour
<1>1. Base \in Nat /\ Base >= 2 /\ HoursPerDay \in Nat /\ HoursPerDay >= 1
  BY DateBounds
<1>2. Base * Base \in Nat /\ Base * Base >= 4
  <2>1. PICK k \in Nat : Base = k + 2
    <3>1. Base - 2 \in Nat /\ Base = (Base - 2) + 2
      BY <1>1
    <3> QED
      BY <3>1
  <2>2. Base * Base = k * k + 4 * k + 4 /\ k * k \in Nat
    BY <2>1
  <2> QED
    BY <2>1, <2>2
<1>3. kSecondsPerHour = Base * Base
  BY DEF kSecondsPerHour
<1> DEFINE h == kSecondsPerHour
<1>4. h \in Nat /\ h >= 4
  BY <1>2, <1>3
<1> HIDE DEF h
<1>5. HoursPerDay * h \in Nat /\ HoursPerDay * h >= h
  <2>1. PICK k \in Nat : HoursPerDay = k + 1
    <3>1. HoursPerDay - 1 \in Nat /\ HoursPerDay = (HoursPerDay - 1) + 1
      BY <1>1
    <3> QED
      BY <3>1
  <2>2. HoursPerDay * h = k * h + h /\ k * h \in Nat
    BY <1>4, <2>1
  <2> QED
    BY <1>4, <2>2
<1>6. kSecondsPerDay = HoursPerDay * h
  BY DEF kSecondsPerDay, h
<1> QED
  BY <1>3, <1>4, <1>5, <1>6 DEF h

\* DayOf() finds the day and the second of it, before 1970 too.
LEMMA DayFound ==
  ASSUME NEW n \in Int, NEW s \in Nat, s < kSecondsPerDay
  PROVE  DayOf(n * kSecondsPerDay + s) = [days |-> n, seconds |-> s]
<1> DEFINE K == kSecondsPerDay
           t == n * K + s
           q == Quotient(t, K)
           r == t - K * q
<1>1. K \in Nat \ {0} /\ s < K
  BY Spans
<1> HIDE DEF K
<1>2. n * K \in Int /\ t \in Int
  BY <1>1
<1>3. CASE n >= 0
  <2>1. n \in Nat /\ t >= 0
    <3>1. n \in Nat
      BY <1>3
    <3>2. n * K \in Nat
      BY <1>1, <3>1
    <3> QED
      BY <3>1, <3>2
  <2>2. t \div K = n
    BY <1>1, <2>1, LowDigit
  <2>3. q = n
    BY <2>1, <2>2 DEF Quotient
  <2> QED
    <3>1. r = s
      BY <1>1, <1>2, <2>3
    <3>2. DayOf(t) = IF r < 0 THEN [days |-> q - 1, seconds |-> r + K] ELSE [days |-> q, seconds |-> r]
      BY DEF DayOf, Remainder, K
    <3> HIDE DEF q, r, t
    <3>3. DayOf(t) = [days |-> n, seconds |-> s]
      BY <2>3, <3>1, <3>2
    <3> QED
      BY <3>3 DEF t, K
<1>4. CASE n < 0
  <2>1. PICK i \in Nat : n = -1 - i
    <3>1. -1 - n \in Nat /\ n = -1 - (-1 - n)
      BY <1>4
    <3> QED
      BY <3>1
  <2>2. i * K \in Nat /\ n * K = -K - i * K
    BY <1>1, <2>1
  <2>3. CASE s = 0
    <3>1. t < 0 /\ -t = (i + 1) * K + 0 /\ i + 1 \in Nat
      BY <1>1, <2>1, <2>2, <2>3
    <3>2. ((i + 1) * K + 0) \div K = i + 1
      BY <1>1, <3>1, LowDigit
    <3>3. q = -(i + 1)
      BY <1>2, <3>1, <3>2 DEF Quotient
    <3>4. q = n /\ r = s
      <4>1. q = n
        BY <2>1, <3>3
      <4>2. K * n = n * K
        BY <1>1
      <4> QED
        BY <1>2, <2>3, <4>1, <4>2
    <3>5. DayOf(t) = IF r < 0 THEN [days |-> q - 1, seconds |-> r + K] ELSE [days |-> q, seconds |-> r]
      BY DEF DayOf, Remainder, K
    <3> HIDE DEF q, r, t
    <3>6. DayOf(t) = [days |-> n, seconds |-> s]
      BY <3>4, <3>5
    <3> QED
      BY <3>6 DEF t, K
  <2>4. CASE s > 0
    <3>1. t < 0 /\ -t = i * K + (K - s) /\ K - s \in Nat /\ K - s < K
      BY <1>1, <2>2, <2>4
    <3>2. (i * K + (K - s)) \div K = i
      BY <1>1, <3>1, LowDigit
    <3>3. q = -i
      BY <1>2, <3>1, <3>2 DEF Quotient
    <3>4. q = n + 1 /\ r = s - K
      <4>1. q = n + 1
        BY <2>1, <3>3
      <4>2. K * (n + 1) = n * K + K
        BY <1>1
      <4> QED
        BY <1>1, <1>2, <4>1, <4>2
    <3>5. DayOf(t) = IF r < 0 THEN [days |-> q - 1, seconds |-> r + K] ELSE [days |-> q, seconds |-> r]
      BY DEF DayOf, Remainder, K
    <3> HIDE DEF q, r, t
    <3>6. q - 1 = n /\ r + K = s /\ r < 0
      BY <1>1, <3>4
    <3>7. DayOf(t) = [days |-> n, seconds |-> s]
      BY <3>5, <3>6
    <3> QED
      BY <3>7 DEF t, K
  <2> QED
    BY <2>3, <2>4
<1> QED
  BY <1>3, <1>4

\* Hours, minutes and seconds add up.
LEMMA HMSAddsUp ==
  ASSUME NEW s \in Nat
  PROVE  /\ fillHMS(s).hour * kSecondsPerHour + fillHMS(s).min * Base + fillHMS(s).sec = s
         /\ fillHMS(s).hour * kSecondsPerHour \in Int
         /\ fillHMS(s).min * Base \in Int /\ fillHMS(s).sec \in Int
<1> DEFINE q == s \div Base
           c == s % Base
           h == q \div Base
           m == q % Base
<1>1. Base \in Nat \ {0}
  BY DateBounds
<1>2. q \in Nat /\ c \in Nat /\ q * Base + c = s
  BY <1>1, Division
<1>3. fillHMS(s).hour = h /\ fillHMS(s).min = m /\ fillHMS(s).sec = c
  BY DEF fillHMS
<1> HIDE DEF q, c
<1>4. h \in Nat /\ m \in Nat /\ h * Base + m = q
  BY <1>1, <1>2, Division
<1> HIDE DEF h, m
<1>5. q * Base = h * (Base * Base) + m * Base
  <2>1. (h * Base + m) * Base = h * (Base * Base) + m * Base
    BY <1>1, <1>4
  <2> QED
    BY <1>4, <2>1
<1>6. h * (Base * Base) \in Int /\ m * Base \in Int
  BY <1>1, <1>4
<1>7. kSecondsPerHour = Base * Base
  BY Spans
<1>8. h * kSecondsPerHour \in Int /\ h * kSecondsPerHour + m * Base + c = s
  BY <1>2, <1>5, <1>6, <1>7
<1> QED
  BY <1>2, <1>3, <1>6, <1>8

-----------------------------------------------------------------------------
(* Calendar: the date reached *)

\* The date is a real one, its number is that of the day reached, and yday counts from the
\* first of January.
DateTypeOK ==
  /\ days \in Int /\ days >= JulianDayZero
  /\ date \in [year : Int, month : 1..12, day : Int, yday : Int]
  /\ RealDay(date.year, date.month, date.day)

Numbered ==
  /\ getJulianDayNumber(date.year, date.month, date.day) = days + kJulianDayOf1970_01_01
  /\ getJulianDayNumber(date.year, 1, 1) + date.yday = days + kJulianDayOf1970_01_01

DateInv == DateTypeOK /\ Numbered

\* A walk starts at a date with its number.
LEMMA DateStarts == CalendarInit => DateInv
<1> SUFFICES ASSUME CalendarInit PROVE DateInv
  OBVIOUS
<1>1. PICK s \in Starts : days = s[1] /\ date = [year |-> s[2], month |-> 1, day |-> 1, yday |-> 0]
  BY DEF CalendarInit
<1> DEFINE y == s[2]
<1>2. /\ y \in Int /\ days = 365 * (y - 1970) + LeapDays(y - 1) - LeapDays(1969)
      /\ days >= JulianDayZero
  BY <1>1, DateBounds
<1>3. date.year = y /\ date.month = 1 /\ date.day = 1 /\ date.yday = 0
  BY <1>1
<1>4. date = [year |-> y, month |-> 1, day |-> 1, yday |-> 0]
  BY <1>1
<1> HIDE DEF y
<1>5. \A i \in Int : LeapDays(i) \in Int
  BY DEF LeapDays
<1>6. days \in Int /\ getJulianDayNumber(y, 1, 1) = days + kJulianDayOf1970_01_01
  <2>1. LeapDays(y - 1) \in Int /\ LeapDays(1969) \in Int
    BY <1>2, <1>5
  <2> QED
    BY <1>2, <2>1, Januaries
<1>7. RealDay(y, 1, 1)
  BY <1>2 DEF RealDay, MonthLength
<1>8. date \in [year : Int, month : 1..12, day : Int, yday : Int]
  BY <1>2, <1>4
<1>9. DateTypeOK
  BY <1>2, <1>3, <1>6, <1>7, <1>8 DEF DateTypeOK
<1>10. Numbered
  <2>1. kJulianDayOf1970_01_01 \in Int
    BY Januaries
  <2> QED
    BY <1>3, <1>6, <2>1 DEF Numbered
<1> QED
  BY <1>9, <1>10 DEF DateInv

\* The next day has the next number.
LEMMA DateWalks == DateInv /\ NextDay => DateInv'
<1> SUFFICES ASSUME DateInv, NextDay PROVE DateInv'
  OBVIOUS
<1> DEFINE y == date.year
           m == date.month
           d == date.day
           J == getJulianDayNumber(y, m, d)
           j == getJulianDayNumber(y, 1, 1)
           k == kJulianDayOf1970_01_01
<1>1. /\ y \in Int /\ m \in 1..12 /\ d \in Int /\ date.yday \in Int /\ days \in Int
      /\ RealDay(y, m, d)
      /\ date \in [year : Int, month : 1..12, day : Int, yday : Int]
  BY DEF DateInv, DateTypeOK
<1>2. J = days + k /\ j + date.yday = days + k
  BY DEF DateInv, Numbered
<1>3. k \in Int /\ j \in Int
  <2>1. \A i \in Int : LeapDays(i) \in Int
    BY DEF LeapDays
  <2>2. LeapDays(y - 1) \in Int /\ LeapDays(1969) \in Int
    BY <1>1, <2>1
  <2>3. j = 365 * (y - 1970) + LeapDays(y - 1) - LeapDays(1969) + 2440588 /\ k = 2440588
    BY <1>1, Januaries
  <2> HIDE DEF j, k
  <2> QED
    BY <1>1, <2>2, <2>3
<1>4. /\ days' = days + 1
      /\ date' = IF d < MonthLength(y, m) THEN [date EXCEPT !.day = @ + 1, !.yday = @ + 1]
                 ELSE IF m < 12 THEN [date EXCEPT !.month = @ + 1, !.day = 1, !.yday = @ + 1]
                 ELSE [year |-> y + 1, month |-> 1, day |-> 1, yday |-> 0]
  BY DEF NextDay
<1>5. /\ d < MonthLength(y, m) => RealDay(y, m, d + 1) /\ getJulianDayNumber(y, m, d + 1) = J + 1
      /\ ~(d < MonthLength(y, m)) /\ m < 12
           => RealDay(y, m + 1, 1) /\ getJulianDayNumber(y, m + 1, 1) = J + 1
      /\ ~(d < MonthLength(y, m)) /\ ~(m < 12)
           => RealDay(y + 1, 1, 1) /\ getJulianDayNumber(y + 1, 1, 1) = J + 1
  BY <1>1, NextJulian
<1>6. k' = k
  BY DEF kJulianDayOf1970_01_01, getJulianDayNumber
<1> DEFINE Y == date'.year
           M == date'.month
           D == date'.day
<1>7. /\ date' \in [year : Int, month : 1..12, day : Int, yday : Int]
      /\ RealDay(Y, M, D)
      /\ getJulianDayNumber(Y, M, D) = J + 1
      /\ getJulianDayNumber(Y, 1, 1) + date'.yday = J + 1
  <2>1. CASE d < MonthLength(y, m)
    <3>1. date' = [date EXCEPT !.day = @ + 1, !.yday = @ + 1]
      BY <1>4, <2>1
    <3>2. Y = y /\ M = m /\ D = d + 1 /\ date'.yday = date.yday + 1
      BY <1>1, <3>1
    <3>3. date' \in [year : Int, month : 1..12, day : Int, yday : Int]
      <4>1. date' = [year |-> y, month |-> m, day |-> d + 1, yday |-> date.yday + 1]
        BY <1>1, <3>1
      <4>2. m \in 1..12 /\ d + 1 \in Int /\ date.yday + 1 \in Int
        BY <1>1
      <4> QED
        BY <1>1, <4>1, <4>2
    <3>4. RealDay(Y, M, D) /\ getJulianDayNumber(Y, M, D) = J + 1
      BY <1>5, <2>1, <3>2
    <3>5. getJulianDayNumber(Y, 1, 1) = j
      BY <3>2
    <3> HIDE DEF Y, j, J
    <3>6. getJulianDayNumber(Y, 1, 1) + date'.yday = J + 1
      BY <1>1, <1>2, <1>3, <3>2, <3>5
    <3> QED
      BY <3>3, <3>4, <3>6
  <2>2. CASE ~(d < MonthLength(y, m)) /\ m < 12
    <3>1. date' = [date EXCEPT !.month = @ + 1, !.day = 1, !.yday = @ + 1]
      BY <1>4, <2>2
    <3>2. Y = y /\ M = m + 1 /\ D = 1 /\ date'.yday = date.yday + 1
      BY <1>1, <3>1
    <3>3. date' \in [year : Int, month : 1..12, day : Int, yday : Int]
      <4>1. date' = [year |-> y, month |-> m + 1, day |-> 1, yday |-> date.yday + 1]
        BY <1>1, <3>1
      <4>2. m + 1 \in 1..12 /\ 1 \in Int /\ date.yday + 1 \in Int
        BY <1>1, <2>2
      <4> QED
        BY <1>1, <4>1, <4>2
    <3>4. RealDay(Y, M, D) /\ getJulianDayNumber(Y, M, D) = J + 1
      BY <1>5, <2>2, <3>2
    <3>5. getJulianDayNumber(Y, 1, 1) = j
      BY <3>2
    <3> HIDE DEF Y, j, J
    <3>6. getJulianDayNumber(Y, 1, 1) + date'.yday = J + 1
      BY <1>1, <1>2, <1>3, <3>2, <3>5
    <3> QED
      BY <3>3, <3>4, <3>6
  <2>3. CASE ~(d < MonthLength(y, m)) /\ ~(m < 12)
    <3>1. date' = [year |-> y + 1, month |-> 1, day |-> 1, yday |-> 0]
      BY <1>4, <2>3
    <3>2. Y = y + 1 /\ M = 1 /\ D = 1 /\ date'.yday = 0
      BY <3>1
    <3>3. date' \in [year : Int, month : 1..12, day : Int, yday : Int]
      BY <1>1, <3>1
    <3>4. RealDay(Y, M, D) /\ getJulianDayNumber(Y, M, D) = J + 1
      BY <1>5, <2>3, <3>2
    <3>5. getJulianDayNumber(Y, 1, 1) = J + 1 /\ J + 1 \in Int
      BY <1>1, <1>2, <1>3, <3>2, <3>4
    <3> HIDE DEF Y, J
    <3>6. getJulianDayNumber(Y, 1, 1) + date'.yday = J + 1
      BY <3>2, <3>5
    <3> QED
      BY <3>3, <3>4, <3>6
  <2> QED
    BY <2>1, <2>2, <2>3
<1>8. J + 1 = days' + k /\ days' \in Int
  BY <1>1, <1>2, <1>3, <1>4
<1>9. days' >= JulianDayZero
  <2>1. days >= JulianDayZero
    BY DEF DateInv, DateTypeOK
  <2> QED
    BY <1>1, <1>4, <2>1 DEF JulianDayZero
<1>10. DateTypeOK'
  BY <1>7, <1>8, <1>9 DEF DateTypeOK
<1>11. Numbered'
  BY <1>6, <1>7, <1>8 DEF Numbered
<1> QED
  BY <1>10, <1>11 DEF DateInv

\* With the number right, the conversions are.
LEMMA DatesAgree == DateInv => UtcAgrees
<1> SUFFICES ASSUME DateInv PROVE UtcAgrees
  OBVIOUS
<1> DEFINE K == kSecondsPerDay
           ymd == [year |-> date.year, month |-> date.month, day |-> date.day]
           julian == days + kJulianDayOf1970_01_01
<1>1. K \in Nat /\ K >= 4
  BY Spans
<1>2. SUFFICES ASSUME NEW s \in {0, 1, K - 1}
               PROVE  LET t   == days * K + s
                          utc == toUtcTime(t)
                      IN  /\ utc.ymd = ymd
                          /\ utc.yday = date.yday /\ utc.wday = (days + 4) % 7
                          /\ utc.time.hour * kSecondsPerHour + utc.time.min * Base + utc.time.sec = s
                          /\ fromUtcTime(utc.ymd, utc.time) = t
  BY DEF UtcAgrees
<1> DEFINE t == days * K + s
           utc == toUtcTime(t)
           time == fillHMS(s)
<1>3. s \in Nat /\ s < K
  BY <1>1, <1>2
<1>4. /\ days \in Int /\ days >= JulianDayZero /\ date.yday \in Int /\ date.year \in Int
      /\ RealDay(date.year, date.month, date.day)
      /\ getJulianDayNumber(date.year, date.month, date.day) = julian
      /\ getJulianDayNumber(date.year, 1, 1) + date.yday = julian
  BY DEF DateInv, DateTypeOK, Numbered
<1>5. DayOf(t).days = days /\ DayOf(t).seconds = s
  <2>1. DayOf(t) = [days |-> days, seconds |-> s]
    BY <1>3, <1>4, DayFound
  <2> QED
    BY <2>1
<1>6. getYearMonthDay(julian) = ymd
  BY <1>4, JulianInverse
<1>7. utc = [time |-> time, ymd |-> ymd, wday |-> weekDay(julian),
             yday |-> julian - getJulianDayNumber(ymd.year, 1, 1)]
  <2> HIDE DEF t
  <2> QED
    BY <1>5, <1>6 DEF toUtcTime
<1>8. kJulianDayOf1970_01_01 = 2440588
  BY Januaries
<1>9. weekDay(julian) = (days + 4) % 7
  <2>1. julian + 1 >= 0 /\ julian + 1 \in Int
    BY <1>4, <1>8 DEF JulianDayZero
  <2>2. \A i \in Int : i >= 0 => Remainder(i, 7) = i % 7
    BY DEF Remainder, Quotient
  <2>3. weekDay(julian) = (julian + 1) % 7
    <3> HIDE DEF julian
    <3> QED
      BY <2>1, <2>2 DEF weekDay
  <2> QED
    BY <1>4, <1>8, <2>3
<1>10. julian - getJulianDayNumber(date.year, 1, 1) = date.yday
  <2>1. getJulianDayNumber(date.year, 1, 1) \in Int
    <3>1. \A i \in Int : LeapDays(i) \in Int
      BY DEF LeapDays
    <3>2. LeapDays(date.year - 1) \in Int /\ LeapDays(1969) \in Int
      BY <1>4, <3>1
    <3> QED
      BY <1>4, <3>2, Januaries
  <2> QED
    BY <1>4, <1>8, <2>1
<1>11. /\ time.hour * kSecondsPerHour + time.min * Base + time.sec = s
       /\ time.hour * kSecondsPerHour \in Int /\ time.min * Base \in Int /\ time.sec \in Int
  BY <1>3, HMSAddsUp
<1> DEFINE a == time.hour * kSecondsPerHour
           b == time.min * Base
           c == time.sec
<1>12. fromUtcTime(ymd, time) = t
  <2>1. fromUtcTime(ymd, time) = (julian - kJulianDayOf1970_01_01) * K + a + b + c
    BY <1>4 DEF fromUtcTime
  <2>2. julian - kJulianDayOf1970_01_01 = days
    BY <1>4, <1>8
  <2>3. days * K \in Int
    BY <1>1, <1>4
  <2>4. a + b + c = s /\ a \in Int /\ b \in Int /\ c \in Int
    BY <1>11
  <2>5. fromUtcTime(ymd, time) = days * K + a + b + c
    BY <2>1, <2>2
  <2> HIDE DEF a, b, c, K, time
  <2> QED
    BY <2>3, <2>4, <2>5
<1> HIDE DEF t, time, julian, K
<1>13. ymd.year = date.year
  OBVIOUS
<1>14. utc.time = time /\ utc.ymd = ymd /\ utc.wday = weekDay(julian) /\ utc.yday = date.yday
  BY <1>7, <1>10, <1>13
<1> HIDE DEF utc, ymd
<1>15. /\ utc.ymd = ymd
       /\ utc.yday = date.yday /\ utc.wday = (days + 4) % 7
       /\ utc.time.hour * kSecondsPerHour + utc.time.min * Base + utc.time.sec = s
       /\ fromUtcTime(utc.ymd, utc.time) = t
  BY <1>9, <1>11, <1>12, <1>14
<1> QED
  BY <1>15 DEF utc, t, ymd

-----------------------------------------------------------------------------
(* Calendar: local times *)

\* The local time in force after i transitions.
InForce(i) == data.localtimes[IF i = 0 THEN 1 ELSE data.transitions[i].localtimeIdx]

\* The last transition whose key is not after t is the i-th, or there is none and i is 0.
LastNotAfter(i, t, key) ==
  /\ i \in 0..Len(data.transitions)
  /\ i # 0 => data.transitions[i][key] <= t
  /\ i < Len(data.transitions) => t < data.transitions[i + 1][key]

\* The transitions are in the order of a key.
Ascending(key) ==
  /\ \A a \in 1..Len(data.transitions) : data.transitions[a][key] \in Int
  /\ \A a, b \in 1..Len(data.transitions) :
       a < b => data.transitions[a][key] < data.transitions[b][key]

\* findLocaltime() finds what the last transition not after t brought into force.
LEMMA LocaltimeFound ==
  ASSUME NEW S, data.transitions \in Seq(S), NEW key, Ascending(key),
         NEW t \in Int, NEW i, LastNotAfter(i, t, key)
  PROVE  findLocaltime(t, key) = InForce(i)
<1> DEFINE T == data.transitions
           N == Len(T)
           before == {a \in DOMAIN T : T[a][key] < t}
           last == IF before = {} THEN 0 ELSE CHOOSE a \in before : \A b \in before : b <= a
           at == 1 + last
<1>1. N \in Nat /\ DOMAIN T = 1..N /\ (T = <<>> <=> N = 0)
  OBVIOUS
<1>2. /\ \A a \in 1..N : T[a][key] \in Int
      /\ \A a, b \in 1..N : a < b => T[a][key] < T[b][key]
  BY DEF Ascending
<1>3. i \in 0..N /\ (i # 0 => T[i][key] <= t) /\ (i < N => t < T[i + 1][key])
  BY DEF LastNotAfter
<1>4. findLocaltime(t, key) =
        IF T = <<>> \/ t < T[1][key] THEN data.localtimes[1]
        ELSE IF at > N THEN data.localtimes[T[N].localtimeIdx]
        ELSE IF T[at][key] = t THEN data.localtimes[T[at].localtimeIdx]
        ELSE data.localtimes[T[at - 1].localtimeIdx]
  BY DEF findLocaltime
<1>5. InForce(i) = data.localtimes[IF i = 0 THEN 1 ELSE T[i].localtimeIdx]
  BY DEF InForce
<1> HIDE DEF T, N
<1>6. CASE i = 0
  <2>1. T = <<>> \/ t < T[1][key]
    BY <1>1, <1>3, <1>6
  <2> QED
    BY <1>4, <1>5, <1>6, <2>1
<1>7. CASE i # 0
  <2>1. i \in 1..N /\ T[i][key] \in Int /\ T[i][key] <= t
    BY <1>2, <1>3, <1>7
  <2>2. T # <<>> /\ ~(t < T[1][key])
    <3>1. T # <<>> /\ 1 \in 1..N
      BY <1>1, <2>1
    <3>2. T[1][key] \in Int /\ T[1][key] <= T[i][key]
      <4>1. CASE i = 1
        BY <2>1, <4>1
      <4>2. CASE 1 < i
        BY <1>2, <2>1, <3>1, <4>2
      <4> QED
        BY <2>1, <4>1, <4>2
    <3> QED
      BY <2>1, <3>1, <3>2
  <2>3. \A a \in 1..N : (a < i => T[a][key] < T[i][key]) /\ (i < a => t < T[a][key])
    <3> TAKE a \in 1..N
    <3>1. a < i => T[a][key] < T[i][key]
      BY <1>2, <2>1
    <3>2. ASSUME i < a PROVE t < T[a][key]
      <4>1. i < N /\ i + 1 \in 1..N /\ t < T[i + 1][key]
        BY <1>1, <1>3, <2>1, <3>2
      <4>2. T[a][key] \in Int /\ T[i + 1][key] \in Int
        BY <1>2, <4>1
      <4>3. CASE a = i + 1
        BY <4>1, <4>3
      <4>4. CASE i + 1 < a
        <5>1. T[i + 1][key] < T[a][key]
          BY <1>2, <4>1, <4>4
        <5> QED
          BY <4>1, <4>2, <5>1
      <4> QED
        BY <1>1, <2>1, <3>2, <4>3, <4>4
    <3> QED
      BY <3>1, <3>2
  <2>4. ASSUME NEW n \in 0..N, before = 1..n PROVE last = n
    <3> HIDE DEF before
    <3>1. CASE n = 0
      <4>1. before = {}
        BY <2>4, <3>1
      <4> QED
        BY <3>1, <4>1
    <3>2. CASE n # 0
      <4>1. n \in before /\ \A b \in before : b <= n
        BY <1>1, <2>4, <3>2
      <4>2. \A a \in before : (\A b \in before : b <= a) => a = n
        BY <1>1, <2>4, <4>1
      <4>3. (CHOOSE a \in before : \A b \in before : b <= a) = n
        BY <4>1, <4>2
      <4>4. before # {}
        BY <4>1
      <4> QED
        BY <4>3, <4>4
    <3> QED
      BY <3>1, <3>2
  <2>5. CASE T[i][key] = t
    <3>1. before = 1..(i - 1)
      <4>1. \A a \in 1..N : T[a][key] < t <=> a < i
        <5> TAKE a \in 1..N
        <5>1. a < i \/ a = i \/ i < a
          BY <1>1, <2>1
        <5>2. T[a][key] \in Int
          BY <1>2
        <5> QED
          BY <1>1, <2>1, <2>3, <2>5, <5>1, <5>2
      <4>2. before = {a \in 1..N : a < i}
        BY <1>1, <4>1
      <4> QED
        BY <1>1, <2>1, <4>2
    <3>2. last = i - 1
      <4>1. i - 1 \in 0..N
        BY <1>1, <2>1
      <4> QED
        BY <2>4, <3>1, <4>1
    <3> HIDE DEF last
    <3>3. at = i
      BY <1>1, <2>1, <3>2
    <3> HIDE DEF at
    <3>4. ~(i > N)
      BY <1>1, <2>1
    <3> QED
      BY <1>4, <1>5, <1>7, <2>2, <2>5, <3>3, <3>4
  <2>6. CASE T[i][key] < t
    <3>1. before = 1..i
      <4>1. \A a \in 1..N : T[a][key] < t <=> a <= i
        <5> TAKE a \in 1..N
        <5>1. a < i \/ a = i \/ i < a
          BY <1>1, <2>1
        <5>2. T[a][key] \in Int
          BY <1>2
        <5> QED
          BY <1>1, <2>1, <2>3, <2>6, <5>1, <5>2
      <4>2. before = {a \in 1..N : a <= i}
        BY <1>1, <4>1
      <4> QED
        BY <1>1, <2>1, <4>2
    <3>2. last = i
      BY <2>4, <3>1, <1>3
    <3> HIDE DEF last
    <3>3. at = i + 1 /\ at - 1 = i
      BY <1>1, <2>1, <3>2
    <3> HIDE DEF at
    <3>4. CASE i = N
      <4>1. at > N
        BY <1>1, <3>3, <3>4
      <4> QED
        BY <1>4, <1>5, <1>7, <2>2, <3>4, <4>1
    <3>5. CASE i < N
      <4>1. ~(at > N) /\ i + 1 \in 1..N
        BY <1>1, <2>1, <3>3, <3>5
      <4>2. T[at][key] # t
        <5>1. T[i + 1][key] \in Int /\ t < T[i + 1][key]
          BY <1>2, <1>3, <3>5, <4>1
        <5> QED
          BY <3>3, <5>1
      <4> QED
        BY <1>4, <1>5, <1>7, <2>2, <3>3, <4>1, <4>2
    <3> QED
      BY <1>1, <2>1, <3>4, <3>5
  <2> QED
    BY <2>1, <2>5, <2>6
<1> QED
  BY <1>6, <1>7

\* What readTimeZoneFile() leaves of a zone, whole or cut short: each transition has the local
\* time at which it happens, and the assumptions on the zone hold for what was read.
Transition == [gmttime : Nat \ {0}, localtime : Int, localtimeIdx : DOMAIN data.localtimes]

ZoneTyped ==
  /\ data.localtimes \in Seq([gmtOffset : Int, isDst : BOOLEAN])
  /\ data.transitions \in Seq(Transition)

ZoneOrdered ==
  /\ \A i \in 1..Len(data.transitions) :
       /\ data.transitions[i].localtime = data.transitions[i].gmttime + InForce(i).gmtOffset
       /\ InForce(i).gmtOffset < InForce(i - 1).gmtOffset
            => /\ InForce(i - 1).isDst /\ ~InForce(i).isDst
               /\ InForce(i - 1).gmtOffset - InForce(i).gmtOffset = kSecondsPerHour
  /\ \A i, j \in 1..Len(data.transitions) : i < j =>
       /\ data.transitions[j].gmttime - data.transitions[i].gmttime > kSecondsPerHour
       /\ \A k, l \in DOMAIN data.localtimes :
            data.transitions[j].gmttime - data.transitions[i].gmttime
              > data.localtimes[k].gmtOffset - data.localtimes[l].gmtOffset

\* The local time in force is that of the last transition not after the second reached.
LocalInForce ==
  \E i \in 0..Len(data.transitions) :
    /\ LastNotAfter(i, second, "gmttime")
    /\ local = IF i = 0 THEN 1 ELSE data.transitions[i].localtimeIdx

ZoneInv == ZoneTyped /\ ZoneOrdered /\ second \in Nat /\ LocalInForce

\* A walk starts with a zone that has been read, before its first transition.
LEMMA ZoneStarts == CalendarInit => ZoneInv
<1> SUFFICES ASSUME CalendarInit PROVE ZoneInv
  OBVIOUS
<1>1. PICK zone \in Zones : data = ReadZone(zone)
  BY DEF CalendarInit
<1> DEFINE Ls == zone.localtimes
           Ts == zone.times
           Ys == zone.types
           L == data.localtimes
           T == data.transitions
<1>2. /\ Ls \in Seq([gmtOffset : Int, isDst : BOOLEAN])
      /\ zone.read \in 0..Len(Ls)
      /\ Ts \in Seq(Nat \ {0}) /\ Ys \in Seq(DOMAIN Ls)
      /\ Len(Ys) = Len(Ts)
  BY <1>1, ZoneBounds
<1>3. /\ L = SubSeq(Ls, 1, zone.read)
      /\ T = IF zone.read < Len(Ls) THEN <<>>
             ELSE [i \in DOMAIN Ts |->
                     [gmttime |-> Ts[i], localtime |-> Ts[i] + Ls[Ys[i]].gmtOffset,
                      localtimeIdx |-> Ys[i]]]
  BY <1>1 DEF ReadZone
<1>4. second = 0 /\ local = 1
  BY DEF CalendarInit
<1>5. ZoneTyped /\ ZoneOrdered
  <2>1. CASE zone.read < Len(Ls)
    <3>1. T = <<>>
      BY <1>3, <2>1
    <3>2. L \in Seq([gmtOffset : Int, isDst : BOOLEAN])
      <4> DEFINE R == [gmtOffset : Int, isDst : BOOLEAN]
      <4> HIDE DEF Ls, L
      <4>1. Ls \in Seq(R) /\ zone.read \in 0..Len(Ls)
        BY <1>2
      <4> HIDE DEF R
      <4>2. SubSeq(Ls, 1, zone.read) \in Seq(R)
        BY <4>1, SubSeqProperties
      <4> QED
        BY <1>3, <4>2 DEF R
    <3> HIDE DEF T, L
    <3>3. Len(T) = 0 /\ T \in Seq(Transition)
      BY <3>1
    <3> QED
      BY <3>2, <3>3 DEF ZoneTyped, ZoneOrdered, T, L
  <2>2. CASE ~(zone.read < Len(Ls))
    <3>1. L = Ls
      BY <1>2, <1>3, <2>2
    <3>2. T = [i \in DOMAIN Ts |->
                 [gmttime |-> Ts[i], localtime |-> Ts[i] + Ls[Ys[i]].gmtOffset,
                  localtimeIdx |-> Ys[i]]]
      BY <1>3, <2>2
    <3>3. DOMAIN Ts = 1..Len(Ts) /\ Len(Ts) \in Nat /\ DOMAIN Ys = 1..Len(Ts)
      BY <1>2
    <3>4. \A i \in 1..Len(Ts) : Ts[i] \in Nat \ {0} /\ Ys[i] \in DOMAIN Ls
      BY <1>2, <3>3, SMTT(20)
    <3>5. \A k \in DOMAIN Ls : Ls[k].gmtOffset \in Int
      <4> DEFINE R == [gmtOffset : Int, isDst : BOOLEAN]
      <4>1. \A r \in R : r.gmtOffset \in Int
        OBVIOUS
      <4> HIDE DEF Ls
      <4>2. Ls \in Seq(R)
        BY <1>2
      <4> HIDE DEF R
      <4>3. \A k \in DOMAIN Ls : Ls[k] \in R
        BY <4>2
      <4> QED
        BY <4>1, <4>3
    <3>6. /\ \A i \in 1..Len(Ts) :
               After(zone, i).gmtOffset < After(zone, i - 1).gmtOffset
                 => /\ After(zone, i - 1).isDst /\ ~After(zone, i).isDst
                    /\ After(zone, i - 1).gmtOffset - After(zone, i).gmtOffset = kSecondsPerHour
          /\ \A i, j \in 1..Len(Ts) : i < j =>
               /\ Ts[j] - Ts[i] > kSecondsPerHour
               /\ \A k, l \in DOMAIN Ls : Ts[j] - Ts[i] > Ls[k].gmtOffset - Ls[l].gmtOffset
      BY <1>1, ZoneBounds
    <3> HIDE DEF Ls, Ts, Ys, L, T
    <3>7. /\ DOMAIN T = 1..Len(Ts)
          /\ \A i \in 1..Len(Ts) :
               /\ T[i] = [gmttime |-> Ts[i], localtime |-> Ts[i] + Ls[Ys[i]].gmtOffset,
                          localtimeIdx |-> Ys[i]]
               /\ T[i].gmttime = Ts[i] /\ T[i].localtime = Ts[i] + Ls[Ys[i]].gmtOffset
               /\ T[i].localtimeIdx = Ys[i]
      BY <3>2, <3>3
    <3>8. T \in Seq(Transition) /\ Len(T) = Len(Ts)
      <4>1. \A i \in 1..Len(Ts) : T[i] \in Transition
        <5> TAKE i \in 1..Len(Ts)
        <5>1. Ts[i] \in Nat \ {0} /\ Ts[i] + Ls[Ys[i]].gmtOffset \in Int /\ Ys[i] \in DOMAIN L
          BY <3>1, <3>4, <3>5
        <5> QED
          BY <3>7, <5>1 DEF Transition, L
      <4>2. T = [i \in 1..Len(Ts) |-> T[i]]
        BY <3>2, <3>3
      <4> QED
        BY <3>3, <4>1, <4>2
    <3>9. \A i \in 0..Len(T) : InForce(i) = After(zone, i)
      <4> TAKE i \in 0..Len(T)
      <4>1. i # 0 => T[i].localtimeIdx = Ys[i]
        BY <3>3, <3>7, <3>8
      <4> QED
        BY <3>1, <4>1 DEF InForce, After, T, L, Ls, Ys
    <3>10. ASSUME NEW i \in 1..Len(T)
           PROVE  /\ T[i].localtime = T[i].gmttime + InForce(i).gmtOffset
                  /\ InForce(i).gmtOffset < InForce(i - 1).gmtOffset
                       => /\ InForce(i - 1).isDst /\ ~InForce(i).isDst
                          /\ InForce(i - 1).gmtOffset - InForce(i).gmtOffset = kSecondsPerHour
      <4>1. i \in 1..Len(Ts) /\ i \in 0..Len(T) /\ i - 1 \in 0..Len(T) /\ i # 0
        BY <3>3, <3>8
      <4>2. InForce(i) = After(zone, i) /\ InForce(i - 1) = After(zone, i - 1)
        BY <3>9, <4>1
      <4>3. After(zone, i) = Ls[Ys[i]]
        BY <4>1 DEF After, Ls, Ys
      <4> QED
        BY <3>6, <3>7, <4>1, <4>2, <4>3
    <3>11. ASSUME NEW i \in 1..Len(T), NEW j \in 1..Len(T), i < j
           PROVE  /\ T[j].gmttime - T[i].gmttime > kSecondsPerHour
                  /\ \A k, l \in DOMAIN L :
                       T[j].gmttime - T[i].gmttime > L[k].gmtOffset - L[l].gmtOffset
      <4>1. T[j].gmttime = Ts[j] /\ T[i].gmttime = Ts[i] /\ i \in 1..Len(Ts) /\ j \in 1..Len(Ts)
        BY <3>7, <3>8
      <4> QED
        BY <3>1, <3>6, <3>11, <4>1
    <3>12. L \in Seq([gmtOffset : Int, isDst : BOOLEAN])
      BY <1>2, <3>1 DEF Ls
    <3>13. ZoneTyped
      BY <3>8, <3>12 DEF ZoneTyped, L, T
    <3>14. ZoneOrdered
      BY <3>10, <3>11 DEF ZoneOrdered, L, T
    <3> QED
      BY <3>13, <3>14
  <2> QED
    BY <2>1, <2>2
<1>6. LastNotAfter(0, second, "gmttime")
  <2> HIDE DEF T
  <2>1. T \in Seq(Transition)
    BY <1>5 DEF ZoneTyped, T
  <2>2. Len(T) \in Nat /\ (0 < Len(T) => T[1].gmttime \in Nat \ {0})
    <3>1. \A x \in Transition : x.gmttime \in Nat \ {0}
      BY DEF Transition
    <3>2. Len(T) \in Nat /\ (0 < Len(T) => T[1] \in Transition)
      BY <2>1
    <3> QED
      BY <3>1, <3>2
  <2> QED
    BY <1>4, <2>2 DEF LastNotAfter, T
<1>7. LocalInForce
  <2>1. 0 \in 0..Len(data.transitions)
    BY <1>6 DEF LastNotAfter
  <2> QED
    BY <1>4, <1>6, <2>1 DEF LocalInForce
<1> QED
  BY <1>4, <1>5, <1>7 DEF ZoneInv

\* Both keys are in order.
LEMMA KeysAscend ==
  ASSUME ZoneTyped, ZoneOrdered
  PROVE  Ascending("gmttime") /\ Ascending("localtime")
<1> DEFINE T == data.transitions
           N == Len(T)
           L == data.localtimes
<1>1. /\ \A i \in 1..N : /\ T[i].gmttime \in Int /\ T[i].localtime \in Int
                         /\ T[i].localtimeIdx \in DOMAIN L
      /\ \A k \in DOMAIN L : L[k].gmtOffset \in Int
  <2> DEFINE R == [gmtOffset : Int, isDst : BOOLEAN]
  <2>1. \A r \in R : r.gmtOffset \in Int
    OBVIOUS
  <2>2. \A x \in Transition : x.gmttime \in Int /\ x.localtime \in Int /\ x.localtimeIdx \in DOMAIN L
    BY DEF Transition
  <2>3. L \in Seq(R) /\ T \in Seq(Transition)
    BY DEF ZoneTyped
  <2> HIDE DEF R, T, L
  <2>4. (\A i \in 1..N : T[i] \in Transition) /\ \A k \in DOMAIN L : L[k] \in R
    BY <2>3
  <2> QED
    BY <2>1, <2>2, <2>4
<1>2. \A i \in 1..N : T[i].localtime = T[i].gmttime + L[T[i].localtimeIdx].gmtOffset
  BY DEF ZoneOrdered, InForce
<1>3. \A i, j \in 1..N : i < j =>
        /\ T[j].gmttime - T[i].gmttime > kSecondsPerHour
        /\ \A k, l \in DOMAIN L : T[j].gmttime - T[i].gmttime > L[k].gmtOffset - L[l].gmtOffset
  BY DEF ZoneOrdered
<1>4. kSecondsPerHour \in Nat
  BY Spans
<1> HIDE DEF T, N, L
<1>5. ASSUME NEW i \in 1..N, NEW j \in 1..N, i < j
      PROVE  T[i].gmttime < T[j].gmttime /\ T[i].localtime < T[j].localtime
  <2>1. /\ T[i].gmttime \in Int /\ T[j].gmttime \in Int
        /\ T[i].localtimeIdx \in DOMAIN L /\ T[j].localtimeIdx \in DOMAIN L
    BY <1>1
  <2>2. L[T[i].localtimeIdx].gmtOffset \in Int /\ L[T[j].localtimeIdx].gmtOffset \in Int
    BY <1>1, <2>1
  <2>3. /\ T[j].gmttime - T[i].gmttime > kSecondsPerHour
        /\ T[j].gmttime - T[i].gmttime
             > L[T[i].localtimeIdx].gmtOffset - L[T[j].localtimeIdx].gmtOffset
    BY <1>3, <1>5, <2>1
  <2>4. /\ T[i].localtime = T[i].gmttime + L[T[i].localtimeIdx].gmtOffset
        /\ T[j].localtime = T[j].gmttime + L[T[j].localtimeIdx].gmtOffset
    BY <1>2
  <2> QED
    BY <1>4, <2>1, <2>2, <2>3, <2>4
<1> QED
  BY <1>1, <1>5 DEF Ascending, T, N

\* A second later the last transition is the same or the next one.
LEMMA ZoneWalks == ZoneInv /\ NextSecond => ZoneInv'
<1> SUFFICES ASSUME ZoneInv, NextSecond PROVE ZoneInv'
  OBVIOUS
<1> DEFINE T == data.transitions
           N == Len(T)
<1>1. ZoneTyped /\ ZoneOrdered /\ second \in Nat
  BY DEF ZoneInv
<1>2. data' = data /\ second' = second + 1
  BY DEF NextSecond
<1>3. ZoneTyped' /\ ZoneOrdered'
  BY <1>1, <1>2 DEF ZoneTyped, ZoneOrdered, Transition, InForce, kSecondsPerHour
<1>4. PICK i \in 0..N : /\ LastNotAfter(i, second, "gmttime")
                        /\ local = IF i = 0 THEN 1 ELSE T[i].localtimeIdx
  BY DEF ZoneInv, LocalInForce
<1>5. N \in Nat /\ DOMAIN T = 1..N
  BY <1>1 DEF ZoneTyped
<1>6. /\ \A a \in 1..N : T[a].gmttime \in Int
      /\ \A a, b \in 1..N : a < b => T[a].gmttime < T[b].gmttime
  BY <1>1, KeysAscend DEF Ascending
<1>7. (i # 0 => T[i].gmttime <= second) /\ (i < N => second < T[i + 1].gmttime)
  BY <1>4 DEF LastNotAfter
<1>8. \/ \E k \in DOMAIN T : T[k].gmttime = second + 1 /\ local' = T[k].localtimeIdx
      \/ (\A k \in DOMAIN T : T[k].gmttime # second + 1) /\ local' = local
  BY DEF NextSecond
<1>9. T' = T /\ N' = N
  BY <1>2
<1> HIDE DEF T, N
<1> DEFINE Reached == \E a \in 0..N : /\ a # 0 => T[a].gmttime <= second + 1
                                      /\ a < N => second + 1 < T[a + 1].gmttime
                                      /\ local' = IF a = 0 THEN 1 ELSE T[a].localtimeIdx
<1>11. ASSUME NEW k \in DOMAIN T, T[k].gmttime = second + 1, local' = T[k].localtimeIdx
       PROVE  k # 0 /\ k \in 0..N /\ (k < N => second + 1 < T[k + 1].gmttime)
  <2>1. k \in 1..N /\ k # 0
    BY <1>5, <1>11
  <2>2. k < N => T[k].gmttime < T[k + 1].gmttime
    BY <1>5, <1>6, <2>1
  <2> QED
    BY <1>5, <1>11, <2>1, <2>2
<1>12. ASSUME \E k \in DOMAIN T : T[k].gmttime = second + 1 /\ local' = T[k].localtimeIdx
       PROVE  Reached
  <2>1. PICK k \in DOMAIN T : T[k].gmttime = second + 1 /\ local' = T[k].localtimeIdx
    BY <1>12
  <2>2. k # 0 /\ k \in 0..N /\ (k < N => second + 1 < T[k + 1].gmttime)
    BY <1>11, <2>1
  <2>3. T[k].gmttime <= second + 1
    BY <1>1, <2>1
  <2> QED
    BY <2>1, <2>2, <2>3
<1>13. ASSUME \A k \in DOMAIN T : T[k].gmttime # second + 1, local' = local
       PROVE  Reached
  <2>1. i # 0 => T[i].gmttime <= second + 1
    BY <1>1, <1>4, <1>5, <1>6, <1>7
  <2>2. ASSUME i < N PROVE second + 1 < T[i + 1].gmttime
    <3>1. i + 1 \in 1..N
      BY <1>4, <1>5, <2>2
    <3>2. T[i + 1].gmttime \in Int /\ T[i + 1].gmttime # second + 1 /\ second < T[i + 1].gmttime
      BY <1>5, <1>6, <1>7, <1>13, <2>2, <3>1
    <3> QED
      BY <1>1, <3>2
  <2>3. local' = IF i = 0 THEN 1 ELSE T[i].localtimeIdx
    BY <1>4, <1>13
  <2> QED
    BY <1>4, <2>1, <2>2, <2>3
<1>14. PICK a \in 0..N : /\ a # 0 => T[a].gmttime <= second + 1
                         /\ a < N => second + 1 < T[a + 1].gmttime
                         /\ local' = IF a = 0 THEN 1 ELSE T[a].localtimeIdx
  BY <1>8, <1>12, <1>13
<1>15. LocalInForce'
  BY <1>2, <1>14 DEF LocalInForce, LastNotAfter, T, N
<1> QED
  BY <1>1, <1>2, <1>3, <1>15 DEF ZoneInv

\* Every local time leads back to its second.  In the hour that comes twice findLocaltime()
\* takes the second pass for the first, an hour too late, and the retry sets it right.
LEMMA LocalsAgree ==
  ASSUME ZoneInv, data.localtimes # <<>>
  PROVE  /\ toLocalTime(second) =
              [seconds |-> second + data.localtimes[local].gmtOffset,
               isDst |-> data.localtimes[local].isDst]
         /\ fromLocalTime(toLocalTime(second)) = second
<1> DEFINE T == data.transitions
           N == Len(T)
           L == data.localtimes
           H == kSecondsPerHour
           O(i) == InForce(i).gmtOffset
<1>1. ZoneTyped /\ ZoneOrdered /\ second \in Nat /\ T \in Seq(Transition) /\ N \in Nat
  BY DEF ZoneInv, ZoneTyped
<1>2. Ascending("gmttime") /\ Ascending("localtime")
  BY <1>1, KeysAscend
<1>3. \A a \in 1..N : T[a].gmttime \in Int /\ T[a].localtimeIdx \in DOMAIN L
  <2>1. \A x \in Transition : x.gmttime \in Int /\ x.localtimeIdx \in DOMAIN L
    BY DEF Transition
  <2> HIDE DEF T
  <2>2. \A a \in 1..N : T[a] \in Transition
    BY <1>1
  <2> QED
    BY <2>1, <2>2
<1>4. \A a \in 0..N : \E k \in DOMAIN L : InForce(a) = L[k]
  <2> TAKE a \in 0..N
  <2>1. 1 \in DOMAIN L
    BY <1>1 DEF ZoneTyped
  <2>2. CASE a = 0
    <3>1. InForce(a) = L[1]
      BY <2>2 DEF InForce
    <3> QED
      BY <2>1, <3>1
  <2>3. CASE a # 0
    <3>1. InForce(a) = L[T[a].localtimeIdx] /\ a \in 1..N
      BY <1>1, <2>3 DEF InForce
    <3> QED
      BY <1>3, <3>1
  <2> QED
    BY <2>2, <2>3
<1>5. \A a \in 0..N : O(a) \in Int
  <2> DEFINE R == [gmtOffset : Int, isDst : BOOLEAN]
  <2>1. \A r \in R : r.gmtOffset \in Int
    OBVIOUS
  <2> HIDE DEF L
  <2>2. L \in Seq(R)
    BY <1>1 DEF ZoneTyped, L
  <2> HIDE DEF R
  <2>3. \A k \in DOMAIN L : L[k] \in R
    BY <2>2
  <2> QED
    BY <1>4, <2>1, <2>3
<1>6. H \in Nat /\ H > 0
  BY Spans
<1>7. PICK i \in 0..N : /\ LastNotAfter(i, second, "gmttime")
                        /\ local = IF i = 0 THEN 1 ELSE T[i].localtimeIdx
  BY DEF ZoneInv, LocalInForce
<1>8. (i # 0 => T[i].gmttime <= second) /\ (i < N => second < T[i + 1].gmttime)
  BY <1>7 DEF LastNotAfter
<1>9. ASSUME NEW a, NEW t \in Int, LastNotAfter(a, t, "gmttime")
      PROVE  toLocalTime(t) = [seconds |-> t + O(a), isDst |-> InForce(a).isDst]
  <2>1. findLocaltime(t, "gmttime") = InForce(a)
    BY <1>1, <1>2, <1>9, LocaltimeFound
  <2> QED
    BY <2>1 DEF toLocalTime
<1> DEFINE tm == [seconds |-> second + O(i), isDst |-> InForce(i).isDst]
           s == second + O(i)
<1>10. toLocalTime(second) = tm
  BY <1>1, <1>7, <1>9
<1>11. tm = [seconds |-> second + L[local].gmtOffset, isDst |-> L[local].isDst]
  BY <1>7 DEF InForce
<1>12. s \in Int /\ O(i) \in Int /\ tm.seconds = s /\ tm.isDst = InForce(i).isDst
  BY <1>1, <1>5, <1>7
<1>13. \A a \in 1..N :
         /\ T[a].localtime = T[a].gmttime + O(a)
         /\ O(a) < O(a - 1) => /\ InForce(a - 1).isDst /\ ~InForce(a).isDst
                              /\ O(a - 1) - O(a) = H
  BY <1>1 DEF ZoneOrdered
<1>14. \A a, b \in 1..N : a < b =>
         /\ T[b].gmttime - T[a].gmttime > H
         /\ \A k, l \in DOMAIN L : T[b].gmttime - T[a].gmttime > L[k].gmtOffset - L[l].gmtOffset
  BY <1>1 DEF ZoneOrdered
<1>15. ASSUME NEW a \in 0..N, NEW x, LastNotAfter(a, s, "localtime"),
              x = toLocalTime(s - O(a))
       PROVE  fromLocalTime(tm)
                = s - (IF tm.isDst /\ ~x.isDst /\ HourMinute(x) = HourMinute(tm) THEN H ELSE 0)
                    - O(a)
  <2>1. findLocaltime(s, "localtime") = InForce(a)
    BY <1>1, <1>2, <1>12, <1>15, LocaltimeFound
  <2> HIDE DEF tm, s
  <2> QED
    BY <1>12, <1>15, <2>1 DEF fromLocalTime
<1>16. i # 0 => T[i].localtime <= s
  <2> SUFFICES ASSUME i # 0 PROVE T[i].localtime <= s
    OBVIOUS
  <2>1. i \in 1..N
    BY <1>1, <1>7
  <2>2. T[i].localtime = T[i].gmttime + O(i) /\ T[i].gmttime \in Int
    BY <1>3, <1>13, <2>1
  <2> HIDE DEF O
  <2> QED
    BY <1>1, <1>8, <1>12, <2>2 DEF s
<1>17. CASE i < N => s < T[i + 1].localtime
  <2>1. LastNotAfter(i, s, "localtime")
    BY <1>7, <1>16, <1>17 DEF LastNotAfter
  <2>2. s - O(i) = second
    BY <1>1, <1>12
  <2>3. tm = toLocalTime(s - O(i))
    BY <1>10, <2>2
  <2> HIDE DEF tm, O
  <2>4. fromLocalTime(tm)
          = s - (IF tm.isDst /\ ~tm.isDst /\ HourMinute(tm) = HourMinute(tm) THEN H ELSE 0) - O(i)
    BY <1>7, <1>15, <2>1, <2>3
  <2> HIDE DEF s
  <2>5. fromLocalTime(tm) = second
    BY <1>12, <2>2, <2>4
  <2> QED
    BY <1>10, <1>11, <2>5
<1>18. CASE i < N /\ ~(s < T[i + 1].localtime)
  <2> DEFINE n == i + 1
  <2>1. n \in 1..N /\ n \in 0..N /\ n - 1 = i /\ n # 0
    BY <1>1, <1>7, <1>18
  <2>2. O(n) \in Int /\ T[n].gmttime \in Int /\ second < T[n].gmttime
    BY <1>3, <1>5, <1>8, <1>18, <2>1
  <2>3. T[n].localtime = T[n].gmttime + O(n)
    BY <1>13, <2>1
  <2> HIDE DEF n, T
  <2>4. T[n].gmttime + O(n) <= second + O(i)
    <3> HIDE DEF O
    <3> QED
      BY <1>1, <1>12, <1>18, <2>2, <2>3 DEF n, s
  <2>5. O(n) < O(i)
    <3> HIDE DEF O
    <3> QED
      BY <1>1, <1>12, <2>2, <2>4
  <2>6. InForce(i).isDst /\ ~InForce(n).isDst /\ O(i) - O(n) = H
    BY <1>13, <2>1, <2>5
  <2>7. ASSUME n < N
        PROVE  s < T[n + 1].localtime /\ second + H < T[n + 1].gmttime
    <3>1. n + 1 \in 1..N /\ n + 1 \in 0..N /\ n < n + 1
      BY <1>1, <2>1, <2>7
    <3>2. PICK k \in DOMAIN L : InForce(i) = L[k]
      BY <1>4, <1>7
    <3>3. PICK l \in DOMAIN L : InForce(n + 1) = L[l]
      BY <1>4, <3>1
    <3>4. /\ T[n + 1].gmttime - T[n].gmttime > H
          /\ T[n + 1].gmttime - T[n].gmttime > L[k].gmtOffset - L[l].gmtOffset
      BY <1>14, <2>1, <3>1
    <3>5. T[n + 1].gmttime - T[n].gmttime > O(i) - O(n + 1)
      BY <3>2, <3>3, <3>4
    <3>6. /\ T[n + 1].gmttime \in Int /\ O(n + 1) \in Int
          /\ T[n + 1].localtime = T[n + 1].gmttime + O(n + 1)
      BY <1>3, <1>5, <1>13, <3>1
    <3>7. second \in Int /\ O(i) \in Int /\ s = second + O(i) /\ H \in Int
      BY <1>1, <1>6, <1>12
    <3> HIDE DEF O, s, H, T
    <3>8. second + H < T[n + 1].gmttime
      BY <2>2, <3>4, <3>6, <3>7, SMTT(20)
    <3>9. s < T[n + 1].localtime
      BY <2>2, <3>5, <3>6, <3>7, SMTT(20)
    <3> QED
      BY <3>8, <3>9
  <2>8. LastNotAfter(n, s, "localtime")
    <3>1. T[n].localtime <= s
      BY <2>3, <2>4 DEF s
    <3> QED
      BY <2>1, <2>7, <3>1 DEF LastNotAfter, T
  <2>9. T[n].gmttime <= second + H /\ s - O(n) = second + H /\ second + H \in Int
    <3>1. second \in Int /\ O(i) \in Int /\ s = second + O(i) /\ H \in Int
      BY <1>1, <1>6, <1>12
    <3>2. O(i) - O(n) = H
      BY <2>6
    <3> DEFINE a == O(i)
               b == O(n)
               g == T[n].gmttime
    <3>3. a \in Int /\ b \in Int /\ g \in Int /\ a - b = H /\ g + b <= second + a /\ s = second + a
      BY <2>2, <2>4, <3>1, <3>2
    <3> HIDE DEF s, H, a, b, g
    <3>4. g <= second + H /\ s - b = second + H /\ second + H \in Int
      BY <3>1, <3>3
    <3> QED
      BY <3>4 DEF a, b, g
  <2>10. LastNotAfter(n, second + H, "gmttime")
    BY <2>1, <2>7, <2>9 DEF LastNotAfter, T
  <2>11. toLocalTime(second + H) = [seconds |-> second + H + O(n), isDst |-> InForce(n).isDst]
    BY <1>9, <2>9, <2>10
  <2> DEFINE x == [seconds |-> second + H + O(n), isDst |-> InForce(n).isDst]
  <2>12. x = toLocalTime(s - O(n)) /\ x.isDst = InForce(n).isDst
    BY <2>9, <2>11
  <2>13. x.seconds = tm.seconds
    <3>1. x.seconds = second + H + O(n)
      OBVIOUS
    <3> HIDE DEF O, x, tm
    <3> QED
      BY <1>1, <1>6, <1>12, <2>2, <2>6, <3>1 DEF s
  <2> HIDE DEF x, tm
  <2>14. HourMinute(x) = HourMinute(tm)
    BY <2>13 DEF HourMinute
  <2>15. fromLocalTime(tm)
           = s - (IF tm.isDst /\ ~x.isDst /\ HourMinute(x) = HourMinute(tm) THEN H ELSE 0) - O(n)
    BY <1>15, <2>1, <2>8, <2>12
  <2>16. tm.isDst /\ ~x.isDst
    BY <1>12, <2>6, <2>12
  <2> HIDE DEF O
  <2>17. fromLocalTime(tm) = s - H - O(n)
    BY <2>14, <2>15, <2>16
  <2>18. fromLocalTime(tm) = second
    BY <1>1, <1>6, <1>12, <2>2, <2>9, <2>17, SMTT(20)
  <2> QED
    BY <1>10, <1>11, <2>18
<1> QED
  BY <1>17, <1>18

\* Dates and local times always convert back: toUtcTime() and fromUtcTime() for any day from
\* any first of January on, toLocalTime() and fromLocalTime() at any second of any zone that
\* the assumptions allow, whatever the seconds of a minute and the hours of a day.
THEOREM TimesAlwaysConvertBack == CalendarSpec => []TimesConvertBack
<1>1. CalendarInit => DateInv /\ ZoneInv
  BY DateStarts, ZoneStarts
<1>2. DateInv /\ ZoneInv /\ [NextDay \/ NextSecond]_calendarVars => (DateInv /\ ZoneInv)'
  <2> SUFFICES ASSUME DateInv, ZoneInv, [NextDay \/ NextSecond]_calendarVars
               PROVE  DateInv' /\ ZoneInv'
    OBVIOUS
  <2>1. ASSUME UNCHANGED dayVars PROVE DateInv'
    <3>1. days' = days /\ date' = date
      BY <2>1 DEF dayVars
    <3> QED
      BY <3>1 DEF DateInv, DateTypeOK, Numbered
  <2>2. ASSUME UNCHANGED zoneVars PROVE ZoneInv'
    <3>1. data' = data /\ second' = second /\ local' = local
      BY <2>2 DEF zoneVars
    <3>2. ZoneTyped' /\ ZoneOrdered'
      BY <3>1 DEF ZoneInv, ZoneTyped, ZoneOrdered, Transition, InForce, kSecondsPerHour
    <3>3. LocalInForce'
      BY <3>1 DEF ZoneInv, LocalInForce, LastNotAfter
    <3> QED
      BY <3>1, <3>2, <3>3 DEF ZoneInv
  <2>3. CASE NextDay
    <3>1. UNCHANGED zoneVars
      BY <2>3 DEF NextDay
    <3> QED
      BY <2>2, <2>3, <3>1, DateWalks
  <2>4. CASE NextSecond
    <3>1. UNCHANGED dayVars
      BY <2>4 DEF NextSecond
    <3> QED
      BY <2>1, <2>4, <3>1, ZoneWalks
  <2>5. CASE UNCHANGED calendarVars
    BY <2>1, <2>2, <2>5 DEF calendarVars
  <2> QED
    BY <2>3, <2>4, <2>5
<1>3. DateInv /\ ZoneInv => TimesConvertBack
  BY DatesAgree, LocalsAgree DEF TimesConvertBack
<1> QED
  BY <1>1, <1>2, <1>3, PTL DEF CalendarSpec
=============================================================================
