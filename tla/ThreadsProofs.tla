--------------------------- MODULE ThreadsProofs ---------------------------
(***************************************************************************)
(* What TLAPS proves of the parts that MCThreads checks, each of its own   *)
(* specification and for every value of its constants.                     *)
(*                                                                         *)
(* Poller: index_ and pollfds_ are inverse to each other.  Every channel   *)
(* of the map is found at its index_, and every pollfd is that of the      *)
(* channel whose index_ leads to it.  The second half is what              *)
(* removeChannel() needs when it moves the last pollfd into a hole, and    *)
(* PollersWatchAlike does not say it.  Channels want only what they have   *)
(* callbacks for, so that of all reports only hang-ups and errors may run  *)
(* none.                                                                   *)
(*                                                                         *)
(* ThreadPool: who sleeps is marked as waiting, nobody sleeps on notEmpty_ *)
(* after stop(), and who is in run() has a task with a number of its own.  *)
(* Each step then moves both sides of NobodyOversleeps by at most one.     *)
(*                                                                         *)
(* AsyncLogging: the files, what the writer holds, the filled buffers and  *)
(* the current one are four sets of lines, each before the next, whose     *)
(* union is what was appended and not given up.  The file that is open is  *)
(* the last one that has a name, since lastRoll_ is its name and only a    *)
(* later clock opens another, so that a write goes to the end of the log.  *)
(***************************************************************************)
EXTENDS Poller, ThreadPool, AsyncLogging, SequenceTheorems, FiniteSetTheorems, TLAPS

-----------------------------------------------------------------------------
(* Poller *)

Pollfds == [fd : Int, events : SUBSET {"r", "w"}]

\* Every channel of the map is found at its index_.
ChannelsFound ==
  \A f \in channels_ : /\ pollIndex[f] \in 0..(Len(pollfds_) - 1)
                       /\ FdOf(pollfds_[pollIndex[f] + 1]) = f

\* The pollfd p, which is at position i, is that of its channel: it has the channel's
\* events, and is ignored only when there are none.
Owned(p, i) ==
  /\ FdOf(p) \in channels_
  /\ pollIndex[FdOf(p)] = i - 1
  /\ p.events = events_[FdOf(p)]
  /\ p.fd < 0 => p.events = {}

PollfdsOwned == \A i \in 1..Len(pollfds_) : Owned(pollfds_[i], i)

\* index_ and the kernel, with epoll.
KernelAgrees ==
  \A f \in Fds :
    IF f \in channels_
      THEN \/ epIndex[f] = kAdded /\ kernel[f] = events_[f]
           \/ epIndex[f] = kDeleted /\ kernel[f] = Unwatched /\ events_[f] = {}
      ELSE epIndex[f] = kNew /\ kernel[f] = Unwatched /\ pollIndex[f] = -1

\* Channels want only events that they have a callback for.
WantsHeard == \A f \in Fds : events_[f] \subseteq Wants(f)

\* Only a hang-up or an error may run no callback.
ReportsHeard ==
  called.fd \in Fds /\ called.ops = <<>> =>
    called.alarm /\ Callbacks[called.fd] # AllCallbacks

PollerInv ==
  /\ PollerTypeOK /\ WantsHeard /\ ReportsHeard
  /\ pollerEnd # "aborted"
  /\ pollerEnd = "" => ChannelsFound /\ PollfdsOwned /\ KernelAgrees

-----------------------------------------------------------------------------
(* Facts about descriptors and pollfds *)

\* The two forms of a descriptor in a pollfd are those of one channel.
LEMMA FormsOfFd ==
  ASSUME NEW f \in Fds, NEW p \in Pollfds
  PROVE  /\ f \in Nat /\ p.fd \in Int /\ p.events \in SUBSET {"r", "w"}
         /\ FdOf(p) = f <=> p.fd \in {f, Ignored(f)}
         /\ p.fd = f => FdOf(p) = f
         /\ ~(p.fd < 0) => FdOf(p) = p.fd
  BY FdsAssumption DEF Pollfds, FdOf, Ignored

\* Every set of events that poll() may return runs a callback, but for hang-ups and errors
\* of a channel that has not all of them.
LEMMA DispatchRuns ==
  ASSUME WantsHeard, NEW f \in Fds, NEW revents \in Reports(f)
  PROVE  /\ Dispatch(f, revents) \in Seq(AllCallbacks)
         /\ Dispatch(f, revents) = <<>> =>
              revents \subseteq {"HUP", "ERR"} /\ Callbacks[f] # AllCallbacks
<1> DEFINE Runs(event, cb) == IF event /\ cb \in Callbacks[f] THEN <<cb>> ELSE <<>>
           hup == "HUP" \in revents /\ "IN" \notin revents
           err == revents \cap {"ERR", "NVAL"} # {}
           in == revents \cap {"IN", "PRI", "RDHUP"} # {}
           out == "OUT" \in revents
           closes == Runs(hup, "close")
           errs == Runs(err, "error")
           reads == Runs(in, "read")
           writes == Runs(out, "write")
<1>1. ASSUME NEW event \in BOOLEAN, NEW cb \in AllCallbacks
      PROVE  /\ Runs(event, cb) \in Seq(AllCallbacks) /\ Len(Runs(event, cb)) \in {0, 1}
             /\ event /\ cb \in Callbacks[f] => Len(Runs(event, cb)) = 1
  <2>1. /\ <<cb>> \in Seq(AllCallbacks) /\ Len(<<cb>>) = 1
        /\ <<>> \in Seq(AllCallbacks) /\ Len(<<>>) = 0
    OBVIOUS
  <2>2. CASE event /\ cb \in Callbacks[f]
    <3>1. Runs(event, cb) = <<cb>>
      BY <2>2, Zenon
    <3> HIDE DEF Runs
    <3> QED
      BY <2>1, <3>1
  <2>3. CASE ~(event /\ cb \in Callbacks[f])
    <3>1. Runs(event, cb) = <<>>
      BY <2>3, Zenon
    <3> HIDE DEF Runs
    <3> QED
      BY <2>1, <2>3, <3>1
  <2> QED
    BY <2>2, <2>3
<1>2. /\ hup \in BOOLEAN /\ err \in BOOLEAN /\ in \in BOOLEAN /\ out \in BOOLEAN
      /\ "close" \in AllCallbacks /\ "error" \in AllCallbacks
      /\ "read" \in AllCallbacks /\ "write" \in AllCallbacks
  BY DEF AllCallbacks
<1>3. /\ closes \in Seq(AllCallbacks) /\ Len(closes) \in {0, 1}
      /\ errs \in Seq(AllCallbacks) /\ Len(errs) \in {0, 1}
      /\ reads \in Seq(AllCallbacks) /\ Len(reads) \in {0, 1}
      /\ writes \in Seq(AllCallbacks) /\ Len(writes) \in {0, 1}
      /\ hup /\ "close" \in Callbacks[f] => Len(closes) = 1
      /\ err /\ "error" \in Callbacks[f] => Len(errs) = 1
      /\ in /\ "read" \in Callbacks[f] => Len(reads) = 1
      /\ out /\ "write" \in Callbacks[f] => Len(writes) = 1
  <2> HIDE DEF Runs, hup, err, in, out
  <2> QED
    BY <1>1, <1>2, Zenon
<1>4. /\ \A e \in revents : e \in {"IN", "PRI", "RDHUP", "OUT", "HUP", "ERR"}
      /\ revents # {}
      /\ \A e \in revents : e \in {"IN", "PRI", "RDHUP"} => "read" \in Callbacks[f]
      /\ \A e \in revents : e = "OUT" => "write" \in Callbacks[f]
  <2> DEFINE In == IF "r" \in events_[f] THEN {"IN", "PRI", "RDHUP"} ELSE {}
             Out == IF "w" \in events_[f] THEN {"OUT"} ELSE {}
  <2>1. revents \in (SUBSET (In \cup Out \cup {"HUP", "ERR"})) \ {{}}
    BY Zenon DEF Reports
  <2>2. /\ \A e \in In : e \in {"IN", "PRI", "RDHUP"} /\ "r" \in events_[f]
        /\ \A e \in Out : e = "OUT" /\ "w" \in events_[f]
    BY Zenon
  <2>3. /\ "r" \in events_[f] => "read" \in Callbacks[f]
        /\ "w" \in events_[f] => "write" \in Callbacks[f]
    BY DEF WantsHeard, Wants
  <2> HIDE DEF In, Out
  <2> QED
    BY <2>1, <2>2, <2>3
<1>5. ~(revents \subseteq {"HUP", "ERR"} /\ Callbacks[f] # AllCallbacks) =>
        Len(closes) = 1 \/ Len(errs) = 1 \/ Len(reads) = 1 \/ Len(writes) = 1
  <2> SUFFICES ASSUME ~(revents \subseteq {"HUP", "ERR"} /\ Callbacks[f] # AllCallbacks)
               PROVE  \/ hup /\ "close" \in Callbacks[f]
                      \/ err /\ "error" \in Callbacks[f]
                      \/ in /\ "read" \in Callbacks[f]
                      \/ out /\ "write" \in Callbacks[f]
    <3> HIDE DEF closes, errs, reads, writes, hup, err, in, out
    <3> QED
      BY <1>3
  <2>1. CASE \E e \in revents : e \in {"IN", "PRI", "RDHUP", "OUT"}
    BY <1>4, <2>1
  <2>2. CASE ~\E e \in revents : e \in {"IN", "PRI", "RDHUP", "OUT"}
    <3>1. revents \subseteq {"HUP", "ERR"} /\ Callbacks[f] = AllCallbacks
      BY <1>4, <2>2
    <3>2. "HUP" \in revents \/ "ERR" \in revents
      BY <1>4, <3>1
    <3> QED
      BY <1>2, <3>1, <3>2
  <2> QED
    BY <2>1, <2>2
<1>6. Dispatch(f, revents) = closes \o errs \o reads \o writes
  BY DEF Dispatch
<1> HIDE DEF closes, errs, reads, writes, hup, err, in, out, Runs
<1>7. closes \o errs \in Seq(AllCallbacks) /\ Len(closes \o errs) = Len(closes) + Len(errs)
  BY <1>3, ConcatProperties
<1>8. /\ closes \o errs \o reads \in Seq(AllCallbacks)
      /\ Len(closes \o errs \o reads) = Len(closes \o errs) + Len(reads)
  BY <1>3, <1>7, ConcatProperties
<1>9. /\ closes \o errs \o reads \o writes \in Seq(AllCallbacks)
      /\ Len(closes \o errs \o reads \o writes) = Len(closes \o errs \o reads) + Len(writes)
  BY <1>3, <1>8, ConcatProperties
<1>10. Dispatch(f, revents) = <<>> =>
         ~(Len(closes) = 1 \/ Len(errs) = 1 \/ Len(reads) = 1 \/ Len(writes) = 1)
  <2>1. Len(closes \o errs \o reads \o writes)
          = Len(closes) + Len(errs) + Len(reads) + Len(writes)
    BY <1>7, <1>8, <1>9
  <2>2. /\ Len(closes) \in {0, 1} /\ Len(errs) \in {0, 1}
        /\ Len(reads) \in {0, 1} /\ Len(writes) \in {0, 1}
    BY <1>3
  <2>3. \A a, b, c, d \in {0, 1} :
          a = 1 \/ b = 1 \/ c = 1 \/ d = 1 => a + b + c + d # 0
    OBVIOUS
  <2>4. Dispatch(f, revents) = <<>> => Len(closes \o errs \o reads \o writes) = 0
    BY <1>6, <1>9, EmptySeq
  <2> QED
    BY <2>1, <2>2, <2>3, <2>4, Zenon
<1> QED
  BY <1>5, <1>6, <1>9, <1>10

-----------------------------------------------------------------------------
(* The steps *)

\* updateChannel() finds what it asserts.
LEMMA AssertsFound ==
  ASSUME PollerTypeOK, ChannelsFound, PollfdsOwned, KernelAgrees, NEW f \in Fds
  PROVE  /\ UpdateAsserts(f)
         /\ pollIndex[f] < 0 <=> f \notin channels_
         /\ Len(pollfds_) \in Nat /\ DOMAIN pollfds_ = 1..Len(pollfds_)
         /\ pollfds_ \in Seq(Pollfds) /\ \A i \in 1..Len(pollfds_) : pollfds_[i] \in Pollfds
<1>1. /\ Len(pollfds_) \in Nat /\ DOMAIN pollfds_ = 1..Len(pollfds_)
      /\ pollfds_ \in Seq(Pollfds) /\ \A i \in 1..Len(pollfds_) : pollfds_[i] \in Pollfds
  <2>1. pollfds_ \in Seq(Pollfds)
    BY DEF PollerTypeOK, Pollfds
  <2> QED
    BY <2>1, LenProperties, ElementOfSeq
<1>2. CASE f \in channels_
  <2>1. /\ pollIndex[f] \in 0..(Len(pollfds_) - 1)
        /\ FdOf(pollfds_[pollIndex[f] + 1]) = f
    BY <1>2 DEF ChannelsFound
  <2>2. pollIndex[f] + 1 \in 1..Len(pollfds_) /\ ~(pollIndex[f] < 0)
          /\ pollIndex[f] < Len(pollfds_)
    BY <1>1, <2>1
  <2>3. pollfds_[pollIndex[f] + 1].fd \in {f, Ignored(f)}
    BY <1>1, <2>1, <2>2, FormsOfFd
  <2>4. epIndex[f] # kNew
    BY <1>2 DEF KernelAgrees, kNew, kAdded, kDeleted
  <2> QED
    BY <1>1, <1>2, <2>2, <2>3, <2>4 DEF UpdateAsserts
<1>3. CASE f \notin channels_
  <2>1. epIndex[f] = kNew /\ pollIndex[f] = -1
    BY <1>3 DEF KernelAgrees
  <2>2. pollIndex[f] < 0 /\ ~(pollIndex[f] >= 0)
    BY <2>1
  <2> QED
    BY <1>1, <1>3, <2>1, <2>2 DEF UpdateAsserts
<1> QED
  BY <1>2, <1>3

\* updateChannel() of a channel that is not in the map yet.
LEMMA NewChannelKept ==
  ASSUME PollerTypeOK, ChannelsFound, PollfdsOwned, KernelAgrees,
         NEW f \in Fds, NEW ev \in SUBSET {"r", "w"}, f \notin channels_, Update(f, ev)
  PROVE  /\ pollfds_' \in Seq(Pollfds) /\ pollIndex' \in [Fds -> Int] /\ pollerEnd' = ""
         /\ ChannelsFound' /\ PollfdsOwned'
<1> DEFINE p == [fd |-> f, events |-> ev]
           n == Len(pollfds_)
<1>1. /\ n \in Nat /\ DOMAIN pollfds_ = 1..n /\ pollfds_ \in Seq(Pollfds)
      /\ \A i \in 1..n : pollfds_[i] \in Pollfds
      /\ UpdateAsserts(f) /\ pollIndex[f] < 0
  BY AssertsFound
<1>2. f \in Nat /\ p \in Pollfds /\ p.fd = f /\ p.events = ev /\ FdOf(p) = f /\ ~(p.fd < 0)
  <2>1. f \in Nat
    BY FdsAssumption
  <2> QED
    BY <2>1 DEF Pollfds, FdOf
<1>3. /\ pollfds_' = Append(pollfds_, p) /\ pollIndex' = [pollIndex EXCEPT ![f] = n]
      /\ events_' = [events_ EXCEPT ![f] = ev] /\ channels_' = channels_ \cup {f}
      /\ pollerEnd' = ""
  BY <1>1 DEF Update, PollUpdate
<1>t. /\ pollIndex \in [Fds -> Int] /\ events_ \in [Fds -> SUBSET {"r", "w"}]
      /\ channels_ \subseteq Fds
  BY DEF PollerTypeOK
<1> HIDE DEF p
<1>4. /\ pollfds_' \in Seq(Pollfds) /\ Len(pollfds_') = n + 1
      /\ \A i \in 1..n : pollfds_'[i] = pollfds_[i]
      /\ pollfds_'[n + 1] = p
  <2>1. pollfds_ \in Seq(Pollfds) /\ p \in Pollfds
    BY <1>1, <1>2
  <2>2. /\ Append(pollfds_, p) \in Seq(Pollfds)
        /\ Len(Append(pollfds_, p)) = Len(pollfds_) + 1
        /\ \A i \in 1..Len(pollfds_) : Append(pollfds_, p)[i] = pollfds_[i]
        /\ Append(pollfds_, p)[Len(pollfds_) + 1] = p
    BY <2>1, AppendProperties
  <2> QED
    BY <1>3, <2>2, Zenon
<1> HIDE DEF n
<1>5. /\ pollIndex' \in [Fds -> Int] /\ pollIndex'[f] = n /\ events_'[f] = ev
      /\ \A g \in Fds : g # f => pollIndex'[g] = pollIndex[g] /\ events_'[g] = events_[g]
  <2>1. n \in Int
    BY <1>1
  <2>2. pollIndex' = [pollIndex EXCEPT ![f] = n] /\ pollIndex \in [Fds -> Int]
    BY <1>3, <1>t
  <2>3. events_' = [events_ EXCEPT ![f] = ev] /\ events_ \in [Fds -> SUBSET {"r", "w"}]
    BY <1>3, <1>t
  <2>4. /\ pollIndex' \in [Fds -> Int] /\ pollIndex'[f] = n
        /\ \A g \in Fds : g # f => pollIndex'[g] = pollIndex[g]
    BY <2>1, <2>2
  <2>5. events_'[f] = ev /\ \A g \in Fds : g # f => events_'[g] = events_[g]
    BY <2>3
  <2> QED
    BY <2>4, <2>5
<1>6. ChannelsFound'
  <2> SUFFICES ASSUME NEW g \in channels_'
               PROVE  /\ pollIndex'[g] \in 0..(Len(pollfds_') - 1)
                      /\ FdOf(pollfds_'[pollIndex'[g] + 1]) = g
    BY DEF ChannelsFound, FdOf, Ignored
  <2>1. CASE g = f
    BY <1>1, <1>2, <1>4, <1>5, <2>1
  <2>2. CASE g # f
    <3>1. g \in channels_ /\ g \in Fds
      BY <1>3, <1>t, <2>2
    <3>2. /\ pollIndex[g] \in 0..(n - 1) /\ FdOf(pollfds_[pollIndex[g] + 1]) = g
      BY <3>1 DEF ChannelsFound, n
    <3>3. pollIndex[g] + 1 \in 1..n /\ pollIndex[g] \in 0..((n + 1) - 1)
      BY <1>1, <3>2
    <3> QED
      BY <1>4, <1>5, <2>2, <3>1, <3>2, <3>3
  <2> QED
    BY <2>1, <2>2
<1>7. PollfdsOwned'
  <2> SUFFICES ASSUME NEW i \in 1..(n + 1) PROVE Owned(pollfds_[i], i)'
    BY <1>4 DEF PollfdsOwned
  <2>1. CASE i = n + 1
    <3>1. /\ FdOf(p) = f /\ f \in channels_' /\ pollIndex'[f] = i - 1 /\ p.events = events_'[f]
          /\ ~(p.fd < 0)
      <4>1. pollIndex'[f] = i - 1
        BY <1>1, <1>5, <2>1
      <4> QED
        BY <1>2, <1>3, <1>5, <4>1
    <3> QED
      BY <1>4, <2>1, <3>1 DEF Owned, FdOf, Ignored
  <2>2. CASE i # n + 1
    <3>1. i \in 1..n
      BY <1>1, <2>2
    <3>2. Owned(pollfds_[i], i)
      BY <3>1 DEF PollfdsOwned, n
    <3> DEFINE g == FdOf(pollfds_[i])
    <3>3. /\ g \in channels_ /\ pollIndex[g] = i - 1 /\ pollfds_[i].events = events_[g]
          /\ pollfds_[i].fd < 0 => pollfds_[i].events = {}
      BY <3>2 DEF Owned
    <3>4. g \in channels_' /\ g # f /\ g \in Fds
      BY <1>3, <1>t, <3>3
    <3>5. FdOf(pollfds_'[i]) = g /\ pollfds_'[i] = pollfds_[i]
      BY <1>4, <3>1
    <3> HIDE DEF g
    <3>6. pollIndex'[g] = i - 1 /\ pollfds_'[i].events = events_'[g]
      BY <1>5, <3>3, <3>4, <3>5
    <3> QED
      BY <3>3, <3>4, <3>5, <3>6 DEF Owned, FdOf, Ignored
  <2> QED
    BY <2>1, <2>2
<1> QED
  BY <1>3, <1>4, <1>5, <1>6, <1>7

\* A pollfd at a position other than the channel's is another channel's.
LEMMA OthersElsewhere ==
  ASSUME PollerTypeOK, PollfdsOwned, NEW i \in 1..Len(pollfds_), NEW f \in Fds,
         i # pollIndex[f] + 1
  PROVE  FdOf(pollfds_[i]) # f
<1>1. i \in Int /\ pollIndex[FdOf(pollfds_[i])] = i - 1
  BY DEF PollfdsOwned, Owned
<1>2. pollIndex[f] \in Int
  BY DEF PollerTypeOK
<1>3. i - 1 # pollIndex[f]
  BY <1>1, <1>2
<1> QED
  BY <1>1, <1>3

\* updateChannel() of a channel that is in the map.
LEMMA OldChannelKept ==
  ASSUME PollerTypeOK, ChannelsFound, PollfdsOwned, KernelAgrees,
         NEW f \in Fds, NEW ev \in SUBSET {"r", "w"}, f \in channels_, Update(f, ev)
  PROVE  /\ pollfds_' \in Seq(Pollfds) /\ pollIndex' \in [Fds -> Int] /\ pollerEnd' = ""
         /\ ChannelsFound' /\ PollfdsOwned'
<1> DEFINE p == [fd |-> IF ev = {} THEN Ignored(f) ELSE f, events |-> ev]
           n == Len(pollfds_)
           k == pollIndex[f] + 1
<1>1. /\ n \in Nat /\ DOMAIN pollfds_ = 1..n /\ pollfds_ \in Seq(Pollfds)
      /\ \A i \in 1..n : pollfds_[i] \in Pollfds
      /\ UpdateAsserts(f) /\ ~(pollIndex[f] < 0)
  BY AssertsFound
<1>t. /\ pollIndex \in [Fds -> Int] /\ events_ \in [Fds -> SUBSET {"r", "w"}]
      /\ channels_ \subseteq Fds
  BY DEF PollerTypeOK
<1>2. /\ f \in Nat /\ p \in Pollfds /\ p.events = ev /\ FdOf(p) = f
      /\ p.fd < 0 => ev = {}
  <2>1. f \in Nat
    BY FdsAssumption
  <2>2. p.fd = (IF ev = {} THEN Ignored(f) ELSE f) /\ p.events = ev
    OBVIOUS
  <2>3. p.fd \in Int
    BY <2>1, <2>2 DEF Ignored
  <2>4. p \in Pollfds
    BY <2>1 DEF Pollfds, Ignored
  <2> HIDE DEF p
  <2>5. p.fd < 0 => ev = {}
    BY <2>1, <2>2
  <2>6. FdOf(p) = f
    BY <2>1, <2>2 DEF FdOf, Ignored
  <2> QED
    BY <2>1, <2>2, <2>4, <2>5, <2>6
<1>3. /\ pollfds_' = [pollfds_ EXCEPT ![k] = p] /\ pollIndex' = pollIndex
      /\ events_' = [events_ EXCEPT ![f] = ev] /\ channels_' = channels_
      /\ pollerEnd' = ""
  BY <1>1 DEF Update, PollUpdate
<1>4. k \in 1..n /\ pollIndex[f] = k - 1
  <2>1. pollIndex[f] \in 0..(n - 1)
    BY DEF ChannelsFound
  <2> QED
    BY <1>1, <2>1
<1> HIDE DEF p, n, k
<1>5. /\ pollfds_' \in Seq(Pollfds) /\ Len(pollfds_') = n /\ pollfds_'[k] = p
      /\ \A i \in 1..n : i # k => pollfds_'[i] = pollfds_[i]
  <2>1. k \in 1..Len(pollfds_)
    BY <1>4 DEF n
  <2> QED
    BY <1>1, <1>2, <1>3, <2>1, ExceptSeq DEF n
<1>6. events_'[f] = ev /\ \A g \in Fds : g # f => events_'[g] = events_[g]
  BY <1>3, <1>t
<1>7. \A i \in 1..n : i # k => FdOf(pollfds_[i]) # f
  BY OthersElsewhere DEF n, k
<1>8. ChannelsFound'
  <2> SUFFICES ASSUME NEW g \in channels_'
               PROVE  /\ pollIndex'[g] \in 0..(Len(pollfds_') - 1)
                      /\ FdOf(pollfds_'[pollIndex'[g] + 1]) = g
    BY DEF ChannelsFound, FdOf, Ignored
  <2>1. g \in channels_ /\ pollIndex'[g] = pollIndex[g]
    BY <1>3
  <2>2. /\ pollIndex[g] \in 0..(n - 1) /\ FdOf(pollfds_[pollIndex[g] + 1]) = g
    BY <2>1 DEF ChannelsFound, n
  <2>3. pollIndex[g] + 1 \in 1..n
    BY <1>1, <2>2
  <2>4. CASE pollIndex[g] + 1 = k
    <3>1. g = f
      <4>1. FdOf(pollfds_[k]) = f
        BY DEF ChannelsFound, k
      <4> QED
        BY <2>2, <2>4, <4>1
    <3> QED
      BY <1>2, <1>5, <2>1, <2>2, <2>4, <3>1
  <2>5. CASE pollIndex[g] + 1 # k
    BY <1>5, <2>1, <2>2, <2>3, <2>5
  <2> QED
    BY <2>4, <2>5
<1>9. PollfdsOwned'
  <2> SUFFICES ASSUME NEW i \in 1..n PROVE Owned(pollfds_[i], i)'
    BY <1>5 DEF PollfdsOwned
  <2>1. CASE i = k
    <3>1. /\ f \in channels_' /\ pollIndex'[f] = i - 1 /\ p.events = events_'[f]
      BY <1>2, <1>3, <1>4, <1>6, <2>1
    <3> QED
      BY <1>2, <1>5, <2>1, <3>1 DEF Owned, FdOf, Ignored
  <2>2. CASE i # k
    <3> DEFINE g == FdOf(pollfds_[i])
    <3>1. /\ g \in channels_ /\ pollIndex[g] = i - 1 /\ pollfds_[i].events = events_[g]
          /\ pollfds_[i].fd < 0 => pollfds_[i].events = {}
      BY DEF PollfdsOwned, Owned, n
    <3>2. g # f /\ g \in Fds /\ g \in channels_' /\ pollIndex'[g] = i - 1
      BY <1>3, <1>7, <1>t, <2>2, <3>1
    <3>3. FdOf(pollfds_'[i]) = g /\ pollfds_'[i] = pollfds_[i]
      BY <1>5, <2>2
    <3> HIDE DEF g
    <3>4. pollfds_'[i].events = events_'[g]
      BY <1>6, <3>1, <3>2, <3>3
    <3> QED
      BY <3>1, <3>2, <3>3, <3>4 DEF Owned, FdOf, Ignored
  <2> QED
    BY <2>1, <2>2
<1> QED
  BY <1>3, <1>5, <1>8, <1>9, <1>t

\* removeChannel(): the last pollfd fills the hole and its channel is told.
LEMMA RemovalKept ==
  ASSUME PollerTypeOK, ChannelsFound, PollfdsOwned, KernelAgrees,
         NEW f \in Fds, RemoveChannel(f)
  PROVE  /\ pollfds_' \in Seq(Pollfds) /\ pollIndex' \in [Fds -> Int]
         /\ pollerEnd' \in {"", "misused"}
         /\ pollIndex'[f] = -1
         /\ \A g \in Fds \ channels_ : pollIndex'[g] = pollIndex[g]
         /\ ChannelsFound' /\ PollfdsOwned'
<1> DEFINE n == Len(pollfds_)
           k == pollIndex[f] + 1
           h == FdOf(pollfds_[n])
<1>1. /\ n \in Nat /\ DOMAIN pollfds_ = 1..n /\ pollfds_ \in Seq(Pollfds)
      /\ \A i \in 1..n : pollfds_[i] \in Pollfds
      /\ UpdateAsserts(f)
  BY AssertsFound
<1>t. /\ pollIndex \in [Fds -> Int] /\ events_ \in [Fds -> SUBSET {"r", "w"}]
      /\ channels_ \subseteq Fds
  BY DEF PollerTypeOK
<1>2. /\ f \in channels_ /\ channels_' = channels_ \ {f} /\ events_' = events_
      /\ PollRemove(f) /\ pollerEnd' \in {"", "misused"}
  BY <1>1 DEF RemoveChannel
<1>3. /\ pollfds_' = [i \in 1..(n - 1) |-> IF i = k THEN pollfds_[n] ELSE pollfds_[i]]
      /\ pollIndex' = [g \in Fds |-> CASE g = f -> -1
                                       [] g # f /\ g = h -> k - 1
                                       [] OTHER -> pollIndex[g]]
  <2>1. pollIndex[f] = k - 1
    BY <1>t
  <2> QED
    BY <1>2, <2>1 DEF PollRemove
<1>4. k \in 1..n /\ n \in 1..n /\ pollIndex[f] = k - 1 /\ FdOf(pollfds_[k]) = f
  <2>1. pollIndex[f] \in 0..(n - 1) /\ FdOf(pollfds_[pollIndex[f] + 1]) = f
    BY <1>2 DEF ChannelsFound
  <2> QED
    BY <1>1, <2>1
<1>5. h \in channels_ /\ h \in Fds /\ pollIndex[h] = n - 1
  BY <1>4, <1>t DEF PollfdsOwned, Owned
<1>6. \A i \in 1..n : i # k => FdOf(pollfds_[i]) # f
  BY OthersElsewhere
<1> HIDE DEF n, k, h
<1>7. /\ pollfds_' \in Seq(Pollfds) /\ Len(pollfds_') = n - 1
      /\ k \in 1..(n - 1) => pollfds_'[k] = pollfds_[n]
      /\ \A i \in 1..(n - 1) : i # k => pollfds_'[i] = pollfds_[i]
  <2> DEFINE s == [i \in 1..(n - 1) |-> IF i = k THEN pollfds_[n] ELSE pollfds_[i]]
  <2>1. n - 1 \in Nat /\ \A i \in 1..(n - 1) : i \in 1..n
    BY <1>1, <1>4
  <2>2. \A i \in 1..(n - 1) : s[i] = IF i = k THEN pollfds_[n] ELSE pollfds_[i]
    OBVIOUS
  <2>3. DOMAIN s = 1..(n - 1) /\ \A i \in 1..(n - 1) : s[i] \in Pollfds
    BY <1>1, <1>4, <2>1
  <2>4. s \in Seq(Pollfds) /\ Len(s) = n - 1
    BY <2>1, <2>3, IsASeq
  <2>5. pollfds_' = s
    BY <1>3
  <2> HIDE DEF s
  <2> QED
    BY <2>2, <2>4, <2>5
<1>8. /\ pollIndex' \in [Fds -> Int] /\ pollIndex'[f] = -1
      /\ h # f => pollIndex'[h] = k - 1
      /\ \A g \in Fds : g # f /\ g # h => pollIndex'[g] = pollIndex[g]
  <2>1. k - 1 \in Int
    BY <1>1, <1>4
  <2>2. pollIndex' = [g \in Fds |-> IF g = f THEN -1 ELSE IF g = h THEN k - 1 ELSE pollIndex[g]]
    BY <1>3
  <2> QED
    BY <1>5, <1>t, <2>1, <2>2
<1>9. \A g \in Fds \ channels_ : pollIndex'[g] = pollIndex[g]
  BY <1>2, <1>5, <1>8
<1>10. ChannelsFound'
  <2> SUFFICES ASSUME NEW g \in channels_'
               PROVE  /\ pollIndex'[g] \in 0..(Len(pollfds_') - 1)
                      /\ FdOf(pollfds_'[pollIndex'[g] + 1]) = g
    BY DEF ChannelsFound, FdOf, Ignored
  <2>1. g \in channels_ /\ g # f /\ g \in Fds
    BY <1>2, <1>t
  <2>2. /\ pollIndex[g] \in 0..(n - 1) /\ FdOf(pollfds_[pollIndex[g] + 1]) = g
    BY <2>1 DEF ChannelsFound, n
  <2>3. CASE g = h
    <3>1. k # n
      BY <1>4, <2>1, <2>3 DEF h
    <3>2. k \in 1..(n - 1) /\ k - 1 \in 0..((n - 1) - 1) /\ (k - 1) + 1 = k
      BY <1>1, <1>4, <3>1
    <3>3. pollIndex'[g] = k - 1 /\ pollfds_'[k] = pollfds_[n]
      BY <1>7, <1>8, <2>1, <2>3, <3>2
    <3>4. FdOf(pollfds_'[k]) = g
      BY <2>3, <3>3 DEF h
    <3> QED
      BY <1>7, <3>2, <3>3, <3>4
  <2>4. CASE g # h
    <3> DEFINE j == pollIndex[g] + 1
    <3>1. j # n /\ j # k
      BY <1>4, <2>1, <2>2, <2>4 DEF h
    <3>2. j \in 1..(n - 1) /\ pollIndex[g] \in 0..((n - 1) - 1)
      BY <1>1, <2>2, <3>1
    <3>3. pollIndex'[g] = pollIndex[g]
      BY <1>8, <2>1, <2>4
    <3>4. pollfds_'[j] = pollfds_[j]
      BY <1>7, <3>1, <3>2
    <3> QED
      BY <1>7, <2>2, <3>2, <3>3, <3>4
  <2> QED
    BY <2>3, <2>4
<1>11. PollfdsOwned'
  <2> SUFFICES ASSUME NEW i \in 1..(n - 1) PROVE Owned(pollfds_[i], i)'
    BY <1>7 DEF PollfdsOwned
  <2>0. i \in 1..n /\ i # n
    BY <1>1
  <2>1. CASE i = k
    <3>1. h # f
      BY <1>4, <1>6, <2>0, <2>1 DEF h
    <3>2. /\ h \in channels_' /\ pollIndex'[h] = i - 1 /\ pollfds_'[i] = pollfds_[n]
      BY <1>2, <1>5, <1>7, <1>8, <2>1, <3>1
    <3>3. /\ pollfds_[n].events = events_[h] /\ FdOf(pollfds_[n]) = h
          /\ pollfds_[n].fd < 0 => pollfds_[n].events = {}
      BY <1>4 DEF PollfdsOwned, Owned, n, h
    <3> QED
      BY <1>2, <3>2, <3>3 DEF Owned, FdOf, Ignored
  <2>2. CASE i # k
    <3> DEFINE g == FdOf(pollfds_[i])
    <3>1. /\ g \in channels_ /\ pollIndex[g] = i - 1 /\ pollfds_[i].events = events_[g]
          /\ pollfds_[i].fd < 0 => pollfds_[i].events = {}
      BY <2>0 DEF PollfdsOwned, Owned, n
    <3>2. g # f /\ g \in Fds
      BY <1>6, <1>t, <2>0, <2>2, <3>1
    <3>3. g # h
      <4>1. i - 1 # n - 1
        BY <1>1, <2>0
      <4> QED
        BY <1>5, <3>1, <4>1
    <3>4. pollfds_'[i] = pollfds_[i]
      BY <1>7, <2>2
    <3>5. FdOf(pollfds_'[i]) = g /\ pollIndex'[g] = i - 1 /\ g \in channels_'
      BY <1>2, <1>8, <3>1, <3>2, <3>3, <3>4
    <3> HIDE DEF g
    <3> QED
      BY <1>2, <3>1, <3>4, <3>5 DEF Owned, FdOf, Ignored
  <2> QED
    BY <2>1, <2>2
<1> QED
  BY <1>2, <1>7, <1>8, <1>9, <1>10, <1>11

\* epoll's half of a step.
LEMMA KernelKept ==
  ASSUME PollerTypeOK, KernelAgrees, NEW f \in Fds,
         \A g \in Fds : g # f /\ g \notin channels_ => pollIndex'[g] = pollIndex[g],
         \/ \E ev \in SUBSET {"r", "w"} : Update(f, ev)
         \/ RemoveChannel(f) /\ pollIndex'[f] = -1
  PROVE  /\ KernelAgrees'
         /\ epIndex' \in [Fds -> {kNew, kAdded, kDeleted}]
         /\ kernel' \in [Fds -> (SUBSET {"r", "w"}) \cup {Unwatched}]
         /\ events_' \in [Fds -> SUBSET {"r", "w"}] /\ addedToLoop_' \in [Fds -> BOOLEAN]
         /\ channels_' \subseteq Fds /\ called' = called
<1>t. /\ epIndex \in [Fds -> {kNew, kAdded, kDeleted}]
      /\ kernel \in [Fds -> (SUBSET {"r", "w"}) \cup {Unwatched}]
      /\ events_ \in [Fds -> SUBSET {"r", "w"}] /\ addedToLoop_ \in [Fds -> BOOLEAN]
      /\ channels_ \subseteq Fds
  BY DEF PollerTypeOK
<1>1. ASSUME NEW ev \in SUBSET {"r", "w"}, Update(f, ev)
      PROVE  /\ KernelAgrees'
             /\ epIndex' \in [Fds -> {kNew, kAdded, kDeleted}]
             /\ kernel' \in [Fds -> (SUBSET {"r", "w"}) \cup {Unwatched}]
             /\ events_' \in [Fds -> SUBSET {"r", "w"}] /\ addedToLoop_' \in [Fds -> BOOLEAN]
             /\ channels_' \subseteq Fds /\ called' = called
  <2>1. /\ events_' = [events_ EXCEPT ![f] = ev] /\ channels_' = channels_ \cup {f}
        /\ addedToLoop_' = [addedToLoop_ EXCEPT ![f] = TRUE] /\ called' = called
        /\ EpollUpdate(f, ev)
    BY <1>1 DEF Update
  <2>2. PICK x \in {kNew, kAdded, kDeleted}, w \in (SUBSET {"r", "w"}) \cup {Unwatched} :
          /\ epIndex' = [epIndex EXCEPT ![f] = x] /\ kernel' = [kernel EXCEPT ![f] = w]
          /\ \/ x = kAdded /\ w = ev
             \/ x = kDeleted /\ w = Unwatched /\ ev = {}
    <3>1. CASE epIndex[f] \in {kNew, kDeleted}
      BY <2>1, <3>1 DEF EpollUpdate
    <3>2. CASE epIndex[f] \notin {kNew, kDeleted} /\ ev = {}
      <4>1. epIndex' = [epIndex EXCEPT ![f] = kDeleted] /\ kernel' = [kernel EXCEPT ![f] = Unwatched]
        BY <2>1, <3>2 DEF EpollUpdate
      <4> QED
        BY <3>2, <4>1
    <3>3. CASE epIndex[f] \notin {kNew, kDeleted} /\ ev # {}
      <4>1. epIndex' = [epIndex EXCEPT ![f] = kAdded] /\ kernel' = [kernel EXCEPT ![f] = ev]
        BY <2>1, <3>3 DEF EpollUpdate
      <4> QED
        BY <4>1
    <3> QED
      BY <3>1, <3>2, <3>3
  <2>3. /\ epIndex'[f] = x /\ kernel'[f] = w /\ events_'[f] = ev
        /\ \A g \in Fds : g # f => /\ epIndex'[g] = epIndex[g] /\ kernel'[g] = kernel[g]
                                   /\ events_'[g] = events_[g]
    BY <1>t, <2>1, <2>2
  <2>4. KernelAgrees'
    BY <2>1, <2>2, <2>3 DEF KernelAgrees, Unwatched
  <2>5. addedToLoop_' \in [Fds -> BOOLEAN]
    BY <1>t, <2>1
  <2>6. events_' \in [Fds -> SUBSET {"r", "w"}] /\ channels_' \subseteq Fds /\ called' = called
    BY <1>t, <2>1
  <2>7. epIndex' \in [Fds -> {kNew, kAdded, kDeleted}]
    BY <1>t, <2>2
  <2>8. kernel' \in [Fds -> (SUBSET {"r", "w"}) \cup {Unwatched}]
    BY <1>t, <2>2
  <2> QED
    BY <2>4, <2>5, <2>6, <2>7, <2>8
<1>2. ASSUME RemoveChannel(f), pollIndex'[f] = -1
      PROVE  /\ KernelAgrees'
             /\ epIndex' \in [Fds -> {kNew, kAdded, kDeleted}]
             /\ kernel' \in [Fds -> (SUBSET {"r", "w"}) \cup {Unwatched}]
             /\ events_' \in [Fds -> SUBSET {"r", "w"}] /\ addedToLoop_' \in [Fds -> BOOLEAN]
             /\ channels_' \subseteq Fds /\ called' = called
  <2>1. /\ events_' = events_ /\ channels_' = channels_ \ {f}
        /\ addedToLoop_' = [addedToLoop_ EXCEPT ![f] = FALSE] /\ called' = called
        /\ epIndex' = [epIndex EXCEPT ![f] = kNew]
        /\ kernel' = [kernel EXCEPT ![f] = Unwatched]
    BY <1>2 DEF RemoveChannel
  <2>2. /\ epIndex'[f] = kNew /\ kernel'[f] = Unwatched
        /\ \A g \in Fds : g # f => epIndex'[g] = epIndex[g] /\ kernel'[g] = kernel[g]
    BY <1>t, <2>1
  <2>3. KernelAgrees'
    BY <1>2, <2>1, <2>2 DEF KernelAgrees
  <2>4. addedToLoop_' \in [Fds -> BOOLEAN]
    BY <1>t, <2>1
  <2>5. events_' \in [Fds -> SUBSET {"r", "w"}] /\ channels_' \subseteq Fds /\ called' = called
    BY <1>t, <2>1
  <2>6. epIndex' \in [Fds -> {kNew, kAdded, kDeleted}]
    BY <1>t, <2>1
  <2>7. kernel' \in [Fds -> (SUBSET {"r", "w"}) \cup {Unwatched}]
    BY <1>t, <2>1
  <2> QED
    BY <2>3, <2>4, <2>5, <2>6, <2>7
<1> QED
  BY <1>1, <1>2

-----------------------------------------------------------------------------
(* The theorem *)

\* Before any channel is registered.
LEMMA PollerInitially == PollerInit => PollerInv
<1> SUFFICES ASSUME PollerInit PROVE PollerInv
  OBVIOUS
<1>0. /\ events_ = [f \in Fds |-> {}] /\ addedToLoop_ = [f \in Fds |-> FALSE]
      /\ channels_ = {} /\ pollerEnd = ""
      /\ epIndex = [f \in Fds |-> kNew] /\ kernel = [f \in Fds |-> Unwatched]
      /\ pollIndex = [f \in Fds |-> -1] /\ pollfds_ = <<>>
      /\ called = [fd |-> -1, alarm |-> FALSE, ops |-> <<>>]
  BY DEF PollerInit
<1>1. /\ events_ \in [Fds -> SUBSET {"r", "w"}] /\ addedToLoop_ \in [Fds -> BOOLEAN]
      /\ channels_ \subseteq Fds
      /\ epIndex \in [Fds -> {kNew, kAdded, kDeleted}]
  <2>1. {} \in SUBSET {"r", "w"} /\ FALSE \in BOOLEAN /\ kNew \in {kNew, kAdded, kDeleted}
    OBVIOUS
  <2>2. events_ \in [Fds -> SUBSET {"r", "w"}]
    BY <1>0, <2>1, Zenon
  <2>3. addedToLoop_ \in [Fds -> BOOLEAN]
    BY <1>0, <2>1, Zenon
  <2>4. epIndex \in [Fds -> {kNew, kAdded, kDeleted}]
    BY <1>0, <2>1, Zenon
  <2> QED
    BY <1>0, <2>2, <2>3, <2>4
<1>2. kernel \in [Fds -> (SUBSET {"r", "w"}) \cup {Unwatched}] /\ pollIndex \in [Fds -> Int]
  <2>1. Unwatched \in (SUBSET {"r", "w"}) \cup {Unwatched} /\ -1 \in Int
    OBVIOUS
  <2> QED
    BY <1>0, <2>1, Zenon
<1>3. pollfds_ \in Seq(Pollfds) /\ Len(pollfds_) = 0
  <2>1. <<>> \in Seq(Pollfds) /\ Len(<<>>) = 0
    BY EmptySeq
  <2> QED
    BY <1>0, <2>1, Zenon
<1>4. /\ called \in [fd : Fds \cup {-1}, alarm : BOOLEAN, ops : Seq(AllCallbacks)]
      /\ called.fd \notin Fds
  <2>1. <<>> \in Seq(AllCallbacks) /\ -1 \notin Fds
    BY EmptySeq, FdsAssumption
  <2> QED
    BY <1>0, <2>1
<1>5. PollerTypeOK
  BY <1>0, <1>1, <1>2, <1>3, <1>4 DEF PollerTypeOK, Pollfds
<1>6. ChannelsFound /\ PollfdsOwned /\ KernelAgrees
  <2>1. ChannelsFound
    BY <1>0, Zenon DEF ChannelsFound
  <2>2. 1..Len(pollfds_) = {}
    BY <1>3
  <2>3. PollfdsOwned
    BY <2>2, Zenon DEF PollfdsOwned
  <2>4. KernelAgrees
    BY <1>0, Zenon DEF KernelAgrees
  <2> QED
    BY <2>1, <2>3, <2>4
<1>7. WantsHeard /\ ReportsHeard
  BY <1>0, <1>4 DEF WantsHeard, ReportsHeard
<1> QED
  BY <1>5, <1>6, <1>7 DEF PollerInv, PollerInit

\* Every call and every event keeps the registrations of both pollers.
LEMMA PollerKept == PollerInv /\ [PollerNext]_pollerVars => PollerInv'
<1> SUFFICES ASSUME PollerInv, [PollerNext]_pollerVars PROVE PollerInv'
  OBVIOUS
<1>1. PollerTypeOK /\ WantsHeard /\ ReportsHeard /\ pollerEnd # "aborted"
  BY DEF PollerInv
<1>2. ASSUME pollerEnd = "" PROVE ChannelsFound /\ PollfdsOwned /\ KernelAgrees
  BY <1>2 DEF PollerInv
<1>3. ASSUME NEW f \in Fds,
             \/ \E ev \in SUBSET Wants(f) : Update(f, ev)
             \/ RemoveChannel(f)
      PROVE  PollerInv'
  <2>0. Wants(f) \subseteq {"r", "w"}
    BY DEF Wants
  <2>1. ChannelsFound /\ PollfdsOwned /\ KernelAgrees
    BY <1>2, <1>3 DEF Update, RemoveChannel
  <2>2. /\ pollfds_' \in Seq(Pollfds) /\ pollIndex' \in [Fds -> Int]
        /\ pollerEnd' \in {"", "misused"} /\ ChannelsFound' /\ PollfdsOwned'
        /\ RemoveChannel(f) => pollIndex'[f] = -1
        /\ \A g \in Fds : g # f /\ g \notin channels_ => pollIndex'[g] = pollIndex[g]
    <3>1. ASSUME NEW ev \in SUBSET {"r", "w"}, Update(f, ev)
          PROVE  /\ pollfds_' \in Seq(Pollfds) /\ pollIndex' \in [Fds -> Int]
                 /\ pollerEnd' \in {"", "misused"} /\ ChannelsFound' /\ PollfdsOwned'
                 /\ \A g \in Fds : g # f /\ g \notin channels_ => pollIndex'[g] = pollIndex[g]
      <4>1. /\ pollfds_' \in Seq(Pollfds) /\ pollIndex' \in [Fds -> Int]
            /\ pollerEnd' \in {"", "misused"} /\ ChannelsFound' /\ PollfdsOwned'
        BY <1>1, <2>1, <3>1, NewChannelKept, OldChannelKept
      <4>2. \/ pollIndex' = [pollIndex EXCEPT ![f] = Len(pollfds_)]
            \/ pollIndex' = pollIndex
        BY <3>1 DEF Update, PollUpdate
      <4>3. \A g \in Fds : g # f => pollIndex'[g] = pollIndex[g]
        BY <1>1, <4>2 DEF PollerTypeOK
      <4> QED
        BY <4>1, <4>3
    <3>2. ASSUME NEW ev, Update(f, ev) PROVE ~RemoveChannel(f)
      <4>1. f \in channels_'
        BY <3>2 DEF Update
      <4> QED
        BY <4>1 DEF RemoveChannel
    <3>3. CASE RemoveChannel(f)
      BY <1>1, <2>1, <3>3, RemovalKept
    <3> QED
      BY <1>3, <2>0, <3>1, <3>2, <3>3
  <2>3. /\ KernelAgrees'
        /\ epIndex' \in [Fds -> {kNew, kAdded, kDeleted}]
        /\ kernel' \in [Fds -> (SUBSET {"r", "w"}) \cup {Unwatched}]
        /\ events_' \in [Fds -> SUBSET {"r", "w"}] /\ addedToLoop_' \in [Fds -> BOOLEAN]
        /\ channels_' \subseteq Fds /\ called' = called
    BY <1>1, <1>3, <2>0, <2>1, <2>2, KernelKept
  <2>4. PollerTypeOK'
    BY <1>1, <2>2, <2>3 DEF PollerTypeOK, Pollfds
  <2>5. WantsHeard'
    <3>1. PICK ev \in SUBSET Wants(f) :
            events_' = [events_ EXCEPT ![f] = ev] \/ events_' = events_
      BY <1>3 DEF Update, RemoveChannel
    <3>2. \A g \in Fds : (events_'[g] = ev /\ g = f) \/ events_'[g] = events_[g]
      BY <1>1, <3>1 DEF PollerTypeOK
    <3> QED
      BY <1>1, <3>2 DEF WantsHeard, Wants
  <2>6. ReportsHeard'
    BY <1>1, <2>3 DEF ReportsHeard
  <2> QED
    BY <1>1, <2>2, <2>3, <2>4, <2>5, <2>6 DEF PollerInv
<1>4. ASSUME NEW f \in Fds, NEW revents \in Reports(f), HandleEvent(f, revents)
      PROVE  PollerInv'
  <2>1. pollerEnd = "" /\ kernel[f] # Unwatched
    BY <1>4 DEF HandleEvent
  <2>2. f \in channels_
    BY <1>2, <2>1 DEF KernelAgrees
  <2>3. /\ pollerEnd' = ""
        /\ called' = [fd |-> f, alarm |-> revents \subseteq {"HUP", "ERR"},
                      ops |-> Dispatch(f, revents)]
        /\ UNCHANGED <<events_, addedToLoop_, channels_, epIndex, kernel, pollIndex, pollfds_>>
    BY <1>4, <2>2 DEF HandleEvent
  <2>4. /\ called' \in [fd : Fds \cup {-1}, alarm : BOOLEAN, ops : Seq(AllCallbacks)]
        /\ WantsHeard' /\ ReportsHeard'
    <3> DEFINE alarm == revents \subseteq {"HUP", "ERR"}
    <3>1. /\ Dispatch(f, revents) \in Seq(AllCallbacks) /\ alarm \in BOOLEAN
          /\ Dispatch(f, revents) = <<>> => alarm /\ Callbacks[f] # AllCallbacks
      BY <1>1, DispatchRuns
    <3>2. called' = [fd |-> f, alarm |-> alarm, ops |-> Dispatch(f, revents)]
      BY <2>3
    <3> HIDE DEF alarm
    <3>3. called' \in [fd : Fds \cup {-1}, alarm : BOOLEAN, ops : Seq(AllCallbacks)]
      BY <3>1, <3>2
    <3>4. ReportsHeard'
      BY <3>1, <3>2 DEF ReportsHeard
    <3>5. WantsHeard'
      BY <1>1, <2>3 DEF WantsHeard, Wants
    <3> QED
      BY <3>3, <3>4, <3>5
  <2>5. PollerTypeOK'
    BY <1>1, <2>3, <2>4 DEF PollerTypeOK
  <2>6. ChannelsFound' /\ PollfdsOwned' /\ KernelAgrees'
    BY <1>2, <2>1, <2>3 DEF ChannelsFound, PollfdsOwned, Owned, KernelAgrees, FdOf, Ignored
  <2> QED
    BY <2>3, <2>4, <2>5, <2>6 DEF PollerInv
<1>5. CASE UNCHANGED pollerVars
  <2>1. UNCHANGED <<events_, addedToLoop_, called, channels_, epIndex, kernel, pollIndex,
                    pollfds_, pollerEnd>>
    BY <1>5 DEF pollerVars, channelVars
  <2>2. PollerTypeOK'
    BY <1>1, <2>1 DEF PollerTypeOK
  <2>3. pollerEnd' = "" => ChannelsFound' /\ PollfdsOwned' /\ KernelAgrees'
    BY <1>2, <2>1 DEF ChannelsFound, PollfdsOwned, Owned, KernelAgrees, FdOf, Ignored
  <2>4. WantsHeard' /\ ReportsHeard'
    BY <1>1, <2>1 DEF WantsHeard, Wants, ReportsHeard
  <2> QED
    BY <1>1, <2>1, <2>2, <2>3, <2>4 DEF PollerInv
<1> QED
  BY <1>3, <1>4, <1>5 DEF PollerNext

\* The invariant says of poll() what is to be shown: the one pollfd that has the
\* channel's descriptor is the channel's own.
LEMMA ChannelWatched ==
  ASSUME PollerTypeOK, ChannelsFound, PollfdsOwned, KernelAgrees, NEW f \in Fds
  PROVE  /\ (f \in channels_ /\ events_[f] # {}) =>
              kernel[f] = events_[f] /\ PollWatches(f) = {events_[f]}
         /\ (f \in channels_ /\ events_[f] = {}) =>
              kernel[f] \in {Unwatched, {}} /\ PollWatches(f) \subseteq {{}}
         /\ f \notin channels_ => kernel[f] = Unwatched /\ PollWatches(f) = {}
         /\ f \in channels_ => /\ pollIndex[f] \in 0..(Len(pollfds_) - 1)
                               /\ FdOf(pollfds_[pollIndex[f] + 1]) = f
<1>1. PollerTypeOK /\ ChannelsFound /\ PollfdsOwned /\ KernelAgrees
  OBVIOUS
<1>2. /\ Len(pollfds_) \in Nat /\ DOMAIN pollfds_ = 1..Len(pollfds_)
      /\ \A i \in 1..Len(pollfds_) : pollfds_[i] \in Pollfds
  BY <1>1, AssertsFound
<1>3. \A i \in DOMAIN pollfds_ : pollfds_[i].fd = f => FdOf(pollfds_[i]) = f
  BY <1>2, FormsOfFd
<1>4. ASSUME NEW i \in DOMAIN pollfds_, FdOf(pollfds_[i]) = f
      PROVE  f \in channels_ /\ pollfds_[i].events = events_[f]
  BY <1>1, <1>2, <1>4 DEF PollfdsOwned, Owned
<1>5. ASSUME f \in channels_, events_[f] # {}
      PROVE  kernel[f] = events_[f] /\ PollWatches(f) = {events_[f]}
  <2> DEFINE k == pollIndex[f] + 1
  <2>1. pollIndex[f] \in 0..(Len(pollfds_) - 1) /\ FdOf(pollfds_[k]) = f
    BY <1>1, <1>5 DEF ChannelsFound
  <2>2. k \in 1..Len(pollfds_)
    BY <1>2, <2>1
  <2>3. pollfds_[k].events = events_[f] /\ (pollfds_[k].fd < 0 => pollfds_[k].events = {})
    BY <1>1, <2>1, <2>2 DEF PollfdsOwned, Owned
  <2>4. pollfds_[k].fd = f
    BY <1>2, <1>5, <2>1, <2>2, <2>3, FormsOfFd
  <2>5. \A i \in DOMAIN pollfds_ : pollfds_[i].fd = f => pollfds_[i].events = events_[f]
    BY <1>3, <1>4
  <2>6. k \in DOMAIN pollfds_
    BY <1>2, <2>2
  <2> HIDE DEF k
  <2>7. PollWatches(f) = {events_[f]}
    BY <2>3, <2>4, <2>5, <2>6 DEF PollWatches
  <2>8. kernel[f] = events_[f]
    <3>1. \/ epIndex[f] = kAdded /\ kernel[f] = events_[f]
          \/ epIndex[f] = kDeleted /\ kernel[f] = Unwatched /\ events_[f] = {}
      BY <1>1, <1>5, Zenon DEF KernelAgrees
    <3> QED
      BY <1>5, <3>1
  <2> QED
    BY <2>7, <2>8
<1>6. ASSUME f \notin channels_ PROVE kernel[f] = Unwatched /\ PollWatches(f) = {}
  <2>1. \A i \in DOMAIN pollfds_ : pollfds_[i].fd # f
    BY <1>3, <1>4, <1>6
  <2> QED
    BY <1>1, <1>6, <2>1 DEF KernelAgrees, PollWatches
<1>7. ASSUME f \in channels_, events_[f] = {}
      PROVE  kernel[f] \in {Unwatched, {}} /\ PollWatches(f) \subseteq {{}}
  <2>1. \A i \in DOMAIN pollfds_ : pollfds_[i].fd = f => pollfds_[i].events = {}
    BY <1>3, <1>4, <1>7
  <2>2. PollWatches(f) \subseteq {{}}
    BY <2>1 DEF PollWatches
  <2>3. kernel[f] = events_[f] \/ kernel[f] = Unwatched
    BY <1>1, <1>7, Zenon DEF KernelAgrees
  <2> QED
    BY <1>7, <2>2, <2>3
<1> QED
  BY <1>1, <1>5, <1>6, <1>7 DEF ChannelsFound

\* The inductive invariant implies the property.
LEMMA WatchesAlike == PollerInv => PollersWatchAlike
  BY ChannelWatched DEF PollerInv, PollersWatchAlike, ReportsHeard

\* For any descriptors, any callbacks and any order of calls: epoll and poll watch a
\* channel that wants events for exactly those, and one that wants none for hang-ups and
\* errors at most (which the two may differ in); a channel is found at its index_, no
\* assert fails, and a report runs a callback unless it is a hang-up or an error alone of
\* a channel that has not all four.
THEOREM BothPollersWatch == PollerSpec => []PollersWatchAlike
<1>1. PollerSpec => []PollerInv
  BY PollerInitially, PollerKept, PTL DEF PollerSpec
<1> QED
  BY <1>1, WatchesAlike, PTL

-----------------------------------------------------------------------------
(* ThreadPool *)

\* Who sleeps is waiting, and nobody sleeps on notEmpty_ after stop(); a producer in run() has
\* a task of its own, and the others have none.
SleepersWait ==
  /\ \A w \in notEmpty_ : worker[w] = "waiting"
  /\ notEmpty_ # {} => running_
  /\ \A p \in notFull_ : producer[p] = "waiting"

TasksNumbered ==
  /\ \A p \in Producers : IF producer[p] = "idle" THEN task[p] = 0 ELSE task[p] \in 1..submitted
  /\ \A i \in DOMAIN queue_ : queue_[i] \in 1..submitted
  /\ \A i \in DOMAIN ranTasks : ranTasks[i] \in 1..submitted

PoolInv == PoolTypeOK /\ SleepersWait /\ TasksNumbered /\ NobodyOversleeps /\ TasksTakenOnce

\* The sets that NobodyOversleeps counts are finite.
LEMMA FiniteCrew ==
  ASSUME NEW n \in NumThreads
  PROVE  /\ n \in Nat /\ 1..n \subseteq 1..MaxThreads
         /\ \A S \in SUBSET (1..n) : IsFiniteSet(S) /\ Cardinality(S) \in Nat
         /\ \A S \in SUBSET Producers : IsFiniteSet(S) /\ Cardinality(S) \in Nat
<1>1. n \in Nat /\ n <= MaxThreads /\ MaxThreads \in Nat
  BY PoolBounds
<1>2. IsFiniteSet(1..n) /\ 1..n \subseteq 1..MaxThreads
  BY <1>1, FS_Interval
<1> QED
  BY <1>1, <1>2, PoolBounds, FS_Subset, FS_CardinalityType

\* The same for the state of the pool.
LEMMA PoolSets ==
  ASSUME PoolTypeOK
  PROVE  /\ Len(queue_) \in Nat /\ maxQueueSize_ \in Nat /\ threads_ \in Nat
         /\ Workers \subseteq 1..MaxThreads
         /\ IsFiniteSet(Coming) /\ Cardinality(Coming) \in Nat
         /\ IsFiniteSet(Woken) /\ Cardinality(Woken) \in Nat
<1>1. Len(queue_) \in Nat /\ maxQueueSize_ \in Nat /\ threads_ \in NumThreads
  BY PoolBounds, LenProperties DEF PoolTypeOK
<1>2. Coming \subseteq 1..threads_ /\ Woken \subseteq Producers
  BY DEF Coming, Woken, Workers
<1> QED
  BY <1>1, <1>2, FiniteCrew DEF Workers

\* The same after a step.
LEMMA PoolSetsAfter ==
  ASSUME PoolTypeOK'
  PROVE  /\ IsFiniteSet(Coming') /\ Cardinality(Coming') \in Nat
         /\ IsFiniteSet(Woken') /\ Cardinality(Woken') \in Nat
<1>1. threads_' \in NumThreads
  BY DEF PoolTypeOK
<1>2. Coming' \subseteq 1..threads_' /\ Woken' \subseteq Producers
  BY DEF Coming, Woken, Workers
<1> QED
  BY <1>1, <1>2, FiniteCrew

\* The workers' part: with no fewer workers coming and no more tasks, it stays.
LEMMA MoreCome ==
  ASSUME PoolTypeOK, PoolTypeOK', NobodyOversleeps,
         notEmpty_' \subseteq notEmpty_, Coming \subseteq Coming', queue_' = queue_
  PROVE  notEmpty_' # {} => Len(queue_') <= Cardinality(Coming')
<1>1. /\ Len(queue_) \in Nat /\ IsFiniteSet(Coming) /\ Cardinality(Coming) \in Nat
  BY PoolSets
<1>2. IsFiniteSet(Coming') /\ Cardinality(Coming') \in Nat
  BY PoolSetsAfter
<1>3. Cardinality(Coming) <= Cardinality(Coming')
  BY <1>2, FS_Subset
<1> QED
  BY <1>1, <1>2, <1>3 DEF NobodyOversleeps

\* The same for the calls of run().
LEMMA MoreWake ==
  ASSUME PoolTypeOK, PoolTypeOK', NobodyOversleeps,
         notFull_' \subseteq notFull_, Woken \subseteq Woken', queue_' = queue_
  PROVE  notFull_' # {} => maxQueueSize_ <= Len(queue_') + Cardinality(Woken')
<1>1. /\ Len(queue_) \in Nat /\ IsFiniteSet(Woken) /\ Cardinality(Woken) \in Nat
      /\ maxQueueSize_ \in Nat
  BY PoolSets
<1>2. IsFiniteSet(Woken') /\ Cardinality(Woken') \in Nat
  BY PoolSetsAfter
<1>3. Cardinality(Woken) <= Cardinality(Woken')
  BY <1>2, FS_Subset
<1> QED
  BY <1>1, <1>2, <1>3 DEF NobodyOversleeps

\* The places of the tasks do not change when the queue, the callers and the history do not.
LEMMA TasksKept ==
  ASSUME TasksNumbered, TasksTakenOnce,
         UNCHANGED <<queue_, ranTasks, producer, task, submitted>>
  PROVE  TasksNumbered' /\ TasksTakenOnce'
BY DEF TasksNumbered, TasksTakenOnce

\* Steps that only move a worker that was not waiting, between places that count alike.
LEMMA WorkerMoves ==
  ASSUME PoolInv, NEW w \in 1..MaxThreads, NEW from, NEW to,
         worker[w] = from, from \notin {"waiting", "done"},
         to \in {"created", "test", "take", "done"}, to = "done" => ~running_,
         worker' = [worker EXCEPT ![w] = to],
         UNCHANGED <<threads_, queue_, running_, notEmpty_, notFull_, producer, submitted, task,
                     pool, ranTasks>>
  PROVE  PoolInv'
<1>1. PoolTypeOK'
  BY DEF PoolInv, PoolTypeOK, Workers
<1>2. SleepersWait'
  <2>1. w \notin notEmpty_
    BY DEF PoolInv, SleepersWait
  <2>2. \A v \in notEmpty_ : v \in 1..MaxThreads /\ worker'[v] = worker[v]
    BY <2>1, PoolSets DEF PoolInv, PoolTypeOK
  <2> QED
    BY <2>2 DEF PoolInv, SleepersWait
<1>3. TasksNumbered' /\ TasksTakenOnce'
  BY TasksKept DEF PoolInv
<1>4. notFull_' # {} => maxQueueSize_ <= Len(queue_') + Cardinality(Woken')
  BY <1>1, MoreWake DEF PoolInv, Woken
<1>5. notEmpty_' # {} => Len(queue_') <= Cardinality(Coming')
  <2>1. CASE notEmpty_ = {}
    BY <2>1
  <2>2. CASE notEmpty_ # {}
    <3>1. to # "done"
      BY <2>2 DEF PoolInv, SleepersWait
    <3>2. Coming \subseteq Coming'
      BY <3>1, PoolSets DEF PoolInv, PoolTypeOK, Coming, Workers
    <3> QED
      BY <1>1, <3>2, MoreCome DEF PoolInv
  <2> QED
    BY <2>1, <2>2
<1> QED
  BY <1>1, <1>2, <1>3, <1>4, <1>5 DEF PoolInv, NobodyOversleeps

\* The pool has been made.
LEMMA PoolInitially == PoolInit => PoolInv
<1> SUFFICES ASSUME PoolInit PROVE PoolInv
  OBVIOUS
<1>1. PoolTypeOK
  BY PoolBounds DEF PoolInit, PoolTypeOK
<1>2. SleepersWait /\ TasksNumbered
  BY DEF PoolInit, SleepersWait, TasksNumbered
<1>3. NobodyOversleeps
  BY DEF PoolInit, NobodyOversleeps
<1>4. TasksTakenOnce
  BY PoolBounds DEF PoolInit, TasksTakenOnce
<1> QED
  BY <1>1, <1>2, <1>3, <1>4 DEF PoolInv

\* A call of run() begins with the next task.
LEMMA CallRunStep ==
  ASSUME PoolInv, NEW p \in Producers, CallRun(p)
  PROVE  PoolInv'
<1>1. /\ producer[p] = "idle" /\ submitted < MaxTasks /\ submitted' = submitted + 1
      /\ task' = [task EXCEPT ![p] = submitted + 1]
      /\ producer' = [producer EXCEPT ![p] = "run"]
      /\ UNCHANGED <<threads_, queue_, running_, notEmpty_, notFull_, worker, pool, ranTasks>>
  BY DEF CallRun, conditions
<1>2. submitted \in Nat /\ MaxTasks \in Nat /\ submitted + 1 \in 1..MaxTasks
  BY <1>1, PoolBounds DEF PoolInv, PoolTypeOK
<1>3. /\ producer \in [Producers -> {"idle", "run", "waiting"}] /\ task \in [Producers -> 0..MaxTasks]
      /\ \A q \in Producers \ {p} : producer'[q] = producer[q] /\ task'[q] = task[q]
      /\ producer'[p] = "run" /\ task'[p] = submitted + 1
  BY <1>1 DEF PoolInv, PoolTypeOK
<1>4. PoolTypeOK'
  <2>1. task' \in [Producers -> 0..MaxTasks]
    BY <1>1, <1>2, <1>3
  <2>2. producer' \in [Producers -> {"idle", "run", "waiting"}]
    BY <1>1, <1>3
  <2> QED
    BY <1>1, <1>2, <2>1, <2>2 DEF PoolInv, PoolTypeOK, Workers
<1>5. SleepersWait'
  <2>1. \A q \in notFull_ : q \in Producers /\ producer[q] = "waiting"
    BY DEF PoolInv, PoolTypeOK, SleepersWait
  <2> QED
    BY <1>1, <1>3, <2>1 DEF PoolInv, SleepersWait
<1>6. \A t \in 1..submitted : t \in 1..submitted' /\ t # submitted + 1
  BY <1>1, <1>2
<1>7. submitted + 1 \in 1..submitted'
  BY <1>1, <1>2
<1>8. TasksNumbered'
  BY <1>1, <1>3, <1>6, <1>7 DEF PoolInv, TasksNumbered
<1>9. TasksTakenOnce'
  <2>1. \A i \in DOMAIN queue_ : queue_[i] # submitted + 1
    BY <1>6 DEF PoolInv, TasksNumbered
  <2>2. \A i \in DOMAIN ranTasks : ranTasks[i] # submitted + 1
    BY <1>6 DEF PoolInv, TasksNumbered
  <2>3. \A q \in Producers \ {p} : task[q] # submitted + 1
    <3>1. 0 # submitted + 1
      BY <1>2
    <3> QED
      BY <1>6, <3>1 DEF PoolInv, TasksNumbered
  <2>4. ASSUME NEW q \in Producers, producer'[q] # "idle"
        PROVE  /\ \A i \in DOMAIN queue_ : queue_[i] # task'[q]
               /\ \A i \in DOMAIN ranTasks : ranTasks[i] # task'[q]
               /\ \A r \in Producers \ {q} : task'[r] # task'[q]
    <3>1. CASE q = p
      BY <1>3, <2>1, <2>2, <2>3, <3>1
    <3>2. CASE q # p
      <4>1. producer[q] # "idle" /\ task'[q] = task[q]
        BY <1>3, <2>4, <3>2
      <4>2. ASSUME NEW r \in Producers \ {q} PROVE task'[r] # task[q]
        BY <1>3, <2>3, <3>2, <4>1 DEF PoolInv, TasksTakenOnce
      <4> QED
        BY <4>1, <4>2 DEF PoolInv, TasksTakenOnce
    <3> QED
      BY <3>1, <3>2
  <2>5. ASSUME NEW t \in 1..submitted'
        PROVE  \/ \E i \in DOMAIN queue_ : queue_[i] = t
               \/ \E i \in DOMAIN ranTasks : ranTasks[i] = t
               \/ \E q \in Producers : task'[q] = t
    <3>1. CASE t = submitted + 1
      BY <1>3, <3>1
    <3>2. CASE t # submitted + 1
      <4>1. t \in 1..submitted /\ t # 0
        BY <1>1, <1>2, <3>2
      <4>2. \A q \in Producers : task[q] = t => q # p
        BY <1>1, <4>1 DEF PoolInv, TasksNumbered
      <4> QED
        BY <1>3, <4>1, <4>2 DEF PoolInv, TasksTakenOnce
    <3> QED
      BY <3>1, <3>2
  <2> QED
    BY <1>1, <2>4, <2>5 DEF PoolInv, TasksTakenOnce
<1>10. NobodyOversleeps'
  <2>1. Coming' = Coming
    BY <1>1 DEF Coming, Workers
  <2>2. Woken \subseteq Woken'
    BY <1>1, <1>3 DEF Woken
  <2> QED
    BY <1>1, <1>4, <2>1, <2>2, MoreCome, MoreWake DEF PoolInv, NobodyOversleeps
<1> QED
  BY <1>4, <1>5, <1>8, <1>9, <1>10 DEF PoolInv

\* What the places of the tasks become when a caller's task goes to the end of a sequence.
LEMMA TaskGoes ==
  ASSUME PoolInv, NEW p \in Producers, producer[p] # "idle",
         producer' = [producer EXCEPT ![p] = "idle"], task' = [task EXCEPT ![p] = 0],
         submitted' = submitted,
         \/ queue_' = Append(queue_, task[p]) /\ ranTasks' = ranTasks
         \/ ranTasks' = Append(ranTasks, task[p]) /\ queue_' = queue_,
         maxQueueSize_ > 0 => Len(queue_') <= maxQueueSize_
  PROVE  TasksNumbered' /\ TasksTakenOnce'
<1> DEFINE t == task[p]
<1>1. /\ producer \in [Producers -> {"idle", "run", "waiting"}] /\ task \in [Producers -> 0..MaxTasks]
      /\ \A q \in Producers \ {p} : producer'[q] = producer[q] /\ task'[q] = task[q]
      /\ producer'[p] = "idle" /\ task'[p] = 0
  BY DEF PoolInv, PoolTypeOK
<1>2. /\ t \in 1..submitted /\ t # 0
      /\ \A i \in DOMAIN queue_ : queue_[i] # t
      /\ \A i \in DOMAIN ranTasks : ranTasks[i] # t
      /\ \A q \in Producers \ {p} : task[q] # t
  <2>1. t \in 1..submitted
    BY DEF PoolInv, TasksNumbered
  <2>2. t # 0
    BY <2>1 DEF PoolInv, PoolTypeOK
  <2> QED
    BY <2>1, <2>2 DEF PoolInv, TasksTakenOnce
<1>3. queue_ \in Seq(1..MaxTasks) /\ ranTasks \in Seq(1..MaxTasks) /\ t \in 1..MaxTasks
  BY <1>2, PoolBounds DEF PoolInv, PoolTypeOK
<1>4. ASSUME NEW s \in Seq(1..MaxTasks)
      PROVE  LET r == Append(s, t)
             IN  /\ DOMAIN s \subseteq DOMAIN r /\ Len(s) + 1 \in DOMAIN r
                 /\ \A i \in DOMAIN s : r[i] = s[i] /\ i # Len(s) + 1
                 /\ r[Len(s) + 1] = t
                 /\ \A i \in DOMAIN r : i \in DOMAIN s \/ i = Len(s) + 1
  BY <1>3, AppendProperties, LenProperties
<1> HIDE DEF t
<1>5. \A i, j \in DOMAIN queue_ : queue_[i] = queue_[j] => i = j
  BY DEF PoolInv, TasksTakenOnce
<1>6. \A i, j \in DOMAIN ranTasks : ranTasks[i] = ranTasks[j] => i = j
  BY DEF PoolInv, TasksTakenOnce
<1>7. \A i \in DOMAIN queue_, j \in DOMAIN ranTasks : queue_[i] # ranTasks[j]
  BY DEF PoolInv, TasksTakenOnce
<1>8. \A q \in Producers : producer[q] # "idle" =>
         /\ \A i \in DOMAIN queue_ : queue_[i] # task[q]
         /\ \A i \in DOMAIN ranTasks : ranTasks[i] # task[q]
         /\ \A r \in Producers \ {q} : task[r] # task[q]
  BY DEF PoolInv, TasksTakenOnce
<1>9. \A u \in 1..submitted :
         \/ \E i \in DOMAIN queue_ : queue_[i] = u
         \/ \E i \in DOMAIN ranTasks : ranTasks[i] = u
         \/ u = t \/ \E q \in Producers \ {p} : task[q] = u
  BY DEF PoolInv, TasksTakenOnce, t
<1>10. \A q \in Producers : producer'[q] # "idle" =>
         /\ q # p /\ producer[q] # "idle" /\ task'[q] = task[q] /\ task[q] # t
         /\ \A r \in Producers \ {q} : task'[r] # task'[q]
  <2> SUFFICES ASSUME NEW q \in Producers, producer'[q] # "idle"
               PROVE  /\ q # p /\ producer[q] # "idle" /\ task'[q] = task[q] /\ task[q] # t
                      /\ \A r \in Producers \ {q} : task'[r] # task'[q]
    OBVIOUS
  <2>1. q # p /\ producer[q] # "idle" /\ task'[q] = task[q] /\ task[q] # t
    BY <1>1, <1>2
  <2>2. task[q] # 0
    <3>1. task[q] \in 1..submitted
      BY <2>1 DEF PoolInv, TasksNumbered
    <3> QED
      BY <3>1 DEF PoolInv, PoolTypeOK
  <2> QED
    BY <1>1, <1>8, <2>1, <2>2
<1>11. \A q \in Producers : IF producer'[q] = "idle" THEN task'[q] = 0 ELSE task'[q] \in 1..submitted
  BY <1>1 DEF PoolInv, TasksNumbered
<1>12. CASE queue_' = Append(queue_, t) /\ ranTasks' = ranTasks
  <2> DEFINE n == Len(queue_) + 1
  <2>1. /\ DOMAIN queue_ \subseteq DOMAIN queue_' /\ n \in DOMAIN queue_'
        /\ \A i \in DOMAIN queue_ : queue_'[i] = queue_[i] /\ i # n
        /\ queue_'[n] = t /\ \A i \in DOMAIN queue_' : i \in DOMAIN queue_ \/ i = n
    BY <1>3, <1>4, <1>12
  <2> HIDE DEF n
  <2>2. TasksNumbered'
    <3>1. \A i \in DOMAIN queue_' : queue_'[i] \in 1..submitted
      BY <1>2, <2>1 DEF PoolInv, TasksNumbered
    <3> QED
      BY <1>11, <1>12, <3>1 DEF PoolInv, TasksNumbered
  <2>3. \A i, j \in DOMAIN queue_' : queue_'[i] = queue_'[j] => i = j
    BY <1>2, <1>5, <2>1
  <2>4. \A i \in DOMAIN queue_', j \in DOMAIN ranTasks : queue_'[i] # ranTasks[j]
    BY <1>2, <1>7, <2>1
  <2>5. \A q \in Producers : producer'[q] # "idle" =>
           /\ \A i \in DOMAIN queue_' : queue_'[i] # task'[q]
           /\ \A i \in DOMAIN ranTasks : ranTasks[i] # task'[q]
    BY <1>8, <1>10, <2>1
  <2>6. ASSUME NEW u \in 1..submitted
        PROVE  \/ \E i \in DOMAIN queue_' : queue_'[i] = u
               \/ \E i \in DOMAIN ranTasks : ranTasks[i] = u
               \/ \E q \in Producers : task'[q] = u
    <3>1. CASE \E i \in DOMAIN queue_ : queue_[i] = u
      BY <2>1, <3>1
    <3>2. CASE \E i \in DOMAIN ranTasks : ranTasks[i] = u
      BY <3>2
    <3>3. CASE u = t
      BY <2>1, <3>3
    <3>4. CASE \E q \in Producers \ {p} : task[q] = u
      BY <1>1, <3>4
    <3> QED
      BY <1>9, <3>1, <3>2, <3>3, <3>4
  <2> QED
    BY <1>6, <1>10, <1>12, <2>2, <2>3, <2>4, <2>5, <2>6 DEF TasksTakenOnce
<1>13. CASE ranTasks' = Append(ranTasks, t) /\ queue_' = queue_
  <2> DEFINE n == Len(ranTasks) + 1
  <2>1. /\ DOMAIN ranTasks \subseteq DOMAIN ranTasks' /\ n \in DOMAIN ranTasks'
        /\ \A i \in DOMAIN ranTasks : ranTasks'[i] = ranTasks[i] /\ i # n
        /\ ranTasks'[n] = t /\ \A i \in DOMAIN ranTasks' : i \in DOMAIN ranTasks \/ i = n
    BY <1>3, <1>4, <1>13
  <2> HIDE DEF n
  <2>2. TasksNumbered'
    <3>1. \A i \in DOMAIN ranTasks' : ranTasks'[i] \in 1..submitted
      BY <1>2, <2>1 DEF PoolInv, TasksNumbered
    <3> QED
      BY <1>11, <1>13, <3>1 DEF PoolInv, TasksNumbered
  <2>3. \A i, j \in DOMAIN ranTasks' : ranTasks'[i] = ranTasks'[j] => i = j
    BY <1>2, <1>6, <2>1
  <2>4. \A i \in DOMAIN queue_, j \in DOMAIN ranTasks' : queue_[i] # ranTasks'[j]
    BY <1>2, <1>7, <2>1
  <2>5. \A q \in Producers : producer'[q] # "idle" =>
           /\ \A i \in DOMAIN queue_ : queue_[i] # task'[q]
           /\ \A i \in DOMAIN ranTasks' : ranTasks'[i] # task'[q]
    BY <1>8, <1>10, <2>1
  <2>6. ASSUME NEW u \in 1..submitted
        PROVE  \/ \E i \in DOMAIN queue_ : queue_[i] = u
               \/ \E i \in DOMAIN ranTasks' : ranTasks'[i] = u
               \/ \E q \in Producers : task'[q] = u
    <3>1. CASE \E i \in DOMAIN queue_ : queue_[i] = u
      BY <3>1
    <3>2. CASE \E i \in DOMAIN ranTasks : ranTasks[i] = u
      BY <2>1, <3>2
    <3>3. CASE u = t
      BY <2>1, <3>3
    <3>4. CASE \E q \in Producers \ {p} : task[q] = u
      BY <1>1, <3>4
    <3> QED
      BY <1>9, <3>1, <3>2, <3>3, <3>4
  <2> QED
    BY <1>5, <1>10, <1>13, <2>2, <2>3, <2>4, <2>5, <2>6 DEF PoolInv, TasksTakenOnce
<1> QED
  BY <1>12, <1>13 DEF t

\* run() of a pool without threads.
LEMMA RunHereStep ==
  ASSUME PoolInv, NEW p \in Producers, RunHere(p)
  PROVE  PoolInv'
<1>1. /\ producer[p] = "run" /\ ranTasks' = Append(ranTasks, task[p])
      /\ producer' = [producer EXCEPT ![p] = "idle"] /\ task' = [task EXCEPT ![p] = 0]
      /\ UNCHANGED <<threads_, queue_, running_, notEmpty_, notFull_, worker, submitted, pool>>
  BY DEF RunHere, conditions
<1>2. TasksNumbered' /\ TasksTakenOnce'
  BY <1>1, TaskGoes DEF PoolInv, TasksTakenOnce
<1>3. task[p] \in 1..MaxTasks /\ MaxTasks \in Nat
  BY <1>1, PoolBounds DEF PoolInv, PoolTypeOK, TasksNumbered
<1>4. PoolTypeOK'
  <2>1. ranTasks' \in Seq(1..MaxTasks)
    BY <1>1, <1>3, AppendProperties DEF PoolInv, PoolTypeOK
  <2> QED
    BY <1>1, <1>3, <2>1 DEF PoolInv, PoolTypeOK, Workers
<1>5. SleepersWait'
  BY <1>1 DEF PoolInv, PoolTypeOK, SleepersWait
<1>6. Coming' = Coming /\ Woken \subseteq Woken'
  BY <1>1 DEF PoolInv, PoolTypeOK, Coming, Woken, Workers
<1>7. NobodyOversleeps'
  BY <1>1, <1>4, <1>6, MoreCome, MoreWake DEF PoolInv, NobodyOversleeps
<1> QED
  BY <1>2, <1>4, <1>5, <1>7 DEF PoolInv

\* run(): the caller sleeps while the queue is full, or leaves its task and wakes a worker.
LEMMA RunStep ==
  ASSUME PoolInv, NEW p \in Producers, Run(p)
  PROVE  PoolInv'
<1>1. /\ producer[p] = "run" \/ (producer[p] = "waiting" /\ p \notin notFull_)
      /\ UNCHANGED <<threads_, running_, worker, submitted, pool, ranTasks>>
  BY DEF Run
<1>2. /\ producer \in [Producers -> {"idle", "run", "waiting"}] /\ task \in [Producers -> 0..MaxTasks]
      /\ notFull_ \subseteq Producers /\ notEmpty_ \subseteq Workers /\ p \notin notFull_
  BY <1>1 DEF PoolInv, PoolTypeOK, SleepersWait
<1>3. /\ Len(queue_) \in Nat /\ maxQueueSize_ \in Nat /\ Workers \subseteq 1..MaxThreads
      /\ IsFiniteSet(Coming) /\ Cardinality(Coming) \in Nat
      /\ IsFiniteSet(Woken) /\ Cardinality(Woken) \in Nat
  BY PoolSets DEF PoolInv
<1>4. CASE isFull
  <2>1. /\ notFull_' = notFull_ \cup {p} /\ producer' = [producer EXCEPT ![p] = "waiting"]
        /\ UNCHANGED <<queue_, notEmpty_, task>>
    BY <1>4 DEF Run
  <2>2. PoolTypeOK'
    BY <1>1, <1>2, <2>1 DEF PoolInv, PoolTypeOK, Workers
  <2>3. SleepersWait'
    BY <1>1, <1>2, <2>1 DEF PoolInv, SleepersWait
  <2>4. TasksNumbered' /\ TasksTakenOnce'
    <3>1. \A q \in Producers : (producer'[q] = "idle") <=> (producer[q] = "idle")
      BY <1>1, <1>2, <2>1
    <3> QED
      BY <1>1, <2>1, <3>1 DEF PoolInv, TasksNumbered, TasksTakenOnce
  <2>5. NobodyOversleeps'
    <3>1. notEmpty_' # {} => Len(queue_') <= Cardinality(Coming')
      BY <1>1, <2>1, <2>2, MoreCome DEF PoolInv, Coming, Workers
    <3>2. Cardinality(Woken') \in Nat
      BY <2>2, PoolSetsAfter
    <3>3. maxQueueSize_ <= Len(queue_') + Cardinality(Woken')
      BY <1>3, <1>4, <2>1, <3>2 DEF isFull
    <3> QED
      BY <3>1, <3>3 DEF NobodyOversleeps
  <2> QED
    BY <2>2, <2>3, <2>4, <2>5 DEF PoolInv
<1>5. CASE ~isFull
  <2>1. /\ queue_' = Append(queue_, task[p]) /\ Notify(notEmpty_, notEmpty_')
        /\ producer' = [producer EXCEPT ![p] = "idle"] /\ task' = [task EXCEPT ![p] = 0]
        /\ UNCHANGED notFull_
    BY <1>5 DEF Run, Enqueue
  <2>2. task[p] \in 1..MaxTasks /\ MaxTasks \in Nat
    BY <1>1, PoolBounds DEF PoolInv, PoolTypeOK, TasksNumbered
  <2>3. queue_' \in Seq(1..MaxTasks) /\ Len(queue_') = Len(queue_) + 1
    BY <2>1, <2>2, AppendProperties DEF PoolInv, PoolTypeOK
  <2>4. \/ notEmpty_ = {} /\ notEmpty_' = {}
        \/ \E w \in notEmpty_ : notEmpty_' = notEmpty_ \ {w}
    BY <2>1 DEF Notify
  <2>5. PoolTypeOK'
    <3>1. notEmpty_' \subseteq notEmpty_
      BY <2>4
    <3>2. producer' \in [Producers -> {"idle", "run", "waiting"}] /\ task' \in [Producers -> 0..MaxTasks]
      BY <1>2, <2>1, <2>2
    <3> QED
      BY <1>1, <2>1, <2>3, <3>1, <3>2 DEF PoolInv, PoolTypeOK, Workers
  <2>6. SleepersWait'
    BY <1>1, <1>2, <2>1, <2>4 DEF PoolInv, SleepersWait
  <2>7. TasksNumbered' /\ TasksTakenOnce'
    <3>1. maxQueueSize_ > 0 => Len(queue_') <= maxQueueSize_
      BY <1>3, <1>5, <2>3 DEF isFull
    <3> QED
      BY <1>1, <2>1, <3>1, TaskGoes
  <2>8. notEmpty_' # {} => Len(queue_') <= Cardinality(Coming')
    <3> SUFFICES ASSUME notEmpty_' # {} PROVE Len(queue_') <= Cardinality(Coming')
      OBVIOUS
    <3>1. PICK w \in notEmpty_ : notEmpty_' = notEmpty_ \ {w}
      BY <2>4
    <3>2. w \in Workers /\ worker[w] = "waiting" /\ w \notin Coming
      BY <1>2 DEF PoolInv, SleepersWait, Coming
    <3>3. Coming' = Coming \cup {w}
      BY <1>1, <3>1, <3>2 DEF Coming, Workers
    <3>4. Cardinality(Coming') = Cardinality(Coming) + 1
      BY <1>3, <3>2, <3>3, FS_AddElement
    <3>5. Len(queue_) <= Cardinality(Coming)
      BY <3>1 DEF PoolInv, NobodyOversleeps
    <3> QED
      BY <1>3, <2>3, <3>4, <3>5
  <2>9. notFull_' # {} => maxQueueSize_ <= Len(queue_') + Cardinality(Woken')
    <3>1. Woken' = Woken \ {p}
      BY <1>2, <2>1 DEF Woken
    <3>2. Cardinality(Woken') \in Nat /\ Cardinality(Woken') >= Cardinality(Woken) - 1
      BY <1>3, <2>5, <3>1, FS_RemoveElement, PoolSetsAfter
    <3> QED
      BY <1>3, <2>1, <2>3, <3>2 DEF PoolInv, NobodyOversleeps
  <2> QED
    BY <2>5, <2>6, <2>7, <2>8, <2>9 DEF PoolInv, NobodyOversleeps
<1> QED
  BY <1>4, <1>5

\* What the places of the tasks become when the first of the queue is taken.
LEMMA TaskTaken ==
  ASSUME PoolInv, queue_ # <<>>, queue_' = Tail(queue_), ranTasks' = Append(ranTasks, Head(queue_)),
         UNCHANGED <<producer, task, submitted>>
  PROVE  /\ queue_' \in Seq(1..MaxTasks) /\ ranTasks' \in Seq(1..MaxTasks)
         /\ Len(queue_') = Len(queue_) - 1 /\ Len(queue_) > 0
         /\ TasksNumbered' /\ TasksTakenOnce'
<1> DEFINE t == queue_[1]
           n == Len(ranTasks) + 1
           m == Len(queue_)
<1>1. queue_ \in Seq(1..MaxTasks) /\ ranTasks \in Seq(1..MaxTasks)
  BY DEF PoolInv, PoolTypeOK
<1>2. /\ m \in Nat /\ m > 0 /\ DOMAIN queue_ = 1..m /\ Len(queue_') = m - 1
      /\ queue_' \in Seq(1..MaxTasks) /\ t \in 1..MaxTasks /\ Head(queue_) = t
      /\ \A i \in 1..(m - 1) : queue_'[i] = queue_[i + 1]
  <2>1. m \in Nat /\ m # 0 /\ DOMAIN queue_ = 1..m
    BY <1>1, LenProperties, EmptySeq
  <2>2. Head(queue_) = t
    BY <1>1
  <2>3. t \in 1..MaxTasks
    BY <1>1, <2>1, <2>2, HeadTailProperties
  <2>4. /\ Tail(queue_) \in Seq(1..MaxTasks) /\ Len(Tail(queue_)) = m - 1
        /\ \A i \in 1..Len(Tail(queue_)) : Tail(queue_)[i] = queue_[i + 1]
    BY <1>1, HeadTailProperties
  <2> QED
    BY <2>1, <2>2, <2>3, <2>4
<1>3. DOMAIN queue_' = 1..(m - 1)
  BY <1>2, LenProperties
<1>4. /\ ranTasks' \in Seq(1..MaxTasks) /\ DOMAIN ranTasks \subseteq DOMAIN ranTasks'
      /\ n \in DOMAIN ranTasks' /\ ranTasks'[n] = t
      /\ \A i \in DOMAIN ranTasks : ranTasks'[i] = ranTasks[i] /\ i # n
      /\ \A i \in DOMAIN ranTasks' : i \in DOMAIN ranTasks \/ i = n
  BY <1>1, <1>2, AppendProperties, LenProperties
<1>5. /\ \A i \in DOMAIN queue_' : /\ i + 1 \in DOMAIN queue_ /\ queue_'[i] = queue_[i + 1]
                                   /\ i + 1 # 1
      /\ \A i, j \in DOMAIN queue_' : i + 1 = j + 1 => i = j
      /\ \A i \in DOMAIN queue_ : i = 1 \/ (i - 1 \in DOMAIN queue_' /\ queue_'[i - 1] = queue_[i])
      /\ 1 \in DOMAIN queue_
  BY <1>2, <1>3
<1> HIDE DEF n, m
<1>6. /\ \A i, j \in DOMAIN queue_ : queue_[i] = queue_[j] => i = j
      /\ \A i, j \in DOMAIN ranTasks : ranTasks[i] = ranTasks[j] => i = j
      /\ \A i \in DOMAIN queue_, j \in DOMAIN ranTasks : queue_[i] # ranTasks[j]
  BY DEF PoolInv, TasksTakenOnce
<1>7. \A i \in DOMAIN queue_' : queue_'[i] # t
  BY <1>5, <1>6
<1> HIDE DEF t
<1>8. TasksNumbered'
  <2>1. \A i \in DOMAIN queue_' : queue_'[i] \in 1..submitted
    BY <1>5 DEF PoolInv, TasksNumbered
  <2>2. t \in 1..submitted
    BY <1>5 DEF PoolInv, TasksNumbered, t
  <2>3. \A i \in DOMAIN ranTasks' : ranTasks'[i] \in 1..submitted
    BY <1>4, <2>2 DEF PoolInv, TasksNumbered
  <2> QED
    BY <2>1, <2>3 DEF PoolInv, TasksNumbered
<1>9. \A i, j \in DOMAIN queue_' : queue_'[i] = queue_'[j] => i = j
  <2> SUFFICES ASSUME NEW i \in DOMAIN queue_', NEW j \in DOMAIN queue_', queue_'[i] = queue_'[j]
               PROVE  i = j
    OBVIOUS
  <2>1. i + 1 \in DOMAIN queue_ /\ j + 1 \in DOMAIN queue_ /\ queue_[i + 1] = queue_[j + 1]
    BY <1>5
  <2> QED
    BY <1>5, <1>6, <2>1
<1>10. \A i, j \in DOMAIN ranTasks' : ranTasks'[i] = ranTasks'[j] => i = j
  BY <1>4, <1>5, <1>6 DEF t
<1>11. \A i \in DOMAIN queue_', j \in DOMAIN ranTasks' : queue_'[i] # ranTasks'[j]
  BY <1>4, <1>5, <1>6, <1>7
<1>12. \A p \in Producers : producer[p] # "idle" =>
         /\ \A i \in DOMAIN queue_' : queue_'[i] # task[p]
         /\ \A i \in DOMAIN ranTasks' : ranTasks'[i] # task[p]
  BY <1>4, <1>5 DEF PoolInv, TasksTakenOnce, t
<1>13. \A u \in 1..submitted :
         \/ \E i \in DOMAIN queue_' : queue_'[i] = u
         \/ \E i \in DOMAIN ranTasks' : ranTasks'[i] = u
         \/ \E p \in Producers : task[p] = u
  <2> SUFFICES ASSUME NEW u \in 1..submitted
               PROVE  \/ \E i \in DOMAIN queue_' : queue_'[i] = u
                      \/ \E i \in DOMAIN ranTasks' : ranTasks'[i] = u
                      \/ \E p \in Producers : task[p] = u
    OBVIOUS
  <2>1. CASE \E i \in DOMAIN queue_ : queue_[i] = u
    <3>1. PICK i \in DOMAIN queue_ : queue_[i] = u
      BY <2>1
    <3>2. CASE i = 1
      BY <1>4, <3>1, <3>2 DEF t
    <3>3. CASE i # 1
      <4>1. i - 1 \in DOMAIN queue_' /\ queue_'[i - 1] = u
        BY <1>5, <3>1, <3>3
      <4> QED
        BY <4>1, Zenon
    <3> QED
      BY <3>2, <3>3
  <2>2. CASE \E i \in DOMAIN ranTasks : ranTasks[i] = u
    BY <1>4, <2>2
  <2> QED
    BY <2>1, <2>2 DEF PoolInv, TasksTakenOnce
<1>14. maxQueueSize_ > 0 => Len(queue_') <= maxQueueSize_
  BY <1>2, PoolBounds DEF PoolInv, TasksTakenOnce, m
<1>15. \A p \in Producers : producer[p] # "idle" => \A q \in Producers \ {p} : task[q] # task[p]
  BY DEF PoolInv, TasksTakenOnce
<1>16. TasksTakenOnce'
  <2>1. producer' = producer /\ task' = task /\ submitted' = submitted
    OBVIOUS
  <2> QED
    BY <1>9, <1>10, <1>11, <1>12, <1>13, <1>14, <1>15, <2>1 DEF TasksTakenOnce
<1> QED
  BY <1>2, <1>4, <1>8, <1>16 DEF m

\* take(): the worker sleeps, leaves with nothing, or takes a task and wakes a caller of run().
LEMMA TakeStep ==
  ASSUME PoolInv, NEW w \in Workers, Take(w)
  PROVE  PoolInv'
<1>1. /\ worker[w] = "take" \/ (worker[w] = "waiting" /\ w \notin notEmpty_)
      /\ UNCHANGED <<threads_, running_, producer, submitted, task, pool>>
  BY DEF Take
<1>2. /\ Len(queue_) \in Nat /\ maxQueueSize_ \in Nat /\ Workers \subseteq 1..MaxThreads
      /\ IsFiniteSet(Coming) /\ Cardinality(Coming) \in Nat
      /\ IsFiniteSet(Woken) /\ Cardinality(Woken) \in Nat
      /\ w \in 1..MaxThreads /\ Workers' = Workers
  BY <1>1, PoolSets DEF PoolInv, Workers
<1>3. /\ worker \in [1..MaxThreads ->
                       {"none", "created", "test", "take", "waiting", "running", "done"}]
      /\ notFull_ \subseteq Producers /\ notEmpty_ \subseteq Workers
      /\ w \notin notEmpty_ /\ \A v \in notEmpty_ : worker[v] = "waiting"
  BY <1>1 DEF PoolInv, PoolTypeOK, SleepersWait
<1>4. CASE /\ queue_ = <<>> /\ running_
           /\ notEmpty_' = notEmpty_ \cup {w}
           /\ worker' = [worker EXCEPT ![w] = "waiting"]
           /\ UNCHANGED <<queue_, notFull_, ranTasks>>
  <2>1. PoolTypeOK'
    BY <1>1, <1>2, <1>3, <1>4 DEF PoolInv, PoolTypeOK
  <2>2. SleepersWait'
    BY <1>1, <1>2, <1>3, <1>4 DEF PoolInv, SleepersWait
  <2>3. TasksNumbered' /\ TasksTakenOnce'
    BY <1>1, <1>4, TasksKept DEF PoolInv
  <2>4. Len(queue_') <= Cardinality(Coming')
    <3>1. Len(queue_') = 0 /\ Cardinality(Coming') \in Nat
      BY <1>4, <2>1, PoolSetsAfter
    <3> QED
      BY <3>1
  <2>5. notFull_' # {} => maxQueueSize_ <= Len(queue_') + Cardinality(Woken')
    BY <1>1, <1>4, <2>1, MoreWake DEF PoolInv, Woken
  <2> QED
    BY <2>1, <2>2, <2>3, <2>4, <2>5 DEF PoolInv, NobodyOversleeps
<1>5. CASE /\ queue_ = <<>> /\ ~running_
           /\ worker' = [worker EXCEPT ![w] = "test"]
           /\ UNCHANGED <<queue_, conditions, ranTasks>>
  <2>0. UNCHANGED <<notEmpty_, notFull_>>
    BY <1>5 DEF conditions
  <2>1. PoolTypeOK'
    BY <1>1, <1>2, <1>3, <1>5, <2>0 DEF PoolInv, PoolTypeOK
  <2>2. notEmpty_ = {}
    BY <1>5 DEF PoolInv, SleepersWait
  <2>3. SleepersWait'
    BY <1>1, <1>3, <1>5, <2>0, <2>2 DEF PoolInv, SleepersWait
  <2>4. TasksNumbered' /\ TasksTakenOnce'
    BY <1>1, <1>5, TasksKept DEF PoolInv
  <2>5. notFull_' # {} => maxQueueSize_ <= Len(queue_') + Cardinality(Woken')
    BY <1>1, <1>5, <2>0, <2>1, MoreWake DEF PoolInv, Woken
  <2> QED
    BY <2>0, <2>1, <2>2, <2>3, <2>4, <2>5 DEF PoolInv, NobodyOversleeps
<1>6. CASE /\ queue_ # <<>>
           /\ queue_' = Tail(queue_)
           /\ ranTasks' = Append(ranTasks, Head(queue_))
           /\ worker' = [worker EXCEPT ![w] = "running"]
           /\ Room
           /\ UNCHANGED notEmpty_
  <2>1. /\ queue_' \in Seq(1..MaxTasks) /\ ranTasks' \in Seq(1..MaxTasks)
        /\ Len(queue_') = Len(queue_) - 1 /\ Len(queue_) > 0
        /\ TasksNumbered' /\ TasksTakenOnce'
    BY <1>1, <1>6, TaskTaken
  <2>2. \/ maxQueueSize_ = 0 /\ notFull_' = notFull_
        \/ notFull_ = {} /\ notFull_' = {}
        \/ \E p \in notFull_ : notFull_' = notFull_ \ {p}
    BY <1>2, <1>6 DEF Room, Notify
  <2>3. notFull_' \subseteq notFull_
    BY <2>2
  <2>4. PoolTypeOK'
    BY <1>1, <1>2, <1>3, <1>6, <2>1, <2>3 DEF PoolInv, PoolTypeOK
  <2>5. SleepersWait'
    BY <1>1, <1>2, <1>3, <1>6, <2>3 DEF PoolInv, SleepersWait
  <2>6. notEmpty_' # {} => Len(queue_') <= Cardinality(Coming')
    <3>1. w \in Coming
      BY <1>1, <1>3 DEF Coming
    <3>2. Coming' = Coming \ {w}
      BY <1>2, <1>3, <1>6 DEF Coming
    <3>3. Cardinality(Coming') = Cardinality(Coming) - 1
      BY <1>2, <3>1, <3>2, FS_RemoveElement
    <3> QED
      BY <1>2, <1>6, <2>1, <3>3 DEF PoolInv, NobodyOversleeps
  <2>7. notFull_' # {} => maxQueueSize_ <= Len(queue_') + Cardinality(Woken')
    <3> SUFFICES ASSUME notFull_' # {} PROVE maxQueueSize_ <= Len(queue_') + Cardinality(Woken')
      OBVIOUS
    <3>1. Cardinality(Woken') \in Nat
      BY <2>4, PoolSetsAfter
    <3>2. CASE maxQueueSize_ = 0
      <4>1. Len(queue_') \in Nat
        BY <1>2, <2>1
      <4> QED
        BY <3>1, <3>2, <4>1
    <3>3. CASE maxQueueSize_ # 0
      <4>1. PICK p \in notFull_ : notFull_' = notFull_ \ {p}
        BY <2>2, <3>3
      <4>2. p \in Producers /\ producer[p] = "waiting" /\ p \notin Woken
        BY <1>3 DEF PoolInv, SleepersWait, Woken
      <4>3. Woken' = Woken \cup {p}
        BY <1>1, <4>1, <4>2 DEF Woken
      <4>4. Cardinality(Woken') = Cardinality(Woken) + 1
        BY <1>2, <4>2, <4>3, FS_AddElement
      <4>5. maxQueueSize_ <= Len(queue_) + Cardinality(Woken)
        BY <4>1 DEF PoolInv, NobodyOversleeps
      <4> QED
        BY <1>2, <2>1, <4>4, <4>5
    <3> QED
      BY <3>2, <3>3
  <2> QED
    BY <2>1, <2>4, <2>5, <2>6, <2>7 DEF PoolInv, NobodyOversleeps
<1> QED
  BY <1>4, <1>5, <1>6 DEF Take

\* Every step of the pool keeps the invariant.
LEMMA PoolStep == PoolInv /\ [PoolNext]_poolVars => PoolInv'
<1> SUFFICES ASSUME PoolInv, [PoolNext]_poolVars PROVE PoolInv'
  OBVIOUS
<1>0. Workers \subseteq 1..MaxThreads
  BY PoolSets DEF PoolInv
<1>1. ASSUME NEW w \in Workers, CreateThread(w) PROVE PoolInv'
  <2>1. w \in 1..MaxThreads
    BY <1>0
  <2> QED
    BY <1>1, <2>1, WorkerMoves DEF CreateThread, conditions
<1>2. ASSUME NEW w \in Workers, EnterThread(w) PROVE PoolInv'
  <2>1. w \in 1..MaxThreads
    BY <1>0
  <2> QED
    BY <1>2, <2>1, WorkerMoves DEF EnterThread, conditions
<1>3. ASSUME NEW w \in Workers, TestRunning(w) PROVE PoolInv'
  <2>1. w \in 1..MaxThreads
    BY <1>0
  <2>2. CASE running_
    BY <1>3, <2>1, <2>2, WorkerMoves DEF TestRunning, conditions
  <2>3. CASE ~running_
    BY <1>3, <2>1, <2>3, WorkerMoves DEF TestRunning, conditions
  <2> QED
    BY <2>2, <2>3
<1>4. ASSUME NEW w \in Workers, TaskEnds(w) PROVE PoolInv'
  <2>1. w \in 1..MaxThreads
    BY <1>0
  <2> QED
    BY <1>4, <2>1, WorkerMoves DEF TaskEnds, conditions
<1>5. CASE StartReturns \/ JoinWorkers \/ UNCHANGED poolVars
  <2>1. /\ UNCHANGED <<threads_, queue_, running_, notEmpty_, notFull_, worker, producer,
                       submitted, task, ranTasks>>
        /\ pool' \in {"starting", "started", "stopping", "stopped"}
    BY <1>5 DEF StartReturns, JoinWorkers, conditions, poolVars, PoolInv, PoolTypeOK
  <2>2. PoolTypeOK' /\ SleepersWait'
    BY <2>1 DEF PoolInv, PoolTypeOK, SleepersWait, Workers
  <2>3. TasksNumbered' /\ TasksTakenOnce'
    BY <2>1, TasksKept DEF PoolInv
  <2>4. NobodyOversleeps'
    BY <2>1 DEF PoolInv, NobodyOversleeps, Coming, Woken, Workers
  <2> QED
    BY <2>2, <2>3, <2>4 DEF PoolInv
<1>6. CASE SpuriousWakeup
  <2>1. /\ UNCHANGED <<threads_, queue_, running_, worker, producer, submitted, task, pool, ranTasks>>
        /\ notEmpty_' \subseteq notEmpty_ /\ notFull_' \subseteq notFull_
    BY <1>6 DEF SpuriousWakeup
  <2>2. PoolTypeOK' /\ SleepersWait'
    BY <2>1 DEF PoolInv, PoolTypeOK, SleepersWait, Workers
  <2>3. TasksNumbered' /\ TasksTakenOnce'
    BY <2>1, TasksKept DEF PoolInv
  <2>4. Coming \subseteq Coming' /\ Woken \subseteq Woken'
    BY <2>1 DEF Coming, Woken, Workers
  <2>5. NobodyOversleeps'
    BY <2>1, <2>2, <2>4, MoreCome, MoreWake DEF PoolInv, NobodyOversleeps
  <2> QED
    BY <2>2, <2>3, <2>5 DEF PoolInv
<1>7. CASE Stop
  <2>1. /\ UNCHANGED <<threads_, queue_, notFull_, worker, producer, submitted, task, ranTasks>>
        /\ notEmpty_' = {} /\ running_' = FALSE /\ pool' = "stopping"
    BY <1>7 DEF Stop, WakeWorkers
  <2>2. PoolTypeOK' /\ SleepersWait'
    BY <2>1 DEF PoolInv, PoolTypeOK, SleepersWait, Workers
  <2>3. TasksNumbered' /\ TasksTakenOnce'
    BY <2>1, TasksKept DEF PoolInv
  <2>4. NobodyOversleeps'
    BY <2>1 DEF PoolInv, NobodyOversleeps, Woken
  <2> QED
    BY <2>2, <2>3, <2>4 DEF PoolInv
<1> QED
  BY <1>1, <1>2, <1>3, <1>4, <1>5, <1>6, <1>7, CallRunStep, RunHereStep, RunStep, TakeStep
     DEF PoolNext

\* For any number of threads, producers, tasks and places in the queue, and with spurious
\* wakeups anywhere: notify() wakes as many as there is work for.
THEOREM NobodyOversleepsEver == PoolSpec => []NobodyOversleeps
<1>1. PoolInv => NobodyOversleeps
  BY DEF PoolInv
<1> QED
  BY <1>1, PoolInitially, PoolStep, PTL DEF PoolSpec

\* For the same pools: no task is lost or taken twice, and the queue keeps its bound.
THEOREM TasksAreTakenOnce == PoolSpec => []TasksTakenOnce
<1>1. PoolInv => TasksTakenOnce
  BY DEF PoolInv
<1> QED
  BY <1>1, PoolInitially, PoolStep, PTL DEF PoolSpec

-----------------------------------------------------------------------------
(* AsyncLogging: pieces of the log *)

Pos == Nat \ {0}

\* The lines of a piece that another follows.
LEMMA JoinedPieces ==
  ASSUME NEW s \in Seq(Nat), NEW t \in Seq(Nat)
  PROVE  /\ s \o t \in Seq(Nat)
         /\ LinesOf(s \o t) = LinesOf(s) \cup LinesOf(t)
         /\ Rising(s) /\ Rising(t) /\ Before(LinesOf(s), LinesOf(t)) => Rising(s \o t)
<1> DEFINE j == s \o t
<1>1. /\ j \in Seq(Nat) /\ Len(s) \in Nat /\ Len(t) \in Nat /\ Len(j) = Len(s) + Len(t)
      /\ DOMAIN s = 1..Len(s) /\ DOMAIN t = 1..Len(t) /\ DOMAIN j = 1..Len(j)
      /\ \A i \in 1..(Len(s) + Len(t)) : j[i] = IF i <= Len(s) THEN s[i] ELSE t[i - Len(s)]
  BY LenProperties, ConcatProperties
<1>2. \A i \in DOMAIN s : i \in DOMAIN j /\ j[i] = s[i]
  BY <1>1
<1>3. \A i \in DOMAIN t : i + Len(s) \in DOMAIN j /\ j[i + Len(s)] = t[i]
  BY <1>1, SMTT(20)
<1>4. \A i \in DOMAIN j : i \in DOMAIN s \/ (i - Len(s) \in DOMAIN t /\ j[i] = t[i - Len(s)])
  BY <1>1
<1> HIDE DEF j
<1>5. LinesOf(j) = LinesOf(s) \cup LinesOf(t)
  <2>1. ToSet(j) = ToSet(s) \cup ToSet(t)
    <3>1. ToSet(j) \subseteq ToSet(s) \cup ToSet(t)
      BY <1>2, <1>4 DEF ToSet
    <3>2. ToSet(s) \subseteq ToSet(j)
      BY <1>2 DEF ToSet
    <3>3. ToSet(t) \subseteq ToSet(j)
      BY <1>3 DEF ToSet
    <3> QED
      BY <3>1, <3>2, <3>3
  <2> QED
    BY <2>1 DEF LinesOf
<1>6. ASSUME Rising(s), Rising(t), Before(LinesOf(s), LinesOf(t)),
             NEW a \in DOMAIN j, NEW b \in DOMAIN j, a < b, Dropped \notin {j[a], j[b]}
      PROVE  j[a] < j[b]
  <2>1. CASE b \in DOMAIN s
    <3>1. a \in DOMAIN s
      BY <1>1, <1>6, <2>1
    <3> QED
      BY <1>2, <1>6, <2>1, <3>1 DEF Rising
  <2>2. CASE a \in DOMAIN s /\ b \notin DOMAIN s
    <3>1. j[a] \in LinesOf(s) /\ j[b] \in LinesOf(t)
      BY <1>2, <1>4, <1>6, <2>2 DEF LinesOf, ToSet
    <3> QED
      BY <1>6, <3>1 DEF Before
  <2>3. CASE a \notin DOMAIN s /\ b \notin DOMAIN s
    <3>1. /\ a - Len(s) \in DOMAIN t /\ b - Len(s) \in DOMAIN t /\ a - Len(s) < b - Len(s)
          /\ j[a] = t[a - Len(s)] /\ j[b] = t[b - Len(s)]
      BY <1>1, <1>4, <1>6, <2>3
    <3> QED
      BY <1>6, <3>1, Zenon DEF Rising
  <2> QED
    BY <2>1, <2>2, <2>3
<1> QED
  BY <1>1, <1>5, <1>6 DEF j, Rising

\* A line at the end of a piece.
LEMMA AppendedLine ==
  ASSUME NEW s \in Seq(Nat), NEW x \in Nat
  PROVE  /\ Append(s, x) \in Seq(Nat)
         /\ LinesOf(Append(s, x)) = LinesOf(s) \cup ({x} \ {Dropped})
         /\ Rising(s) /\ Before(LinesOf(s), {x}) => Rising(Append(s, x))
<1>1. Append(s, x) = s \o <<x>>
  OBVIOUS
<1>2. <<x>> \in Seq(Nat) /\ Rising(<<x>>) /\ LinesOf(<<x>>) = {x} \ {Dropped}
  BY DEF Rising, LinesOf, ToSet
<1>3. Before(LinesOf(s), {x}) => Before(LinesOf(s), LinesOf(<<x>>))
  BY <1>2 DEF Before
<1> QED
  BY <1>1, <1>2, <1>3, JoinedPieces

\* A piece at the end of the others, as push_back() puts it there.
LEMMA PushedPiece ==
  ASSUME NEW S \in SUBSET Nat, NEW p \in Seq(Seq(S)), NEW s \in Seq(S)
  PROVE  /\ Append(p, s) \in Seq(Seq(S))
         /\ AllLines(Append(p, s)) = AllLines(p) \cup LinesOf(s)
         /\ AllRising(p) /\ Rising(s) /\ Before(AllLines(p), LinesOf(s)) => AllRising(Append(p, s))
<1> DEFINE q == Append(p, s)
<1>1. /\ q \in Seq(Seq(S)) /\ Len(p) \in Nat /\ DOMAIN p = 1..Len(p) /\ DOMAIN q = 1..(Len(p) + 1)
      /\ \A i \in DOMAIN p : q[i] = p[i]
      /\ q[Len(p) + 1] = s
  BY LenProperties, AppendProperties
<1>2. \A i \in DOMAIN q : i \in DOMAIN p \/ i = Len(p) + 1
  BY <1>1
<1> HIDE DEF q
<1>3. AllLines(q) = AllLines(p) \cup LinesOf(s)
  <2>1. AllLines(q) \subseteq AllLines(p) \cup LinesOf(s)
    BY <1>1, <1>2 DEF AllLines
  <2>2. AllLines(p) \subseteq AllLines(q)
    BY <1>1 DEF AllLines
  <2>3. LinesOf(s) \subseteq AllLines(q)
    <3>1. Len(p) + 1 \in DOMAIN q
      BY <1>1
    <3> QED
      BY <1>1, <3>1, Zenon DEF AllLines
  <2> QED
    BY <2>1, <2>2, <2>3
<1>4. ASSUME AllRising(p), Rising(s), Before(AllLines(p), LinesOf(s)) PROVE AllRising(q)
  <2>1. \A i \in DOMAIN q : Rising(q[i])
    BY <1>1, <1>2, <1>4 DEF AllRising
  <2>2. ASSUME NEW i \in DOMAIN q, NEW j \in DOMAIN q, i < j
        PROVE  Before(LinesOf(q[i]), LinesOf(q[j]))
    <3>1. i \in DOMAIN p
      BY <1>1, <2>2
    <3>2. CASE j \in DOMAIN p
      BY <1>1, <1>4, <2>2, <3>1, <3>2 DEF AllRising
    <3>3. CASE j = Len(p) + 1
      BY <1>1, <1>4, <3>1, <3>3 DEF AllLines, Before
    <3> QED
      BY <1>2, <3>2, <3>3
  <2> QED
    BY <2>1, <2>2 DEF AllRising
<1> QED
  BY <1>1, <1>3, <1>4 DEF q

\* The first piece leaves the others.
LEMMA PoppedPiece ==
  ASSUME NEW S \in SUBSET Nat, NEW p \in Seq(Seq(S)), p # <<>>
  PROVE  /\ Tail(p) \in Seq(Seq(S)) /\ Head(p) \in Seq(S)
         /\ AllLines(p) = LinesOf(Head(p)) \cup AllLines(Tail(p))
         /\ AllRising(p) => /\ Rising(Head(p)) /\ AllRising(Tail(p))
                            /\ Before(LinesOf(Head(p)), AllLines(Tail(p)))
<1> DEFINE q == Tail(p)
<1>1. /\ q \in Seq(Seq(S)) /\ Len(p) \in Nat /\ Len(p) > 0 /\ DOMAIN p = 1..Len(p)
      /\ DOMAIN q = 1..(Len(p) - 1) /\ Head(p) = p[1] /\ Head(p) \in Seq(S)
      /\ \A i \in 1..(Len(p) - 1) : q[i] = p[i + 1]
  <2>1. Len(p) \in Nat /\ Len(p) # 0 /\ DOMAIN p = 1..Len(p)
    BY LenProperties, EmptySeq
  <2>2. q \in Seq(Seq(S)) /\ Len(q) = Len(p) - 1 /\ \A i \in 1..Len(q) : q[i] = p[i + 1]
    BY <2>1, HeadTailProperties
  <2>3. DOMAIN q = 1..Len(q)
    BY <2>2, LenProperties
  <2>4. Head(p) = p[1] /\ Head(p) \in Seq(S)
    BY HeadTailProperties
  <2> QED
    BY <2>1, <2>2, <2>3, <2>4
<1>2. \A i \in DOMAIN q : i + 1 \in DOMAIN p /\ q[i] = p[i + 1]
  BY <1>1
<1>3. \A i \in DOMAIN p : i = 1 \/ (i - 1 \in DOMAIN q /\ p[i] = q[i - 1])
  BY <1>1
<1>4. 1 \in DOMAIN p /\ \A i \in DOMAIN q : i \in Nat
  BY <1>1
<1> HIDE DEF q
<1>5. AllLines(p) = LinesOf(Head(p)) \cup AllLines(q)
  <2>1. AllLines(p) \subseteq LinesOf(Head(p)) \cup AllLines(q)
    BY <1>1, <1>3 DEF AllLines
  <2>2. AllLines(q) \subseteq AllLines(p)
    BY <1>2 DEF AllLines
  <2>3. LinesOf(Head(p)) \subseteq AllLines(p)
    BY <1>1, <1>4 DEF AllLines
  <2> QED
    BY <2>1, <2>2, <2>3
<1>6. ASSUME AllRising(p)
      PROVE  Rising(Head(p)) /\ AllRising(q) /\ Before(LinesOf(Head(p)), AllLines(q))
  <2>1. Rising(Head(p)) /\ \A i \in DOMAIN q : Rising(q[i])
    BY <1>1, <1>2, <1>4, <1>6 DEF AllRising
  <2>2. ASSUME NEW i \in DOMAIN q, NEW j \in DOMAIN q, i < j
        PROVE  Before(LinesOf(q[i]), LinesOf(q[j]))
    <3>1. i + 1 \in DOMAIN p /\ j + 1 \in DOMAIN p /\ i + 1 < j + 1
      BY <1>2, <1>4, <2>2
    <3> QED
      BY <1>2, <1>6, <3>1, Zenon DEF AllRising
  <2>3. ASSUME NEW i \in DOMAIN q PROVE Before(LinesOf(Head(p)), LinesOf(q[i]))
    <3>1. i + 1 \in DOMAIN p /\ 1 < i + 1
      BY <1>1
    <3> QED
      BY <1>1, <1>2, <1>4, <1>6, <3>1, Zenon DEF AllRising
  <2> QED
    BY <2>1, <2>2, <2>3 DEF AllRising, AllLines, Before
<1> QED
  BY <1>1, <1>5, <1>6 DEF q

\* The first two pieces, and those behind them.
LEMMA FirstTwoPieces ==
  ASSUME NEW S \in SUBSET Nat, NEW p \in Seq(Seq(S)), Len(p) > 1, AllRising(p)
  PROVE  LET q == SubSeq(p, 1, 2)
             rest == UNION {LinesOf(p[i]) : i \in 3..Len(p)}
         IN  /\ q \in Seq(Seq(S)) /\ Len(q) = 2 /\ AllRising(q)
             /\ AllLines(p) = AllLines(q) \cup rest
             /\ Before(AllLines(q), rest)
<1> DEFINE q == SubSeq(p, 1, 2)
           rest == UNION {LinesOf(p[i]) : i \in 3..Len(p)}
<1>1. /\ q \in Seq(Seq(S)) /\ Len(q) = 2 /\ Len(p) \in Nat /\ DOMAIN p = 1..Len(p)
      /\ DOMAIN q = 1..2 /\ \A i \in 1..2 : q[i] = p[i]
  <2>1. Len(p) \in Nat /\ DOMAIN p = 1..Len(p)
    BY LenProperties
  <2>2. q \in Seq(Seq(S)) /\ Len(q) = 2 /\ \A i \in 1..2 : q[i] = p[1 + i - 1]
    BY <2>1, SubSeqProperties
  <2>3. DOMAIN q = 1..2
    BY <2>2, LenProperties
  <2> QED
    BY <2>1, <2>2, <2>3
<1>2. \A i \in DOMAIN p : i \in 1..2 \/ i \in 3..Len(p)
  BY <1>1
<1>3. /\ 1..2 \subseteq DOMAIN p /\ 3..Len(p) \subseteq DOMAIN p
      /\ \A i \in 1..2, j \in 3..Len(p) : i < j
  BY <1>1
<1> HIDE DEF q
<1>4. AllLines(p) = AllLines(q) \cup rest
  <2>1. AllLines(p) \subseteq AllLines(q) \cup rest
    <3>1. \A x \in AllLines(p) : \E i \in DOMAIN p : x \in LinesOf(p[i])
      BY DEF AllLines
    <3>2. \A i \in DOMAIN q : \A x : x \in LinesOf(q[i]) => x \in AllLines(q)
      BY DEF AllLines
    <3>3. \A i \in 3..Len(p) : \A x : x \in LinesOf(p[i]) => x \in rest
      OBVIOUS
    <3> HIDE DEF rest
    <3> QED
      BY <1>1, <1>2, <3>1, <3>2, <3>3
  <2>2. AllLines(q) \subseteq AllLines(p)
    <3>1. \A i \in DOMAIN q : i \in DOMAIN p /\ q[i] = p[i]
      BY <1>1, <1>3
    <3> QED
      BY <3>1, Zenon DEF AllLines
  <2>3. rest \subseteq AllLines(p)
    BY <1>3 DEF AllLines
  <2> QED
    BY <2>1, <2>2, <2>3
<1>5. AllRising(q)
  BY <1>1, <1>3 DEF AllRising
<1>6. Before(AllLines(q), rest)
  <2> SUFFICES ASSUME NEW i \in DOMAIN q, NEW j \in 3..Len(p),
                      NEW x \in LinesOf(q[i]), NEW y \in LinesOf(p[j])
               PROVE  x < y
    BY DEF AllLines, Before
  <2>1. i \in DOMAIN p /\ j \in DOMAIN p /\ i < j /\ q[i] = p[i]
    BY <1>1, <1>3
  <2> QED
    BY <2>1, Zenon DEF AllRising, Before
<1> QED
  BY <1>1, <1>4, <1>5, <1>6 DEF q

\* Of n files, q has s at the end of file t, the last one that is not empty in p.
Grown(p, q, n, t, s) ==
  /\ n \in Nat /\ t \in 1..n /\ s \in Seq(Nat)
  /\ DOMAIN p = 1..n /\ \A i \in 1..n : p[i] \in Seq(Nat)
  /\ \A i \in 1..n : i > t => p[i] = <<>>
  /\ DOMAIN q = 1..n /\ q[t] = p[t] \o s /\ \A i \in 1..n : i # t => q[i] = p[i]

\* A piece that grows at its end while all behind it are empty, as the last file does.
LEMMA GrownPiece ==
  ASSUME NEW p, NEW q, NEW n, NEW t, NEW s, Grown(p, q, n, t, s),
         AllRising(p), Rising(s), Before(AllLines(p), LinesOf(s))
  PROVE  AllRising(q) /\ AllLines(q) = AllLines(p) \cup LinesOf(s)
<1>0. /\ n \in Nat /\ t \in 1..n /\ s \in Seq(Nat)
      /\ DOMAIN p = 1..n /\ \A i \in 1..n : p[i] \in Seq(Nat)
      /\ \A i \in 1..n : i > t => p[i] = <<>>
      /\ DOMAIN q = 1..n /\ q[t] = p[t] \o s /\ \A i \in 1..n : i # t => q[i] = p[i]
  BY DEF Grown
<1>1. /\ p[t] \in Seq(Nat) /\ p[t] \o s \in Seq(Nat) /\ DOMAIN p = 1..n /\ DOMAIN q = 1..n
      /\ q[t] = p[t] \o s /\ \A i \in 1..n : i # t => q[i] = p[i]
  BY <1>0, JoinedPieces
<1>2. Rising(p[t]) /\ Before(LinesOf(p[t]), LinesOf(s)) /\ LinesOf(p[t]) \subseteq AllLines(p)
  BY <1>0, <1>1 DEF AllRising, AllLines, Before
<1>3. Rising(q[t]) /\ LinesOf(q[t]) = LinesOf(p[t]) \cup LinesOf(s)
  BY <1>0, <1>1, <1>2, JoinedPieces
<1>4. LinesOf(<<>>) = {}
  BY DEF LinesOf, ToSet
<1>5. AllLines(q) = AllLines(p) \cup LinesOf(s)
  <2>1. AllLines(q) \subseteq AllLines(p) \cup LinesOf(s)
    BY <1>0, <1>1, <1>3 DEF AllLines
  <2>2. AllLines(p) \subseteq AllLines(q) /\ LinesOf(s) \subseteq AllLines(q)
    BY <1>0, <1>1, <1>3 DEF AllLines
  <2> QED
    BY <2>1, <2>2
<1>6. \A i \in 1..n : Rising(q[i])
  BY <1>0, <1>1, <1>3 DEF AllRising
<1>7. ASSUME NEW i \in 1..n, NEW j \in 1..n, i < j
      PROVE  Before(LinesOf(q[i]), LinesOf(q[j]))
  <2>1. CASE j > t
    <3>1. j # t
      BY <1>0, <2>1
    <3>2. q[j] = <<>>
      BY <1>0, <1>1, <2>1, <3>1
    <3> QED
      BY <1>4, <3>2 DEF Before
  <2>2. CASE j = t
    <3>0. i # t /\ i < t
      BY <1>0, <1>7, <2>2
    <3>1. q[i] = p[i] /\ Before(LinesOf(p[i]), LinesOf(p[t]))
      BY <1>0, <1>1, <3>0 DEF AllRising
    <3>2. LinesOf(p[i]) \subseteq AllLines(p)
      BY <1>0, <1>1 DEF AllLines
    <3> QED
      BY <1>3, <2>2, <3>1, <3>2 DEF Before
  <2>3. CASE j < t
    <3>1. i # t /\ j # t
      BY <1>0, <1>7, <2>3
    <3>2. q[i] = p[i] /\ q[j] = p[j]
      BY <1>0, <1>1, <3>1
    <3> QED
      BY <1>0, <1>1, <1>7, <3>2 DEF AllRising
  <2>4. j > t \/ j = t \/ j < t
    BY <1>0
  <2> QED
    BY <2>1, <2>2, <2>3, <2>4
<1> QED
  BY <1>0, <1>1, <1>5, <1>6, <1>7 DEF AllRising

-----------------------------------------------------------------------------
(* The files *)

FileFields == {"disk", "file_", "writtenBytes_", "count_", "startOfPeriod_", "lastRoll_",
               "lastFlush_", "flushed"}

\* The file that is open is the last one that has a name, and nothing is behind it.
FileOK(f) ==
  /\ f = [x \in FileFields |-> f[x]]
  /\ f.disk \in [0..MaxTime -> Seq(Nat)]
  /\ f.file_ \in 1..MaxTime /\ f.lastRoll_ = f.file_
  /\ \A t \in 1..MaxTime : t > f.file_ => f.disk[t] = <<>>

\* rollFile() opens a file with a later name, or keeps the one it has.
LEMMA RolledFile ==
  ASSUME NEW f, FileOK(f), now \in 1..MaxTime
  PROVE  FileOK(rollFile(f)) /\ rollFile(f).disk = f.disk
<1>1. CASE CanRoll(f)
  <2> DEFINE g == [f EXCEPT !.lastRoll_ = now, !.lastFlush_ = now,
                            !.startOfPeriod_ = PeriodOf(now),
                            !.file_ = now, !.writtenBytes_ = 0, !.flushed = TRUE]
  <2>1. rollFile(f) = g
    BY <1>1 DEF rollFile
  <2>2. DOMAIN f = FileFields
    BY DEF FileOK
  <2>3. g = [x \in FileFields |-> g[x]] /\ g.disk = f.disk /\ g.file_ = now /\ g.lastRoll_ = now
    BY <2>2 DEF FileFields
  <2> HIDE DEF g
  <2>4. now > f.file_
    BY <1>1 DEF CanRoll, FileOK
  <2>5. \A t \in 1..MaxTime : t > now => g.disk[t] = <<>>
    BY <2>3, <2>4, LogBounds DEF FileOK
  <2> QED
    BY <2>1, <2>3, <2>5 DEF FileOK
<1>2. CASE ~CanRoll(f)
  BY <1>2 DEF rollFile
<1> QED
  BY <1>1, <1>2

\* What AppendFile::append() does to the files.
Written(f, lines, fails) ==
  [f.disk EXCEPT ![f.file_] = IF fails THEN @ ELSE @ \o lines]

\* LogFile::append() writes to the file that is open, and may open another afterwards.
LEMMA AppendedFile ==
  ASSUME NEW f, FileOK(f), now \in 1..MaxTime, NEW lines \in Seq(Nat), NEW fails \in BOOLEAN
  PROVE  LET g == append_unlocked(f, lines, fails)
         IN  FileOK(g) /\ g.disk = Written(f, lines, fails)
<1> DEFINE g == WriteLines(f, lines, fails)
           d == Written(f, lines, fails)
<1>1. FileOK(g) /\ g.disk = d
  <2>1. DOMAIN f = FileFields
    BY DEF FileOK
  <2>2. /\ g = [x \in FileFields |-> g[x]] /\ g.disk = d
        /\ g.file_ = f.file_ /\ g.lastRoll_ = f.lastRoll_
    <3>1. g = [f EXCEPT !.disk = d, !.writtenBytes_ = @ + Size(lines), !.flushed = FALSE]
      BY <2>1 DEF FileFields, WriteLines, Written
    <3> HIDE DEF g, d
    <3> QED
      BY <2>1, <3>1 DEF FileFields
  <2> HIDE DEF g
  <2>3. f.disk[f.file_] \o lines \in Seq(Nat)
    BY LogBounds, JoinedPieces DEF FileOK
  <2>4. d \in [0..MaxTime -> Seq(Nat)] /\ \A t \in 1..MaxTime : t # f.file_ => d[t] = f.disk[t]
    BY <2>3, LogBounds DEF FileOK, Written
  <2> HIDE DEF d
  <2>5. \A t \in 1..MaxTime : t > g.file_ => g.disk[t] = <<>>
    <3>1. ASSUME NEW t \in 1..MaxTime, t > f.file_ PROVE d[t] = <<>>
      <4>1. t # f.file_
        BY <3>1, LogBounds DEF FileOK
      <4> QED
        BY <2>4, <3>1, <4>1 DEF FileOK
    <3> QED
      BY <2>2, <3>1
  <2>6. f.file_ \in 1..MaxTime /\ f.lastRoll_ = f.file_
    BY DEF FileOK
  <2> QED
    BY <2>2, <2>4, <2>5, <2>6 DEF FileOK
<1> DEFINE h == [g EXCEPT !.count_ = 0]
           i == [g EXCEPT !.count_ = @ + 1]
           k == [h EXCEPT !.lastFlush_ = now, !.flushed = TRUE]
<1>2. append_unlocked(f, lines, fails) \in {rollFile(g), i, rollFile(h), k, h}
  BY DEF append_unlocked
<1> HIDE DEF g, d
<1>3. DOMAIN g = FileFields
  BY <1>1 DEF FileOK
<1>4. FileOK(h) /\ h.disk = d
  <2>1. h = [x \in FileFields |-> h[x]] /\ h.disk = g.disk /\ h.file_ = g.file_ /\ h.lastRoll_ = g.lastRoll_
    BY <1>3 DEF FileFields
  <2> HIDE DEF h
  <2> QED
    BY <1>1, <2>1 DEF FileOK
<1>5. FileOK(i) /\ i.disk = d
  <2>1. i = [x \in FileFields |-> i[x]] /\ i.disk = g.disk /\ i.file_ = g.file_ /\ i.lastRoll_ = g.lastRoll_
    BY <1>3 DEF FileFields
  <2> HIDE DEF i
  <2> QED
    BY <1>1, <2>1 DEF FileOK
<1> HIDE DEF h, i
<1>6. FileOK(k) /\ k.disk = d
  <2>0. DOMAIN h = FileFields
    BY <1>4 DEF FileOK
  <2>1. k = [x \in FileFields |-> k[x]] /\ k.disk = h.disk /\ k.file_ = h.file_ /\ k.lastRoll_ = h.lastRoll_
    BY <2>0 DEF FileFields
  <2> HIDE DEF k
  <2> QED
    BY <1>4, <2>1 DEF FileOK
<1> HIDE DEF k
<1>7. /\ FileOK(rollFile(g)) /\ rollFile(g).disk = d
      /\ FileOK(rollFile(h)) /\ rollFile(h).disk = d
  BY <1>1, <1>4, RolledFile
<1> QED
  BY <1>2, <1>1, <1>4, <1>5, <1>6, <1>7 DEF d

\* The LogFile that threadFunc() makes.
LEMMA MadeFile ==
  ASSUME now \in 1..MaxTime
  PROVE  FileOK(NewLogFile) /\ NewLogFile.disk = [t \in 0..MaxTime |-> <<>>]
<1> DEFINE f == [disk |-> [t \in 0..MaxTime |-> <<>>], file_ |-> 0, writtenBytes_ |-> 0,
                 count_ |-> 0, startOfPeriod_ |-> 0, lastRoll_ |-> 0, lastFlush_ |-> 0,
                 flushed |-> TRUE]
           g == [f EXCEPT !.lastRoll_ = now, !.lastFlush_ = now, !.startOfPeriod_ = PeriodOf(now),
                          !.file_ = now, !.writtenBytes_ = 0, !.flushed = TRUE]
<1>1. DOMAIN f = FileFields /\ f.disk = [t \in 0..MaxTime |-> <<>>] /\ f.lastRoll_ = 0
  BY DEF FileFields
<1>2. NewLogFile = rollFile(f)
  BY DEF NewLogFile
<1> HIDE DEF f
<1>3. NewLogFile = g
  BY <1>1, <1>2, LogBounds DEF rollFile, CanRoll
<1>4. g = [x \in FileFields |-> g[x]] /\ g.disk = f.disk /\ g.file_ = now /\ g.lastRoll_ = now
  BY <1>1 DEF FileFields
<1> HIDE DEF g
<1>5. g.disk \in [0..MaxTime -> Seq(Nat)] /\ \A t \in 1..MaxTime : g.disk[t] = <<>>
  BY <1>1, <1>4, LogBounds
<1> QED
  BY <1>1, <1>3, <1>4, <1>5 DEF FileOK

-----------------------------------------------------------------------------
(* The invariant *)

DiskFiles == [t \in 1..MaxTime |-> output.disk[t]]
Writing == IF writer = "drop" THEN buffersToWrite ELSE unwritten

LogTyped ==
  /\ lineSizes \in Seq(LineSizes) /\ lost \subseteq DOMAIN lineSizes
  /\ currentBuffer_ \in Seq(Pos)
  /\ buffers_ \in Seq(Seq(Pos)) /\ buffersToWrite \in Seq(Seq(Pos)) /\ unwritten \in Seq(Seq(Pos))
  /\ nextBuffer_ \in {NoBuffer, <<>>}
  /\ newBuffer1 \in {NoBuffer, <<>>} /\ newBuffer2 \in {NoBuffer, <<>>}
  /\ now \in 1..MaxTime
  /\ FileOK(output)

\* What the writer has at each place, and that nextBuffer_ is missing only after append()
\* has put a buffer into buffers_.
WriterAgrees ==
  /\ owner = "new" => writer = "none"
  /\ owner = "started" => writer \notin {"none", "entered"}
  /\ writer = "entered" => logRunning_
  /\ writer \in {"none", "entered"} => \A t \in 1..MaxTime : output.disk[t] = <<>>
  /\ writer \notin {"drop", "write"} => buffersToWrite = <<>>
  /\ writer # "write" => unwritten = <<>>
  /\ writer \in {"test", "lock", "wait"} => newBuffer1 = <<>> /\ newBuffer2 = <<>>
  /\ writer \in {"drop", "write"} => /\ buffersToWrite # <<>>
                                     /\ newBuffer2 = NoBuffer => Len(buffersToWrite) > 1
  /\ nextBuffer_ = NoBuffer => buffers_ # <<>>

\* Four sets of lines, each before the next.
Chain(D, W, B, C) ==
  /\ Before(D, W) /\ Before(D, B) /\ Before(D, C)
  /\ Before(W, B) /\ Before(W, C)
  /\ Before(B, C)

PartsRise ==
  AllRising(DiskFiles) /\ AllRising(Writing) /\ AllRising(buffers_) /\ Rising(currentBuffer_)

PartsChain ==
  /\ Chain(AllLines(DiskFiles), AllLines(Writing), AllLines(buffers_), LinesOf(currentBuffer_))
  /\ AllLines(DiskFiles) \cup AllLines(Writing) \cup AllLines(buffers_) \cup LinesOf(currentBuffer_)
       = DOMAIN lineSizes \ lost

LogInv == LogTyped /\ WriterAgrees /\ PartsRise /\ PartsChain

\* LogIsWhole, part by part.
LEMMA WholeByParts ==
  ASSUME PartsRise, PartsChain
  PROVE  LogIsWhole
<1>1. /\ DOMAIN Log = 1..4 /\ Log[1] = DiskFiles /\ Log[2] = Writing /\ Log[3] = buffers_
      /\ Log[4] = <<currentBuffer_>>
  BY DEF Log, DiskFiles, Writing
<1>2. /\ AllRising(<<currentBuffer_>>)
      /\ AllLines(<<currentBuffer_>>) = LinesOf(currentBuffer_)
  <2>1. DOMAIN <<currentBuffer_>> = {1} /\ <<currentBuffer_>>[1] = currentBuffer_
    OBVIOUS
  <2> DEFINE p == <<currentBuffer_>>
  <2> HIDE DEF p
  <2>2. DOMAIN p = {1} /\ p[1] = currentBuffer_
    BY <2>1 DEF p
  <2>3. AllRising(p)
    BY <2>2 DEF AllRising, PartsRise
  <2>4. AllLines(p) = LinesOf(currentBuffer_)
    BY <2>2 DEF AllLines
  <2> QED
    BY <2>3, <2>4 DEF p
<1> DEFINE L == Log
<1> HIDE DEF L
<1>3. /\ DOMAIN L = 1..4 /\ L[1] = DiskFiles /\ L[2] = Writing /\ L[3] = buffers_
      /\ AllRising(L[4]) /\ AllLines(L[4]) = LinesOf(currentBuffer_)
  BY <1>1, <1>2 DEF L
<1>4. \A a \in DOMAIN L : AllRising(L[a])
  BY <1>3 DEF PartsRise
<1>5. \A a, b \in DOMAIN L : a < b => Before(AllLines(L[a]), AllLines(L[b]))
  BY <1>3 DEF PartsChain, Chain
<1>6. UNION {AllLines(L[a]) : a \in DOMAIN L} = DOMAIN lineSizes \ lost
  <2>1. UNION {AllLines(L[a]) : a \in DOMAIN L}
          = AllLines(L[1]) \cup AllLines(L[2]) \cup AllLines(L[3]) \cup AllLines(L[4])
    BY <1>3
  <2> QED
    BY <1>3, <2>1 DEF PartsChain
<1> QED
  BY <1>4, <1>5, <1>6 DEF L, LogIsWhole

\* Empty buffers and files hold nothing, and nothing out of order.
LEMMA EmptyPieces ==
  /\ LinesOf(<<>>) = {} /\ Rising(<<>>) /\ AllLines(<<>>) = {} /\ AllRising(<<>>)
  /\ \A n \in Nat : \A p : DOMAIN p = 1..n /\ (\A t \in 1..n : p[t] = <<>>)
       => AllLines(p) = {} /\ AllRising(p)
<1>1. LinesOf(<<>>) = {} /\ Rising(<<>>)
  BY DEF LinesOf, ToSet, Rising
<1>2. AllLines(<<>>) = {} /\ AllRising(<<>>)
  BY DEF AllLines, AllRising
<1>3. ASSUME NEW n \in Nat, NEW p, DOMAIN p = 1..n, \A t \in 1..n : p[t] = <<>>
      PROVE  AllLines(p) = {} /\ AllRising(p)
  BY <1>1, <1>3 DEF AllLines, AllRising, Before
<1> QED
  BY <1>1, <1>2, <1>3

\* The invariant holds when the AsyncLogging has been made.
LEMMA LogInitially == LogInit => LogInv
<1> SUFFICES ASSUME LogInit PROVE LogInv
  OBVIOUS
<1>1. now \in 1..MaxTime
  BY DEF LogInit
<1>2. FileOK(output) /\ output.disk = [t \in 0..MaxTime |-> <<>>]
  BY <1>1, MadeFile DEF LogInit
<1>3. LogTyped
  BY <1>1, <1>2 DEF LogInit, LogTyped
<1>4. \A t \in 1..MaxTime : output.disk[t] = <<>>
  BY <1>2, LogBounds
<1>5. WriterAgrees
  BY <1>4, LogBounds DEF LogInit, WriterAgrees
<1>6. AllLines(DiskFiles) = {} /\ AllRising(DiskFiles)
  <2>1. DOMAIN DiskFiles = 1..MaxTime /\ \A t \in 1..MaxTime : DiskFiles[t] = <<>>
    BY <1>4 DEF DiskFiles
  <2> QED
    BY <2>1, EmptyPieces, LogBounds
<1>7. Writing = <<>> /\ buffers_ = <<>> /\ currentBuffer_ = <<>> /\ DOMAIN lineSizes = {} /\ lost = {}
  BY DEF LogInit, Writing
<1> QED
  BY <1>3, <1>5, <1>6, <1>7, EmptyPieces DEF LogInv, PartsRise, PartsChain, Chain, Before

\* A step that leaves the files, the buffers and the lines alone.
LEMMA PartsKept ==
  ASSUME PartsRise, PartsChain, DiskFiles' = DiskFiles, Writing' = Writing,
         buffers_' = buffers_, currentBuffer_' = currentBuffer_, lineSizes' = lineSizes, lost' = lost
  PROVE  PartsRise' /\ PartsChain'
BY DEF PartsRise, PartsChain

\* flush() changes no file.
LEMMA FlushedFile ==
  ASSUME FileOK(output), output' = [output EXCEPT !.flushed = TRUE]
  PROVE  FileOK(output') /\ output'.disk = output.disk /\ DiskFiles' = DiskFiles
<1>1. DOMAIN output = FileFields
  BY DEF FileOK
<1> DEFINE g == [output EXCEPT !.flushed = TRUE]
<1>2. g = [x \in FileFields |-> g[x]] /\ g.disk = output.disk /\ g.file_ = output.file_
      /\ g.lastRoll_ = output.lastRoll_
  BY <1>1 DEF FileFields
<1>3. output' = g
  OBVIOUS
<1> HIDE DEF g
<1> QED
  BY <1>2, <1>3 DEF FileOK, DiskFiles

\* The lines in the buffers have been given to append().
LEMMA LinesAppended ==
  ASSUME LogInv
  PROVE  LET n == Len(lineSizes)
         IN  /\ n \in Nat /\ DOMAIN lineSizes = 1..n
             /\ AllLines(DiskFiles) \subseteq 1..n /\ AllLines(Writing) \subseteq 1..n
             /\ AllLines(buffers_) \subseteq 1..n /\ LinesOf(currentBuffer_) \subseteq 1..n
<1>1. Len(lineSizes) \in Nat /\ DOMAIN lineSizes = 1..Len(lineSizes)
  BY LenProperties DEF LogInv, LogTyped
<1> QED
  BY <1>1 DEF LogInv, PartsChain

\* append() keeps the invariant: the line goes behind all others, or is given up.
LEMMA AppendLineStep ==
  ASSUME LogInv, NEW len \in LineSizes, AppendLine(len)
  PROVE  LogInv'
<1> DEFINE n == Len(lineSizes)
           line == n + 1
           D == AllLines(DiskFiles)
           W == AllLines(Writing)
           B == AllLines(buffers_)
           C == LinesOf(currentBuffer_)
<1>1. /\ n \in Nat /\ DOMAIN lineSizes = 1..n
      /\ D \subseteq 1..n /\ W \subseteq 1..n /\ B \subseteq 1..n /\ C \subseteq 1..n
  BY LinesAppended
<1>2. /\ lineSizes' \in Seq(LineSizes) /\ DOMAIN lineSizes' = 1..(n + 1)
  <2>1. lineSizes' = Append(lineSizes, len) /\ lineSizes \in Seq(LineSizes)
    BY DEF AppendLine, LogInv, LogTyped
  <2> QED
    BY <2>1, <1>1, AppendProperties, LenProperties
<1>3. /\ DiskFiles' = DiskFiles /\ Writing' = Writing
      /\ UNCHANGED <<logRunning_, owner, writer, newBuffer1, newBuffer2, buffersToWrite,
                     unwritten, output, now>>
  BY DEF AppendLine, writerVars, DiskFiles, Writing
<1>4. /\ currentBuffer_ \in Seq(Pos) /\ currentBuffer_ \in Seq(Nat) /\ buffers_ \in Seq(Seq(Pos))
      /\ lost \subseteq DOMAIN lineSizes /\ Pos \in SUBSET Nat
  BY DEF LogInv, LogTyped, Pos
<1>5. /\ AllRising(DiskFiles) /\ AllRising(Writing) /\ AllRising(buffers_)
      /\ Rising(currentBuffer_) /\ Chain(D, W, B, C) /\ D \cup W \cup B \cup C = (1..n) \ lost
  BY <1>1 DEF LogInv, PartsRise, PartsChain
<1>6. Before(D, {line}) /\ Before(W, {line}) /\ Before(B, {line}) /\ Before(C, {line})
  BY <1>1 DEF Before
<1>7. line \in Pos /\ line \notin lost /\ line # Dropped
  BY <1>1, <1>4 DEF Pos, Dropped
<1> HIDE DEF D, W, B, C, line
<1>8. /\ DOMAIN lineSizes' = (1..n) \cup {line} /\ line \notin 1..n
  BY <1>1, <1>2 DEF line
<1>9. CASE avail(currentBuffer_) > len
  <2>1. currentBuffer_' = Append(currentBuffer_, line) /\ UNCHANGED <<buffers_, nextBuffer_, lost>>
    BY <1>9 DEF AppendLine, line
  <2>2. currentBuffer_' \in Seq(Pos)
    BY <2>1, <1>4, <1>7, AppendProperties
  <2>3. LinesOf(currentBuffer_') = C \cup {line} /\ Rising(currentBuffer_')
    BY <2>1, <1>4, <1>5, <1>6, <1>7, AppendedLine DEF C, Pos
  <2>4. Chain(D, W, B, C \cup {line})
    BY <1>5, <1>6 DEF Chain, Before
  <2>5. D \cup W \cup B \cup (C \cup {line}) = DOMAIN lineSizes' \ lost
    BY <1>5, <1>7, <1>8
  <2>6. LogTyped' /\ WriterAgrees'
    BY <1>2, <1>3, <1>8, <2>1, <2>2, <1>1 DEF LogInv, LogTyped, WriterAgrees
  <2> QED
    BY <1>3, <1>5, <2>1, <2>3, <2>4, <2>5, <2>6 DEF LogInv, PartsRise, PartsChain, D, W, B
<1>10. CASE ~(avail(currentBuffer_) > len)
  <2> DEFINE fits == kLargeBuffer > len
             new == IF fits THEN <<line>> ELSE <<>>
             B1 == B \cup C
             C1 == IF fits THEN {line} ELSE {}
  <2>1. /\ buffers_' = Append(buffers_, currentBuffer_)
        /\ currentBuffer_' = IF nextBuffer_ # NoBuffer THEN nextBuffer_ \o new ELSE new
        /\ nextBuffer_' = NoBuffer
        /\ lost' = IF fits THEN lost ELSE lost \cup {line}
    BY <1>10 DEF AppendLine, line
  <2>2. /\ buffers_' \in Seq(Seq(Pos)) /\ AllLines(buffers_') = B1 /\ AllRising(buffers_')
        /\ buffers_' # <<>>
    <3>1. Before(AllLines(buffers_), LinesOf(currentBuffer_))
      BY <1>5 DEF Chain, B, C
    <3>2. Append(buffers_, currentBuffer_) # <<>>
      BY <1>4, AppendProperties
    <3> QED
      BY <2>1, <1>4, <1>5, <3>1, <3>2, PushedPiece DEF B, C
  <2>3. currentBuffer_' = new
    <3>1. new \in Seq(Pos) /\ <<>> \o new = new
      BY <1>7
    <3> QED
      BY <2>1, <3>1 DEF LogInv, LogTyped
  <2>4. currentBuffer_' \in Seq(Pos) /\ LinesOf(currentBuffer_') = C1 /\ Rising(currentBuffer_')
    <3>1. CASE fits
      <4>1. <<line>> \in Seq(Pos) /\ Rising(<<line>>) /\ LinesOf(<<line>>) = {line}
        BY <1>7 DEF Rising, LinesOf, ToSet
      <4> QED
        BY <2>3, <3>1, <4>1
    <3>2. CASE ~fits
      BY <2>3, <3>2, EmptyPieces
    <3> QED
      BY <3>1, <3>2
  <2>5. Chain(D, W, B1, C1)
    BY <1>5, <1>6 DEF Chain, Before
  <2>6. D \cup W \cup B1 \cup C1 = DOMAIN lineSizes' \ lost' /\ lost' \subseteq DOMAIN lineSizes'
    <3>1. CASE fits
      BY <1>1, <1>4, <1>5, <1>7, <1>8, <2>1, <3>1
    <3>2. CASE ~fits
      BY <1>1, <1>4, <1>5, <1>7, <1>8, <2>1, <3>2
    <3> QED
      BY <3>1, <3>2
  <2> HIDE DEF B1, C1
  <2>7. LogTyped' /\ WriterAgrees'
    BY <1>2, <1>3, <2>1, <2>2, <2>4, <2>6 DEF LogInv, LogTyped, WriterAgrees
  <2> QED
    BY <1>3, <1>5, <2>2, <2>4, <2>5, <2>6, <2>7 DEF LogInv, PartsRise, PartsChain, D, W
<1> QED
  BY <1>9, <1>10

\* The swap under the mutex moves the filled buffers and the current one to the writer.
LEMMA SwapStep ==
  ASSUME LogInv, Swap
  PROVE  LogInv'
<1>1. /\ writer \in {"lock", "wait"} /\ newBuffer1 = <<>> /\ newBuffer2 = <<>> /\ unwritten = <<>>
      /\ buffersToWrite' = Append(buffers_, currentBuffer_) /\ buffers_' = <<>>
      /\ currentBuffer_' = <<>> /\ newBuffer1' = NoBuffer /\ writer' = "drop"
      /\ UNCHANGED <<lineSizes, lost, logRunning_, owner, unwritten, output, now>>
  BY DEF Swap, LogInv, WriterAgrees
<1>2. /\ nextBuffer_' = <<>> /\ newBuffer2' \in {NoBuffer, <<>>}
      /\ newBuffer2' = NoBuffer => buffers_ # <<>>
  <2>1. CASE nextBuffer_ = NoBuffer
    BY <1>1, <2>1 DEF Swap, LogInv, WriterAgrees
  <2>2. CASE nextBuffer_ # NoBuffer
    BY <1>1, <2>2, LogBounds DEF Swap, LogInv, LogTyped
  <2> QED
    BY <2>1, <2>2
<1>3. /\ buffers_ \in Seq(Seq(Pos)) /\ currentBuffer_ \in Seq(Pos) /\ Pos \in SUBSET Nat
      /\ AllRising(buffers_) /\ Rising(currentBuffer_)
      /\ Before(AllLines(buffers_), LinesOf(currentBuffer_))
  BY DEF LogInv, LogTyped, PartsRise, PartsChain, Chain, Pos
<1>4. /\ buffersToWrite' \in Seq(Seq(Pos)) /\ AllRising(buffersToWrite')
      /\ AllLines(buffersToWrite') = AllLines(buffers_) \cup LinesOf(currentBuffer_)
  BY <1>1, <1>3, PushedPiece
<1>5. buffersToWrite' # <<>> /\ (buffers_ # <<>> => Len(buffersToWrite') > 1)
  BY <1>1, <1>3
<1>6. LogTyped'
  BY <1>1, <1>2, <1>4 DEF LogInv, LogTyped
<1>7. WriterAgrees'
  BY <1>1, <1>2, <1>5, LogBounds DEF LogInv, WriterAgrees
<1>8. DiskFiles' = DiskFiles /\ Writing' = buffersToWrite' /\ Writing = <<>>
  BY <1>1 DEF DiskFiles, Writing
<1>9. PartsRise'
  BY <1>1, <1>4, <1>8, EmptyPieces DEF LogInv, PartsRise
<1>10. PartsChain'
  <2> DEFINE D == AllLines(DiskFiles)
             B == AllLines(buffers_)
             C == LinesOf(currentBuffer_)
  <2>1. Chain(D, {}, B, C) /\ D \cup {} \cup B \cup C = DOMAIN lineSizes \ lost
    BY <1>8, EmptyPieces DEF LogInv, PartsChain
  <2> HIDE DEF D, B, C
  <2>2. Chain(D, B \cup C, {}, {})
    BY <2>1 DEF Chain, Before
  <2>3. AllLines(DiskFiles') = D /\ AllLines(Writing') = B \cup C /\ AllLines(buffers_') = {}
        /\ LinesOf(currentBuffer_') = {}
    BY <1>1, <1>4, <1>8, EmptyPieces DEF D, B, C
  <2> QED
    BY <1>1, <2>1, <2>2, <2>3 DEF PartsChain
<1> QED
  BY <1>6, <1>7, <1>9, <1>10 DEF LogInv

\* What a write does to the files in the order of their names: the last one grows.
LEMMA WrittenFiles ==
  ASSUME FileOK(output), now \in 1..MaxTime, NEW lines \in Seq(Nat), NEW fails \in BOOLEAN,
         output' = append_unlocked(output, lines, fails),
         AllRising(DiskFiles), Rising(lines), Before(AllLines(DiskFiles), LinesOf(lines))
  PROVE  /\ FileOK(output') /\ AllRising(DiskFiles')
         /\ AllLines(DiskFiles') = AllLines(DiskFiles) \cup (IF fails THEN {} ELSE LinesOf(lines))
<1> DEFINE t == output.file_
           p == DiskFiles
           q == [p EXCEPT ![t] = @ \o lines]
<1>1. FileOK(output') /\ output'.disk = Written(output, lines, fails)
  BY AppendedFile
<1>2. /\ t \in 1..MaxTime /\ p \in [1..MaxTime -> Seq(Nat)] /\ output.disk \in [0..MaxTime -> Seq(Nat)]
      /\ \A i \in 1..MaxTime : p[i] = output.disk[i]
      /\ \A i \in 1..MaxTime : i > t => p[i] = <<>>
  <2>1. /\ t \in 1..MaxTime /\ output.disk \in [0..MaxTime -> Seq(Nat)]
        /\ \A i \in 1..MaxTime : i > t => output.disk[i] = <<>>
    BY DEF FileOK
  <2>2. MaxTime \in Nat /\ \A i \in 1..MaxTime : i \in 0..MaxTime
    BY LogBounds
  <2>3. p = [i \in 1..MaxTime |-> output.disk[i]]
    BY DEF DiskFiles
  <2> HIDE DEF p, t
  <2> QED
    BY <2>1, <2>2, <2>3
<1>3. DiskFiles' = [i \in 1..MaxTime |-> output'.disk[i]]
  BY DEF DiskFiles
<1>4. CASE fails
  <2>1. output'.disk = output.disk
    BY <1>1, <1>2, <1>4, LogBounds DEF Written
  <2>2. DiskFiles' = DiskFiles
    BY <2>1, <1>3 DEF DiskFiles
  <2> QED
    BY <1>1, <1>4, <2>2
<1>5. CASE ~fails
  <2>1. \A i \in 1..MaxTime : output'.disk[i] = IF i = t THEN p[t] \o lines ELSE p[i]
    BY <1>1, <1>2, <1>5, LogBounds DEF Written
  <2>2. \A i \in 1..MaxTime : q[i] = IF i = t THEN p[t] \o lines ELSE p[i]
    BY <1>2
  <2>3. q = [i \in 1..MaxTime |-> q[i]]
    BY <1>2
  <2> HIDE DEF q
  <2>4. DiskFiles' = q
    BY <1>3, <2>1, <2>2, <2>3
  <2>5. AllRising(q) /\ AllLines(q) = AllLines(p) \cup LinesOf(lines)
    <3>1. MaxTime \in Nat
      BY LogBounds
    <3>2. DOMAIN p = 1..MaxTime /\ t \in 1..MaxTime /\ \A i \in 1..MaxTime : p[i] \in Seq(Nat)
      BY <1>2
    <3>3. \A i \in 1..MaxTime : i > t => p[i] = <<>>
      BY <1>2
    <3>4. AllRising(p) /\ Before(AllLines(p), LinesOf(lines))
      OBVIOUS
    <3>5. DOMAIN q = 1..MaxTime /\ q[t] = p[t] \o lines /\ \A i \in 1..MaxTime : i # t => q[i] = p[i]
      BY <1>2, <2>2, <2>3
    <3> HIDE DEF p, t
    <3>6. Grown(p, q, MaxTime, t, lines)
      BY <3>1, <3>2, <3>3, <3>5 DEF Grown
    <3> QED
      BY <3>4, <3>6, GrownPiece
  <2> QED
    BY <1>1, <1>5, <2>4, <2>5
<1> QED
  BY <1>4, <1>5

\* With too many buffers, the writer keeps the first two and gives up the lines of the others.
LEMMA DropStep ==
  ASSUME LogInv, Drop
  PROVE  LogInv'
<1> DEFINE D == AllLines(DiskFiles)
           W == AllLines(buffersToWrite)
           B == AllLines(buffers_)
           C == LinesOf(currentBuffer_)
<1>1. /\ writer = "drop" /\ writer' = "write" /\ unwritten' = buffersToWrite'
      /\ UNCHANGED <<lineSizes, currentBuffer_, nextBuffer_, buffers_, logRunning_, owner,
                     newBuffer1, newBuffer2, now>>
  BY DEF Drop, frontVars
<1>2. Writing = buffersToWrite /\ Writing' = buffersToWrite'
  BY <1>1 DEF Writing
<1>3. /\ buffersToWrite \in Seq(Seq(Pos)) /\ Pos \in SUBSET Nat /\ FileOK(output)
      /\ now \in 1..MaxTime /\ AllRising(DiskFiles) /\ AllRising(buffersToWrite)
      /\ AllRising(buffers_) /\ Rising(currentBuffer_)
      /\ Chain(D, W, B, C) /\ D \cup W \cup B \cup C = DOMAIN lineSizes \ lost
      /\ lost \subseteq DOMAIN lineSizes
  BY <1>2 DEF LogInv, LogTyped, PartsRise, PartsChain, Pos
<1>4. Len(buffersToWrite) \in Nat
  BY <1>3, LenProperties
<1>5. CASE Len(buffersToWrite) > KeptBuffers
  <2> DEFINE q == SubSeq(buffersToWrite, 1, 2)
             Rest == UNION {LinesOf(buffersToWrite[i]) : i \in 3..Len(buffersToWrite)}
             Q == AllLines(q)
  <2>1. /\ output' = append_unlocked(output, <<Dropped>>, FALSE) /\ buffersToWrite' = q
        /\ lost' = lost \cup UNION {ToSet(buffersToWrite[i]) : i \in 3..Len(buffersToWrite)}
    BY <1>5 DEF Drop
  <2>2. /\ q \in Seq(Seq(Pos)) /\ Len(q) = 2 /\ AllRising(q) /\ W = Q \cup Rest
        /\ Before(Q, Rest)
    <3>1. Len(buffersToWrite) > 1
      BY <1>4, <1>5, LogBounds
    <3> QED
      BY <1>3, <3>1, FirstTwoPieces
  <2>3. \A i \in 3..Len(buffersToWrite) : ToSet(buffersToWrite[i]) = LinesOf(buffersToWrite[i])
    <3>1. ASSUME NEW i \in 3..Len(buffersToWrite) PROVE Dropped \notin ToSet(buffersToWrite[i])
      <4>1. buffersToWrite[i] \in Seq(Pos)
        BY <1>3, <1>4
      <4>2. ToSet(buffersToWrite[i]) \subseteq Pos
        BY <4>1 DEF ToSet
      <4> QED
        BY <4>2 DEF Pos, Dropped
    <3> QED
      BY <3>1 DEF LinesOf
  <2>4. lost' = lost \cup Rest
    BY <2>1, <2>3
  <2>5. FileOK(output') /\ AllRising(DiskFiles') /\ AllLines(DiskFiles') = D
    <3>1. <<Dropped>> \in Seq(Nat) /\ Rising(<<Dropped>>) /\ LinesOf(<<Dropped>>) = {}
      BY DEF Dropped, Rising, LinesOf, ToSet
    <3>2. Before(D, LinesOf(<<Dropped>>))
      BY <3>1 DEF Before
    <3> QED
      BY <1>3, <2>1, <3>1, <3>2, WrittenFiles
  <2>6. Rest \subseteq DOMAIN lineSizes
    BY <1>3, <2>2
  <2> HIDE DEF q, Rest, Q, D, W, B, C
  <2>7. Chain(D, Q, B, C)
    BY <1>3, <2>2 DEF Chain, Before
  <2>8. D \cup Q \cup B \cup C = DOMAIN lineSizes \ lost'
    <3>1. \A x \in Rest : x \notin D /\ x \notin Q /\ x \notin B /\ x \notin C
      <4>0. Rest \subseteq Nat
        <5>1. DOMAIN lineSizes \subseteq Nat
          BY LenProperties DEF LogInv, LogTyped
        <5> QED
          BY <5>1, <2>6
      <4>1. \A x \in Nat : ~(x < x)
        OBVIOUS
      <4> QED
        BY <4>0, <4>1, <1>3, <2>2, Zenon DEF Chain, Before
    <3> QED
      BY <3>1, <1>3, <2>2, <2>4
  <2>9. LogTyped'
    BY <1>1, <2>1, <2>2, <2>4, <2>5, <2>6 DEF LogInv, LogTyped
  <2>10. WriterAgrees'
    <3>1. q # <<>>
      BY <2>2
    <3> QED
      BY <1>1, <2>1, <2>2, <3>1 DEF LogInv, WriterAgrees
  <2>11. PartsRise' /\ PartsChain'
    BY <1>1, <1>2, <1>3, <2>1, <2>2, <2>5, <2>7, <2>8 DEF PartsRise, PartsChain, Q, B, C
  <2> QED
    BY <2>9, <2>10, <2>11 DEF LogInv
<1>6. CASE ~(Len(buffersToWrite) > KeptBuffers)
  <2>1. UNCHANGED <<output, buffersToWrite, lost>>
    BY <1>6 DEF Drop
  <2>2. LogTyped' /\ WriterAgrees'
    BY <1>1, <2>1 DEF LogInv, LogTyped, WriterAgrees
  <2>3. PartsRise' /\ PartsChain'
    <3>1. Writing' = Writing /\ DiskFiles' = DiskFiles
      BY <1>2, <2>1 DEF DiskFiles
    <3> QED
      BY <1>1, <2>1, <3>1, PartsKept DEF LogInv
  <2> QED
    BY <2>2, <2>3 DEF LogInv
<1> QED
  BY <1>5, <1>6

\* A buffer goes to the end of the open file, or is given up when the write fails.
LEMMA WriteBufferStep ==
  ASSUME LogInv, WriteBuffer
  PROVE  LogInv'
<1> DEFINE D == AllLines(DiskFiles)
           H == LinesOf(Head(unwritten))
           W == AllLines(Tail(unwritten))
           B == AllLines(buffers_)
           C == LinesOf(currentBuffer_)
<1>1. /\ writer = "write" /\ unwritten # <<>> /\ unwritten' = Tail(unwritten)
      /\ UNCHANGED <<lineSizes, currentBuffer_, nextBuffer_, buffers_, logRunning_, owner, writer,
                     newBuffer1, newBuffer2, buffersToWrite, now>>
  BY DEF WriteBuffer, frontVars
<1>2. PICK fails \in BOOLEAN :
        /\ output' = append_unlocked(output, Head(unwritten), fails)
        /\ lost' = IF fails THEN lost \cup ToSet(Head(unwritten)) ELSE lost
  BY DEF WriteBuffer
<1>3. Writing = unwritten /\ Writing' = Tail(unwritten)
  BY <1>1 DEF Writing
<1>4. /\ unwritten \in Seq(Seq(Pos)) /\ Pos \in SUBSET Nat /\ FileOK(output)
      /\ now \in 1..MaxTime /\ AllRising(DiskFiles) /\ AllRising(unwritten)
      /\ AllRising(buffers_) /\ Rising(currentBuffer_) /\ lost \subseteq DOMAIN lineSizes
      /\ Chain(D, AllLines(unwritten), B, C)
      /\ D \cup AllLines(unwritten) \cup B \cup C = DOMAIN lineSizes \ lost
  BY <1>3 DEF LogInv, LogTyped, PartsRise, PartsChain, Pos
<1>5. /\ Tail(unwritten) \in Seq(Seq(Pos)) /\ Head(unwritten) \in Seq(Pos)
      /\ AllLines(unwritten) = H \cup W /\ Rising(Head(unwritten)) /\ AllRising(Tail(unwritten))
      /\ Before(H, W)
  BY <1>1, <1>4, PoppedPiece
<1>6. ToSet(Head(unwritten)) = H
  <2>1. ToSet(Head(unwritten)) \subseteq Pos
    BY <1>5 DEF ToSet
  <2> QED
    BY <2>1 DEF Pos, Dropped, LinesOf
<1>7. /\ FileOK(output') /\ AllRising(DiskFiles')
      /\ AllLines(DiskFiles') = D \cup (IF fails THEN {} ELSE H)
  <2>1. Head(unwritten) \in Seq(Nat)
    BY <1>5 DEF Pos
  <2>2. Before(D, H)
    BY <1>4, <1>5 DEF Chain, Before
  <2> QED
    BY <1>2, <1>4, <1>5, <2>1, <2>2, WrittenFiles
<1>8. DOMAIN lineSizes \subseteq Nat
  BY LenProperties DEF LogInv, LogTyped
<1> DEFINE E == AllLines(DiskFiles')
<1>9. E = D \cup (IF fails THEN {} ELSE H)
  BY <1>7
<1> HIDE DEF D, H, W, B, C, E
<1>10. Chain(E, W, B, C)
  BY <1>4, <1>5, <1>9 DEF Chain, Before
<1>11. E \cup W \cup B \cup C = DOMAIN lineSizes \ lost' /\ lost' \subseteq DOMAIN lineSizes
  <2>1. \A x \in H : x \notin D /\ x \notin W /\ x \notin B /\ x \notin C
    <3>1. \A x \in H : ~(x < x)
      BY <1>4, <1>5, <1>8
    <3> QED
      BY <3>1, <1>4, <1>5, Zenon DEF Chain, Before
  <2>2. CASE fails
    BY <1>2, <1>4, <1>5, <1>6, <1>9, <2>1, <2>2
  <2>3. CASE ~fails
    BY <1>2, <1>4, <1>5, <1>9, <2>3
  <2> QED
    BY <2>2, <2>3
<1>12. LogTyped'
  BY <1>1, <1>5, <1>7, <1>11 DEF LogInv, LogTyped
<1>13. WriterAgrees'
  BY <1>1 DEF LogInv, WriterAgrees
<1>14. PartsRise'
  BY <1>1, <1>3, <1>4, <1>5, <1>7 DEF PartsRise
<1>15. PartsChain'
  BY <1>1, <1>3, <1>10, <1>11 DEF PartsChain, E, W, B, C
<1> QED
  BY <1>12, <1>13, <1>14, <1>15 DEF LogInv

\* The spare buffers are refilled: two buffers are left where both were given away.
LEMMA SparesSuffice ==
  ASSUME LogInv
  PROVE  /\ LogAssertsHold
         /\ writer = "write" => Spares # <<>>
<1>1. /\ buffersToWrite \in Seq(Seq(Pos)) /\ Len(buffersToWrite) \in Nat
  BY LenProperties DEF LogInv, LogTyped
<1>2. ASSUME writer = "write"
      PROVE  /\ Spares # <<>> /\ Len(Spares) > 0
             /\ newBuffer2 = NoBuffer => Len(Spares) > 1
  <2> DEFINE n == Len(buffersToWrite)
             m == IF n > 2 THEN 2 ELSE n
  <2>1. n > 0 /\ (newBuffer2 = NoBuffer => n > 1)
    <3>1. n # 0
      BY <1>1, <1>2, EmptySeq DEF LogInv, WriterAgrees
    <3> QED
      BY <1>1, <1>2, <3>1 DEF LogInv, WriterAgrees
  <2>2. m \in 1..n /\ (newBuffer2 = NoBuffer => m > 1) /\ Spares = SubSeq(buffersToWrite, 1, m)
    BY <1>1, <2>1 DEF Spares
  <2> HIDE DEF n, m
  <2>3. Spares \in Seq(Seq(Pos)) /\ Len(Spares) = m
    BY <1>1, <2>2, SubSeqProperties DEF n
  <2>4. m \in Nat /\ m > 0
    BY <1>1, <2>2 DEF n
  <2>5. Spares # <<>>
    BY <2>3, <2>4
  <2> QED
    BY <2>2, <2>3, <2>4, <2>5
<1>3. LogAssertsHold
  BY <1>2 DEF LogInv, WriterAgrees, LogAssertsHold
<1> QED
  BY <1>2, <1>3

\* Every step keeps the invariant.
LEMMA LogStep == LogInv /\ [LogNext]_logVars => LogInv'
<1> SUFFICES ASSUME LogInv, [LogNext]_logVars PROVE LogInv'
  OBVIOUS
<1> DEFINE Kept == /\ UNCHANGED <<lineSizes, lost, currentBuffer_, buffers_>>
                   /\ DiskFiles' = DiskFiles /\ Writing' = Writing
<1>1. ASSUME LogTyped', WriterAgrees', Kept PROVE LogInv'
  BY <1>1, PartsKept DEF LogInv
<1>2. CASE \E len \in LineSizes : AppendLine(len)
  BY <1>2, AppendLineStep
<1>3. CASE Start
  <2>1. LogTyped' /\ WriterAgrees'
    BY <1>3 DEF Start, frontVars, LogInv, LogTyped, WriterAgrees
  <2>2. Kept
    BY <1>3 DEF Start, frontVars, DiskFiles, Writing, LogInv, WriterAgrees
  <2> QED
    BY <1>1, <2>1, <2>2
<1>4. CASE Started \/ StopLogging \/ JoinWriter
  <2>1. LogTyped' /\ WriterAgrees'
    BY <1>4 DEF Started, StopLogging, JoinWriter, frontVars, writerVars, LogInv, LogTyped,
                WriterAgrees
  <2>2. Kept
    BY <1>4 DEF Started, StopLogging, JoinWriter, frontVars, writerVars, DiskFiles, Writing
  <2> QED
    BY <1>1, <2>1, <2>2
<1>5. CASE Enter
  <2>1. FileOK(output') /\ output'.disk = [t \in 0..MaxTime |-> <<>>]
    BY <1>5, MadeFile DEF Enter, LogInv, LogTyped
  <2>2. LogTyped' /\ WriterAgrees'
    BY <1>5, <2>1 DEF Enter, frontVars, LogInv, LogTyped, WriterAgrees
  <2>3. DiskFiles' = DiskFiles
    <3>1. \A t \in 1..MaxTime : output.disk[t] = <<>> /\ output'.disk[t] = <<>>
      BY <1>5, <2>1, LogBounds DEF Enter, LogInv, WriterAgrees
    <3> QED
      BY <3>1 DEF DiskFiles
  <2>4. Kept
    BY <1>5, <2>3 DEF Enter, frontVars, Writing, LogInv, WriterAgrees
  <2> QED
    BY <1>1, <2>2, <2>4
<1>6. CASE WhileRunning
  <2>1. FileOK(output') /\ DiskFiles' = DiskFiles
    <3>1. CASE output' = output
      BY <3>1 DEF LogInv, LogTyped, DiskFiles
    <3>2. CASE output' = [output EXCEPT !.flushed = TRUE]
      BY <3>2, FlushedFile DEF LogInv, LogTyped
    <3> QED
      BY <1>6, <3>1, <3>2 DEF WhileRunning
  <2>2. LogTyped' /\ WriterAgrees'
    BY <1>6, <2>1 DEF WhileRunning, frontVars, LogInv, LogTyped, WriterAgrees
  <2>3. Kept
    BY <1>6, <2>1 DEF WhileRunning, frontVars, Writing
  <2> QED
    BY <1>1, <2>2, <2>3
<1>7. CASE Wait
  <2>1. LogTyped' /\ WriterAgrees'
    BY <1>7 DEF Wait, frontVars, LogInv, LogTyped, WriterAgrees
  <2>2. Kept
    BY <1>7 DEF Wait, frontVars, DiskFiles, Writing
  <2> QED
    BY <1>1, <2>1, <2>2
<1>8. CASE Swap
  BY <1>8, SwapStep
<1>9. CASE Drop
  BY <1>9, DropStep
<1>10. CASE WriteBuffer
  BY <1>10, WriteBufferStep
<1>11. CASE Recycle
  <2>1. /\ writer = "write" /\ unwritten = <<>> /\ buffersToWrite' = <<>> /\ writer' = "test"
        /\ output' = [output EXCEPT !.flushed = TRUE]
        /\ UNCHANGED <<lineSizes, currentBuffer_, nextBuffer_, buffers_, lost, logRunning_, owner,
                       unwritten, now>>
    BY <1>11 DEF Recycle, frontVars
  <2>2. newBuffer1' = <<>> /\ newBuffer2' = <<>>
    BY <1>11, LogBounds DEF Recycle, Recycled, LogInv, LogTyped
  <2>3. FileOK(output') /\ DiskFiles' = DiskFiles
    BY <2>1, FlushedFile DEF LogInv, LogTyped
  <2>4. LogTyped' /\ WriterAgrees'
    BY <2>1, <2>2, <2>3 DEF LogInv, LogTyped, WriterAgrees
  <2>5. Kept
    BY <2>1, <2>3 DEF Writing
  <2> QED
    BY <1>1, <2>4, <2>5
<1>12. CASE Clock
  <2>1. LogTyped' /\ WriterAgrees'
    BY <1>12 DEF Clock, frontVars, writerVars, LogInv, LogTyped, WriterAgrees
  <2>2. Kept
    BY <1>12 DEF Clock, frontVars, writerVars, DiskFiles, Writing
  <2> QED
    BY <1>1, <2>1, <2>2
<1>13. CASE UNCHANGED logVars
  <2>1. LogTyped' /\ WriterAgrees'
    BY <1>13 DEF logVars, LogInv, LogTyped, WriterAgrees
  <2>2. Kept
    BY <1>13 DEF logVars, DiskFiles, Writing
  <2> QED
    BY <1>1, <2>1, <2>2
<1> QED
  BY <1>2, <1>3, <1>4, <1>5, <1>6, <1>7, <1>8, <1>9, <1>10, <1>11, <1>12, <1>13 DEF LogNext

\* For every number of buffers, line length, roll size and clock: the files in the order of
\* their names and then the buffers hold every line that was not given up, once and in order.
THEOREM LogStaysWhole == LogSpec => []LogIsWhole
<1>1. LogInv => LogIsWhole
  BY WholeByParts DEF LogInv
<1> QED
  BY <1>1, LogInitially, LogStep, PTL DEF LogSpec

\* The asserts of threadFunc() never fail: no turn of the writer runs out of buffers to
\* recycle, however many append() calls come between two swaps.
THEOREM LogAssertsNeverFail == LogSpec => []LogAssertsHold
<1>1. LogInv => LogAssertsHold
  BY SparesSuffice
<1> QED
  BY <1>1, LogInitially, LogStep, PTL DEF LogSpec

=============================================================================
