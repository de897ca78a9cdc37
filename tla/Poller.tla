------------------------------- MODULE Poller -------------------------------
(***************************************************************************)
(* master/net/Channel.cc, poller/EPollPoller.cc and poller/PollPoller.cc:  *)
(* the registration of channels.  Both pollers are driven by the same      *)
(* calls, so that each is checked against the other: epoll keeps one of    *)
(* kNew, kAdded, kDeleted in a channel's index_ and its events in the      *)
(* kernel; poll keeps the position of a pollfd, whose fd is replaced by    *)
(* -fd-1 while the channel wants no events, and fills a hole with the last *)
(* pollfd.                                                                 *)
(*                                                                         *)
(* A channel is named by its descriptor.  What is left out: the number of  *)
(* events that one epoll_wait() may return, and doubling it.               *)
(***************************************************************************)
EXTENDS Integers, Sequences

CONSTANTS Fds,         \* descriptors
          Callbacks    \* the callbacks that the owner of each channel has set

AllCallbacks == {"close", "error", "read", "write"}

ASSUME FdsAssumption == Fds \subseteq Nat
ASSUME CallbacksAssumption == Callbacks \in [Fds -> SUBSET AllCallbacks]

VARIABLES
  events_,         \* what each channel is interested in
  addedToLoop_,
  channels_,       \* the descriptors in the pollers' map
  epIndex,         \* index_ with EPollPoller: kNew, kAdded or kDeleted
  kernel,          \* what epoll watches: descriptor -> events, for those added
  pollIndex,       \* index_ with PollPoller: -1, or a position, from 0, in pollfds_
  pollfds_,        \* [fd, events]
  called,          \* the last event handled: its channel (-1: none), whether it had
                   \* hang-ups and errors alone, and the callbacks run, in order
  pollerEnd        \* "" or how the behaviour ended: "aborted" or "misused"

channelVars == <<events_, addedToLoop_, called>>
pollerVars == <<channelVars, channels_, epIndex, kernel, pollIndex, pollfds_, pollerEnd>>

kNew == -1
kAdded == 1
kDeleted == 2

Unwatched == {"none"}

PollerTypeOK ==
  /\ events_ \in [Fds -> SUBSET {"r", "w"}]
  /\ addedToLoop_ \in [Fds -> BOOLEAN]
  /\ channels_ \subseteq Fds
  /\ epIndex \in [Fds -> {kNew, kAdded, kDeleted}]
  /\ kernel \in [Fds -> (SUBSET {"r", "w"}) \cup {Unwatched}]
  /\ pollIndex \in [Fds -> Int]
  /\ pollfds_ \in Seq([fd : Int, events : SUBSET {"r", "w"}])
  /\ called \in [fd : Fds \cup {-1}, alarm : BOOLEAN, ops : Seq(AllCallbacks)]
  /\ pollerEnd \in {"", "aborted", "misused"}

PollerInit ==
  /\ events_ = [f \in Fds |-> {}] /\ addedToLoop_ = [f \in Fds |-> FALSE]
  /\ channels_ = {}
  /\ epIndex = [f \in Fds |-> kNew] /\ kernel = [f \in Fds |-> Unwatched]
  /\ pollIndex = [f \in Fds |-> -1] /\ pollfds_ = <<>>
  /\ called = [fd |-> -1, alarm |-> FALSE, ops |-> <<>>]
  /\ pollerEnd = ""

-----------------------------------------------------------------------------
(* updateChannel() of the two pollers, for new events ev of channel f *)

\* EPOLL_CTL_ADD for a new or a deleted channel, also when it wants no events;
\* else EPOLL_CTL_DEL or EPOLL_CTL_MOD.
EpollUpdate(f, ev) ==
  IF epIndex[f] \in {kNew, kDeleted}
    THEN /\ epIndex' = [epIndex EXCEPT ![f] = kAdded]
         /\ kernel' = [kernel EXCEPT ![f] = ev]
    ELSE /\ epIndex' = [epIndex EXCEPT ![f] = IF ev = {} THEN kDeleted ELSE kAdded]
         /\ kernel' = [kernel EXCEPT ![f] = IF ev = {} THEN Unwatched ELSE ev]

\* The fd of an ignored pollfd, which is its own inverse.
Ignored(f) == -f - 1

\* push_back() for a new channel, also when it wants no events; else the channel's own
\* pollfd.
PollUpdate(f, ev) ==
  IF pollIndex[f] < 0
    THEN /\ pollfds_' = Append(pollfds_, [fd |-> f, events |-> ev])
         /\ pollIndex' = [pollIndex EXCEPT ![f] = Len(pollfds_)]
    ELSE /\ pollfds_' = [pollfds_ EXCEPT ![pollIndex[f] + 1] =
                          [fd |-> IF ev = {} THEN Ignored(f) ELSE f, events |-> ev]]
         /\ UNCHANGED pollIndex

\* What updateChannel() asserts of the map and of the channel's pollfd.
UpdateAsserts(f) ==
  /\ (epIndex[f] = kNew) = (f \notin channels_)
  /\ (pollIndex[f] < 0) = (f \notin channels_)
  /\ pollIndex[f] >= 0 => /\ pollIndex[f] < Len(pollfds_)
                          /\ pollfds_[pollIndex[f] + 1].fd \in {f, Ignored(f)}

\* What the owner of channel f enables: TcpConnection both, with every callback set;
\* Acceptor, TimerQueue and the wakeup channel only reading, with no other callback;
\* Connector only writing, with an error callback besides.
Wants(f) == (IF "read" \in Callbacks[f] THEN {"r"} ELSE {})
            \cup (IF "write" \in Callbacks[f] THEN {"w"} ELSE {})

\* enableReading(), disableReading(), enableWriting(), disableWriting(), disableAll()
Update(f, ev) ==
  /\ pollerEnd = ""
  /\ events_' = [events_ EXCEPT ![f] = ev]
  /\ addedToLoop_' = [addedToLoop_ EXCEPT ![f] = TRUE]
  /\ channels_' = channels_ \cup {f}
  /\ EpollUpdate(f, ev)
  /\ IF UpdateAsserts(f) THEN PollUpdate(f, ev) /\ UNCHANGED pollerEnd
                         ELSE UNCHANGED <<pollfds_, pollIndex>> /\ pollerEnd' = "aborted"
  /\ UNCHANGED called

-----------------------------------------------------------------------------
(* removeChannel() *)

FdOf(pfd) == IF pfd.fd < 0 THEN Ignored(pfd.fd) ELSE pfd.fd

\* Mutant of PollRemove: the pollfd that moves keeps its index_.
PollRemoveStale(f) ==
  LET last == Len(pollfds_) IN
  /\ pollfds_' = [i \in 1..(last - 1) |->
                    IF i = pollIndex[f] + 1 THEN pollfds_[last] ELSE pollfds_[i]]
  /\ pollIndex' = [pollIndex EXCEPT ![f] = -1]

\* PollPoller: the last pollfd fills the hole.  The channel's index_ is not reset: the
\* object must not be used again, and is replaced by a new one.
PollRemove(f) ==
  LET last == Len(pollfds_) IN
  /\ pollfds_' = [i \in 1..(last - 1) |->
                    IF i = pollIndex[f] + 1 THEN pollfds_[last] ELSE pollfds_[i]]
  /\ pollIndex' = [g \in Fds |-> CASE g = f -> -1
                                   [] g # f /\ g = FdOf(pollfds_[last]) -> pollIndex[f]
                                   [] OTHER -> pollIndex[g]]

\* A channel whose only update was disableAll(), as in ~Acceptor() of a server that was
\* never started: its pollfd is not an ignored one, which PollPoller asserts.
NeverEnabled(f) == pollfds_[pollIndex[f] + 1].fd = f

\* Channel::remove(), after which the channel is destroyed; a new one may get its
\* descriptor.
RemoveChannel(f) ==
  /\ pollerEnd = ""
  /\ f \in channels_ /\ events_[f] = {}
  /\ addedToLoop_' = [addedToLoop_ EXCEPT ![f] = FALSE]
  /\ channels_' = channels_ \ {f}
  /\ kernel' = [kernel EXCEPT ![f] = Unwatched]
  /\ epIndex' = [epIndex EXCEPT ![f] = kNew]
  /\ IF UpdateAsserts(f)
       THEN PollRemove(f) /\ pollerEnd' = IF NeverEnabled(f) THEN "misused" ELSE ""
       ELSE UNCHANGED <<pollfds_, pollIndex>> /\ pollerEnd' = "aborted"
  /\ UNCHANGED <<events_, called>>

-----------------------------------------------------------------------------
(* poll() and handleEvent() *)

\* What may come back for a watched channel: what it wants, and errors and hang-ups
\* always.
Reports(f) ==
  (SUBSET ((IF "r" \in events_[f] THEN {"IN", "PRI", "RDHUP"} ELSE {})
           \cup (IF "w" \in events_[f] THEN {"OUT"} ELSE {})
           \cup {"HUP", "ERR"})) \ {{}}

\* handleEventWithGuard(): each kind of event runs its callback, if that is set.
Dispatch(f, revents) ==
  LET Runs(event, cb) == IF event /\ cb \in Callbacks[f] THEN <<cb>> ELSE <<>>
  IN  Runs("HUP" \in revents /\ "IN" \notin revents, "close")
      \o Runs(revents \cap {"ERR", "NVAL"} # {}, "error")
      \o Runs(revents \cap {"IN", "PRI", "RDHUP"} # {}, "read")
      \o Runs("OUT" \in revents, "write")

\* fillActiveChannels() finds the channel in the map; handleEvent() of a channel that is
\* not tied, or whose owner lives.
HandleEvent(f, revents) ==
  /\ pollerEnd = ""
  /\ kernel[f] # Unwatched
  /\ called' = [fd |-> f, alarm |-> revents \subseteq {"HUP", "ERR"},
                ops |-> Dispatch(f, revents)]
  /\ pollerEnd' = IF f \in channels_ THEN "" ELSE "aborted"
  /\ UNCHANGED <<events_, addedToLoop_, channels_, epIndex, kernel, pollIndex, pollfds_>>

PollerNext ==
  \E f \in Fds :
    \/ \E ev \in SUBSET Wants(f) : Update(f, ev)
    \/ RemoveChannel(f)
    \/ \E revents \in Reports(f) : HandleEvent(f, revents)

PollerSpec == PollerInit /\ [][PollerNext]_pollerVars

-----------------------------------------------------------------------------
(* Properties *)

\* What poll() would watch for channel f.
PollWatches(f) ==
  {pollfds_[i].events : i \in {j \in DOMAIN pollfds_ : pollfds_[j].fd = f}}

\* Whatever order channels come, change and go in, epoll and poll both watch a channel
\* that wants events for exactly those, and one that wants none for hang-ups and errors at
\* most; a channel is found at its index_ after others have moved into holes, and the
\* asserts of both pollers hold.  Of a channel that wants none the two pollers may differ:
\* epoll watches it again for hang-ups and errors at every second update with no events
\* (EPollPoller.cc:112), poll only after a first update that has none.
\*
\* A report that runs no callback comes back for ever, since nobody takes note of it.  It
\* is then a hang-up or an error alone, of a channel whose owner left callbacks unset: one
\* with all four, as a connection's, runs at least one for every report.
PollersWatchAlike ==
  /\ pollerEnd # "aborted"
  /\ called.fd \in Fds /\ called.ops = <<>> =>
       called.alarm /\ Callbacks[called.fd] # AllCallbacks
  /\ pollerEnd = "" =>
    \A f \in Fds :
      /\ (f \in channels_ /\ events_[f] # {}) =>
           kernel[f] = events_[f] /\ PollWatches(f) = {events_[f]}
      /\ (f \in channels_ /\ events_[f] = {}) =>
           kernel[f] \in {Unwatched, {}} /\ PollWatches(f) \subseteq {{}}
      /\ f \notin channels_ => kernel[f] = Unwatched /\ PollWatches(f) = {}
      /\ f \in channels_ => /\ pollIndex[f] \in 0..(Len(pollfds_) - 1)
                            /\ FdOf(pollfds_[pollIndex[f] + 1]) = f
=============================================================================
