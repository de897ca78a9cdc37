# Verification of pp_dSCache

pp_dSCache is a distributed LRU cache: a master keeps which of 16384 slots
belongs to which cache server, cache servers hold the data of their slots, and
both stand on `master/base` and `master/net`, a reactor network library (one
event loop per thread, a thread pool of loops, non-blocking TCP connections).
This directory holds TLA+ models of its parts, TLC configurations that check
them on small instances, and TLAPS proofs for all instances.

## 1. Inventory

| component | state | operations | interacts with |
|---|---|---|---|
| `EventLoop` | `quit_`, `pendingFunctors_` (under `mutex_`), eventfd, active channels | `loop`, `quit`, `runInLoop`, `queueInLoop` | every thread that queues; poller; `TimerQueue` |
| `EventLoopThread` | `loop_` (under `mutex_`), thread | `startLoop`, `threadFunc`, destructor | `EventLoop` on the thread's stack |
| `TcpServer`, `Acceptor`, `EventLoopThreadPool` | `connections_`, `nextConnId_`, `idleFd_`, loops, `next_` | `start`, `newConnection`, `removeConnection`, `handleRead`, `getNextLoop`, destructor | base loop, I/O loops, descriptors |
| `TcpConnection` | `state_`, channel events, output, shared-pointer count | `send`, `shutdown`, `forceClose`, `startRead`, handlers | I/O loop, base loop, user threads, peer |
| `TcpClient`, `Connector` | connection, `connect_`, attempt, channel | `connect`, `disconnect`, `stop`, retry, destructor | timers, poller, its loop, another thread |
| `TimerQueue` | timers by expiration and by address and sequence, `cancelingTimers_` | `addTimer`, `cancel`, `handleRead` | `EventLoop`, timerfd, clock |
| pollers, `Channel` | channel map, index, events, pollfds | `updateChannel`, `removeChannel`, `poll`, `handleEvent` | kernel |
| `Buffer` | bytes, reader and writer index | `append`, `prepend`, `retrieve`, `shrink`, `readFd`, integers | connections and protocols |
| `ThreadPool`, `Thread`, `CountDownLatch` | task queue, two conditions, `running_` | `start`, `run`, `take`, `stop` | producers, workers |
| `AsyncLogging`, `LogFile`, `AppendFile` | front and back buffers, file, period | `append`, `threadFunc`, `stop`, `rollFile` | all threads that log, clock |
| HTTP | parser state, request | `parseRequest`, `onMessage`, `onRequest` | `Buffer`, `TcpConnection` |
| `Inspector` | `modules_`, `helps_` | `add`, `remove`, `onRequest` | HTTP |
| `ProtobufCodecLite`, `RpcChannel` | `id_`, `outstandings_` | `CallMethod`, `onRpcMessage`, `doneCallback` | `Buffer`, both peers |
| `Date`, `TimeZone` | transitions and local times | conversions | - |
| `RWLock` | mutex `m`, `has_writer`, `cv_readers`, `shared_mutex` | `lock`, `unlock`, `lock_shared`, `unlock_shared` | `PpMaster` |
| `PpMaster` | `idToSlots_`, `slotsToId_`, `idToAddr_` | `handle_client_request`, `rangeSetSlots`, `resetSlots` | `RWLock`, I/O threads |
| `Db` | `lruList_`, `map_`, `slotToKey_`, `slots_`, `maxSize_` | `getKV`, `setKV`, `delKV`, `addSlots`, `delSlots` | `DbServer` |
| `DbServer` | `idToDb_`, `ids_`, `serverId_` | `handle_client_request` | clients, under `dbmtx_` |

Hard behaviours: wakeups that race the loop going to sleep; objects that die in
one thread while another still has work for them; connections that close
across two loops; attempts, retries and a stop from another thread; timers
cancelled in the batch that runs them; a clock that is set back; blocking with
a mutex held; messages that arrive in pieces; containers that name each other
through iterators; undefined shifts and dereferences.  They are listed line by
line under `hazards` in `PROJECT.json`.

What makes each part correct, in a line: the loop runs every functor once, in
order, and never sleeps over one; a thread object stops its loop; the lock
excludes, lets writers through and wakes readers; a `Db` is a bounded map that
forgets the least recently used key; a server answers the last value stored; a
connection delivers whole and in order, closes once and is reclaimed; a client
has one attempt under way and can be stopped; a timer runs unless it is
cancelled, and a cancelled one is not scheduled again; both pollers watch what
the channels ask for; every task is taken; the log has every line once and in
order; an answer belongs to its request.  Three of these the code keeps only in
part (section 3): a connection that stopped reading may close twice; a timer
cancelled by an earlier callback of its own batch still runs that once; and a
cancel that overtakes the queued add of its timer is lost.

## 2. Modules

| module | models | state and actions |
|---|---|---|
| `TaskQueue` | abstract: a FIFO of functors, each run once | - |
| `EventLoop` | `net/EventLoop.cc` | `pc` is the place of the loop thread in `loop()`; a caller is split between its push and its `wakeup()`; user code in callbacks queues and quits |
| `EventLoopThread` | `net/EventLoopThread.cc` | extends `EventLoop` with the owner of the object and `threadFunc()`; the destructor's two reads of `loop_` are two steps |
| `TcpConnection` | `net/TcpConnection.cc`, and `TcpServer.cc` where it creates and removes a connection | `state_`, channel events and whether `EPollPoller` watches the descriptor, output, the functors of both loops, and who holds a shared pointer |
| `TcpServer` | `net/TcpServer.cc`, `Acceptor.cc`, `EventLoopThreadPool.cc` | loops as queues of functors; a bounded number of descriptors; accepting in two steps when there is none left; the destructor with the joins of the pool |
| `TcpClient` | `net/TcpClient.cc`, `Connector.cc` | rounds of the client's loop, pending timers, and another thread inside `stop()` |
| `TimerQueue` | `net/TimerQueue.cc`, `Timer.cc` | timers at addresses that are used again; the wall clock against the timerfd |
| `Poller` | `net/Channel.cc`, `EPollPoller.cc`, `PollPoller.cc` | the same updates applied to both pollers side by side; each channel has the callbacks its owner sets, and an event runs those of them that it is for |
| `Buffer`, `BufferOps` | `net/Buffer.h`, `Buffer.cc` | the operations as operators over a record; `BufferOps` applies them beside the byte sequence they stand for |
| `ThreadPool` | `base/ThreadPool.cc`, `Thread.cc`, `CountDownLatch.cc`, `Condition` | conditions as wait sets; a step is what a thread does while it holds `mutex_` |
| `AsyncLogging` | `base/AsyncLogging.cc`, `LogFile.cc`, `FileUtil.cc` | buffers as sequences of line numbers; files by the second they were opened in |
| `Http` | `net/http`, `inspect/Inspector.cc` | lines as one or two bytes; the parser's loop one line per step; `registered` remembers which commands were added, whatever the inspector's tables say |
| `ProtobufCodecLite`, `RpcChannel` | `net/protobuf`, `net/protorpc` | frames of bytes with length, tag and checksum; a call split at its insertion and its send |
| `Calendar` | `base/Date.cc`, `TimeZone.cc` | the formulas as operators; a walk from day to day and from second to second beside them |
| `RWLock` | `master/RWLock.h` | every operation split where it can block |
| `Cache` | abstract: a partial map that may lose one key per store | - |
| `DbOps`, `Db` | `server/Db.cc` | the members as a record, the methods as operators; one action per public method |
| `DbServer` | `server/DbServer.cc` | three (in the run, two) `Db`s; one action per outcome of `handle_client_request()` |
| `MasterSlots` | `PpMaster::rangeSetSlots`, `resetSlots` | integers as sets of bits, with the widths of `int` and `unsigned long long` |
| `EventLoopProofs`, `MasterProofs`, `DbProofs`, `TimeProofs`, `TcpConnectionProofs`, `ThreadsProofs`, `NetProofs`, `ProtocolProofs` | proofs (section 4) | - |
| `MCLoop`, `MCCache`, `MCNet`, `MCThreads`, `MCProtocols` | runs over several of these | `which` says the component a behaviour is about; the variables of the others stay as they begin |

Composition: `EventLoopThread` runs the actions of `EventLoop`; `DbServer` is
built from the operators of `DbOps`, `RpcChannel` from those of
`ProtobufCodecLite` and both it and `Http` from those of `Buffer`, so that what
arrives in pieces goes through the modelled buffer; `EventLoop` implements
`TaskQueue`, which is why `TcpConnection`, `TcpServer` and `TcpClient` may take
the functors of a loop as a FIFO; `Db` implements `Cache`.

Undefined behaviour is a choice of outcomes.  `setKV()` pushes
`mapItor->first` of `map_.end()` when it adds a key: the process faults, or a
node with a meaningless string (`Junk`) enters the list and may later break an
eviction.  Shifts by the width of a word wrap or give zero.  The destructor of
`EventLoopThread`, reading a `loop_` that has just been cleared, faults or
goes on with the old pointer.

Some modules stop a behaviour as `misused` where the code has no defence, and
mostly says so itself; what the properties show, they show for all other
interleavings:

- `TcpConnection`: another thread's `shutdown()`, `forceClose()` or
  `forceCloseWithDelay()` that overwrites `kDisconnected` after a stale test of
  `state_`; `startRead()` or `stopRead()` on a connection that is down; a
  functor bound to a bare `this` that runs after the last pointer is gone.
- `TcpServer`: `~TcpServer()` with a connection in `kDisconnecting`; an I/O
  loop that leaves `loop()` with functors waiting; a removal that runs when the
  server is gone.  Its connections are closed once: nobody calls `stopRead()`.
- `TcpClient`: `~TcpClient()` with a connection while functors or a channel of
  the connector are left, where `~Connector()`'s own assert fails
  (`Connector.cc:28`), and a connection lost after the client is gone.
- `Poller`: `removeChannel()` of a channel that was never enabled, which
  `PollPoller` asserts against and `EPollPoller` accepts.
- `Http`: `MethodSetTwice`, the assert of `HttpRequest::setMethod()` when a bad
  request line is parsed a second time.

A failed assert elsewhere ends a behaviour as `aborted`, which the properties
see.  In `TcpConnection` the handler is finished first, as a build without
asserts would do, so that what it does to the callbacks is seen as well.

Coarser than the code: a write to the log that fails half way loses the whole
buffer in `AsyncLogging`, and the line about dropped buffers is always written;
RPC messages of type `ERROR`, which `onRpcMessage()` ignores and nobody sends,
are not among those of `RpcChannel`.

## 3. Runs

| run | checks | bounds and why |
|---|---|---|
| `loop` | `NoLostWakeup`, `RunsInOrder` (refinement of `TaskQueue`), `LoopGoesOn`, `ObjectOutlivesLoop`, `StartAndDtorEnd` | three callers, two channels, five functors: one being run, one in the batch, one in the next and two on their way, from different threads |
| `loop_thread_early_dtor` | violation of `DtorEnds` | one owner |
| `cache` | `ContainersAgree`, `EvictsLeastRecent`, `ServesCache` (refinement of `Cache`); `MasterReadsLastWrite`; `ResetReturnsOwnSlots`; `Exclusion`, `OnlyWritersDeadlock`, `LockIsServed` | three keys in two slots, two values, `maxSize_` from 0 to 3, so empty, full and over-full lists occur, no bound on the calls; a server with two `Db`s of size 1, so that its second key evicts the first, three server ids, every distribution of two slots; the real widths 32 and 64 and two words of slots; three readers, two writers: the second writer is the one that seizes the lock up, the readers can relay each other |
| `cache_range` | violation of `RangeIsSet` | as `cache`, with ranges up to 65 |
| `rwlock_two_writers` | violation of `WriterGetsLock` | two writers, one reader |
| `tcp_connection` | `AssertsHold`, `StreamIsWhole`, `CallbacksPair`, `ShutdownDrains`, `ClosingEnds` | one other thread, two bytes (one can be buffered and one overtake it), calls while fewer than two functors wait |
| `tcp_connection_hang_up` | violation of `ClosesOnce` | no other thread is needed |
| `net` | `NetAssertsHold`, `WaitingIsServed`, `OneAttempt`, `StopEnds` | up to two I/O loops (0 to 2 are tried), three clients, three descriptors, fewer than they need; a client that loses its connection twice, with and without retry |
| `timers` | `NoDanglingTimer`, `CancelIsFinal`, `TimersRun` | two addresses, two timers, so an address is used again; a clock of three instants set back once |
| `timer_cancel_overtakes` | violation of `CancelNeverMissed` | one timer, one queued call |
| `threads` | `NobodyOversleeps`, `TasksTakenOnce`, `PoolGoesOn`; `LogIsWhole`, `LogAssertsHold`, `LinesReachFile`; `PollersWatchAlike`; `TimesConvertBack` | two workers and two producers on a queue of one; buffers of three bytes, three lines of one and three bytes, two kept buffers, three seconds; descriptors 0, 1 and 2, 0 because its ignored pollfd needs `-fd-1`, with the callbacks of a connection, of an acceptor and of a connector; 800 days from five Januaries (leap, century, before 1970), zones of 240 seconds with hours of four seconds |
| `protocols` | `BufferKeepsContent`; `AnswersMatch`, `CallsAreAnswered`; `ResponsesMatch`, `RequestsAnswered` | a buffer of three bytes, so it grows and moves; two callers, reads of 1 and 5 bytes, four foreign frames; two of eight requests, reads of 1 and 4 bytes |

What the violations show:

- `loop_thread_early_dtor`: `startLoop()` returns before the thread is in
  `loop()`; a destructor that runs then has its `quit_` overwritten by
  `loop()` and joins for ever.
- `rwlock_two_writers`: `lock()` blocks on the shared mutex with `m` held, and
  `unlock()` needs `m`.
- `cache_range`: a range that reaches bit 31 or beyond is computed in `int`
  and sets the wrong slots.
- `tcp_connection_hang_up`: `stopRead()` takes a channel that wants nothing
  else out of epoll (`kDeleted`).  `handleClose()` calls `disableAll()`, and
  `EPollPoller::updateChannel()` adds a `kDeleted` channel again even though it
  wants no events, so hang-ups are reported.  If the peer has reset, the next
  `epoll_wait()` comes before `connectDestroyed()`, and `handleClose()` runs on
  a connection that is down: its assert fails, and without asserts
  `connectionCallback_` tells of the end twice.  `PollPoller` ignores such a
  descriptor.  `AssertsHold` says that no other assert fails and that this one
  does only after `stopRead()`; `CallbacksPair` is about the behaviours in
  which it does not.
- `timer_cancel_overtakes`: a timer added by another thread is in no set until
  the loop runs `addTimerInLoop()`; a callback that cancels it before that
  finds nothing, and the timer is added and runs.  `cancelled` holds the ids
  whose cancel came in time, `overtaken` the others, and `CancelIsFinal` speaks
  of the first.

What `PollersWatchAlike` says has two limits that are the code's.  Of a channel
that wants no events it promises only that neither poller watches it for more
than hang-ups and errors: epoll does after every second update, poll after a
first one.  And an event may run no callback at all, in which case `poll()`
returns it again and the loop spins: the property says that this takes a
hang-up or an error alone on a channel whose owner left a callback unset, as
those of `Acceptor`, `TimerQueue` and `Connector` do.

`ResponsesMatch` compares the answer to a command with `registered`, not with
the inspector's own tables: what was added and not removed is found, and nothing
else is.

Met while modelling and not run, the first two because one call shows them: the
branch of `setKV()` that adds a key pushes `mapItor->first` of `map_.end()`
(`Db.cc:69`), undefined for every new key, where `Db.h:40` says that it modifies
or adds (the model has the fault, `SetFaults`, and the meaningless node, `Junk`;
the properties of `Db` speak of the calls that return); `SET` gives
`isThisServer()` the slot in place of the server id (`DbServer.cc:52`; the
comment at line 51 says that the id is checked), so it is refused unless the
slot number happens to equal `serverId_`, and then stored in the master's `Db`
whatever id the client named (`SETMoved`, `SET`); `resetSlots()` inverts a mask once too often,
so the slots it returns stay set; `getSlotsNum()` returns a member nobody
assigns; `queueInLoop()` by the loop's own thread outside `loop()` wakes nobody
(the model has it, `OwnerQueuesOutside`, and `NoLostWakeup` excludes just those
functors through the history variable `unannounced`); `ThreadPool::stop()` does
not wake a `run()` that waits for room, and leaves queued tasks unrun (a
producer may wait for ever in the model; `PoolGoesOn` speaks of the time before
`stop()` and of the workers); lines appended after the log's last swap are
never written (`LinesReachFile` ends at `stop()`); a second pipelined HTTP
request waits for more bytes (`RequestsAnswered` excludes it through
`pipelined`); a header line without a colon ends the headers; a zone file that
cannot be read leaves a `TimeZone` without local times that says it is valid.

Deadlock is checked for the timers.  Elsewhere the system really may stop: the
lock with two writers, a faulted process, a destroyed object, a bounded number
of calls.

### Fairness

- `EventLoop`: a caller that has pushed reaches its `wakeup()`; the loop thread
  goes on unless it blocks in `poll()`, and `poll()` returns once the eventfd
  is readable (level-triggered); user code returns.  Nothing is assumed of
  peers, of the 10 s timeout, or of anybody calling `loop()`.
- `EventLoopThread`: the same, and a thread inside `startLoop()`, the
  destructor or `threadFunc()` goes on.
- `RWLock`: critical sections end; a free shared mutex is granted; `m` is
  granted to a thread that finds it free again and again (strong fairness: the
  mutex is contended).  No spurious wakeup is relied on.
- `TcpConnection`: both loops run what is queued, which `LoopGoesOn` shows of
  the loop; the timer fires; another thread ends its call and gives its pointer
  back; the peer keeps reading, so a socket waited on becomes writable again
  and again.
- `TcpServer`: the loops run; other threads do not take the freed descriptor
  every single time.  `TcpClient`: its loop runs, a call that has begun ends,
  and due timers are reported.  The network owes no answer.
- `TimerQueue`: time passes up to its bound, the loop runs what is due, and a
  cancelling thread goes on.
- `ThreadPool`, `AsyncLogging`: a thread that is not waiting goes on; the
  writer's timed wait ends.  `RpcChannel`, `Http`: the loop threads read what
  has arrived, the service answers each request.

## 4. Proofs

Every theorem holds for all values of the constants that satisfy the
assumptions at the end of this section.  Each proof has the same shape: an
inductive invariant, one lemma or step per action that shows it preserved, and
the property as a consequence.  What follows is why each invariant is needed.

**`EventLoopProofs`**, for any threads, channels and functors.

- `TypeCorrect`: `TypeOK` is inductive.
- `WakeupNeverLost`: `NoLostWakeup` speaks of `poll()` only and is not
  inductive.  `IInv` adds `WhereTheLoopIs` (the flags agree with the place in
  the code; in particular `callingPendingFunctors_` is set exactly while
  functors run) and `PendingIsAnnounced`: outside the stretch between `poll()`
  and the swap, a waiting functor always has a wakeup there or on its way.
- `LoopIsTaskQueue`: each step of the loop is a step of `TaskQueue` or
  stutters, under `todo <- functors \o pendingFunctors_`.  The swap stutters
  because `functors` is empty before it (`WhereTheLoopIs`).
- `ThreadOutlived`, `ThreadLosesNoWakeup`, `ThreadRunsInOrder`: the same for a
  loop that `EventLoopThread` builds, runs and destroys, and that the thread is
  out of `loop()` once the destructor has ended.  Every step of the composition
  is one of the loop, or a late `wakeup()` on a loop that is gone, or one of
  the owner; `WhereTheThreadsAre` relates the places of the two threads.

**`MasterProofs`**, of the lock and of the slots.

- The lock, for any sets of readers and writers: from one inductive invariant
  (who holds `m`, who holds the shared mutex, and that `has_writer` covers
  every writer inside the lock) follow `MutualExclusion`, `ReadersPassThrough`,
  `ReadersAreNotified`, `WriterIsNotOvertaken` (an action property) and
  `DeadlockNeedsTwoWriters`.
- The slots, for any widths and calls: `SlotsInv` says that the slots are bits
  of one word, which a range computed in `int` cannot leave (`SlotsFitWord`:
  `to_ullong()` never throws).  In `resetSlots()` the first block is shifted by
  zero; once it has given `n` slots, `count` keeps the loop (`Turns`) from
  shifting the others, whose shifts are undefined.  Hence `ResetReturnsOwn`.

**`DbProofs`**, for any keys, values, slots and `maxSize_`.

- `DbContainersAgree`: `DbInv` is the type, `ListInv` (the nodes of
  `lruList_` belong to the keys of `map_`, each to one, and are named by that
  key or by `Junk`), `IndexMatchesMap` (`slotToKey_` has the keys of `map_`
  under their slots) and `NeverOverfull`.  The lemmas say what erasing a node
  and pushing one in front do to the positions of the others: the iterators of
  `std::list` stay valid, the positions of a sequence move.
- `DbEvictsLeastRecent` adds `RecencyInv`: the list is ordered by last use.
- `DbServesCache`: each method is a step of `Cache` under the mapping of
  `map_` to its values; a store loses at most the evicted key.
- `ServerReadsLastWrite`: each value in the master's `map_` is the one last
  written, and a `GET` that is answered found its key there.

**`TimeProofs`**, of the timers and of the calendar.

- `TimerQueue`, for any addresses, timers, queued calls and settings back of
  the clock.  A `Timer` is in one of four places: waiting in both sets
  (`WaitingAgree`), in the batch that runs (`BatchIsOut`), in a queued
  `addTimerInLoop()` (`QueuedAreOut`), or freed; an id cancelled after its
  `addTimerInLoop()` has run is in none, but for the batch, where
  `cancelingTimers_` remembers it (`CancelledAreOut`); and
  no id is issued twice (`IdsAreOld`), which is what makes an address that is
  used again harmless.  `TimersNeverDangle` and `CancelledForGood` follow.
- `Calendar`, for any day after a January 1st and any second of a zone:
  `TimesAlwaysConvertBack`.  `DateInv` says that the date is a real one and
  that its Julian number is the number of the day.  The formulas of `Date.cc`
  are taken apart into a year that begins in March and a day of it, from which
  each quotient is found again (`JulianInverse`), and the next date has the
  next number (`NextJulian`).  `ZoneInv` says that the local time in force is
  that of the last transition not after the second; `LocaltimeFound` says that
  `findLocaltime()` finds it by either key, and what the flag decides in the
  hour that a clock set back shows twice.

**`TcpConnectionProofs`**, for any threads, bytes, high-water mark and queue.
Two arguments that meet in `state_` and the channel only.

- The stream: bytes are numbered as they are taken, what is buffered continues
  what is written (`Numbered`), and a buffer that is not empty keeps the
  channel registered for writing (`BufferIsWatched`).  Hence
  `ConnStreamIsWhole` and, as `shutdownInLoop()` looks only at the channel,
  `ConnShutdownDrains`.
- The life cycle: `Unborn`, `Establishing`, `Up`, `Removing`, `Destroying`,
  `Ended`; each phase says where the server's pointer, the removal and
  `connectDestroyed()` are, and hands on exactly one of them.  `EpollWatches`
  says when epoll can report a hang-up: of a connection that is down, only
  after `stopRead()`.  Hence `ConnAssertsHold`, which names that one assert
  and excludes all others, and `ConnCallbacksPair`.

**`ThreadsProofs`**, of three parts that share no state.

- `Poller`, for any descriptors and any callbacks set on them:
  `BothPollersWatch`.  `index_` and `pollfds_` are inverse to each other
  (`ChannelsFound`, `PollfdsOwned`); the second half is what `removeChannel()`
  needs when it moves the last pollfd into the hole, and the property does not
  say it.  `WantsHeard`, that owners ask only for events they have a callback
  for, is what confines unheard reports to hang-ups and errors.
- `ThreadPool`, for any workers, producers, tasks and queue size:
  `NobodyOversleepsEver` and `TasksAreTakenOnce`.  `PoolInv` adds
  `SleepersWait` (who is in a wait set is in that wait, and nobody waits for a
  task once `stop()` has notified all) and `TasksNumbered` (a task is numbered
  when its `run()` begins).  Each step then moves both sides of the count of
  sleepers and of notified threads by one at most.
- `AsyncLogging`, for any lines, buffer sizes and clock: `LogStaysWhole` and
  `LogAssertsNeverFail`.  `LogInv` says where a line can be: in the files, in
  what the writer holds, in the filled buffers or in the current one, four sets
  each of which comes before the next (`PartsRise`, `PartsChain`), and what the
  writer holds at which line of `threadFunc()` (`WriterAgrees`).  The file that
  is open is the last one by name, since a roll needs a later second.

**`NetProofs`**, of a client and of a server, and of the two in `MCNet`.

- `TcpClient`, for any number of lost connections: `ClientOneAttempt` and
  `ClientAsserts`.  An attempt is at one place: a queued `startInLoop()`, a
  retry timer, a channel under way, or an event of it that is still to be
  handled; and a `resetChannel()` that is queued runs before anything that can
  close the connection, so the next attempt finds no channel left.
- `TcpServer`, for any numbers of loops, connections and descriptors:
  `ServerAsserts`, and with `ClientAsserts` the property of the run,
  `NetAsserts`.  A connection is passed from holder to holder (the map, the
  removal in the base loop, `connectDestroyed()` in its I/O loop), and in each
  loop its functors wait once each, the establishing one before the destroying
  one.

**`ProtocolProofs`**, of the buffer and of what is read from one.

- `BufferOps`, for any sizes, contents and operations: `BufferContentKept`.
  `BufInv` keeps the indices in order and inside the vector.  `makeSpace()`
  moves the content, `readFd()` continues it past the end of the vector, and an
  integer is read back as the number its digits are.
- `RpcChannel`, for any callers, cuts of the stream and checksum base:
  `AnswersAlwaysMatch`.  The buffer and the wire of a side, put together, are
  the frames of the messages sent to it and not yet dispatched, until bytes of
  a stranger stand in front and the connection is given up (`StreamsInOrder`);
  every message names a request that was made (`SentAreHonest`,
  `ServingIsHonest`); an id is that of one call (`CallsAreNumbered`), and an
  answer that was given stays (`AnswersAreFinal`).
- `Http`, for any requests and cuts: `ResponsesAlwaysMatch`.  While all
  requests so far are well formed, buffer and wire, put together, are the lines
  behind the one being parsed (`InStep`), so the line in front of the buffer is
  the next one of its request.  A request that is not well formed breaks this
  for good (`Spoiled`), and the property promises nothing behind it.
  `TableAgrees` relates the inspector's table to what was registered.

What a recursive function computes (digits, checksums, blocks, lines) is proved
from the least number at which the claim could fail (`Climb`), and that such a
function exists by the same argument (`Recursion`): the induction theorems of
the library take an operator, which the provers here cannot instantiate.

Assumptions, all of which TLC evaluates in the runs:

- The bounds (`MaxFunctors`, `MaxSizes`, `HighWaterMark`, `MaxBytes`,
  `MaxQueue`, `MaxThreads`, `MaxConns`, `MaxFds`, `MaxLosses`, those of
  `LogBounds`, `PoolBounds`, `BufferBounds` and `BufferOpsBounds`, and those of
  the timers, of which `MaxTime` is not zero) and the descriptors are natural
  numbers; producers are finitely many; a log keeps at least one buffer.
- The `User` of a thread object is one of its loop's callers; a thread is a
  reader or a writer and not both, there is at least one, and none is the value
  `Free`; `SlotOf` gives each key a slot, `Junk` is not a key, and
  `IdsAssumption` of `DbServer`.
- `WidthsAssumption`: an `int` is narrower than a word, and the slots fill
  whole words.
- `CodecBounds`, `RpcBounds`: a length field fits in front of a frame
  (`kCheapPrepend`), the checksum base fits a byte, frames are no longer than
  `kMaxMessageLen`, and the ids of all callers fit their field; the bytes of a
  stranger are such that `onMessage()` refuses them.
- `HttpBounds`: requests are lines without a carriage return in them, of the
  kinds that the parser tells apart.
- `DateBounds`: a walk begins on a January 1st whose Julian day number is not
  negative, so that every quotient and remainder of `Date.cc` is of numbers that
  are not.  `CallbacksAssumption`: a channel has some of the four callbacks.
  `ZoneBounds`: clocks go back only when
  daylight saving time ends and by one hour, which is what `fromLocalTime()`
  takes for granted, and transitions are further apart than an hour and than
  any two offsets.

Only model-checked is liveness, as the prover does not handle fairness:
`LoopGoesOn`, `StartAndDtorEnd`, `LockIsServed`, `ClosingEnds`,
`WaitingIsServed`, `StopEnds`, `TimersRun`, `PoolGoesOn`, `LinesReachFile`,
`CallsAreAnswered`, `RequestsAnswered`.  Every invariant and action property of
the passing runs, and both refinements, are proved.

## 5. Not modelled

- `Logging`, `LogStream`, `Timestamp`: formatting of a line.
- `ProcessInfo`, `ReadSmallFile` and the process, system and performance
  inspectors: reads of `/proc`, returned as text.
- The socket wrappers: system calls, which appear as the outcomes their callers
  tell apart.  `GzipFile`, `ZlibStream`: adapters of zlib.
- `BlockingQueue`, `BoundedBlockingQueue`: used by tests only, with the same
  condition variables as `ThreadPool`.  `lruMap`: superseded by `Db`.
- `PpMaster::handle_client_request()` reads `slotsToId_` and `idToAddr_`, which
  no code fills (`handle_server_request()` is declared and not defined), and
  `set_vector_bits()` is defined twice and does not compile: there are no
  states to check them in.  The lock around them is modelled.
- The empty classes `PpServer` and `Slots`, and the scratch files.

## 6. Plan

The model is complete in the sense of section 5, and its safety is proved.
What could follow, when the code does:

1. `PpMaster`: the tables that `handle_client_request()` reads, once
   `handle_server_request()` fills them; then who owns a slot, and what becomes
   of its keys when `delSlots()` gives it away.
2. The two writers of `RWLock`, the destructor of `EventLoopThread`, the ranges
   of slots, the re-registration in `EPollPoller` and the cancel that overtakes
   an add, once mended: their violations become properties that hold.  With
   `setKV()` and the test of the server id mended, that a `SET` of the right
   server is stored.
3. The cases that end a behaviour as `misused`, where the code gets a defence
   (an atomic `state_`, `shared_from_this()` in `sendInLoop()`).
