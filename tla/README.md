# Verification of gameDemo2

TLA+ models of the login path of gameDemo2: the client, the front server
`insrv`, the logic server `midsrv` and the two shared-memory queues between the
servers, with crashes and restarts of every process. TLC checks the models on
small instances; TLAPS proves what matters most about the byte ring, the
segment of channels, insrv's slots, midsrv's dispatch and the clients' shared
counter for every value of the parameters.

Lines in this file are of the files under `src/`.

## 1. The system

```
 simclient threads          insrv (one thread)                midsrv (one thread)
 connect/send/recv  <-TCP-> CSocketSrvEpoll, CSocketList      CMidHandle, CMap
                              |  my_epoll_wait                   ^  |
                              |  popmsg_complex                  |  |
                              +--> CShmQueueSingle (key 1111) ---+  |
                              +<-- CShmQueueMulti  (key 2222) <-----+
                                   one CQueue per connection index
```

`insrv` repeats `popmsg_complex; my_epoll_wait; usleep` (`insrv/insrv.cpp:32-37`),
`midsrv` repeats `while (popmsg > 0) handle; usleep` (`midsrv/midsrv.cpp:51-64`).
The two processes share nothing but the two segments, and no lock.

### Components

| component | state | operations | what makes it correct |
|---|---|---|---|
| `queue/CQueue` | cursors `r`, `w`, the bytes after them | `push`, `pop`, `pop_just`, `top`, `top_just`, `size`, `empty`, `clear` | whole messages come out once, intact, in the order pushed; an acknowledged message is pending until it is read; empty means nothing is pending |
| `queue/CShmQueueSingle` | one CQueue in a segment of 16 MiB | `pushmsg`, `popmsg`, create/attach | as CQueue, from insrv to midsrv |
| `queue/CShmQueueMulti` | 4000 CQueues of 2085 usable bytes in 8 MiB | `pushmsg(index)`, `popmsg_complex` | an answer pushed on a channel is moved to the slot of its connection, and to no other one |
| `socket/CSocketList`, `CSocketInfo` | slots: descriptor, receive and send buffers, two flags | `idle`, `find`, `erase` | slots in use and open descriptors correspond one to one; a free slot is blank |
| `socket/CSocketSrvEpoll` | epoll set, the slots | `my_epoll_wait`: accept, receive, send, close | every complete request is handed over once and in order; every answer is sent completely; every dead connection is released and reported |
| `midsrv/CMidHandle`, `common/CMap` | the table (index, socket) | NEW_CONNECT, CLO_CONNECT, LOGIN | the table follows insrv's slots; a login is answered on the channel of its connection |
| `simclient` | per thread: one socket; the counter `tmp` of all threads | connect, send, recv; increment, compare, reset | user names stay in their range; the rest only shows what a client may do |
| `msg`, `common/msgcommon` | none | message layout | lengths and ids |
| `common/CStatistics` | a counter and an interval | `check`, `set_interval`, `enable`, `disable` | a report says how many calls its interval had, whatever the clock does |
| `common/common` | none | wrappers of system calls | `open_socket` and the SIGUSR1 handler are the clients' connect and the end of a process |
| `log`, `outsrv`, `socket/CSocketCli` | none | none | empty, or not used |

The repository has no tests; `readme.txt` only states a load (4000 connections).

### What is hard here

* **Stale indexes.** A channel is named by a connection's *index*, a login is
  looked up by its *descriptor*, and both are reused at once. CLO_CONNECT and
  NEW_CONNECT travel in the same queue as the logins, but answers come back in
  another one, whose reader never compares the answer with the connection in
  the slot (`queue/CShmQueueMulti.cpp:124-149`).
* **Full queues.** A refused login is kept in the slot, a refused
  NEW_CONNECT, CLO_CONNECT or answer is dropped
  (`socket/CSocketSrvEpoll.cpp:196-373`, `midsrv/CMidHandle.cpp:106`).
* **Partial sends and receives**, and peers that vanish after any byte.
* **Full slots**: `idle()` gives -1 and accept goes on with it.
* **The ring's boundary**: messages and their length fields split by its end,
  cursors that may stand at NMAX, a full ring that looks like an empty one.
* **No lock** around the ring, nor around the clients' name counter.
* **Restarts.** A process that starts clears both queues, also while the other
  one uses them; midsrv then has an empty table, insrv blank slots, and nobody
  tells the other process. A send to a client that has gone may end insrv.

PROJECT.json lists these with their lines under "hazards".

## 2. The modules

| module | models | role |
|---|---|---|
| `MsgFifo` | `CShmQueueSingle.h`, `CQueue.h` (the promise) | abstract: a bounded FIFO of whole messages |
| `CQueueBytes` | `CQueue::size`, the `memcpy`s | layout of the ring as functions |
| `CQueue` | `queue/CQueue.cpp`, `.h` | each call is one action on `r`, `w`, `buf` |
| `CQueueSized` | the deployments' lengths | `CQueue` with the granule assumption, the inductive invariant |
| `CQueue_proofs` | | the theorems about `CQueue` |
| `CStatistics` | `common/CStatistics` | `check` and its branches, the setters |
| `CShmQueueMulti` | `queue/CShmQueueMulti` | one segment of bytes cut into channels; `pushmsg`, `popmsg_complex`, the clears |
| `CQueueSpsc_proofs` | | the theorems about `CQueueSpsc` |
| `CShmQueueMulti_proofs` | | the theorems about the segment and the meter |
| `CQueueSpsc` | `queue/CQueue.cpp`, `clear` in both `main`s | `push`, `pop`, `top_just` in two processes, one access to shared memory a step; kills and restarts |
| `GameMsg` | `msg/`, `common/msgcommon` | parameters and messages |
| `CMap` | `common/CMap` | `reg`, `fnd`, `del` as operators |
| `CMidHandle` | `midsrv/` | midsrv's actions |
| `CSocketSrvEpoll` | `insrv/`, `socket/`, `popmsg_complex` | insrv's actions, and the kernel calls it makes |
| `SimClient` | `simclient/` | the clients' actions |
| `LoginService` | the promise to a client | abstract: each login is answered once, in order |
| `GameServer` | all processes | composition, ends and restarts, fairness, the system's properties |
| `GameServer_proofs`, `GameServerFlow_proofs`, `GameServerOrder_proofs` | | the theorems about `GameServer`: slots, routes and connections; what passes through; in which order |
| `FoldTheorems` | | lemmas on numbers, quotients and folds that the proofs cite |
| `NameCounter`, `NameCounter_proofs` | `simclient/simclient.cpp:51-97` | the counter that the threads share, one access a step; its theorem |
| `MCCQueue`, `MCCQueueFull`, `MCCQueueSpsc`, `MCShmQueueMulti`, `MCGameServer`, `MCNameCounter` | | instances for TLC |

### State and code

`CQueue`: `r`, `w`, `buf` are the fields of the segment; a byte is "byte *k* of
message *m*", so the length field is decoded by finding the messages whose
first HDR bytes lie there (`HeadLens`). `ret` is what the last call returned:
its value and what it copied to the caller. `q` is a history variable (the
acknowledged messages and their offsets from `r`): no guard reads it. The four
readers share one body in the code and in the model (`ReadHead`), whose two
parameters say whether the call moves the cursor and whether it copies.

`CQueueSpsc`: the same segment with one pusher (`prod`) and one reader (`cons`)
in the middle of their calls. A call loads both cursors once, at its beginning:
that is what the build makes of it (the makefiles' `-O`; the other process's
cursor is in a register for the comparison, the subtraction and the branch),
although the language would let it load them again. Then come the `memcpy`s,
each a step: one or two for the message, and in a read first one or two for its
length (`ReadPart` is the first of two). Last is the store of the caller's own
cursor, which reads that cursor again (`w += len`).
A process may be killed at any point (`KillProducer`,
`KillConsumer`) and starts with the two stores of `clear`. The memory is taken
to be sequentially consistent, as x86 makes these accesses: loads of one side
and stores of the other in program order.

`CShmQueueMulti`: `mem` is the segment. A channel's CQueue object and its ring
are the bytes from `pq(i)` and from `pmsgbase(i)`; the object's bytes are
marked, its cursors are `r[i]` and `w[i]`. `pushmsg` has `CQueue::push`'s
branches with addresses in the segment, so that an index or a base that is off
by one shows as bytes in another channel. `View(i)` are the ring's bytes of
channel *i*, and `Channel(i)` is `CQueue` on them. Each `pushmsg` also takes the
step of `CStatistics::check`, whose clock may show any value at any reading.

`CSocketSrvEpoll`: `val` is `CSocketList::val`; `pc` and `chan` say where the
main loop is; `events` holds what `epoll_wait` returned and the loop over it has
not handled. One action is one turn of the loop over the channels, one
`epoll_wait`, or one event handled as a whole: it ends with every push, `erase`
and `close` its branch makes. `sock` and `interest` are the kernel's: which
connection a descriptor is, and what the epoll set watches it for.
Descriptors are given out lowest first, as POSIX requires.

`CMidHandle`: `map` is the table; `inmsg` is the message between `popmsg` and
the end of its handler. The pop is a step of its own, so that insrv may run
between the two.

`SimClient`: `cli[c]` is where a thread is; `up[c]` and `inbox[c]` are the two
directions of its TCP connection, `inbox` with everything ever sent, of which
the client has read `rcv[c]` units. A client may be killed between any two
steps (`Leave`).

Ends and restarts in `GameServer`: `pc = "down"` and `inmsg = Down` are a server
that does not run. insrv ends when it is killed (`InsrvKilled`) or when it sends
to a peer that has already answered a send with RST (`InsrvDies`, the signal
SIGPIPE; `reset` holds these peers). The kernel then closes all its sockets and
the clients see the end. `InsrvStarts` and `MidsrvStarts` are `main` up to the
loop, with the clears of both queues; both take place between two queue calls
of the other process, the other case is run `restart`. `orphans` is a history
variable: the connections that were there when midsrv started again, which it
will never hear of.

`NameCounter`: `tmp++` and the comparison are, in the build (`-O`), a load, a
store, and a second load; the reset is a store.

In `GameServer`, `sinq` and each `mulq[i]` are FIFOs with a capacity, which is
what `CQueue` is proved to implement: message lengths there are 20 and 100
bytes in 16777204 (20 does not divide it), and 112 in 2085 (112 does not divide
it), so `GranuleAssumption` holds for both queues.

### Abstractions

* Data is counted in units that TCP may deliver apart instead of bytes. A
  request has `ReqLen` units, of which `HDR` carry its length; `recv` of the
  header and then of the body is kept (`AtEnd` is its meeting the end of the
  stream after the header). A message's content is the request it is about,
  `<<c, k>>`: the *k*-th login of connection *c*.
* Requests are well-formed, as `simclient` makes them: the code takes `msglen`
  from the client's bytes and does not compare it with anything
  (`CSocketSrvEpoll.cpp:344-345`), and the models say nothing of other lengths.
* `send` accepts any part of what is left for which the socket has room.
* A `Conns` member connects once; a client that reconnects is another member.
* `ECONNRESET` and end of stream both lead to the same branch (`ReceiveEnd`),
  which may come before bytes that have arrived are read. A send fails only
  when the peer is gone. The RST with which a closed peer answers a send may
  arrive before the next send or after it (`PeerAnswers`).
* `val[-1]`, written when no slot is free, is undefined behaviour. In the build
  it hits memory before the array; here it hits nothing that is modelled.
* The branch "sendflag is 0 but EPOLLOUT" (`CSocketSrvEpoll.cpp:206`) is left
  out; `OutMeansPending` says that it is never taken.
* Left out because they change no state: a failing `accept`, `epoll_wait` or
  `epoll_ctl MOD` on a watched descriptor, the default branch of
  `CMidHandle::handle`, all output.

## 3. Properties

`CQueueSized` and `CQueue`:
* `QueueInv` — types, `Granular` (the fill is a whole number of granules) and
  `Layout`: the bytes from `r` on are the acknowledged messages, back to back in
  the order of the pushes, none overwritten.
* `EmptyMeansDrained` — `size() = 0` exactly when every acknowledged message
  has been removed.
* `NonEmptyReadable` — if there are bytes, the readers decode the length of the
  oldest message, wherever the ring's end splits it.
* `IsFifo` — refinement: the ring is a `MsgFifo`, return values and bytes copied
  to the caller included.

`CQueueSpsc`:
* `WritesOnlyFree` — a push in progress copies only to bytes that are not
  pending, whatever the reader has done since the push loaded the cursors.
* `PendingIntact` — `Layout` in every state between the steps of both calls.
* `CallsAreAtomic` — refinement: the two processes' calls take effect one at a
  time as the calls of a `MsgFifo`, a push at the store of `w`, a pop at the store
  of `r`, a failing call at its load. In particular a failing `pop` did meet an
  empty queue and a failing `push` a queue without room.

`CShmQueueMulti` and `CStatistics`:
* `ObjectsIntact` — no message is copied over a CQueue object.
* `CursorsInRange` — cursors stay in 0..capacity, ends included.
* `ChannelsAreQueues` — refinement: whatever is done to the other channels, each
  one is a `CQueue`.
* `CountsCalls` — the count that is printed is the calls of the interval, plus
  the call that ended the interval before, which both reports count.

`GameServer`:
* `TypeOK` — also: queues within their capacities.
* `SlotsMatchSockets` — slots in use and open descriptors correspond one to one.
* `IndexIsDescriptor` — a slot in use has the descriptor `FirstFd + index - 1`:
  the two pools, both given out lowest first, never get out of step. This is
  what makes midsrv's lookup by descriptor safe when its table is stale.
* `PipelineInOrder` — for each connection the answered requests, then those in
  `sendmsg`, the channel, the message at midsrv, the queue and `recvmsg`, in
  this order, are exactly the requests that insrv has read: none lost, doubled,
  overtaken or at another connection, at any stage (orphans excepted).
* `MapFollowsSlots` — midsrv's table, after the messages still under way, is
  insrv's slots; after a restart of midsrv, those that it can know of.
* `DispatchInRange` — a login never goes to channel 0 or 65535.
* `OutMeansPending` — EPOLLOUT is on only while an answer waits.
* `OwnAnswerLeaves` — and while an answer waits in the slot of its own client, it
  is on: a client's requests, partial sends and errors never block its own
  channel. (An answer to somebody else can: `misdelivery`, section 5.)
* `AnsweredOnce` — whatever else goes wrong, no answer is invented and none is
  sent twice.
* `ServesLogins` — refinement with liveness: the system is a `LoginService`,
  which abandons the clients that are connected when a server starts again and
  serves all the others.
* `GoneIsReleased` — a connection whose client is gone loses its descriptor.

`NameCounter`:
* `SomeoneResets` — while `tmp` is too high, some thread has its comparison or
  its reset before it; an overwritten reset is not lost for good.
* `CounterComesBack` — it becomes low enough again.

Three more (`AnswersGoHome`, `RetainedIsTaken`, `EndsOnlyWhenKilled`) and two of
the ring (`AcknowledgedIsPending`, `NonEmptyIsReadable`) state what a comment of
the code says and the code does not do: section 5.

## 4. Runs

| run | instance | shows |
|---|---|---|
| `ring` | 3 messages of 2, 2 and 4 bytes, header 2, ring of 11 | `QueueInv`, `EmptyMeansDrained`, `NonEmptyReadable`, `IsFifo` |
| `spsc` | messages as in `ring`, ring of 9, one kill at any point of a call while the other process sleeps | `WritesOnlyFree`, `PendingIntact`, `CallsAreAtomic` |
| `channels` | 2 channels of 5 bytes (object 2, ring 3) in a segment of 11, messages of 2, a clock with 2 readings | `ObjectsIntact`, `CursorsInRange`, `CountsCalls`, `ChannelsAreQueues` |
| `patient` | 2 slots, 2 connections, 2 logins each, ample queues, clients that wait for their answers, midsrv killed once at any time | `PipelineInOrder`, `MapFollowsSlots`, `ServesLogins` |
| `reuse` | 2 slots, 3 connections, 1 login each, clients killed at any time, ample queues | `SlotsMatchSockets`, `IndexIsDescriptor`, `MapFollowsSlots`, `OutMeansPending`, `OwnAnswerLeaves` |
| `tight` | 1 slot, 2 connections at a time, 2 logins each, a queue that holds one login, one answer per channel, sockets with room for one unit, `epoll_ctl ADD` may fail, clients killed at any time, insrv killed once and ended by SIGPIPE at any time | `TypeOK`, `AnsweredOnce`, `DispatchInRange`, `GoneIsReleased` |
| `names` | 3 threads, 2 names | `SomeoneResets`, `CounterComesBack` |
| `ring_exact_fill` | ring of 8 bytes, messages of 2 and 4 | violation, section 5 |
| `restart` | as `spsc`, but a process may start at any time | violation, section 5 |
| `misdelivery`, `retained_login`, `peer_gone` | 2 slots, 2 connections | violations, section 5 |

**Why these bounds.** In the ring of 11 the cursors reach every position that
they can reach with lengths 2 and 4, both the header and the body are split by
the end, and all refusals happen; the proofs cover all other sizes. `spsc` needs
no more: each side has one call at a time, and a ring of 9 lets each wrap while
the other is at any of its steps. In the whole system three connections in two
slots give reuse of a slot and of its descriptor while the other slot is in use
or closing, with CLO_CONNECT and NEW_CONNECT of several connections under way;
two requests of one connection give an answer behind another one; a request of
3 units with a header of 2 is split inside and after the header. `MaxReq` bounds
the logins of a client; after the last one it only reads. insrv's loop goes on
when there is nothing to do, so a state without a next step would be an error:
every run but `names` checks for deadlock (there all threads may have returned).
In `channels` a ring of 3 bytes and messages of 2 make every second push wrap
with a split of 1 and 1; a third channel would only repeat the second, since the
proofs need no more than "another channel". `MaxCount` bounds the calls counted
in an interval, `MaxTmp` how far the counter is followed: a thread does not load
a number above it, and every number up to it is reached. `InsrvKills` and
`MidsrvKills` bound kills, not the ends by SIGPIPE.
`FirstFd` is the lowest descriptor of a connection (the standard streams, the
epoll and the listening socket are below it); 2 in the runs, so that a
descriptor is never its slot's index but may be another slot's.
`Patient` and `MaxOpen` describe the environment, not the server: clients that
leave only after their last answer, and how many are open at a time.
`MaxOpen` above the number of slots, in `tight`, makes accept go on without a slot.

**Fairness.** Both servers are endless loops that sleep for a bounded time, so a
step of each that can be taken is taken (`WF_vars(InStep \/ InsrvDies)`,
`WF_vars(MidStep)`; the loop of insrv takes its passes and events one after
another, so fairness of the whole step is fairness of each part: `pc` goes
through all three). A server that has ended is started again in the end, which
is what an operator does. A client thread loops until it is killed (`WF` of its
send and recv); nothing makes a client connect or leave. Strong fairness is
assumed in one place, `RoundRobin` of `CrowdedSpec` (run `tight`): with more
ready descriptors than `epoll_wait` may return (`EPOLL_SIZE`), the kernel goes
round among them, as its manual page states; without it a ready descriptor could
be left out for ever. `NameCounter` assumes that each thread keeps running.

## 5. Disagreements with the comments

Each has a run whose counterexample shows it.

* `ring_exact_fill` (`queue/CQueue.cpp:33`): `push` accepts a message that fills
  the ring to its last byte; after a wrap `w = r`, `size()` is 0, and all that
  was acknowledged is gone. The comments say that all free bytes are usable and
  that the returned length means success. The deployment's lengths never fill a
  ring exactly, so it does not happen there; `Granular` is the proof of that.
* `restart` (`midsrv/midsrv.cpp:26`, `insrv/insrv.cpp:25`): `push` is called
  atomic and a queue that is not empty is said to hold a message, but a process
  that starts clears the queue without regard to a push in progress. Its
  `w += len` then makes bytes from offset 0 visible: an old message, and the
  first part of the new one. Run `spsc` shows that the same restart is harmless while
  the other process is between its calls.
* `misdelivery` (`queue/CShmQueueMulti.cpp:124`): "we assume they correspond
  one to one", but an answer that is in its channel when its client is killed
  goes to the next connection in that slot. The same happens to an answer that is
  popped while the slot is free: `sendflag` stays 1 in the free slot
  (`queue/CShmQueueMulti.cpp:145`), `idle()` gives the slot out with it, accept
  sets `srvfd` only, and the channel of the new connection is passed over
  (`queue/CShmQueueMulti.cpp:137`).
* `retained_login` (`socket/CSocketSrvEpoll.cpp:362-363`): a login kept in
  `recvmsg` because the queue was full is tried again only when its client
  sends more, and the client waits for the answer. The comments say that it is
  kept for the time being and should be taken away through the queue; the second
  is a TODO that admits a problem there, and the run shows which.

* `peer_gone` (`socket/CSocketSrvEpoll.cpp:217`): an error of `send` is meant to
  clear one slot and close one socket, but a second send to a client that has
  closed raises SIGPIPE, which is not handled, and ends insrv.

Without a run, because they are plain from the line: `idle()` is said to return 0
when no slot is free (`socket/CSocketList.h:19`) and returns -1; cursors are said
to be in 0..NMAX-1 (`queue/CQueue.h:14`) and may be NMAX, which is harmless by
`ring` and the proofs; `check(str)` prints milliseconds as "seconds"
(`common/CStatistics.cpp:75`, compare line 60); the header is said to have
`sizeof=18` (`msg/CMsgHead.h:6`) and has 20 with its padding, which every user
takes from `sizeof`.

`ServesLogins` therefore holds of a `patient` environment and not of the others.

## 6. What is proved

### The byte ring

`CQueue_proofs`, for every `Msg`, `MsgLen`, `NMAX`, `HDR` and `Granule` with

* `QueueAssumption` — capacity and header are positive, and a message is at
  least as long as its header;
* `GranuleAssumption` — the lengths are multiples of a granule that does not
  divide the capacity.

| theorem | statement |
|---|---|
| `QueueInvariant` | `Spec => []QueueInv` |
| `NothingLost` | `Spec => []EmptyMeansDrained` |
| `HeadReadable` | `Spec => []NonEmptyReadable` |
| `RingImplementsFifo` | `Spec => IsFifo` |

The argument. `TypeOK` and the last two properties are not inductive by
themselves: that a reader decodes the right length needs to know what lies at
the read cursor, which needs to know that no push since has overwritten it,
which needs the place of every pending message. `Layout` says it with offsets
from `r`, so that a push changes no offset and a pop shifts all by
one length. A push writes to the bytes at offsets `Size .. Size + len - 1`; these do
not meet the pending ones because `Size + len <= NMAX` and `PosOf(r, _)` is
one-to-one on `0 .. NMAX - 1`. `w` must equal `PosOf(r, Size)`, which fails
exactly when the ring is filled to its last byte; `Granular` excludes it.
Each push and each pop then has a lemma for its cursor (`SizeOf` after it) and
one for the bytes, and the invariant's step has one case per action. The
refinement maps `fifo` to the messages of `q` and `used` to `Size`; each call is
the `MsgFifo` action of the same name, reads by `NonEmptyReadable` and the last
conjunct of `Layout`.

### The ring between two processes

`CQueueSpsc_proofs`, under the same assumptions on the messages and the capacity
(`SpscAssumption`), for every `MaxRestarts`, and with `Quiet`: a process is
killed and started only between the other's calls. Without `Quiet` the
properties are false (run `restart`).

| theorem | statement |
|---|---|
| `ConcurrentInvariant` | `Quiet` implies `Spec => []SpscInv` |
| `PushSparesPending` | `Quiet` implies `Spec => []WritesOnlyFree` |
| `PendingStaysIntact` | `Quiet` implies `Spec => []PendingIntact` |
| `CallsImplementFifo` | `Quiet` implies `Spec => CallsAreAtomic` |

The argument is that of reduction: a call amounts to the call of `CQueue` at its
last access. `PushInv` says that what a push loaded is still good when it
stores: the reader only makes room, so the message still fits, `w` is its own,
and the choice between one memcpy and two depends on `w` alone; and that the
bytes it has copied are in place. `ReadInv` says it of a read: the oldest message
is still the oldest, and the branch taken by the `w` of the load still finds its
bytes: a `w` that was below `r` stays below it while the message is pending, and
otherwise the message does not reach the end of the ring; and that what the first
of two memcpys has fetched (`HasPart`) is the message's. The stores are then `PushWhole`, `PushSplit` and `ReadHead` of `CQueue`
(`StoreIsPush`, `StoreIsPop`), and the lemmas of `CQueue_proofs` give the ring
after them; the copies touch no pending byte (`OutsideKeeps`).

### The segment and the meter

`CShmQueueMulti_proofs`, for every number of channels, segment size, object
size, set of messages, clock and interval with `MultiAssumption` (a channel is
larger than its CQueue object, a message at least as long as its header).

| theorem | statement |
|---|---|
| `MeterCounts` | `Spec => []CountsCalls` |
| `CursorsStayInRange` | `Spec => []CursorsInRange` |
| `ObjectsStayIntact` | `Spec => []ObjectsIntact` |
| `ChannelsStayApart` | `Spec => ChannelsAreQueues` |

The address ranges `pq(i) .. pq(i) + size - 1` of two channels are disjoint (a
fact about products that needs a lemma of its own), a memcpy of a push that
starts at a cursor in the ring ends in the ring, so the views of all other
channels and all objects are unchanged, and the view of the channel itself
changes as `CQueue`'s `buf` (`EachChannelSteps`). This needs the cursors in their
rings, since a cursor outside copies elsewhere, and that they stay there has an
inductive invariant of its own, `RingsFramed`: the bytes between the cursors of
a ring are whole messages, cut at the elements of some set (`CutsAt`). A read then
moves `r` by the length of the message that starts there, never beyond `w`. The
granule assumption of `CQueue_proofs` is not needed, nor the history variable
`q`: when the lengths let a push fill the ring to the last byte, the cursors meet
and show an empty ring (`MetFramed`). Acknowledged messages are then lost, but no
cursor leaves its ring and no copy goes astray.

### The servers

`GameServer_proofs` and the two modules that extend it, for every number of
slots, connections, logins, every length and capacity, with or without failing `epoll_ctl`, with any number of
kills and restarts of both servers, and clients that leave at any time. The
assumptions are `GameAssumption` (indexes and descriptors fit in 16 bits;
descriptor 0 is not a connection's) and `ServerAssumption`
(the listening socket is not a connection's). The bound on descriptors is on
`Cardinality(Conns)`, hence on all connections ever made and not only on those
open at a time, of which there are 4000: the theorems are about behaviours of
fewer than 65536 connections, although descriptors are reused long before.

| theorem | statement |
|---|---|
| `SlotsKeepDescriptors` | `Spec => []IndexIsDescriptor` |
| `NothingIsSentUnasked` | `Spec => []OutMeansPending` |
| `LoginsStayInRange` | `Spec => []DispatchInRange` |
| `EverySocketHasItsSlot` | `MaxOpen \in Nat /\ MaxOpen <= EPOLL_SIZE` gives `Spec => []SlotsMatchSockets` |
| `QueuesStayInBounds` (`GameServerFlow_proofs`) | `Spec => []TypeOK` |
| `EveryAnswerOnce` (`GameServerFlow_proofs`) | `Spec => []AnsweredOnce` |
| `MapKeepsUp` (`GameServerFlow_proofs`) | the same premise gives `Spec /\ [][TellsMidsrv]_vars => []MapFollowsSlots` |
| `RequestsStayInOrder` (`GameServerOrder_proofs`) | `Orderly` gives `Spec /\ [][TellsMidsrv]_vars => []PipelineInOrder` |
| `AnswersGoToTheirClient` (`GameServerOrder_proofs`) | the same gives `[]AnswersGoHome` |
| `ServersServeLogins` (`GameServerOrder_proofs`) | the same gives `Service!Safe` |

A lemma `StepForm` first says what any step does to the slots and descriptors:
nothing, an answer or a request in one slot, a new interest, an accept, a close,
or the end of the process. Each theorem has its invariant:

* `PairInv` — the table and the sockets are functions on their sets (`Table`,
  `Sockets`), the backlog holds connections and is not empty while the listening
  socket has an event (`Waiting`), and `Paired`: a slot's descriptor is -1 or
  `FdOf(i)`, and the slot is in use exactly when `FdOf(i)` is open. The
  equivalence is the strengthening: it makes the descriptor of the lowest free
  slot the lowest free one, which is what accept returns; a descriptor that
  accept returns when no slot is free then lies above those of all slots.
* `OutInv` — `OutMeansPending`, and a closed descriptor is watched for nothing
  (`Quiet`), so that a new socket meets no old interest. It uses `PairInv`.
* `RouteInv` — in the queue and at midsrv, a NEW_CONNECT carries a `GoodPair`,
  that is, a slot's index with its own descriptor, or 65535 with a descriptor
  of at least `FirstFd + EPOLL_SIZE`, and the destination of a LOGIN is a
  slot's descriptor; every entry of the table is zero in both columns or a
  `GoodPair`. So the descriptor of a login is never found in a free entry or
  under 65535. A CLO_CONNECT is not constrained: it only empties entries.
  `PairInv` gives the pairs that insrv announces.
* `OpenInv` — `PlaceInv`: no connection has two descriptors, two places in the
  backlog, or one of each (`Distinct`), and one that has a place is not idle
  (`Begun`), which holds without a premise (`PlaceInvariant`); and with it: at
  most `MaxOpen` have a place (`Few`), and every open descriptor is that of a
  slot (`Low`). `Low` is the part that matters: `accept` could break it only when all
  slots are in use, but then the slots' connections and the one at the head of
  the backlog would be `EPOLL_SIZE + 1` different ones with a place
  (`RoomForNext`, by the pigeonhole theorem). With `PairInv` this gives
  `SlotsMatchSockets`.

* `TypeInv`, `StreamInv`, `FlowInv` — `QueuesStayInBounds` and
  `EveryAnswerOnce` rest on `FlowSteps`: every step of `Next` is one of fifteen effects on the slots, the
  queues and the bytes, such as "the slot takes *t* units and hands the request
  over or keeps it" (`ReadsUnits`), "the channel gives its head to the slot"
  (`TakesAnswer`), "the queues are cleared" (`Clears`). The invariants are then
  shown effect by effect.
  * `TypeInv` strengthens `TypeOK` by `RightSlot`: `recvmsg` is complete exactly
    while `recvflag` is 1, and `sendmsg` incomplete while `sendflag` is 1.
    Without it, the units read into `recvmsg` could pass `ReqLen`. That the
    queue to midsrv stays within `SinqCap` needs the sum of its lengths after a
    push and after a pop, from the lemmas on folds.
  * `StreamInv` ties a slot to the bytes of its connection: what was consumed is
    a number of whole requests plus what `recvmsg` holds (`InStepWithBytes`), the
    units that wait belong to the requests after those (`Streams`), and a
    connection that has no slot yet has consumed nothing (`Unstarted`); the
    latter is what a slot meets that is taken again after an `erase`. So the
    request that becomes complete is the next one of its connection
    (`ReadsWhole`), which the server has not read before.
  * `FlowInv` follows a request: from `recvmsg` or the queue over midsrv and a
    channel to `sendmsg` it is at one place at a time (`InOnePlace`); at all
    places but `sendmsg` no unit of its answer has been sent, and there as many
    as `n` says (`ReadBefore`); a client has units of nothing else, and never
    more than an answer (`Delivered`). A step moves requests, each to a place of
    its own, or loses them (`FlowMoves`); only a read brings a new one in
    (`FlowEnters`); a send adds units to the one it sends (`AtSends`).
    `AnsweredOnce` alone is not inductive: it does not see the copy of an answer
    that a retry or a restart would leave behind.

* `MapInv` — midsrv's map and the queue to it. `Follows` says of indexes what
  `MapFollowsSlots` says of registrations: the slots in use, but those of
  orphans (`Known`), are among the indexes in the map once midsrv has handled
  what is pending (`Told`), and are all of them until insrv has ended. It needs
  the types of the map (`MapTables`: an index stands with its own descriptor and
  only once, so that a table without a free entry holds every slot, by the
  pigeonhole theorem, and `reg()` refuses only what it has), that a NEW_CONNECT
  is about a slot (`MapMsgs`, from `OpenInv`), that an insrv that is down has no
  slot in use (`DownBlank`) and that an orphan is never accepted again
  (`Outdated`). A step of insrv's loop appends at most one message and changes
  `Known` as that message changes `Told` (`InsrvTells`, `After`); a step of
  midsrv moves the front of the queue into the map and leaves `Told` as it is
  (`MidTells`). `FoldedAppend` and `FoldedHead` are the two ends of this.

* `OrderInv` — the order of a connection's requests. Let its client have *a*
  answers, and let the server have read *r* of its requests. `Counted`: the one in
  `sendmsg` and those in the channel are the requests after the *a*-th, in order,
  and no more than *r - a* requests are anywhere in the servers. `Complete`, for a
  slot that midsrv knows and while midsrv is up: the logins on their way to
  midsrv and the one in `recvmsg` are the next, and all together there are
  *r - a*. `PipelineInOrder` is `Complete` alone, and is not inductive:
  * A midsrv that ends loses logins, and a new one does not know the slot; but the
    channel still delivers what it has, and a later request of that client must
    not overtake it. Of such a slot `Counted` is left (`SlotOrder` has both cases).
  * The answers a client has are counted in units. A part of an answer is with the
    client of the slot that has the rest (`InParts`), its units are in the order
    of the requests (`Served`), and a client that waits for `accept` has none
    (`Unserved`).
  * A slot that is free has nothing in its channel, in `sendmsg`, in `recvmsg` or
    on the way to midsrv (`Bare`), so that the next connection starts from
    nothing. `close` would break this, but insrv closes only what the client has
    closed, and a client that closes has all its answers (`Settled`), so that
    nothing of it is left in the servers (`GoneHasNone`).
  * A login on its way to midsrv is not followed by a message about its slot
    (`LoginsLast`), so that midsrv knows the slot when it handles the login
    (`LoginIsKnown`, from `MapInv`) and dispatches it to that slot's channel
    (`LoginSlot`, from `RouteInv`).
  * insrv never sends to a client that is gone, hence never meets SIGPIPE
    (`InsrvStays`).

`FoldTheorems` has the lemmas that these and other proofs cite: least and
greatest elements, induction up to a bound (as a fact about sets, since the
provers cannot instantiate an induction rule), quotients, and that `FoldLeft` of
the community modules adds its elements one at a time from either end
(`FoldedAppend`, `FoldedHead`), for a step that is a function.

The premise of `EverySocketHasItsSlot` is one on the environment, and it is needed:
nothing in insrv refuses a connection when the slots are all taken, and the
socket that is accepted then has no slot. Run `tight` reaches such states, and
does not check the property.

`MapKeepsUp` has it too, and a second premise, `TellsMidsrv`: when insrv opens or
closes a socket, the queue to midsrv changes. That fails when the queue has no
room for the NEW_CONNECT or CLO_CONNECT, or when `epoll_ctl` fails for a socket
that was just accepted. The code logs either and goes on
(`CSocketSrvEpoll.cpp:188-199` and the `pushmsg` of each error branch), midsrv is
never told, and its map stays wrong; the theorem is about the behaviours without
this, for any capacity. The runs `reuse` and `patient`, which check
`MapFollowsSlots`, exclude it by `SinqCap` and `CtlFails = FALSE`; with a full
queue `tight` does not check it.

The three theorems of `GameServerOrder_proofs` have these two premises and three
more, together `Orderly`:

* `Patient`, clients close when their last answer has been read: an impatient
  one leaves an answer for the next connection of its slot (run `misdelivery`).
* `InsrvKills = 0`: an insrv that ends drops what it holds. That it does not end by
  SIGPIPE is proved (`InsrvStays`).
* `ChanCap >= MaxReq * RspLen`, a channel holds the answers to all that one client
  asks: midsrv drops an answer when the channel has no room for it
  (`CMidHandle.cpp:106`, the failure is only logged). At the deployed sizes, 112
  bytes in 2085, these are 18 logins of one connection, while `simclient` goes on
  for ever. That it waits for some of an answer before it asks again is not used.

Each excludes something that really breaks the order in this code. midsrv may
end and start at any time, and the length of reads and sends, the number of
slots, clients and requests, and `SockBuf` are free. The run `patient` is an
instance, and in it `TellsMidsrv` holds of every step.

The refinement (`ServiceStep`): in states with `OrderInv` the answer *k* of client
*c*, read off the units in its inbox, is `<<c, k>>` (`ResponseIs`, from `Served`), so
that the mapped `answers` are a function of how many there are. A step of
insrv that sends the last unit of an answer is `Answer(c)`, which is enabled since
the slot still holds a request that was read (`OrderSendsUnits`); a client's unit
that completes a request is `Ask(c)`; a start of midsrv is `Restart` with the
clients accepted by then; every other step stutters. What `ServesLogins` has
beyond this, that answers come in the end, is left to run `patient`.

### The name counter

`NameCounter_proofs`: `CounterIsReset`, `Spec => []SomeoneResets`, for every set
of threads and every `up`. The property is inductive with the types alone; the
bound `MaxTmp` is not used.

## 7. What is only model-checked

* Liveness, which rests on fairness: that every login is answered in the end
  (`ServesLogins`; its safety part is proved), `GoneIsReleased`, `CounterComesBack`.
* `OwnAnswerLeaves`. A proof would have to join `OutInv` with `FlowInv`: a slot
  that is taken again holds no answer to the connection that takes it.

## 8. Not modelled

* The segment calls (`shmget`, `shmat`, `shmdt`, `shmctl`) and a start whose
  `open()` or `shmget` fails: `main` ignores the results, and such a server does
  nothing that others could observe but clear the queues.
* The system calls of `common/common` other than connect and the signal handler,
  and `GetRandomInteger`, which nothing calls.
* The fields of the login messages (`msg/CMsgPara`): they are copied and printed,
  nothing branches on them. `buf2para`, `para2buf` and `print` have no caller.
* `myclose`, and `full`, `empty`, `popmsg_just` and `topmsg` of `CShmQueueSingle`,
  which have no caller, and the empty files `log`, `outsrv`, `CSocketCli`.
* The kernel beyond the calls used here: descriptors of other files, a full
  table of descriptors, `EINTR`.
* More than one insrv or midsrv on the same keys.
