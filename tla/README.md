# A TLA+ model of bvex-link

bvex-link downlinks the telemetry of a balloon experiment. Onboard programs store
*samples* of *metrics* in a Redis cache; an onboard server downlinks the latest
sample of each metric a client subscribes to, at a bit rate; a ground program
subscribes to every metric, lets an operator distribute the bit rate, and serves
samples to a display (Open MCT).

This directory holds modules that model the parts of it that run concurrently, the
TLC configurations that check them on small instances, and theorems that TLAPS
proves for instances of any size. `PROJECT.json` relates every definition to the
lines it models, and lists runs, findings, hazards and theorems.

    tlc -workers 2 -config MCOnboardServer_safety.cfg MCOnboardServer
    tlapm OnboardServerProofs.tla

## Inventory

| part | state | operations | interacts with |
|---|---|---|---|
| onboard server (`onboard-server-py`) | per connection: where `handle_connection` is, `current_task`, `command_queue`, the stream's buffers; the stop event | read a telecommand, run it, downlink a metric, list the metrics, stop | clients over TCP, Redis |
| sample cache (`bcp-redis-client`) | `sample-cache:<id>` and `sample-channel:<id>` in Redis | `set_sample`, `get_sample`, `get_all_metric_ids`; `SampleSubscriber`: a listening thread, a lock, a condition | producers, the onboard server |
| codec (`codec`) | none | validation and (de)serialisation of `Telecommand`, `Telemetry`, `Sample` | both sides |
| metric subscription handler (`command/src/sync_metric_ids.py`) | `metrics`, `metric_subscriptions`, `max_bps`, the distribution mode, the sync task | `add_metric`, `update_bps`, `set_max_bps`, `redistribute_bps_fairly`, `sync_metric_ids`, exit | the onboard server, the subscriptions, the workers |
| subscriptions (`command/src/subscriber.py`) | a connection and a task each | connect, subscribe, hand samples on, close | the onboard server, the telemetry server |
| ground server and CLI (`command/src/server.py`, `cli.py`) | two queues, two workers | `setbps`, `setmaxbps`, `getmetricinfos` | the subscription handler |
| telemetry server (`command/src/telemetry_*.py`) | websockets and what each listens to; the history in Redis; files | fan a sample out, store it, answer queries | subscriptions, Open MCT |
| Open MCT plugins (`openmct`) | listeners per metric, one websocket | subscribe, unsubscribe, query | telemetry server |
| command server in C (`bcp-fetch-client/src/command_server.c`) | connection table, poll set, commands pipe, a thread | accept, read, broadcast, receive, destroy | TCP clients, the threads of the program |
| request/send sample in C (`request_sample.c`, `send_sample.c`) | a UDP socket | request a sample, send a sample | a UDP server |
| legacy segmentation (`shared`) | none | segments of a sample, datagrams, acknowledgements | nothing in the repository |

What is hard in it, and what correctness means:

* **onboard server** - a handler and its task share a transport and end in any
  order: neither a task nor a socket may outlive the handler, and nothing may be
  written once it is finishing. The task reads Redis and then awaits: samples may
  not be repeated, reordered or mixed, and the latest one must arrive. A slow client
  must not make memory grow. Resets, ends of stream and the server's stop meet every
  one of these states.
* **subscription handler** - three coroutines call `update_bps` for the same metrics.
  Each cancels, awaits and replaces a task, with a timeout that cancels one of them in
  the middle: no metric may be left without a subscription, no caller may wait for
  ever, and the operator's rate should be the rate in force.
* **telemetry server, plugins** - one sample fans out to many receivers, one of which
  may fail; a socket is shared by several listeners.
* **SampleSubscriber, C command server, UDP requests** - threads, a condition, a
  bounded pipe, lost and late datagrams.

`PROJECT.json` lists each hazard at its line, with the property that covers it or the
reason why none does yet.

## Modules

| module | what it is |
|---|---|
| `TelemetryStream` | abstract specification: what a client of the onboard server is promised |
| `SampleSubscriber` | `set_sample` and `SampleSubscriber` of `bcp_redis_client/sample.py` |
| `MCSampleSubscriber`, `SampleSubscriberProofs` | its instances and a claim of its docstring; its invariant and theorems |
| `OnboardServer` | `server.py`, `handle_commands.py` and their reads of the cache |
| `MCOnboardServer` | its instances for TLC, and a claim of a comment that the code does not keep |
| `OnboardServerProofs` | its inductive invariant and theorems |
| `MetricSubscribeHandler` | `sync_metric_ids.py`, `subscriber.py`, the workers of `server.py`, the CLI |
| `MCMetricSubscribeHandler` | its instances for TLC, and a claim of the README of `command` |
| `MetricSubscribeHandlerProofs` | its inductive invariant and theorems |
| `Downlink` | composition: the onboard server as `TelemetryStream`, TCP, and the reads of `subscriber.py` |
| `MCDownlink`, `DownlinkProofs` | its instance; its invariant and theorems |
| `TelemetryServer` | `telemetry_server.py`, the realtime and history managers, the interactive page, the realtime plugin of Open MCT |
| `MCTelemetryServer`, `TelemetryServerProofs` | its instances; its invariant and theorems |
| `CommandServer`, `MCCommandServer` | `command_server.c` of `bcp-fetch-client`; its instance |
| `CommandServerProofs` | its inductive invariant and theorems |
| `BoundedSets` | lemmas: a set of numbers has a least element and, if bounded, a greatest |

The modules meet at interfaces that each side states. `OnboardServer` implements
`TelemetryStream`; `Downlink` takes its onboard side from `TelemetryStream` (its actions
are conjuncts of the actions there) and shows `FeedInOrder`; that is what the guard of
`TelemetryServer!AddSample` assumes of a subscription. In the other direction the
fairness of `Downlink` (the onboard task downlinks what is new while it lives) is what
`LatestIsDownlinked` shows of the onboard end. That `handle_sample` ends is not assumed:
`AddSampleTerminates` names what can hold it. The set `raced`
of both ground modules names the metrics that had two live subscriptions at a time, which
`ground_rate` shows to be possible; their properties about the order of samples are
about the other metrics.

Definitions whose comment begins with *Fault* are not part of a model. Each is a
plausible mistake in the definition that follows it, and `PROJECT.json` pairs it with a
property that it breaks.

### OnboardServer

One action is what a coroutine does between two awaits at which it really suspends, so
the interleavings of the model are those of the event loop. `pc[c]` says where
`handle_connection` is suspended: `top` (in `asyncio.sleep(0.2)`, or about to run the
body of the loop), `reading` (in `reader.read`), `cancelling` (awaiting the task in the
`finally` clause), `closing` (in `wait_closed`), `done`. `task[c]` says where
`run_command` is: `starting`, `fetch` (GET sent), `fetched` (answer there, not yet
processed), `drain`, `sleep`, `scan`, or how it ended. `inbuf`, `queue`, `cmd`, `last`
are the reader's buffer, `command_queue`, the telecommand and `last_sample`. `wrote[c]`
is everything that was ever written to the transport and `taken[c]` how much of it the
client has read; the difference is what the kernel and the transport hold.

Details taken from the code and easily overlooked:

* a telecommand is an instance of `Telecommand`, so the branches for `Cancel` and `End`
  are never taken (`ReadCommand`);
* after the first command `current_task` is never `None` again, so later commands are
  queued and nothing takes them from the queue;
* several telecommands in one read are no telecommand (`ReadGarbled`); bytes that are
  not UTF-8 end the handler, because `UnicodeDecodeError` is not caught (`ReadNotUtf8`);
* `redis.ConnectionError` is no `ConnectionError`, so that awaiting a task it ended
  raises in the `finally` clause and `writer.close()` is skipped; asyncio then closes the
  transport of the failed handler (`AfterTask`);
* the end of the stream does not end the loop (`ReadEof`), and the stop event is not
  looked at inside a read (`ReadBlocks`);
* the asynchronous `get_sample` validates whatever GET returns: `None`, when no sample is
  stored or the cache was flushed (`Flush`, `flushed`), and a float that is not finite,
  which is stored as `null` (`bad`), both raise `ValidationError` and end the task
  (`Cached`, `SampleRejected`).

Abstractions. A sample is its number in the order of `set_sample`: its timestamp makes
it differ from the ones before. Sizes are counted in messages; `KernelBuf` stands for
the socket's send buffer, which `downlink_loop` sets to twice the sample's size, and
`HighWater` for the transport's limit; `drain` goes on as soon as the backlog is no
longer over the limit. Time is left out: a sleep ends at some later step, so
`max(min_sleep, bytes_sent / bps)` matters only where it divides by zero. Redis answers
or fails at each call; a Redis that restarts from an older snapshot is left out, because
numbers of samples would then not tell them apart. `Server.wait_closed` waits for all connections, as it does since
Python 3.12.

### MetricSubscribeHandler

`table` and `sub` are `metric_subscriptions` and the tasks in it; a task object is a
number of `SubIds`, used again once nothing refers to it. An `update_bps` is split at its
await: `StartUpdates` sets the rate, cancels and begins to wait, `Resume` replaces the
task or raises what it ended with. `waiters[i]` are the calls awaiting task `i` in the
order the event loop resumes them. The calls that a TaskGroup creates are queued behind
whatever is ready (`spawned`) and run later, one right after the other
(`ChildrenStart`). Three owners call `update_bps`: the sync task, the worker of `setbps`
and the worker of `setmaxbps`.

Details: a child that the TaskGroup or the timeout cancels takes that for the end of the
task it awaits and goes on (`Aborted`, `SyncExpires`); `add_metric` subscribes at 0 bps
first; an exception of a subscription is raised again by the next `update_bps` of its
metric and, through a worker, ends `gather` and with it the server (`GoDown`, which
collapses `__aexit__` and the end of the event loop into one step); `max_bps //
len(metric_ids)` divides by zero when no metric is known.

Abstractions. The order in which a set of new ids is added is arbitrary. The telemetry
server is left out: it appears as `handle_sample` raising in `SubBreaks`. What samples
arrive does not matter here.

### SampleSubscriber

One metric. A producer SETs a sample (`SetSample`), PUBLISHes it (`Publish`) or dies in
between (`ProducerFails`); `cache` counts the SETs, `published` is the channel. The pubsub
connection has requests on their way to Redis, and an inbox of places in the channel with
0 for a confirmation. It may be lost at any time (`ConnectionLost`, `broken`); the thread
that meets this ends with redis-py's exception, or redis-py subscribes again on a new
connection (`ThreadMeetsLoss`).
`thread` is the listening thread, which holds a validated sample (`storing`) before it
takes the lock. `wait_for_sample` is three steps, because it gives the lock up between
its look and its wait (`WaitCall`, `WaitBlocks`, `WaitReturns`). `__exit__` sets the event,
unsubscribes and joins; what wakes the thread is the confirmation. `p.unsubscribe()` may
itself meet the lost connection: it reconnects, while the thread may still be reading from
the old one, or it raises, and `thread.join()` and `p.close()` are skipped (`Unsubscribe`,
`block = "raised"`). That is the object's last state: to enter it once more after an
`__exit__` that raised, with the old thread perhaps still there, is not modelled. An
`__enter__` that raises changes nothing.

A float that is not finite is serialised as `null`, which no reader accepts: the sample is
in `bad` (`Encoded`), and the first such message ends the listening thread with an
exception that nobody sees (`Handle`). Which value a sample has does not matter otherwise.

### Downlink

A byte is `<<v, i>>`, byte `i` of the telemetry that carries sample `v`. A read returns any
number of bytes up to what has arrived and to `ReadMax`; exactly one whole message is
handed on, data that begins or ends inside a character raises `UnicodeDecodeError` and
ends the subscription, and everything else is dropped. `downlink_loop` remembers
`last_sample` and never sends it again: a dropped sample is gone, and if it was the last
one stored the ground never sees it. No property denies that; `KeepsUp` says that reading
goes on and comes to the end of what was written. The onboard task may die while the
connection stays (`DownlinkRaises`, the link is `mute`): then nothing more comes, and the
subscription waits in a read for as long as the link lasts.

### TelemetryServer

`feed[f]` is a task of `subscribe`, `notify[f]` and `store[f]` the two children of its call
of `add_sample`, `sends[f]` the grandchildren that write to the websockets. asyncio starts
tasks in the order they were created, and tasks created in one step start one right after
the other: the two children take their first steps together (`ChildrenStart`), and so do
all sends (`SendsStart`). This is why every subscribed socket is sent every sample,
although a send that raises cancels the others: by then each has written its frame. The
cancellation of a task runs behind the first steps that were ready before it.

`send_text` has no timeout. A send whose frame is written waits for the page to read
(`SendDrained`, which nothing makes happen) or for the connection to go
(`SendDrainFails`); the keepalive ping of the connection waits in the same drain before
its own timeout begins, so a page that stays connected and stops reading holds
`add_sample`, and with it the subscription (`HeldByPage`).

`conn`, `up`, `ep` are a websocket, its messages on the way, and its `websocket_endpoint`;
`active` and `ids` are `active_connections`. The endpoint crashes, and leaves its entry
behind, on a malformed request and on a `receive_text` after a failed send (`Receive`).
`views` are the views of an Open MCT page that listen to a metric, `spoiled` the metrics
about which the plugin misled the server: it unsubscribes the socket when one of several
views leaves, and it calls `send` before the socket is open.

`store_file_sample` is left out because it is never called: what `subscribe` decodes is a
`Sample` and never a `FileSample`. The history's HTTP endpoint only reads. Ids of
metrics contain no space in this model: `message.split(" ")[1]` would cut such an id at the
first one, and the socket would listen to a metric that does not exist.

### CommandServer

Two threads without a lock. `server_thread` is at the top of its loop, in `poll`, `accept`,
`read`, one of the two writes to the pipe, or inside `memmove` (`Shift`, entry by entry, as
another thread may see it). `rev` are the `revents`: they are indexed by the place in the
table at the time of the poll, and not shifted with it; what was accepted in the same turn
is looked at with whatever was left in its place, at first uninitialised memory (`Init`).
So the thread may be in a `read` that nothing answers (`HeldByClient`), and no client is
served until that one sends. The pipe holds `PipeSize` cells; writes of up to
`BUFFER_SIZE - 1` bytes are below `PIPE_BUF`, hence atomic.

The application's thread calls `command_server_recv`, `_broadcast` and `_destroy` in any
order. A broadcast is a step per entry. The first write to a connection whose client has
closed it succeeds and is answered by a reset; one to a connection that its client has
reset (it closed with data unread, or died: `Aborts`) fails with ECONNRESET, the broadcast
goes on and will return -1 (`WriteFails`, `success`). The next write to either raises
SIGPIPE (`killed`). `Aborting` are the clients that go in the second way.

Abstractions. A descriptor is named by its client, so that a number that is used again is
not seen; that could only matter between the look at an entry and the write to it in a
broadcast, which are one step here. Data is counted in pieces; what a NUL byte or a
`strdup` that fails does to the text that `command_server_recv` returns is left out. So are
calls that a signal interrupts (EINTR, short writes to a socket or the pipe): the library
installs no handler.
`command_server_create` and `_listen` have succeeded.

## Runs

| run | checks | states | result |
|---|---|---|---|
| `onboard_safety` | `TypeOK`, `NothingOutlivesHandler`, `BacklogBounded`, `StreamSpec`, `NothingWrittenAfterLoop`, `SubscriptionLasts` | 3 340 000 | holds |
| `onboard_live` | `ResetEndsHandler`, `LatestIsDownlinked`, `StopEnds` | 140 000 | holds |
| `onboard_cancel` | `CancelStopsCommand` | | violated: `Cancel` is queued |
| `ground_sync` | `TypeOK`, `NoMetricAbandoned` | 600 000 | holds |
| `ground_workers` | `NoMetricAbandoned`, `RequestsFinish` | 67 000 | holds |
| `ground_rate` | `BpsAsAllocated` | | violated: two live subscriptions of one metric |
| `sample_subscriber` | `TypeOK`, `ChannelFollowsCache`, `NothingListensOutside`, `WaitReturnsNewest`, `LatestNeverGoesBack`, `ExitEnds`, `StoredSampleEndsWait`, `SamplesAreFollowed` | 129 000 | holds |
| `subscriber_wait` | `WaitReturnsWhatIsAvailable` | | violated: a wake-up is lost |
| `downlink` | `TypeOK`, `InStep`, `FeedInOrder`, `GroundNeverGoesBack`, `KeepsUp` | 285 000 | holds |
| `telemetry_add` | `TypeOK`, `OldHistoryGone`, `AddedIsInHistory`, `SocketNeverGoesBack` | 1 630 000 | holds |
| `telemetry_pages` | `EverySubscriberIsSent`, `ServerFollowsViews`, `AddSampleTerminates`, `ClosedSocketForgotten` | 178 000 | holds |
| `command_server` | `TypeOK`, `CommandsInOrder`, `LinesIntact`, `NoSocketLeaks`, `BroadcastReachesAll`, `DestroyEnds` | 2 170 000 | holds |

**Bounds of the onboard runs.** Connections share only the cache and the stop event, so
one connection meets everything a connection can meet. Two metrics, one of them with a
`:` in its id, let a stream mix metrics and a listing drop one. Two messages give a
command that is run and one that is queued, or two that arrive in one read. Buffers of
size 0 make `drain` wait after the first unread message. Two samples per metric
allow one to be skipped, one to be repeated and one to overtake. `onboard_safety` has one
metric whose samples may be unreadable (`Floats`) and a flush while no metric has more than
one sample (`MaxFlushed`), so that a subscription meets either after its first sample;
`onboard_live` has neither, but the bit rate 0.

**Bounds of the ground runs.** Two metrics, so that adding the second redistributes to
both, with one request (`ground_sync`); one metric with two requests, so that both
workers and the sync task overlap (`ground_workers`). Both distribution modes are
initial states. Five task objects are never all in use in either run.

**Bounds of the other runs.** `sample_subscriber`: two producers and two samples, so that
SETs and PUBLISHes cross; a second entry of the with statement, and two lost connections,
so that one that was renewed is lost again in `__exit__`.
`downlink`: messages of exactly, less than and more than a read, a character of two bytes
at the end of the first and inside the third, and a second connection of the metric, at the
same time or later. `telemetry_add`: two subscriptions of a metric (interchangeable, hence
the symmetry; the run checks no liveness), two samples, a socket. `telemetry_pages`: one subscription, two views of a plugin's
page with three messages, an interactive page with one. `command_server`: three clients
for a table of two, one of which is turned away or comes later into a place that became
free, and which goes by resetting its connection; two of them send, one of them two pieces,
which could change places; a pipe of two cells, full after one line.

**Deadlock** is not checked: the system may come to rest, with every connection closed
and every client silent, or with the server stopped.

**Fairness.** The event loop runs every coroutine that can run (`Handler`, `Task`,
`Resume`, `ChildrenStart`, the workers). Redis answers (`Task` includes `CacheAnswers`;
`CacheFails` is not fair). A client that stays reads what it is sent, and TCP delivers or
resets. On the ground, a cancelled subscription gets its connection closed
(`SubCancelled`), and the queues filled by the CLI's thread are noticed, because
uvicorn's loop wakes the event loop every 0.1 s. In `Downlink` the onboard task downlinks
while it lives, and the subscription reads on. In `SampleSubscriber` Redis answers, a lost
connection is noticed, the threads run and timeouts run out. In `TelemetryServer` the event
loop runs and Redis answers; nothing is assumed of the pages. In `CommandServer` only the server
thread and `pthread_join` are fair; that `poll` succeeds is not assumed. Nothing is
assumed of what clients, producers and operators do.

### What the counterexamples show

* `onboard_cancel`: `isinstance(tc, Cancel)` looks at the envelope, not at its `data`.
* `ground_rate`: the sync task and `setbps` await the same old subscription. Both create a
  new one; the first to do so is overwritten in the table and can no longer be
  cancelled.
* `subscriber_wait`: a sample is stored between the look and the wait; its notification
  comes too early, and no other need ever come.

### What the conditions in the properties stand for

Some properties hold but for a case that they name, and the case is a defect or a limit of
the code.

* `StopEnds`: the stop event is looked at before `reader.read` and not in it, so a silent
  client holds `__aexit__` for as long as it likes. (`server.py:61` says that `read`
  "immediately returns".) Nor does the end of the stream end the loop: `read` returns `b""`
  at once, for ever, and only a write that TCP refuses, or the stop, ends the handler.
* `SubscriptionLasts`: the asynchronous `get_sample` lacks the check for `None` of the
  synchronous one, so a subscription made before the first sample ends at once, and so does
  every subscription when the cache is flushed; a sample that does not validate ends it as
  well; and `bps = 0`, with which `add_metric` subscribes, divides by zero after the first
  sample. In each case the connection stays open and silent.
* `NothingListensOutside`, `ExitEnds`: when `p.unsubscribe()` raises, `__exit__` joins nothing
  and closes nothing. `ExitEnds` shows that the thread comes to its end all the same; the
  connection object is not closed.
* `KeepsUp`: `handle_sample` that never returns, see `AddSampleTerminates`; and an onboard
  task that has died, from which the ground cannot expect the newest sample.
* `AddSampleTerminates`: one page that stays connected and never reads holds `add_sample`
  for ever, and so the metric's samples for every page and the history, until the page goes,
  a send to another page raises, ZADD fails or the subscription is cancelled.
* `AddedIsInHistory`: a sample that is added while `clear_history` is between KEYS and
  DELETE may be deleted.
* `ServerFollowsViews`, `ClosedSocketForgotten`: the plugin and the endpoint, as above.
* `BroadcastReachesAll`: while a connection is removed, `memmove` passes entries under the
  broadcast, which then skips a client or writes to it twice (against "thread-safe" in
  `command_server.h`). After a failed write the broadcast returns -1, and then says nothing
  of which clients it reached.
* `DestroyEnds`: the server thread in a read that nothing answers, or in a write to a pipe
  that nobody reads any more.

## Proofs

All theorems hold for every value of the constants that satisfies
`ConstantsAssumption`: any sets of connections, metrics (finite, on the ground side:
`max_bps` is divided by their number) and rates, buffers of any size, any bound on
samples, messages, requests and tasks.

**`OnboardServerProofs`** proves `TypeOK`, `NothingOutlivesHandler`, `BacklogBounded`,
`NothingWrittenAfterLoop`, `SubscriptionLasts`, and that `OnboardServer` implements
`TelemetryStream`. The inductive invariant has eight parts:

* `TypeOK` - not inductive alone: that `fetched` is a number needs the command of a task
  in `downlink_loop` to be a `Subscribe`;
* `CommandInv` - the command fits where the task is;
* `HandlerInv` - relates the handler's position, its task and its transport: in the loop
  nothing is cancelled, while `cancelling` a live task has been cancelled, after that no
  task is live and the transport is not open;
* `StreamInv` - everything written to a subscriber is a sample of its metric, no newer
  than `last`; `last` is no newer than what was fetched, and that no newer than what is
  stored. This is what makes the next message newer than all before it;
* `BacklogInv` - a task that is not in `drain` has left room for one more message;
* `FreshInv` - what was fetched is no older than what was stored when the client connected;
* `ReadableInv` - what was fetched or sent can be read, and a task that was given nothing
  was so because of a flush, or of an unreadable sample, after `last`;
* `CacheInv` - only what was stored is flushed, or seen by a scan.

The refinement maps `stream` to `wrote`: `DownlinkSample` is `SendSample`,
`MetricIdsFound` is `SendMetricIds` (or nothing, when the connection is reset),
`Publish` is `Publish`, and every other step leaves the abstract state alone.

**`MetricSubscribeHandlerProofs`** proves `TypeOK` and `NoMetricAbandoned`. The invariant
adds `TableInv` (the task in the table for a metric was made for it, so that replacing
one metric's task disturbs no other), `SpawnInv` (calls are created for known metrics
only) and `AwaitInv` (what is awaited belongs to a metric and has been cancelled or has
ended).

**`SampleSubscriberProofs`** proves `TypeOK`, `ChannelFollowsCache`,
`NothingListensOutside`, `WaitReturnsNewest` and `LatestNeverGoesBack`, for any number of
producers, threads, samples, entries and losses, at any moment and however `__exit__` meets
them. The invariant says that nothing published
or about to be is newer than the cache, that the inbox is increasing and lies behind
`held`, and that behind `latest`, and that `floor` of a call under way is no newer than
`latest`.

**`DownlinkProofs`** proves `TypeOK`, `InStep`, `FeedInOrder` and `GroundNeverGoesBack`, for
messages and reads of any size. The invariant says of the bytes on a connection that each
is followed by the next of its message, or is its last and followed by the first of a
newer one (`NetInv`), that they carry samples that were written, and that what a
subscription hands on lies between what was handed on when it connected and what is
cached (`FeedInv`).

**`TelemetryServerProofs`** proves `TypeOK`, `OldHistoryGone`, `AddedIsInHistory`,
`EverySubscriberIsSent`, `SocketNeverGoesBack` and `ServerFollowsViews`, for any metrics,
subscriptions and sockets. The parts of the invariant:

* `TaskInv` - where a subscription, its two children and its sends are with respect to each
  other; a child that was cancelled was so for a reason that still stands when
  `add_sample` ends, so that `add_sample` returns only when the ZADD was answered;
* `SampleInv`, `ClearInv` - samples are numbered from 1, and what is left of a former run is
  under the keys that will be deleted;
* `StoredInv` - a sample is in the history when its ZADD, sent after the history was
  cleared, has been answered;
* `OneFeedInv`, `FreshInv`, `SourceInv` - a metric that was not raced has one subscription
  at a time; no socket was sent more than that one may send next, because a new one starts
  at the newest sample any subscription handed on and every sample sent is one of those.
  `NewestOf` chooses a greatest number, which is where `BoundedSets` is needed;
* `SentInv` - a send that has started has been written, or its socket is closed;
* `PageInv` - the last request under way about a metric, or else the entry of the socket,
  agrees with the page's views (`Finally`). Receiving a request does not change that, and
  sending one makes it so.

**`CommandServerProofs`** proves `TypeOK`, `CommandsInOrder`, `LinesIntact`, `NoSocketLeaks`
and `BroadcastReachesAll`, for any clients and a table, a pipe and a buffer of any size,
whatever `revents` hold; and that the server thread uses only entries below
`num_connections` (`PositionInv`). The parts of the invariant:

* `PositionInv` - the server thread's index, and that of `memmove`, lie in the table;
* `BufferInv` - the buffer is empty but between `read` and `write`, and then holds pieces of
  one client, as does every socket;
* `LineInv` - the pipe ends in a newline but between the two writes;
* `SocketInv` - the entries in use (all, but for the one `memmove` is at) are the open
  connections, each once: the invariant that holds inside a removal too;
* `BroadcastInv` - an undisturbed broadcast has been written before `b` at most once, and
  once if no write has failed, and not at all from `b` on.

`CommandsInOrder` is inductive with these. A step moves pieces along pipe, buffer and socket:
lemmas say what it keeps when other clients' pieces are put in between (`InsertInOrder`),
when one is added at the end (`AppendInOrder`) and when the first are taken away
(`DropInOrder`, `TakeInOrder`). The last needs that
the pieces taken are an interval that ends with the greatest of them (`GreatestElement`).

Only model-checked: liveness (`ResetEndsHandler`, `LatestIsDownlinked`, `StopEnds`,
`RequestsFinish`, `ExitEnds`, `StoredSampleEndsWait`, `SamplesAreFollowed`, `KeepsUp`,
`AddSampleTerminates`, `ClosedSocketForgotten`, `DestroyEnds`), which needs fairness and
ENABLED, out of reach of the prover. Every invariant and every action property that a
passing run checks is also a theorem. That the guard of `TelemetryServer!AddSample` is what
`FeedInOrder` gives is an argument between two modules, not a theorem.

## Not modelled, and the plan

In this order:

1. A theorem that `Downlink` gives `TelemetryServer` what its `AddSample` assumes, as a
   refinement of a specification of the feed of one metric.
2. `RequestSample` (C): requests over UDP with loss, delay and duplication; the
   uninitialised `err` as a nondeterministic choice; `send_sample` with its error codes.
3. The segmentation of `shared` as pure operators, checked against a reference definition.
   No program of the repository uses it any more.

Left out for good: image and netCDF scripts, the static server and proxy of Open MCT, the
dictionary and history plugins (no state that other parts see); generated nanopb code; JSON,
base64 and protobuf encoding as such (libraries); the coercions of pydantic beyond which
samples can be read back.
