---------------------------- MODULE OnboardServer ----------------------------
(***************************************************************************)
(* The onboard server: onboard-server-py/src/onboard_server/server.py and  *)
(* handle_commands.py, with the reads they make of the Redis sample cache  *)
(* (bcp-redis-client/python/.../asyncio.py).                               *)
(*                                                                         *)
(* One asyncio event loop runs, for each TCP connection, the coroutine     *)
(* handle_connection and at most one task of run_command.  A step is what  *)
(* a coroutine does between two awaits at which it really suspends.  The   *)
(* rest are the steps of the world outside: clients, TCP, Redis, and the   *)
(* onboard programs that store samples.                                    *)
(*                                                                         *)
(* Time is abstracted: a sleep ends at some later step.                    *)
(***************************************************************************)
EXTENDS Integers, Sequences, FiniteSets

CONSTANTS
  Conns,       \* the connections clients may open
  Metrics,     \* the metric ids that samples are stored under
  ColonIds,    \* the metric ids that contain a ':'
  Floats,      \* the metrics whose values are floats, finite or not
  BpsValues,   \* the bit rates clients ask for
  KernelBuf,   \* messages the socket's send buffer (SO_SNDBUF) takes
  HighWater,   \* messages the transport buffers before drain() waits
  MaxVersion,  \* bound: MaxVersion[m] samples of m are stored
  MaxFlushed,  \* bound: no sample with a number above this one is flushed
  MaxMsgs      \* bound: messages a client sends on a connection

ASSUME ConstantsAssumption ==
  /\ ColonIds \subseteq Metrics
  /\ Floats \subseteq Metrics
  /\ BpsValues \subseteq Int
  /\ KernelBuf \in Nat
  /\ HighWater \in Nat
  /\ MaxVersion \in [Metrics -> Nat]
  /\ MaxFlushed \in Nat
  /\ MaxMsgs \in Nat

VARIABLES
  server,    \* the server: serving, draining, stopping, stopped
  cache,     \* cache[m]: number of the last sample stored under m, 0 if none
  bad,       \* the samples <<m, v>> whose JSON does not validate
  flushed,   \* flushed[m]: number of the last sample of m that was flushed
  peer,      \* peer[c]: the client's end of the connection
  tr,        \* tr[c]: the server's transport of the connection
  msgs,      \* msgs[c]: how many messages the client has sent
  since,     \* since[c]: history: what was in the cache when c connected
  inbuf,     \* inbuf[c]: what the StreamReader holds
  pc,        \* pc[c]: where handle_connection is suspended
  queue,     \* queue[c]: handle_connection's command_queue
  task,      \* task[c]: where current_task is suspended, or how it ended
  cmd,       \* cmd[c]: the command current_task runs
  cancel,    \* cancel[c]: current_task.cancel() was called
  fetched,   \* fetched[c]: the cache's answer the task is about to receive
  last,      \* last[c]: downlink_loop's last_sample, 0 for None
  keys,      \* keys[c]: the metrics that existed all through the SCAN
  seen,      \* seen[c]: ... and those that existed at some time of it
  wrote,     \* wrote[c]: all the telemetry written to the transport
  taken      \* taken[c]: how much of it the client has read

envVars  == <<cache, bad, flushed, peer, msgs, since>>
connVars == <<tr, inbuf, pc, queue>>
taskVars == <<task, cmd, cancel, fetched, last, keys, seen>>
netVars  == <<wrote, taken>>
vars == <<server, envVars, connVars, taskVars, netVars>>

-----------------------------------------------------------------------------
(* Telecommands and telemetry.                                             *)

Subscribes == [type : {"subscribe"}, metric : Metrics, bps : BpsValues]

\* What Telecommand.model_validate_json accepts.
Commands == Subscribes \union [type : {"get_metric_ids", "cancel", "end"}]

\* What may arrive: a telecommand, text that is not one, bytes that are not
\* UTF-8 (a cut multi-byte character, line noise).
Messages == Commands \union [type : {"garbled", "not_utf8"}]

NoCommand == [type |-> "none"]

SampleMsg(m, v) == [kind |-> "sample", metric |-> m, ver |-> v]

MetricIdsMsg(ids) == [kind |-> "metric_ids", ids |-> ids]

Telemetry ==
  [kind : {"sample"}, metric : Metrics, ver : Nat]
    \union [kind : {"metric_ids"}, ids : SUBSET Metrics]

-----------------------------------------------------------------------------
(* States.                                                                 *)

\* current_task exists and is not done().
Live == {"starting", "fetch", "fetched", "drain", "sleep", "scan"}

\* How a task ends: it returned, was cancelled, met a ConnectionError or an
\* error of Redis, or raised ValidationError or ZeroDivisionError ("failed").
Ended == {"returned", "cancelled", "conn_error", "redis_error", "failed"}

\* The ends that cancel_current_task does not catch.
Uncaught == {"redis_error", "failed"}

\* handle_connection is in its while loop: about to run the body ("top",
\* where asyncio.sleep(0.2) leaves it) or suspended in reader.read.
Looping == {"top", "reading"}

\* ... or in its finally clause: awaiting the task, or the transport.
Finishing == {"cancelling", "closing"}

\* Written and not yet read by the client.
Backlog(c) == Len(wrote[c]) - taken[c]

TypeOK ==
  /\ server \in {"serving", "draining", "stopping", "stopped"}
  /\ cache \in [Metrics -> Nat]
  /\ bad \in SUBSET (Metrics \X Nat)
  /\ flushed \in [Metrics -> Nat]
  /\ peer \in [Conns -> {"none", "open", "closed"}]
  /\ tr \in [Conns -> {"none", "open", "closing", "closed", "reset"}]
  /\ msgs \in [Conns -> Nat]
  /\ since \in [Conns -> [Metrics -> Nat]]
  /\ inbuf \in [Conns -> Seq(Messages)]
  /\ pc \in [Conns -> {"none", "done"} \union Looping \union Finishing]
  /\ queue \in [Conns -> Seq(Commands)]
  /\ task \in [Conns -> {"none"} \union Live \union Ended]
  /\ cmd \in [Conns -> Commands \union {NoCommand}]
  /\ cancel \in [Conns -> BOOLEAN]
  /\ fetched \in [Conns -> Nat]
  /\ last \in [Conns -> Nat]
  /\ keys \in [Conns -> SUBSET Metrics]
  /\ seen \in [Conns -> SUBSET Metrics]
  /\ wrote \in [Conns -> Seq(Telemetry)]
  /\ taken \in [Conns -> Nat]

Init ==
  /\ server = "serving"
  /\ cache = [m \in Metrics |-> 0]
  /\ bad = {}
  /\ flushed = [m \in Metrics |-> 0]
  /\ peer = [c \in Conns |-> "none"]
  /\ tr = [c \in Conns |-> "none"]
  /\ msgs = [c \in Conns |-> 0]
  /\ since = [c \in Conns |-> cache]
  /\ inbuf = [c \in Conns |-> << >>]
  /\ pc = [c \in Conns |-> "none"]
  /\ queue = [c \in Conns |-> << >>]
  /\ task = [c \in Conns |-> "none"]
  /\ cmd = [c \in Conns |-> NoCommand]
  /\ cancel = [c \in Conns |-> FALSE]
  /\ fetched = [c \in Conns |-> 0]
  /\ last = [c \in Conns |-> 0]
  /\ keys = [c \in Conns |-> {}]
  /\ seen = [c \in Conns |-> {}]
  /\ wrote = [c \in Conns |-> << >>]
  /\ taken = [c \in Conns |-> 0]

-----------------------------------------------------------------------------
(* The world outside: producers, clients, TCP.                             *)

\* There is a sample of m in the cache.
Stored(m) == flushed[m] < cache[m]

\* An onboard program stores a sample (set_sample); its timestamp makes it
\* differ from all the samples before it.  A float that is not finite is
\* written as null, which nobody can read.
Publish(m, finite) ==
  /\ cache[m] < MaxVersion[m]
  /\ finite \/ m \in Floats
  /\ cache' = [cache EXCEPT ![m] = @ + 1]
  /\ bad' = IF finite THEN bad ELSE bad \union {<<m, cache[m] + 1>>}
  /\ seen' = [c \in Conns |-> IF task[c] = "scan" THEN seen[c] \union {m} ELSE seen[c]]
  /\ UNCHANGED <<server, flushed, peer, msgs, since, connVars, task, cmd, cancel,
                 fetched, last, keys, netVars>>

\* The cache is flushed: all samples are gone.
Flush ==
  /\ \E m \in Metrics : Stored(m)
  /\ \A m \in Metrics : cache[m] <= MaxFlushed
  /\ flushed' = cache
  /\ keys' = [c \in Conns |-> {}]
  /\ UNCHANGED <<server, cache, bad, peer, msgs, since, connVars, task, cmd, cancel,
                 fetched, last, seen, netVars>>

\* A client connects: asyncio makes the transport and starts the handler.
Connect(c) ==
  /\ server = "serving"
  /\ peer[c] = "none"
  /\ peer' = [peer EXCEPT ![c] = "open"]
  /\ tr' = [tr EXCEPT ![c] = "open"]
  /\ pc' = [pc EXCEPT ![c] = "top"]
  /\ since' = [since EXCEPT ![c] = cache]
  /\ UNCHANGED <<server, cache, bad, flushed, msgs, inbuf, queue, taskVars, netVars>>

\* A message of the client reaches the StreamReader.
ClientSend(c, m) ==
  /\ peer[c] = "open" /\ tr[c] = "open"
  /\ msgs[c] < MaxMsgs
  /\ msgs' = [msgs EXCEPT ![c] = @ + 1]
  /\ inbuf' = [inbuf EXCEPT ![c] = Append(@, m)]
  /\ UNCHANGED <<server, cache, bad, flushed, peer, since, tr, pc, queue, taskVars,
                 netVars>>

\* The client takes the next message off its socket.
ClientRecv(c) ==
  /\ peer[c] = "open"
  /\ taken[c] < Len(wrote[c])
  /\ taken' = [taken EXCEPT ![c] = @ + 1]
  /\ UNCHANGED <<server, envVars, connVars, taskVars, wrote>>

\* The client closes its socket: the StreamReader sees the end of the stream,
\* the transport stays open for writing.
ClientClose(c) ==
  /\ peer[c] = "open"
  /\ peer' = [peer EXCEPT ![c] = "closed"]
  /\ UNCHANGED <<server, cache, bad, flushed, msgs, since, connVars, taskVars, netVars>>

\* The client or the link dies and TCP gives the connection up.
ConnectionReset(c) ==
  /\ peer[c] = "open" /\ tr[c] \in {"open", "closing"}
  /\ peer' = [peer EXCEPT ![c] = "closed"]
  /\ tr' = [tr EXCEPT ![c] = "reset"]
  /\ UNCHANGED <<server, cache, bad, flushed, msgs, since, inbuf, pc, queue, taskVars,
                 netVars>>

\* A closed client refuses what it is sent: TCP resets the connection.
WriteRefused(c) ==
  /\ peer[c] = "closed" /\ tr[c] \in {"open", "closing"}
  /\ Backlog(c) > 0
  /\ tr' = [tr EXCEPT ![c] = "reset"]
  /\ UNCHANGED <<server, envVars, inbuf, pc, queue, taskVars, netVars>>

\* A closing transport has handed all it buffered to the kernel.
Flushed(c) ==
  /\ tr[c] = "closing"
  /\ Backlog(c) <= KernelBuf
  /\ tr' = [tr EXCEPT ![c] = "closed"]
  /\ UNCHANGED <<server, envVars, inbuf, pc, queue, taskVars, netVars>>

-----------------------------------------------------------------------------
(* handle_connection.                                                      *)

\* Fault: the clause goes on to close the writer while the task still runs.
LeaveLoopWithoutAwait(c) ==
  /\ cancel' = [cancel EXCEPT ![c] = task[c] \in Live]
  /\ tr' = [tr EXCEPT ![c] = IF @ = "open" THEN "closing" ELSE @]
  /\ pc' = [pc EXCEPT ![c] = IF tr[c] = "open" THEN "closing" ELSE "done"]

\* Fault: the task is awaited without having been cancelled.
LeaveLoopWithoutCancel(c) ==
  /\ pc' = [pc EXCEPT ![c] = "cancelling"]
  /\ UNCHANGED <<tr, cancel>>

\* The rest of the finally clause once current_task, if there is one, is
\* done.  An exception of the task other than CancelledError and
\* ConnectionError leaves the clause before writer.close(); then it is
\* asyncio that closes the transport of the failed handler.
AfterTask(c) ==
  \/ /\ task[c] \in Uncaught
     /\ pc' = [pc EXCEPT ![c] = "done"]
     /\ tr' = [tr EXCEPT ![c] = IF @ = "open" THEN "closing" ELSE @]
  \/ /\ task[c] \notin Uncaught /\ tr[c] = "open"
     /\ tr' = [tr EXCEPT ![c] = "closing"]
     /\ pc' = [pc EXCEPT ![c] = "closing"]
  \/ /\ task[c] \notin Uncaught /\ tr[c] # "open"
     /\ pc' = [pc EXCEPT ![c] = "done"]
     /\ UNCHANGED tr

\* The loop is left, by return or by an exception: the finally clause begins
\* with cancel_current_task.
LeaveLoop(c) ==
  \/ /\ task[c] \in Live
     /\ cancel' = [cancel EXCEPT ![c] = TRUE]
     /\ pc' = [pc EXCEPT ![c] = "cancelling"]
     /\ UNCHANGED tr
  \/ /\ task[c] \notin Live
     /\ AfterTask(c)
     /\ UNCHANGED cancel

\* The stop event is set: the loop raises CancelledError.
StopSeen(c) ==
  /\ pc[c] = "top" /\ server \in {"stopping", "stopped"}
  /\ LeaveLoop(c)
  /\ UNCHANGED <<server, envVars, inbuf, queue, task, cmd, fetched, last, keys, seen,
                 netVars>>

\* The handler executes, or is resumed in, reader.read(4096).  The stop event
\* is looked at before the read only.
AtRead(c) ==
  \/ pc[c] = "reading"
  \/ pc[c] = "top" /\ server \in {"serving", "draining"}

\* Nothing has arrived: the handler is suspended in the read.
ReadBlocks(c) ==
  /\ pc[c] = "top" /\ AtRead(c)
  /\ tr[c] = "open" /\ peer[c] = "open" /\ inbuf[c] = << >>
  /\ pc' = [pc EXCEPT ![c] = "reading"]
  /\ UNCHANGED <<server, envVars, tr, inbuf, queue, taskVars, netVars>>

\* Fault: a ConnectionError of the read is taken for "no data yet".
ReadResetSwallowed(c) ==
  /\ AtRead(c) /\ tr[c] = "reset"
  /\ pc' = [pc EXCEPT ![c] = "top"]
  /\ UNCHANGED <<server, envVars, tr, inbuf, queue, taskVars, netVars>>

\* The read raises ConnectionError: the handler returns.
ReadReset(c) ==
  /\ AtRead(c) /\ tr[c] = "reset"
  /\ LeaveLoop(c)
  /\ UNCHANGED <<server, envVars, inbuf, queue, task, cmd, fetched, last, keys, seen,
                 netVars>>

\* The read returns b"": there is no telecommand, the loop goes on.
ReadEof(c) ==
  /\ AtRead(c) /\ tr[c] = "open" /\ peer[c] = "closed" /\ inbuf[c] = << >>
  /\ pc' = [pc EXCEPT ![c] = "top"]
  /\ UNCHANGED <<server, envVars, tr, inbuf, queue, taskVars, netVars>>

\* All that has arrived, read as one telecommand.
IsTelecommand(data) == Len(data) = 1 /\ data[1] \in Commands

IsUtf8(data) == \A i \in 1 .. Len(data) : data[i].type # "not_utf8"

\* A telecommand is read.  It is an instance of Telecommand, never of Cancel
\* or End, so whichever command it holds is run if none was run before on
\* this connection, and queued otherwise.
ReadCommand(c) ==
  /\ AtRead(c) /\ tr[c] = "open" /\ IsTelecommand(inbuf[c])
  /\ inbuf' = [inbuf EXCEPT ![c] = << >>]
  /\ pc' = [pc EXCEPT ![c] = "top"]
  /\ \/ /\ task[c] = "none"
        /\ task' = [task EXCEPT ![c] = "starting"]
        /\ cmd' = [cmd EXCEPT ![c] = Head(inbuf[c])]
        /\ UNCHANGED queue
     \/ /\ task[c] # "none"
        /\ queue' = [queue EXCEPT ![c] = Append(@, Head(inbuf[c]))]
        /\ UNCHANGED <<task, cmd>>
  /\ UNCHANGED <<server, envVars, tr, cancel, fetched, last, keys, seen, netVars>>

\* Fault: the check "tc is not None" is missing.
ReadGarbledQueued(c) ==
  /\ AtRead(c) /\ tr[c] = "open" /\ inbuf[c] # << >>
  /\ IsUtf8(inbuf[c]) /\ ~IsTelecommand(inbuf[c])
  /\ inbuf' = [inbuf EXCEPT ![c] = << >>]
  /\ pc' = [pc EXCEPT ![c] = "top"]
  /\ queue' = [queue EXCEPT ![c] = Append(@, Head(inbuf[c]))]
  /\ UNCHANGED <<server, envVars, tr, taskVars, netVars>>

\* Text that is not one telecommand, several of them included, is dropped.
ReadGarbled(c) ==
  /\ AtRead(c) /\ tr[c] = "open" /\ inbuf[c] # << >>
  /\ IsUtf8(inbuf[c]) /\ ~IsTelecommand(inbuf[c])
  /\ inbuf' = [inbuf EXCEPT ![c] = << >>]
  /\ pc' = [pc EXCEPT ![c] = "top"]
  /\ UNCHANGED <<server, envVars, tr, queue, taskVars, netVars>>

\* data.decode() raises UnicodeDecodeError, which nothing catches.
ReadNotUtf8(c) ==
  /\ AtRead(c) /\ tr[c] = "open" /\ ~IsUtf8(inbuf[c])
  /\ inbuf' = [inbuf EXCEPT ![c] = << >>]
  /\ LeaveLoop(c)
  /\ UNCHANGED <<server, envVars, queue, task, cmd, fetched, last, keys, seen, netVars>>

\* The await of the cancelled task is over.
TaskAwaited(c) ==
  /\ pc[c] = "cancelling" /\ task[c] \notin Live
  /\ AfterTask(c)
  /\ UNCHANGED <<server, envVars, inbuf, queue, taskVars, netVars>>

\* writer.wait_closed() is over.
WriterClosed(c) ==
  /\ pc[c] = "closing" /\ tr[c] \in {"closed", "reset"}
  /\ pc' = [pc EXCEPT ![c] = "done"]
  /\ UNCHANGED <<server, envVars, tr, inbuf, queue, taskVars, netVars>>

-----------------------------------------------------------------------------
(* run_command, the task of a connection.                                  *)

\* The task takes its next step, which a cancelled task does not.
Resumes(c, at) == task[c] = at /\ ~cancel[c]

\* CancelledError is thrown into the task at the await it is suspended in.
TaskCancelled(c) ==
  /\ task[c] \in Live /\ cancel[c]
  /\ task' = [task EXCEPT ![c] = "cancelled"]
  /\ UNCHANGED <<server, envVars, connVars, cmd, cancel, fetched, last, keys, seen,
                 netVars>>

\* run_command: Subscribe and GetMetricIds have handlers, Cancel and End fall
\* through.
RunCommand(c) ==
  /\ Resumes(c, "starting")
  /\ \/ /\ cmd[c].type = "subscribe"
        /\ task' = [task EXCEPT ![c] = "fetch"]
        /\ UNCHANGED <<keys, seen>>
     \/ /\ cmd[c].type = "get_metric_ids"
        /\ task' = [task EXCEPT ![c] = "scan"]
        /\ keys' = [keys EXCEPT ![c] = {m \in Metrics : Stored(m)}]
        /\ seen' = [seen EXCEPT ![c] = {m \in Metrics : Stored(m)}]
     \/ /\ cmd[c].type \in {"cancel", "end"}
        /\ task' = [task EXCEPT ![c] = "returned"]
        /\ UNCHANGED <<keys, seen>>
  /\ UNCHANGED <<server, envVars, connVars, cmd, cancel, fetched, last, netVars>>

\* The sample that GET sample-cache:<metric_id> returns; 0 for what
\* model_validate_json rejects, nothing or a sample that is not readable.
Cached(m) == IF Stored(m) /\ <<m, cache[m]>> \notin bad THEN cache[m] ELSE 0

\* Fault: once it has a sample the client library answers from its own copy.
CacheAnswersFromCopy(c) ==
  /\ Resumes(c, "fetch")
  /\ task' = [task EXCEPT ![c] = "fetched"]
  /\ fetched' = [fetched EXCEPT ![c] = IF @ = 0 THEN Cached(cmd[c].metric) ELSE @]
  /\ UNCHANGED <<server, envVars, connVars, cmd, cancel, last, keys, seen, netVars>>

\* Fault: samples are stored with a time to live, and the key may be gone.
CacheAnswersEvicted(c) ==
  /\ Resumes(c, "fetch")
  /\ task' = [task EXCEPT ![c] = "fetched"]
  /\ \E v \in {0, Cached(cmd[c].metric)} : fetched' = [fetched EXCEPT ![c] = v]
  /\ UNCHANGED <<server, envVars, connVars, cmd, cancel, last, keys, seen, netVars>>

\* Redis answers GET.  More samples may be stored, or the cache be flushed,
\* before the task runs again.
CacheAnswers(c) ==
  /\ Resumes(c, "fetch")
  /\ task' = [task EXCEPT ![c] = "fetched"]
  /\ fetched' = [fetched EXCEPT ![c] = Cached(cmd[c].metric)]
  /\ UNCHANGED <<server, envVars, connVars, cmd, cancel, last, keys, seen, netVars>>

\* A call to Redis fails.  redis.ConnectionError is no ConnectionError.
CacheFails(c) ==
  /\ Resumes(c, "fetch") \/ Resumes(c, "scan")
  /\ task' = [task EXCEPT ![c] = "redis_error"]
  /\ UNCHANGED <<server, envVars, connVars, cmd, cancel, fetched, last, keys, seen,
                 netVars>>

\* Where the task goes once what it wrote is drained: the answer to
\* GetMetricIds is all there is to it; bytes_sent / bps divides by zero.
Drained(c) ==
  CASE cmd[c].type = "get_metric_ids" -> "returned"
    [] cmd[c].type = "subscribe" /\ cmd[c].bps = 0 -> "failed"
    [] OTHER -> "sleep"

\* drain() waits while the transport holds more than its high-water mark.
BufferFull(backlog) == backlog > KernelBuf + HighWater

\* Fault: drain() is not awaited.
WriteWithoutDrain(c, t) ==
  /\ task' = [task EXCEPT ![c] = Drained(c)]
  /\ wrote' = [wrote EXCEPT ![c] = IF tr[c] = "reset" THEN @ ELSE Append(@, t)]

\* writer.write(t); await writer.drain(): on a lost connection the write is
\* dropped and drain raises ConnectionError.
WriteAndDrain(c, t) ==
  \/ /\ tr[c] = "reset"
     /\ task' = [task EXCEPT ![c] = "conn_error"]
     /\ UNCHANGED wrote
  \/ /\ tr[c] # "reset"
     /\ wrote' = [wrote EXCEPT ![c] = Append(@, t)]
     /\ task' = [task EXCEPT ![c] =
                   IF BufferFull(Backlog(c) + 1) THEN "drain" ELSE Drained(c)]

\* get_sample validates whatever it was answered: ValidationError.
SampleRejected(c) ==
  /\ Resumes(c, "fetched") /\ fetched[c] = 0
  /\ task' = [task EXCEPT ![c] = "failed"]
  /\ UNCHANGED <<server, envVars, connVars, cmd, cancel, fetched, last, keys, seen,
                 netVars>>

\* Fault: the check "sample != last_sample" is missing.
DownlinkEverySample(c) ==
  /\ Resumes(c, "fetched")
  /\ fetched[c] # 0
  /\ last' = [last EXCEPT ![c] = fetched[c]]
  /\ WriteAndDrain(c, SampleMsg(cmd[c].metric, fetched[c]))
  /\ UNCHANGED <<server, envVars, connVars, cmd, cancel, fetched, keys, seen, taken>>

\* The sample differs from the last one: downlink_latest_sample.
DownlinkSample(c) ==
  /\ Resumes(c, "fetched")
  /\ fetched[c] # 0 /\ fetched[c] # last[c]
  /\ last' = [last EXCEPT ![c] = fetched[c]]
  /\ WriteAndDrain(c, SampleMsg(cmd[c].metric, fetched[c]))
  /\ UNCHANGED <<server, envVars, connVars, cmd, cancel, fetched, keys, seen, taken>>

\* The sample was sent before: nothing to do but to sleep.
SampleUnchanged(c) ==
  /\ Resumes(c, "fetched")
  /\ fetched[c] # 0 /\ fetched[c] = last[c]
  /\ task' = [task EXCEPT ![c] = "sleep"]
  /\ UNCHANGED <<server, envVars, connVars, cmd, cancel, fetched, last, keys, seen,
                 netVars>>

\* drain() is over: there is room again, or the connection is lost.
DrainOver(c) ==
  /\ Resumes(c, "drain")
  /\ \/ /\ tr[c] = "reset"
        /\ task' = [task EXCEPT ![c] = "conn_error"]
     \/ /\ tr[c] # "reset" /\ ~BufferFull(Backlog(c))
        /\ task' = [task EXCEPT ![c] = Drained(c)]
  /\ UNCHANGED <<server, envVars, connVars, cmd, cancel, fetched, last, keys, seen,
                 netVars>>

\* asyncio.sleep of the downlink loop is over: the next GET is sent.
SleepOver(c) ==
  /\ Resumes(c, "sleep")
  /\ task' = [task EXCEPT ![c] = "fetch"]
  /\ UNCHANGED <<server, envVars, connVars, cmd, cancel, fetched, last, keys, seen,
                 netVars>>

\* The SCAN is complete.  It returned every key that existed throughout and
\* any that existed meanwhile; ids with a ':' are not taken for ids.
MetricIdsFound(c, scanned) ==
  /\ Resumes(c, "scan")
  /\ keys[c] \subseteq scanned /\ scanned \subseteq seen[c]
  /\ WriteAndDrain(c, MetricIdsMsg(scanned \ ColonIds))
  /\ keys' = [keys EXCEPT ![c] = {}]
  /\ seen' = [seen EXCEPT ![c] = {}]
  /\ UNCHANGED <<server, envVars, connVars, cmd, cancel, fetched, last, taken>>

-----------------------------------------------------------------------------
(* The server.                                                             *)

\* connection_lost was called on every transport.
NoTransports == \A c \in Conns : tr[c] \in {"none", "closed", "reset"}

\* serve_forever is cancelled (run() is interrupted): the listening socket is
\* closed and asyncio waits for the connections to go.
Interrupt ==
  /\ server = "serving"
  /\ server' = "draining"
  /\ UNCHANGED <<envVars, connVars, taskVars, netVars>>

\* __aexit__ begins: the stop event is set, the listening socket closed.
Aexit ==
  /\ server = "serving" \/ (server = "draining" /\ NoTransports)
  /\ server' = "stopping"
  /\ UNCHANGED <<envVars, connVars, taskVars, netVars>>

\* __aexit__ ends: wait_closed() has seen every connection go.
Stopped ==
  /\ server = "stopping" /\ NoTransports
  /\ server' = "stopped"
  /\ UNCHANGED <<envVars, connVars, taskVars, netVars>>

-----------------------------------------------------------------------------
Environment ==
  \/ \E m \in Metrics, finite \in BOOLEAN : Publish(m, finite)
  \/ Flush
  \/ \E c \in Conns : Connect(c) \/ ClientClose(c) \/ ConnectionReset(c)
  \/ \E c \in Conns, m \in Messages : ClientSend(c, m)
  \/ Interrupt

Handler(c) ==
  \/ StopSeen(c) \/ ReadBlocks(c) \/ ReadReset(c) \/ ReadEof(c)
  \/ ReadCommand(c) \/ ReadGarbled(c) \/ ReadNotUtf8(c)
  \/ TaskAwaited(c) \/ WriterClosed(c)

Task(c) ==
  \/ TaskCancelled(c) \/ RunCommand(c) \/ CacheAnswers(c)
  \/ SampleRejected(c) \/ DownlinkSample(c) \/ SampleUnchanged(c)
  \/ DrainOver(c) \/ SleepOver(c)
  \/ \E scanned \in SUBSET Metrics : MetricIdsFound(c, scanned)

Next ==
  \/ Environment
  \/ \E c \in Conns : Handler(c) \/ Task(c) \/ CacheFails(c)
  \/ \E c \in Conns : ClientRecv(c) \/ WriteRefused(c) \/ Flushed(c)
  \/ Aexit
  \/ Stopped

Spec == Init /\ [][Next]_vars

\* The event loop runs every coroutine that can run and Redis answers; a
\* client that stays reads what it is sent, TCP delivers it or resets the
\* connection.  Nothing says that clients send, leave or break, that samples
\* are stored, or that the server is ever told to stop.
Fairness ==
  /\ \A c \in Conns :
        /\ WF_vars(Handler(c)) /\ WF_vars(Task(c))
        /\ WF_vars(ClientRecv(c)) /\ WF_vars(WriteRefused(c)) /\ WF_vars(Flushed(c))
  /\ WF_vars(Stopped)

FairSpec == Spec /\ Fairness

-----------------------------------------------------------------------------
(* Properties.                                                             *)

Stream == INSTANCE TelemetryStream WITH stream <- wrote

\* The server implements TelemetryStream: whatever a client sends, and however
\* GETs, samples, resets and cancellations interleave, downlink_loop writes to
\* a connection the samples of one metric only, each really stored, in order,
\* none twice and none older than the connection, or handle_get_metric_ids
\* writes one listing and nothing else.
StreamSpec == Stream!Spec

\* handle_connection leaves its finally clause for wait_closed(), or ends, only
\* when current_task has ended and the transport is closing or gone: neither a
\* task nor an open socket outlives its handler, on any path (return, stop,
\* UnicodeDecodeError, a task that raised).
NothingOutlivesHandler ==
  \A c \in Conns :
    pc[c] \in {"closing", "done"} => task[c] \notin Live /\ tr[c] # "open"

\* Once handle_connection has left its loop nothing more is written to the
\* connection: the task is cancelled before the handler yields to it.
NothingWrittenAfterLoop ==
  [][\A c \in Conns : wrote'[c] # wrote[c] => pc[c] \in Looping]_vars

\* A client that reads slowly is at most one message over what the kernel and
\* the transport hold: downlink_loop waits in drain() and samples stored in the
\* meantime are skipped, not queued.
BacklogBounded ==
  \A c \in Conns : Backlog(c) <= KernelBuf + HighWater + 1

\* downlink_loop is to "downlink forever".  Once it has downlinked a sample, with
\* a bit rate that is not 0, only the cache makes it raise: the key is missing,
\* because that sample or a later one was flushed; or a sample stored after it
\* does not validate.  (Before that no sample need be there.)
SubscriptionLasts ==
  [][\A c \in Conns :
       (/\ task'[c] = "failed" /\ task[c] # "failed"
        /\ cmd[c].type = "subscribe" /\ cmd[c].bps # 0)
         => LET m == cmd[c].metric
            IN  \/ flushed[m] >= last[c]
                \/ \E v \in last[c] + 1 .. cache[m] : <<m, v>> \in bad]_vars

\* The handler of a connection that is reset always ends, whatever its loop
\* and its task are doing.
ResetEndsHandler ==
  \A c \in Conns : (tr[c] = "reset") ~> (pc[c] = "done")

\* The handler of c is in reader.read and its client stays silent.
HeldBySilence(c) == pc[c] = "reading" /\ peer[c] = "open" /\ inbuf[c] = << >>

\* __aexit__ comes to its end, whatever the handlers and their tasks are doing,
\* unless a client holds its handler in reader.read for ever.
StopEnds ==
  \/ (server = "stopping") ~> (server = "stopped")
  \/ \E c \in Conns : <>[]HeldBySilence(c)

\* downlink_loop is running for the client of c.
Downlinking(c) == task[c] \in Live /\ ~cancel[c] /\ cmd[c].type = "subscribe"

\* A stored sample, or one stored after it, is downlinked to every client whose
\* subscription lives on: no interleaving of GET, sleep and drain loses the
\* latest sample.
LatestIsDownlinked ==
  \A c \in Conns, m \in Metrics : \A v \in 1 .. MaxVersion[m] :
    (Downlinking(c) /\ cmd[c].metric = m /\ cache[m] >= v)
      ~> (last[c] >= v \/ ~Downlinking(c))

=============================================================================
