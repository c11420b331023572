------------------------- MODULE OnboardServerProofs -------------------------
(***************************************************************************)
(* Proofs about OnboardServer, for any number of connections and metrics,  *)
(* any buffers and any number of samples and messages.                     *)
(*                                                                         *)
(* TypeOK is not inductive on its own: that the answer of the cache is a   *)
(* number needs the command of a task in downlink_loop to be a Subscribe.  *)
(* Nor are the properties: they rest on how a handler's position relates   *)
(* to its task and its transport (HandlerInv), on how what the task has    *)
(* sent relates to what it fetched, what is stored and what was stored     *)
(* when the client connected (StreamInv, BacklogInv, FreshInv), and on     *)
(* which stored samples are flushed or unreadable (ReadableInv, CacheInv). *)
(***************************************************************************)
EXTENDS OnboardServer, TLAPS

\* The command of a task fits where the task is.
CommandInv ==
  \A c \in Conns :
    /\ task[c] = "none" => cmd[c] = NoCommand
    /\ task[c] # "none" => cmd[c] \in Commands
    /\ task[c] \in {"fetch", "fetched", "sleep"} => cmd[c] \in Subscribes
    /\ task[c] = "scan" => cmd[c].type = "get_metric_ids"
    /\ task[c] = "drain" => cmd[c] \in Subscribes \/ cmd[c].type = "get_metric_ids"

\* Where the handler is, its transport and its task.
HandlerOf(c) ==
  /\ pc[c] = "none" => tr[c] = "none" /\ task[c] = "none" /\ ~cancel[c]
  /\ peer[c] = "none" => pc[c] = "none"
  /\ pc[c] \in Looping \union {"cancelling"} => tr[c] \in {"open", "reset"}
  /\ pc[c] \in Looping => ~cancel[c]
  /\ pc[c] = "cancelling" => (task[c] \in Live => cancel[c])
  /\ pc[c] \in {"closing", "done"} => task[c] \notin Live /\ tr[c] # "open"

HandlerInv == \A c \in Conns : HandlerOf(c)

\* What was written to a subscriber is older than, or is, what was fetched
\* last, and that is no newer than what is stored.
StreamOf(c) ==
  /\ task[c] \in {"none", "starting", "scan"} => wrote[c] = << >> /\ last[c] = 0
  /\ cmd[c] \in Subscribes =>
       /\ last[c] <= cache[cmd[c].metric]
       /\ task[c] = "fetched" => /\ fetched[c] # 0 => last[c] <= fetched[c]
                                 /\ fetched[c] <= cache[cmd[c].metric]
       /\ \A i \in 1 .. Len(wrote[c]) : /\ wrote[c][i].kind = "sample"
                                        /\ wrote[c][i].metric = cmd[c].metric
                                        /\ wrote[c][i].ver <= last[c]

StreamInv == \A c \in Conns : StreamOf(c)

\* A task that is not in drain() has left room for one more message.
BacklogOf(c) ==
  /\ taken[c] <= Len(wrote[c])
  /\ Backlog(c) <= KernelBuf + HighWater + 1
  /\ task[c] \in {"none", "starting", "fetch", "fetched", "sleep", "scan"}
       => Backlog(c) <= KernelBuf + HighWater

BacklogInv == \A c \in Conns : BacklogOf(c)

\* What was fetched is no older than the connection it is fetched for.
FreshOf(c) ==
  /\ \A m \in Metrics : since[c][m] <= cache[m]
  /\ task[c] = "fetched" /\ fetched[c] # 0 => since[c][cmd[c].metric] <= fetched[c]

FreshInv == \A c \in Conns : FreshOf(c)

\* Sample l of m is gone, or a sample stored after it is not readable.
Spoilt(m, l) ==
  flushed[m] >= l \/ \E v \in l + 1 .. cache[m] : <<m, v>> \in bad

\* What a subscriber was sent, or is about to be sent, was readable; if there
\* was nothing to send, then the cache was flushed or holds what is not.
ReadableOf(c) ==
  cmd[c] \in Subscribes =>
    /\ last[c] # 0 => <<cmd[c].metric, last[c]>> \notin bad
    /\ task[c] = "fetched" =>
         IF fetched[c] # 0 THEN <<cmd[c].metric, fetched[c]>> \notin bad
                           ELSE Spoilt(cmd[c].metric, last[c])

ReadableInv == \A c \in Conns : ReadableOf(c)

\* Only what was stored is flushed, or seen by a scan.
CacheInv ==
  /\ \A m \in Metrics : flushed[m] <= cache[m]
  /\ \A c \in Conns : \A m \in seen[c] : cache[m] > 0

Inv ==
  /\ TypeOK /\ CommandInv /\ HandlerInv /\ StreamInv /\ BacklogInv /\ FreshInv
  /\ ReadableInv /\ CacheInv

-----------------------------------------------------------------------------
(* Types.                                                                  *)

\* What the server writes is telemetry.
LEMMA TelemetryMsgs ==
  /\ \A m \in Metrics, v \in Nat : SampleMsg(m, v) \in Telemetry
  /\ \A S \in SUBSET Metrics : MetricIdsMsg(S) \in Telemetry
BY DEF SampleMsg, MetricIdsMsg, Telemetry

\* A Subscribe has a metric, a NoCommand is none.
LEMMA CommandFields ==
  /\ \A x \in Subscribes : x.type = "subscribe" /\ x.metric \in Metrics
  /\ \A x \in Commands : x.type = "subscribe" => x \in Subscribes
  /\ NoCommand \notin Commands
  /\ Subscribes \subseteq Commands
BY DEF Subscribes, Commands, NoCommand

\* Initially every variable has its type.
LEMMA TypeInit == Init => TypeOK
BY DEF Init, TypeOK, NoCommand, Live, Ended, Looping, Finishing

\* Where a task goes after drain().
LEMMA DrainedType ==
  \A c \in Conns : Drained(c) \in {"returned", "failed", "sleep"}
BY DEF Drained

\* write and drain keep the types of what they change.
LEMMA WriteTypes ==
  ASSUME TypeOK, NEW c \in Conns, NEW t \in Telemetry, WriteAndDrain(c, t)
  PROVE  /\ task' \in [Conns -> {"none"} \union Live \union Ended]
         /\ wrote' \in [Conns -> Seq(Telemetry)]
<1>1. CASE tr[c] = "reset"
  BY <1>1 DEF WriteAndDrain, TypeOK, Live, Ended
<1>2. CASE tr[c] # "reset"
  <2>1. wrote' = [wrote EXCEPT ![c] = Append(@, t)]
    BY <1>2 DEF WriteAndDrain
  <2>2. task' \in [Conns -> {"none"} \union Live \union Ended]
    BY <1>2, DrainedType DEF WriteAndDrain, TypeOK, Live, Ended
  <2>3. wrote \in [Conns -> Seq(Telemetry)] /\ wrote[c] \in Seq(Telemetry)
    BY DEF TypeOK
  <2>4. Append(wrote[c], t) \in Seq(Telemetry)
    BY <2>3
  <2> QED
    BY <2>1, <2>2, <2>3, <2>4
<1> QED
  BY <1>1, <1>2

\* Every step keeps the types.
LEMMA TypeStep ==
  TypeOK /\ CommandInv /\ [Next]_vars => TypeOK'
<1> SUFFICES ASSUME TypeOK, CommandInv, [Next]_vars PROVE TypeOK'
  OBVIOUS
<1> USE DEF TypeOK, Live, Ended, Looping, Finishing, envVars, connVars,
            taskVars, netVars
<1>1. ASSUME NEW m \in Metrics, NEW finite \in BOOLEAN, Publish(m, finite)
      PROVE  TypeOK'
  BY <1>1, SMTT(30)
     DEF Publish
<1>2. ASSUME NEW c \in Conns, Connect(c)
      PROVE  TypeOK'
  BY <1>2
     DEF Connect
<1>3. ASSUME NEW c \in Conns, ClientClose(c)
      PROVE  TypeOK'
  BY <1>3
     DEF ClientClose
<1>4. ASSUME NEW c \in Conns, ConnectionReset(c)
      PROVE  TypeOK'
  BY <1>4
     DEF ConnectionReset
<1>5. ASSUME NEW c \in Conns, NEW m \in Messages, ClientSend(c, m)
      PROVE  TypeOK'
  BY <1>5, SMTT(30)
     DEF ClientSend
<1>6. ASSUME Interrupt \/ Aexit \/ Stopped \/ Flush
      PROVE  TypeOK'
  BY <1>6
     DEF Interrupt, Aexit, Stopped, Flush
<1>7. ASSUME NEW c \in Conns, StopSeen(c)
      PROVE  TypeOK'
  BY <1>7
     DEF StopSeen, LeaveLoop, AfterTask
<1>8. ASSUME NEW c \in Conns, ReadReset(c)
      PROVE  TypeOK'
  BY <1>8
     DEF ReadReset, LeaveLoop, AfterTask
<1>9. ASSUME NEW c \in Conns, ReadNotUtf8(c)
      PROVE  TypeOK'
  <2>1. /\ pc' \in [Conns -> {"none", "done"} \union Looping \union Finishing]
        /\ tr' \in [Conns -> {"none", "open", "closing", "closed", "reset"}]
        /\ cancel' \in [Conns -> BOOLEAN]
    BY <1>9 DEF ReadNotUtf8, LeaveLoop, AfterTask
  <2>2. inbuf' \in [Conns -> Seq(Messages)]
    BY <1>9 DEF ReadNotUtf8
  <2> QED
    BY <1>9, <2>1, <2>2 DEF ReadNotUtf8
<1>10. ASSUME NEW c \in Conns, ReadBlocks(c)
      PROVE  TypeOK'
  BY <1>10
     DEF ReadBlocks
<1>11. ASSUME NEW c \in Conns, ReadEof(c)
      PROVE  TypeOK'
  BY <1>11
     DEF ReadEof
<1>12. ASSUME NEW c \in Conns, ReadCommand(c)
      PROVE  TypeOK'
  <2>1. Head(inbuf[c]) \in Commands
    BY <1>12 DEF ReadCommand, IsTelecommand
  <2>2. /\ inbuf' \in [Conns -> Seq(Messages)]
        /\ pc' \in [Conns -> {"none", "done"} \union Looping \union Finishing]
    BY <1>12, SMTT(30) DEF ReadCommand
  <2>3. CASE task[c] = "none"
    <3>1. /\ task' = [task EXCEPT ![c] = "starting"]
          /\ cmd' = [cmd EXCEPT ![c] = Head(inbuf[c])]
          /\ queue' = queue
      BY <1>12, <2>3 DEF ReadCommand
    <3>2. cmd' \in [Conns -> Commands \union {NoCommand}]
      BY <2>1, <3>1
    <3> QED
      BY <1>12, <2>2, <3>1, <3>2 DEF ReadCommand
  <2>4. CASE task[c] # "none"
    <3>1. /\ queue' = [queue EXCEPT ![c] = Append(@, Head(inbuf[c]))]
          /\ task' = task /\ cmd' = cmd
      BY <1>12, <2>4 DEF ReadCommand
    <3>2. Append(queue[c], Head(inbuf[c])) \in Seq(Commands)
      BY <2>1
    <3>3. queue' \in [Conns -> Seq(Commands)]
      BY <3>1, <3>2
    <3> QED
      BY <1>12, <2>2, <3>1, <3>3 DEF ReadCommand
  <2> QED
    BY <2>3, <2>4
<1>13. ASSUME NEW c \in Conns, ReadGarbled(c)
      PROVE  TypeOK'
  BY <1>13, SMTT(30)
     DEF ReadGarbled
<1>14. ASSUME NEW c \in Conns, TaskAwaited(c)
      PROVE  TypeOK'
  BY <1>14
     DEF TaskAwaited, AfterTask
<1>15. ASSUME NEW c \in Conns, WriterClosed(c)
      PROVE  TypeOK'
  BY <1>15
     DEF WriterClosed
<1>16. ASSUME NEW c \in Conns, TaskCancelled(c)
      PROVE  TypeOK'
  BY <1>16
     DEF TaskCancelled
<1>17. ASSUME NEW c \in Conns, RunCommand(c)
      PROVE  TypeOK'
  <2>1. task' \in [Conns -> {"none"} \union Live \union Ended]
    BY <1>17 DEF RunCommand
  <2>2. \/ keys' = keys /\ seen' = seen
        \/ /\ keys' = [keys EXCEPT ![c] = {m \in Metrics : Stored(m)}]
           /\ seen' = [seen EXCEPT ![c] = {m \in Metrics : Stored(m)}]
    BY <1>17 DEF RunCommand
  <2>3. {m \in Metrics : Stored(m)} \in SUBSET Metrics
    OBVIOUS
  <2>4. keys' \in [Conns -> SUBSET Metrics]
    BY <2>2, <2>3
  <2>5. seen' \in [Conns -> SUBSET Metrics]
    BY <2>2, <2>3
  <2> QED
    BY <1>17, <2>1, <2>4, <2>5 DEF RunCommand
<1>18. ASSUME NEW c \in Conns, CacheAnswers(c)
      PROVE  TypeOK'
  BY <1>18, CommandFields
     DEF CacheAnswers, Cached, Resumes, CommandInv
<1>19. ASSUME NEW c \in Conns, CacheFails(c)
      PROVE  TypeOK'
  BY <1>19
     DEF CacheFails, Resumes
<1>20. ASSUME NEW c \in Conns, SampleRejected(c)
      PROVE  TypeOK'
  BY <1>20
     DEF SampleRejected, Resumes
<1>21. ASSUME NEW c \in Conns, SampleUnchanged(c)
      PROVE  TypeOK'
  BY <1>21
     DEF SampleUnchanged, Resumes
<1>22. ASSUME NEW c \in Conns, SleepOver(c)
      PROVE  TypeOK'
  BY <1>22
     DEF SleepOver, Resumes
<1>23. ASSUME NEW c \in Conns, DrainOver(c)
      PROVE  TypeOK'
  BY <1>23
     DEF DrainOver, Resumes, Drained
<1>24. ASSUME NEW c \in Conns, DownlinkSample(c)
      PROVE  TypeOK'
  <2>1. SampleMsg(cmd[c].metric, fetched[c]) \in Telemetry
    BY <1>24, CommandFields, TelemetryMsgs DEF DownlinkSample, Resumes, CommandInv
  <2>2. /\ task' \in [Conns -> {"none"} \union Live \union Ended]
        /\ wrote' \in [Conns -> Seq(Telemetry)]
    BY <1>24, <2>1, WriteTypes DEF DownlinkSample
  <2> QED
    BY <1>24, <2>2 DEF DownlinkSample
<1>25. ASSUME NEW c \in Conns, NEW S \in SUBSET Metrics, MetricIdsFound(c, S)
      PROVE  TypeOK'
  <2>1. MetricIdsMsg(S \ ColonIds) \in Telemetry
    BY TelemetryMsgs
  <2>2. /\ task' \in [Conns -> {"none"} \union Live \union Ended]
        /\ wrote' \in [Conns -> Seq(Telemetry)]
    BY <1>25, <2>1, WriteTypes DEF MetricIdsFound
  <2> QED
    BY <1>25, <2>2 DEF MetricIdsFound
<1>26. ASSUME NEW c \in Conns, ClientRecv(c)
      PROVE  TypeOK'
  BY <1>26, SMTT(30)
     DEF ClientRecv
<1>27. ASSUME NEW c \in Conns, WriteRefused(c)
      PROVE  TypeOK'
  BY <1>27
     DEF WriteRefused
<1>28. ASSUME NEW c \in Conns, Flushed(c)
      PROVE  TypeOK'
  BY <1>28
     DEF Flushed
<1>29. CASE UNCHANGED vars
  BY <1>29 DEF vars
<1> QED
  BY <1>1, <1>2, <1>3, <1>4, <1>5, <1>6, <1>7, <1>8, <1>9, <1>10, <1>11,
     <1>12, <1>13, <1>14, <1>15, <1>16, <1>17, <1>18, <1>19, <1>20, <1>21,
     <1>22, <1>23, <1>24, <1>25, <1>26, <1>27, <1>28, <1>29
     DEF Next, Environment, Handler, Task

-----------------------------------------------------------------------------
(* The command of a task.                                                  *)

\* Initially there are no tasks.
LEMMA CommandInit == Init => CommandInv
BY DEF Init, CommandInv, NoCommand

\* A drained task that goes on has a Subscribe for its command.
LEMMA DrainedCommand ==
  \A c \in Conns : /\ Drained(c) = "sleep" => cmd[c].type # "get_metric_ids"
                   /\ Drained(c) \in {"returned", "failed", "sleep"}
BY DEF Drained

\* Every step keeps the command of a task fitting.
LEMMA CommandStep ==
  TypeOK /\ CommandInv /\ [Next]_vars => CommandInv'
<1> SUFFICES ASSUME TypeOK, CommandInv, [Next]_vars PROVE CommandInv'
  OBVIOUS
<1> USE DEF TypeOK, CommandInv, Live, Ended, envVars, connVars, taskVars,
            netVars
<1>1. ASSUME NEW m \in Metrics, NEW finite \in BOOLEAN, Publish(m, finite)
      PROVE  CommandInv'
  BY <1>1
     DEF Publish
<1>2. ASSUME NEW c \in Conns, Connect(c) \/ ClientClose(c) \/ ConnectionReset(c)
      PROVE  CommandInv'
  BY <1>2
     DEF Connect, ClientClose, ConnectionReset
<1>3. ASSUME NEW c \in Conns, NEW m \in Messages, ClientSend(c, m)
      PROVE  CommandInv'
  BY <1>3
     DEF ClientSend
<1>4. ASSUME Interrupt \/ Aexit \/ Stopped \/ Flush
      PROVE  CommandInv'
  BY <1>4
     DEF Interrupt, Aexit, Stopped, Flush
<1>5. ASSUME NEW c \in Conns, StopSeen(c) \/ ReadReset(c) \/ ReadNotUtf8(c)
      PROVE  CommandInv'
  BY <1>5
     DEF StopSeen, LeaveLoop, AfterTask, ReadReset, ReadNotUtf8
<1>6. ASSUME NEW c \in Conns, ReadBlocks(c) \/ ReadEof(c) \/ ReadGarbled(c)
      PROVE  CommandInv'
  BY <1>6
     DEF ReadBlocks, ReadEof, ReadGarbled
<1>7. ASSUME NEW c \in Conns, TaskAwaited(c) \/ WriterClosed(c)
      PROVE  CommandInv'
  BY <1>7
     DEF TaskAwaited, AfterTask, WriterClosed
<1>8. ASSUME NEW c \in Conns, ClientRecv(c) \/ WriteRefused(c) \/ Flushed(c)
      PROVE  CommandInv'
  BY <1>8
     DEF ClientRecv, WriteRefused, Flushed
<1>9. ASSUME NEW c \in Conns, ReadCommand(c)
      PROVE  CommandInv'
  <2>1. Head(inbuf[c]) \in Commands
    BY <1>9 DEF ReadCommand, IsTelecommand
  <2>2. CASE task[c] = "none"
    <3>1. /\ task' = [task EXCEPT ![c] = "starting"]
          /\ cmd' = [cmd EXCEPT ![c] = Head(inbuf[c])]
      BY <1>9, <2>2 DEF ReadCommand
    <3> QED
      BY <2>1, <3>1
  <2>3. CASE task[c] # "none"
    BY <1>9, <2>3 DEF ReadCommand
  <2> QED
    BY <2>2, <2>3
<1>10. ASSUME NEW c \in Conns, TaskCancelled(c)
      PROVE  CommandInv'
  BY <1>10
     DEF TaskCancelled
<1>11. ASSUME NEW c \in Conns, RunCommand(c)
      PROVE  CommandInv'
  BY <1>11, CommandFields, SMTT(30)
     DEF RunCommand, Resumes
<1>12. ASSUME NEW c \in Conns, CacheAnswers(c)
      PROVE  CommandInv'
  BY <1>12
     DEF CacheAnswers, Resumes
<1>13. ASSUME NEW c \in Conns, CacheFails(c)
      PROVE  CommandInv'
  BY <1>13
     DEF CacheFails, Resumes
<1>14. ASSUME NEW c \in Conns, SampleRejected(c)
      PROVE  CommandInv'
  BY <1>14
     DEF SampleRejected, Resumes
<1>15. ASSUME NEW c \in Conns, SampleUnchanged(c)
      PROVE  CommandInv'
  BY <1>15
     DEF SampleUnchanged, Resumes
<1>16. ASSUME NEW c \in Conns, SleepOver(c)
      PROVE  CommandInv'
  BY <1>16
     DEF SleepOver, Resumes
<1>17. ASSUME NEW c \in Conns, DrainOver(c)
      PROVE  CommandInv'
  <2>1. PICK st \in {"conn_error", "drain", "returned", "failed", "sleep"} :
              /\ task' = [task EXCEPT ![c] = st]
              /\ st = "sleep" => cmd[c].type # "get_metric_ids"
    BY <1>17, DrainedCommand DEF DrainOver
  <2>2. cmd' = cmd /\ task[c] = "drain"
    BY <1>17 DEF DrainOver, Resumes
  <2> QED
    BY <2>1, <2>2, CommandFields
<1>18. ASSUME NEW c \in Conns, DownlinkSample(c)
      PROVE  CommandInv'
  <2>1. PICK st \in {"conn_error", "drain", "returned", "failed", "sleep"} :
              /\ task' = [task EXCEPT ![c] = st]
              /\ st = "sleep" => cmd[c].type # "get_metric_ids"
    BY <1>18, DrainedCommand DEF DownlinkSample, WriteAndDrain
  <2>2. cmd' = cmd /\ task[c] = "fetched"
    BY <1>18 DEF DownlinkSample, Resumes
  <2> QED
    BY <2>1, <2>2, CommandFields
<1>19. ASSUME NEW c \in Conns, NEW S \in SUBSET Metrics, MetricIdsFound(c, S)
      PROVE  CommandInv'
  <2>1. PICK st \in {"conn_error", "drain", "returned", "failed", "sleep"} :
              /\ task' = [task EXCEPT ![c] = st]
              /\ st = "sleep" => cmd[c].type # "get_metric_ids"
    BY <1>19, DrainedCommand DEF MetricIdsFound, WriteAndDrain
  <2>2. cmd' = cmd /\ task[c] = "scan"
    BY <1>19 DEF MetricIdsFound, Resumes
  <2> QED
    BY <2>1, <2>2, CommandFields
<1>20. CASE UNCHANGED vars
  BY <1>20 DEF vars, StreamInv, StreamOf
<1> QED
  BY <1>1, <1>2, <1>3, <1>4, <1>5, <1>6, <1>7, <1>8, <1>9, <1>10, <1>11,
     <1>12, <1>13, <1>14, <1>15, <1>16, <1>17, <1>18, <1>19, <1>20
     DEF Next, Environment, Handler, Task

-----------------------------------------------------------------------------
(* Handlers, their transports and their tasks.                             *)

\* Initially there are no handlers.
LEMMA HandlerInit == Init => HandlerInv
BY DEF Init, HandlerInv, HandlerOf, Looping

\* Every step keeps handler, transport and task in accord.
LEMMA HandlerStep ==
  TypeOK /\ HandlerInv /\ [Next]_vars => HandlerInv'
<1> SUFFICES ASSUME TypeOK, HandlerInv, [Next]_vars PROVE HandlerInv'
  OBVIOUS
<1> USE DEF TypeOK, HandlerInv, HandlerOf, Live, Ended, Looping, Finishing, Uncaught,
            envVars, connVars, taskVars, netVars
<1>1. ASSUME NEW m \in Metrics, NEW finite \in BOOLEAN, Publish(m, finite)
      PROVE  HandlerInv'
  BY <1>1
     DEF Publish
<1>2. ASSUME NEW c \in Conns, Connect(c)
      PROVE  HandlerInv'
  BY <1>2
     DEF Connect
<1>3. ASSUME NEW c \in Conns, ClientClose(c)
      PROVE  HandlerInv'
  BY <1>3
     DEF ClientClose
<1>4. ASSUME NEW c \in Conns, ConnectionReset(c)
      PROVE  HandlerInv'
  BY <1>4
     DEF ConnectionReset
<1>5. ASSUME NEW c \in Conns, NEW m \in Messages, ClientSend(c, m)
      PROVE  HandlerInv'
  BY <1>5
     DEF ClientSend
<1>6. ASSUME Interrupt \/ Aexit \/ Stopped \/ Flush
      PROVE  HandlerInv'
  BY <1>6
     DEF Interrupt, Aexit, Stopped, Flush
<1>7. ASSUME NEW c \in Conns, StopSeen(c)
      PROVE  HandlerInv'
  BY <1>7, SMTT(30)
     DEF StopSeen, LeaveLoop, AfterTask
<1>8. ASSUME NEW c \in Conns, ReadReset(c)
      PROVE  HandlerInv'
  BY <1>8, SMTT(30)
     DEF ReadReset, LeaveLoop, AfterTask, AtRead
<1>9. ASSUME NEW c \in Conns, ReadNotUtf8(c)
      PROVE  HandlerInv'
  BY <1>9
     DEF ReadNotUtf8, LeaveLoop, AfterTask, AtRead
<1>10. ASSUME NEW c \in Conns, ReadBlocks(c)
      PROVE  HandlerInv'
  BY <1>10
     DEF ReadBlocks, AtRead
<1>11. ASSUME NEW c \in Conns, ReadEof(c)
      PROVE  HandlerInv'
  BY <1>11
     DEF ReadEof, AtRead
<1>12. ASSUME NEW c \in Conns, ReadGarbled(c)
      PROVE  HandlerInv'
  BY <1>12
     DEF ReadGarbled, AtRead
<1>13. ASSUME NEW c \in Conns, ReadCommand(c)
      PROVE  HandlerInv'
  BY <1>13, SMTT(30)
     DEF ReadCommand, IsTelecommand, AtRead
<1>14. ASSUME NEW c \in Conns, TaskAwaited(c)
      PROVE  HandlerInv'
  <2>1. pc[c] = "cancelling" /\ task[c] \notin Live /\ task' = task /\ cancel' = cancel
        /\ peer' = peer
    BY <1>14 DEF TaskAwaited
  <2>2. PICK p \in {"closing", "done"},
             t \in {"none", "closing", "closed", "reset"} :
           pc' = [pc EXCEPT ![c] = p] /\ tr' = [tr EXCEPT ![c] = t]
    BY <1>14, SMTT(30) DEF TaskAwaited, AfterTask
  <2>3. ASSUME NEW d \in Conns, d # c
        PROVE  pc'[d] = pc[d] /\ tr'[d] = tr[d] /\ task'[d] = task[d]
               /\ cancel'[d] = cancel[d] /\ peer'[d] = peer[d]
    BY <2>1, <2>2, <2>3
  <2>4. pc'[c] \in {"closing", "done"} /\ tr'[c] # "open" /\ task'[c] \notin Live
        /\ peer[c] # "none" /\ peer'[c] = peer[c]
    BY <2>1, <2>2
  <2>5. HandlerOf(c)'
    BY <2>4
  <2>6. ASSUME NEW d \in Conns, d # c PROVE HandlerOf(d)'
    BY <2>3, <2>6
  <2> QED
    BY <2>5, <2>6, SMTT(30)
<1>15. ASSUME NEW c \in Conns, WriterClosed(c)
      PROVE  HandlerInv'
  BY <1>15
     DEF WriterClosed
<1>16. ASSUME NEW c \in Conns, ClientRecv(c)
      PROVE  HandlerInv'
  BY <1>16
     DEF ClientRecv
<1>17. ASSUME NEW c \in Conns, WriteRefused(c)
      PROVE  HandlerInv'
  BY <1>17
     DEF WriteRefused
<1>18. ASSUME NEW c \in Conns, Flushed(c)
      PROVE  HandlerInv'
  BY <1>18
     DEF Flushed
<1>19. ASSUME NEW c \in Conns, TaskCancelled(c)
      PROVE  HandlerInv'
  BY <1>19
     DEF TaskCancelled
<1>20. ASSUME NEW c \in Conns, RunCommand(c)
      PROVE  HandlerInv'
  BY <1>20
     DEF RunCommand, Resumes
<1>21. ASSUME NEW c \in Conns, CacheAnswers(c)
      PROVE  HandlerInv'
  BY <1>21
     DEF CacheAnswers, Resumes
<1>22. ASSUME NEW c \in Conns, CacheFails(c)
      PROVE  HandlerInv'
  BY <1>22
     DEF CacheFails, Resumes
<1>23. ASSUME NEW c \in Conns, SampleRejected(c)
      PROVE  HandlerInv'
  BY <1>23
     DEF SampleRejected, Resumes
<1>24. ASSUME NEW c \in Conns, SampleUnchanged(c)
      PROVE  HandlerInv'
  BY <1>24
     DEF SampleUnchanged, Resumes
<1>25. ASSUME NEW c \in Conns, SleepOver(c)
      PROVE  HandlerInv'
  BY <1>25
     DEF SleepOver, Resumes
<1>26. ASSUME NEW c \in Conns, DrainOver(c)
      PROVE  HandlerInv'
  BY <1>26, DrainedType
     DEF DrainOver, Resumes
<1>27. ASSUME NEW c \in Conns, DownlinkSample(c)
      PROVE  HandlerInv'
  BY <1>27, DrainedType, SMTT(30)
     DEF DownlinkSample, Resumes, WriteAndDrain
<1>28. ASSUME NEW c \in Conns, NEW S \in SUBSET Metrics, MetricIdsFound(c, S)
      PROVE  HandlerInv'
  BY <1>28, DrainedType, SMTT(30)
     DEF MetricIdsFound, Resumes, WriteAndDrain
<1>29. CASE UNCHANGED vars
  BY <1>29 DEF vars
<1> QED
  BY <1>1, <1>2, <1>3, <1>4, <1>5, <1>6, <1>7, <1>8, <1>9, <1>10, <1>11,
     <1>12, <1>13, <1>14, <1>15, <1>16, <1>17, <1>18, <1>19, <1>20, <1>21,
     <1>22, <1>23, <1>24, <1>25, <1>26, <1>27, <1>28, <1>29
     DEF Next, Environment, Handler, Task

-----------------------------------------------------------------------------
(* What is sent, fetched and stored.                                       *)

\* Initially nothing is.
LEMMA StreamInit == Init => StreamInv
BY CommandFields DEF Init, StreamInv, StreamOf

\* A connection keeps its invariant in a step that neither writes nor fetches
\* for it, whatever is stored meanwhile.
LEMMA StreamFrame ==
  ASSUME TypeOK, NEW d \in Conns, StreamOf(d),
         wrote'[d] = wrote[d], last'[d] = last[d], cmd'[d] = cmd[d],
         fetched'[d] = fetched[d],
         task'[d] = task[d] \/ task'[d] \notin {"none", "starting", "scan", "fetched"},
         \A m \in Metrics : cache'[m] \in Nat /\ cache[m] <= cache'[m]
  PROVE  StreamOf(d)'
<1>1. ASSUME cmd[d] \in Subscribes
      PROVE  /\ last[d] \in Nat /\ fetched[d] \in Nat
             /\ cache[cmd[d].metric] \in Nat /\ cache'[cmd[d].metric] \in Nat
             /\ cache[cmd[d].metric] <= cache'[cmd[d].metric]
  BY <1>1, CommandFields DEF TypeOK
<1> QED
  BY <1>1 DEF StreamOf

\* Every step keeps what is sent older than what is stored, and in order.
LEMMA StreamStep ==
  TypeOK /\ CommandInv /\ StreamInv /\ [Next]_vars => StreamInv'
<1> SUFFICES ASSUME TypeOK, CommandInv, StreamInv, [Next]_vars PROVE StreamInv'
  OBVIOUS
<1> USE DEF envVars, connVars, taskVars, netVars
<1>1. ASSUME NEW m \in Metrics, NEW finite \in BOOLEAN, Publish(m, finite)
      PROVE  StreamInv'
  <2> SUFFICES ASSUME NEW d \in Conns PROVE StreamOf(d)'
    BY DEF StreamInv
  <2>1. /\ wrote' = wrote /\ last' = last /\ cmd' = cmd /\ fetched' = fetched
        /\ task'[d] = task[d] \/ task'[d] \notin {"none", "starting", "scan", "fetched"}
        /\ \A n \in Metrics : cache'[n] \in Nat /\ cache[n] <= cache'[n]
    BY <1>1, SMTT(30)
       DEF Publish, TypeOK
  <2> QED
    BY <2>1, StreamFrame DEF StreamInv
<1>2. ASSUME NEW c \in Conns, Connect(c) \/ ClientClose(c) \/ ConnectionReset(c)
      PROVE  StreamInv'
  <2> SUFFICES ASSUME NEW d \in Conns PROVE StreamOf(d)'
    BY DEF StreamInv
  <2>1. /\ wrote' = wrote /\ last' = last /\ cmd' = cmd /\ fetched' = fetched
        /\ task'[d] = task[d] \/ task'[d] \notin {"none", "starting", "scan", "fetched"}
        /\ \A n \in Metrics : cache'[n] \in Nat /\ cache[n] <= cache'[n]
    BY <1>2
       DEF Connect, ClientClose, ConnectionReset, TypeOK
  <2> QED
    BY <2>1, StreamFrame DEF StreamInv
<1>3. ASSUME NEW c \in Conns, NEW m \in Messages, ClientSend(c, m)
      PROVE  StreamInv'
  <2> SUFFICES ASSUME NEW d \in Conns PROVE StreamOf(d)'
    BY DEF StreamInv
  <2>1. /\ wrote' = wrote /\ last' = last /\ cmd' = cmd /\ fetched' = fetched
        /\ task'[d] = task[d] \/ task'[d] \notin {"none", "starting", "scan", "fetched"}
        /\ \A n \in Metrics : cache'[n] \in Nat /\ cache[n] <= cache'[n]
    BY <1>3
       DEF ClientSend, TypeOK
  <2> QED
    BY <2>1, StreamFrame DEF StreamInv
<1>4. ASSUME Interrupt \/ Aexit \/ Stopped \/ Flush
      PROVE  StreamInv'
  <2> SUFFICES ASSUME NEW d \in Conns PROVE StreamOf(d)'
    BY DEF StreamInv
  <2>1. /\ wrote' = wrote /\ last' = last /\ cmd' = cmd /\ fetched' = fetched
        /\ task'[d] = task[d] \/ task'[d] \notin {"none", "starting", "scan", "fetched"}
        /\ \A n \in Metrics : cache'[n] \in Nat /\ cache[n] <= cache'[n]
    BY <1>4
       DEF Interrupt, Aexit, Stopped, Flush, TypeOK
  <2> QED
    BY <2>1, StreamFrame DEF StreamInv
<1>5. ASSUME NEW c \in Conns, StopSeen(c) \/ ReadReset(c) \/ ReadNotUtf8(c)
      PROVE  StreamInv'
  <2> SUFFICES ASSUME NEW d \in Conns PROVE StreamOf(d)'
    BY DEF StreamInv
  <2>1. /\ wrote' = wrote /\ last' = last /\ cmd' = cmd /\ fetched' = fetched
        /\ task'[d] = task[d] \/ task'[d] \notin {"none", "starting", "scan", "fetched"}
        /\ \A n \in Metrics : cache'[n] \in Nat /\ cache[n] <= cache'[n]
    BY <1>5
       DEF StopSeen, LeaveLoop, AfterTask, ReadReset, ReadNotUtf8, TypeOK
  <2> QED
    BY <2>1, StreamFrame DEF StreamInv
<1>6. ASSUME NEW c \in Conns, ReadBlocks(c) \/ ReadEof(c) \/ ReadGarbled(c)
      PROVE  StreamInv'
  <2> SUFFICES ASSUME NEW d \in Conns PROVE StreamOf(d)'
    BY DEF StreamInv
  <2>1. /\ wrote' = wrote /\ last' = last /\ cmd' = cmd /\ fetched' = fetched
        /\ task'[d] = task[d] \/ task'[d] \notin {"none", "starting", "scan", "fetched"}
        /\ \A n \in Metrics : cache'[n] \in Nat /\ cache[n] <= cache'[n]
    BY <1>6
       DEF ReadBlocks, ReadEof, ReadGarbled, TypeOK
  <2> QED
    BY <2>1, StreamFrame DEF StreamInv
<1>7. ASSUME NEW c \in Conns, TaskAwaited(c) \/ WriterClosed(c)
      PROVE  StreamInv'
  <2> SUFFICES ASSUME NEW d \in Conns PROVE StreamOf(d)'
    BY DEF StreamInv
  <2>1. /\ wrote' = wrote /\ last' = last /\ cmd' = cmd /\ fetched' = fetched
        /\ task'[d] = task[d] \/ task'[d] \notin {"none", "starting", "scan", "fetched"}
        /\ \A n \in Metrics : cache'[n] \in Nat /\ cache[n] <= cache'[n]
    BY <1>7
       DEF TaskAwaited, AfterTask, WriterClosed, TypeOK
  <2> QED
    BY <2>1, StreamFrame DEF StreamInv
<1>8. ASSUME NEW c \in Conns, ClientRecv(c) \/ WriteRefused(c) \/ Flushed(c)
      PROVE  StreamInv'
  <2> SUFFICES ASSUME NEW d \in Conns PROVE StreamOf(d)'
    BY DEF StreamInv
  <2>1. /\ wrote' = wrote /\ last' = last /\ cmd' = cmd /\ fetched' = fetched
        /\ task'[d] = task[d] \/ task'[d] \notin {"none", "starting", "scan", "fetched"}
        /\ \A n \in Metrics : cache'[n] \in Nat /\ cache[n] <= cache'[n]
    BY <1>8, SMTT(30)
       DEF ClientRecv, WriteRefused, Flushed, TypeOK
  <2> QED
    BY <2>1, StreamFrame DEF StreamInv
<1>9. ASSUME NEW c \in Conns, TaskCancelled(c)
      PROVE  StreamInv'
  <2> SUFFICES ASSUME NEW d \in Conns PROVE StreamOf(d)'
    BY DEF StreamInv
  <2>1. /\ wrote' = wrote /\ last' = last /\ cmd' = cmd /\ fetched' = fetched
        /\ task'[d] = task[d] \/ task'[d] \notin {"none", "starting", "scan", "fetched"}
        /\ \A n \in Metrics : cache'[n] \in Nat /\ cache[n] <= cache'[n]
    BY <1>9
       DEF TaskCancelled, TypeOK
  <2> QED
    BY <2>1, StreamFrame DEF StreamInv
<1>10. ASSUME NEW c \in Conns, CacheFails(c)
      PROVE  StreamInv'
  <2> SUFFICES ASSUME NEW d \in Conns PROVE StreamOf(d)'
    BY DEF StreamInv
  <2>1. /\ wrote' = wrote /\ last' = last /\ cmd' = cmd /\ fetched' = fetched
        /\ task'[d] = task[d] \/ task'[d] \notin {"none", "starting", "scan", "fetched"}
        /\ \A n \in Metrics : cache'[n] \in Nat /\ cache[n] <= cache'[n]
    BY <1>10
       DEF CacheFails, Resumes, TypeOK
  <2> QED
    BY <2>1, StreamFrame DEF StreamInv
<1>11. ASSUME NEW c \in Conns, SampleRejected(c)
      PROVE  StreamInv'
  <2> SUFFICES ASSUME NEW d \in Conns PROVE StreamOf(d)'
    BY DEF StreamInv
  <2>1. /\ wrote' = wrote /\ last' = last /\ cmd' = cmd /\ fetched' = fetched
        /\ task'[d] = task[d] \/ task'[d] \notin {"none", "starting", "scan", "fetched"}
        /\ \A n \in Metrics : cache'[n] \in Nat /\ cache[n] <= cache'[n]
    BY <1>11
       DEF SampleRejected, Resumes, TypeOK
  <2> QED
    BY <2>1, StreamFrame DEF StreamInv
<1>12. ASSUME NEW c \in Conns, SampleUnchanged(c)
      PROVE  StreamInv'
  <2> SUFFICES ASSUME NEW d \in Conns PROVE StreamOf(d)'
    BY DEF StreamInv
  <2>1. /\ wrote' = wrote /\ last' = last /\ cmd' = cmd /\ fetched' = fetched
        /\ task'[d] = task[d] \/ task'[d] \notin {"none", "starting", "scan", "fetched"}
        /\ \A n \in Metrics : cache'[n] \in Nat /\ cache[n] <= cache'[n]
    BY <1>12
       DEF SampleUnchanged, Resumes, TypeOK
  <2> QED
    BY <2>1, StreamFrame DEF StreamInv
<1>13. ASSUME NEW c \in Conns, SleepOver(c)
      PROVE  StreamInv'
  <2> SUFFICES ASSUME NEW d \in Conns PROVE StreamOf(d)'
    BY DEF StreamInv
  <2>1. /\ wrote' = wrote /\ last' = last /\ cmd' = cmd /\ fetched' = fetched
        /\ task'[d] = task[d] \/ task'[d] \notin {"none", "starting", "scan", "fetched"}
        /\ \A n \in Metrics : cache'[n] \in Nat /\ cache[n] <= cache'[n]
    BY <1>13
       DEF SleepOver, Resumes, TypeOK
  <2> QED
    BY <2>1, StreamFrame DEF StreamInv
<1>14. ASSUME NEW c \in Conns, DrainOver(c)
      PROVE  StreamInv'
  <2> SUFFICES ASSUME NEW d \in Conns PROVE StreamOf(d)'
    BY DEF StreamInv
  <2>1. /\ wrote' = wrote /\ last' = last /\ cmd' = cmd /\ fetched' = fetched
        /\ cache' = cache
    BY <1>14 DEF DrainOver
  <2>2. PICK st \in {"conn_error", "returned", "failed", "sleep"} :
           task' = [task EXCEPT ![c] = st]
    BY <1>14, DrainedType DEF DrainOver
  <2>3. task'[d] = task[d] \/ task'[d] \notin {"none", "starting", "scan", "fetched"}
    BY <2>2 DEF TypeOK
  <2>4. \A n \in Metrics : cache'[n] \in Nat /\ cache[n] <= cache'[n]
    BY <2>1 DEF TypeOK
  <2> QED
    BY <2>1, <2>3, <2>4, StreamFrame DEF StreamInv
<1>15. ASSUME NEW c \in Conns, ReadCommand(c)
      PROVE  StreamInv'
  <2> SUFFICES ASSUME NEW d \in Conns PROVE StreamOf(d)'
    BY DEF StreamInv
  <2>0. ASSUME d # c PROVE StreamOf(d)'
    <3>1. /\ wrote'[d] = wrote[d] /\ last'[d] = last[d] /\ cmd'[d] = cmd[d]
          /\ fetched'[d] = fetched[d] /\ task'[d] = task[d] /\ cache' = cache
      BY <1>15, <2>0 DEF ReadCommand, TypeOK
    <3>2. \A n \in Metrics : cache'[n] \in Nat /\ cache[n] <= cache'[n]
      BY <3>1 DEF TypeOK
    <3> QED
      BY <3>1, <3>2, StreamFrame DEF StreamInv
  <2>1. CASE task[c] = "none"
    <3>1. /\ wrote'[c] = << >> /\ last'[c] = 0 /\ task'[c] = "starting"
      BY <1>15, <2>1 DEF ReadCommand, StreamInv, StreamOf, TypeOK
    <3>2. cmd'[c] \in Commands /\ cache' = cache
      BY <1>15, <2>1 DEF ReadCommand, IsTelecommand, TypeOK
    <3>3. cmd'[c] \in Subscribes => cache'[cmd'[c].metric] \in Nat
      BY <3>2, CommandFields DEF TypeOK
    <3> QED
      BY <2>0, <3>1, <3>2, <3>3 DEF StreamOf
  <2>2. CASE task[c] # "none"
    <3>1. /\ wrote' = wrote /\ last' = last /\ cmd' = cmd /\ fetched' = fetched
          /\ task' = task /\ cache' = cache
      BY <1>15, <2>2 DEF ReadCommand
    <3> QED
      BY <2>0, <3>1 DEF StreamInv, StreamOf
  <2> QED
    BY <2>1, <2>2
<1>16. ASSUME NEW c \in Conns, RunCommand(c)
      PROVE  StreamInv'
  <2> SUFFICES ASSUME NEW d \in Conns PROVE StreamOf(d)'
    BY DEF StreamInv
  <2>0. ASSUME d # c PROVE StreamOf(d)'
    <3>1. /\ wrote'[d] = wrote[d] /\ last'[d] = last[d] /\ cmd'[d] = cmd[d]
          /\ fetched'[d] = fetched[d] /\ task'[d] = task[d] /\ cache' = cache
      BY <1>16, <2>0 DEF RunCommand, TypeOK
    <3>2. \A n \in Metrics : cache'[n] \in Nat /\ cache[n] <= cache'[n]
      BY <3>1 DEF TypeOK
    <3> QED
      BY <3>1, <3>2, StreamFrame DEF StreamInv
  <2>1. /\ wrote' = wrote /\ last' = last /\ cmd' = cmd /\ fetched' = fetched
        /\ cache' = cache /\ task[c] = "starting"
        /\ task'[c] \in {"fetch", "scan", "returned"}
    BY <1>16 DEF RunCommand, Resumes, TypeOK
  <2> QED
    BY <2>0, <2>1 DEF StreamInv, StreamOf
<1>17. ASSUME NEW c \in Conns, CacheAnswers(c)
      PROVE  StreamInv'
  <2> SUFFICES ASSUME NEW d \in Conns PROVE StreamOf(d)'
    BY DEF StreamInv
  <2>0. ASSUME d # c PROVE StreamOf(d)'
    <3>1. /\ wrote'[d] = wrote[d] /\ last'[d] = last[d] /\ cmd'[d] = cmd[d]
          /\ fetched'[d] = fetched[d] /\ task'[d] = task[d] /\ cache' = cache
      BY <1>17, <2>0 DEF CacheAnswers, TypeOK
    <3>2. \A n \in Metrics : cache'[n] \in Nat /\ cache[n] <= cache'[n]
      BY <3>1 DEF TypeOK
    <3> QED
      BY <3>1, <3>2, StreamFrame DEF StreamInv
  <2>1. /\ wrote' = wrote /\ last' = last /\ cmd' = cmd /\ cache' = cache
        /\ fetched'[c] \in {0, cache[cmd[c].metric]}
        /\ task'[c] = "fetched"
    BY <1>17 DEF CacheAnswers, Cached, TypeOK
  <2>2. cmd[c] \in Subscribes /\ cache[cmd[c].metric] \in Nat
    BY <1>17, CommandFields DEF CacheAnswers, Resumes, CommandInv, TypeOK
  <2> QED
    BY <2>0, <2>1, <2>2 DEF StreamInv, StreamOf
<1>18. ASSUME NEW c \in Conns, DownlinkSample(c)
      PROVE  StreamInv'
  <2> SUFFICES ASSUME NEW d \in Conns PROVE StreamOf(d)'
    BY DEF StreamInv
  <2>0. ASSUME d # c PROVE StreamOf(d)'
    <3>1. /\ wrote'[d] = wrote[d] /\ last'[d] = last[d] /\ cmd'[d] = cmd[d]
          /\ fetched'[d] = fetched[d] /\ task'[d] = task[d] /\ cache' = cache
      BY <1>18, <2>0 DEF DownlinkSample, WriteAndDrain, TypeOK
    <3>2. \A n \in Metrics : cache'[n] \in Nat /\ cache[n] <= cache'[n]
      BY <3>1 DEF TypeOK
    <3> QED
      BY <3>1, <3>2, StreamFrame DEF StreamInv
  <2> DEFINE msg == SampleMsg(cmd[c].metric, fetched[c])
  <2>1. /\ task[c] = "fetched" /\ last'[c] = fetched[c]
        /\ cmd' = cmd /\ fetched' = fetched /\ cache' = cache
    BY <1>18 DEF DownlinkSample, Resumes, TypeOK
  <2>2. /\ cmd[c] \in Subscribes /\ wrote[c] \in Seq(Telemetry)
        /\ last[c] \in Nat /\ fetched[c] \in Nat /\ cache[cmd[c].metric] \in Nat
        /\ last[c] <= fetched[c] /\ fetched[c] <= cache[cmd[c].metric]
    BY <1>18, <2>1, CommandFields
       DEF DownlinkSample, CommandInv, StreamInv, StreamOf, TypeOK
  <2>3. task'[c] \in {"conn_error", "drain", "returned", "failed", "sleep"}
    BY <1>18, DrainedType DEF DownlinkSample, WriteAndDrain, TypeOK
  <2>4. wrote'[c] = wrote[c] \/ wrote'[c] = Append(wrote[c], msg)
    BY <1>18 DEF DownlinkSample, WriteAndDrain, TypeOK
  <2>5. /\ msg.kind = "sample" /\ msg.metric = cmd[c].metric /\ msg.ver = fetched[c]
    BY DEF SampleMsg
  <2>6. \A i \in 1 .. Len(wrote[c]) : /\ wrote[c][i].kind = "sample"
                                      /\ wrote[c][i].metric = cmd[c].metric
                                      /\ wrote[c][i].ver <= last[c]
    BY <2>2 DEF StreamInv, StreamOf
  <2>7. \A i \in 1 .. Len(wrote[c]) : wrote[c][i].ver \in Nat
    BY <2>2, <2>6 DEF Telemetry
  <2>8. \A i \in 1 .. Len(wrote'[c]) : /\ wrote'[c][i].kind = "sample"
                                       /\ wrote'[c][i].metric = cmd[c].metric
                                       /\ wrote'[c][i].ver <= fetched[c]
    <3>1. CASE wrote'[c] = wrote[c]
      BY <2>2, <2>6, <2>7, <3>1
    <3>2. CASE wrote'[c] = Append(wrote[c], msg)
      <4>1. /\ Len(wrote'[c]) = Len(wrote[c]) + 1
            /\ wrote'[c][Len(wrote[c]) + 1] = msg
            /\ \A i \in 1 .. Len(wrote[c]) : wrote'[c][i] = wrote[c][i]
        BY <2>2, <3>2
      <4> HIDE DEF msg
      <4>2. ASSUME NEW i \in 1 .. Len(wrote[c])
            PROVE  /\ wrote'[c][i].kind = "sample"
                   /\ wrote'[c][i].metric = cmd[c].metric
                   /\ wrote'[c][i].ver <= fetched[c]
        <5>1. wrote[c][i].ver \in Nat /\ wrote[c][i].ver <= last[c]
          BY <2>6, <2>7
        <5>2. wrote[c][i].ver <= fetched[c]
          BY <2>2, <5>1
        <5>3. wrote'[c][i] = wrote[c][i]
          BY <4>1
        <5> QED
          BY <2>6, <5>2, <5>3
      <4>3. Len(wrote[c]) \in Nat /\ fetched[c] <= fetched[c]
        BY <2>2
      <4>4. \A i \in 1 .. Len(wrote'[c]) :
              i \in 1 .. Len(wrote[c]) \/ i = Len(wrote[c]) + 1
        BY <4>1, <4>3
      <4> QED
        BY <2>5, <4>1, <4>2, <4>3, <4>4
    <3> QED
      BY <2>4, <3>1, <3>2
  <2> QED
    BY <2>0, <2>1, <2>2, <2>3, <2>8 DEF StreamOf
<1>19. ASSUME NEW c \in Conns, NEW S \in SUBSET Metrics, MetricIdsFound(c, S)
      PROVE  StreamInv'
  <2> SUFFICES ASSUME NEW d \in Conns PROVE StreamOf(d)'
    BY DEF StreamInv
  <2>0. ASSUME d # c PROVE StreamOf(d)'
    <3>1. /\ wrote'[d] = wrote[d] /\ last'[d] = last[d] /\ cmd'[d] = cmd[d]
          /\ fetched'[d] = fetched[d] /\ task'[d] = task[d] /\ cache' = cache
      BY <1>19, <2>0 DEF MetricIdsFound, WriteAndDrain, TypeOK
    <3>2. \A n \in Metrics : cache'[n] \in Nat /\ cache[n] <= cache'[n]
      BY <3>1 DEF TypeOK
    <3> QED
      BY <3>1, <3>2, StreamFrame DEF StreamInv
  <2>1. /\ cmd'[c].type = "get_metric_ids"
        /\ task'[c] \in {"conn_error", "drain", "returned", "failed", "sleep"}
    BY <1>19, DrainedType
       DEF MetricIdsFound, WriteAndDrain, Resumes, CommandInv, TypeOK
  <2> QED
    BY <2>0, <2>1, CommandFields DEF StreamOf
<1>20. CASE UNCHANGED vars
  BY <1>20 DEF vars, StreamInv, StreamOf
<1> QED
  BY <1>1, <1>2, <1>3, <1>4, <1>5, <1>6, <1>7, <1>8, <1>9, <1>10, <1>11,
     <1>12, <1>13, <1>14, <1>15, <1>16, <1>17, <1>18, <1>19, <1>20
     DEF Next, Environment, Handler, Task

-----------------------------------------------------------------------------
(* The backlog of a connection.                                            *)

\* Initially there is none.
LEMMA BacklogInit == Init => BacklogInv
BY ConstantsAssumption DEF Init, BacklogInv, BacklogOf, Backlog

\* A connection keeps its invariant in a step that writes nothing to it,
\* whether or not the client reads.
LEMMA BacklogFrame ==
  ASSUME TypeOK, NEW d \in Conns, BacklogOf(d), wrote'[d] = wrote[d],
         taken'[d] = taken[d]
           \/ (taken'[d] = taken[d] + 1 /\ taken[d] < Len(wrote[d])),
         \/ task'[d] = task[d]
         \/ task'[d] \in Ended
         \/ task[d] \in {"none", "starting", "fetch", "fetched", "sleep"}
         \/ Backlog(d) <= KernelBuf + HighWater
  PROVE  BacklogOf(d)'
<1>1. taken[d] \in Nat /\ Len(wrote[d]) \in Nat
  BY DEF TypeOK
<1> QED
  BY <1>1, ConstantsAssumption, SMTT(30) DEF BacklogOf, Backlog, Ended

\* write and drain keep it: a message is written only with room for one more,
\* and the task goes on only if there is room again.
LEMMA BacklogWrite ==
  ASSUME TypeOK, BacklogInv, NEW c \in Conns, NEW t \in Telemetry,
         WriteAndDrain(c, t), task[c] \in {"fetched", "scan"}, taken' = taken
  PROVE  BacklogOf(c)'
<1>1. /\ taken[c] \in Nat /\ Len(wrote[c]) \in Nat /\ taken[c] <= Len(wrote[c])
      /\ wrote[c] \in Seq(Telemetry)
      /\ Len(wrote[c]) - taken[c] <= KernelBuf + HighWater
  BY DEF TypeOK, BacklogInv, BacklogOf, Backlog
<1>2. CASE tr[c] = "reset"
  <2>1. wrote' = wrote /\ task'[c] = "conn_error"
    BY <1>2 DEF WriteAndDrain, TypeOK
  <2> QED
    BY <1>1, <2>1, ConstantsAssumption DEF BacklogOf, Backlog
<1>3. CASE tr[c] # "reset"
  <2>1. Len(wrote'[c]) = Len(wrote[c]) + 1
    BY <1>1, <1>3 DEF WriteAndDrain, TypeOK
  <2>2. \/ task'[c] = "drain"
        \/ Len(wrote[c]) - taken[c] + 1 <= KernelBuf + HighWater
    <3>1. \/ task'[c] = "drain"
          \/ ~(Len(wrote[c]) - taken[c] + 1 > KernelBuf + HighWater)
      BY <1>3 DEF WriteAndDrain, BufferFull, Backlog, TypeOK
    <3> QED
      BY <1>1, <3>1, ConstantsAssumption
  <2>3. /\ taken'[c] <= Len(wrote'[c])
        /\ Len(wrote'[c]) - taken'[c] <= KernelBuf + HighWater + 1
        /\ task'[c] # "drain" => Len(wrote'[c]) - taken'[c] <= KernelBuf + HighWater
    <3>1. KernelBuf \in Nat /\ HighWater \in Nat /\ taken'[c] = taken[c]
      BY ConstantsAssumption
    <3> QED BY ONLY <1>1, <2>1, <2>2, <3>1
  <2> QED
    BY ONLY <2>3 DEF BacklogOf, Backlog
<1> QED
  BY <1>2, <1>3

\* Every step keeps the backlog within its bound.
LEMMA BacklogStep ==
  TypeOK /\ CommandInv /\ BacklogInv /\ [Next]_vars => BacklogInv'
<1> SUFFICES ASSUME TypeOK, CommandInv, BacklogInv, [Next]_vars PROVE BacklogInv'
  OBVIOUS
<1> USE DEF envVars, connVars, taskVars, netVars
<1>1. ASSUME NEW m \in Metrics, NEW finite \in BOOLEAN, Publish(m, finite)
      PROVE  BacklogInv'
  <2> SUFFICES ASSUME NEW d \in Conns PROVE BacklogOf(d)'
    BY DEF BacklogInv
  <2>1. wrote' = wrote /\ taken' = taken /\ task' = task
    BY <1>1
       DEF Publish
  <2> QED
    BY <2>1, BacklogFrame DEF BacklogInv
<1>2. ASSUME NEW c \in Conns, Connect(c) \/ ClientClose(c) \/ ConnectionReset(c)
      PROVE  BacklogInv'
  <2> SUFFICES ASSUME NEW d \in Conns PROVE BacklogOf(d)'
    BY DEF BacklogInv
  <2>1. wrote' = wrote /\ taken' = taken /\ task' = task
    BY <1>2
       DEF Connect, ClientClose, ConnectionReset
  <2> QED
    BY <2>1, BacklogFrame DEF BacklogInv
<1>3. ASSUME NEW c \in Conns, NEW m \in Messages, ClientSend(c, m)
      PROVE  BacklogInv'
  <2> SUFFICES ASSUME NEW d \in Conns PROVE BacklogOf(d)'
    BY DEF BacklogInv
  <2>1. wrote' = wrote /\ taken' = taken /\ task' = task
    BY <1>3
       DEF ClientSend
  <2> QED
    BY <2>1, BacklogFrame DEF BacklogInv
<1>4. ASSUME Interrupt \/ Aexit \/ Stopped \/ Flush
      PROVE  BacklogInv'
  <2> SUFFICES ASSUME NEW d \in Conns PROVE BacklogOf(d)'
    BY DEF BacklogInv
  <2>1. wrote' = wrote /\ taken' = taken /\ task' = task
    BY <1>4
       DEF Interrupt, Aexit, Stopped, Flush
  <2> QED
    BY <2>1, BacklogFrame DEF BacklogInv
<1>5. ASSUME NEW c \in Conns, StopSeen(c) \/ ReadReset(c) \/ ReadNotUtf8(c)
      PROVE  BacklogInv'
  <2> SUFFICES ASSUME NEW d \in Conns PROVE BacklogOf(d)'
    BY DEF BacklogInv
  <2>1. wrote' = wrote /\ taken' = taken /\ task' = task
    BY <1>5
       DEF StopSeen, LeaveLoop, AfterTask, ReadReset, ReadNotUtf8
  <2> QED
    BY <2>1, BacklogFrame DEF BacklogInv
<1>6. ASSUME NEW c \in Conns, ReadBlocks(c) \/ ReadEof(c) \/ ReadGarbled(c)
      PROVE  BacklogInv'
  <2> SUFFICES ASSUME NEW d \in Conns PROVE BacklogOf(d)'
    BY DEF BacklogInv
  <2>1. wrote' = wrote /\ taken' = taken /\ task' = task
    BY <1>6
       DEF ReadBlocks, ReadEof, ReadGarbled
  <2> QED
    BY <2>1, BacklogFrame DEF BacklogInv
<1>7. ASSUME NEW c \in Conns, TaskAwaited(c) \/ WriterClosed(c)
      PROVE  BacklogInv'
  <2> SUFFICES ASSUME NEW d \in Conns PROVE BacklogOf(d)'
    BY DEF BacklogInv
  <2>1. wrote' = wrote /\ taken' = taken /\ task' = task
    BY <1>7
       DEF TaskAwaited, AfterTask, WriterClosed
  <2> QED
    BY <2>1, BacklogFrame DEF BacklogInv
<1>8. ASSUME NEW c \in Conns, ClientRecv(c) \/ WriteRefused(c) \/ Flushed(c)
      PROVE  BacklogInv'
  <2> SUFFICES ASSUME NEW d \in Conns PROVE BacklogOf(d)'
    BY DEF BacklogInv
  <2>1. /\ wrote' = wrote /\ task' = task
        /\ \/ taken'[d] = taken[d]
           \/ taken'[d] = taken[d] + 1 /\ taken[d] < Len(wrote[d])
    BY <1>8 DEF ClientRecv, WriteRefused, Flushed, TypeOK
  <2> QED
    BY <2>1, BacklogFrame DEF BacklogInv
<1>9. ASSUME NEW c \in Conns, TaskCancelled(c)
      PROVE  BacklogInv'
  <2> SUFFICES ASSUME NEW d \in Conns PROVE BacklogOf(d)'
    BY DEF BacklogInv
  <2>1. /\ wrote' = wrote /\ taken' = taken
        /\ \/ task'[d] = task[d]
           \/ task'[d] \in Ended
           \/ task[d] \in {"none", "starting", "fetch", "fetched", "sleep"}
    BY <1>9
       DEF TaskCancelled, TypeOK, Ended
  <2> QED
    BY <2>1, BacklogFrame DEF BacklogInv
<1>10. ASSUME NEW c \in Conns, CacheFails(c)
      PROVE  BacklogInv'
  <2> SUFFICES ASSUME NEW d \in Conns PROVE BacklogOf(d)'
    BY DEF BacklogInv
  <2>1. /\ wrote' = wrote /\ taken' = taken
        /\ \/ task'[d] = task[d]
           \/ task'[d] \in Ended
           \/ task[d] \in {"none", "starting", "fetch", "fetched", "sleep"}
    BY <1>10
       DEF CacheFails, Resumes, TypeOK, Ended
  <2> QED
    BY <2>1, BacklogFrame DEF BacklogInv
<1>11. ASSUME NEW c \in Conns, SampleRejected(c)
      PROVE  BacklogInv'
  <2> SUFFICES ASSUME NEW d \in Conns PROVE BacklogOf(d)'
    BY DEF BacklogInv
  <2>1. /\ wrote' = wrote /\ taken' = taken
        /\ \/ task'[d] = task[d]
           \/ task'[d] \in Ended
           \/ task[d] \in {"none", "starting", "fetch", "fetched", "sleep"}
    BY <1>11
       DEF SampleRejected, Resumes, TypeOK, Ended
  <2> QED
    BY <2>1, BacklogFrame DEF BacklogInv
<1>12. ASSUME NEW c \in Conns, SampleUnchanged(c)
      PROVE  BacklogInv'
  <2> SUFFICES ASSUME NEW d \in Conns PROVE BacklogOf(d)'
    BY DEF BacklogInv
  <2>1. /\ wrote' = wrote /\ taken' = taken
        /\ \/ task'[d] = task[d]
           \/ task'[d] \in Ended
           \/ task[d] \in {"none", "starting", "fetch", "fetched", "sleep"}
    BY <1>12
       DEF SampleUnchanged, Resumes, TypeOK, Ended
  <2> QED
    BY <2>1, BacklogFrame DEF BacklogInv
<1>13. ASSUME NEW c \in Conns, SleepOver(c)
      PROVE  BacklogInv'
  <2> SUFFICES ASSUME NEW d \in Conns PROVE BacklogOf(d)'
    BY DEF BacklogInv
  <2>1. /\ wrote' = wrote /\ taken' = taken
        /\ \/ task'[d] = task[d]
           \/ task'[d] \in Ended
           \/ task[d] \in {"none", "starting", "fetch", "fetched", "sleep"}
    BY <1>13
       DEF SleepOver, Resumes, TypeOK, Ended
  <2> QED
    BY <2>1, BacklogFrame DEF BacklogInv
<1>14. ASSUME NEW c \in Conns, DrainOver(c)
      PROVE  BacklogInv'
  <2> SUFFICES ASSUME NEW d \in Conns PROVE BacklogOf(d)'
    BY DEF BacklogInv
  <2>1. wrote' = wrote /\ taken' = taken
    BY <1>14 DEF DrainOver
  <2>2. \/ task'[d] = task[d] \/ task'[d] \in Ended
        \/ Backlog(d) <= KernelBuf + HighWater
    <3>1. CASE d # c
      BY <1>14, <3>1 DEF DrainOver, TypeOK
    <3>2. CASE d = c /\ tr[c] = "reset"
      BY <1>14, <3>2 DEF DrainOver, TypeOK, Ended
    <3>3. CASE d = c /\ tr[c] # "reset"
      <4>1. ~(Backlog(c) > KernelBuf + HighWater)
        BY <1>14, <3>3 DEF DrainOver, BufferFull
      <4>2. Backlog(c) \in Int
        BY DEF Backlog, TypeOK
      <4> QED
        BY <3>3, <4>1, <4>2, ConstantsAssumption
    <3> QED
      BY <3>1, <3>2, <3>3
  <2> QED
    BY <2>1, <2>2, BacklogFrame DEF BacklogInv
<1>15. ASSUME NEW c \in Conns, ReadCommand(c)
      PROVE  BacklogInv'
  <2> SUFFICES ASSUME NEW d \in Conns PROVE BacklogOf(d)'
    BY DEF BacklogInv
  <2>1. /\ wrote' = wrote /\ taken' = taken
        /\ \/ task'[d] = task[d]
           \/ task'[d] \in Ended
           \/ task[d] \in {"none", "starting", "fetch", "fetched", "sleep"}
    BY <1>15
       DEF ReadCommand, TypeOK, Ended
  <2> QED
    BY <2>1, BacklogFrame DEF BacklogInv
<1>16. ASSUME NEW c \in Conns, RunCommand(c)
      PROVE  BacklogInv'
  <2> SUFFICES ASSUME NEW d \in Conns PROVE BacklogOf(d)'
    BY DEF BacklogInv
  <2>1. /\ wrote' = wrote /\ taken' = taken
        /\ \/ task'[d] = task[d]
           \/ task'[d] \in Ended
           \/ task[d] \in {"none", "starting", "fetch", "fetched", "sleep"}
    BY <1>16
       DEF RunCommand, Resumes, TypeOK, Ended
  <2> QED
    BY <2>1, BacklogFrame DEF BacklogInv
<1>17. ASSUME NEW c \in Conns, CacheAnswers(c)
      PROVE  BacklogInv'
  <2> SUFFICES ASSUME NEW d \in Conns PROVE BacklogOf(d)'
    BY DEF BacklogInv
  <2>1. /\ wrote' = wrote /\ taken' = taken
        /\ \/ task'[d] = task[d]
           \/ task'[d] \in Ended
           \/ task[d] \in {"none", "starting", "fetch", "fetched", "sleep"}
    BY <1>17
       DEF CacheAnswers, Resumes, TypeOK, Ended
  <2> QED
    BY <2>1, BacklogFrame DEF BacklogInv
<1>18. ASSUME NEW c \in Conns, DownlinkSample(c)
      PROVE  BacklogInv'
  <2> SUFFICES ASSUME NEW d \in Conns PROVE BacklogOf(d)'
    BY DEF BacklogInv
  <2>1. ASSUME d # c PROVE BacklogOf(d)'
    <3>1. wrote'[d] = wrote[d] /\ taken'[d] = taken[d] /\ task'[d] = task[d]
      BY <1>18, <2>1 DEF DownlinkSample, WriteAndDrain, TypeOK
    <3> QED
      BY <3>1, BacklogFrame DEF BacklogInv
  <2>2. BacklogOf(c)'
    <3>1. SampleMsg(cmd[c].metric, fetched[c]) \in Telemetry
      BY <1>18, CommandFields, TelemetryMsgs
         DEF DownlinkSample, Resumes, CommandInv, TypeOK
    <3> QED
      BY <1>18, <3>1, BacklogWrite DEF DownlinkSample, Resumes
  <2> QED
    BY <2>1, <2>2
<1>19. ASSUME NEW c \in Conns, NEW S \in SUBSET Metrics, MetricIdsFound(c, S)
      PROVE  BacklogInv'
  <2> SUFFICES ASSUME NEW d \in Conns PROVE BacklogOf(d)'
    BY DEF BacklogInv
  <2>1. ASSUME d # c PROVE BacklogOf(d)'
    <3>1. wrote'[d] = wrote[d] /\ taken'[d] = taken[d] /\ task'[d] = task[d]
      BY <1>19, <2>1 DEF MetricIdsFound, WriteAndDrain, TypeOK
    <3> QED
      BY <3>1, BacklogFrame DEF BacklogInv
  <2>2. BacklogOf(c)'
    <3>1. MetricIdsMsg(S \ ColonIds) \in Telemetry
      BY TelemetryMsgs
    <3> QED
      BY <1>19, <3>1, BacklogWrite DEF MetricIdsFound, Resumes
  <2> QED
    BY <2>1, <2>2
<1>20. CASE UNCHANGED vars
  BY <1>20 DEF vars, BacklogInv, BacklogOf, Backlog
<1> QED
  BY <1>1, <1>2, <1>3, <1>4, <1>5, <1>6, <1>7, <1>8, <1>9, <1>10, <1>11,
     <1>12, <1>13, <1>14, <1>15, <1>16, <1>17, <1>18, <1>19, <1>20
     DEF Next, Environment, Handler, Task

-----------------------------------------------------------------------------
(* What was fetched is no older than the connection.                       *)

\* Initially nothing is stored.
LEMMA FreshInit == Init => FreshInv
BY DEF Init, FreshInv, FreshOf

\* The step leaves the age of d as it is, sends nothing to its subscriber and
\* does not make it hold an answer it did not hold before.
Unmoved(d) ==
  /\ since'[d] = since[d] /\ last'[d] = last[d]
  /\ cmd'[d] = cmd[d] \/ task[d] = "none"
  /\ \/ task'[d] # "fetched"
     \/ task'[d] = task[d] /\ cmd'[d] = cmd[d] /\ fetched'[d] = fetched[d]

\* Only a connect, an answer of the cache and a downlink bear on what d was or
\* is about to be sent.
LEMMA MovingSteps ==
  ASSUME TypeOK, [Next]_vars, NEW d \in Conns
  PROVE  Unmoved(d) \/ Connect(d) \/ CacheAnswers(d) \/ DownlinkSample(d)
<1> USE DEF Unmoved, TypeOK, envVars, connVars, taskVars, netVars
<1>1. CASE Environment
  BY <1>1, SMTT(30) DEF Environment, Publish, Flush, Connect, ClientClose, ConnectionReset,
              ClientSend, Interrupt
<1>2. ASSUME NEW c \in Conns, Handler(c) PROVE Unmoved(d)
  <2>1. ASSUME ReadCommand(c) PROVE Unmoved(d)
    BY <2>1 DEF ReadCommand
  <2> QED
    BY <1>2, <2>1 DEF Handler, StopSeen, ReadBlocks, ReadReset, ReadEof, ReadGarbled,
                      ReadNotUtf8, TaskAwaited, WriterClosed
<1>3. ASSUME NEW c \in Conns, Task(c)
      PROVE  Unmoved(d) \/ CacheAnswers(d) \/ DownlinkSample(d)
  <2>1. ASSUME CacheAnswers(c) PROVE Unmoved(d) \/ CacheAnswers(d)
    BY <2>1 DEF CacheAnswers
  <2>2. ASSUME DownlinkSample(c) PROVE Unmoved(d) \/ DownlinkSample(d)
    BY <2>2, DrainedType DEF DownlinkSample, WriteAndDrain
  <2>3. ASSUME NEW S \in SUBSET Metrics, MetricIdsFound(c, S) PROVE Unmoved(d)
    BY <2>3, DrainedType DEF MetricIdsFound, WriteAndDrain
  <2>4. ASSUME DrainOver(c) PROVE Unmoved(d)
    BY <2>4, DrainedType DEF DrainOver
  <2>5. ASSUME RunCommand(c) PROVE Unmoved(d)
    BY <2>5 DEF RunCommand
  <2>6. ASSUME TaskCancelled(c) \/ SampleRejected(c) \/ SampleUnchanged(c) \/ SleepOver(c)
        PROVE  Unmoved(d)
    BY <2>6 DEF TaskCancelled, SampleRejected, SampleUnchanged, SleepOver
  <2> QED
    BY <1>3, <2>1, <2>2, <2>3, <2>4, <2>5, <2>6 DEF Task
<1>4. ASSUME NEW c \in Conns,
             CacheFails(c) \/ ClientRecv(c) \/ WriteRefused(c) \/ Flushed(c)
      PROVE  Unmoved(d)
  BY <1>4 DEF CacheFails, ClientRecv, WriteRefused, Flushed
<1>5. CASE Aexit \/ Stopped
  BY <1>5 DEF Aexit, Stopped
<1>6. CASE UNCHANGED vars
  BY <1>6 DEF vars
<1> QED
  BY <1>1, <1>2, <1>3, <1>4, <1>5, <1>6 DEF Next

\* Only the two answers of run_command write, only Publish stores, only a
\* flush takes back what was stored, and only a connect notes it.
LEMMA WritingSteps ==
  ASSUME [Next]_vars
  PROVE  \/ UNCHANGED <<cache, bad, flushed, since, wrote>>
         \/ \E m \in Metrics, finite \in BOOLEAN : Publish(m, finite)
         \/ Flush
         \/ \E c \in Conns : Connect(c)
         \/ \E c \in Conns : DownlinkSample(c)
         \/ \E c \in Conns : \E S \in SUBSET Metrics : MetricIdsFound(c, S)
<1> USE DEF envVars, connVars, taskVars, netVars
<1>1. CASE Environment
  BY <1>1 DEF Environment, ClientClose, ConnectionReset, ClientSend, Interrupt
<1>2. ASSUME NEW c \in Conns, Handler(c) PROVE UNCHANGED <<cache, bad, flushed, since, wrote>>
  BY <1>2 DEF Handler, StopSeen, ReadBlocks, ReadReset, ReadEof, ReadCommand,
              ReadGarbled, ReadNotUtf8, TaskAwaited, WriterClosed
<1>3. ASSUME NEW c \in Conns, Task(c)
      PROVE  \/ UNCHANGED <<cache, bad, flushed, since, wrote>>
             \/ DownlinkSample(c)
             \/ \E S \in SUBSET Metrics : MetricIdsFound(c, S)
  BY <1>3 DEF Task, TaskCancelled, RunCommand, CacheAnswers, SampleRejected,
              SampleUnchanged, DrainOver, SleepOver
<1>4. ASSUME NEW c \in Conns,
             CacheFails(c) \/ ClientRecv(c) \/ WriteRefused(c) \/ Flushed(c)
      PROVE  UNCHANGED <<cache, bad, flushed, since, wrote>>
  BY <1>4 DEF CacheFails, ClientRecv, WriteRefused, Flushed
<1>5. CASE Aexit \/ Stopped
  BY <1>5 DEF Aexit, Stopped
<1>6. CASE UNCHANGED vars
  BY <1>6 DEF vars
<1> QED
  BY <1>1, <1>2, <1>3, <1>4, <1>5, <1>6 DEF Next

\* Samples are numbered in the order they are stored.
LEMMA CacheGrows ==
  ASSUME TypeOK, [Next]_vars, NEW m \in Metrics
  PROVE  cache'[m] \in Nat /\ cache[m] <= cache'[m]
<1>1. cache' = cache \/ \E n \in Metrics, finite \in BOOLEAN : Publish(n, finite)
  BY WritingSteps DEF Flush, Connect, DownlinkSample, MetricIdsFound, envVars
<1>2. ASSUME NEW n \in Metrics, NEW finite \in BOOLEAN, Publish(n, finite)
      PROVE  cache'[m] \in Nat /\ cache[m] <= cache'[m]
  BY <1>2 DEF Publish, TypeOK
<1>3. CASE cache' = cache
  BY <1>3 DEF TypeOK
<1> QED
  BY <1>1, <1>2, <1>3

\* Every step keeps what was fetched no older than the connection.
LEMMA FreshStep ==
  TypeOK /\ CommandInv /\ HandlerInv /\ FreshInv /\ [Next]_vars => FreshInv'
<1> SUFFICES ASSUME TypeOK, CommandInv, HandlerInv, FreshInv, [Next]_vars,
                    NEW d \in Conns
             PROVE  FreshOf(d)'
  BY DEF FreshInv
<1>1. FreshOf(d) /\ \A m \in Metrics : since[d][m] \in Nat /\ cache[m] \in Nat
  BY DEF FreshInv, TypeOK
<1>2. \A m \in Metrics : cache'[m] \in Nat /\ cache[m] <= cache'[m]
  BY CacheGrows
<1>3. CASE Unmoved(d)
  BY <1>1, <1>2, <1>3 DEF Unmoved, FreshOf
<1>4. CASE Connect(d)
  <2>1. task[d] = "none"
    BY <1>4 DEF Connect, HandlerInv, HandlerOf
  <2>2. since'[d] = cache /\ task' = task
    BY <1>4 DEF Connect, taskVars, TypeOK
  <2> QED
    BY <1>1, <1>2, <2>1, <2>2 DEF FreshOf
<1>5. CASE CacheAnswers(d)
  <2>1. cmd[d].metric \in Metrics
    BY <1>5, CommandFields DEF CacheAnswers, Resumes, CommandInv
  <2>2. /\ since' = since /\ cache' = cache /\ cmd' = cmd
        /\ fetched'[d] \in {0, cache[cmd[d].metric]}
    BY <1>5 DEF CacheAnswers, Cached, envVars, TypeOK
  <2> QED
    BY <1>1, <2>1, <2>2 DEF FreshOf
<1>6. CASE DownlinkSample(d)
  <2>1. since' = since /\ task'[d] # "fetched"
    BY <1>6, DrainedType DEF DownlinkSample, WriteAndDrain, envVars, TypeOK
  <2> QED
    BY <1>1, <1>2, <2>1 DEF FreshOf
<1> QED
  BY <1>3, <1>4, <1>5, <1>6, MovingSteps

-----------------------------------------------------------------------------
(* What the cache can be read for.                                         *)

\* Initially nothing is sent, fetched or seen.
LEMMA ReadableInit == Init => ReadableInv /\ CacheInv
BY DEF Init, ReadableInv, ReadableOf, CacheInv

\* A sample stays spoilt, and one that was stored stays readable if it is.
LEMMA CacheSteps ==
  ASSUME TypeOK, CacheInv, [Next]_vars, NEW m \in Metrics, NEW l \in Nat
  PROVE  /\ Spoilt(m, l) => Spoilt(m, l)'
         /\ l <= cache[m] /\ <<m, l>> \notin bad => <<m, l>> \notin bad'
<1> USE DEF TypeOK, Spoilt
<1>1. ASSUME NEW n \in Metrics, NEW finite \in BOOLEAN, Publish(n, finite)
      PROVE  /\ Spoilt(m, l) => Spoilt(m, l)'
             /\ l <= cache[m] /\ <<m, l>> \notin bad => <<m, l>> \notin bad'
  <2>1. /\ cache' = [cache EXCEPT ![n] = @ + 1] /\ flushed' = flushed
        /\ bad' = bad \/ bad' = bad \union {<<n, cache[n] + 1>>}
    BY <1>1 DEF Publish
  <2>2. cache[m] \in Nat /\ cache'[m] \in Nat /\ cache[m] <= cache'[m]
    BY <2>1
  <2>3. Spoilt(m, l) => Spoilt(m, l)'
    <3>1. \A v \in l + 1 .. cache[m] : v \in l + 1 .. cache'[m]
      BY <2>2
    <3>2. bad \subseteq bad'
      BY <2>1
    <3> QED
      BY <2>1, <3>1, <3>2
  <2>4. l <= cache[m] /\ <<m, l>> \notin bad => <<m, l>> \notin bad'
    BY <2>1, <2>2
  <2> QED
    BY <2>3, <2>4
<1>2. CASE Flush
  <2>1. /\ cache' = cache /\ bad' = bad /\ flushed' = cache
        /\ cache[m] \in Nat /\ flushed[m] \in Nat /\ flushed[m] <= cache[m]
    BY <1>2 DEF Flush, CacheInv
  <2>2. Spoilt(m, l) => Spoilt(m, l)'
    <3>1. ASSUME flushed[m] >= l PROVE Spoilt(m, l)'
      BY <2>1, <3>1
    <3> QED
      BY <2>1, <3>1
  <2> QED
    BY <2>1, <2>2
<1>3. CASE UNCHANGED <<cache, bad, flushed>>
  BY <1>3
<1> QED
  BY <1>1, <1>2, <1>3, WritingSteps DEF Connect, DownlinkSample, MetricIdsFound, envVars

\* Every step keeps what is sent readable, and a reason for what cannot be.
LEMMA ReadableStep ==
  TypeOK /\ CommandInv /\ StreamInv /\ CacheInv /\ ReadableInv /\ [Next]_vars
    => ReadableInv'
<1> SUFFICES ASSUME TypeOK, CommandInv, StreamInv, CacheInv, ReadableInv, [Next]_vars,
                    NEW d \in Conns, (cmd[d] \in Subscribes)'
             PROVE  ReadableOf(d)'
  BY DEF ReadableInv, ReadableOf
<1>0. PICK m \in Metrics, l \in Nat : m = cmd'[d].metric /\ l = last[d]
  BY CommandFields DEF TypeOK
<1>1. /\ cache[m] \in Nat /\ cache'[m] \in Nat /\ flushed[m] \in Nat
      /\ fetched[d] \in Nat
  BY CacheGrows DEF TypeOK
<1>2. /\ Spoilt(m, l) => Spoilt(m, l)'
      /\ \A v \in Nat : v <= cache[m] /\ <<m, v>> \notin bad => <<m, v>> \notin bad'
  BY CacheSteps
<1>3. ASSUME cmd'[d] = cmd[d], l # 0
      PROVE  /\ l <= cache[m] /\ <<m, l>> \notin bad
             /\ <<m, l>> \notin bad'
  <2>1. l <= cache[m] /\ <<m, l>> \notin bad
    BY <1>0, <1>3 DEF StreamInv, StreamOf, ReadableInv, ReadableOf
  <2> QED
    BY <1>1, <1>2, <2>1
<1>4. CASE Unmoved(d)
  <2>1. last'[d] = l
    BY <1>0, <1>4 DEF Unmoved
  <2>2. last'[d] # 0 => <<m, last'[d]>> \notin bad'
    <3>1. CASE cmd'[d] = cmd[d]
      BY <1>3, <2>1, <3>1
    <3>2. CASE task[d] = "none"
      BY <1>0, <2>1, <3>2 DEF StreamInv, StreamOf
    <3> QED
      BY <1>4, <3>1, <3>2 DEF Unmoved
  <2>3. ASSUME task'[d] = "fetched"
        PROVE  IF fetched'[d] # 0 THEN <<m, fetched'[d]>> \notin bad'
                                  ELSE Spoilt(m, l)'
    <3>1. /\ task[d] = "fetched" /\ cmd'[d] = cmd[d] /\ fetched'[d] = fetched[d]
      BY <1>4, <2>3 DEF Unmoved
    <3>2. /\ fetched[d] <= cache[m]
          /\ IF fetched[d] # 0 THEN <<m, fetched[d]>> \notin bad
                              ELSE Spoilt(m, l)
      BY <1>0, <3>1 DEF StreamInv, StreamOf, ReadableInv, ReadableOf
    <3>3. CASE fetched[d] # 0
      BY <1>1, <1>2, <3>1, <3>2, <3>3
    <3>4. CASE fetched[d] = 0
      <4>1. Spoilt(m, l)'
        BY <1>1, <1>2, <3>2, <3>4
      <4> QED
        BY <3>1, <3>4, <4>1
    <3> QED
      BY <3>3, <3>4
  <2> QED
    BY <1>0, <2>1, <2>2, <2>3 DEF ReadableOf, Spoilt
<1>5. CASE Connect(d)
  <2>1. /\ cmd'[d] = cmd[d] /\ last'[d] = l /\ task'[d] = task[d]
        /\ fetched'[d] = fetched[d] /\ bad' = bad /\ flushed' = flushed /\ cache' = cache
    BY <1>0, <1>5 DEF Connect, taskVars
  <2> QED
    BY <1>0, <2>1 DEF ReadableInv, ReadableOf, Spoilt
<1>6. CASE CacheAnswers(d)
  <2>1. /\ cmd'[d] = cmd[d] /\ last'[d] = l /\ task'[d] = "fetched"
        /\ fetched'[d] = Cached(m)
        /\ bad' = bad /\ flushed' = flushed /\ cache' = cache
    BY <1>0, <1>6 DEF CacheAnswers, envVars, TypeOK
  <2>2. l <= cache[m]
    BY <1>0, <2>1 DEF StreamInv, StreamOf
  <2>3. Cached(m) # 0 => <<m, Cached(m)>> \notin bad
    BY DEF Cached
  <2>4. ASSUME Cached(m) = 0 PROVE Spoilt(m, l)
    <3>1. CASE ~Stored(m)
      BY <1>1, <2>2, <3>1 DEF Stored, Spoilt
    <3>2. CASE Stored(m)
      <4>1. <<m, cache[m]>> \in bad
        BY <1>1, <2>4, <3>2 DEF Cached, Stored
      <4>2. l = 0 \/ l # cache[m]
        BY <1>3, <2>1, <4>1
      <4>3. cache[m] \in l + 1 .. cache[m]
        BY <1>1, <2>2, <3>2, <4>2 DEF Stored
      <4> QED
        BY <4>1, <4>3 DEF Spoilt
    <3> QED
      BY <3>1, <3>2
  <2> QED
    BY <1>0, <1>3, <2>1, <2>3, <2>4 DEF ReadableOf, Spoilt
<1>7. CASE DownlinkSample(d)
  <2>1. /\ cmd'[d] = cmd[d] /\ last'[d] = fetched[d] /\ bad' = bad
        /\ task[d] = "fetched" /\ fetched[d] # 0
    BY <1>7 DEF DownlinkSample, Resumes, envVars, TypeOK
  <2>2. task'[d] # "fetched"
    BY <1>7, DrainedType DEF DownlinkSample, WriteAndDrain, TypeOK
  <2>3. <<m, fetched[d]>> \notin bad
    BY <1>0, <2>1 DEF ReadableInv, ReadableOf
  <2> QED
    BY <1>0, <2>1, <2>2, <2>3 DEF ReadableOf
<1> QED
  BY <1>4, <1>5, <1>6, <1>7, MovingSteps

\* What a scan has seen grows with what is stored only.
LEMMA SeenSteps ==
  ASSUME TypeOK, [Next]_vars, NEW d \in Conns
  PROVE  \/ seen'[d] \subseteq seen[d]
         \/ seen'[d] = {m \in Metrics : Stored(m)}
         \/ \E m \in Metrics, finite \in BOOLEAN :
              Publish(m, finite) /\ seen'[d] \subseteq seen[d] \union {m}
<1> USE DEF TypeOK, envVars, connVars, taskVars, netVars
<1>1. ASSUME NEW m \in Metrics, NEW finite \in BOOLEAN, Publish(m, finite)
      PROVE  seen'[d] \subseteq seen[d] \union {m}
  BY <1>1 DEF Publish
<1>2. CASE Environment
  <2>1. ASSUME seen' # seen
        PROVE  \E m \in Metrics, finite \in BOOLEAN : Publish(m, finite)
    BY <1>2, <2>1 DEF Environment, Flush, Connect, ClientClose, ConnectionReset,
                      ClientSend, Interrupt
  <2> QED
    BY <1>1, <2>1
<1>3. ASSUME NEW c \in Conns, Handler(c) PROVE seen' = seen
  BY <1>3 DEF Handler, StopSeen, ReadBlocks, ReadReset, ReadEof, ReadCommand,
              ReadGarbled, ReadNotUtf8, TaskAwaited, WriterClosed
<1>4. ASSUME NEW c \in Conns, Task(c)
      PROVE  seen'[d] \subseteq seen[d] \/ seen'[d] = {m \in Metrics : Stored(m)}
  <2>1. ASSUME RunCommand(c)
        PROVE  seen'[d] = seen[d] \/ seen'[d] = {m \in Metrics : Stored(m)}
    BY <2>1 DEF RunCommand
  <2>2. ASSUME NEW S \in SUBSET Metrics, MetricIdsFound(c, S)
        PROVE  seen'[d] \subseteq seen[d]
    BY <2>2 DEF MetricIdsFound
  <2> QED
    BY <1>4, <2>1, <2>2 DEF Task, TaskCancelled, CacheAnswers, SampleRejected,
                            DownlinkSample, SampleUnchanged, DrainOver, SleepOver
<1>5. ASSUME NEW c \in Conns,
             CacheFails(c) \/ ClientRecv(c) \/ WriteRefused(c) \/ Flushed(c)
      PROVE  seen' = seen
  BY <1>5 DEF CacheFails, ClientRecv, WriteRefused, Flushed
<1>6. CASE Aexit \/ Stopped
  BY <1>6 DEF Aexit, Stopped
<1>7. CASE UNCHANGED vars
  BY <1>7 DEF vars
<1> QED
  BY <1>2, <1>3, <1>4, <1>5, <1>6, <1>7 DEF Next

\* Every step keeps what is flushed and what is seen among what was stored.
LEMMA CacheStep ==
  TypeOK /\ CacheInv /\ [Next]_vars => CacheInv'
<1> SUFFICES ASSUME TypeOK, CacheInv, [Next]_vars PROVE CacheInv'
  OBVIOUS
<1>1. \A m \in Metrics : /\ cache[m] \in Nat /\ flushed[m] \in Nat /\ cache'[m] \in Nat
                         /\ flushed[m] <= cache[m] /\ cache[m] <= cache'[m]
  BY CacheGrows DEF TypeOK, CacheInv
<1>2. flushed' = flushed \/ (flushed' = cache /\ cache' = cache)
  BY WritingSteps DEF Publish, Flush, Connect, DownlinkSample, MetricIdsFound, envVars
<1>3. \A m \in Metrics : flushed'[m] <= cache'[m]
  BY <1>1, <1>2
<1>4. ASSUME NEW d \in Conns, NEW m \in seen'[d] PROVE cache'[m] > 0
  <2>1. CASE m \in seen[d]
    BY <1>1, <2>1 DEF CacheInv, TypeOK
  <2>2. CASE m \in Metrics /\ Stored(m)
    BY <1>1, <2>2 DEF Stored
  <2>3. ASSUME m \in Metrics, NEW finite \in BOOLEAN, Publish(m, finite)
        PROVE  cache'[m] > 0
    BY <1>1, <2>3 DEF Publish, TypeOK
  <2> QED
    BY <1>4, <2>1, <2>2, <2>3, SeenSteps
<1> QED
  BY <1>3, <1>4 DEF CacheInv

-----------------------------------------------------------------------------
(* The theorems.                                                           *)

\* The inductive invariant holds in every reachable state.
THEOREM Invariance == Spec => []Inv
<1>1. Init => Inv
  BY TypeInit, CommandInit, HandlerInit, StreamInit, BacklogInit, FreshInit,
     ReadableInit
     DEF Inv
<1>2. Inv /\ [Next]_vars => Inv'
  BY TypeStep, CommandStep, HandlerStep, StreamStep, BacklogStep, FreshStep,
     ReadableStep, CacheStep
     DEF Inv
<1> QED
  BY <1>1, <1>2, PTL DEF Spec

\* Every variable of the onboard server always has its type: the queue holds
\* decoded telecommands only, the cache's answers are sample numbers, and what
\* is written to a connection is telemetry.
THEOREM TypeCorrect == Spec => []TypeOK
<1>1. Inv => TypeOK
  BY DEF Inv
<1> QED
  BY <1>1, Invariance, PTL

\* No command task and no open transport outlives handle_connection, on
\* whichever path it ends and whatever its task was doing.
THEOREM HandlerOwnsItsTask == Spec => []NothingOutlivesHandler
<1>1. Inv => NothingOutlivesHandler
  BY DEF Inv, HandlerInv, HandlerOf, NothingOutlivesHandler
<1> QED
  BY <1>1, Invariance, PTL

\* However slowly a client reads, drain() keeps downlink_loop from queueing
\* more than one message beyond what the kernel and the transport hold.
THEOREM BacklogIsBounded == Spec => []BacklogBounded
<1>1. Inv => BacklogBounded
  BY DEF Inv, BacklogInv, BacklogOf, BacklogBounded
<1> QED
  BY <1>1, Invariance, PTL

\* A task that is resumed belongs to a handler that is in its loop.
LEMMA ResumedInLoop ==
  ASSUME Inv, NEW c \in Conns, NEW at \in Live, Resumes(c, at)
  PROVE  pc[c] \in Looping
BY DEF Inv, HandlerInv, HandlerOf, TypeOK, Resumes, Live, Looping, Finishing

\* From the moment handle_connection leaves its loop, nothing more is written
\* to its connection: cancel() reaches the task before it can run again.
THEOREM SilentAfterLoop == Spec => NothingWrittenAfterLoop
<1>1. ASSUME Inv, [Next]_vars, NEW c \in Conns, wrote'[c] # wrote[c]
      PROVE  pc[c] \in Looping
  <2>1. ASSUME NEW d \in Conns, DownlinkSample(d) PROVE pc[c] \in Looping
    <3>1. d = c
      BY <1>1, <2>1 DEF DownlinkSample, WriteAndDrain, Inv, TypeOK
    <3> QED
      BY <1>1, <2>1, <3>1, ResumedInLoop DEF DownlinkSample, Live
  <2>2. ASSUME NEW d \in Conns, NEW S \in SUBSET Metrics, MetricIdsFound(d, S)
        PROVE  pc[c] \in Looping
    <3>1. d = c
      BY <1>1, <2>2 DEF MetricIdsFound, WriteAndDrain, Inv, TypeOK
    <3> QED
      BY <1>1, <2>2, <3>1, ResumedInLoop DEF MetricIdsFound, Live
  <2>3. ASSUME Flush \/ \E m \in Metrics, finite \in BOOLEAN : Publish(m, finite)
        PROVE  FALSE
    BY <1>1, <2>3 DEF Flush, Publish, netVars
  <2>4. ASSUME NEW d \in Conns, Connect(d) PROVE FALSE
    BY <1>1, <2>4 DEF Connect, netVars
  <2> QED
    BY <1>1, <2>1, <2>2, <2>3, <2>4, WritingSteps
<1>2. Inv /\ [Next]_vars
        => [\A c \in Conns : wrote'[c] # wrote[c] => pc[c] \in Looping]_vars
  BY <1>1
<1> QED
  BY <1>2, Invariance, PTL DEF Spec, NothingWrittenAfterLoop

\* Only a rejected sample and what follows a drain make a task fail.
LEMMA FailingSteps ==
  ASSUME TypeOK, [Next]_vars, NEW d \in Conns, task'[d] = "failed", task[d] # "failed"
  PROVE  \/ SampleRejected(d) \/ DrainOver(d) \/ DownlinkSample(d)
         \/ \E S \in SUBSET Metrics : MetricIdsFound(d, S)
<1> USE DEF TypeOK, envVars, connVars, taskVars, netVars
<1>1. CASE Environment
  BY <1>1 DEF Environment, Publish, Flush, Connect, ClientClose, ConnectionReset,
              ClientSend, Interrupt
<1>2. ASSUME NEW c \in Conns, Handler(c) PROVE FALSE
  BY <1>2 DEF Handler, StopSeen, ReadBlocks, ReadReset, ReadEof, ReadCommand,
              ReadGarbled, ReadNotUtf8, TaskAwaited, WriterClosed
<1>3. ASSUME NEW c \in Conns, Task(c)
      PROVE  \/ SampleRejected(d) \/ DrainOver(d) \/ DownlinkSample(d)
             \/ \E S \in SUBSET Metrics : MetricIdsFound(d, S)
  <2>1. ASSUME \/ TaskCancelled(c) \/ RunCommand(c) \/ CacheAnswers(c)
               \/ SampleUnchanged(c) \/ SleepOver(c)
        PROVE  FALSE
    BY <2>1 DEF TaskCancelled, RunCommand, CacheAnswers, SampleUnchanged, SleepOver
  <2>2. ASSUME SampleRejected(c) \/ DrainOver(c) PROVE c = d
    BY <2>2 DEF SampleRejected, DrainOver
  <2>3. ASSUME DownlinkSample(c) PROVE c = d
    BY <2>3 DEF DownlinkSample, WriteAndDrain
  <2>4. ASSUME NEW S \in SUBSET Metrics, MetricIdsFound(c, S) PROVE c = d
    BY <2>4 DEF MetricIdsFound, WriteAndDrain
  <2> QED
    BY <1>3, <2>1, <2>2, <2>3, <2>4 DEF Task
<1>4. ASSUME NEW c \in Conns,
             CacheFails(c) \/ ClientRecv(c) \/ WriteRefused(c) \/ Flushed(c)
      PROVE  FALSE
  BY <1>4 DEF CacheFails, ClientRecv, WriteRefused, Flushed
<1>5. CASE Aexit \/ Stopped
  BY <1>5 DEF Aexit, Stopped
<1>6. CASE UNCHANGED vars
  BY <1>6 DEF vars
<1> QED
  BY <1>1, <1>2, <1>3, <1>4, <1>5, <1>6 DEF Next

\* A subscription with a bit rate is ended by no exception but the cache's: there
\* was no sample yet, or the last one downlinked was flushed, or a sample stored
\* after it does not validate.
THEOREM SubscriptionsLast == Spec => SubscriptionLasts
<1>1. ASSUME Inv, [Next]_vars, NEW c \in Conns, task'[c] = "failed", task[c] # "failed",
             cmd[c].type = "subscribe", cmd[c].bps # 0
      PROVE  Spoilt(cmd[c].metric, last[c])
  <2>1. TypeOK /\ last[c] \in Nat /\ fetched[c] \in Nat
    BY <1>1 DEF Inv, TypeOK
  <2>2. Drained(c) = "sleep"
    BY <1>1 DEF Drained
  <2>3. ASSUME SampleRejected(c) PROVE Spoilt(cmd[c].metric, last[c])
    <3>1. cmd[c] \in Subscribes /\ task[c] = "fetched" /\ fetched[c] = 0
      BY <1>1, <2>3 DEF SampleRejected, Resumes, Inv, CommandInv
    <3> QED
      BY <1>1, <3>1 DEF Inv, ReadableInv, ReadableOf
  <2>4. ASSUME DrainOver(c) PROVE FALSE
    BY <1>1, <2>1, <2>2, <2>4 DEF DrainOver, TypeOK
  <2>5. ASSUME DownlinkSample(c) PROVE FALSE
    BY <1>1, <2>1, <2>2, <2>5 DEF DownlinkSample, WriteAndDrain, TypeOK
  <2>6. ASSUME NEW S \in SUBSET Metrics, MetricIdsFound(c, S) PROVE FALSE
    BY <1>1, <2>6 DEF MetricIdsFound, Resumes, Inv, CommandInv
  <2> QED
    BY <1>1, <2>1, <2>3, <2>4, <2>5, <2>6, FailingSteps
<1>2. Inv /\ [Next]_vars
        => [\A c \in Conns :
              (/\ task'[c] = "failed" /\ task[c] # "failed"
               /\ cmd[c].type = "subscribe" /\ cmd[c].bps # 0)
                => LET m == cmd[c].metric
                   IN  \/ flushed[m] >= last[c]
                       \/ \E v \in last[c] + 1 .. cache[m] : <<m, v>> \in bad]_vars
  BY <1>1 DEF Spoilt
<1> QED
  BY <1>2, Invariance, PTL DEF Spec, SubscriptionLasts

\* A sample that is downlinked is one that may follow.
LEMMA DownlinkRefines ==
  ASSUME Inv, NEW c \in Conns, DownlinkSample(c)
  PROVE  UNCHANGED <<cache, since, wrote>> \/ Stream!SendSample(c)
<1> DEFINE m == cmd[c].metric
           v == fetched[c]
<1>1. cache' = cache /\ since' = since
  BY DEF DownlinkSample, envVars
<1>2. CASE tr[c] = "reset"
  BY <1>1, <1>2 DEF DownlinkSample, WriteAndDrain
<1>3. CASE tr[c] # "reset"
  <2>1. wrote' = [wrote EXCEPT ![c] = Append(@, Stream!SampleMsg(m, v))]
    BY <1>3 DEF DownlinkSample, WriteAndDrain, SampleMsg, Stream!SampleMsg
  <2>2. cmd[c] \in Subscribes /\ m \in Metrics /\ v # 0 /\ v # last[c]
    BY CommandFields DEF DownlinkSample, Resumes, Inv, CommandInv
  <2>3. last[c] \in Nat /\ v \in Nat /\ cache[m] \in Nat
    BY <2>2 DEF Inv, TypeOK
  <2>4. last[c] <= v /\ v <= cache[m]
    BY <2>2 DEF DownlinkSample, Resumes, Inv, StreamInv, StreamOf
  <2>5. v \in 1 .. cache[m] /\ since[c][m] <= v
    BY <2>2, <2>3, <2>4 DEF DownlinkSample, Resumes, Inv, FreshInv, FreshOf
  <2>6. Stream!OlderSamplesOf(wrote[c], m, v)
    <3>1. ASSUME NEW i \in 1 .. Len(wrote[c])
          PROVE  /\ wrote[c][i].kind = "sample" /\ wrote[c][i].metric = m
                 /\ wrote[c][i].ver < v
      <4>1. /\ wrote[c][i].kind = "sample" /\ wrote[c][i].metric = m
            /\ wrote[c][i].ver <= last[c]
        BY <2>2, <3>1 DEF Inv, StreamInv, StreamOf
      <4>2. wrote[c][i] \in Telemetry
        BY <3>1 DEF Inv, TypeOK
      <4>3. wrote[c][i].ver \in Nat
        BY <4>1, <4>2 DEF Telemetry
      <4>4. wrote[c][i].ver < v
        BY <2>2, <2>3, <2>4, <4>1, <4>3
      <4> QED
        BY <4>1, <4>4
    <3> QED
      BY <3>1 DEF Stream!OlderSamplesOf
  <2> QED
    BY <1>1, <2>1, <2>2, <2>5, <2>6 DEF Stream!SendSample
<1> QED
  BY <1>2, <1>3

\* A listing is the first and only telemetry of its connection.
LEMMA MetricIdsRefines ==
  ASSUME Inv, NEW c \in Conns, NEW S \in SUBSET Metrics, MetricIdsFound(c, S)
  PROVE  UNCHANGED <<cache, since, wrote>> \/ Stream!SendMetricIds(c)
<1>1. cache' = cache /\ since' = since /\ wrote[c] = << >>
  BY DEF MetricIdsFound, Resumes, envVars, Inv, StreamInv, StreamOf
<1>2. CASE tr[c] = "reset"
  BY <1>1, <1>2 DEF MetricIdsFound, WriteAndDrain
<1>3. CASE tr[c] # "reset"
  <2>1. wrote' = [wrote EXCEPT ![c] = Append(@, Stream!MetricIdsMsg(S \ ColonIds))]
    BY <1>3 DEF MetricIdsFound, WriteAndDrain, MetricIdsMsg, Stream!MetricIdsMsg
  <2>2. S \ ColonIds \in SUBSET {m \in Metrics : cache[m] > 0}
    BY DEF MetricIdsFound, Inv, CacheInv
  <2> QED
    BY <1>1, <2>1, <2>2 DEF Stream!SendMetricIds
<1> QED
  BY <1>2, <1>3

\* The onboard server implements TelemetryStream: each connection carries the
\* samples of one metric in the order they were stored, none twice and none older
\* than the connection, or one listing of the metric ids and nothing else.
THEOREM ServerImplementsStream == Spec => StreamSpec
<1>1. Init => Stream!Init
  BY DEF Init, Stream!Init
<1>2. Inv /\ [Next]_vars => [Stream!Next]_<<cache, since, wrote>>
  <2> SUFFICES ASSUME Inv, [Next]_vars PROVE [Stream!Next]_<<cache, since, wrote>>
    OBVIOUS
  <2>1. ASSUME NEW m \in Metrics, NEW finite \in BOOLEAN, Publish(m, finite)
        PROVE  Stream!Next
    BY <2>1 DEF Publish, netVars, Stream!Next, Stream!Publish
  <2>2. ASSUME NEW c \in Conns, DownlinkSample(c)
        PROVE  [Stream!Next]_<<cache, since, wrote>>
    BY <2>2, DownlinkRefines DEF Stream!Next
  <2>3. ASSUME NEW c \in Conns, NEW S \in SUBSET Metrics, MetricIdsFound(c, S)
        PROVE  [Stream!Next]_<<cache, since, wrote>>
    BY <2>3, MetricIdsRefines DEF Stream!Next
  <2>4. ASSUME NEW c \in Conns, Connect(c) PROVE Stream!Next
    <3>1. wrote[c] = << >>
      BY <2>4 DEF Connect, Inv, HandlerInv, HandlerOf, StreamInv, StreamOf
    <3> QED
      BY <2>4, <3>1 DEF Connect, netVars, Stream!Next, Stream!Connect
  <2>5. ASSUME Flush PROVE UNCHANGED <<cache, since, wrote>>
    BY <2>5 DEF Flush, netVars
  <2> QED
    BY <2>1, <2>2, <2>3, <2>4, <2>5, WritingSteps
<1> QED
  BY <1>1, <1>2, Invariance, PTL DEF Spec, StreamSpec, Stream!Spec
=============================================================================
