----------------------- MODULE MetricSubscribeHandler -----------------------
(***************************************************************************)
(* The ground side: MetricSubscribeHandler (command/src/sync_metric_ids.py),*)
(* the subscription tasks it manages (subscribe, command/src/subscriber.py) *)
(* and the two workers of run_server (command/src/server.py) that carry out *)
(* the operator's setbps and setmaxbps (command/src/cli.py).                *)
(*                                                                         *)
(* Three coroutines of one event loop call update_bps: the sync task, when *)
(* it adds metrics, and the two workers.  update_bps cancels the metric's  *)
(* subscription, awaits its end and only then puts a new one in its place, *)
(* so calls for the same metric can overlap.  A step is what a coroutine   *)
(* does between two awaits at which it suspends.                           *)
(***************************************************************************)
EXTENDS Integers, Sequences, FiniteSets

CONSTANTS
  Metrics,       \* the metric ids
  SubIds,        \* bound: subscription tasks that exist at one time
  NoTask,        \* None
  Modes,         \* values of DEFAULT_BPS_DISTRIBUTION_MODE: "fair" or not
  DefaultMaxBps, \* DEFAULT_MAX_BPS
  BpsValues,     \* the rates the operator enters
  MaxRequests    \* bound: commands the operator enters

ASSUME ConstantsAssumption ==
  /\ IsFiniteSet(Metrics)
  /\ NoTask \notin SubIds /\ NoTask \notin Metrics
  /\ Modes \subseteq {"fair", "manual"}
  /\ DefaultMaxBps \in Int
  /\ BpsValues \subseteq Int
  /\ MaxRequests \in Nat

VARIABLES
  server,    \* run_server: up, or down once its gather has raised
  sync,      \* where sync_metric_ids is suspended, or dead
  listed,    \* the onboard server has answered GetMetricIds
  todo,      \* new metric ids update_metric_id_list has still to add
  expired,   \* the 10 s timeout struck inside update_metric_id_list
  worker,    \* worker[o]: the queue worker o is idle or awaits its call
  bpsq,      \* update_bps_queue
  maxq,      \* set_max_bps_queue
  requests,  \* how many commands the operator has entered
  mode,      \* self.bps_distribution_mode
  max_bps,   \* self.max_bps
  known,     \* self.metrics.keys()
  bps,       \* bps[m]: self.metrics[m].bps
  table,     \* table[m]: self.metric_subscriptions[m]
  sub,       \* sub[i]: the subscription tasks
  waiters,   \* waiters[i]: who awaits task i, in the order they will run
  spawned,   \* spawned[o]: the metrics whose update_bps o's TaskGroup has
             \* created and the event loop not yet run
  want,      \* want[o][m]: the bps argument of o's update_bps(m, bps)
  err        \* err[o]: an update_bps of o has raised

cliVars    == <<bpsq, maxq, requests>>
metricVars == <<mode, max_bps, known, bps>>
syncVars   == <<sync, listed, todo, expired>>
updateVars == <<table, sub, waiters, spawned, want, err>>
vars == <<server, syncVars, worker, cliVars, metricVars, updateVars>>

-----------------------------------------------------------------------------
\* The callers of update_bps.
Workers == {"bps", "max"}
Owners  == {"sync"} \union Workers

\* A subscription task: not finished, finished, or no task at all.
LiveSub  == {"connecting", "streaming", "eof", "closing"}
EndedSub == {"cancelled", "failed"}

Subs == [metric : Metrics \union {NoTask}, bps : Int,
         st : {"none"} \union LiveSub \union EndedSub, cancel : BOOLEAN]

NoSub == [metric |-> NoTask, bps |-> 0, st |-> "none", cancel |-> FALSE]

Task(m, b) == [metric |-> m, bps |-> b, st |-> "connecting", cancel |-> FALSE]

TypeOK ==
  /\ server \in {"up", "down"}
  /\ sync \in {"connecting", "reading", "sleeping", "adding", "dead"}
  /\ listed \in BOOLEAN
  /\ todo \in SUBSET Metrics
  /\ expired \in BOOLEAN
  /\ worker \in [Workers -> {"idle", "busy"}]
  /\ bpsq \in Seq(Metrics \X BpsValues)
  /\ maxq \in Seq(BpsValues)
  /\ requests \in Nat
  /\ mode \in Modes
  /\ max_bps \in Int
  /\ known \in SUBSET Metrics
  /\ bps \in [Metrics -> Int]
  /\ table \in [Metrics -> SubIds \union {NoTask}]
  /\ sub \in [SubIds -> Subs]
  /\ waiters \in [SubIds -> Seq(Owners)]
  /\ spawned \in [Owners -> SUBSET Metrics]
  /\ want \in [Owners -> [Metrics -> Int]]
  /\ err \in [Owners -> BOOLEAN]

Init ==
  /\ server = "up"
  /\ sync = "connecting"
  /\ listed = FALSE
  /\ todo = {}
  /\ expired = FALSE
  /\ worker = [o \in Workers |-> "idle"]
  /\ bpsq = << >> /\ maxq = << >> /\ requests = 0
  /\ mode \in Modes
  /\ max_bps = DefaultMaxBps
  /\ known = {}
  /\ bps = [m \in Metrics |-> 0]
  /\ table = [m \in Metrics |-> NoTask]
  /\ sub = [i \in SubIds |-> NoSub]
  /\ waiters = [i \in SubIds |-> << >>]
  /\ spawned = [o \in Owners |-> {}]
  /\ want = [o \in Owners |-> [m \in Metrics |-> 0]]
  /\ err = [o \in Owners |-> FALSE]

-----------------------------------------------------------------------------
(* update_bps.                                                             *)

\* Task objects that nothing refers to any more.
FreeIds ==
  {i \in SubIds : /\ sub[i].st \notin LiveSub
                  /\ waiters[i] = << >>
                  /\ \A m \in Metrics : table[m] # i}

\* update_bps(m, w[m]) up to its await, called by o for every m of ms, one
\* right after the other.  An await of a task that is done does not suspend: it
\* goes ahead of those whose wakeup is already scheduled.
StartUpdates(o, ms, w) ==
  LET old == {table[m] : m \in ms}
  IN  /\ bps' = [m \in Metrics |-> IF m \in ms THEN w[m] ELSE bps[m]]
      /\ want' = [want EXCEPT ![o] = w]
      /\ sub' = [i \in SubIds |->
                   IF i \in old /\ sub[i].st \in LiveSub
                   THEN [sub[i] EXCEPT !.cancel = TRUE] ELSE sub[i]]
      /\ waiters' = [i \in SubIds |->
                       CASE i \notin old -> waiters[i]
                         [] i \in old /\ sub[i].st \in EndedSub -> <<o>> \o waiters[i]
                         [] OTHER -> Append(waiters[i], o)]

\* redistribute_bps_fairly: the TaskGroup of o creates a call of update_bps for
\* each of the metrics ms, at an equal share of max.  The calls are queued in
\* the event loop behind whatever is ready to run.
Redistribute(o, ms, max) ==
  /\ spawned' = [spawned EXCEPT ![o] = ms]
  /\ want' = [want EXCEPT ![o] = [m \in Metrics |->
                IF m \in ms THEN max \div Cardinality(ms) ELSE 0]]

\* The event loop comes to the calls the TaskGroup of o created.
ChildrenStart(o) ==
  /\ server = "up" /\ spawned[o] # {}
  /\ StartUpdates(o, spawned[o], want[o])
  /\ spawned' = [spawned EXCEPT ![o] = {}]
  /\ UNCHANGED <<server, syncVars, worker, cliVars, mode, max_bps, known,
                 table, err>>

\* The TaskGroup of o is cancelling its children.  A child whose wakeup is
\* scheduled already gets CancelledError in place of what its task raised.
Aborted(o) == o # "bps" /\ (err[o] \/ (o = "sync" /\ expired))

\* Fault: update_bps returns where it should pass over CancelledError.
ResumeGivesUp(i) ==
  /\ server = "up"
  /\ waiters[i] # << >> /\ sub[i].st \in EndedSub
  /\ waiters' = [waiters EXCEPT ![i] = Tail(@)]
  /\ UNCHANGED <<server, syncVars, worker, cliVars, metricVars, table, sub, spawned,
                 want, err>>

\* update_bps after its await: the first awaiter of task i replaces it, or is
\* left by the exception with which the task ended.  A replaced task that nobody
\* else awaits is garbage, and so is the argument of the finished call.
Resume(i) ==
  LET o == Head(waiters[i])
      m == sub[i].metric
  IN  /\ server = "up"
      /\ waiters[i] # << >>
      /\ waiters' = [waiters EXCEPT ![i] = Tail(@)]
      /\ want' = [want EXCEPT ![o][m] = 0]
      /\ \/ /\ sub[i].st = "cancelled" \/ (sub[i].st = "failed" /\ Aborted(o))
            /\ FreeIds # {}
            /\ LET n == CHOOSE n \in FreeIds : TRUE
               IN  /\ sub' = [sub EXCEPT ![n] = Task(m, want[o][m]),
                                      ![i] = IF Len(waiters[i]) = 1 THEN NoSub ELSE @]
                   /\ table' = [table EXCEPT ![m] = n]
            /\ UNCHANGED err
         \/ /\ sub[i].st = "failed"
            /\ err' = [err EXCEPT ![o] = TRUE]
            /\ UNCHANGED <<sub, table>>
      /\ UNCHANGED <<server, syncVars, worker, cliVars, metricVars, spawned>>

\* An update_bps of o has not finished.
Updating(o) ==
  \/ spawned[o] # {}
  \/ \E i \in SubIds : \E k \in 1 .. Len(waiters[i]) : waiters[i][k] = o

-----------------------------------------------------------------------------
(* sync_metric_ids.                                                        *)

\* The connection is made and GetMetricIds sent; or it is refused.
SyncConnect ==
  /\ server = "up" /\ sync = "connecting"
  /\ sync' \in {"reading", "dead"}
  /\ UNCHANGED <<server, listed, todo, expired, worker, cliVars, metricVars, updateVars>>

\* add_metric(m), called while the ids of rest are still to be added: the new
\* metric is subscribed to at 0 bps and, in fair mode, max_bps redistributed.
AddMetric(m, rest) ==
  /\ FreeIds # {}
  /\ LET n == CHOOSE n \in FreeIds : TRUE
     IN  /\ sub' = [sub EXCEPT ![n] = Task(m, 0)]
         /\ table' = [table EXCEPT ![m] = n]
  /\ known' = known \union {m}
  /\ bps' = [bps EXCEPT ![m] = 0]
  /\ todo' = rest
  /\ sync' = "adding"
  /\ \/ mode = "fair" /\ Redistribute("sync", known \union {m}, max_bps)
     \/ mode # "fair" /\ UNCHANGED <<spawned, want>>
  /\ UNCHANGED waiters

\* The list of metric ids arrives: update_metric_id_list begins with one of
\* the new ones, if there are any.
SyncListed(ids) ==
  /\ server = "up" /\ sync = "reading" /\ ~listed
  /\ listed' = TRUE
  /\ \/ /\ ids \subseteq known
        /\ sync' = "sleeping"
        /\ UNCHANGED <<todo, metricVars, updateVars>>
     \/ /\ \E m \in ids \ known : AddMetric(m, ids \ (known \union {m}))
        /\ UNCHANGED <<mode, max_bps, err>>
  /\ UNCHANGED <<server, expired, worker, cliVars>>

\* What arrives is not valid telemetry, or the connection breaks: nothing
\* catches it, the sync task ends.
SyncBreaks ==
  /\ server = "up" /\ sync = "reading"
  /\ sync' = "dead"
  /\ UNCHANGED <<server, listed, todo, expired, worker, cliVars, metricVars, updateVars>>

\* Nothing arrives for 10 s, or only the end of the stream does.
SyncIdle ==
  /\ server = "up" /\ sync = "reading"
  /\ sync' = "sleeping"
  /\ UNCHANGED <<server, listed, todo, expired, worker, cliVars, metricVars, updateVars>>

SyncSleepOver ==
  /\ server = "up" /\ sync = "sleeping"
  /\ sync' = "reading"
  /\ UNCHANGED <<server, listed, todo, expired, worker, cliVars, metricVars, updateVars>>

\* Fault: the children of the TaskGroup end when they are cancelled.
SyncExpiresForChildren ==
  /\ server = "up" /\ sync = "adding" /\ mode = "fair"
  /\ ~expired /\ spawned["sync"] = {}
  /\ expired' = TRUE
  /\ waiters' = [i \in SubIds |-> SelectSeq(waiters[i], LAMBDA o : o # "sync")]
  /\ UNCHANGED <<server, sync, listed, todo, worker, cliVars, metricVars, table,
                 sub, spawned, want, err>>

\* The timeout cancels the sync task inside add_metric.  The event loop runs the
\* calls created before it first.  The TaskGroup cancels them, each takes it for
\* the end of the task it awaits and goes on; the sync task waits for them.
SyncExpires ==
  /\ server = "up" /\ sync = "adding" /\ mode = "fair"
  /\ ~expired /\ spawned["sync"] = {}
  /\ expired' = TRUE
  /\ UNCHANGED <<server, sync, listed, todo, worker, cliVars, metricVars, updateVars>>

\* add_metric returns or raises: the next new id is added, unless the timeout
\* struck or an update failed.
SyncAdded ==
  /\ server = "up" /\ sync = "adding" /\ ~Updating("sync")
  /\ \/ /\ err["sync"]
        /\ sync' = "dead"
        /\ UNCHANGED <<todo, expired, metricVars, updateVars>>
     \/ /\ ~err["sync"] /\ (expired \/ todo = {})
        /\ sync' = "sleeping" /\ todo' = {} /\ expired' = FALSE
        /\ UNCHANGED <<metricVars, updateVars>>
     \/ /\ ~err["sync"] /\ ~expired
        /\ \E m \in todo : AddMetric(m, todo \ {m})
        /\ UNCHANGED <<expired, mode, max_bps, err>>
  /\ UNCHANGED <<server, listed, worker, cliVars>>

-----------------------------------------------------------------------------
(* The operator and the workers of run_server.                             *)

\* Fault: the request is queued with its arguments swapped.
CliSetBpsSwapped(m, b) ==
  /\ server = "up" /\ requests < MaxRequests
  /\ requests' = requests + 1
  /\ bpsq' = Append(bpsq, <<b, m>>)
  /\ UNCHANGED <<server, syncVars, worker, maxq, metricVars, updateVars>>

CliSetBps(m, b) ==
  /\ server = "up" /\ requests < MaxRequests
  /\ requests' = requests + 1
  /\ bpsq' = Append(bpsq, <<m, b>>)
  /\ UNCHANGED <<server, syncVars, worker, maxq, metricVars, updateVars>>

CliSetMaxBps(b) ==
  /\ server = "up" /\ requests < MaxRequests
  /\ requests' = requests + 1
  /\ maxq' = Append(maxq, b)
  /\ UNCHANGED <<server, syncVars, worker, bpsq, metricVars, updateVars>>

\* handle_update_bps_queue takes a request; one for an unknown metric is
\* dropped.
BpsGet ==
  /\ server = "up" /\ worker["bps"] = "idle" /\ bpsq # << >>
  /\ bpsq' = Tail(bpsq)
  /\ LET m == Head(bpsq)[1]
         b == Head(bpsq)[2]
     IN  \/ /\ m \in known
            /\ worker' = [worker EXCEPT !["bps"] = "busy"]
            /\ StartUpdates("bps", {m}, [want["bps"] EXCEPT ![m] = b])
            /\ UNCHANGED <<table, spawned, err>>
         \/ /\ m \notin known
            /\ UNCHANGED <<worker, bps, updateVars>>
  /\ UNCHANGED <<server, syncVars, maxq, requests, mode, max_bps, known>>

\* gather raises: __aexit__ cancels the sync task and the subscriptions of the
\* table, the end of the event loop cancels everything else.
GoDown ==
  /\ server' = "down"
  /\ sync' = "dead"
  /\ sub' = [i \in SubIds |-> IF sub[i].st \in LiveSub
                              THEN [sub[i] EXCEPT !.st = "cancelled"] ELSE sub[i]]
  /\ waiters' = [i \in SubIds |-> << >>]
  /\ spawned' = [o \in Owners |-> {}]

\* handle_set_max_bps_queue takes a request; a share of no metrics divides by
\* zero.
MaxGet ==
  /\ server = "up" /\ worker["max"] = "idle" /\ maxq # << >>
  /\ maxq' = Tail(maxq)
  /\ max_bps' = Head(maxq)
  /\ \/ /\ Head(maxq) = max_bps
        /\ UNCHANGED <<server, sync, worker, sub, waiters, spawned, want>>
     \/ /\ Head(maxq) # max_bps /\ known = {}
        /\ GoDown
        /\ UNCHANGED <<worker, want>>
     \/ /\ Head(maxq) # max_bps /\ known # {}
        /\ worker' = [worker EXCEPT !["max"] = "busy"]
        /\ Redistribute("max", known, Head(maxq))
        /\ UNCHANGED <<server, sync, sub, waiters>>
  /\ UNCHANGED <<listed, todo, expired, bpsq, requests, mode, known, bps, table, err>>

\* The worker's call returns, or its exception ends gather.
WorkerDone(o) ==
  /\ server = "up" /\ worker[o] = "busy" /\ ~Updating(o)
  /\ worker' = [worker EXCEPT ![o] = "idle"]
  /\ \/ /\ err[o]
        /\ GoDown
     \/ /\ ~err[o]
        /\ UNCHANGED <<server, sync, sub, waiters, spawned>>
  /\ UNCHANGED <<listed, todo, expired, cliVars, metricVars, table, want, err>>

-----------------------------------------------------------------------------
(* subscribe.                                                              *)

SubGoes(i, from, to) ==
  /\ server = "up"
  /\ sub[i].st \in from /\ ~sub[i].cancel
  /\ \E st \in to : sub' = [sub EXCEPT ![i].st = st]
  /\ UNCHANGED <<server, syncVars, worker, cliVars, metricVars, table, waiters,
                 spawned, want, err>>

\* The connection is made and Subscribe sent; or it is refused.
SubConnect(i) == SubGoes(i, {"connecting"}, {"streaming", "failed"})

\* The onboard server closes its end: the loop reads b"" and sleeps, for ever.
SubEof(i) == SubGoes(i, {"streaming"}, {"eof"})

\* The connection is reset, the data is not UTF-8, or handle_sample raises.
SubBreaks(i) == SubGoes(i, {"streaming"}, {"failed"})

\* Fault: the loop of subscribe catches CancelledError with the other errors
\* and goes on.
SubCancelledSwallowed(i) ==
  /\ server = "up" /\ sub[i].cancel
  /\ \/ /\ sub[i].st = "connecting"
        /\ sub' = [sub EXCEPT ![i].st = "cancelled"]
     \/ /\ sub[i].st \in {"streaming", "eof"}
        /\ sub' = [sub EXCEPT ![i].cancel = FALSE]
  /\ UNCHANGED <<server, syncVars, worker, cliVars, metricVars, table, waiters,
                 spawned, want, err>>

\* CancelledError is thrown into the task.  If it is connected, the finally
\* clause closes the connection and awaits that, which may raise in its turn.
SubCancelled(i) ==
  /\ server = "up" /\ sub[i].cancel
  /\ \/ /\ sub[i].st = "connecting"
        /\ sub' = [sub EXCEPT ![i].st = "cancelled"]
     \/ /\ sub[i].st \in {"streaming", "eof"}
        /\ sub' = [sub EXCEPT ![i].st = "closing"]
     \/ /\ sub[i].st = "closing"
        /\ \E st \in EndedSub : sub' = [sub EXCEPT ![i].st = st]
  /\ UNCHANGED <<server, syncVars, worker, cliVars, metricVars, table, waiters,
                 spawned, want, err>>

-----------------------------------------------------------------------------
Next ==
  \/ SyncConnect \/ SyncBreaks \/ SyncIdle \/ SyncSleepOver
  \/ SyncExpires \/ SyncAdded
  \/ \E ids \in SUBSET Metrics : SyncListed(ids)
  \/ \E m \in Metrics, b \in BpsValues : CliSetBps(m, b)
  \/ \E b \in BpsValues : CliSetMaxBps(b)
  \/ BpsGet \/ MaxGet
  \/ \E o \in Workers : WorkerDone(o)
  \/ \E o \in Owners : ChildrenStart(o)
  \/ \E i \in SubIds : \/ Resume(i) \/ SubConnect(i) \/ SubEof(i)
                       \/ SubBreaks(i) \/ SubCancelled(i)

Spec == Init /\ [][Next]_vars

\* The event loop runs every coroutine that can run; a connection that is
\* closed gets closed.
Fairness ==
  /\ \A i \in SubIds : WF_vars(Resume(i)) /\ WF_vars(SubCancelled(i))
  /\ WF_vars(BpsGet) /\ WF_vars(MaxGet)
  /\ \A o \in Workers : WF_vars(WorkerDone(o))
  /\ \A o \in Owners : WF_vars(ChildrenStart(o))
  /\ WF_vars(SyncAdded)

FairSpec == Spec /\ Fairness

-----------------------------------------------------------------------------
(* Properties.                                                             *)

\* A subscription of the table that update_bps has cancelled is awaited by a
\* call that will replace it: overlapping updates, the timeout of the sync task
\* and failures leave no metric without a subscription that nothing renews,
\* unless the subscription itself ended by an exception.
NoMetricAbandoned ==
  server = "up" =>
    \A m \in known :
      (sub[table[m]].cancel /\ sub[table[m]].st # "failed")
        => waiters[table[m]] # << >>

\* Every request of the operator is taken up and every call of update_bps
\* comes to an end, whatever it overlaps with, unless the server goes down.
RequestsFinish ==
  /\ (bpsq # << >>) ~> (bpsq = << >> \/ server = "down")
  /\ (maxq # << >>) ~> (maxq = << >> \/ server = "down")
  /\ \A o \in Owners : Updating(o) ~> ~Updating(o)

=============================================================================
