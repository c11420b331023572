-------------------- MODULE MetricSubscribeHandlerProofs --------------------
(***************************************************************************)
(* Proofs about MetricSubscribeHandler, for any set of metrics, any bound  *)
(* on the subscription tasks and any requests of the operator.             *)
(*                                                                         *)
(* NoMetricAbandoned is not inductive on its own.  That a call of          *)
(* update_bps replaces the subscription it cancelled needs the task it     *)
(* awaits to belong to the metric of the call (AwaitInv), the table to     *)
(* give each metric a task of its own (TableInv), and the calls a          *)
(* TaskGroup has created to be for metrics that are in the table           *)
(* (SpawnInv).                                                             *)
(***************************************************************************)
EXTENDS MetricSubscribeHandler, FiniteSetTheorems, SequenceTheorems, TLAPS

\* The table holds for every known metric a task that was made for it.
TableInv ==
  \A m \in known : /\ table[m] \in SubIds
                   /\ sub[table[m]].metric = m
                   /\ sub[table[m]].st # "none"

\* Only calls for metrics in the table are created.
SpawnInv == \A o \in Owners : spawned[o] \subseteq known

\* What update_bps awaits is the subscription of a metric and has been
\* cancelled or has ended.
AwaitInv ==
  \A i \in SubIds :
    waiters[i] # << >> => /\ sub[i].metric \in Metrics
                          /\ sub[i].cancel \/ sub[i].st \in EndedSub
                          /\ sub[i].st # "none"

Inv == TypeOK /\ TableInv /\ SpawnInv /\ AwaitInv /\ NoMetricAbandoned

-----------------------------------------------------------------------------
(* update_bps.                                                             *)

\* An equal share of a rate is a rate, where there is a metric to share it.
LEMMA ShareType ==
  ASSUME NEW ms \in SUBSET Metrics, ms # {}, NEW max \in Int
  PROVE  max \div Cardinality(ms) \in Int
<1>1. IsFiniteSet(ms)
  BY ConstantsAssumption, FS_Subset
<1>2. Cardinality(ms) \in Nat /\ Cardinality(ms) # 0
  BY <1>1, FS_CardinalityType, FS_EmptySet
<1> QED
  BY <1>2

\* A task object that update_bps or add_metric may use.
LEMMA FreeId ==
  ASSUME FreeIds # {}
  PROVE  LET n == CHOOSE n \in FreeIds : TRUE
         IN  /\ n \in SubIds /\ waiters[n] = << >>
             /\ \A m \in Metrics : table[m] # n
<1>1. (CHOOSE n \in FreeIds : TRUE) \in FreeIds
  OBVIOUS
<1> QED
  BY <1>1 DEF FreeIds

\* A new subscription task is one.
LEMMA TaskType ==
  /\ \A m \in Metrics, b \in Int :
       /\ Task(m, b) \in Subs
       /\ Task(m, b).metric = m /\ Task(m, b).st = "connecting"
       /\ ~Task(m, b).cancel
  /\ NoSub \in Subs
BY DEF Task, Subs, NoSub, LiveSub, EndedSub

\* Up to its await update_bps keeps the types of what it changes.
LEMMA StartUpdatesType ==
  ASSUME Inv, NEW o \in Owners, NEW ms \in SUBSET known,
         NEW w \in [Metrics -> Int], StartUpdates(o, ms, w)
  PROVE  /\ bps' \in [Metrics -> Int] /\ want' \in [Owners -> [Metrics -> Int]]
         /\ sub' \in [SubIds -> Subs] /\ waiters' \in [SubIds -> Seq(Owners)]
<1>1. bps' \in [Metrics -> Int] /\ want' \in [Owners -> [Metrics -> Int]]
  BY DEF StartUpdates, Inv, TypeOK
<1>2. sub' \in [SubIds -> Subs]
  <2> SUFFICES ASSUME NEW i \in SubIds PROVE [sub[i] EXCEPT !.cancel = TRUE] \in Subs
    BY DEF StartUpdates, Inv, TypeOK
  <2>1. sub[i] \in Subs
    BY DEF Inv, TypeOK
  <2> QED
    BY <2>1 DEF Subs
<1>3. waiters' \in [SubIds -> Seq(Owners)]
  BY DEF StartUpdates, Inv, TypeOK
<1> QED
  BY <1>1, <1>2, <1>3

\* What update_bps does up to its await to one subscription task: it cancels
\* it if it still runs, and then awaits it.
LEMMA StartUpdatesTask ==
  ASSUME Inv, NEW o \in Owners, NEW ms \in SUBSET known, NEW w,
         StartUpdates(o, ms, w), NEW i \in SubIds
  PROVE  /\ sub'[i].metric = sub[i].metric /\ sub'[i].st = sub[i].st
         /\ (\A m \in ms : table[m] # i)
              => sub'[i] = sub[i] /\ waiters'[i] = waiters[i]
         /\ (\E m \in ms : table[m] = i)
              => /\ waiters'[i] # << >>
                 /\ sub'[i].cancel \/ sub[i].st \in EndedSub
<1>1. sub[i] \in Subs /\ waiters[i] \in Seq(Owners)
  BY DEF Inv, TypeOK
<1>2. CASE \A m \in ms : table[m] # i
  BY <1>2 DEF StartUpdates
<1>3. CASE \E m \in ms : table[m] = i
  <2>1. sub[i].st # "none"
    BY <1>3 DEF Inv, TableInv
  <2>2. sub[i].st \in LiveSub \/ sub[i].st \in EndedSub
    BY <1>1, <2>1 DEF Subs
  <2>3. sub'[i] = IF sub[i].st \in LiveSub
                  THEN [sub[i] EXCEPT !.cancel = TRUE] ELSE sub[i]
    BY <1>3 DEF StartUpdates
  <2>4. waiters'[i] = IF sub[i].st \in EndedSub THEN <<o>> \o waiters[i]
                      ELSE Append(waiters[i], o)
    BY <1>3 DEF StartUpdates
  <2>5. waiters'[i] # << >>
    BY <1>1, <2>4
  <2> QED
    BY <1>1, <1>3, <2>2, <2>3, <2>5 DEF Subs
<1> QED
  BY <1>2, <1>3

\* Up to its await update_bps leaves the cancelled subscription awaited.
LEMMA StartUpdatesInv ==
  ASSUME Inv, NEW o \in Owners, NEW ms \in SUBSET known, NEW w,
         StartUpdates(o, ms, w), UNCHANGED <<server, table, known>>
  PROVE  TableInv' /\ AwaitInv' /\ NoMetricAbandoned'
<1>1. TableInv'
  BY StartUpdatesTask DEF Inv, TableInv
<1>2. AwaitInv'
  <2> SUFFICES ASSUME NEW i \in SubIds, waiters'[i] # << >>
               PROVE  /\ sub'[i].metric \in Metrics
                      /\ sub'[i].cancel \/ sub'[i].st \in EndedSub
                      /\ sub'[i].st # "none"
    BY DEF AwaitInv
  <2>1. CASE \A m \in ms : table[m] # i
    BY <2>1, StartUpdatesTask DEF Inv, AwaitInv
  <2>2. CASE \E m \in ms : table[m] = i
    <3>1. sub[i].metric \in Metrics /\ sub[i].st # "none"
      BY <2>2 DEF Inv, TableInv, TypeOK
    <3> QED
      BY <2>2, <3>1, StartUpdatesTask
  <2> QED
    BY <2>1, <2>2
<1>3. NoMetricAbandoned'
  <2> SUFFICES ASSUME server' = "up", NEW m \in known,
                      sub'[table[m]].cancel, sub'[table[m]].st # "failed"
               PROVE  waiters'[table[m]] # << >>
    BY DEF NoMetricAbandoned
  <2>1. table[m] \in SubIds
    BY DEF Inv, TableInv
  <2>2. CASE \A k \in ms : table[k] # table[m]
    BY <2>1, <2>2, StartUpdatesTask DEF Inv, NoMetricAbandoned
  <2>3. CASE \E k \in ms : table[k] = table[m]
    BY <2>1, <2>3, StartUpdatesTask
  <2> QED
    BY <2>2, <2>3
<1> QED
  BY <1>1, <1>2, <1>3

\* The end of an update_bps.
LEMMA ResumeInv ==
  ASSUME Inv, NEW i \in SubIds, Resume(i)
  PROVE  Inv'
<1> DEFINE o == Head(waiters[i])
           m == sub[i].metric
           n == CHOOSE n \in FreeIds : TRUE
<1>1. /\ waiters[i] \in Seq(Owners) /\ waiters[i] # << >> /\ sub[i] \in Subs
      /\ m \in Metrics /\ o \in Owners /\ Tail(waiters[i]) \in Seq(Owners)
  BY DEF Resume, Inv, TypeOK, AwaitInv
<1>2. /\ waiters' \in [SubIds -> Seq(Owners)]
      /\ want' \in [Owners -> [Metrics -> Int]]
      /\ want[o][m] \in Int
  BY <1>1 DEF Resume, Inv, TypeOK
<1>3. SpawnInv'
  BY DEF Resume, metricVars, Inv, SpawnInv
<1> HIDE DEF o, m, n
<1>4. CASE /\ FreeIds # {}
           /\ sub' = [sub EXCEPT ![n] = Task(m, want[o][m]),
                                 ![i] = IF Len(waiters[i]) = 1 THEN NoSub ELSE @]
           /\ table' = [table EXCEPT ![m] = n]
           /\ UNCHANGED err
  <2>1. n \in SubIds /\ waiters[n] = << >> /\ \A k \in Metrics : table[k] # n
    BY <1>4, FreeId DEF n
  <2>2. n # i
    BY <1>1, <2>1
  <2>3. sub' \in [SubIds -> Subs] /\ table' \in [Metrics -> SubIds \union {NoTask}]
    BY <1>1, <1>2, <1>4, <2>1, TaskType DEF Inv, TypeOK
  <2>4. TypeOK'
    BY <1>2, <1>4, <2>3 DEF Resume, Inv, TypeOK, syncVars, cliVars, metricVars
  <2>5. /\ sub'[n] = Task(m, want[o][m]) /\ table'[m] = n
        /\ \A j \in SubIds : j # n /\ j # i => sub'[j] = sub[j]
        /\ \A k \in Metrics : k # m => table'[k] = table[k]
    BY <1>1, <1>4, <2>1, <2>2 DEF Inv, TypeOK
  <2>6. known' = known /\ known \subseteq Metrics /\ server' = server
    BY DEF Resume, metricVars, Inv, TypeOK
  <2>7. ASSUME NEW k \in known, k # m
        PROVE  table'[k] = table[k] /\ table[k] \in SubIds \ {n, i}
    BY <2>1, <2>5, <2>6, <2>7 DEF Inv, TableInv, m
  <2>8. /\ \A j \in SubIds : j # i => waiters'[j] = waiters[j]
        /\ waiters'[i] = Tail(waiters[i])
    BY DEF Resume, Inv, TypeOK
  <2>9. TableInv'
    <3> SUFFICES ASSUME NEW k \in known
                 PROVE  /\ table'[k] \in SubIds /\ sub'[table'[k]].metric = k
                        /\ sub'[table'[k]].st # "none"
      BY <2>6 DEF TableInv
    <3>1. CASE k = m
      BY <1>1, <1>2, <2>1, <2>5, <3>1, TaskType
    <3>2. CASE k # m
      BY <2>5, <2>7, <3>2 DEF Inv, TableInv
    <3> QED
      BY <3>1, <3>2
  <2>10. AwaitInv'
    <3> SUFFICES ASSUME NEW j \in SubIds, waiters'[j] # << >>
                 PROVE  /\ sub'[j].metric \in Metrics
                        /\ sub'[j].cancel \/ sub'[j].st \in EndedSub
                        /\ sub'[j].st # "none"
      BY DEF AwaitInv
    <3>1. CASE j = i
      <4>1. Len(waiters[i]) # 1
        <5>1. Tail(waiters[i]) # << >>
          BY <2>8, <3>1
        <5>2. Len(Tail(waiters[i])) # 0
          BY <1>1, <5>1, EmptySeq
        <5>3. Len(Tail(waiters[i])) = Len(waiters[i]) - 1
          BY <1>1, HeadTailProperties
        <5> QED
          BY <1>1, <5>2, <5>3
      <4>2. sub'[i] = sub[i]
        BY <1>4, <2>2, <4>1 DEF Inv, TypeOK
      <4> QED
        BY <1>1, <3>1, <4>2 DEF Inv, AwaitInv
    <3>2. CASE j # i
      BY <2>1, <2>5, <2>8, <3>2 DEF Inv, AwaitInv
    <3> QED
      BY <3>1, <3>2
  <2>11. NoMetricAbandoned'
    <3> SUFFICES ASSUME server' = "up", NEW k \in known,
                        sub'[table'[k]].cancel, sub'[table'[k]].st # "failed"
                 PROVE  waiters'[table'[k]] # << >>
      BY <2>6 DEF NoMetricAbandoned
    <3>1. k # m
      BY <1>1, <1>2, <2>5, TaskType
    <3> QED
      BY <2>5, <2>6, <2>7, <2>8, <3>1 DEF Inv, NoMetricAbandoned
  <2> QED
    BY <1>3, <2>4, <2>9, <2>10, <2>11 DEF Inv
<1>5. CASE /\ sub[i].st = "failed"
           /\ err' = [err EXCEPT ![o] = TRUE]
           /\ UNCHANGED <<sub, table>>
  <2>1. TypeOK'
    BY <1>2, <1>5 DEF Resume, Inv, TypeOK, syncVars, cliVars, metricVars
  <2>2. known' = known /\ server' = server
    BY DEF Resume, metricVars
  <2>3. \A j \in SubIds : j # i => waiters'[j] = waiters[j]
    BY DEF Resume, Inv, TypeOK
  <2>4. TableInv'
    BY <1>5, <2>2 DEF Inv, TableInv
  <2>5. AwaitInv'
    BY <1>1, <1>5, <2>3 DEF Inv, AwaitInv
  <2>6. NoMetricAbandoned'
    BY <1>5, <2>2, <2>3 DEF Inv, TableInv, NoMetricAbandoned
  <2> QED
    BY <1>3, <2>1, <2>4, <2>5, <2>6 DEF Inv
<1> QED
  BY <1>4, <1>5 DEF Resume, o, m, n

\* redistribute_bps_fairly creates calls with a rate.
LEMMA RedistributeType ==
  ASSUME Inv, NEW o \in Owners, NEW ms \in SUBSET Metrics, ms # {},
         NEW max \in Int, Redistribute(o, ms, max)
  PROVE  /\ want' \in [Owners -> [Metrics -> Int]]
         /\ spawned' = [spawned EXCEPT ![o] = ms]
<1> DEFINE share == max \div Cardinality(ms)
           row == [k \in Metrics |-> IF k \in ms THEN share ELSE 0]
<1>1. share \in Int
  BY ShareType
<1>2. row \in [Metrics -> Int]
  BY <1>1
<1>3. want' = [want EXCEPT ![o] = row] /\ spawned' = [spawned EXCEPT ![o] = ms]
  BY DEF Redistribute
<1> HIDE DEF row
<1> QED
  BY <1>2, <1>3 DEF Inv, TypeOK

\* The calls a TaskGroup created begin.
LEMMA ChildrenStartInv ==
  ASSUME Inv, NEW o \in Owners, ChildrenStart(o)
  PROVE  Inv'
<1>1. spawned[o] \in SUBSET known /\ want[o] \in [Metrics -> Int]
  BY DEF Inv, SpawnInv, TypeOK
<1>2. /\ StartUpdates(o, spawned[o], want[o])
      /\ UNCHANGED <<server, table, known>>
  BY DEF ChildrenStart
<1>3. TableInv' /\ AwaitInv' /\ NoMetricAbandoned'
  BY <1>1, <1>2, StartUpdatesInv
<1>4. spawned' \in [Owners -> SUBSET Metrics]
  BY DEF ChildrenStart, Inv, TypeOK
<1>5. TypeOK'
  BY <1>1, <1>2, <1>4, StartUpdatesType
  DEF ChildrenStart, Inv, TypeOK, syncVars, cliVars
<1>6. SpawnInv'
  BY <1>2 DEF ChildrenStart, Inv, SpawnInv, TypeOK
<1> QED
  BY <1>3, <1>5, <1>6 DEF Inv

-----------------------------------------------------------------------------
(* sync_metric_ids.                                                        *)

\* Steps that leave the metrics and their subscriptions alone.
LEMMA MetricsUnchanged ==
  ASSUME Inv, UNCHANGED <<server, known, updateVars>>
  PROVE  TableInv' /\ SpawnInv' /\ AwaitInv' /\ NoMetricAbandoned'
BY DEF Inv, updateVars, TableInv, SpawnInv, AwaitInv, NoMetricAbandoned

\* add_metric puts a fresh task in the table.
LEMMA AddMetricInv ==
  ASSUME Inv, NEW m \in Metrics, NEW rest \in SUBSET Metrics,
         AddMetric(m, rest), UNCHANGED <<server, err, max_bps, mode>>
  PROVE  /\ sub' \in [SubIds -> Subs]
         /\ table' \in [Metrics -> SubIds \union {NoTask}]
         /\ known' \in SUBSET Metrics /\ bps' \in [Metrics -> Int]
         /\ spawned' \in [Owners -> SUBSET Metrics]
         /\ want' \in [Owners -> [Metrics -> Int]]
         /\ TableInv' /\ SpawnInv' /\ AwaitInv' /\ NoMetricAbandoned'
<1> DEFINE n == CHOOSE n \in FreeIds : TRUE
<1>1. /\ sub' = [sub EXCEPT ![n] = Task(m, 0)] /\ table' = [table EXCEPT ![m] = n]
      /\ known' = known \union {m} /\ bps' = [bps EXCEPT ![m] = 0]
      /\ UNCHANGED waiters /\ FreeIds # {}
  BY DEF AddMetric
<1>2. n \in SubIds /\ waiters[n] = << >> /\ \A k \in Metrics : table[k] # n
  BY <1>1, FreeId
<1> HIDE DEF n
<1>3. Task(m, 0) \in Subs /\ Task(m, 0).metric = m /\ Task(m, 0).st = "connecting"
      /\ ~Task(m, 0).cancel
  BY TaskType
<1>4. /\ sub' \in [SubIds -> Subs] /\ table' \in [Metrics -> SubIds \union {NoTask}]
      /\ known' \in SUBSET Metrics /\ bps' \in [Metrics -> Int]
  BY <1>1, <1>2, <1>3 DEF Inv, TypeOK
<1>5. /\ sub'[n] = Task(m, 0) /\ table'[m] = n
      /\ \A j \in SubIds : j # n => sub'[j] = sub[j]
      /\ \A k \in Metrics : k # m => table'[k] = table[k]
  BY <1>1, <1>2 DEF Inv, TypeOK
<1>6. /\ spawned' \in [Owners -> SUBSET Metrics]
      /\ want' \in [Owners -> [Metrics -> Int]] /\ SpawnInv'
  <2>1. CASE Redistribute("sync", known \union {m}, max_bps)
    <3>1. known \union {m} \in SUBSET Metrics /\ max_bps \in Int
      BY DEF Inv, TypeOK
    <3>2. /\ want' \in [Owners -> [Metrics -> Int]]
          /\ spawned' = [spawned EXCEPT !["sync"] = known \union {m}]
      BY <2>1, <3>1, RedistributeType DEF Owners
    <3> QED
      BY <1>1, <3>1, <3>2 DEF Inv, TypeOK, SpawnInv
  <2>2. CASE UNCHANGED <<spawned, want>>
    BY <1>1, <2>2 DEF Inv, TypeOK, SpawnInv
  <2> QED
    BY <2>1, <2>2 DEF AddMetric
<1>7. known \subseteq Metrics
  BY DEF Inv, TypeOK
<1>8. TableInv'
  BY <1>1, <1>2, <1>3, <1>5, <1>7 DEF Inv, TableInv
<1>9. AwaitInv'
  BY <1>1, <1>2, <1>5 DEF Inv, AwaitInv
<1>10. NoMetricAbandoned'
  <2> SUFFICES ASSUME server' = "up", NEW k \in known',
                      sub'[table'[k]].cancel, sub'[table'[k]].st # "failed"
               PROVE  waiters'[table'[k]] # << >>
    BY DEF NoMetricAbandoned
  <2>1. k # m
    BY <1>3, <1>5
  <2>2. k \in known /\ table'[k] = table[k] /\ table[k] \in SubIds /\ table[k] # n
    BY <1>1, <1>2, <1>5, <1>7, <2>1 DEF Inv, TableInv
  <2> QED
    BY <1>1, <1>5, <2>2 DEF Inv, NoMetricAbandoned
<1> QED
  BY <1>4, <1>6, <1>8, <1>9, <1>10

\* The list of metric ids arrives.
LEMMA SyncListedInv ==
  ASSUME Inv, NEW ids \in SUBSET Metrics, SyncListed(ids)
  PROVE  Inv'
<1>1. CASE ids \subseteq known /\ sync' = "sleeping"
           /\ UNCHANGED <<todo, metricVars, updateVars>>
  <2>1. TypeOK'
    BY <1>1 DEF SyncListed, Inv, TypeOK, metricVars, updateVars, cliVars
  <2> QED
    BY <1>1, <2>1, MetricsUnchanged DEF SyncListed, Inv, metricVars
<1>2. ASSUME NEW m \in ids \ known, AddMetric(m, ids \ (known \union {m})),
             UNCHANGED <<mode, max_bps, err>>
      PROVE  Inv'
  <2>1. UNCHANGED <<server, expired, worker, cliVars>> /\ listed' = TRUE
    BY DEF SyncListed
  <2>2. /\ sub' \in [SubIds -> Subs]
        /\ table' \in [Metrics -> SubIds \union {NoTask}]
        /\ known' \in SUBSET Metrics /\ bps' \in [Metrics -> Int]
        /\ spawned' \in [Owners -> SUBSET Metrics]
        /\ want' \in [Owners -> [Metrics -> Int]]
        /\ TableInv' /\ SpawnInv' /\ AwaitInv' /\ NoMetricAbandoned'
    BY <1>2, <2>1, AddMetricInv
  <2>3. /\ todo' \in SUBSET Metrics /\ sync' = "adding" /\ waiters' = waiters
    BY <1>2 DEF AddMetric
  <2>4. TypeOK'
    BY <1>2, <2>1, <2>2, <2>3 DEF Inv, TypeOK, cliVars
  <2> QED
    BY <2>2, <2>4 DEF Inv
<1> QED
  BY <1>1, <1>2 DEF SyncListed

\* add_metric is over.
LEMMA SyncAddedInv ==
  ASSUME Inv, SyncAdded
  PROVE  Inv'
<1>1. CASE /\ sync' \in {"dead", "sleeping"}
           /\ todo' \in SUBSET Metrics /\ expired' \in BOOLEAN
           /\ UNCHANGED <<metricVars, updateVars>>
  <2>1. TypeOK'
    BY <1>1 DEF SyncAdded, Inv, TypeOK, metricVars, updateVars, cliVars
  <2> QED
    BY <1>1, <2>1, MetricsUnchanged DEF SyncAdded, Inv, metricVars
<1>2. ASSUME NEW m \in todo, AddMetric(m, todo \ {m}),
             UNCHANGED <<expired, mode, max_bps, err>>
      PROVE  Inv'
  <2>1. UNCHANGED <<server, listed, worker, cliVars>>
    BY DEF SyncAdded
  <2>2. /\ sub' \in [SubIds -> Subs]
        /\ table' \in [Metrics -> SubIds \union {NoTask}]
        /\ known' \in SUBSET Metrics /\ bps' \in [Metrics -> Int]
        /\ spawned' \in [Owners -> SUBSET Metrics]
        /\ want' \in [Owners -> [Metrics -> Int]]
        /\ TableInv' /\ SpawnInv' /\ AwaitInv' /\ NoMetricAbandoned'
    <3>1. todo \in SUBSET Metrics
      BY DEF Inv, TypeOK
    <3> QED
      BY <1>2, <2>1, <3>1, AddMetricInv
  <2>3. /\ todo' = todo \ {m} /\ sync' = "adding" /\ waiters' = waiters
    BY <1>2 DEF AddMetric
  <2>4. TypeOK'
    BY <1>2, <2>1, <2>2, <2>3 DEF Inv, TypeOK, cliVars
  <2> QED
    BY <2>2, <2>4 DEF Inv
<1>3. todo \in SUBSET Metrics /\ expired \in BOOLEAN
  BY DEF Inv, TypeOK
<1> QED
  BY <1>1, <1>2, <1>3 DEF SyncAdded

\* The steps of sync_metric_ids that do not touch the metrics.
LEMMA SyncInv ==
  ASSUME Inv,
         SyncConnect \/ SyncBreaks \/ SyncIdle \/ SyncSleepOver \/ SyncExpires
  PROVE  Inv'
<1>1. UNCHANGED <<server, worker, cliVars, metricVars, updateVars, listed, todo>>
  BY DEF SyncConnect, SyncBreaks, SyncIdle, SyncSleepOver, SyncExpires
<1>2. /\ sync' \in {"connecting", "reading", "sleeping", "adding", "dead"}
      /\ expired' \in BOOLEAN
  BY DEF SyncConnect, SyncBreaks, SyncIdle, SyncSleepOver, SyncExpires, Inv, TypeOK
<1>3. TypeOK'
  BY <1>1, <1>2 DEF Inv, TypeOK, cliVars, metricVars, updateVars
<1> QED
  BY <1>1, <1>3, MetricsUnchanged DEF Inv, metricVars

-----------------------------------------------------------------------------
(* The operator and the workers.                                           *)

\* setbps is entered.
LEMMA CliBpsInv ==
  ASSUME Inv, NEW m \in Metrics, NEW b \in BpsValues, CliSetBps(m, b)
  PROVE  Inv'
<1>1. UNCHANGED <<server, syncVars, worker, maxq, metricVars, updateVars>>
  BY DEF CliSetBps
<1>2. bpsq' \in Seq(Metrics \X BpsValues) /\ requests' \in Nat
  BY DEF CliSetBps, Inv, TypeOK
<1>3. TypeOK'
  BY <1>1, <1>2 DEF Inv, TypeOK, syncVars, metricVars, updateVars
<1> QED
  BY <1>1, <1>3, MetricsUnchanged DEF Inv, metricVars

\* setmaxbps is entered.
LEMMA CliMaxInv ==
  ASSUME Inv, NEW b \in BpsValues, CliSetMaxBps(b)
  PROVE  Inv'
<1>1. UNCHANGED <<server, syncVars, worker, bpsq, metricVars, updateVars>>
  BY DEF CliSetMaxBps
<1>2. maxq' \in Seq(BpsValues) /\ requests' \in Nat
  BY DEF CliSetMaxBps, Inv, TypeOK
<1>3. TypeOK'
  BY <1>1, <1>2 DEF Inv, TypeOK, syncVars, metricVars, updateVars
<1> QED
  BY <1>1, <1>3, MetricsUnchanged DEF Inv, metricVars

\* The worker of setbps takes a request.
LEMMA BpsGetInv ==
  ASSUME Inv, BpsGet
  PROVE  Inv'
<1> DEFINE m == Head(bpsq)[1]
           b == Head(bpsq)[2]
           w == [want["bps"] EXCEPT ![m] = b]
<1>1. Head(bpsq) \in Metrics \X BpsValues /\ Tail(bpsq) \in Seq(Metrics \X BpsValues)
  BY HeadTailProperties DEF BpsGet, Inv, TypeOK
<1>2. m \in Metrics /\ b \in Int
  BY <1>1, ConstantsAssumption
<1>3. /\ UNCHANGED <<server, syncVars, maxq, requests, mode, max_bps, known>>
      /\ bpsq' \in Seq(Metrics \X BpsValues)
  BY <1>1 DEF BpsGet
<1>4. CASE /\ m \in known
           /\ worker' = [worker EXCEPT !["bps"] = "busy"]
           /\ StartUpdates("bps", {m}, w)
           /\ UNCHANGED <<table, spawned, err>>
  <2>1. w \in [Metrics -> Int] /\ {m} \in SUBSET known /\ "bps" \in Owners
    BY <1>2, <1>4 DEF Inv, TypeOK, Owners, Workers
  <2> HIDE DEF w, m, b
  <2>2. TableInv' /\ AwaitInv' /\ NoMetricAbandoned'
    BY <1>3, <1>4, <2>1, StartUpdatesInv
  <2>3. /\ bps' \in [Metrics -> Int] /\ want' \in [Owners -> [Metrics -> Int]]
        /\ sub' \in [SubIds -> Subs] /\ waiters' \in [SubIds -> Seq(Owners)]
    BY <1>4, <2>1, StartUpdatesType
  <2>4. worker' \in [Workers -> {"idle", "busy"}]
    BY <1>4 DEF Inv, TypeOK
  <2>5. TypeOK'
    BY <1>3, <1>4, <2>3, <2>4 DEF Inv, TypeOK, syncVars
  <2>6. SpawnInv'
    BY <1>3, <1>4 DEF Inv, SpawnInv
  <2> QED
    BY <2>2, <2>5, <2>6 DEF Inv
<1>5. CASE UNCHANGED <<worker, bps, updateVars>>
  <2>1. TypeOK'
    BY <1>3, <1>5 DEF Inv, TypeOK, syncVars, updateVars
  <2> QED
    BY <1>3, <1>5, <2>1, MetricsUnchanged DEF Inv
<1> QED
  BY <1>4, <1>5 DEF BpsGet

\* The server goes down.
LEMMA GoDownInv ==
  ASSUME Inv, GoDown, UNCHANGED <<table, known>>
  PROVE  /\ server' = "down" /\ sync' = "dead"
         /\ sub' \in [SubIds -> Subs] /\ waiters' \in [SubIds -> Seq(Owners)]
         /\ spawned' \in [Owners -> SUBSET Metrics]
         /\ TableInv' /\ SpawnInv' /\ AwaitInv' /\ NoMetricAbandoned'
<1>1. ASSUME NEW i \in SubIds
      PROVE  /\ sub'[i] \in Subs /\ sub'[i].metric = sub[i].metric
             /\ sub[i].st # "none" => sub'[i].st # "none"
  <2>1. sub[i] \in Subs
    BY DEF Inv, TypeOK
  <2>2. sub'[i] = IF sub[i].st \in LiveSub
                  THEN [sub[i] EXCEPT !.st = "cancelled"] ELSE sub[i]
    BY DEF GoDown
  <2> QED
    BY <2>1, <2>2 DEF Subs, EndedSub
<1>2. sub' \in [SubIds -> Subs]
  <2>1. sub' = [i \in SubIds |-> sub'[i]]
    BY DEF GoDown
  <2> QED
    BY <1>1, <2>1
<1>3. /\ server' = "down" /\ sync' = "dead"
      /\ waiters' = [i \in SubIds |-> << >>] /\ spawned' = [o \in Owners |-> {}]
  BY DEF GoDown
<1>4. TableInv'
  BY <1>1 DEF Inv, TableInv
<1>5. SpawnInv' /\ AwaitInv' /\ NoMetricAbandoned'
  BY <1>3 DEF SpawnInv, AwaitInv, NoMetricAbandoned
<1> QED
  BY <1>2, <1>3, <1>4, <1>5

\* The worker of setmaxbps takes a request.
LEMMA MaxGetInv ==
  ASSUME Inv, MaxGet
  PROVE  Inv'
<1>1. Head(maxq) \in Int /\ Tail(maxq) \in Seq(BpsValues)
  BY HeadTailProperties, ConstantsAssumption DEF MaxGet, Inv, TypeOK
<1>2. /\ UNCHANGED <<listed, todo, expired, bpsq, requests, mode, known, bps, table, err>>
      /\ maxq' \in Seq(BpsValues) /\ max_bps' = Head(maxq) /\ max_bps' \in Int
  BY <1>1 DEF MaxGet
<1>3. CASE UNCHANGED <<server, sync, worker, sub, waiters, spawned, want>>
  <2>1. TypeOK'
    BY <1>2, <1>3 DEF Inv, TypeOK
  <2> QED
    BY <1>2, <1>3, <2>1, MetricsUnchanged DEF Inv, updateVars
<1>4. CASE GoDown /\ UNCHANGED <<worker, want>>
  <2>1. TypeOK'
    BY <1>2, <1>4, GoDownInv DEF Inv, TypeOK
  <2> QED
    BY <1>2, <1>4, <2>1, GoDownInv DEF Inv
<1>5. CASE /\ known # {}
           /\ worker' = [worker EXCEPT !["max"] = "busy"]
           /\ Redistribute("max", known, Head(maxq))
           /\ UNCHANGED <<server, sync, sub, waiters>>
  <2>1. known \in SUBSET Metrics /\ "max" \in Owners
    BY DEF Inv, TypeOK, Owners, Workers
  <2>2. /\ want' \in [Owners -> [Metrics -> Int]]
        /\ spawned' = [spawned EXCEPT !["max"] = known]
    BY <1>1, <1>5, <2>1, RedistributeType
  <2>3. /\ worker' \in [Workers -> {"idle", "busy"}]
        /\ spawned' \in [Owners -> SUBSET Metrics]
    BY <1>5, <2>1, <2>2 DEF Inv, TypeOK
  <2>4. TypeOK'
    BY <1>2, <1>5, <2>2, <2>3 DEF Inv, TypeOK
  <2>5. TableInv' /\ AwaitInv' /\ NoMetricAbandoned'
    BY <1>2, <1>5 DEF Inv, TableInv, AwaitInv, NoMetricAbandoned
  <2>6. SpawnInv'
    BY <1>2, <2>2 DEF Inv, TypeOK, SpawnInv
  <2> QED
    BY <2>4, <2>5, <2>6 DEF Inv
<1> QED
  BY <1>3, <1>4, <1>5 DEF MaxGet

\* A worker's call is over.
LEMMA WorkerDoneInv ==
  ASSUME Inv, NEW o \in Workers, WorkerDone(o)
  PROVE  Inv'
<1>1. /\ UNCHANGED <<listed, todo, expired, cliVars, metricVars, table, want, err>>
      /\ worker' \in [Workers -> {"idle", "busy"}]
  BY DEF WorkerDone, Inv, TypeOK
<1>2. CASE GoDown
  <2>1. TypeOK'
    BY <1>1, <1>2, GoDownInv DEF Inv, TypeOK, cliVars, metricVars
  <2> QED
    BY <1>1, <1>2, <2>1, GoDownInv DEF Inv, metricVars
<1>3. CASE UNCHANGED <<server, sync, sub, waiters, spawned>>
  <2>1. TypeOK'
    BY <1>1, <1>3 DEF Inv, TypeOK, cliVars, metricVars
  <2> QED
    BY <1>1, <1>3, <2>1, MetricsUnchanged DEF Inv, metricVars, updateVars
<1> QED
  BY <1>2, <1>3 DEF WorkerDone

-----------------------------------------------------------------------------
(* subscribe.                                                              *)

\* A subscription goes from one state to another that does not turn a
\* cancelled task into one that nobody has cancelled.
LEMMA SubMovesInv ==
  ASSUME Inv, NEW i \in SubIds, NEW st \in LiveSub \union EndedSub,
         sub' = [sub EXCEPT ![i].st = st],
         sub[i].st \in LiveSub,
         UNCHANGED <<server, syncVars, worker, cliVars, metricVars, table, waiters,
                     spawned, want, err>>
  PROVE  Inv'
<1>1. sub[i] \in Subs /\ sub[i].st \notin EndedSub /\ st # "none"
  BY DEF Inv, TypeOK, LiveSub, EndedSub
<1>2. /\ sub'[i] = [sub[i] EXCEPT !.st = st]
      /\ \A j \in SubIds : j # i => sub'[j] = sub[j]
  BY DEF Inv, TypeOK
<1>3. /\ sub'[i] \in Subs /\ sub'[i].metric = sub[i].metric
      /\ sub'[i].cancel = sub[i].cancel /\ sub'[i].st = st
  BY <1>1, <1>2 DEF Subs
<1>4. sub' \in [SubIds -> Subs]
  BY <1>3 DEF Inv, TypeOK
<1>5. TypeOK'
  BY <1>4 DEF Inv, TypeOK, syncVars, cliVars, metricVars
<1>6. known' = known
  BY DEF metricVars
<1>7. TableInv'
  BY <1>1, <1>2, <1>3, <1>6 DEF Inv, TableInv
<1>8. SpawnInv'
  BY <1>6 DEF Inv, SpawnInv
<1>9. AwaitInv'
  BY <1>1, <1>2, <1>3 DEF Inv, AwaitInv
<1>10. NoMetricAbandoned'
  <2> SUFFICES ASSUME server = "up", NEW m \in known,
                      sub'[table[m]].cancel, sub'[table[m]].st # "failed"
               PROVE  waiters[table[m]] # << >>
    BY <1>6 DEF NoMetricAbandoned
  <2>1. table[m] \in SubIds
    BY DEF Inv, TableInv
  <2>2. sub[table[m]].cancel /\ sub[table[m]].st # "failed"
    BY <1>1, <1>2, <1>3, <2>1 DEF EndedSub
  <2> QED
    BY <2>2 DEF Inv, NoMetricAbandoned
<1> QED
  BY <1>5, <1>7, <1>8, <1>9, <1>10 DEF Inv

\* The steps of a subscription.
LEMMA SubInv ==
  ASSUME Inv, NEW i \in SubIds,
         SubConnect(i) \/ SubEof(i) \/ SubBreaks(i) \/ SubCancelled(i)
  PROVE  Inv'
<1>1. /\ sub[i].st \in LiveSub
      /\ UNCHANGED <<server, syncVars, worker, cliVars, metricVars, table, waiters,
                     spawned, want, err>>
      /\ \E st \in LiveSub \union EndedSub : sub' = [sub EXCEPT ![i].st = st]
  BY DEF SubConnect, SubEof, SubBreaks, SubGoes, SubCancelled, LiveSub, EndedSub
<1> QED
  BY <1>1, SubMovesInv

-----------------------------------------------------------------------------
(* Theorems.                                                               *)

\* The invariant holds initially.
LEMMA InitInv == Init => Inv
<1> SUFFICES ASSUME Init PROVE Inv
  OBVIOUS
<1>1. TypeOK
  <2>1. /\ sub \in [SubIds -> Subs] /\ bps \in [Metrics -> Int]
        /\ want \in [Owners -> [Metrics -> Int]]
    BY TaskType DEF Init
  <2>2. /\ bpsq \in Seq(Metrics \X BpsValues) /\ maxq \in Seq(BpsValues)
        /\ waiters \in [SubIds -> Seq(Owners)] /\ spawned \in [Owners -> SUBSET Metrics]
    BY EmptySeq DEF Init
  <2>3. /\ worker \in [Workers -> {"idle", "busy"}] /\ err \in [Owners -> BOOLEAN]
        /\ table \in [Metrics -> SubIds \union {NoTask}]
    BY DEF Init
  <2> QED
    BY <2>1, <2>2, <2>3, ConstantsAssumption DEF Init, TypeOK
<1>2. TableInv /\ SpawnInv /\ AwaitInv /\ NoMetricAbandoned
  BY DEF Init, TableInv, SpawnInv, AwaitInv, NoMetricAbandoned
<1> QED
  BY <1>1, <1>2 DEF Inv

\* Every step preserves the invariant.
LEMMA NextInv == Inv /\ [Next]_vars => Inv'
<1> SUFFICES ASSUME Inv, [Next]_vars PROVE Inv'
  OBVIOUS
<1>1. CASE UNCHANGED vars
  <2>1. TypeOK'
    BY <1>1 DEF vars, Inv, TypeOK, syncVars, cliVars, metricVars, updateVars
  <2> QED
    BY <1>1, <2>1, MetricsUnchanged DEF vars, Inv, metricVars
<1>2. CASE SyncConnect \/ SyncBreaks \/ SyncIdle \/ SyncSleepOver \/ SyncExpires
  BY <1>2, SyncInv
<1>3. CASE SyncAdded
  BY <1>3, SyncAddedInv
<1>4. ASSUME NEW ids \in SUBSET Metrics, SyncListed(ids) PROVE Inv'
  BY <1>4, SyncListedInv
<1>5. ASSUME NEW m \in Metrics, NEW b \in BpsValues, CliSetBps(m, b) PROVE Inv'
  BY <1>5, CliBpsInv
<1>6. ASSUME NEW b \in BpsValues, CliSetMaxBps(b) PROVE Inv'
  BY <1>6, CliMaxInv
<1>7. CASE BpsGet
  BY <1>7, BpsGetInv
<1>8. CASE MaxGet
  BY <1>8, MaxGetInv
<1>9. ASSUME NEW o \in Workers, WorkerDone(o) PROVE Inv'
  BY <1>9, WorkerDoneInv
<1>10. ASSUME NEW o \in Owners, ChildrenStart(o) PROVE Inv'
  BY <1>10, ChildrenStartInv
<1>11. ASSUME NEW i \in SubIds, Resume(i) PROVE Inv'
  BY <1>11, ResumeInv
<1>12. ASSUME NEW i \in SubIds,
              SubConnect(i) \/ SubEof(i) \/ SubBreaks(i) \/ SubCancelled(i)
       PROVE  Inv'
  BY <1>12, SubInv
<1> QED
  BY <1>1, <1>2, <1>3, <1>4, <1>5, <1>6, <1>7, <1>8, <1>9, <1>10, <1>11, <1>12
  DEF Next

\* The inductive invariant of the ground side.
THEOREM Invariance == Spec => []Inv
BY InitInv, NextInv, PTL DEF Spec

\* The state of MetricSubscribeHandler, the workers and the subscriptions is
\* always well-formed.
THEOREM TypeCorrect == Spec => []TypeOK
<1>1. Inv => TypeOK
  BY DEF Inv
<1> QED
  BY <1>1, Invariance, PTL

\* However the calls of update_bps overlap, time out and fail, a subscription
\* of the table that was cancelled is awaited by a call that will replace it.
THEOREM MetricsKeepSubscriptions == Spec => []NoMetricAbandoned
<1>1. Inv => NoMetricAbandoned
  BY DEF Inv
<1> QED
  BY <1>1, Invariance, PTL

=============================================================================
