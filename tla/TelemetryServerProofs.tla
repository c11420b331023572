------------------------ MODULE TelemetryServerProofs ------------------------
(***************************************************************************)
(* Proofs about TelemetryServer, for any metrics, subscriptions and pages. *)
(***************************************************************************)
EXTENDS TelemetryServer, SequenceTheorems, BoundedSets, TLAPS

-----------------------------------------------------------------------------
(* The inductive invariant.                                                *)

\* The tasks of add_sample are there while the subscription is in it; they start
\* together, and the sends between them.  A child is cancelled for a reason that
\* stays.
TasksOf(f) ==
  /\ feed[f] = "adding" <=> notify[f] # "none"
  /\ notify[f] = "none" <=> store[f] = "none"
  /\ notify[f] = "starting" <=> store[f] = "starting"
  /\ store[f] = "cancelled" => cancel[f] \/ notify[f] = "failed"
  /\ \A w \in Sockets :
       /\ notify[f] \in {"none", "starting"} => sends[f][w] = "none"
       /\ notify[f] = "fanned" => sends[f][w] \in {"none", "starting"}
       /\ notify[f] \notin {"none", "starting", "fanned"} => sends[f][w] # "starting"

TaskInv == \A f \in Feeds : TasksOf(f)

\* The samples a subscription has handed on are numbered from 1.
SampleInv ==
  \A f \in Feeds : cur[f] <= MaxSamples /\ (feed[f] = "adding" => cur[f] > 0)

\* What is left of a former run is among the keys to be deleted.
ClearInv ==
  \A m \in Metrics : <<m, 0>> \in hist =>
    run \in {"start", "failed"} \/ (run = "clearing" /\ m \in doomed)

\* A sample is in the history when the answer to its ZADD has come, which was sent
\* after the history was cleared.
StoredOf(f) ==
  begun[f] =>
    /\ run = "serving" /\ feed[f] \in LiveFeed
    /\ feed[f] = "streaming" \/ store[f] = "done" => <<metric[f], cur[f]>> \in hist

StoredInv == \A f \in Feeds : StoredOf(f)

\* A metric that was not raced has one subscription at a time.
OneFeedInv ==
  \A f, g \in Feeds :
    feed[f] \in LiveFeed /\ feed[g] \in LiveFeed /\ metric[f] = metric[g] /\ f # g
      => metric[f] \in raced

\* ... and no socket was sent a sample behind those that it may send.
FreshInv ==
  \A f \in Feeds, w \in Sockets :
    feed[f] \in LiveFeed /\ metric[f] \notin raced
      => \/ got[w][metric[f]] <= cur[f]
         \/ feed[f] = "streaming" /\ got[w][metric[f]] <= from[f]

\* Whatever a socket was sent is not newer than what some subscription handed on.
SourceInv ==
  \A w \in Sockets, m \in Metrics :
    got[w][m] = 0 \/ \E f \in Feeds : metric[f] = m /\ feed[f] # "none" /\ got[w][m] <= cur[f]

\* The sends that have started have been written, or their socket is closed.
SentInv ==
  \A f \in Feeds, w \in Sockets :
    notify[f] \notin {"none", "starting", "fanned"} /\ sends[f][w] # "none" /\ metric[f] \notin raced
      => conn[w] = "closed" \/ got[w][metric[f]] >= cur[f]

\* m is in the entry of a socket once s is received, if S is the entry before.
Finally(m, S, s) ==
  \/ m \in S /\ \A k \in 1 .. Len(s) : s[k].id # m
  \/ \E k \in 1 .. Len(s) : /\ s[k].type = "subscribe" /\ s[k].id = m
                            /\ \A l \in k + 1 .. Len(s) : s[l].id # m

\* The requests of the plugin.
Requests == [type : {"subscribe", "unsubscribe"}, id : Metrics]

\* The entry of a page with the plugin will be what its views listen to, when
\* all that it has sent is received.
PageOf(w) ==
  /\ up[w] \in Seq(Requests)
  /\ ep[w] = "accepting" => conn[w] # "open"
  /\ conn[w] \in {"none", "connecting"} =>
       up[w] = << >> /\ ids[w] = {} /\ \A m \in Metrics : views[w][m] = 0
  /\ conn[w] = "open" =>
       \A m \in Metrics \ spoiled[w] : Finally(m, ids[w], up[w]) <=> views[w][m] > 0

PageInv == \A w \in Plugins : PageOf(w)

Inv ==
  /\ TypeOK /\ TaskInv /\ SampleInv /\ ClearInv /\ StoredInv /\ OneFeedInv
  /\ FreshInv /\ SourceInv /\ SentInv /\ PageInv

-----------------------------------------------------------------------------
(* The steps.                                                              *)

Clearing == KeysFound \/ KeysDeleted \/ ClearFails

FeedSteps(f) ==
  \/ FeedStarts(f) \/ FeedCancelled(f) \/ AddingSteps(f)
  \/ \E v \in 1 .. MaxSamples : AddSample(f, v)
  \/ \E w \in Sockets : SendDrained(f, w)

SocketSteps(w) ==
  \/ Opens(w) \/ EndpointSteps(w)
  \/ \E lost \in BOOLEAN : Closes(w, lost)
  \/ \E msg \in Messages : TypedMessage(w, msg)
  \/ \E m \in Metrics : ViewSubscribes(w, m) \/ ViewSubscribesEarly(w, m) \/ ViewUnsubscribes(w, m)

LEMMA Steps ==
  ASSUME [Next]_vars
  PROVE  \/ Clearing \/ UNCHANGED vars
         \/ \E f \in Feeds : FeedSteps(f)
         \/ \E w \in Sockets : SocketSteps(w)
BY DEF Next, Clearing, FeedSteps, SocketSteps

\* What the steps of one part leave to the others.
LEMMA ClearingLeaves ==
  ASSUME Clearing
  PROVE  UNCHANGED <<feedVars, taskVars, sockVars, pageVars>>
BY DEF Clearing, KeysFound, KeysDeleted, ClearFails

LEMMA FeedLeaves ==
  ASSUME NEW f \in Feeds, FeedSteps(f)
  PROVE  UNCHANGED <<run, doomed, metric, conn, up, sent, ep, active, ids, pageVars>>
BY DEF FeedSteps, AddingSteps, FeedStarts, FeedCancelled, FeedGoes, AddSample, ChildrenStart, SendsAborted,
       NotifyEnds, NotifyAborted, SampleStored, StoreFails, AddSampleEnds, SendsStart, SendTo,
       StoreAborted, SendDrained, SendDrainFails, histVars, feedVars, taskVars, sockVars, pageVars

LEMMA SocketLeaves ==
  ASSUME NEW w \in Sockets, SocketSteps(w)
  PROVE  UNCHANGED <<histVars, feedVars, taskVars, got, refused>>
BY DEF SocketSteps, EndpointSteps, Opens, Accept, Receive, Disconnected, Closes, TypedMessage, PageSends,
       ViewSubscribes, ViewSubscribesEarly, ViewUnsubscribes, sockVars

\* A connection that is closed stays so.
LEMMA ClosedStays ==
  ASSUME TypeOK, NEW w \in Sockets, SocketSteps(w), NEW x \in Sockets, conn[x] = "closed"
  PROVE  conn'[x] = "closed"
BY DEF TypeOK, SocketSteps, EndpointSteps, Opens, Accept, Receive, Disconnected, Closes, TypedMessage,
       PageSends, ViewSubscribes, ViewSubscribesEarly, ViewUnsubscribes, sockVars

\* The newest sample: the greatest that a subscription of the metric handed on.
LEMMA NewestFacts ==
  ASSUME TypeOK, SampleInv, NEW m
  PROVE  /\ NewestOf(m) \in 0 .. MaxSamples
         /\ \A f \in Feeds : metric[f] = m /\ feed[f] # "none" => cur[f] <= NewestOf(m)
<1> DEFINE F == FeedsOf(m, {"ended"} \union LiveFeed)
           S == {cur[f] : f \in F} \union {0}
<1>1. S \in SUBSET Nat /\ S # {} /\ MaxSamples \in Nat /\ \A s \in S : s <= MaxSamples
  BY ConstantsAssumption DEF FeedsOf, TypeOK, SampleInv
<1>2. PICK v \in S : \A t \in S : t <= v
  BY <1>1, GreatestElement
<1>3. /\ v \in 0 .. MaxSamples /\ \A f \in F : cur[f] <= v
      /\ v = 0 \/ \E f \in F : cur[f] = v
  BY <1>1, <1>2
<1>4. NewestOf(m) \in 0 .. MaxSamples /\ \A f \in F : cur[f] <= NewestOf(m)
  BY <1>3 DEF NewestOf
<1>5. \A f \in Feeds : metric[f] = m /\ feed[f] # "none" => f \in F
  BY DEF FeedsOf, TypeOK
<1> QED BY <1>4, <1>5

-----------------------------------------------------------------------------
(* The types.                                                              *)

LEMMA FeedTypes ==
  ASSUME Inv, NEW f \in Feeds, FeedSteps(f)
  PROVE  TypeOK'
<1> USE DEF Inv, TypeOK, histVars, feedVars, taskVars, sockVars, pageVars
<1>1. CASE FeedStarts(f)
  <2>1. NewestOf(metric[f]) \in Nat
    BY NewestFacts, ConstantsAssumption
  <2> QED BY <1>1, <2>1 DEF FeedStarts, LiveFeed
<1>2. ASSUME NEW st \in {"ended", "streaming"}, FeedGoes(f, st) PROVE TypeOK'
  BY <1>2 DEF FeedGoes, LiveFeed
<1>3. CASE FeedCancelled(f)
  BY <1>2, <1>3 DEF FeedCancelled
<1>4. CASE AddSampleEnds(f)
  BY <1>2, <1>4 DEF AddSampleEnds
<1>5. ASSUME NEW v \in 1 .. MaxSamples, AddSample(f, v) PROVE TypeOK'
  BY <1>5, ConstantsAssumption DEF AddSample, LiveFeed
<1>6. CASE ChildrenStart(f)
  BY <1>6 DEF ChildrenStart
<1>7. CASE SendsAborted(f) \/ NotifyAborted(f)
  <2>1. CancelledSends(f) \in [Sockets -> {"none", "starting", "draining"} \union Over]
    BY DEF CancelledSends, Over
  <2> QED BY <1>7, <2>1, ZenonT(30) DEF SendsAborted, NotifyAborted, Over
<1>8. CASE NotifyEnds(f)
  BY <1>8 DEF NotifyEnds, Over
<1>9. CASE SampleStored(f)
  BY <1>9 DEF SampleStored, Over
<1>10. CASE StoreFails(f)
  BY <1>10 DEF StoreFails, Over
<1>11. ASSUME NEW added \in BOOLEAN, StoreAborted(f, added) PROVE TypeOK'
  BY <1>11 DEF StoreAborted, Over
<1>12. ASSUME NEW w \in Sockets, SendDrained(f, w) \/ SendDrainFails(f, w) PROVE TypeOK'
  <2>1. CASE SendDrained(f, w)
    BY <2>1 DEF SendDrained, Over
  <2>2. CASE SendDrainFails(f, w)
    BY <2>2 DEF SendDrainFails, Over
  <2> QED BY <1>12, <2>1, <2>2
<1>13. ASSUME NEW slow \in SUBSET Sockets, SendsStart(f, slow) PROVE TypeOK'
  BY <1>13 DEF SendsStart, SendTo, Over
<1> QED BY <1>1, <1>3, <1>4, <1>5, <1>6, <1>7, <1>8, <1>9, <1>10, <1>11, <1>12, <1>13
        DEF FeedSteps, AddingSteps

LEMMA SocketTypes ==
  ASSUME Inv, NEW w \in Sockets, SocketSteps(w)
  PROVE  TypeOK'
<1> USE DEF Inv, TypeOK, histVars, feedVars, taskVars, sockVars, pageVars
<1>1. CASE Opens(w)
  BY <1>1 DEF Opens
<1>2. CASE Accept(w)
  BY <1>2 DEF Accept
<1>3. CASE Receive(w)
  <2>1. Head(up[w]) \in Messages /\ Tail(up[w]) \in Seq(Messages)
    BY <1>3 DEF Receive
  <2>2. Requested(ids[w], Head(up[w])) \in SUBSET Metrics
    BY <2>1 DEF Requested, Messages
  <2> QED BY <1>3, <2>1, <2>2 DEF Receive
<1>4. CASE Disconnected(w)
  BY <1>4 DEF Disconnected
<1>5. ASSUME NEW lost \in BOOLEAN, Closes(w, lost) PROVE TypeOK'
  BY <1>5 DEF Closes
<1>6. ASSUME NEW msg \in Messages, PageSends(w, msg)
      PROVE  up' \in [Sockets -> Seq(Messages)] /\ sent' \in [Sockets -> Nat]
  <2>1. Append(up[w], msg) \in Seq(Messages)
    BY AppendProperties
  <2> QED BY <1>6, <2>1 DEF PageSends
<1>7. ASSUME NEW msg \in Messages, TypedMessage(w, msg) PROVE TypeOK'
  BY <1>6, <1>7 DEF TypedMessage, PageSends
<1>8. ASSUME NEW m \in Metrics, ViewSubscribes(w, m) PROVE TypeOK'
  <2>1. [type |-> "subscribe", id |-> m] \in Messages
    BY DEF Messages
  <2>2. views' \in [Sockets -> [Metrics -> Nat]]
    BY <1>8 DEF ViewSubscribes
  <2> QED BY <1>6, <1>8, <2>1, <2>2 DEF ViewSubscribes, PageSends
<1>9. ASSUME NEW m \in Metrics, ViewSubscribesEarly(w, m) PROVE TypeOK'
  BY <1>9 DEF ViewSubscribesEarly
<1>10. ASSUME NEW m \in Metrics, ViewUnsubscribes(w, m) PROVE TypeOK'
  <2>1. [type |-> "unsubscribe", id |-> m] \in Messages
    BY DEF Messages
  <2>2. views' \in [Sockets -> [Metrics -> Nat]] /\ spoiled' \in [Sockets -> SUBSET Metrics]
    BY <1>10 DEF ViewUnsubscribes
  <2> QED BY <1>6, <1>10, <2>1, <2>2 DEF ViewUnsubscribes, PageSends
<1> QED BY <1>1, <1>2, <1>3, <1>4, <1>5, <1>7, <1>8, <1>9, <1>10 DEF SocketSteps, EndpointSteps

LEMMA TypeStep ==
  ASSUME Inv, [Next]_vars
  PROVE  TypeOK'
<1> USE DEF Inv, TypeOK, histVars, feedVars, taskVars, sockVars, pageVars
<1>1. CASE Clearing
  BY <1>1 DEF Clearing, KeysFound, KeysDeleted, ClearFails
<1>2. CASE UNCHANGED vars
  BY <1>2 DEF vars
<1> QED BY <1>1, <1>2, FeedTypes, SocketTypes, Steps

-----------------------------------------------------------------------------
(* The parts of the invariant.                                             *)

LEMMA InitInv == Init => Inv
<1> SUFFICES ASSUME Init PROVE Inv
  OBVIOUS
<1> USE DEF Init
<1>1. TypeOK
  BY DEF TypeOK
<1>2. /\ TaskInv /\ SampleInv /\ ClearInv /\ StoredInv /\ OneFeedInv
      /\ FreshInv /\ SourceInv /\ SentInv
  BY <1>1, ConstantsAssumption DEF TypeOK, TaskInv, TasksOf, SampleInv, ClearInv, StoredInv, StoredOf,
       OneFeedInv, FreshInv, LiveFeed, SourceInv, SentInv
<1>3. PageInv
  BY DEF PageInv, PageOf, Sockets
<1> QED BY <1>1, <1>2, <1>3 DEF Inv

\* The tasks of another subscription are left alone.
LEMMA OwnTasks ==
  ASSUME Inv, NEW f \in Feeds, FeedSteps(f), NEW g \in Feeds, g # f
  PROVE  /\ feed'[g] = feed[g] /\ from'[g] = from[g] /\ cur'[g] = cur[g] /\ cancel'[g] = cancel[g]
         /\ begun'[g] = begun[g] /\ notify'[g] = notify[g] /\ sends'[g] = sends[g]
         /\ store'[g] = store[g]
BY DEF Inv, TypeOK, FeedSteps, AddingSteps, FeedStarts, FeedCancelled, FeedGoes, AddSample, ChildrenStart,
       SendsAborted, NotifyEnds, NotifyAborted, SampleStored, StoreFails, AddSampleEnds, SendsStart,
       SendTo, StoreAborted, SendDrained, SendDrainFails, feedVars, taskVars

LEMMA OwnTaskStep ==
  ASSUME Inv, NEW f \in Feeds, FeedSteps(f)
  PROVE  TasksOf(f)'
<1>0. TasksOf(f) /\ TypeOK
  BY DEF Inv, TaskInv
<1> USE <1>0 DEF TypeOK, TasksOf
<1>1. CASE FeedStarts(f)
  BY <1>1 DEF FeedStarts, taskVars
<1>2. ASSUME NEW st \in {"ended", "streaming"}, FeedGoes(f, st) PROVE TasksOf(f)'
  BY <1>2 DEF FeedGoes
<1>3. CASE FeedCancelled(f)
  BY <1>2, <1>3 DEF FeedCancelled, taskVars
<1>4. CASE AddSampleEnds(f)
  BY <1>2, <1>4 DEF AddSampleEnds
<1>5. ASSUME NEW v \in 1 .. MaxSamples, AddSample(f, v) PROVE TasksOf(f)'
  BY <1>5 DEF AddSample
<1>6. CASE ChildrenStart(f)
  BY <1>6 DEF ChildrenStart
<1>7. CASE SendsAborted(f) \/ NotifyAborted(f)
  BY <1>7 DEF SendsAborted, NotifyAborted, CancelledSends, feedVars
<1>8. CASE NotifyEnds(f)
  BY <1>8 DEF NotifyEnds, feedVars
<1>9. CASE SampleStored(f) \/ StoreFails(f)
  BY <1>9 DEF SampleStored, StoreFails, feedVars
<1>11. ASSUME NEW added \in BOOLEAN, StoreAborted(f, added) PROVE TasksOf(f)'
  BY <1>11 DEF StoreAborted, Aborting, feedVars
<1>12. ASSUME NEW w \in Sockets, SendDrained(f, w) \/ SendDrainFails(f, w) PROVE TasksOf(f)'
  BY <1>12 DEF SendDrained, SendDrainFails, feedVars
<1>13. ASSUME NEW slow \in SUBSET Sockets, SendsStart(f, slow) PROVE TasksOf(f)'
  BY <1>13 DEF SendsStart, SendTo, feedVars
<1> QED BY <1>1, <1>3, <1>4, <1>5, <1>6, <1>7, <1>8, <1>9, <1>11, <1>12, <1>13
        DEF FeedSteps, AddingSteps

LEMMA TaskStep ==
  ASSUME Inv, [Next]_vars
  PROVE  TaskInv'
<1>1. CASE UNCHANGED <<feedVars, taskVars>>
  BY <1>1 DEF Inv, TaskInv, TasksOf, feedVars, taskVars
<1>2. ASSUME NEW f \in Feeds, FeedSteps(f) PROVE TaskInv'
  <2>1. ASSUME NEW g \in Feeds PROVE TasksOf(g)'
    <3>1. CASE g = f
      BY <1>2, <3>1, OwnTaskStep
    <3>2. CASE g # f
      <4>1. TasksOf(g)
        BY DEF Inv, TaskInv
      <4> QED BY <1>2, <3>2, <4>1, OwnTasks DEF TasksOf
    <3> QED BY <3>1, <3>2
  <2> QED BY <2>1 DEF TaskInv
<1> QED BY <1>1, <1>2, Steps, ClearingLeaves, SocketLeaves DEF vars

LEMMA SampleStep ==
  ASSUME Inv, [Next]_vars
  PROVE  SampleInv'
<1>1. CASE UNCHANGED <<feedVars, taskVars>>
  BY <1>1 DEF Inv, SampleInv, feedVars, taskVars
<1>2. ASSUME NEW f \in Feeds, FeedSteps(f) PROVE SampleInv'
  <2>1. ASSUME NEW g \in Feeds PROVE cur'[g] <= MaxSamples /\ (feed'[g] = "adding" => cur'[g] > 0)
    <3>1. CASE g # f
      BY <1>2, <3>1, OwnTasks DEF Inv, SampleInv
    <3>2. CASE UNCHANGED <<feed, cur>>
      BY <3>2 DEF Inv, SampleInv
    <3>3. CASE UNCHANGED cur /\ feed'[f] # "adding" /\ g = f
      BY <3>3 DEF Inv, SampleInv
    <3>4. ASSUME NEW v \in 1 .. MaxSamples, AddSample(f, v), g = f
          PROVE cur'[g] <= MaxSamples /\ cur'[g] > 0
      BY <3>4, ConstantsAssumption DEF AddSample, Inv, TypeOK
    <3>5. \/ UNCHANGED <<feed, cur>>
          \/ UNCHANGED cur /\ feed'[f] # "adding"
          \/ \E v \in 1 .. MaxSamples : AddSample(f, v)
      BY <1>2 DEF Inv, TypeOK, FeedSteps, AddingSteps, FeedStarts, FeedCancelled, FeedGoes, ChildrenStart,
           SendsAborted, NotifyEnds, NotifyAborted, SampleStored, StoreFails, AddSampleEnds, SendsStart,
           SendTo, StoreAborted, SendDrained, SendDrainFails, feedVars, taskVars
    <3> QED BY <3>1, <3>2, <3>3, <3>4, <3>5
  <2> QED BY <2>1 DEF SampleInv
<1> QED BY <1>1, <1>2, Steps, ClearingLeaves, SocketLeaves DEF vars

\* What a subscription's step does to the history: ZADD of its sample, or nothing.
LEMMA HistorySteps ==
  ASSUME Inv, NEW f \in Feeds, FeedSteps(f)
  PROVE  \/ hist' = hist
         \/ /\ store[f] = "asked" /\ hist' = hist \union {<<metric[f], cur[f]>>}
            /\ UNCHANGED <<feedVars, notify>>
BY DEF FeedSteps, AddingSteps, FeedStarts, FeedCancelled, FeedGoes, AddSample, ChildrenStart,
       SendsAborted, NotifyEnds, NotifyAborted, SampleStored, StoreFails, AddSampleEnds, SendsStart,
       SendTo, StoreAborted, SendDrained, SendDrainFails, histVars

\* A sample of number 0 is never added.
LEMMA ClearStep ==
  ASSUME Inv, [Next]_vars
  PROVE  ClearInv'
<1> USE DEF Inv, ClearInv
<1>1. CASE UNCHANGED histVars
  BY <1>1 DEF histVars
<1>2. CASE KeysFound
  <2>1. 0 \in 0 .. MaxSamples
    BY ConstantsAssumption
  <2> QED BY <1>2, <2>1 DEF KeysFound
<1>3. CASE KeysDeleted
  BY <1>3 DEF KeysDeleted
<1>4. CASE ClearFails
  BY <1>4 DEF ClearFails
<1>5. ASSUME NEW f \in Feeds, FeedSteps(f) PROVE ClearInv'
  <2>1. UNCHANGED <<run, doomed>>
    BY <1>5, FeedLeaves
  <2>2. store[f] = "asked" => cur[f] # 0
    <3>1. TasksOf(f) /\ cur[f] \in Nat
      BY DEF TaskInv, TypeOK
    <3>2. feed[f] = "adding" => cur[f] > 0
      BY DEF SampleInv
    <3> QED BY <3>1, <3>2 DEF TasksOf
  <2>3. \A m \in Metrics : <<m, 0>> \in hist' => <<m, 0>> \in hist
    BY <1>5, <2>2, HistorySteps
  <2> QED BY <2>1, <2>3
<1> QED BY <1>1, <1>2, <1>3, <1>4, <1>5, Steps, SocketLeaves DEF vars, Clearing

LEMMA OwnStoredStep ==
  ASSUME Inv, NEW f \in Feeds, FeedSteps(f)
  PROVE  StoredOf(f)'
<1>0. StoredOf(f) /\ TasksOf(f) /\ TypeOK /\ run' = run /\ metric' = metric
  BY FeedLeaves DEF Inv, TaskInv, StoredInv
<1> USE <1>0 DEF TypeOK, TasksOf, StoredOf, LiveFeed
<1>1. CASE FeedStarts(f)
  BY <1>1 DEF FeedStarts, taskVars, histVars
<1>2. CASE FeedGoes(f, "ended")
  BY <1>2 DEF FeedGoes
<1>3. CASE FeedCancelled(f)
  BY <1>2, <1>3 DEF FeedCancelled, histVars, taskVars
<1>4. CASE AddSampleEnds(f)
  <2>1. CASE Aborting(f)
    BY <1>2, <1>4, <2>1 DEF AddSampleEnds
  <2>2. CASE ~Aborting(f)
    <3>1. store[f] = "done"
      BY <1>4, <2>2 DEF AddSampleEnds, Aborting, Over
    <3>2. FeedGoes(f, "streaming")
      BY <1>4, <2>2 DEF AddSampleEnds
    <3> QED BY <3>1, <3>2 DEF FeedGoes, histVars
  <2> QED BY <2>1, <2>2
<1>5. ASSUME NEW v \in 1 .. MaxSamples, AddSample(f, v) PROVE StoredOf(f)'
  BY <1>5 DEF AddSample, histVars
<1>6. CASE ChildrenStart(f)
  BY <1>6 DEF ChildrenStart, histVars
<1>7. CASE UNCHANGED <<hist, store, feedVars>>
  BY <1>7 DEF feedVars
<1>9. CASE SampleStored(f)
  BY <1>9 DEF SampleStored, feedVars
<1>10. CASE StoreFails(f)
  BY <1>10 DEF StoreFails, feedVars, histVars
<1>11. ASSUME NEW added \in BOOLEAN, StoreAborted(f, added) PROVE StoredOf(f)'
  BY <1>11 DEF StoreAborted, feedVars
<1>12. CASE SendsAborted(f) \/ NotifyEnds(f) \/ NotifyAborted(f)
              \/ (\E slow \in SUBSET Sockets : SendsStart(f, slow))
              \/ \E w \in Sockets : SendDrained(f, w) \/ SendDrainFails(f, w)
  BY <1>7, <1>12 DEF SendsAborted, NotifyEnds, NotifyAborted, SendsStart, SendTo, SendDrained,
                     SendDrainFails, histVars
<1> QED BY <1>1, <1>3, <1>4, <1>5, <1>6, <1>9, <1>10, <1>11, <1>12
        DEF FeedSteps, AddingSteps

LEMMA StoredStep ==
  ASSUME Inv, [Next]_vars
  PROVE  StoredInv'
<1> SUFFICES ASSUME NEW g \in Feeds PROVE StoredOf(g)'
  BY DEF StoredInv
<1>0. StoredOf(g)
  BY DEF Inv, StoredInv
<1>1. CASE UNCHANGED <<histVars, feedVars, taskVars>>
  BY <1>0, <1>1 DEF StoredOf, histVars, feedVars, taskVars
<1>2. CASE Clearing
  <2>1. run \in {"start", "clearing"} /\ begun'[g] = begun[g]
    BY <1>2, ClearingLeaves DEF Clearing, KeysFound, KeysDeleted, ClearFails, feedVars
  <2> QED BY <1>0, <2>1 DEF StoredOf
<1>3. ASSUME NEW f \in Feeds, FeedSteps(f) PROVE StoredOf(g)'
  <2>1. CASE g = f
    BY <1>3, <2>1, OwnStoredStep
  <2>2. CASE g # f
    <3>1. hist \subseteq hist'
      BY <1>3, HistorySteps
    <3> QED BY <1>0, <1>3, <2>2, <3>1, FeedLeaves, OwnTasks DEF StoredOf
  <2> QED BY <2>1, <2>2
<1> QED BY <1>1, <1>2, <1>3, Steps, SocketLeaves DEF vars

\* What a step does to the progress of a subscription,
LEMMA FeedMoves ==
  ASSUME Inv, NEW f \in Feeds, FeedSteps(f)
  PROVE  \/ UNCHANGED <<feed, from, cur, raced>>
         \/ FeedStarts(f)
         \/ feed[f] \in LiveFeed /\ FeedGoes(f, "ended")
         \/ feed[f] = "adding" /\ FeedGoes(f, "streaming")
         \/ \E v \in 1 .. MaxSamples : AddSample(f, v)
BY DEF FeedSteps, AddingSteps, FeedCancelled, ChildrenStart, SendsAborted, NotifyEnds, NotifyAborted,
       SampleStored, StoreFails, AddSampleEnds, LiveFeed, SendsStart, SendTo, StoreAborted,
       SendDrained, SendDrainFails, feedVars

\* ... and to what the sockets were sent.
LEMMA GotMoves ==
  ASSUME Inv, NEW f \in Feeds, FeedSteps(f)
  PROVE  UNCHANGED got \/ \E slow \in SUBSET Sockets : SendsStart(f, slow)
BY DEF FeedSteps, AddingSteps, FeedStarts, FeedCancelled, FeedGoes, AddSample, ChildrenStart, SendsAborted,
       NotifyEnds, NotifyAborted, SampleStored, StoreFails, AddSampleEnds, StoreAborted,
       SendDrained, SendDrainFails, sockVars

\* The sends write cur[f].
LEMMA SendFacts ==
  ASSUME Inv, NEW f \in Feeds, NEW slow \in SUBSET Sockets, SendsStart(f, slow)
  PROVE  /\ UNCHANGED <<feedVars, conn>> /\ feed[f] = "adding"
         /\ notify[f] = "fanned" /\ notify'[f] = "waiting"
         /\ \A w \in Sockets :
              /\ \A m \in Metrics : got'[w][m] = got[w][m] \/ (m = metric[f] /\ got'[w][m] = cur[f])
              /\ sends'[f][w] # "none" => conn[w] = "closed" \/ got'[w][metric[f]] = cur[f]
<1> USE DEF Inv, TypeOK
<1>0. TasksOf(f)
  BY DEF TaskInv
<1>1. /\ UNCHANGED <<feedVars, conn>> /\ feed[f] = "adding"
      /\ notify[f] = "fanned" /\ notify'[f] = "waiting"
  BY <1>0 DEF SendsStart, SendTo, TasksOf
<1>2. ASSUME NEW w \in Sockets, NEW m \in Metrics
      PROVE  got'[w][m] = got[w][m] \/ (m = metric[f] /\ got'[w][m] = cur[f])
  BY DEF SendsStart, SendTo
<1>3. ASSUME NEW w \in Sockets, sends'[f][w] # "none"
      PROVE  conn[w] = "closed" \/ got'[w][metric[f]] = cur[f]
  <2>1. sends[f][w] \in {"none", "starting"}
    BY <1>0, <1>1 DEF TasksOf
  <2>2. CASE sends[f][w] = "none"
    BY <1>3, <2>2 DEF SendsStart, SendTo
  <2>3. CASE sends[f][w] = "starting" /\ conn[w] # "closed"
    BY <2>3 DEF SendsStart, SendTo
  <2> QED BY <2>1, <2>2, <2>3
<1> QED BY <1>1, <1>2, <1>3

LEMMA OneFeedStep ==
  ASSUME Inv, [Next]_vars
  PROVE  OneFeedInv'
<1> USE DEF Inv, OneFeedInv
<1>1. CASE UNCHANGED <<feed, metric, raced>>
  BY <1>1
<1>2. ASSUME NEW f \in Feeds, FeedSteps(f) PROVE OneFeedInv'
  <2>1. UNCHANGED metric
    BY <1>2, FeedLeaves
  <2>2. CASE FeedStarts(f)
    <3> SUFFICES ASSUME NEW g \in Feeds, NEW h \in Feeds, feed'[g] \in LiveFeed, feed'[h] \in LiveFeed,
                        metric[g] = metric[h], g # h
                 PROVE  metric[g] \in raced'
      BY <2>1
    <3>1. raced \subseteq raced' /\ \A x \in Feeds : x # f => feed'[x] = feed[x]
      BY <2>2 DEF FeedStarts, TypeOK
    <3>2. CASE g # f /\ h # f
      BY <3>1, <3>2
    <3>3. CASE g = f \/ h = f
      <4>1. FeedsOf(metric[f], LiveFeed) # {}
        BY <3>1, <3>3 DEF FeedsOf
      <4> QED BY <2>2, <3>3, <4>1 DEF FeedStarts
    <3> QED BY <3>2, <3>3
  <2>3. CASE feed[f] \in LiveFeed /\ UNCHANGED raced
    BY <1>2, <2>1, <2>3, OwnTasks
  <2> QED BY <1>1, <1>2, <2>1, <2>2, <2>3, FeedMoves DEF FeedGoes, AddSample, LiveFeed
<1> QED BY <1>1, <1>2, Steps, ClearingLeaves, SocketLeaves DEF vars, feedVars

LEMMA SourceStep ==
  ASSUME Inv, [Next]_vars
  PROVE  SourceInv'
<1> USE DEF Inv, SourceInv
<1>1. CASE UNCHANGED <<got, feedVars>>
  BY <1>1 DEF feedVars
<1>2. ASSUME NEW f \in Feeds, FeedSteps(f), UNCHANGED got PROVE SourceInv'
  <2>1. UNCHANGED metric
    BY <1>2, FeedLeaves
  <2>2. \A g \in Feeds : feed[g] # "none" => feed'[g] # "none" /\ cur[g] <= cur'[g]
    <3>0. cur \in [Feeds -> Nat] /\ feed \in [Feeds -> {"none", "ended"} \union LiveFeed]
      BY DEF TypeOK
    <3>1. CASE feed'[f] # "none" /\ (cur'[f] = cur[f] \/ (cur'[f] \in Nat /\ cur'[f] > cur[f]))
      BY <1>2, <3>0, <3>1, OwnTasks
    <3>2. CASE UNCHANGED <<feed, cur>>
      BY <3>0, <3>2
    <3>3. ASSUME NEW v \in 1 .. MaxSamples, AddSample(f, v)
          PROVE  feed'[f] # "none" /\ cur'[f] \in Nat /\ cur'[f] > cur[f]
      BY <3>0, <3>3, ConstantsAssumption DEF AddSample
    <3> QED BY <1>2, <3>0, <3>1, <3>2, <3>3, FeedMoves DEF FeedStarts, FeedGoes
  <2>3. ASSUME NEW w \in Sockets, NEW m \in Metrics
        PROVE  got[w][m] = 0 \/ \E g \in Feeds : metric[g] = m /\ feed'[g] # "none" /\ got[w][m] <= cur'[g]
    <3>1. CASE got[w][m] = 0
      BY <3>1
    <3>2. ASSUME NEW g \in Feeds, metric[g] = m, feed[g] # "none", got[w][m] <= cur[g]
          PROVE  feed'[g] # "none" /\ got[w][m] <= cur'[g]
      <4>1. cur[g] \in Nat /\ cur'[g] \in Nat /\ got[w][m] \in Nat
        BY TypeStep, SMTT(30) DEF TypeOK
      <4> QED BY <2>2, <3>2, <4>1
    <3> QED BY <3>1, <3>2
  <2> QED BY <1>2, <2>1, <2>3
<1>3. ASSUME NEW f \in Feeds, NEW slow \in SUBSET Sockets, SendsStart(f, slow) PROVE SourceInv'
  <2>1. /\ UNCHANGED <<feed, metric, cur>> /\ feed[f] # "none" /\ cur[f] \in Nat
        /\ \A w \in Sockets, m \in Metrics :
             got'[w][m] = got[w][m] \/ (m = metric[f] /\ got'[w][m] = cur[f])
    BY <1>3, SendFacts, SMTT(30) DEF feedVars, TypeOK
  <2>2. cur[f] <= cur[f]
    BY <2>1
  <2> QED BY <2>1, <2>2
<1> QED BY <1>1, <1>2, <1>3, Steps, ClearingLeaves, SocketLeaves, GotMoves DEF vars, sockVars

\* A renewed subscription starts at the newest sample, and one that goes on sends
\* newer ones.
LEMMA FreshStep ==
  ASSUME Inv, [Next]_vars
  PROVE  FreshInv'
<1> USE DEF Inv
<1>1. CASE UNCHANGED <<got, feedVars>>
  BY <1>1 DEF FreshInv, feedVars
<1>2. ASSUME NEW f \in Feeds, FeedSteps(f) PROVE FreshInv'
  <2>0. UNCHANGED metric /\ raced \subseteq raced' /\ TypeOK'
    BY <1>2, FeedLeaves, FeedMoves, TypeStep DEF FeedStarts, FeedGoes, AddSample
  <2> SUFFICES ASSUME NEW g \in Feeds, NEW w \in Sockets, feed'[g] \in LiveFeed, metric[g] \notin raced
               PROVE  \/ got'[w][metric[g]] <= cur'[g]
                      \/ feed'[g] = "streaming" /\ got'[w][metric[g]] <= from'[g]
    BY <2>0 DEF FreshInv
  <2>t. /\ cur[g] \in Nat /\ cur'[g] \in Nat /\ from[g] \in Nat /\ from'[g] \in Nat
        /\ metric[g] \in Metrics /\ got[w][metric[g]] \in Nat
    BY <2>0 DEF TypeOK
  <2>1. feed[g] \in LiveFeed =>
          \/ got[w][metric[g]] <= cur[g]
          \/ feed[g] = "streaming" /\ got[w][metric[g]] <= from[g]
    BY DEF FreshInv
  <2>2. ASSUME NEW slow \in SUBSET Sockets, SendsStart(f, slow)
        PROVE  got'[w][metric[g]] <= cur'[g] \/ (feed'[g] = "streaming" /\ got'[w][metric[g]] <= from'[g])
    <3>1. /\ UNCHANGED <<feed, cur, from>> /\ feed[f] = "adding"
          /\ \/ got'[w][metric[g]] = got[w][metric[g]]
             \/ metric[g] = metric[f] /\ got'[w][metric[g]] = cur[f]
      BY <2>2, <2>t, SendFacts DEF feedVars
    <3>2. metric[g] = metric[f] => g = f
      BY <3>1 DEF OneFeedInv, LiveFeed
    <3> QED BY <2>t, <2>1, <3>1, <3>2
  <2>3. ASSUME UNCHANGED got
        PROVE  got'[w][metric[g]] <= cur'[g] \/ (feed'[g] = "streaming" /\ got'[w][metric[g]] <= from'[g])
    <3>1. CASE g # f
      BY <1>2, <2>1, <2>3, <3>1, OwnTasks
    <3>2. CASE g = f /\ UNCHANGED <<feed, from, cur, raced>>
      BY <2>1, <2>3, <3>2
    <3>3. CASE g = f /\ FeedStarts(f)
      <4>1. feed'[g] = "streaming" /\ from'[g] = NewestOf(metric[g])
        BY <3>3 DEF FeedStarts, TypeOK
      <4>2. /\ NewestOf(metric[g]) \in 0 .. MaxSamples
            /\ \A h \in Feeds : metric[h] = metric[g] /\ feed[h] # "none" => cur[h] <= NewestOf(metric[g])
        BY NewestFacts
      <4>3. got[w][metric[g]] <= NewestOf(metric[g])
        <5>1. CASE got[w][metric[g]] = 0
          BY <4>2, <5>1, ConstantsAssumption
        <5>2. ASSUME NEW h \in Feeds, metric[h] = metric[g], feed[h] # "none", got[w][metric[g]] <= cur[h]
              PROVE  got[w][metric[g]] <= NewestOf(metric[g])
          <6>1. cur[h] \in Nat /\ cur[h] <= NewestOf(metric[g]) /\ NewestOf(metric[g]) \in Nat
            BY <4>2, <5>2, ConstantsAssumption DEF TypeOK
          <6> QED BY <2>t, <5>2, <6>1
        <5> QED BY <2>t, <5>1, <5>2 DEF SourceInv
      <4> QED BY <2>3, <4>1, <4>3
    <3>4. CASE g = f /\ FeedGoes(f, "ended")
      BY <3>4 DEF FeedGoes, TypeOK, LiveFeed
    <3>5. CASE g = f /\ feed[f] = "adding" /\ FeedGoes(f, "streaming")
      BY <2>1, <2>3, <3>5 DEF FeedGoes, LiveFeed
    <3>6. ASSUME NEW v \in 1 .. MaxSamples, AddSample(f, v), g = f
          PROVE  got'[w][metric[g]] <= cur'[g]
      <4>1. feed[g] = "streaming" /\ cur'[g] = v /\ v > cur[g] /\ v >= from[g] /\ v \in Nat
        BY <3>6, ConstantsAssumption DEF AddSample, TypeOK
      <4> QED BY <2>t, <2>1, <2>3, <4>1 DEF LiveFeed
    <3> QED BY <1>2, <3>1, <3>2, <3>3, <3>4, <3>5, <3>6, FeedMoves
  <2> QED BY <1>2, <2>2, <2>3, GotMoves
<1> QED BY <1>1, <1>2, Steps, ClearingLeaves, SocketLeaves DEF vars, sockVars

\* Another subscription of the metric would have raced.
LEMMA SentStep ==
  ASSUME Inv, [Next]_vars
  PROVE  SentInv'
<1> USE DEF Inv
<1>1. CASE UNCHANGED <<got, conn, feedVars, taskVars>>
  BY <1>1 DEF SentInv, feedVars, taskVars
<1>2. ASSUME NEW x \in Sockets, SocketSteps(x) PROVE SentInv'
  <2>1. UNCHANGED <<feedVars, taskVars, got>>
    BY <1>2, SocketLeaves
  <2>2. \A w \in Sockets : conn[w] = "closed" => conn'[w] = "closed"
    BY <1>2, ClosedStays
  <2> QED BY <2>1, <2>2 DEF SentInv, feedVars, taskVars
<1>3. ASSUME NEW f \in Feeds, FeedSteps(f) PROVE SentInv'
  <2>0. UNCHANGED <<metric, conn>> /\ raced \subseteq raced'
    BY <1>3, FeedLeaves, FeedMoves DEF FeedStarts, FeedGoes, AddSample
  <2> DEFINE late == {"none", "starting", "fanned"}
  <2> SUFFICES ASSUME NEW g \in Feeds, NEW w \in Sockets,
                      notify'[g] \notin late, sends'[g][w] # "none", metric[g] \notin raced
               PROVE  conn[w] = "closed" \/ got'[w][metric[g]] >= cur'[g]
    BY <2>0 DEF SentInv
  <2>t. cur[g] \in Nat /\ metric[g] \in Metrics
    BY DEF TypeOK
  <2>1. notify[g] \notin late /\ sends[g][w] # "none" => conn[w] = "closed" \/ got[w][metric[g]] >= cur[g]
    BY DEF SentInv
  <2>2. ASSUME NEW slow \in SUBSET Sockets, SendsStart(f, slow)
        PROVE  conn[w] = "closed" \/ got'[w][metric[g]] >= cur'[g]
    <3>1. UNCHANGED cur /\ feed[f] = "adding"
      BY <2>2, SendFacts DEF feedVars
    <3>2. CASE g = f
      BY <2>2, <2>t, <3>1, <3>2, SendFacts
    <3>3. CASE g # f
      <4>1. notify[g] \notin late /\ sends[g][w] # "none"
        BY <1>3, <3>3, OwnTasks
      <4>2. TasksOf(g)
        BY DEF TaskInv
      <4>3. feed[g] = "adding"
        BY <4>1, <4>2 DEF TasksOf
      <4>4. metric[g] # metric[f]
        BY <3>1, <3>3, <4>3 DEF OneFeedInv, LiveFeed
      <4>5. got'[w][metric[g]] = got[w][metric[g]]
        BY <2>2, <2>t, <4>4, SendFacts
      <4> QED BY <2>1, <3>1, <4>1, <4>5
    <3> QED BY <3>2, <3>3
  <2>3. ASSUME UNCHANGED got
        PROVE  conn[w] = "closed" \/ got'[w][metric[g]] >= cur'[g]
    <3>1. CASE g # f
      BY <1>3, <2>1, <2>3, <3>1, OwnTasks
    <3>2. ASSUME g = f, \A slow \in SUBSET Sockets : ~SendsStart(f, slow)
          PROVE  cur'[g] = cur[g] /\ notify[g] \notin late /\ sends[g][w] # "none"
      <4>1. TasksOf(f) /\ TypeOK
        BY DEF TaskInv
      <4>2. CASE FeedStarts(f) \/ SampleStored(f) \/ StoreFails(f) \/ \E added \in BOOLEAN : StoreAborted(f, added)
        BY <3>2, <4>2 DEF FeedStarts, SampleStored, StoreFails, StoreAborted, taskVars, feedVars
      <4>3. ~FeedGoes(f, "ended") /\ ~FeedGoes(f, "streaming")
        BY <3>2, <4>1 DEF FeedGoes, TypeOK
      <4>4. CASE FeedCancelled(f) \/ AddSampleEnds(f)
        BY <3>2, <4>3, <4>4 DEF FeedCancelled, AddSampleEnds, taskVars
      <4>5. ~ChildrenStart(f) /\ \A v \in 1 .. MaxSamples : ~AddSample(f, v)
        BY <3>2, <4>1 DEF ChildrenStart, AddSample, TypeOK
      <4>6. CASE SendsAborted(f) \/ NotifyEnds(f) \/ NotifyAborted(f)
        BY <3>2, <4>1, <4>6 DEF SendsAborted, NotifyEnds, NotifyAborted, CancelledSends, TypeOK, feedVars
      <4>7. ASSUME NEW x \in Sockets, SendDrained(f, x) \/ SendDrainFails(f, x)
            PROVE  cur'[g] = cur[g] /\ notify[g] \notin late /\ sends[g][w] # "none"
        BY <3>2, <4>1, <4>7 DEF SendDrained, SendDrainFails, TypeOK, feedVars
      <4> QED BY <1>3, <3>2, <4>2, <4>4, <4>5, <4>6, <4>7 DEF FeedSteps, AddingSteps
    <3> QED BY <2>1, <2>2, <2>3, <3>1, <3>2
  <2> QED BY <1>3, <2>2, <2>3, GotMoves
<1> QED BY <1>1, <1>2, <1>3, Steps, ClearingLeaves DEF vars, sockVars

-----------------------------------------------------------------------------
(* What a page has sent and the server has not received.                   *)

\* The last request about a metric decides: a new one,
LEMMA FinallyAppend ==
  ASSUME NEW S, NEW s \in Seq(Requests), NEW r \in Requests, NEW m
  PROVE  Finally(m, S, Append(s, r)) <=> IF r.id = m THEN r.type = "subscribe" ELSE Finally(m, S, s)
<1> DEFINE t == Append(s, r)
           n == Len(s)
<1>1. n \in Nat /\ Len(t) = n + 1 /\ t[n + 1] = r /\ \A k \in 1 .. n : t[k] = s[k]
  BY AppendProperties
<1> HIDE DEF t, n
<1>2. \A k \in 1 .. n + 1 : k \in 1 .. n \/ k = n + 1
  BY <1>1
<1>3. \A k \in 1 .. n : n + 1 \in k + 1 .. n + 1
  BY <1>1
<1>4. CASE r.id = m
  <2>1. n + 1 \in 1 .. n + 1 /\ \A l \in (n + 1) + 1 .. n + 1 : FALSE
    BY <1>1
  <2>2. r.type = "subscribe" => Finally(m, S, t)
    BY <1>1, <1>4, <2>1 DEF Finally
  <2>3. Finally(m, S, t) => r.type = "subscribe"
    BY <1>1, <1>2, <1>3, <1>4, <2>1 DEF Finally
  <2> QED BY <1>4, <2>2, <2>3 DEF t
<1>5. CASE r.id # m
  <2>1. Finally(m, S, s) => Finally(m, S, t)
    <3>1. ASSUME m \in S, \A k \in 1 .. n : s[k].id # m PROVE Finally(m, S, t)
      BY <1>1, <1>2, <1>5, <3>1 DEF Finally
    <3>2. ASSUME NEW k \in 1 .. n, s[k].type = "subscribe", s[k].id = m,
                 \A l \in k + 1 .. n : s[l].id # m
          PROVE  Finally(m, S, t)
      <4>1. k \in 1 .. n + 1 /\ \A l \in k + 1 .. n + 1 : l \in k + 1 .. n \/ l = n + 1
        BY <1>1
      <4>2. \A l \in k + 1 .. n : l \in 1 .. n
        BY <1>1
      <4>3. \A l \in k + 1 .. n + 1 : t[l].id # m
        BY <1>1, <1>5, <3>2, <4>1, <4>2
      <4> QED BY <1>1, <3>2, <4>1, <4>3 DEF Finally
    <3> QED BY <3>1, <3>2 DEF Finally, n
  <2>2. Finally(m, S, t) => Finally(m, S, s)
    <3>1. ASSUME m \in S, \A k \in 1 .. n + 1 : t[k].id # m PROVE Finally(m, S, s)
      <4>1. \A k \in 1 .. n : s[k].id # m
        BY <1>1, <3>1
      <4> QED BY <3>1, <4>1 DEF Finally, n
    <3>2. ASSUME NEW k \in 1 .. n + 1, t[k].type = "subscribe", t[k].id = m,
                 \A l \in k + 1 .. n + 1 : t[l].id # m
          PROVE  Finally(m, S, s)
      <4>1. k \in 1 .. n
        BY <1>1, <1>2, <1>5, <3>2
      <4>2. \A l \in k + 1 .. n : s[l].id # m
        BY <1>1, <3>2
      <4> QED BY <1>1, <3>2, <4>1, <4>2 DEF Finally, n
    <3> QED BY <1>1, <3>1, <3>2 DEF Finally
  <2> QED BY <1>5, <2>1, <2>2 DEF t
<1> QED BY <1>4, <1>5

\* ... and the first, which the server receives.
LEMMA FinallyReceive ==
  ASSUME NEW S, NEW s \in Seq(Requests), s # << >>, NEW m
  PROVE  Finally(m, Requested(S, Head(s)), Tail(s)) <=> Finally(m, S, s)
<1> DEFINE t == Tail(s)
           r == Head(s)
           n == Len(s)
           R == Requested(S, r)
<1>1. /\ n \in Nat \ {0} /\ Len(t) = n - 1 /\ r = s[1] /\ \A k \in 1 .. n - 1 : t[k] = s[k + 1]
      /\ r \in Requests
  OBVIOUS
<1>2. R = IF r.type = "subscribe" THEN S \union {r.id} ELSE S \ {r.id}
  BY <1>1 DEF Requested, Requests
<1> HIDE DEF t, r, R, n
<1>3. \A k \in 1 .. n : k = 1 \/ (k - 1 \in 1 .. n - 1 /\ s[k] = t[k - 1])
  BY <1>1
<1>4. Finally(m, R, t) => Finally(m, S, s)
  <2>1. ASSUME m \in R, \A k \in 1 .. n - 1 : t[k].id # m PROVE Finally(m, S, s)
    <3>1. \A k \in 1 .. n : k = 1 \/ s[k].id # m
      BY <1>3, <2>1
    <3>2. CASE r.id = m
      <4>1. r.type = "subscribe" /\ 1 \in 1 .. n /\ \A l \in 1 + 1 .. n : l \in 1 .. n /\ l # 1
        BY <1>1, <1>2, <2>1, <3>2
      <4> QED BY <1>1, <3>1, <3>2, <4>1 DEF Finally, n
    <3>3. CASE r.id # m
      <4>1. m \in S /\ \A k \in 1 .. n : s[k].id # m
        BY <1>1, <1>2, <2>1, <3>1, <3>3
      <4> QED BY <4>1 DEF Finally, n
    <3> QED BY <3>2, <3>3
  <2>2. ASSUME NEW k \in 1 .. n - 1, t[k].type = "subscribe", t[k].id = m,
               \A l \in k + 1 .. n - 1 : t[l].id # m
        PROVE  Finally(m, S, s)
    <3>1. k + 1 \in 1 .. n /\ \A l \in (k + 1) + 1 .. n : l - 1 \in k + 1 .. n - 1 /\ l \in 1 .. n /\ l # 1
      BY <1>1
    <3>2. \A l \in (k + 1) + 1 .. n : s[l].id # m
      BY <1>3, <2>2, <3>1
    <3> QED BY <1>1, <2>2, <3>1, <3>2 DEF Finally, n
  <2> QED BY <1>1, <2>1, <2>2 DEF Finally
<1>5. Finally(m, S, s) => Finally(m, R, t)
  <2>1. ASSUME m \in S, \A k \in 1 .. n : s[k].id # m PROVE Finally(m, R, t)
    <3>1. r.id # m /\ \A k \in 1 .. n - 1 : k + 1 \in 1 .. n
      BY <1>1, <2>1
    <3>2. m \in R /\ \A k \in 1 .. n - 1 : t[k].id # m
      BY <1>1, <1>2, <2>1, <3>1
    <3> QED BY <1>1, <3>2 DEF Finally
  <2>2. ASSUME NEW k \in 1 .. n, s[k].type = "subscribe", s[k].id = m,
               \A l \in k + 1 .. n : s[l].id # m
        PROVE  Finally(m, R, t)
    <3>1. CASE k = 1
      <4>1. m \in R
        BY <1>1, <1>2, <2>2, <3>1
      <4>2. \A l \in 1 .. n - 1 : l + 1 \in 1 + 1 .. n
        BY <1>1
      <4>3. \A l \in 1 .. n - 1 : t[l].id # m
        BY <1>1, <2>2, <3>1, <4>2
      <4> QED BY <1>1, <4>1, <4>3 DEF Finally
    <3>2. CASE k # 1
      <4>1. k - 1 \in 1 .. n - 1 /\ t[k - 1] = s[k]
        BY <1>3, <3>2
      <4>2. \A l \in (k - 1) + 1 .. n - 1 : l + 1 \in k + 1 .. n /\ l \in 1 .. n - 1
        BY <1>1
      <4>3. \A l \in (k - 1) + 1 .. n - 1 : t[l].id # m
        BY <1>1, <2>2, <4>2
      <4> QED BY <1>1, <2>2, <4>1, <4>3 DEF Finally
    <3> QED BY <3>1, <3>2
  <2> QED BY <2>1, <2>2 DEF Finally, n
<1> QED BY <1>4, <1>5 DEF R, r, t

\* When all is received, the entry is what it is.
LEMMA FinallyEmpty ==
  ASSUME NEW S, NEW m
  PROVE  Finally(m, S, << >>) <=> m \in S
<1>1. Len(<< >>) = 0 /\ \A k \in 1 .. 0 : FALSE
  OBVIOUS
<1> QED BY <1>1 DEF Finally

\* The state of the other sockets is left alone.
LEMMA OwnSocket ==
  ASSUME Inv, NEW w \in Sockets, SocketSteps(w), NEW x \in Sockets, x # w
  PROVE  /\ conn'[x] = conn[x] /\ up'[x] = up[x] /\ ep'[x] = ep[x] /\ ids'[x] = ids[x]
         /\ views'[x] = views[x] /\ spoiled'[x] = spoiled[x]
<1> USE DEF Inv, TypeOK
<1>1. CASE Opens(w) \/ EndpointSteps(w)
  BY <1>1 DEF EndpointSteps, Opens, Accept, Receive, Disconnected, pageVars
<1>2. CASE \E lost \in BOOLEAN : Closes(w, lost)
  BY <1>2 DEF Closes
<1>3. CASE \E msg \in Messages : TypedMessage(w, msg)
  BY <1>3 DEF TypedMessage, PageSends, pageVars
<1>4. CASE \E m \in Metrics : ViewSubscribes(w, m)
  BY <1>4 DEF ViewSubscribes, PageSends
<1>5. CASE \E m \in Metrics : ViewSubscribesEarly(w, m)
  BY <1>5 DEF ViewSubscribesEarly, sockVars
<1>6. CASE \E m \in Metrics : ViewUnsubscribes(w, m)
  BY <1>6 DEF ViewUnsubscribes, PageSends
<1> QED BY <1>1, <1>2, <1>3, <1>4, <1>5, <1>6 DEF SocketSteps

LEMMA OwnPageStep ==
  ASSUME Inv, NEW w \in Plugins, SocketSteps(w)
  PROVE  PageOf(w)'
<1>0. PageOf(w) /\ TypeOK /\ w \in Sockets /\ w \notin Interactive
  BY ConstantsAssumption DEF Inv, PageInv, Sockets
<1>t. /\ up[w] \in Seq(Requests) /\ ids[w] \in SUBSET Metrics /\ spoiled[w] \in SUBSET Metrics
      /\ \A m \in Metrics : views[w][m] \in Nat
  BY <1>0 DEF PageOf, TypeOK
<1>1. CASE Opens(w)
  BY <1>0, <1>1 DEF Opens, PageOf, TypeOK, pageVars
<1>2. CASE Accept(w)
  <2>0. /\ UNCHANGED <<up, ids, views, spoiled>> /\ ep'[w] # "accepting"
        /\ (conn'[w] = "open" /\ conn[w] = "connecting") \/ conn'[w] = "closed"
    BY <1>0, <1>2 DEF Accept, TypeOK, pageVars
  <2>1. CASE conn'[w] = "closed"
    BY <1>0, <2>0, <2>1 DEF PageOf
  <2>2. CASE conn'[w] = "open" /\ conn[w] = "connecting"
    <3>1. up[w] = << >> /\ ids[w] = {} /\ \A m \in Metrics : views[w][m] = 0
      BY <1>0, <2>2 DEF PageOf
    <3>2. ASSUME NEW m \in Metrics PROVE ~Finally(m, ids[w], up[w]) /\ ~(views[w][m] > 0)
      <4>1. ~Finally(m, {}, << >>) /\ ~(0 > 0)
        BY FinallyEmpty
      <4> QED BY ONLY <3>1, <3>2, <4>1, Zenon
    <3> QED BY <1>0, <2>0, <2>2, <3>2 DEF PageOf
  <2> QED BY <2>0, <2>1, <2>2
<1>3. CASE Receive(w)
  <2>0. /\ UNCHANGED <<views, spoiled>> /\ ep'[w] # "accepting" /\ up[w] # << >>
        /\ up'[w] = Tail(up[w]) /\ ids'[w] = Requested(ids[w], Head(up[w]))
        /\ conn'[w] = "closed" \/ conn'[w] = conn[w]
    BY <1>0, <1>3 DEF Receive, TypeOK, pageVars
  <2>1. up'[w] \in Seq(Requests) /\ conn'[w] \notin {"none", "connecting"}
    BY <1>0, <1>t, <2>0 DEF PageOf
  <2>2. \A m : Finally(m, ids'[w], up'[w]) <=> Finally(m, ids[w], up[w])
    BY <1>t, <2>0, FinallyReceive
  <2> QED BY <1>0, <2>0, <2>1, <2>2 DEF PageOf
<1>4. CASE Disconnected(w)
  BY <1>0, <1>4 DEF Disconnected, PageOf, TypeOK, pageVars
<1>5. ASSUME NEW lost \in BOOLEAN, Closes(w, lost) PROVE PageOf(w)'
  <2>1. conn'[w] = "closed" /\ (up'[w] = up[w] \/ up'[w] = << >>)
    BY <1>0, <1>5 DEF Closes, TypeOK
  <2>2. up'[w] \in Seq(Requests)
    <3>1. << >> \in Seq(Requests) /\ up[w] \in Seq(Requests)
      BY <1>t
    <3> QED BY ONLY <2>1, <3>1, Zenon
  <2> QED BY ONLY <2>1, <2>2 DEF PageOf
<1>6. ASSUME NEW r \in Requests, PageSends(w, r), NEW m \in Metrics, m = r.id,
             \A x \in Metrics : x # m => views'[w][x] = views[w][x],
             spoiled[w] \subseteq spoiled'[w],
             m \notin spoiled'[w] => (r.type = "subscribe" <=> views'[w][m] > 0)
      PROVE  PageOf(w)'
  <2>0. conn[w] = "open" /\ UNCHANGED <<conn, ep, ids>> /\ up'[w] = Append(up[w], r)
    BY <1>0, <1>6 DEF PageSends, TypeOK
  <2>1. up'[w] \in Seq(Requests)
    BY <1>t, <1>6, <2>0, AppendProperties
  <2>2. ASSUME NEW x \in Metrics \ spoiled'[w] PROVE Finally(x, ids[w], up'[w]) <=> views'[w][x] > 0
    <3>1. Finally(x, ids[w], up'[w]) <=> IF r.id = x THEN r.type = "subscribe" ELSE Finally(x, ids[w], up[w])
      BY <1>t, <1>6, <2>0, FinallyAppend
    <3>2. CASE x = m
      BY <1>6, <3>1, <3>2
    <3>3. CASE x # m
      <4>1. Finally(x, ids[w], up[w]) <=> views[w][x] > 0
        BY <1>0, <1>6, <2>0 DEF PageOf
      <4> QED BY <1>6, <3>1, <3>3, <4>1
    <3> QED BY <3>2, <3>3
  <2> QED BY <1>0, <2>0, <2>1, <2>2 DEF PageOf
<1>8. ASSUME NEW m \in Metrics, ViewSubscribes(w, m) PROVE PageOf(w)'
  <2> DEFINE r == [type |-> "subscribe", id |-> m]
  <2>1. r \in Requests /\ r.id = m /\ r.type = "subscribe"
    BY DEF Requests
  <2>2. /\ PageSends(w, r) /\ views'[w][m] > 0 /\ UNCHANGED spoiled
        /\ \A x \in Metrics : x # m => views'[w][x] = views[w][x]
    BY <1>0, <1>8 DEF ViewSubscribes, TypeOK
  <2> HIDE DEF r
  <2> QED BY <1>6, <2>1, <2>2
<1>9. ASSUME NEW m \in Metrics, ViewSubscribesEarly(w, m) PROVE PageOf(w)'
  BY <1>0, <1>9 DEF ViewSubscribesEarly, PageOf, sockVars
<1>10. ASSUME NEW m \in Metrics, ViewUnsubscribes(w, m) PROVE PageOf(w)'
  <2> DEFINE r == [type |-> "unsubscribe", id |-> m]
  <2>1. r \in Requests /\ r.id = m /\ r.type # "subscribe"
    BY DEF Requests
  <2>2. /\ PageSends(w, r) /\ views'[w][m] = views[w][m] - 1 /\ views[w][m] > 0
        /\ spoiled'[w] = IF views[w][m] > 1 THEN spoiled[w] \union {m} ELSE spoiled[w]
        /\ \A x \in Metrics : x # m => views'[w][x] = views[w][x]
    BY <1>0, <1>10 DEF ViewUnsubscribes, TypeOK
  <2> HIDE DEF r
  <2>3. m \notin spoiled'[w] => ~(views'[w][m] > 0)
    BY <1>t, <2>2
  <2> QED BY <1>6, <2>1, <2>2, <2>3
<1>11. \A msg \in Messages : ~TypedMessage(w, msg)
  BY <1>0 DEF TypedMessage
<1> QED BY <1>1, <1>2, <1>3, <1>4, <1>5, <1>8, <1>9, <1>10, <1>11 DEF SocketSteps, EndpointSteps

LEMMA PageStep ==
  ASSUME Inv, [Next]_vars
  PROVE  PageInv'
<1> SUFFICES ASSUME NEW w \in Plugins PROVE PageOf(w)'
  BY DEF PageInv
<1>0. PageOf(w) /\ w \in Sockets
  BY DEF Inv, PageInv, Sockets
<1>1. CASE UNCHANGED <<conn, up, ep, ids, views, spoiled>>
  BY <1>0, <1>1 DEF PageOf
<1>2. ASSUME NEW x \in Sockets, SocketSteps(x) PROVE PageOf(w)'
  <2>1. CASE x = w
    BY <1>2, <2>1, OwnPageStep
  <2>2. CASE x # w
    BY <1>0, <1>2, <2>2, OwnSocket DEF PageOf
  <2> QED BY <2>1, <2>2
<1> QED BY <1>1, <1>2, Steps, ClearingLeaves, FeedLeaves DEF vars, sockVars, pageVars

-----------------------------------------------------------------------------
(* The theorems.                                                           *)

\* Inv is an inductive invariant of the server, its subscriptions and the pages.
THEOREM Invariance == Spec => []Inv
<1>1. Inv /\ [Next]_vars => Inv'
  BY TypeStep, TaskStep, SampleStep, ClearStep, StoredStep, OneFeedStep, FreshStep, SourceStep, SentStep,
     PageStep DEF Inv
<1> QED BY <1>1, InitInv, PTL DEF Spec

\* The types of the state of the telemetry server and its pages.
THEOREM TypeCorrect == Spec => []TypeOK
<1>1. Inv => TypeOK
  BY DEF Inv
<1> QED BY <1>1, Invariance, PTL

\* clear_history leaves nothing of a former run, although the subscriptions add
\* to the history while it runs.
THEOREM HistoryCleared == Spec => []OldHistoryGone
<1>1. Inv => OldHistoryGone
  <2> SUFFICES ASSUME Inv, run = "serving", NEW e \in hist, e[2] = 0 PROVE FALSE
    BY DEF OldHistoryGone
  <2>1. e[1] \in Metrics /\ e = <<e[1], 0>>
    BY DEF Inv, TypeOK
  <2> QED BY <2>1 DEF Inv, ClearInv
<1> QED BY <1>1, Invariance, PTL

\* add_sample does not return before the sample is in the history.
THEOREM SampleIsStored == Spec => []AddedIsInHistory
<1>1. Inv => AddedIsInHistory
  BY DEF Inv, StoredInv, StoredOf, AddedIsInHistory
<1> QED BY <1>1, Invariance, PTL

\* notify_all_subscribers has written to every socket it found subscribed, or the
\* socket is closed, however its TaskGroup ends.
THEOREM AllAreSent == Spec => []EverySubscriberIsSent
<1>1. Inv => EverySubscriberIsSent
  BY DEF Inv, SentInv, EverySubscriberIsSent, Over
<1> QED BY <1>1, Invariance, PTL

\* The samples of a metric that a socket is sent never go back, through cancelled
\* and renewed subscriptions.
THEOREM NeverBack == Spec => SocketNeverGoesBack
<1>1. ASSUME Inv, [Next]_vars, NEW w \in Sockets, NEW m \in Metrics, m \notin raced
      PROVE  got'[w][m] >= got[w][m]
  <2>1. got[w][m] \in Nat /\ cur \in [Feeds -> Nat]
    BY <1>1 DEF Inv, TypeOK
  <2>2. CASE UNCHANGED got
    BY <2>1, <2>2
  <2>3. ASSUME NEW f \in Feeds, NEW slow \in SUBSET Sockets, SendsStart(f, slow)
        PROVE  got'[w][m] >= got[w][m]
    <3>1. feed[f] = "adding" /\ (got'[w][m] = got[w][m] \/ (m = metric[f] /\ got'[w][m] = cur[f]))
      BY <1>1, <2>3, SendFacts
    <3>2. m = metric[f] => got[w][m] <= cur[f]
      BY <1>1, <3>1 DEF Inv, FreshInv, LiveFeed
    <3> QED BY <2>1, <3>1, <3>2
  <2> QED BY <1>1, <2>2, <2>3, Steps, ClearingLeaves, SocketLeaves, GotMoves DEF vars, sockVars
<1>2. Inv /\ [Next]_vars =>
        [\A w \in Sockets, m \in Metrics : m \notin raced => got'[w][m] >= got[w][m]]_vars
  BY <1>1
<1> QED BY <1>2, Invariance, PTL DEF Spec, SocketNeverGoesBack

\* Once websocket_endpoint has received all that a page sent, the socket's entry
\* is what the page's views listen to.
THEOREM FollowsViews == Spec => []ServerFollowsViews
<1>1. Inv => ServerFollowsViews
  <2> SUFFICES ASSUME Inv, NEW w \in Plugins, NEW m \in Metrics,
                      conn[w] = "open", up[w] = << >>, m \notin spoiled[w]
               PROVE  m \in ids[w] <=> views[w][m] > 0
    BY DEF ServerFollowsViews
  <2>1. Finally(m, ids[w], up[w]) <=> views[w][m] > 0
    BY DEF Inv, PageInv, PageOf
  <2> QED BY <2>1, FinallyEmpty
<1> QED BY <1>1, Invariance, PTL
=============================================================================
