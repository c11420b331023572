--------------------------- MODULE TelemetryServer ---------------------------
(***************************************************************************)
(* The telemetry server of the ground side: TelemetryServer.add_sample,    *)
(* which the subscriptions call with every sample they receive, the        *)
(* history in Redis, the websockets of RealtimeTelemetryConnectionManager, *)
(* and the pages at their other end: Open MCT with the realtime plugin,    *)
(* and the interactive page on which an operator types the messages.       *)
(*                                                                         *)
(* One event loop runs all of the server.  asyncio starts tasks in the     *)
(* order they were created, and those created in one step follow each      *)
(* other directly; so the two children of add_sample start in one step     *)
(* here, and so do all the sends of a sample.  A task that is cancelled    *)
(* meets the cancellation behind what was ready before it.                 *)
(***************************************************************************)
EXTENDS Integers, Sequences

CONSTANTS
  Metrics,      \* the metric ids
  Feeds,        \* the subscriptions (subscribe tasks) there may be
  Plugins,      \* the sockets of pages with the realtime plugin
  Interactive,  \* the sockets of interactive pages
  MaxSamples,   \* bound: samples per metric
  MaxMsgs,      \* bound: messages a page sends, per socket
  MaxViews      \* bound: views of a page that listen to one metric

Sockets == Plugins \union Interactive

ASSUME ConstantsAssumption ==
  /\ MaxSamples \in Nat /\ MaxViews \in Nat /\ MaxMsgs \in [Sockets -> Nat]
  /\ Plugins \intersect Interactive = {}

VARIABLES
  run,      \* run(): about to clear the history, clearing, serving, failed
  doomed,   \* the keys that clear_history found
  hist,     \* the history: pairs of a metric and a sample, 0 of a former run
  feed,     \* feed[f]: where the subscribe task is
  metric,   \* metric[f]: the metric it subscribed to
  from,     \* from[f]: the newest sample of the metric when it connected
  cur,      \* cur[f]: the sample it called add_sample with last
  cancel,   \* cancel[f]: the task's cancel() was called
  begun,    \* begun[f]: history: the ZADD of cur[f] was sent to a cleared history
  raced,    \* history: the metrics that had two subscriptions at a time
  notify,   \* notify[f]: the task of notify_all_subscribers
  sends,    \* sends[f][w]: its child, the task of websocket.send_text
  store,    \* store[f]: the task of history_manager.add_sample
  conn,     \* conn[w]: the connection, as the page has it
  up,       \* up[w]: the messages of the page that are not received yet
  sent,     \* sent[w]: how many messages it has sent
  ep,       \* ep[w]: where websocket_endpoint is
  refused,  \* refused[w]: a send has failed, the WebSocket is DISCONNECTED
  active,   \* active_connections: the sockets in it
  ids,      \* ids[w]: ... and the metric ids kept for each
  got,      \* got[w][m]: the last sample of m written to the socket
  views,    \* views[w][m]: the views of the page that listen to m
  spoiled   \* spoiled[w]: history: metrics the page misled the server about

histVars == <<run, doomed, hist>>
feedVars == <<feed, metric, from, cur, cancel, begun, raced>>
taskVars == <<notify, sends, store>>
sockVars == <<conn, up, sent, ep, refused, active, ids, got>>
pageVars == <<views, spoiled>>
vars == <<histVars, feedVars, taskVars, sockVars, pageVars>>

-----------------------------------------------------------------------------
\* What a page may send: the two requests; "subscribe" without an id, or bytes
\* instead of text ("bad"); anything else.
Messages ==
  [type : {"subscribe", "unsubscribe"}, id : Metrics] \union [type : {"bad", "other"}]

\* A child of a TaskGroup is over.
Over == {"done", "failed", "cancelled"}

\* A subscription that is not over.
LiveFeed == {"streaming", "adding"}

TypeOK ==
  /\ run \in {"start", "clearing", "serving", "failed"}
  /\ doomed \in SUBSET Metrics
  /\ hist \in SUBSET (Metrics \X Nat)
  /\ feed \in [Feeds -> {"none", "ended"} \union LiveFeed]
  /\ metric \in [Feeds -> Metrics]
  /\ from \in [Feeds -> Nat]
  /\ cur \in [Feeds -> Nat]
  /\ cancel \in [Feeds -> BOOLEAN]
  /\ begun \in [Feeds -> BOOLEAN]
  /\ raced \in SUBSET Metrics
  /\ notify \in [Feeds -> {"none", "starting", "fanned", "waiting"} \union Over]
  /\ sends \in [Feeds -> [Sockets -> {"none", "starting", "draining"} \union Over]]
  /\ store \in [Feeds -> {"none", "starting", "asked"} \union Over]
  /\ conn \in [Sockets -> {"none", "connecting", "open", "closed"}]
  /\ up \in [Sockets -> Seq(Messages)]
  /\ sent \in [Sockets -> Nat]
  /\ ep \in [Sockets -> {"none", "accepting", "receiving", "done", "crashed"}]
  /\ refused \in [Sockets -> BOOLEAN]
  /\ active \in SUBSET Sockets
  /\ ids \in [Sockets -> SUBSET Metrics]
  /\ got \in [Sockets -> [Metrics -> Nat]]
  /\ views \in [Sockets -> [Metrics -> Nat]]
  /\ spoiled \in [Sockets -> SUBSET Metrics]

Init ==
  /\ run = "start" /\ doomed = {}
  /\ hist \in SUBSET (Metrics \X {0})
  /\ feed = [f \in Feeds |-> "none"]
  /\ metric \in [Feeds -> Metrics]
  /\ from = [f \in Feeds |-> 0]
  /\ cur = [f \in Feeds |-> 0]
  /\ cancel = [f \in Feeds |-> FALSE]
  /\ begun = [f \in Feeds |-> FALSE]
  /\ raced = {}
  /\ notify = [f \in Feeds |-> "none"]
  /\ sends = [f \in Feeds |-> [w \in Sockets |-> "none"]]
  /\ store = [f \in Feeds |-> "none"]
  /\ conn = [w \in Sockets |-> "none"]
  /\ up = [w \in Sockets |-> << >>]
  /\ sent = [w \in Sockets |-> 0]
  /\ ep = [w \in Sockets |-> "none"]
  /\ refused = [w \in Sockets |-> FALSE]
  /\ active = {}
  /\ ids = [w \in Sockets |-> {}]
  /\ got = [w \in Sockets |-> [m \in Metrics |-> 0]]
  /\ views = [w \in Sockets |-> [m \in Metrics |-> 0]]
  /\ spoiled = [w \in Sockets |-> {}]

-----------------------------------------------------------------------------
(* run and clear_history.                                                  *)

\* The answer to KEYS.
KeysFound ==
  /\ run = "start"
  /\ run' = "clearing"
  /\ doomed' = {m \in Metrics : \E v \in 0 .. MaxSamples : <<m, v>> \in hist}
  /\ UNCHANGED <<hist, feedVars, taskVars, sockVars, pageVars>>

\* Fault: uvicorn serves and clear_history has not deleted what it found.
KeysDeletedLater ==
  /\ run = "clearing"
  /\ run' = "serving"
  /\ UNCHANGED <<hist, doomed, feedVars, taskVars, sockVars, pageVars>>

\* DELETE of the keys found, all that was added to them since included; then
\* uvicorn serves.
KeysDeleted ==
  /\ run = "clearing"
  /\ run' = "serving"
  /\ hist' = {e \in hist : e[1] \notin doomed}
  /\ doomed' = {}
  /\ UNCHANGED <<feedVars, taskVars, sockVars, pageVars>>

\* KEYS or DELETE fails: run raises, gather ends, the ground server goes down.
ClearFails ==
  /\ run \in {"start", "clearing"}
  /\ run' = "failed"
  /\ UNCHANGED <<doomed, hist, feedVars, taskVars, sockVars, pageVars>>

-----------------------------------------------------------------------------
(* The subscriptions and add_sample.                                       *)

FeedsOf(m, S) == {f \in Feeds : feed[f] \in S /\ metric[f] = m}

\* The newest sample of m that a subscription has handed on.
NewestOf(m) ==
  CHOOSE v \in 0 .. MaxSamples :
    /\ \A f \in FeedsOf(m, {"ended"} \union LiveFeed) : cur[f] <= v
    /\ v = 0 \/ \E f \in FeedsOf(m, {"ended"} \union LiveFeed) : cur[f] = v

\* Fault: the new subscription resumes one before the newest sample.
FeedStartsBehind(f) ==
  /\ feed[f] = "none" /\ run # "failed"
  /\ feed' = [feed EXCEPT ![f] = "streaming"]
  /\ from' = [from EXCEPT ![f] = NewestOf(metric[f]) - 1]
  /\ raced' = raced
  /\ UNCHANGED <<histVars, metric, cur, cancel, begun, taskVars, sockVars, pageVars>>

\* A subscription connects.  update_bps replaces one that has ended; two of
\* its calls that overlap leave two.
FeedStarts(f) ==
  /\ feed[f] = "none" /\ run # "failed"
  /\ feed' = [feed EXCEPT ![f] = "streaming"]
  /\ from' = [from EXCEPT ![f] = NewestOf(metric[f])]
  /\ raced' = IF FeedsOf(metric[f], LiveFeed) = {} THEN raced ELSE raced \union {metric[f]}
  /\ UNCHANGED <<histVars, metric, cur, cancel, begun, taskVars, sockVars, pageVars>>

\* handle_sample calls add_sample, which creates its two children.  The onboard
\* server sends a connection only what is new to it and no older than it.
AddSample(f, v) ==
  /\ feed[f] = "streaming" /\ v > cur[f] /\ v >= from[f]
  /\ feed' = [feed EXCEPT ![f] = "adding"]
  /\ cur' = [cur EXCEPT ![f] = v]
  /\ notify' = [notify EXCEPT ![f] = "starting"]
  /\ store' = [store EXCEPT ![f] = "starting"]
  /\ UNCHANGED <<histVars, metric, from, cancel, begun, raced, sends, sockVars, pageVars>>

\* The two children take their first steps: notify_all_subscribers goes through
\* active_connections and creates the sends, history_manager.add_sample sends
\* ZADD.  A decoded sample is a Sample, never a FileSample: there is no third.
ChildrenStart(f) ==
  /\ notify[f] = "starting"
  /\ notify' = [notify EXCEPT ![f] = "fanned"]
  /\ sends' = [sends EXCEPT ![f] =
       [w \in Sockets |-> IF w \in active /\ metric[f] \in ids[w] THEN "starting" ELSE "none"]]
  /\ store' = [store EXCEPT ![f] = "asked"]
  /\ begun' = [begun EXCEPT ![f] = run = "serving"]
  /\ UNCHANGED <<histVars, feed, metric, from, cur, cancel, raced, sockVars, pageVars>>

\* The sends to S take their first steps: the frame is written to a connection
\* that is open, and drained at once or not (slow); a closed one raises.
SendTo(f, S, slow) ==
  /\ notify' = [notify EXCEPT ![f] = "waiting"]
  /\ sends' = [sends EXCEPT ![f] =
       [w \in Sockets |->
          CASE sends[f][w] = "starting" /\ w \notin S -> "cancelled"
            [] w \in S /\ conn[w] = "closed" -> "failed"
            [] w \in S /\ conn[w] # "closed" -> IF w \in slow THEN "draining" ELSE "done"
            [] OTHER -> sends[f][w]]]
  /\ got' = [w \in Sockets |->
       IF w \in S /\ conn[w] # "closed" THEN [got[w] EXCEPT ![metric[f]] = cur[f]] ELSE got[w]]
  /\ refused' = [w \in Sockets |-> refused[w] \/ (w \in S /\ conn[w] = "closed")]
  /\ UNCHANGED <<histVars, feedVars, store, conn, up, sent, ep, active, ids, pageVars>>

\* Fault: the sends are made one after the other and the first that raises ends
\* them.
SendsStartInTurn(f, slow) ==
  /\ notify[f] = "fanned"
  /\ LET S == {w \in Sockets : sends[f][w] = "starting"}
         open == {w \in S : conn[w] # "closed"}
     IN  SendTo(f, IF open = S THEN S ELSE S \ open, slow)

\* All the sends take their first steps.
SendsStart(f, slow) ==
  /\ notify[f] = "fanned"
  /\ SendTo(f, {w \in Sockets : sends[f][w] = "starting"}, slow)

\* The drain of a send is over: the page has read, there is room again.
SendDrained(f, w) ==
  /\ sends[f][w] = "draining" /\ conn[w] # "closed"
  /\ sends' = [sends EXCEPT ![f][w] = "done"]
  /\ UNCHANGED <<histVars, feedVars, notify, store, sockVars, pageVars>>

\* The connection is gone: the drain raises.
SendDrainFails(f, w) ==
  /\ sends[f][w] = "draining" /\ conn[w] = "closed"
  /\ sends' = [sends EXCEPT ![f][w] = "failed"]
  /\ refused' = [refused EXCEPT ![w] = TRUE]
  /\ UNCHANGED <<histVars, feedVars, notify, store, conn, up, sent, ep, active, ids, got,
                 pageVars>>

\* Sends that are cancelled in their drains.
CancelledSends(f) ==
  [w \in Sockets |-> IF sends[f][w] = "draining" THEN "cancelled" ELSE sends[f][w]]

\* Fault: the sends are gathered, and all waited for when one has raised.
SendsAwaited(f) ==
  /\ notify[f] = "waiting"
  /\ \E w \in Sockets : sends[f][w] = "failed"
  /\ \A w \in Sockets : sends[f][w] # "draining"
  /\ UNCHANGED vars

\* A send has raised: the inner TaskGroup cancels the others.
SendsAborted(f) ==
  /\ notify[f] = "waiting"
  /\ \E w \in Sockets : sends[f][w] = "failed"
  /\ \E w \in Sockets : sends[f][w] = "draining"
  /\ sends' = [sends EXCEPT ![f] = CancelledSends(f)]
  /\ UNCHANGED <<histVars, feedVars, notify, store, sockVars, pageVars>>

\* The inner TaskGroup is left.
NotifyEnds(f) ==
  /\ notify[f] = "waiting"
  /\ \A w \in Sockets : sends[f][w] # "draining"
  /\ notify' = [notify EXCEPT ![f] =
       IF \E w \in Sockets : sends[f][w] = "failed" THEN "failed" ELSE "done"]
  /\ UNCHANGED <<histVars, feedVars, sends, store, sockVars, pageVars>>

\* Redis adds the sample to the history and answers.
SampleStored(f) ==
  /\ store[f] = "asked"
  /\ store' = [store EXCEPT ![f] = "done"]
  /\ hist' = hist \union {<<metric[f], cur[f]>>}
  /\ UNCHANGED <<run, doomed, feedVars, notify, sends, sockVars, pageVars>>

\* ZADD fails.
StoreFails(f) ==
  /\ store[f] = "asked"
  /\ store' = [store EXCEPT ![f] = "failed"]
  /\ UNCHANGED <<histVars, feedVars, notify, sends, sockVars, pageVars>>

\* The outer TaskGroup cancels its children: one has failed, or the
\* subscription itself was cancelled.
Aborting(f) == cancel[f] \/ notify[f] = "failed" \/ store[f] = "failed"

\* ... the one that waits for Redis, which may add the sample all the same,
StoreAborted(f, added) ==
  /\ Aborting(f) /\ store[f] = "asked"
  /\ store' = [store EXCEPT ![f] = "cancelled"]
  /\ hist' = IF added THEN hist \union {<<metric[f], cur[f]>>} ELSE hist
  /\ UNCHANGED <<run, doomed, feedVars, notify, sends, sockVars, pageVars>>

\* ... and the one that waits for its sends, which have started.
NotifyAborted(f) ==
  /\ Aborting(f) /\ notify[f] = "waiting"
  /\ notify' = [notify EXCEPT ![f] = "cancelled"]
  /\ sends' = [sends EXCEPT ![f] = CancelledSends(f)]
  /\ UNCHANGED <<histVars, feedVars, store, sockVars, pageVars>>

\* The task of subscribe goes on to st, with no tasks of add_sample left.
FeedGoes(f, st) ==
  /\ feed' = [feed EXCEPT ![f] = st]
  /\ cancel' = [cancel EXCEPT ![f] = FALSE]
  /\ begun' = [begun EXCEPT ![f] = @ /\ st = "streaming"]
  /\ from' = [from EXCEPT ![f] = 0]
  /\ notify' = [notify EXCEPT ![f] = "none"]
  /\ sends' = [sends EXCEPT ![f] = [w \in Sockets |-> "none"]]
  /\ store' = [store EXCEPT ![f] = "none"]
  /\ UNCHANGED <<histVars, metric, cur, raced, sockVars, pageVars>>

\* Fault: add_sample returns when notify_all_subscribers does.
AddSampleEndsEarly(f) ==
  /\ feed[f] = "adding" /\ notify[f] \in Over
  /\ FeedGoes(f, IF Aborting(f) THEN "ended" ELSE "streaming")

\* Both children are over: add_sample returns and the subscription reads on, or
\* raises, which ends it.
AddSampleEnds(f) ==
  /\ feed[f] = "adding" /\ notify[f] \in Over /\ store[f] \in Over
  /\ FeedGoes(f, IF Aborting(f) THEN "ended" ELSE "streaming")

\* Fault: the cancelled subscription does not wait for the children.
FeedCancelledAtOnce(f) ==
  /\ feed[f] \in LiveFeed /\ ~cancel[f]
  /\ feed' = [feed EXCEPT ![f] = "ended"]
  /\ UNCHANGED <<histVars, metric, from, cur, cancel, begun, raced, taskVars, sockVars,
                 pageVars>>

\* update_bps, or the exit of the ground server, cancels the subscription, or
\* its connection breaks while it reads.
FeedCancelled(f) ==
  /\ feed[f] \in LiveFeed /\ ~cancel[f]
  /\ \/ feed[f] = "streaming" /\ FeedGoes(f, "ended")
     \/ /\ feed[f] = "adding"
        /\ cancel' = [cancel EXCEPT ![f] = TRUE]
        /\ UNCHANGED <<histVars, feed, metric, from, cur, begun, raced, taskVars, sockVars,
                       pageVars>>

-----------------------------------------------------------------------------
(* websocket_endpoint.                                                     *)

\* A page opens its socket.
Opens(w) ==
  /\ run = "serving" /\ conn[w] = "none"
  /\ conn' = [conn EXCEPT ![w] = "connecting"]
  /\ ep' = [ep EXCEPT ![w] = "accepting"]
  /\ UNCHANGED <<histVars, feedVars, taskVars, up, sent, refused, active, ids, got, pageVars>>

\* connect: the socket is accepted and gets an entry; accept raises when the
\* page has gone.
Accept(w) ==
  /\ ep[w] = "accepting"
  /\ \/ /\ conn[w] = "connecting"
        /\ conn' = [conn EXCEPT ![w] = "open"]
        /\ ep' = [ep EXCEPT ![w] = "receiving"]
        /\ active' = active \union {w}
     \/ /\ conn[w] = "closed"
        /\ ep' = [ep EXCEPT ![w] = "done"]
        /\ UNCHANGED <<conn, active>>
  /\ UNCHANGED <<histVars, feedVars, taskVars, up, sent, refused, ids, got, pageVars>>

\* Fault: "subscribe" is looked for anywhere in the message.
RequestedAnywhere(S, msg) ==
  CASE msg.type \in {"subscribe", "unsubscribe"} -> S \union {msg.id}
    [] OTHER -> S

\* What the messages of a page do to its entry.
Requested(S, msg) ==
  CASE msg.type = "subscribe" -> S \union {msg.id}
    [] msg.type = "unsubscribe" -> S \ {msg.id}
    [] OTHER -> S

\* receive_text returns a message.  The endpoint raises, and leaves its entry
\* behind, when the message is bad; and when it calls receive_text again after
\* a send has failed.
Receive(w) ==
  /\ ep[w] = "receiving" /\ up[w] # << >>
  /\ up' = [up EXCEPT ![w] = Tail(@)]
  /\ ids' = [ids EXCEPT ![w] = Requested(@, Head(up[w]))]
  /\ \/ /\ Head(up[w]).type = "bad" \/ refused[w]
        /\ ep' = [ep EXCEPT ![w] = "crashed"]
        /\ conn' = [conn EXCEPT ![w] = "closed"]
     \/ /\ Head(up[w]).type # "bad" /\ ~refused[w]
        /\ UNCHANGED <<ep, conn>>
  /\ UNCHANGED <<histVars, feedVars, taskVars, sent, refused, active, got, pageVars>>

\* Fault: WebSocketDisconnect is not caught.
DisconnectedUncaught(w) ==
  /\ ep[w] = "receiving" /\ conn[w] = "closed" /\ up[w] = << >>
  /\ ep' = [ep EXCEPT ![w] = "done"]
  /\ UNCHANGED <<histVars, feedVars, taskVars, conn, up, sent, refused, active, ids, got,
                 pageVars>>

\* receive_text raises WebSocketDisconnect: the entry is deleted.
Disconnected(w) ==
  /\ ep[w] = "receiving" /\ conn[w] = "closed" /\ up[w] = << >>
  /\ ep' = [ep EXCEPT ![w] = "done"]
  /\ active' = active \ {w}
  /\ ids' = [ids EXCEPT ![w] = {}]
  /\ UNCHANGED <<histVars, feedVars, taskVars, conn, up, sent, refused, got, pageVars>>

\* The page closes its socket, or the connection is lost, with what was under
\* way.  The plugin opens no other: its views listen to nothing any more.
Closes(w, lost) ==
  /\ conn[w] \in {"connecting", "open"}
  /\ conn' = [conn EXCEPT ![w] = "closed"]
  /\ up' = [up EXCEPT ![w] = IF lost THEN << >> ELSE @]
  /\ views' = [views EXCEPT ![w] = [m \in Metrics |-> 0]]
  /\ spoiled' = [spoiled EXCEPT ![w] = {}]
  /\ UNCHANGED <<histVars, feedVars, taskVars, sent, ep, refused, active, ids, got>>

-----------------------------------------------------------------------------
(* The pages.                                                              *)

\* socket.send of an open socket.
PageSends(w, msg) ==
  /\ conn[w] = "open" /\ sent[w] < MaxMsgs[w]
  /\ up' = [up EXCEPT ![w] = Append(@, msg)]
  /\ sent' = [sent EXCEPT ![w] = @ + 1]
  /\ UNCHANGED <<histVars, feedVars, taskVars, conn, ep, refused, active, ids, got>>

\* The operator sends what is in the field of the interactive page.
TypedMessage(w, msg) ==
  /\ w \in Interactive
  /\ PageSends(w, msg)
  /\ UNCHANGED pageVars

\* The provider's subscribe, called for a view.
ViewSubscribes(w, m) ==
  /\ w \in Plugins /\ views[w][m] < MaxViews
  /\ views' = [views EXCEPT ![w][m] = @ + 1]
  /\ PageSends(w, [type |-> "subscribe", id |-> m])
  /\ UNCHANGED spoiled

\* ... before the socket is open: the callback is in the list, socket.send
\* throws, and Open MCT has no function to unsubscribe with.
ViewSubscribesEarly(w, m) ==
  /\ w \in Plugins /\ conn[w] = "connecting" /\ m \notin spoiled[w]
  /\ spoiled' = [spoiled EXCEPT ![w] = @ \union {m}]
  /\ UNCHANGED <<histVars, feedVars, taskVars, sockVars, views>>

\* The unsubscribe function of a view: the server is told whether or not other
\* views of the page listen to the metric.
ViewUnsubscribes(w, m) ==
  /\ w \in Plugins /\ views[w][m] > 0
  /\ views' = [views EXCEPT ![w][m] = @ - 1]
  /\ spoiled' = [spoiled EXCEPT ![w] = IF views[w][m] > 1 THEN @ \union {m} ELSE @]
  /\ PageSends(w, [type |-> "unsubscribe", id |-> m])

-----------------------------------------------------------------------------
\* add_sample goes on: the event loop runs its tasks and Redis answers.
AddingSteps(f) ==
  \/ ChildrenStart(f) \/ SendsAborted(f) \/ NotifyEnds(f) \/ NotifyAborted(f)
  \/ SampleStored(f) \/ StoreFails(f) \/ AddSampleEnds(f)
  \/ \E slow \in SUBSET Sockets : SendsStart(f, slow)
  \/ \E added \in BOOLEAN : StoreAborted(f, added)
  \/ \E w \in Sockets : SendDrainFails(f, w)

EndpointSteps(w) == Accept(w) \/ Receive(w) \/ Disconnected(w)

Next ==
  \/ KeysFound \/ KeysDeleted \/ ClearFails
  \/ \E f \in Feeds : \/ FeedStarts(f) \/ FeedCancelled(f)
                      \/ AddingSteps(f)
                      \/ \E w \in Sockets : SendDrained(f, w)
                      \/ \E v \in 1 .. MaxSamples : AddSample(f, v)
  \/ \E w \in Sockets : \/ Opens(w) \/ EndpointSteps(w)
                        \/ \E lost \in BOOLEAN : Closes(w, lost)
                        \/ \E msg \in Messages : TypedMessage(w, msg)
                        \/ \E m \in Metrics : \/ ViewSubscribes(w, m)
                                              \/ ViewSubscribesEarly(w, m)
                                              \/ ViewUnsubscribes(w, m)

Spec == Init /\ [][Next]_vars

\* The event loop runs what is ready and Redis answers.  Nothing is assumed of the
\* pages: send_text has no timeout, and the keepalive of the connection waits in
\* the same drain.
Fairness ==
  /\ \A f \in Feeds : WF_vars(AddingSteps(f))
  /\ \A w \in Sockets : WF_vars(EndpointSteps(w))

FairSpec == Spec /\ Fairness

-----------------------------------------------------------------------------
(* Properties.                                                             *)

\* Once the telemetry server serves, no sample of a former run is in the history.
OldHistoryGone == run = "serving" => \A e \in hist : e[2] # 0

\* A sample that add_sample returned for is in the history, if it was sent there
\* after clear_history: no websocket that fails, no cancellation, no other
\* subscription makes add_sample return without it.
AddedIsInHistory ==
  \A f \in Feeds :
    feed[f] = "streaming" /\ begun[f] => <<metric[f], cur[f]>> \in hist

\* notify_all_subscribers leaves out none of the sockets that were subscribed
\* when it looked: each has been written the sample, or one after it, or is
\* closed, also when the send to another raised or the subscription was
\* cancelled meanwhile.
EverySubscriberIsSent ==
  \A f \in Feeds, w \in Sockets :
    notify[f] \in Over /\ sends[f][w] # "none" /\ metric[f] \notin raced
      => conn[w] = "closed" \/ got[w][metric[f]] >= cur[f]

\* A socket is never sent a sample older than one it was sent before, through
\* cancelled and renewed subscriptions, unless two of them ran at a time.
SocketNeverGoesBack ==
  [][\A w \in Sockets, m \in Metrics : m \notin raced => got'[w][m] >= got[w][m]]_vars

\* When all that a page has sent is received, the server sends it the metrics
\* that its views listen to and no others, but for a metric whose callbacks the
\* plugin put in its list before the socket was open, or one of whose views has
\* unsubscribed under another.
ServerFollowsViews ==
  \A w \in Plugins, m \in Metrics :
    ep[w] = "receiving" /\ conn[w] = "open" /\ up[w] = << >> /\ m \notin spoiled[w]
      => (m \in ids[w] <=> views[w][m] > 0)

\* A page holds the subscription: it is connected and does not read what it is
\* sent, no other send has raised, and nothing cancels add_sample.
HeldByPage(f, w) ==
  /\ sends[f][w] = "draining" /\ conn[w] = "open"
  /\ ~Aborting(f) /\ \A x \in Sockets : sends[f][x] # "failed"

\* add_sample always ends, and with it the wait of its subscription, unless a page
\* holds it for ever: no socket that is closed, slow or forgotten does, and the one
\* that does lets go when its connection breaks, when the send to another raises,
\* when ZADD fails and when the subscription is cancelled.
AddSampleTerminates ==
  \A f \in Feeds :
    []<>(feed[f] # "adding") \/ \E w \in Sockets : <>[]HeldByPage(f, w)

\* The entry of a socket that is closed goes, unless the endpoint has crashed.
ClosedSocketForgotten ==
  \A w \in Sockets : (conn[w] = "closed") ~> (w \notin active \/ ep[w] = "crashed")
=============================================================================
