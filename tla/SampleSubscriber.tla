-------------------------- MODULE SampleSubscriber --------------------------
(***************************************************************************)
(* The samples of one metric as bcp_redis_client.sample hands them from    *)
(* their producers to the programs on board: set_sample, which stores a    *)
(* sample in the cache and then publishes it on the metric's channel, and  *)
(* SampleSubscriber, whose listening thread follows the channel while      *)
(* other threads wait for samples and the owner leaves the with statement. *)
(*                                                                         *)
(* Samples are numbered by the order of the SETs.  A critical section of   *)
(* latest_sample_lock is one step: nothing blocks inside it.               *)
(***************************************************************************)
EXTENDS Integers, Sequences

CONSTANTS
  Producers,   \* the programs that store samples of the metric
  Threads,     \* the threads that call wait_for_sample
  MaxSamples,  \* bound: samples stored
  MaxEnters,   \* bound: how often the with statement is entered
  MaxLosses    \* bound: how often the connection to Redis is lost

ASSUME ConstantsAssumption ==
  MaxSamples \in Nat /\ MaxEnters \in Nat /\ MaxLosses \in Nat

VARIABLES
  cache,      \* the sample in sample-cache:<metric_id>, 0 if none
  bad,        \* the stored samples whose JSON does not validate
  prod,       \* prod[p]: the sample p has SET and not yet PUBLISHed, or 0
  published,  \* the channel: the samples in the order of the PUBLISHes
  subscribed, \* Redis sends the channel to the pubsub connection
  requests,   \* SUBSCRIBE and UNSUBSCRIBE on their way to Redis
  inbox,      \* what Redis has sent: places in the channel, 0 a confirmation
  losses,     \* how often the pubsub connection was lost
  broken,     \* ... and the thread has not met the loss, or not survived it
  block,      \* the owner: outside the with statement, inside, or exiting;
              \* or __exit__ has raised
  enters,     \* how often it was entered
  stop,       \* _stop_event
  thread,     \* the listening thread
  held,       \* the place of the sample it has validated and not yet stored
  latest,     \* the place of latest_sample, 0 for None
  pc,         \* pc[t]: where t is in wait_for_sample
  timed,      \* timed[t]: t's call has a timeout
  floor,      \* floor[t]: newest latest_sample there was during t's call
  result      \* result[t]: what t's last call returned

producerVars == <<cache, bad, prod, published>>
redisVars    == <<subscribed, requests, inbox, losses, broken>>
ownerVars    == <<block, enters, stop>>
listenVars   == <<thread, held, latest>>
waitVars     == <<pc, timed, floor, result>>
vars == <<producerVars, redisVars, ownerVars, listenVars, waitVars>>

-----------------------------------------------------------------------------
\* The thread runs: in listen(), or between a message and the lock.
Alive == {"listening", "storing"}

\* What is asked of Redis on the pubsub connection.
PubSubRequests == {"subscribe", "unsubscribe"}

TypeOK ==
  /\ cache \in Nat
  /\ bad \in SUBSET Nat
  /\ prod \in [Producers -> Nat]
  /\ published \in Seq(Nat)
  /\ subscribed \in BOOLEAN
  /\ requests \in Seq(PubSubRequests)
  /\ inbox \in Seq(Nat)
  /\ losses \in Nat
  /\ broken \in BOOLEAN
  /\ block \in {"outside", "inside", "exiting", "raised"}
  /\ enters \in Nat
  /\ stop \in BOOLEAN
  /\ thread \in {"none", "ended", "dead"} \union Alive
  /\ held \in 0 .. Len(published)
  /\ latest \in 0 .. Len(published)
  /\ pc \in [Threads -> {"idle", "checked", "waiting", "woken"}]
  /\ timed \in [Threads -> BOOLEAN]
  /\ floor \in [Threads -> Nat]
  /\ result \in [Threads -> Nat]

Init ==
  /\ cache = 0 /\ bad = {} /\ published = << >>
  /\ prod = [p \in Producers |-> 0]
  /\ subscribed = FALSE /\ requests = << >> /\ inbox = << >>
  /\ losses = 0 /\ broken = FALSE
  /\ block = "outside" /\ enters = 0 /\ stop = FALSE
  /\ thread = "none" /\ held = 0 /\ latest = 0
  /\ pc = [t \in Threads |-> "idle"]
  /\ timed = [t \in Threads |-> FALSE]
  /\ floor = [t \in Threads |-> 0]
  /\ result = [t \in Threads |-> 0]

-----------------------------------------------------------------------------
(* set_sample.                                                             *)

\* A float that is not finite is written as null, which is no PrimitiveType:
\* the sample is stored and cannot be read.
Encoded(v, finite) == IF finite THEN bad ELSE bad \union {v}

\* Fault: the sample is published without being stored.
SetSampleSkipsCache(p, finite) ==
  /\ prod[p] = 0 /\ cache < MaxSamples
  /\ bad' = Encoded(cache + 1, finite)
  /\ prod' = [prod EXCEPT ![p] = cache + 1]
  /\ UNCHANGED <<cache, published, redisVars, ownerVars, listenVars, waitVars>>

\* r.set: the sample replaces the one in the cache.
SetSample(p, finite) ==
  /\ prod[p] = 0 /\ cache < MaxSamples
  /\ cache' = cache + 1
  /\ bad' = Encoded(cache + 1, finite)
  /\ prod' = [prod EXCEPT ![p] = cache + 1]
  /\ UNCHANGED <<published, redisVars, ownerVars, listenVars, waitVars>>

\* r.publish: Redis passes the sample on to a connection that is subscribed.
Publish(p) ==
  /\ prod[p] # 0
  /\ published' = Append(published, prod[p])
  /\ prod' = [prod EXCEPT ![p] = 0]
  /\ inbox' = IF subscribed THEN Append(inbox, Len(published) + 1) ELSE inbox
  /\ UNCHANGED <<cache, bad, subscribed, requests, losses, broken, ownerVars,
                 listenVars, waitVars>>

\* The producer dies, or r.publish raises, after r.set.
ProducerFails(p) ==
  /\ prod[p] # 0
  /\ prod' = [prod EXCEPT ![p] = 0]
  /\ UNCHANGED <<cache, bad, published, redisVars, ownerVars, listenVars, waitVars>>

-----------------------------------------------------------------------------
(* Redis and the connection of the pubsub object.                          *)

\* Redis comes to the next request on the connection and confirms it.
RedisConfirms ==
  /\ requests # << >>
  /\ requests' = Tail(requests)
  /\ subscribed' = (Head(requests) = "subscribe")
  /\ inbox' = Append(inbox, 0)
  /\ UNCHANGED <<producerVars, losses, broken, ownerVars, listenVars, waitVars>>

\* The connection is lost with all that was under way.
ConnectionLost ==
  /\ block # "outside" /\ ~broken /\ losses < MaxLosses
  /\ losses' = losses + 1
  /\ broken' = TRUE
  /\ subscribed' = FALSE /\ requests' = << >> /\ inbox' = << >>
  /\ UNCHANGED <<producerVars, ownerVars, listenVars, waitVars>>

\* The thread's read fails: redis-py raises, which ends the thread, or connects
\* again and subscribes once more.
ThreadMeetsLoss ==
  /\ thread = "listening" /\ broken
  /\ subscribed' = FALSE /\ inbox' = << >>
  /\ \/ thread' = "dead" /\ requests' = << >> /\ UNCHANGED broken
     \/ broken' = FALSE /\ requests' = <<"subscribe">> /\ UNCHANGED thread
  /\ UNCHANGED <<producerVars, losses, ownerVars, held, latest, waitVars>>

-----------------------------------------------------------------------------
(* The with statement and the listening thread.                            *)

\* __enter__: SUBSCRIBE is sent, its confirmation is not waited for.
Enter ==
  /\ block = "outside" /\ enters < MaxEnters
  /\ block' = "inside"
  /\ enters' = enters + 1
  /\ stop' = FALSE
  /\ requests' = <<"subscribe">>
  /\ thread' = "listening"
  /\ UNCHANGED <<producerVars, subscribed, inbox, losses, broken, held, latest, waitVars>>

\* Fault: __exit__ does not unsubscribe.
ExitWithoutUnsubscribe ==
  /\ block = "inside"
  /\ block' = "exiting"
  /\ stop' = TRUE
  /\ UNCHANGED <<producerVars, redisVars, enters, listenVars, waitVars>>

\* p.unsubscribe(): the request is sent.  If the connection is lost it is sent
\* on a new one, after the SUBSCRIBE that redis-py repeats there, while the
\* thread may still be reading from the old one; or redis-py raises.
Unsubscribe ==
  \/ /\ ~broken
     /\ requests' = Append(requests, "unsubscribe")
     /\ block' = "exiting"
     /\ UNCHANGED broken
  \/ /\ broken
     /\ requests' = <<"subscribe", "unsubscribe">>
     /\ block' = "exiting"
     /\ broken' \in {FALSE, thread = "listening"}
  \/ /\ broken
     /\ block' = "raised"
     /\ UNCHANGED <<requests, broken>>

\* __exit__ up to thread.join(), or to the exception that skips it and
\* p.close().
Exit ==
  /\ block = "inside"
  /\ stop' = TRUE
  /\ Unsubscribe
  /\ UNCHANGED <<producerVars, subscribed, inbox, losses, enters, listenVars, waitVars>>

\* Fault: the thread is not joined.
ExitedWithoutJoin ==
  /\ block = "exiting"
  /\ block' = "outside"
  /\ subscribed' = FALSE /\ requests' = << >> /\ inbox' = << >> /\ broken' = FALSE
  /\ UNCHANGED <<producerVars, losses, enters, stop, listenVars, waitVars>>

\* thread.join() returns; p.close().
Exited ==
  /\ block = "exiting" /\ thread \notin Alive
  /\ block' = "outside"
  /\ subscribed' = FALSE /\ requests' = << >> /\ inbox' = << >> /\ broken' = FALSE
  /\ UNCHANGED <<producerVars, losses, enters, stop, listenVars, waitVars>>

\* What _run does with message i up to the lock.  ValidationError is not
\* caught: it ends the thread, and nobody is told.
Handle(i) ==
  \/ stop /\ thread' = "ended" /\ UNCHANGED held
  \/ ~stop /\ i = 0 /\ UNCHANGED <<thread, held>>
  \/ ~stop /\ i # 0 /\ published[i] \in bad /\ thread' = "dead" /\ UNCHANGED held
  \/ ~stop /\ i # 0 /\ published[i] \notin bad /\ thread' = "storing" /\ held' = i

\* Fault: the thread takes the newest message first and the others later.
ListenNewestFirst ==
  /\ thread = "listening" /\ ~broken /\ inbox # << >>
  /\ inbox' = SubSeq(inbox, 1, Len(inbox) - 1)
  /\ Handle(inbox[Len(inbox)])
  /\ UNCHANGED <<producerVars, subscribed, requests, losses, broken, ownerVars, latest,
                 waitVars>>

\* Fault: the loop is left at the first message that is not a sample.
ListenUntilConfirmation ==
  /\ thread = "listening" /\ ~broken /\ inbox # << >>
  /\ inbox' = Tail(inbox)
  /\ \/ Head(inbox) # 0 /\ Handle(Head(inbox))
     \/ Head(inbox) = 0 /\ thread' = "ended" /\ UNCHANGED held
  /\ UNCHANGED <<producerVars, subscribed, requests, losses, broken, ownerVars, latest,
                 waitVars>>

\* listen() yields the next message.
Listen ==
  /\ thread = "listening" /\ ~broken /\ inbox # << >>
  /\ inbox' = Tail(inbox)
  /\ Handle(Head(inbox))
  /\ UNCHANGED <<producerVars, subscribed, requests, losses, broken, ownerVars, latest,
                 waitVars>>

\* The calls of wait_for_sample that are under way.
Noted(i) == [t \in Threads |-> IF pc[t] = "idle" THEN floor[t] ELSE i]

\* Fault: the waiting threads are not notified.
StoreWithoutNotify ==
  /\ thread = "storing"
  /\ latest' = held
  /\ held' = 0
  /\ thread' = "listening"
  /\ floor' = Noted(held)
  /\ UNCHANGED <<producerVars, redisVars, ownerVars, pc, timed, result>>

\* with latest_sample_lock: the sample is stored, all who wait are notified.
Store ==
  /\ thread = "storing"
  /\ latest' = held
  /\ held' = 0
  /\ thread' = "listening"
  /\ pc' = [t \in Threads |-> IF pc[t] = "waiting" THEN "woken" ELSE pc[t]]
  /\ floor' = Noted(held)
  /\ UNCHANGED <<producerVars, redisVars, ownerVars, timed, result>>

-----------------------------------------------------------------------------
(* wait_for_sample.                                                        *)

\* get_sample: a sample that is there is returned.
WaitCall(t, timeout) ==
  /\ pc[t] = "idle" /\ block = "inside"
  /\ timed' = [timed EXCEPT ![t] = timeout]
  /\ floor' = [floor EXCEPT ![t] = latest]
  /\ \/ latest # 0 /\ result' = [result EXCEPT ![t] = latest] /\ UNCHANGED pc
     \/ latest = 0 /\ pc' = [pc EXCEPT ![t] = "checked"] /\ UNCHANGED result
  /\ UNCHANGED <<producerVars, redisVars, ownerVars, listenVars>>

\* The lock is taken again and given up by sample_condition.wait; whether a
\* sample has come in between is not looked at.
WaitBlocks(t) ==
  /\ pc[t] = "checked"
  /\ pc' = [pc EXCEPT ![t] = "waiting"]
  /\ UNCHANGED <<producerVars, redisVars, ownerVars, listenVars, timed, floor, result>>

\* Fault: the sample read before the wait is returned.
WaitReturnsFirstRead(t) ==
  /\ pc[t] = "woken" \/ (pc[t] = "waiting" /\ timed[t])
  /\ pc' = [pc EXCEPT ![t] = "idle"]
  /\ result' = [result EXCEPT ![t] = 0]
  /\ UNCHANGED <<producerVars, redisVars, ownerVars, listenVars, timed, floor>>

\* Fault: a wait that times out returns an error code, not a sample or None.
WaitReturnsCode(t) ==
  /\ pc[t] = "woken" \/ (pc[t] = "waiting" /\ timed[t])
  /\ pc' = [pc EXCEPT ![t] = "idle"]
  /\ result' = [result EXCEPT ![t] = IF pc[t] = "woken" THEN latest ELSE -1]
  /\ UNCHANGED <<producerVars, redisVars, ownerVars, listenVars, timed, floor>>

\* The wait ends, by a notification or by its timeout, with the lock held.
WaitReturns(t) ==
  /\ pc[t] = "woken" \/ (pc[t] = "waiting" /\ timed[t])
  /\ pc' = [pc EXCEPT ![t] = "idle"]
  /\ result' = [result EXCEPT ![t] = latest]
  /\ UNCHANGED <<producerVars, redisVars, ownerVars, listenVars, timed, floor>>

-----------------------------------------------------------------------------
Next ==
  \/ \E p \in Producers : Publish(p) \/ ProducerFails(p)
  \/ \E p \in Producers, finite \in BOOLEAN : SetSample(p, finite)
  \/ RedisConfirms \/ ConnectionLost \/ ThreadMeetsLoss
  \/ Enter \/ Exit \/ Exited \/ Listen \/ Store
  \/ \E t \in Threads, timeout \in BOOLEAN : WaitCall(t, timeout)
  \/ \E t \in Threads : WaitBlocks(t) \/ WaitReturns(t)

Spec == Init /\ [][Next]_vars

\* Redis answers, a lost connection is noticed, the threads run, and timeouts
\* run out.  Nobody has to store samples, to call wait_for_sample or to leave the
\* with statement.
Fairness ==
  /\ WF_vars(RedisConfirms) /\ WF_vars(ThreadMeetsLoss) /\ WF_vars(Exited)
  /\ WF_vars(Listen) /\ WF_vars(Store)
  /\ \A t \in Threads : WF_vars(WaitBlocks(t)) /\ WF_vars(WaitReturns(t))

FairSpec == Spec /\ Fairness

-----------------------------------------------------------------------------
(* Properties.                                                             *)

\* Whoever gets a sample from the channel finds it, or one stored later, in the
\* cache: set_sample stores before it publishes, and neither another producer
\* nor a producer that dies in between changes that.
ChannelFollowsCache == latest # 0 => published[latest] <= cache

\* latest_sample never goes back along the channel, through lost connections,
\* re-entered with statements and threads that are stopped while they store.
LatestNeverGoesBack == [][latest' >= latest]_vars

\* Once __exit__ has returned no thread listens and nothing is subscribed, so
\* that a second use of the object starts with one thread and one channel.  (It
\* may raise instead; see ExitEnds.)
NothingListensOutside ==
  block = "outside" => thread \notin Alive /\ ~subscribed /\ inbox = << >>

\* wait_for_sample returns nothing older than the newest sample that was stored
\* while it was called, and None only if there was none, also when it missed
\* the notification and its timeout ended the wait.
WaitReturnsNewest == \A t \in Threads : pc[t] = "idle" => result[t] >= floor[t]

\* __exit__ always comes to its end and the thread to its own, also the thread
\* that an __exit__ which raised did not join: the confirmation of UNSUBSCRIBE,
\* or of the SUBSCRIBE of a new connection, wakes a thread that no sample would
\* wake, or the lost connection ends it.
ExitEnds ==
  (block \in {"exiting", "raised"})
    ~> (block \in {"outside", "raised"} /\ thread \notin Alive)

\* A thread that waits on the condition when a sample is stored returns, also
\* without a timeout.
StoredSampleEndsWait ==
  \A t \in Threads : (pc[t] = "waiting" /\ thread = "storing") ~> (pc[t] = "idle")

\* A sample that has reached the connection becomes latest_sample, or a later
\* one does, unless the connection is lost again, the thread stopped, or a
\* sample that does not validate has ended it.
SamplesAreFollowed ==
  \A i \in 1 .. MaxSamples, n \in 0 .. MaxLosses :
    ((\E k \in 1 .. Len(inbox) : inbox[k] = i) /\ losses = n)
      ~> (latest >= i \/ losses > n \/ stop \/ thread = "dead")

=============================================================================
