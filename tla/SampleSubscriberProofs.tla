----------------------- MODULE SampleSubscriberProofs -----------------------
(***************************************************************************)
(* Proofs about SampleSubscriber, for any number of producers, of waiting  *)
(* threads, of samples, of entries and of lost connections.                *)
(*                                                                         *)
(* latest_sample follows the channel because all that is under way to it   *)
(* (OrderInv) is in the channel's order and newer than what is there, a    *)
(* fact that every loss of the connection, every exit and every entry has  *)
(* to keep.                                                                *)
(***************************************************************************)
EXTENDS SampleSubscriber, TLAPS

\* What is on its way, or in the channel, is stored.
CacheInv ==
  /\ \A p \in Producers : prod[p] <= cache
  /\ \A i \in 1 .. Len(published) : published[i] <= cache

\* Once __exit__ has returned nothing listens and nothing is asked of Redis.
BlockInv ==
  block = "outside" =>
    thread \notin Alive /\ ~subscribed /\ inbox = << >> /\ requests = << >>

\* The sample that is being stored is newer than the one that is.
HeldInv ==
  /\ held # 0 <=> thread = "storing"
  /\ held # 0 => latest < held

\* The samples in the inbox are newer than the one stored and the one being
\* stored, and in the order of the channel.
InboxInv ==
  /\ \A k \in 1 .. Len(inbox) :
       /\ inbox[k] <= Len(published)
       /\ inbox[k] # 0 => latest < inbox[k] /\ held < inbox[k]
  /\ \A j, k \in 1 .. Len(inbox) :
       j < k /\ inbox[j] # 0 /\ inbox[k] # 0 => inbox[j] < inbox[k]

OrderInv == HeldInv /\ InboxInv

\* A call that has returned gave the newest there was; one that has not will.
FloorInv ==
  \A t \in Threads : /\ pc[t] = "idle" => result[t] >= floor[t]
                     /\ pc[t] # "idle" => floor[t] <= latest

Inv == TypeOK /\ CacheInv /\ BlockInv /\ OrderInv /\ FloorInv

-----------------------------------------------------------------------------
(* Types.                                                                  *)

\* The sequences that the steps begin with.
LEMMA Requests ==
  /\ << >> \in Seq(PubSubRequests)
  /\ <<"subscribe">> \in Seq(PubSubRequests)
  /\ <<"subscribe", "unsubscribe">> \in Seq(PubSubRequests)
  /\ << >> \in Seq(Nat) /\ Len(<< >>) = 0
  /\ "unsubscribe" \in PubSubRequests
BY DEF PubSubRequests

\* Initially the invariant holds.
LEMMA InvInit == Init => Inv
<1> SUFFICES ASSUME Init PROVE Inv
  OBVIOUS
<1>1. TypeOK
  <2>1. published \in Seq(Nat) /\ inbox \in Seq(Nat) /\ Len(published) = 0
    BY Requests DEF Init
  <2>2. requests \in Seq(PubSubRequests)
    BY Requests DEF Init
  <2>3. /\ pc \in [Threads -> {"idle", "checked", "waiting", "woken"}]
        /\ timed \in [Threads -> BOOLEAN] /\ floor \in [Threads -> Nat]
        /\ result \in [Threads -> Nat] /\ prod \in [Producers -> Nat]
    BY DEF Init
  <2>4. held \in 0 .. Len(published) /\ latest \in 0 .. Len(published)
    BY <2>1 DEF Init
  <2> QED
    BY <2>1, <2>2, <2>3, <2>4 DEF Init, TypeOK
<1>2. CacheInv /\ BlockInv /\ OrderInv /\ FloorInv
  BY DEF Init, CacheInv, BlockInv, OrderInv, HeldInv, InboxInv, FloorInv, Alive
<1> QED
  BY <1>1, <1>2 DEF Inv

\* What _run does with a message keeps the types of what it changes.
LEMMA HandleTypes ==
  ASSUME TypeOK, NEW i \in Nat, i <= Len(published), Handle(i)
  PROVE  /\ thread' \in {"none", "ended", "dead"} \union Alive \union {thread}
         /\ held' \in 0 .. Len(published)
BY DEF Handle, TypeOK, Alive

\* Every step keeps the types.
LEMMA TypeStep ==
  TypeOK /\ InboxInv /\ [Next]_vars => TypeOK'
<1> SUFFICES ASSUME TypeOK, InboxInv, [Next]_vars PROVE TypeOK'
  OBVIOUS
<1> USE DEF TypeOK, Alive, producerVars, redisVars, ownerVars, listenVars, waitVars
<1>1. ASSUME NEW p \in Producers, Publish(p) PROVE TypeOK'
  <2>1. /\ published' \in Seq(Nat) /\ Len(published') = Len(published) + 1
        /\ prod' \in [Producers -> Nat] /\ inbox' \in Seq(Nat)
    BY <1>1 DEF Publish
  <2>2. held \in 0 .. Len(published') /\ latest \in 0 .. Len(published')
    BY <2>1
  <2> QED
    BY <1>1, <2>1, <2>2 DEF Publish
<1>2. ASSUME NEW p \in Producers, ProducerFails(p) PROVE TypeOK'
  BY <1>2 DEF ProducerFails
<1>3. ASSUME NEW p \in Producers, NEW finite \in BOOLEAN, SetSample(p, finite)
      PROVE  TypeOK'
  BY <1>3 DEF SetSample, Encoded
<1>4. ASSUME RedisConfirms PROVE TypeOK'
  BY <1>4 DEF RedisConfirms
<1>5. ASSUME ConnectionLost PROVE TypeOK'
  <2>1. requests' \in Seq(PubSubRequests) /\ inbox' \in Seq(Nat) /\ losses' \in Nat
    BY <1>5, Requests DEF ConnectionLost
  <2>2. broken' \in BOOLEAN /\ subscribed' \in BOOLEAN
    BY <1>5, Zenon DEF ConnectionLost
  <2> QED
    BY <1>5, <2>1, <2>2 DEF ConnectionLost
<1>6. ASSUME Enter PROVE TypeOK'
  <2>1. requests' \in Seq(PubSubRequests)
    BY <1>6, Requests DEF Enter
  <2>2. /\ thread' = "listening" /\ block' = "inside"
        /\ enters' = enters + 1 /\ stop' = FALSE
        /\ UNCHANGED <<producerVars, subscribed, inbox, losses, broken, held, latest,
                       waitVars>>
    BY <1>6, Zenon DEF Enter
  <2>3. /\ thread' \in {"none", "ended", "dead"} \union Alive
        /\ enters' \in Nat /\ block' \in {"outside", "inside", "exiting", "raised"}
    BY <2>2
  <2>4. stop' \in BOOLEAN
    BY <2>2
  <2>5. UNCHANGED <<producerVars, subscribed, inbox, losses, broken, held, latest,
                    waitVars>>
    BY <2>2
  <2> QED
    BY <2>1, <2>3, <2>4, <2>5
<1>7. ASSUME Exit PROVE TypeOK'
  <2>0. /\ \/ requests' = Append(requests, "unsubscribe")
           \/ requests' = <<"subscribe", "unsubscribe">>
           \/ requests' = requests
        /\ block' = "exiting" \/ block' = "raised"
    BY <1>7, Zenon DEF Exit, Unsubscribe
  <2>1. requests' \in Seq(PubSubRequests)
    <3>1. Append(requests, "unsubscribe") \in Seq(PubSubRequests)
      BY Requests
    <3> QED
      BY <2>0, <3>1, Requests, Zenon
  <2>2. broken' \in {broken, FALSE, thread = "listening"}
    BY <1>7, Zenon DEF Exit, Unsubscribe
  <2>3. broken' \in BOOLEAN /\ stop' \in BOOLEAN
    BY <1>7, <2>2, Zenon DEF Exit
  <2>4. block' \in {"outside", "inside", "exiting", "raised"}
    BY <2>0
  <2> QED
    BY <1>7, <2>1, <2>3, <2>4 DEF Exit
<1>8. ASSUME Exited PROVE TypeOK'
  BY <1>8, Requests DEF Exited
<1>9. ASSUME Listen PROVE TypeOK'
  <2>1. Head(inbox) \in Nat /\ Head(inbox) <= Len(published) /\ inbox' \in Seq(Nat)
    BY <1>9 DEF Listen, InboxInv
  <2>2. thread' \in {"none", "ended", "dead"} \union Alive /\ held' \in 0 .. Len(published)
    BY <1>9, <2>1, HandleTypes DEF Listen
  <2> QED
    BY <1>9, <2>1, <2>2 DEF Listen
<1>10. ASSUME Store PROVE TypeOK'
  BY <1>10 DEF Store, Noted
<1>11. ASSUME NEW t \in Threads, NEW timeout \in BOOLEAN, WaitCall(t, timeout)
       PROVE  TypeOK'
  <2>1. latest \in Nat
    OBVIOUS
  <2>2. floor' \in [Threads -> Nat] /\ timed' \in [Threads -> BOOLEAN]
    BY <1>11, <2>1 DEF WaitCall
  <2>3. /\ result' \in [Threads -> Nat]
        /\ pc' \in [Threads -> {"idle", "checked", "waiting", "woken"}]
    BY <1>11, <2>1 DEF WaitCall
  <2> QED
    BY <1>11, <2>2, <2>3 DEF WaitCall
<1>12. ASSUME NEW t \in Threads, WaitBlocks(t) \/ WaitReturns(t) PROVE TypeOK'
  <2>1. latest \in Nat
    OBVIOUS
  <2>2. /\ result' \in [Threads -> Nat]
        /\ pc' \in [Threads -> {"idle", "checked", "waiting", "woken"}]
    BY <1>12, <2>1 DEF WaitBlocks, WaitReturns
  <2> QED
    BY <1>12, <2>2 DEF WaitBlocks, WaitReturns
<1>13. ASSUME ThreadMeetsLoss PROVE TypeOK'
  <2>1. /\ requests' \in Seq(PubSubRequests) /\ inbox' \in Seq(Nat)
        /\ thread' \in {"none", "ended", "dead"} \union Alive
    BY <1>13, Requests DEF ThreadMeetsLoss
  <2>2. broken' \in BOOLEAN /\ subscribed' \in BOOLEAN
    BY <1>13 DEF ThreadMeetsLoss
  <2> QED
    BY <1>13, <2>1, <2>2 DEF ThreadMeetsLoss
<1>14. CASE UNCHANGED vars
  BY <1>14 DEF vars
<1> QED
  BY <1>1, <1>2, <1>3, <1>4, <1>5, <1>6, <1>7, <1>8, <1>9, <1>10, <1>11, <1>12,
     <1>13, <1>14 DEF Next

-----------------------------------------------------------------------------
(* The parts of the invariant.                                             *)

\* Every step keeps what is published stored.
LEMMA CacheStep ==
  TypeOK /\ CacheInv /\ [Next]_vars => CacheInv'
<1> SUFFICES ASSUME TypeOK, CacheInv, [Next]_vars PROVE CacheInv'
  OBVIOUS
<1> USE DEF TypeOK, CacheInv, producerVars, redisVars, ownerVars, listenVars, waitVars
<1>1. ASSUME NEW p \in Producers, Publish(p) PROVE CacheInv'
  <2>1. cache' = cache /\ \A q \in Producers : prod'[q] <= cache
    BY <1>1 DEF Publish
  <2>2. ASSUME NEW i \in 1 .. Len(published') PROVE published'[i] <= cache
    <3>1. /\ published' = Append(published, prod[p]) /\ prod[p] \in Nat
          /\ published \in Seq(Nat)
      BY <1>1 DEF Publish
    <3>2. /\ Len(published') = Len(published) + 1
          /\ published'[Len(published) + 1] = prod[p]
          /\ \A k \in 1 .. Len(published) : published'[k] = published[k]
      BY <3>1
    <3>3. i \in 1 .. Len(published) \/ i = Len(published) + 1
      BY <2>2, <3>1, <3>2
    <3>4. prod[p] <= cache
      OBVIOUS
    <3> QED
      BY <3>2, <3>3, <3>4
  <2> QED
    BY <2>1, <2>2
<1>2. ASSUME NEW p \in Producers, ProducerFails(p) PROVE CacheInv'
  BY <1>2 DEF ProducerFails
<1>3. ASSUME NEW p \in Producers, NEW finite \in BOOLEAN, SetSample(p, finite)
      PROVE  CacheInv'
  <2>1. cache' = cache + 1 /\ published' = published
    BY <1>3 DEF SetSample
  <2>2. ASSUME NEW q \in Producers PROVE prod'[q] <= cache'
    BY <1>3 DEF SetSample
  <2>3. ASSUME NEW i \in 1 .. Len(published) PROVE published[i] <= cache'
    <3>1. published[i] \in Nat
      BY <2>3
    <3> QED
      BY <2>1, <2>3, <3>1, SMTT(30)
  <2> QED
    BY <2>1, <2>2, <2>3
<1>4. CASE \/ RedisConfirms \/ ConnectionLost \/ ThreadMeetsLoss
           \/ Enter \/ Exit \/ Exited \/ Listen \/ Store
  BY <1>4 DEF RedisConfirms, ConnectionLost, ThreadMeetsLoss, Enter, Exit, Exited,
              Listen, Store
<1>5. ASSUME NEW t \in Threads, NEW timeout \in BOOLEAN,
             WaitCall(t, timeout) \/ WaitBlocks(t) \/ WaitReturns(t)
      PROVE  CacheInv'
  BY <1>5 DEF WaitCall, WaitBlocks, WaitReturns
<1>6. CASE UNCHANGED vars
  BY <1>6 DEF vars
<1> QED
  BY <1>1, <1>2, <1>3, <1>4, <1>5, <1>6 DEF Next

\* Every step keeps the outside of the with statement quiet.
LEMMA BlockStep ==
  TypeOK /\ BlockInv /\ [Next]_vars => BlockInv'
<1> SUFFICES ASSUME TypeOK, BlockInv, [Next]_vars PROVE BlockInv'
  OBVIOUS
<1> USE DEF BlockInv, Alive, producerVars, redisVars, ownerVars, listenVars, waitVars
<1>1. ASSUME NEW p \in Producers, Publish(p) \/ ProducerFails(p) PROVE BlockInv'
  BY <1>1 DEF Publish, ProducerFails
<1>2. ASSUME NEW p \in Producers, NEW finite \in BOOLEAN, SetSample(p, finite)
      PROVE  BlockInv'
  BY <1>2 DEF SetSample
<1>3. CASE RedisConfirms \/ ConnectionLost \/ ThreadMeetsLoss \/ Enter \/ Exit \/ Exited
  BY <1>3 DEF RedisConfirms, ConnectionLost, ThreadMeetsLoss, Enter, Exit,
              Unsubscribe, Exited
<1>4. CASE Listen \/ Store
  BY <1>4 DEF Listen, Store
<1>5. ASSUME NEW t \in Threads, NEW timeout \in BOOLEAN,
             WaitCall(t, timeout) \/ WaitBlocks(t) \/ WaitReturns(t)
      PROVE  BlockInv'
  BY <1>5 DEF WaitCall, WaitBlocks, WaitReturns
<1>6. CASE UNCHANGED vars
  BY <1>6 DEF vars
<1> QED
  BY <1>1, <1>2, <1>3, <1>4, <1>5, <1>6 DEF Next

\* Every step keeps what is under way in the channel's order and newer than
\* what has arrived.
LEMMA OrderStep ==
  TypeOK /\ BlockInv /\ OrderInv /\ [Next]_vars => OrderInv'
<1> SUFFICES ASSUME TypeOK, BlockInv, OrderInv, [Next]_vars PROVE OrderInv'
  OBVIOUS
<1> USE DEF OrderInv, Alive, producerVars, redisVars, ownerVars, listenVars, waitVars
<1>0. /\ inbox \in Seq(Nat) /\ published \in Seq(Nat)
      /\ latest \in Nat /\ held \in Nat
      /\ latest <= Len(published) /\ held <= Len(published)
  BY DEF TypeOK
<1>1. ASSUME NEW p \in Producers, Publish(p) PROVE OrderInv'
  <2>1. /\ UNCHANGED <<held, latest, thread>>
        /\ Len(published') = Len(published) + 1
        /\ inbox' = inbox \/ inbox' = Append(inbox, Len(published) + 1)
    BY <1>1 DEF Publish, TypeOK
  <2>2. CASE inbox' = inbox
    BY <1>0, <2>1, <2>2 DEF HeldInv, InboxInv
  <2>3. CASE inbox' = Append(inbox, Len(published) + 1)
    <3>1. /\ Len(inbox') = Len(inbox) + 1
          /\ inbox'[Len(inbox) + 1] = Len(published) + 1
          /\ \A k \in 1 .. Len(inbox) : inbox'[k] = inbox[k] /\ inbox[k] \in Nat
      BY <1>0, <2>3
    <3>2. Len(inbox) \in Nat /\ Len(published) \in Nat
      BY <1>0
    <3>3. ASSUME NEW k \in 1 .. Len(inbox')
          PROVE  /\ inbox'[k] <= Len(published')
                 /\ inbox'[k] # 0 => latest' < inbox'[k] /\ held' < inbox'[k]
      <4>1. CASE k \in 1 .. Len(inbox)
        BY <1>0, <2>1, <3>1, <3>2, <4>1 DEF InboxInv
      <4>2. CASE k = Len(inbox) + 1
        BY <1>0, <2>1, <3>1, <3>2, <4>2
      <4> QED
        BY <3>1, <3>2, <3>3, <4>1, <4>2
    <3>4. ASSUME NEW j \in 1 .. Len(inbox'), NEW k \in 1 .. Len(inbox'),
                 j < k, inbox'[j] # 0, inbox'[k] # 0
          PROVE  inbox'[j] < inbox'[k]
      <4>1. j \in 1 .. Len(inbox) /\ inbox[j] <= Len(published)
        BY <3>1, <3>2, <3>4 DEF InboxInv
      <4>2. CASE k \in 1 .. Len(inbox)
        BY <3>1, <3>4, <4>1, <4>2 DEF InboxInv
      <4>3. CASE k = Len(inbox) + 1
        BY <3>1, <3>2, <4>1, <4>3
      <4>4. k \in 1 .. Len(inbox) \/ k = Len(inbox) + 1
        BY <3>1, <3>2, <3>4
      <4> QED
        BY <4>2, <4>3, <4>4
    <3> QED
      BY <2>1, <3>3, <3>4 DEF HeldInv, InboxInv
  <2> QED
    BY <2>1, <2>2, <2>3
<1>2. ASSUME NEW p \in Producers, NEW finite \in BOOLEAN,
             ProducerFails(p) \/ SetSample(p, finite)
      PROVE  OrderInv'
  BY <1>2 DEF ProducerFails, SetSample, HeldInv, InboxInv
<1>3. CASE RedisConfirms
  <2>1. /\ UNCHANGED <<held, latest, thread, published>>
        /\ inbox' = Append(inbox, 0)
    BY <1>3 DEF RedisConfirms
  <2>2. /\ Len(inbox') = Len(inbox) + 1 /\ inbox'[Len(inbox) + 1] = 0
        /\ \A k \in 1 .. Len(inbox) : inbox'[k] = inbox[k] /\ inbox[k] \in Nat
    BY <1>0, <2>1
  <2> QED
    BY <1>0, <2>1, <2>2 DEF HeldInv, InboxInv
<1>4. CASE ConnectionLost \/ ThreadMeetsLoss \/ Exited
  <2>1. inbox' = << >> /\ UNCHANGED <<held, latest, published>>
    BY <1>4 DEF ConnectionLost, ThreadMeetsLoss, Exited
  <2>2. HeldInv'
    BY <1>4 DEF ConnectionLost, ThreadMeetsLoss, Exited, HeldInv
  <2> QED
    BY <2>1, <2>2 DEF InboxInv
<1>5. CASE Enter
  <2>1. thread \notin Alive /\ UNCHANGED <<held, latest, published, inbox>>
        /\ thread' = "listening"
    BY <1>5 DEF Enter, BlockInv
  <2> QED
    BY <2>1 DEF HeldInv, InboxInv
<1>6. CASE Exit
  BY <1>6 DEF Exit, HeldInv, InboxInv
<1>7. CASE Listen
  <2>1. /\ UNCHANGED <<latest, published>>
        /\ inbox # << >> /\ inbox' = Tail(inbox) /\ Handle(Head(inbox))
        /\ thread = "listening" /\ held = 0
    BY <1>7 DEF Listen, HeldInv
  <2>2. /\ Head(inbox) = inbox[1] /\ inbox[1] \in Nat /\ Len(inbox) \in Nat
        /\ Len(inbox) >= 1 /\ Len(inbox') = Len(inbox) - 1
        /\ \A k \in 1 .. Len(inbox') : inbox'[k] = inbox[k + 1] /\ inbox'[k] \in Nat
    BY <1>0, <2>1
  <2>3. /\ held' = 0 \/ (held' = inbox[1] /\ inbox[1] # 0)
        /\ held' # 0 <=> thread' = "storing"
    BY <2>1, <2>2 DEF Handle
  <2>4. HeldInv'
    BY <1>0, <2>1, <2>2, <2>3 DEF HeldInv, InboxInv
  <2>5. ASSUME NEW k \in 1 .. Len(inbox')
        PROVE  /\ inbox'[k] <= Len(published)
               /\ inbox'[k] # 0 => latest < inbox'[k] /\ held' < inbox'[k]
    <3>1. k + 1 \in 1 .. Len(inbox) /\ 1 \in 1 .. Len(inbox) /\ 1 < k + 1
      BY <2>2, <2>5
    <3> QED
      BY <1>0, <2>1, <2>2, <2>3, <2>5, <3>1 DEF InboxInv
  <2>6. ASSUME NEW j \in 1 .. Len(inbox'), NEW k \in 1 .. Len(inbox'),
               j < k, inbox'[j] # 0, inbox'[k] # 0
        PROVE  inbox'[j] < inbox'[k]
    <3>1. j + 1 \in 1 .. Len(inbox) /\ k + 1 \in 1 .. Len(inbox) /\ j + 1 < k + 1
      BY <2>2, <2>6
    <3> QED
      BY <2>2, <2>6, <3>1 DEF InboxInv
  <2> QED
    BY <2>1, <2>4, <2>5, <2>6 DEF InboxInv
<1>8. CASE Store
  <2>1. /\ latest' = held /\ held' = 0 /\ thread' = "listening"
        /\ UNCHANGED <<inbox, published>>
    BY <1>8 DEF Store
  <2>2. \A k \in 1 .. Len(inbox) : inbox[k] \in Nat
    BY <1>0
  <2> QED
    BY <1>0, <2>1, <2>2 DEF HeldInv, InboxInv
<1>9. ASSUME NEW t \in Threads, NEW timeout \in BOOLEAN,
             WaitCall(t, timeout) \/ WaitBlocks(t) \/ WaitReturns(t)
      PROVE  OrderInv'
  BY <1>9 DEF WaitCall, WaitBlocks, WaitReturns, HeldInv, InboxInv
<1>10. CASE UNCHANGED vars
  BY <1>10 DEF vars, HeldInv, InboxInv
<1> QED
  BY <1>1, <1>2, <1>3, <1>4, <1>5, <1>6, <1>7, <1>8, <1>9, <1>10 DEF Next

\* Every step leaves a call of wait_for_sample with the newest sample, or on
\* its way to it.
LEMMA FloorStep ==
  TypeOK /\ HeldInv /\ FloorInv /\ [Next]_vars => FloorInv'
<1> SUFFICES ASSUME TypeOK, HeldInv, FloorInv, [Next]_vars PROVE FloorInv'
  OBVIOUS
<1> USE DEF FloorInv, producerVars, redisVars, ownerVars, listenVars, waitVars
<1>0. latest \in Nat /\ held \in Nat /\ \A t \in Threads : floor[t] \in Nat
  BY DEF TypeOK
<1>1. ASSUME NEW p \in Producers, NEW finite \in BOOLEAN,
             Publish(p) \/ ProducerFails(p) \/ SetSample(p, finite)
      PROVE  FloorInv'
  BY <1>1 DEF Publish, ProducerFails, SetSample
<1>2. CASE \/ RedisConfirms \/ ConnectionLost \/ ThreadMeetsLoss
           \/ Enter \/ Exit \/ Exited \/ Listen
  BY <1>2 DEF RedisConfirms, ConnectionLost, ThreadMeetsLoss, Enter, Exit, Exited, Listen
<1>3. CASE Store
  BY <1>0, <1>3 DEF Store, Noted, TypeOK
<1>4. ASSUME NEW t \in Threads, NEW timeout \in BOOLEAN, WaitCall(t, timeout)
      PROVE  FloorInv'
  BY <1>0, <1>4 DEF WaitCall, TypeOK
<1>5. ASSUME NEW t \in Threads, WaitBlocks(t) PROVE FloorInv'
  BY <1>0, <1>5 DEF WaitBlocks, TypeOK
<1>6. ASSUME NEW t \in Threads, WaitReturns(t) PROVE FloorInv'
  BY <1>0, <1>6 DEF WaitReturns, TypeOK
<1>7. CASE UNCHANGED vars
  BY <1>7 DEF vars
<1> QED
  BY <1>1, <1>2, <1>3, <1>4, <1>5, <1>6, <1>7 DEF Next

-----------------------------------------------------------------------------
(* The theorems.                                                           *)

\* The inductive invariant holds in every reachable state.
THEOREM Invariance == Spec => []Inv
<1>1. Inv /\ [Next]_vars => Inv'
  BY TypeStep, CacheStep, BlockStep, OrderStep, FloorStep DEF Inv, OrderInv
<1> QED
  BY <1>1, InvInit, PTL DEF Spec

\* The state of producers, subscriber and waiting threads is well-formed: what
\* the thread stores, and what a call returns, are samples of the channel.
THEOREM TypeCorrect == Spec => []TypeOK
<1>1. Inv => TypeOK
  BY DEF Inv
<1> QED
  BY <1>1, Invariance, PTL

\* A sample that SampleSubscriber hands out is in the cache, or a later one is,
\* however the SETs and PUBLISHes of any number of producers interleave.
THEOREM CacheIsAhead == Spec => []ChannelFollowsCache
<1>1. Inv => ChannelFollowsCache
  BY DEF Inv, TypeOK, CacheInv, ChannelFollowsCache
<1> QED
  BY <1>1, Invariance, PTL

\* An __exit__ that returns leaves no thread and no subscription behind,
\* whatever the thread was doing and however often the connection was lost.
THEOREM ExitLeavesNothing == Spec => []NothingListensOutside
<1>1. Inv => NothingListensOutside
  BY DEF Inv, BlockInv, NothingListensOutside
<1> QED
  BY <1>1, Invariance, PTL

\* No call of wait_for_sample returns a sample older than one that was there
\* while it waited.
THEOREM WaitsReturnNewest == Spec => []WaitReturnsNewest
<1>1. Inv => WaitReturnsNewest
  BY DEF Inv, FloorInv, WaitReturnsNewest
<1> QED
  BY <1>1, Invariance, PTL

\* latest_sample only moves forward along the channel.
THEOREM LatestMovesForward == Spec => LatestNeverGoesBack
<1>1. Inv /\ [Next]_vars => [latest' >= latest]_vars
  <2> SUFFICES ASSUME Inv, [Next]_vars PROVE latest' >= latest
    OBVIOUS
  <2>0. latest \in Nat /\ held \in Nat
    BY DEF Inv, TypeOK
  <2> USE DEF producerVars, redisVars, ownerVars, listenVars, waitVars
  <2>1. CASE Store
    BY <2>0, <2>1 DEF Store, Inv, OrderInv, HeldInv
  <2>2. ASSUME NEW p \in Producers, NEW finite \in BOOLEAN,
               Publish(p) \/ ProducerFails(p) \/ SetSample(p, finite)
        PROVE  latest' >= latest
    BY <2>0, <2>2 DEF Publish, ProducerFails, SetSample
  <2>3. CASE \/ RedisConfirms \/ ConnectionLost \/ ThreadMeetsLoss
             \/ Enter \/ Exit \/ Exited \/ Listen
    BY <2>0, <2>3 DEF RedisConfirms, ConnectionLost, ThreadMeetsLoss, Enter, Exit,
                      Exited, Listen
  <2>4. ASSUME NEW t \in Threads, NEW timeout \in BOOLEAN,
               WaitCall(t, timeout) \/ WaitBlocks(t) \/ WaitReturns(t)
        PROVE  latest' >= latest
    BY <2>0, <2>4 DEF WaitCall, WaitBlocks, WaitReturns
  <2>5. CASE UNCHANGED vars
    BY <2>0, <2>5 DEF vars
  <2> QED
    BY <2>1, <2>2, <2>3, <2>4, <2>5 DEF Next
<1> QED
  BY <1>1, Invariance, PTL DEF Spec, LatestNeverGoesBack
=============================================================================
