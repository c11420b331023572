------------------------------ MODULE Downlink ------------------------------
(***************************************************************************)
(* The way of a sample from the onboard cache to the telemetry server: the *)
(* onboard server, as TelemetryStream promises it, the TCP connections,    *)
(* which keep bytes in order but not the bounds of messages, and subscribe *)
(* on the ground, which takes what one read returns for one message.       *)
(*                                                                         *)
(* A byte is <<v, i>>: byte i of the telemetry that carries sample v.      *)
(***************************************************************************)
EXTENDS Integers, Sequences

CONSTANTS
  Conns,       \* the connections subscribe may open
  Metrics,     \* the metric ids
  MaxVersion,  \* bound: samples per metric
  ReadMax,     \* the 4096 of reader.read
  Size,        \* Size[m][v]: the bytes of the telemetry of sample v of m
  Inner        \* Inner[m]: the bytes that continue a character of UTF-8

ASSUME ConstantsAssumption ==
  /\ MaxVersion \in Nat /\ ReadMax \in Nat \ {0}
  /\ Size \in [Metrics -> [1 .. MaxVersion -> Nat \ {0}]]
  /\ Inner \in [Metrics -> SUBSET (Nat \X Nat)]

VARIABLES
  cache,   \* the sample cache of the onboard Redis
  since,   \* since[c]: the cache when c was made
  wrote,   \* wrote[c]: the telemetry the onboard server has written to c
  metric,  \* metric[c]: the metric c subscribes to
  link,    \* link[c]: the connection
  net,     \* net[c]: the bytes written to c and not read yet
  sub,     \* sub[c]: where subscribe is
  last,    \* last[c]: the sample it called handle_sample with last
  from,    \* from[c]: history: fed[metric[c]] when it connected
  fed,     \* fed[m]: history: the sample of m handed on last
  raced    \* history: the metrics that had two subscriptions at a time

onboardVars == <<cache, since, wrote>>
subVars == <<metric, sub, last, from, fed, raced>>
vars == <<onboardVars, link, net, subVars>>

Stream == INSTANCE TelemetryStream WITH stream <- wrote

-----------------------------------------------------------------------------
Versions == 1 .. MaxVersion

\* The connection is there: the onboard server downlinks, or its task has raised
\* and nothing is written any more, or it has closed its end.
Up == {"open", "mute", "eof"}

\* A subscription that is not over.
Live == {"reading", "handling"}

\* The bytes of the telemetry of sample v of m.
Bytes(m, v) == [i \in 1 .. Size[m][v] |-> <<v, i>>]

TypeOK ==
  /\ cache \in [Metrics -> 0 .. MaxVersion]
  /\ since \in [Conns -> [Metrics -> 0 .. MaxVersion]]
  /\ wrote \in [Conns -> Seq([kind : {"sample"}, metric : Metrics, ver : Versions])]
  /\ metric \in [Conns -> Metrics]
  /\ link \in [Conns -> {"none", "broken", "closed"} \union Up]
  /\ net \in [Conns -> Seq(Versions \X (Nat \ {0}))]
  /\ sub \in [Conns -> {"none", "ended"} \union Live]
  /\ last \in [Conns -> 0 .. MaxVersion]
  /\ from \in [Conns -> 0 .. MaxVersion]
  /\ fed \in [Metrics -> 0 .. MaxVersion]
  /\ raced \in SUBSET Metrics

Init ==
  /\ Stream!Init
  /\ metric \in [Conns -> Metrics]
  /\ link = [c \in Conns |-> "none"]
  /\ net = [c \in Conns |-> << >>]
  /\ sub = [c \in Conns |-> "none"]
  /\ last = [c \in Conns |-> 0]
  /\ from = [c \in Conns |-> 0]
  /\ fed = [m \in Metrics |-> 0]
  /\ raced = {}

-----------------------------------------------------------------------------
(* The onboard side and the network.                                       *)

\* A producer stores a sample.
Publish(m) ==
  /\ cache[m] < MaxVersion
  /\ Stream!Publish(m)
  /\ UNCHANGED <<link, net, subVars>>

\* Fault: the telecommand is taken for GetMetricIds, and the listing is written.
DownlinksListing(c) ==
  /\ link[c] = "open"
  /\ Stream!SendMetricIds(c)
  /\ net' = [net EXCEPT ![c] = Append(@, <<0, 1>>)]
  /\ UNCHANGED <<link, subVars>>

\* Fault: every connection is sent the samples from the first one on.
DownlinksFromFirst(c) ==
  /\ link[c] = "open"
  /\ LET v == Len(wrote[c]) + 1
     IN  /\ v <= cache[metric[c]]
         /\ wrote' = [wrote EXCEPT ![c] = Append(@, Stream!SampleMsg(metric[c], v))]
         /\ net' = [net EXCEPT ![c] = @ \o Bytes(metric[c], v)]
  /\ UNCHANGED <<cache, since, link, subVars>>

\* Fault: the sample is written again when the drain takes long.
DownlinksTwice(c) ==
  /\ link[c] = "open"
  /\ Stream!SendSample(c)
  /\ LET msg == wrote'[c][Len(wrote'[c])]
     IN  /\ msg.metric = metric[c]
         /\ net' = [net EXCEPT ![c] =
              @ \o Bytes(metric[c], msg.ver) \o Bytes(metric[c], msg.ver)]
  /\ UNCHANGED <<link, subVars>>

\* The onboard server writes a sample of the metric to the connection.
Downlinks(c) ==
  /\ link[c] = "open"
  /\ Stream!SendSample(c)
  /\ LET msg == wrote'[c][Len(wrote'[c])]
     IN  /\ msg.metric = metric[c]
         /\ net' = [net EXCEPT ![c] = @ \o Bytes(metric[c], msg.ver)]
  /\ UNCHANGED <<link, subVars>>

\* downlink_loop raises: get_sample_async does, or bps is 0 and bytes_sent is
\* divided by it.  The connection stays.
DownlinkRaises(c) ==
  /\ link[c] = "open"
  /\ link' = [link EXCEPT ![c] = "mute"]
  /\ UNCHANGED <<onboardVars, net, subVars>>

\* The onboard server ends the connection; what is under way arrives first.
OnboardCloses(c) ==
  /\ link[c] \in {"open", "mute"}
  /\ link' = [link EXCEPT ![c] = "eof"]
  /\ UNCHANGED <<onboardVars, net, subVars>>

\* The connection is reset, and what is under way is lost.
LinkBreaks(c) ==
  /\ link[c] \in Up
  /\ link' = [link EXCEPT ![c] = "broken"]
  /\ net' = [net EXCEPT ![c] = << >>]
  /\ UNCHANGED <<onboardVars, subVars>>

-----------------------------------------------------------------------------
(* subscribe.                                                              *)

LiveSubs(m) == {c \in Conns : sub[c] \in Live /\ metric[c] = m}

\* subscribe connects and sends its telecommand.  update_bps lets the former
\* subscription of the metric end first, unless two of its calls overlap.
Subscribe(c) ==
  /\ sub[c] = "none"
  /\ Stream!Connect(c)
  /\ link' = [link EXCEPT ![c] = "open"]
  /\ sub' = [sub EXCEPT ![c] = "reading"]
  /\ from' = [from EXCEPT ![c] = fed[metric[c]]]
  /\ raced' = IF LiveSubs(metric[c]) = {} THEN raced ELSE raced \union {metric[c]}
  /\ UNCHANGED <<net, metric, last, fed>>

\* data.decode() raises: a character is cut at one end of the data.
CutsCharacter(m, data) ==
  \/ Head(data) \in Inner[m]
  \/ LET b == data[Len(data)] IN <<b[1], b[2] + 1>> \in Inner[m]

\* Fault: what follows the message in the data is ignored.
IsMessagePrefix(m, data) ==
  LET b == Bytes(m, Head(data)[1])
  IN  Len(b) <= Len(data) /\ SubSeq(data, 1, Len(b)) = b

\* model_validate_json accepts the data: one message and nothing else.
IsMessage(m, data) == data = Bytes(m, Head(data)[1])

\* The subscription is over: its writer is closed.
Ends(c) ==
  /\ sub' = [sub EXCEPT ![c] = "ended"]
  /\ link' = [link EXCEPT ![c] = "closed"]
  /\ net' = [net EXCEPT ![c] = << >>]
  /\ UNCHANGED <<onboardVars, metric, last, from, fed, raced>>

\* reader.read returns k bytes.  UnicodeDecodeError is no ValidationError and
\* ends the subscription; data that is not one message is dropped.
Read(c, k) ==
  /\ sub[c] = "reading" /\ link[c] \in Up
  /\ k <= ReadMax /\ k <= Len(net[c])
  /\ LET m == metric[c]
         data == SubSeq(net[c], 1, k)
         v == Head(data)[1]
     IN  \/ CutsCharacter(m, data) /\ Ends(c)
         \/ /\ ~CutsCharacter(m, data)
            /\ net' = [net EXCEPT ![c] = SubSeq(@, k + 1, Len(@))]
            /\ \/ /\ IsMessage(m, data)
                  /\ sub' = [sub EXCEPT ![c] = "handling"]
                  /\ last' = [last EXCEPT ![c] = v]
                  /\ fed' = [fed EXCEPT ![m] = v]
               \/ /\ ~IsMessage(m, data)
                  /\ UNCHANGED <<sub, last, fed>>
            /\ UNCHANGED <<onboardVars, link, metric, from, raced>>

\* handle_sample returns.
Handled(c) ==
  /\ sub[c] = "handling"
  /\ sub' = [sub EXCEPT ![c] = "reading"]
  /\ UNCHANGED <<onboardVars, link, net, metric, last, from, fed, raced>>

\* handle_sample raises, read meets a broken connection, or the task is
\* cancelled.
SubscribeEnds(c) ==
  /\ sub[c] \in Live
  /\ Ends(c)

\* Fault: the bytes of a message are awaited and read at once.
ReadStepsWhole(c) ==
  \E k \in 1 .. ReadMax :
    k <= Len(net[c]) /\ IsMessage(metric[c], SubSeq(net[c], 1, k)) /\ Read(c, k)

\* A read returns as many bytes as have arrived, at most ReadMax.
ReadSteps(c) == \E k \in 1 .. ReadMax : Read(c, k)

-----------------------------------------------------------------------------
Next ==
  \/ \E m \in Metrics : Publish(m)
  \/ \E c \in Conns :
       \/ Downlinks(c) \/ DownlinkRaises(c) \/ OnboardCloses(c) \/ LinkBreaks(c)
       \/ Subscribe(c) \/ ReadSteps(c) \/ Handled(c) \/ SubscribeEnds(c)

Spec == Init /\ [][Next]_vars

\* The onboard server goes on downlinking while its task lives and there is a newer
\* sample, and the subscription reads on.  That handle_sample ends is not assumed:
\* a page that does not read may hold it.
Fairness == \A c \in Conns : WF_vars(Downlinks(c)) /\ WF_vars(ReadSteps(c))

FairSpec == Spec /\ Fairness

-----------------------------------------------------------------------------
(* Properties.                                                             *)

\* What add_sample relies on: however the reads cut and join the messages, a
\* subscription hands on a sample only if it is newer than all it handed on
\* before, and no older than what had been handed on when it connected.
FeedInOrder ==
  [][\A c \in Conns :
       sub[c] = "reading" /\ sub'[c] = "handling"
         => last'[c] > last[c] /\ last'[c] >= from[c]]_vars

\* The samples of a metric that reach the telemetry server never go back, over
\* subscriptions that end and are made again, unless two ran at a time.
GroundNeverGoesBack ==
  [][\A m \in Metrics : m \notin raced' => fed'[m] >= fed[m]]_vars

\* A subscription that hands on a sample reads on where the next message may
\* begin: whatever was cut or joined before, at most the rest of one message
\* lies between it and the next.
InStep ==
  \A c \in Conns :
    sub[c] = "handling" /\ net[c] # << >> => Head(net[c])[2] = 1

\* A subscription that lasts keeps up, unless handle_sample never returns: again
\* and again it has read all that was written, and the newest sample is among it
\* while the onboard task lives.  Bytes that are no message, samples that are handled
\* slowly, and an onboard server that fell silent never keep it from reading on.
KeepsUp ==
  \A c \in Conns :
    \/ <>[](sub[c] = "handling")
    \/ []<>(\/ sub[c] \notin Live \/ link[c] = "broken"
            \/ /\ sub[c] = "reading" /\ net[c] = << >>
               /\ link[c] = "open" /\ cache[metric[c]] > 0
                    => ~Stream!OlderSamplesOf(wrote[c], metric[c], cache[metric[c]]))
=============================================================================
