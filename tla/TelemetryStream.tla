--------------------------- MODULE TelemetryStream ---------------------------
(***************************************************************************)
(* What the onboard server promises each of its clients, without saying    *)
(* how: a connection carries either one listing of the metric ids, or the  *)
(* samples of ONE metric, each a sample that really was stored, in the     *)
(* order they were stored and none of them twice.  Samples may be skipped  *)
(* (only the latest one is of use), never reordered, repeated or mixed     *)
(* with those of another metric, and none is older than what was stored    *)
(* when the connection was made.                                           *)
(*                                                                         *)
(* Samples of a metric are numbered by the order in which set_sample       *)
(* stored them; cache[m] is the number of the one in the cache, 0 if none. *)
(***************************************************************************)
EXTENDS Integers, Sequences

CONSTANTS Conns,    \* the connections clients may open
          Metrics   \* the metric ids

VARIABLES cache,    \* the sample cache of the onboard Redis
          since,    \* per connection, the cache when it was made
          stream    \* per connection, all the telemetry written to it

SampleMsg(m, v) == [kind |-> "sample", metric |-> m, ver |-> v]

MetricIdsMsg(ids) == [kind |-> "metric_ids", ids |-> ids]

\* Every message of s is a sample of metric m older than version v.
OlderSamplesOf(s, m, v) ==
  \A i \in 1 .. Len(s) :
    s[i].kind = "sample" /\ s[i].metric = m /\ s[i].ver < v

Init ==
  /\ cache = [m \in Metrics |-> 0]
  /\ since = [c \in Conns |-> cache]
  /\ stream = [c \in Conns |-> << >>]

\* A producer stores the next sample of m.
Publish(m) ==
  /\ cache' = [cache EXCEPT ![m] = @ + 1]
  /\ UNCHANGED <<since, stream>>

\* A client connects.
Connect(c) ==
  /\ stream[c] = << >>
  /\ since' = [since EXCEPT ![c] = cache]
  /\ UNCHANGED <<cache, stream>>

\* A connection is sent a stored sample, newer than all it was sent before and
\* no older than the connection.
SendSample(c) ==
  /\ \E m \in Metrics : \E v \in 1 .. cache[m] :
        /\ since[c][m] <= v
        /\ OlderSamplesOf(stream[c], m, v)
        /\ stream' = [stream EXCEPT ![c] = Append(@, SampleMsg(m, v))]
  /\ UNCHANGED <<cache, since>>

\* A connection is answered, once and with nothing else, which metrics exist.
SendMetricIds(c) ==
  /\ stream[c] = << >>
  /\ \E ids \in SUBSET {m \in Metrics : cache[m] > 0} :
        stream' = [stream EXCEPT ![c] = Append(@, MetricIdsMsg(ids))]
  /\ UNCHANGED <<cache, since>>

Next ==
  \/ \E m \in Metrics : Publish(m)
  \/ \E c \in Conns : Connect(c) \/ SendSample(c) \/ SendMetricIds(c)

Spec == Init /\ [][Next]_<<cache, since, stream>>
=============================================================================
