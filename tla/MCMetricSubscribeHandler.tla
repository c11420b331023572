---------------------- MODULE MCMetricSubscribeHandler ----------------------
(***************************************************************************)
(* Instances of MetricSubscribeHandler for TLC, and what the README of the *)
(* command module says of it that its code does not do.                    *)
(***************************************************************************)
EXTENDS MetricSubscribeHandler

\* No update is under way or asked for.
Quiet ==
  /\ server = "up"
  /\ bpsq = << >> /\ maxq = << >>
  /\ \A o \in Owners : ~Updating(o)

\* command/README.md:7: "To start seeing samples from a metric, allocate bps to
\* it using setbps".  When no update is under way, a metric's live subscription
\* is the one of the table, at the rate that getmetricinfos shows as allocated.
BpsAsAllocated ==
  Quiet =>
    \A i \in SubIds :
      sub[i].st \in LiveSub =>
        /\ table[sub[i].metric] = i
        /\ sub[i].bps = bps[sub[i].metric]
=============================================================================
