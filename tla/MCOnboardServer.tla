--------------------------- MODULE MCOnboardServer ---------------------------
(***************************************************************************)
(* Instances of OnboardServer for TLC, and what a comment of the           *)
(* repository says of the server that its code does not do.                *)
(***************************************************************************)
EXTENDS OnboardServer

CONSTANTS m1, m2

\* One metric that is stored again and again, and one that is stored once.
MCMaxVersion == [m \in Metrics |-> IF m = m1 THEN 2 ELSE 1]

\* One sample of each metric.
MCOneVersion == [m \in Metrics |-> 1]

\* codec/src/bvex_codec/telecommand.py:14: Cancel is a "special command to stop
\* currently running command and all commands recieved before the cancel command
\* is recieved".  When handle_connection reads it while a command runs, that
\* command is cancelled and the command queue is empty.
CancelStopsCommand ==
  [][\A c \in Conns :
       (/\ inbuf[c] = <<[type |-> "cancel"]>> /\ inbuf'[c] = << >>
        /\ task[c] \in Live)
         => (cancel'[c] \/ task'[c] \notin Live) /\ queue'[c] = << >>]_vars
=============================================================================
