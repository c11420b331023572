-------------------------- MODULE MCTelemetryServer --------------------------
(***************************************************************************)
(* Instances of TelemetryServer for TLC.                                   *)
(***************************************************************************)
EXTENDS TelemetryServer, TLC

CONSTANTS MaxPluginMsgs, MaxTypedMsgs

\* The subscriptions are interchangeable.
FeedSymmetry == Permutations(Feeds)

MCMaxMsgs == [w \in Sockets |-> IF w \in Plugins THEN MaxPluginMsgs ELSE MaxTypedMsgs]
=============================================================================
