--------------------------- MODULE MCCommandServer ---------------------------
(***************************************************************************)
(* An instance of CommandServer for TLC.                                   *)
(***************************************************************************)
EXTENDS CommandServer, TLC

CONSTANTS c1, c2, c3

\* A client that sends twice, one that sends once, and one that only listens.
MCPieces == c1 :> 2 @@ c2 :> 1 @@ c3 :> 0
=============================================================================
