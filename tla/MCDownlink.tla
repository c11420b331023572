----------------------------- MODULE MCDownlink ------------------------------
(***************************************************************************)
(* Instances of Downlink for TLC.                                          *)
(***************************************************************************)
EXTENDS Downlink, TLC

\* The first sample just fits a read, the second is short, the third does not
\* fit: each of them joined with the next, or cut, by some read.
MCSize == [m \in Metrics |-> <<ReadMax, 1, ReadMax + 1>>]

\* A character of two bytes in the first sample and one in the third.
MCInner == [m \in Metrics |-> {<<1, 2>>, <<3, 3>>}]

=============================================================================
