------------------------- MODULE MCSampleSubscriber -------------------------
(***************************************************************************)
(* Instances of SampleSubscriber for TLC, and a claim of its docstring     *)
(* that the code does not keep.                                            *)
(***************************************************************************)
EXTENDS SampleSubscriber

\* wait_for_sample returns once a sample is available, as its docstring says
\* ("If sample is already available, return it immediately").  The code looks
\* for one, gives up the lock and waits without looking again.
WaitReturnsWhatIsAvailable ==
  \A t \in Threads : (pc[t] # "idle" /\ latest # 0) ~> (pc[t] = "idle")

=============================================================================
