----------------------------- MODULE MCSignals -----------------------------
(* The handler on each of the threads, and as many interface events as it   *)
(* takes for an event to come before, during and after each wait.           *)
EXTENDS Signals
-----------------------------------------------------------------------------
(* What the code does not keep: no run checks these, TLC refutes each.      *)

\* The handler always returns.
HandlerAlwaysReturns == hpc = "i_lock" ~> hpc = "done"

\* After the handler, the main thread is in no delay but one that is about to end.
NoDelayAfterHandler == hpc = "done" /\ mpc = "b_wait" => woken
=============================================================================
