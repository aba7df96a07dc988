---------------------------- MODULE MCHeartbeat ----------------------------
(* A timeout of two seconds of three ticks and waits of up to two ticks: the *)
(* timer is reset, paused and raised at every point of a wait, and the       *)
(* timeout is no multiple of a wait.  A clock that is set moves both ways.   *)
EXTENDS Heartbeat

SomeSteps == {-1, 4}
-----------------------------------------------------------------------------
(* What the code does not keep: no run checks this, TLC refutes it with the  *)
(* constants of Heartbeat.                                                   *)

\* Ping_Miss closes no connection on which pings of any kind have come since the last
\* one that counted.
AnyPingCounts == missed /\ ~disturbed => ~ignored
=============================================================================
