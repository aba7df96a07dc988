--------------------------- MODULE MCClientList ----------------------------
(* Two services and up to three list entries.                               *)
EXTENDS ClientList
CONSTANTS a, long, n1, n2, n3
MCServices == {a, long}
MCNodes == {n1, n2, n3}
MCNoLong == {}
MCLong == {long}
-----------------------------------------------------------------------------
(* What the code does not keep.  No run checks LoggedNodeExists, which TLC   *)
(* refutes with the constants of Clients; with MCLong in place of MCNoLong   *)
(* it refutes CountIsLength and KeepaliveReachesAll.                         *)

\* The node whose url is logged after the mutex was given back still exists.
LoggedNodeExists == temp # NoNode => InList(temp)
=============================================================================
