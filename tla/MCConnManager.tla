--------------------------- MODULE MCConnManager ---------------------------
(* Small instances of ConnManager: one or two connection objects and a      *)
(* worker that waits for a signal.                                          *)
EXTENDS ConnManager, TLC
CONSTANTS c1, c2, up
OneConn == {c1}
TwoConns == {c1, c2}
OneWorker == {up}
NoWorker == {}
ConnSymmetry == Permutations(TwoConns)
-----------------------------------------------------------------------------
(* What the sources expect and the code does not keep: no run checks these, *)
(* TLC refutes each with the constants of ConnSafety.                       *)

\* createNopollConnection has chosen a server when it reads current_server.
ServerChosen == pc = "c_deref" => serverSet

\* A request to drop the connection and reconnect is served, also one of a
\* cloud-disconnect.
CloseRetryServed ==
    InterfaceStaysUp => (close_retry ~> (~close_retry \/ g_shutdown \/ ~Alive))

\* The main loop stays away from the cloud for five minutes only after a
\* cloud-disconnect that was accepted, not after one answered with 500.
PauseIsAsked ==
    pc = "cd_sleep" =>
        reconnect_reason = "cloud_disconnect" \/ kpc \in {"k_dup", "k_check", "k_reason"}

\* The CRUD thread answers every valid cloud-disconnect: the reason it has just
\* stored is still there when it is duplicated.
DisconnectAnswered == kpc = "k_dup" => cloud_disconnect = "set"

\* sendMessage writes to a connection nopoll has not released.
SendsOnLiveConnection ==
    (spc = "s_send" /\ sconn # NULL) => connState[sconn] # "free"
=============================================================================
