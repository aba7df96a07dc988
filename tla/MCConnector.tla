---------------------------- MODULE MCConnector ----------------------------
(* Two servers beside the default one, so that a redirect can lead from the *)
(* JWT's server to another and a second redirect on from there; two tokens, *)
(* so that a new one differs from the one refused; a back-off maximum above *)
(* the width of the int, so that the delay wraps around.                    *)
EXTENDS Connector
=============================================================================
