----------------------------- MODULE MCRouting -----------------------------
(* Messages of every type to and from a client, parodus and other devices,  *)
(* with no, matching and foreign partner ids; besides what well-behaved     *)
(* senders send, contents that meet a weakness of the code.                 *)
EXTENDS Routing
At(d, s) == [dev |-> d, svc |-> s]
Msg(t, s, d, p, u) == [type |-> t, src |-> s, dst |-> d, partners |-> p, uuid |-> u]
MCServices == {"parodus", "parodux", "iot", "unknown", "tr1d1um"}
MCParodusLike == {"parodus", "parodux"}
MCPartners == {"acme", "ACME", "other"}
MCFold == [p \in MCPartners |-> IF p = "ACME" THEN "acme" ELSE p]
Cloud == At("other", "tr1d1um")
Iot == At("this", "iot")
Parodus == At("this", "parodus")
CRUDTypes == {"CREATE", "UPDATE", "RETRIEVE", "DELETE"}

UsualCloud ==
    {Msg(t, Cloud, d, NULL, TRUE) : t \in CRUDTypes, d \in {Parodus, Iot}}
    \cup {Msg("RETRIEVE", NULL, Parodus, NULL, TRUE), Msg("UPDATE", Cloud, Parodus, NULL, FALSE)}
    \cup {Msg("REQ", Cloud, d, p, TRUE) : d \in {Parodus, Iot},
                                         p \in {NULL, {}, {"ACME"}, {"other"}}}
    \cup {Msg("EVENT", Cloud, d, {"ACME", "other"}, TRUE) : d \in {Parodus, Iot}}
    \cup {Msg("AUTH", NULL, Parodus, NULL, FALSE)}

UsualClient ==
    {Msg("REG", NULL, Iot, NULL, FALSE), Msg("ALIVE", NULL, NULL, NULL, FALSE)}
    \cup {Msg("EVENT", Iot, Cloud, p, FALSE) : p \in {NULL, {"other"}, {"ACME", "other"}}}
    \cup {Msg(t, Iot, d, NULL, TRUE) : t \in CRUDTypes, d \in {Parodus, Cloud}}
    \cup {Msg("RETRIEVE", Iot, At("this", "unknown"), NULL, TRUE)}
    \cup {Msg("REQ", Iot, Cloud, NULL, TRUE)}

\* A request for a service whose name begins like parodus, and something that is
\* not a message; an event of the cloud without partner ids.
OddClient == {Msg("RETRIEVE", Iot, At("this", "parodux"), NULL, TRUE),
              Msg("BAD", NULL, NULL, NULL, FALSE)}
OddCloud == {Msg("EVENT", Cloud, Iot, NULL, TRUE)}

Acme == {"acme"}
MCClientMsgs == UsualClient \cup OddClient
MCCloudMsgs == UsualCloud \cup OddCloud
-----------------------------------------------------------------------------
(* What the code does not keep: no run checks this, TLC refutes it.         *)

\* A request of the cloud for a client is delivered, or the cloud is told.
RequestsDeliveredOrAnswered ==
    \A i \in Ids : CloudRequest(i) /\ Settled(i, "lost") => fate[i][1].to = "server"
=============================================================================
