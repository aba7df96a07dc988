---------------------------- MODULE ServerChoice ----------------------------
(***************************************************************************)
(* What parodus promises about the server it contacts: the one the cloud   *)
(* redirected it to since it last gave up or connected, else the one found *)
(* in the JWT, else the default one.  A server found in a JWT is kept.     *)
(***************************************************************************)
CONSTANTS Servers, Default, NULL

VARIABLES
    redirect,   \* where the cloud sent parodus, or NULL
    jwt,        \* the server of the JWT, or NULL as long as no lookup succeeded
    contacted   \* the server parodus is talking to, or NULL

Init == redirect = NULL /\ jwt = NULL /\ contacted = NULL

Chosen == IF redirect # NULL THEN redirect ELSE IF jwt # NULL THEN jwt ELSE Default

\* A redirect comes from the server contacted; what cannot be parsed leads nowhere.
Redirected ==
    /\ contacted # NULL /\ contacted' = NULL
    /\ redirect' \in Servers \cup {NULL} /\ UNCHANGED jwt

Contact == contacted' = Chosen /\ UNCHANGED <<redirect, jwt>>

HangUp == contacted' = NULL /\ UNCHANGED <<redirect, jwt>>

\* After an attempt, the redirect is forgotten and a missing JWT looked up.
Forget ==
    /\ contacted' = NULL /\ redirect' = NULL
    /\ jwt' = jwt \/ (jwt = NULL /\ jwt' \in Servers)

Next == Redirected \/ Contact \/ HangUp \/ Forget

Spec == Init /\ [][Next]_<<redirect, jwt, contacted>>
=============================================================================
