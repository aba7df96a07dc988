------------------------------ MODULE Connector ------------------------------
(***************************************************************************)
(* How the main thread finds a server and gets a connection:               *)
(* createNopollConnection with find_servers, keep_trying_to_connect,       *)
(* connect_and_wait and wait_connection_ready, the auth token of           *)
(* auth_token.c, the back-off timer and the connection health file.        *)
(*                                                                         *)
(* ConnManager models the same calls from outside, with the connection     *)
(* object and the other threads; here the outcome of every call to nopoll, *)
(* curl and the JWT lookup is a choice.  webpa_url is a valid URL: if not, *)
(* parodus aborts at its start (ConnManager!CreateInvalidDefault).         *)
(***************************************************************************)
EXTENDS Integers

CONSTANTS
    Default,      \* the server of webpa_url
    Insecure,     \* 1 if that is an http URL, else 0
    Servers,      \* servers named by redirects and JWTs
    Tokens,       \* auth tokens
    Part,         \* part of a token
    AcquireJwt,   \* acquire_jwt
    ClientCert,   \* client_cert_path and hw_mac are given: tokens can be requested
    Flags,        \* cfg->flags: the sum of FLAGS_IPV6_ONLY and FLAGS_IPV4_ONLY as given
    MaxCount,     \* webpa_backoff_max
    IntBits,      \* width of the int that holds the delay: 32, or less to reach its end sooner
    NULL

IPV6_ONLY == 1
IPV4_ONLY == 2
MAX_CURL_RETRY_COUNT == 3

ASSUME ConnectorAssumption ==
    /\ NULL \notin Servers \cup {Default, Part} \cup Tokens
    /\ Part \notin Tokens
    /\ Insecure \in {0, 1}
    /\ Flags \in {0, IPV6_ONLY, IPV4_ONLY, IPV6_ONLY + IPV4_ONLY}
    /\ AcquireJwt \in BOOLEAN /\ ClientCert \in BOOLEAN
    /\ MaxCount \in Int /\ IntBits \in 4..32

VARIABLES
    pc,
    list,          \* server_list: the slots defaults, jwt and redirect
    current,       \* conn_ctx.current_server: a slot, or NULL
    is_ipv6,
    token,         \* cfg->webpa_auth_token
    curls,         \* requestNewAuthToken calls of this getAuthToken
    headers,       \* the token in conn_ctx.extra_headers
    count, delay,  \* backoff_timer
    wait,          \* seconds of the last back-off, 0 before the first
    health,        \* the connection health file
    ifdown,        \* interface_down_event
    g_shutdown,
    contacted,     \* history: the server being contacted
    valid          \* history: the last token granted and not refused since

lookVars == <<list, current>>
tokVars == <<token, curls, headers, valid>>
backVars == <<count, delay, wait, health>>
envVars == <<ifdown, g_shutdown>>
vars == <<pc, lookVars, is_ipv6, tokVars, backVars, envVars, contacted>>

Slots == {"defaults", "jwt", "redirect"}

\* A slot: the server or NULL, and allow_insecure: 1, 0, or -1 after an error.
Slot(s, i) == [server |-> s, insecure |-> i]
Parsed(s) == {Slot(s, i) : i \in {0, 1}}
BadUrl == Slot(NULL, -1)

\* free_server leaves allow_insecure as it is.
free_server(slots, s) == [slots EXCEPT ![s].server = NULL]

server_is_null(slots, s) == slots[s].server = NULL

get_current_server(slots) ==
    CASE ~server_is_null(slots, "redirect") -> "redirect"
      [] server_is_null(slots, "redirect") /\ ~server_is_null(slots, "jwt") -> "jwt"
      [] OTHER -> "defaults"

\* The lists find_servers may leave: webpa_url is parsed again; the JWT is looked
\* up, which fails or yields a server.
find_servers(slots) ==
    LET fresh == [free_server(free_server(slots, "redirect"), "jwt")
                     EXCEPT !["defaults"] = Slot(Default, Insecure)]
        found == {BadUrl} \cup UNION {Parsed(s) : s \in Servers}
    IN IF AcquireJwt THEN {[fresh EXCEPT !["jwt"] = j] : j \in found} ELSE {fresh}

Init ==
    /\ pc = "create"
    /\ list = [s \in Slots |-> Slot(NULL, 0)] /\ current = NULL
    /\ is_ipv6 = TRUE
    /\ token = NULL /\ curls = 0 /\ headers = NULL
    /\ count = 1 /\ delay = 1 /\ wait = 0 /\ health = "none"
    /\ ifdown = FALSE /\ g_shutdown = FALSE
    /\ contacted = NULL /\ valid = NULL

Goto(from, to) == pc = from /\ pc' = to
-----------------------------------------------------------------------------
(* createNopollConnection                                                   *)

\* memset of conn_ctx, a lookup if there is none yet, init_backoff_timer.
CreateEnter ==
    /\ Goto("create", "outer")
    /\ current' = NULL /\ headers' = NULL
    /\ list' \in IF server_is_null(list, "defaults") THEN find_servers(list) ELSE {list}
    /\ count' = 1 /\ delay' = 1 /\ wait' = 0 /\ health' = "START"
    /\ UNCHANGED <<is_ipv6, token, curls, valid, envVars, contacted>>

SetCurrentServer ==
    /\ ~g_shutdown /\ Goto("outer", "headers")
    /\ current' = get_current_server(list)
    /\ UNCHANGED <<list, is_ipv6, tokVars, backVars, envVars, contacted>>

\* A shutdown ends the loop the way a connection does; before the first round
\* current_server is NULL when it is read here, as in ConnManager.
ShutdownEnds ==
    /\ g_shutdown /\ Goto("outer", IF current = NULL THEN "crashed" ELSE "ended")
    /\ headers' = NULL /\ health' = IF current = NULL THEN health ELSE "STOP"
    /\ UNCHANGED <<lookVars, is_ipv6, token, curls, valid, count, delay, wait, envVars, contacted>>

\* The redirect is forgotten; without a JWT the servers are looked up again.
GaveUp ==
    /\ Goto("gave_up", "outer")
    /\ LET kept == free_server(list, "redirect") IN
       list' \in IF server_is_null(kept, "jwt") THEN find_servers(kept) ELSE {kept}
    /\ UNCHANGED <<current, is_ipv6, tokVars, backVars, envVars, contacted>>

\* Mutant of Connected: the redirect is kept for the next time.
ConnectedKeepsRedirect ==
    /\ Goto("connected", "online")
    /\ headers' = NULL /\ health' = "STOP"
    /\ UNCHANGED <<lookVars, is_ipv6, token, curls, valid, count, delay, wait, envVars, contacted>>

\* The redirect is forgotten here too; stop_conn_in_progress.
Connected ==
    /\ Goto("connected", "online")
    /\ list' = free_server(list, "redirect")
    /\ headers' = NULL /\ health' = "STOP"
    /\ UNCHANGED <<current, is_ipv6, token, curls, valid, count, delay, wait, envVars, contacted>>
-----------------------------------------------------------------------------
(* set_extra_headers and getAuthToken                                       *)

\* ipv6 first, unless ipv4 only is asked for.
Connect4or6 == is_ipv6' = (Flags \in {0, IPV6_ONLY})

\* The loop of keep_trying_to_connect: a token is requested if there is none.
SetExtraHeaders ==
    /\ \/ g_shutdown /\ Goto("headers", "gave_up") /\ UNCHANGED <<headers, is_ipv6, curls>>
       \/ /\ ~g_shutdown /\ token = NULL /\ ClientCert
          /\ Goto("headers", "curl") /\ curls' = 0 /\ UNCHANGED <<headers, is_ipv6>>
       \/ /\ ~g_shutdown /\ ~(token = NULL /\ ClientCert)
          /\ Goto("headers", "connect") /\ headers' = token /\ Connect4or6 /\ UNCHANGED curls
    /\ UNCHANGED <<lookVars, token, valid, backVars, envVars, contacted>>

\* curl gets an answer with status 200; it may be empty.
TokenGranted ==
    /\ Goto("curl", "connect")
    /\ \E t \in Tokens \cup {NULL} : token' = t /\ headers' = t /\ valid' = t
    /\ curls' = 0 /\ Connect4or6
    /\ UNCHANGED <<lookVars, backVars, envVars, contacted>>

\* write_callback_fn stores what has arrived so far in the configuration.
TokenData ==
    /\ pc = "curl" /\ token' = Part
    /\ UNCHANGED <<pc, lookVars, is_ipv6, curls, headers, valid, backVars, envVars, contacted>>

GiveUpToken == headers' = token' /\ Connect4or6 /\ pc' = "connect"

\* Mutant of TokenFails: the token is asked for until it is granted.
TokenFailsForever ==
    /\ pc = "curl" /\ token' = NULL
    /\ UNCHANGED <<pc, lookVars, is_ipv6, curls, headers, valid, backVars, envVars, contacted>>

\* curl cannot be initialised or fails, also because the token overruns its
\* buffer, or the status is another: what was received is cleared.  The third
\* failure leaves parodus without a token.
TokenFails ==
    /\ pc = "curl" /\ curls' = curls + 1 /\ token' = NULL
    /\ IF curls' = MAX_CURL_RETRY_COUNT THEN GiveUpToken
       ELSE UNCHANGED <<pc, headers, is_ipv6>>
    /\ UNCHANGED <<lookVars, valid, backVars, envVars, contacted>>
-----------------------------------------------------------------------------
(* connect_and_wait and wait_connection_ready                               *)

\* nopoll_connect to the server current_server points to.
NopollConnect ==
    /\ Goto("connect", "wait")
    /\ contacted' = list[current].server
    /\ UNCHANGED <<lookVars, is_ipv6, tokVars, backVars, envVars>>

WaitSuccess ==
    /\ Goto("wait", "connected")
    /\ contacted' = NULL
    /\ UNCHANGED <<lookVars, is_ipv6, tokVars, backVars, envVars>>

\* Mutant of WaitRedirect: current_server is not set again.
WaitRedirectKeepsCurrent(u) ==
    /\ Goto("wait", "headers")
    /\ list' = [list EXCEPT !["redirect"] = u]
    /\ contacted' = NULL
    /\ UNCHANGED <<current, is_ipv6, tokVars, backVars, envVars>>

\* 302, 303 or 307 with a valid URL: try that server at once.
WaitRedirect(u) ==
    /\ Goto("wait", "headers")
    /\ list' = [list EXCEPT !["redirect"] = u]
    /\ current' = get_current_server(list')
    /\ contacted' = NULL
    /\ UNCHANGED <<is_ipv6, tokVars, backVars, envVars>>

\* The same with an invalid URL: the slot is freed, and the attempt has failed.
WaitBadRedirect ==
    /\ Goto("wait", "try_other")
    /\ list' = [list EXCEPT !["redirect"] = BadUrl]
    /\ contacted' = NULL
    /\ UNCHANGED <<current, is_ipv6, tokVars, backVars, envVars>>

\* Mutant of WaitForbidden: the refused token stays in the configuration.
WaitForbiddenKeepsToken ==
    /\ Goto("wait", "headers")
    /\ valid' = NULL /\ contacted' = NULL
    /\ UNCHANGED <<lookVars, is_ipv6, token, curls, headers, backVars, envVars>>

\* 403: the token is cleared, and the server tried again at once.
WaitForbidden ==
    /\ Goto("wait", "headers")
    /\ token' = NULL /\ valid' = NULL /\ contacted' = NULL
    /\ UNCHANGED <<lookVars, is_ipv6, curls, headers, backVars, envVars>>

\* No connection, a broken one, a timeout, or another status.
WaitFails ==
    /\ Goto("wait", "try_other")
    /\ contacted' = NULL
    /\ UNCHANGED <<lookVars, is_ipv6, tokVars, backVars, envVars>>

\* ipv4 after ipv6 if both are allowed and the server is a secure one.
TryOther ==
    /\ pc = "try_other"
    /\ IF Flags = 0 /\ list[current].insecure = 0 /\ is_ipv6
       THEN pc' = "connect" /\ is_ipv6' = FALSE
       ELSE pc' = "failed" /\ UNCHANGED is_ipv6
    /\ UNCHANGED <<lookVars, tokVars, backVars, envVars, contacted>>
-----------------------------------------------------------------------------
(* The wait after a failure                                                 *)

\* A result of int arithmetic that does not fit wraps around.
AsInt(n) == ((n + 2 ^ (IntBits - 1)) % 2 ^ IntBits) - 2 ^ (IntBits - 1)

\* Mutant of update_backoff_delay: the count is compared after it was raised.
update_backoff_delay_late ==
    /\ count' = count + 1
    /\ delay' = IF count' < MaxCount THEN AsInt(delay + delay + 1) ELSE delay

update_backoff_delay ==
    IF count < MaxCount THEN count' = count + 1 /\ delay' = AsInt(delay + delay + 1)
    ELSE UNCHANGED <<count, delay>>

\* A random number of seconds up to the delay, at least 3.
calc_random_secs(r) == IF r < 3 THEN r + 3 ELSE r

\* random() & (unsigned) n: what wraps around to -1 masks all the bits random() has.
Mask(n) == IF n >= 0 THEN n ELSE 2 ^ (IntBits - 1) - 1

\* The health file is refreshed if 240 seconds have passed.
BackoffDelay ==
    /\ ~ifdown /\ Goto("failed", "gave_up")
    /\ update_backoff_delay
    /\ wait' \in IF delay' \in 0..3 THEN {3} ELSE {calc_random_secs(r) : r \in 0..Mask(delay')}
    /\ health' \in {health, "START"}
    /\ UNCHANGED <<lookVars, is_ipv6, tokVars, envVars, contacted>>

\* wait_while_interface_down returns when the interface is up or at a shutdown.
InterfaceDown ==
    /\ ifdown /\ Goto("failed", "if_wait")
    /\ UNCHANGED <<lookVars, is_ipv6, tokVars, backVars, envVars, contacted>>

InterfaceBack ==
    /\ Goto("if_wait", "gave_up") /\ (~ifdown \/ g_shutdown)
    /\ health' = IF g_shutdown THEN health ELSE "START"
    /\ UNCHANGED <<lookVars, is_ipv6, tokVars, count, delay, wait, envVars, contacted>>
-----------------------------------------------------------------------------
\* The connection is lost, and the main thread creates another.
Lost ==
    /\ Goto("online", "create") /\ ~g_shutdown
    /\ UNCHANGED <<lookVars, is_ipv6, tokVars, backVars, envVars, contacted>>

InterfaceGoesDown ==
    /\ ~ifdown /\ ifdown' = TRUE
    /\ UNCHANGED <<pc, lookVars, is_ipv6, tokVars, backVars, g_shutdown, contacted>>

InterfaceComesUp ==
    /\ ifdown /\ ifdown' = FALSE
    /\ UNCHANGED <<pc, lookVars, is_ipv6, tokVars, backVars, g_shutdown, contacted>>

\* The signal handler, which also resets interface_down_event.
Shutdown ==
    /\ g_shutdown' = TRUE /\ ifdown' = FALSE
    /\ UNCHANGED <<pc, lookVars, is_ipv6, tokVars, backVars, contacted>>

Wait ==
    \/ WaitSuccess \/ WaitBadRedirect \/ WaitForbidden \/ WaitFails
    \/ \E s \in Servers : \E u \in Parsed(s) : WaitRedirect(u)

Step ==
    \/ CreateEnter \/ SetCurrentServer \/ ShutdownEnds \/ GaveUp \/ Connected
    \/ SetExtraHeaders \/ TokenGranted \/ TokenFails
    \/ NopollConnect \/ Wait \/ TryOther
    \/ BackoffDelay \/ InterfaceDown \/ InterfaceBack

Next == Step \/ TokenData \/ Lost \/ InterfaceGoesDown \/ InterfaceComesUp \/ Shutdown

Spec == Init /\ [][Next]_vars

\* The main thread runs and curl returns within its timeout; a server that is
\* contacted again and again answers once; an interface that went down comes back
\* and once stays up long enough to be noticed.
FairSpec ==
    Spec /\ WF_vars(Step) /\ SF_vars(WaitSuccess)
         /\ WF_vars(InterfaceComesUp) /\ SF_vars(InterfaceBack)
-----------------------------------------------------------------------------
PCs == {"create", "outer", "headers", "curl", "connect", "wait", "connected", "online",
        "try_other", "failed", "if_wait", "gave_up", "ended", "crashed"}
Connecting == pc \notin {"create", "online", "ended", "crashed"}

\* Type invariant; current_server points to a slot while it is used.
TypeOK ==
    /\ pc \in PCs
    /\ list \in [Slots -> [server : Servers \cup {Default, NULL}, insecure : {-1, 0, 1}]]
    /\ current \in Slots \cup {NULL}
    /\ pc \notin {"create", "outer", "crashed"} => current \in Slots
    /\ is_ipv6 \in BOOLEAN
    /\ token \in Tokens \cup {Part, NULL} /\ headers \in Tokens \cup {Part, NULL}
    /\ curls \in 0..MAX_CURL_RETRY_COUNT
    /\ count \in Nat /\ delay \in Int /\ wait \in Nat
    /\ health \in {"none", "START", "STOP"}
    /\ ifdown \in BOOLEAN /\ g_shutdown \in BOOLEAN
    /\ contacted \in Servers \cup {Default, NULL} /\ valid \in Tokens \cup {NULL}

\* The server contacted is the one chosen: a redirect given since the last failure
\* or success, else the JWT's, else webpa-url's; a JWT's server once found is not
\* looked up again.  current_server is a pointer into slots that are freed and
\* filled meanwhile; it never leads to a stale one.
Choice == INSTANCE ServerChoice WITH
              redirect <- list["redirect"].server, jwt <- list["jwt"].server
ImplementsServerChoice == Choice!Spec

\* A server that is contacted has an address, also after a redirect to a URL that
\* could not be parsed.
ContactsAddress == pc = "wait" => contacted # NULL

\* The headers carry the last token granted if it was not refused since, and no
\* other: neither a refused one nor part of one.
HeadersCarryValidToken == pc \in {"connect", "wait"} => headers = valid

\* The delay doubles up to webpa_backoff_max and not beyond the width of an int:
\* a wait is of 3 seconds at least and of 2^c - 1 at most, where the count c starts
\* again at 1 with every connection.
BackoffBounded ==
    LET c == IF count < IntBits THEN count ELSE IntBits - 1 IN
    /\ count <= IF MaxCount < 1 THEN 1 ELSE MaxCount
    /\ wait # 0 => 3 <= wait /\ (wait = 3 \/ wait <= 2 ^ c - 1)

\* Between attempts there is no redirect left.
RedirectForgotten == pc \in {"create", "outer", "online"} => list["redirect"].server = NULL

\* The health file says START while parodus tries to connect and STOP while it is
\* connected.
HealthFileTells ==
    /\ Connecting => health = "START"
    /\ pc = "online" => health = "STOP"

\* What an attempt reads and leaves behind fits how it ends: in the loop there is a
\* current server, what is contacted has an address, no redirect outlives its attempt
\* and the health file tells the outcome.
AttemptSound == TypeOK /\ ContactsAddress /\ RedirectForgotten /\ HealthFileTells

\* Parodus connects in the end, whatever redirects, refused tokens and failed
\* lookups come before.
Connects == pc = "create" ~> (pc = "online" \/ g_shutdown)
=============================================================================
