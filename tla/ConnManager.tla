---------------------------- MODULE ConnManager ----------------------------
(***************************************************************************)
(* The life of parodus' websocket connection to the cloud.                 *)
(*                                                                         *)
(* The main thread (createSocketConnection, conn_interface.c) creates the  *)
(* connection, runs the nopoll loop, closes and re-creates the connection  *)
(* when close_retry is set, waits while the network interface is down, and *)
(* on shutdown wakes and joins the worker threads.  Other threads act at   *)
(* the same time on the same flags:                                        *)
(*   - the signal handler (shutdownSocketConnection);                      *)
(*   - the thread that sends a message upstream (sendUpstreamMsgToServer); *)
(*   - the CRUD thread serving a cloud-disconnect UPDATE;                  *)
(*   - the external interface event handler;                               *)
(*   - the worker threads, of which only the waiting and the exit matter.  *)
(*                                                                         *)
(* Every step of the main thread is one access of the shared state, so the *)
(* model has the interleavings the code has.  Which server is contacted    *)
(* and how is left to the outcome of an attempt: success, retry, failure.  *)
(***************************************************************************)
EXTENDS Integers, FiniteSets

CONSTANTS
    Conns,               \* noPollConn objects; a closed one may be allocated again
    NULL,                \* the null connection pointer
    Workers,             \* the threads main joins
    TimedWorkers,        \* those whose wait ends by itself (serviceAliveTask, handle_upstream)
    Sender,              \* the worker that calls sendUpstreamMsgToServer, or NULL
    PingTimeout,         \* webpa_ping_timeout, in passes of the main loop
    MaxTries,            \* connect_and_wait: an ipv6 attempt, then an ipv4 one
    WithInterface,       \* interface events happen
    WithCloudDisconnect, \* cloud-disconnect requests arrive
    WithSendFailure      \* nopoll may find the connection broken while sending

ASSUME ConnManagerAssumption ==
    /\ NULL \notin Conns
    /\ TimedWorkers \subseteq Workers
    /\ NULL \notin Workers /\ Sender \in Workers \cup {NULL}
    /\ PingTimeout \in Nat \ {0}
    /\ MaxTries \in Nat \ {0}
    /\ {WithInterface, WithCloudDisconnect, WithSendFailure} \subseteq BOOLEAN

VARIABLES
    pc,               \* where the main thread is
    ret,              \* where it goes after closing the connection
    ifret,            \* where wait_while_interface_down returns to
    tries,            \* nopoll_connect calls of this connect_and_wait
    serverSet,        \* conn_ctx.current_server # NULL
    started,          \* the worker threads have been started
    g_conn,           \* get_global_conn()
    connState,        \* what has become of each connection object
    cloud_status,     \* cfg->cloud_status
    close_retry,
    g_shutdown,
    interface_down_event,
    cloud_disconnect, \* cfg->cloud_disconnect: NULL, a reason, a dangling pointer
    heartBeatTimer, paused,
    reconnect_reason, reconnect_status,
    hpc,              \* the signal handler
    spc, sconn,       \* the sender and the connection it was given
    kpc,              \* the CRUD thread in a cloud-disconnect UPDATE
    wst               \* the worker threads

ctlVars    == <<ret, ifret, tries, serverSet, started>>
connVars   == <<g_conn, connState, cloud_status>>
reasonVars == <<reconnect_reason, reconnect_status>>
dataVars   == <<close_retry, cloud_disconnect, heartBeatTimer, reasonVars, wst>>
\* what the main thread itself never writes
otherVars  == <<g_shutdown, interface_down_event, paused, hpc, spc, sconn, kpc>>
vars == <<pc, ctlVars, connVars, dataVars, otherVars>>

\* The states of a connection object.  "free": nopoll_conn_close_ext released it
\* or it was never allocated; "opening": created, handshake not finished;
\* "ready": handshake finished; "open": message handlers installed; "dead": the
\* socket is shut, the object still referenced.
ConnStates == {"free", "opening", "ready", "open", "dead"}
PCs == {"create", "c_while", "k_while", "k_connect", "k_wait", "k_failed",
        "backoff", "backoff_wait", "c_deref", "c_reset", "c_reason", "c_handlers",
        "loop_wait", "hb", "if_check", "close_ext", "close_off", "close_null",
        "ifd_test", "ifd_lock", "ifd_wait", "ifd_woken", "cr_check", "cd_check",
        "cd_sleep", "cd_reset", "loop_test", "exit", "join",
        "done", "crashed", "aborted"}
Ended   == {"done", "crashed", "aborted"}
Rets    == {"k_while", "k_connect", "k_failed", "ifd_test", "cd_check", "done"}
Reasons == {"webpa_process_starts", "Ping_Miss", "SSL_Socket_Close", "Unknown",
            "Dns_Res_webpa_reconnect", "cloud_disconnect"}

Alive   == pc \notin Ended
Running == Alive /\ started
Goto(from, to) == pc = from /\ pc' = to

Init ==
    /\ pc = "create" /\ ret = "done" /\ ifret = "cr_check" /\ tries = 0
    /\ serverSet = FALSE /\ started = FALSE
    /\ g_conn = NULL /\ connState = [c \in Conns |-> "free"]
    /\ cloud_status = "unset"
    /\ close_retry = FALSE /\ g_shutdown = FALSE /\ interface_down_event = FALSE
    /\ cloud_disconnect = "null"
    /\ heartBeatTimer = 0 /\ paused = FALSE
    /\ reconnect_reason = "webpa_process_starts" /\ reconnect_status = FALSE
    /\ hpc = "idle" /\ spc = "idle" /\ sconn = NULL /\ kpc = "idle"
    /\ wst = [w \in Workers |-> "run"]
-----------------------------------------------------------------------------
(* createNopollConnection and keep_trying_to_connect, on the main thread.   *)

\* memset clears current_server; the first call parses the default URL, and
\* createSocketConnection aborts when that fails.
CreateEnter ==
    /\ Goto("create", "c_while")
    /\ serverSet' = FALSE
    /\ UNCHANGED <<ret, ifret, tries, started, connVars, dataVars, otherVars>>

CreateInvalidDefault ==
    /\ Goto("create", "aborted")
    /\ ~started
    /\ UNCHANGED <<ctlVars, connVars, dataVars, otherVars>>

\* while (!g_shutdown) of createNopollConnection.
CreateWhile ==
    /\ \/ ~g_shutdown /\ Goto("c_while", "k_while") /\ serverSet' = TRUE
       \/ g_shutdown /\ Goto("c_while", "c_deref") /\ UNCHANGED serverSet
    /\ UNCHANGED <<ret, ifret, tries, started, connVars, dataVars, otherVars>>

\* while (!g_shutdown) of keep_trying_to_connect.
KeepTrying ==
    /\ \/ ~g_shutdown /\ Goto("k_while", "k_connect") /\ tries' = 0
       \/ g_shutdown /\ Goto("k_while", "c_while") /\ UNCHANGED tries
    /\ UNCHANGED <<ret, ifret, serverSet, started, connVars, dataVars,
                   otherVars>>

\* nopoll_connect gets a connection object.
NopollConnect(c) ==
    /\ Goto("k_connect", "k_wait")
    /\ connState[c] = "free"
    /\ connState' = [connState EXCEPT ![c] = "opening"]
    /\ g_conn' = c
    /\ tries' = tries + 1
    /\ UNCHANGED <<ret, ifret, serverSet, started, cloud_status, dataVars,
                   otherVars>>

\* Where connect_and_wait goes after a failed attempt: ipv4 after ipv6 when the
\* configuration asks for both, else CONN_WAIT_FAIL.
AfterFailure(n) == IF n < MaxTries THEN {"k_connect", "k_failed"} ELSE {"k_failed"}

\* nopoll_connect gets none.
NopollConnectNone ==
    /\ pc = "k_connect"
    /\ pc' \in AfterFailure(tries + 1)
    /\ g_conn' = NULL
    /\ tries' = tries + 1
    /\ UNCHANGED <<ret, ifret, serverSet, started, connState, cloud_status,
                   dataVars, otherVars>>

\* The same on ipv4 after 15 minutes of DNS answering 10.0.0.1: parodus sends
\* itself SIGTERM.
NopollConnectDnsStuck ==
    /\ Goto("k_connect", "k_failed")
    /\ ~interface_down_event
    /\ hpc' = IF hpc = "idle" THEN "h_flag" ELSE hpc
    /\ reconnect_reason' = "Dns_Res_webpa_reconnect" /\ reconnect_status' = TRUE
    /\ g_conn' = NULL
    /\ tries' = tries + 1
    /\ UNCHANGED <<ret, ifret, serverSet, started, connState, cloud_status,
                   close_retry, cloud_disconnect, heartBeatTimer, wst,
                   g_shutdown, interface_down_event, paused, spc, sconn, kpc>>

\* wait_connection_ready succeeds.
WaitReady ==
    /\ Goto("k_wait", "c_deref")
    /\ connState' = [connState EXCEPT ![g_conn] = "ready"]
    /\ tries' = 0
    /\ UNCHANGED <<ret, ifret, serverSet, started, g_conn, cloud_status,
                   dataVars, otherVars>>

\* Mutant of WaitNotReady: a failed attempt goes on without closing its connection.
WaitNotReadyLeaks ==
    /\ pc = "k_wait" /\ pc' \in {"k_while"} \cup AfterFailure(tries)
    /\ UNCHANGED <<ctlVars, connVars, dataVars, otherVars>>

\* It answers WAIT_ACTION_RETRY (redirect or 403), or fails: the connection is
\* closed and connect_and_wait is entered again, tries ipv4, or gives up.
WaitNotReady ==
    /\ Goto("k_wait", "close_ext")
    /\ ret' \in {"k_while"} \cup AfterFailure(tries)
    /\ UNCHANGED <<ifret, tries, serverSet, started, connVars, dataVars,
                   otherVars>>

\* CONN_WAIT_FAIL: wait for the interface, or back off, then return to
\* createNopollConnection.
ConnectFailed ==
    /\ \/ /\ interface_down_event
          /\ Goto("k_failed", "close_ext")
          /\ ret' = "ifd_test" /\ ifret' = "c_while"
       \/ /\ ~interface_down_event
          /\ Goto("k_failed", "backoff")
          /\ UNCHANGED <<ret, ifret>>
    /\ tries' = 0
    /\ UNCHANGED <<serverSet, started, connVars, dataVars, otherVars>>

\* backoff_delay: a timed wait with no predicate; any way out returns false from
\* keep_trying_to_connect, and the callers' loops look at g_shutdown.
BackoffLock ==
    /\ Goto("backoff", "backoff_wait")
    /\ UNCHANGED <<ctlVars, connVars, dataVars, otherVars>>

BackoffTimeout ==
    /\ Goto("backoff_wait", "c_while")
    /\ UNCHANGED <<ctlVars, connVars, dataVars, otherVars>>

\* conn_ctx.current_server->allow_insecure is read whether or not the loop set
\* current_server; then cloud_status becomes online.
CreateOnline ==
    /\ \/ ~serverSet /\ Goto("c_deref", "crashed") /\ UNCHANGED cloud_status
       \/ serverSet /\ Goto("c_deref", "c_reset") /\ cloud_status' = "online"
    /\ UNCHANGED <<ctlVars, g_conn, connState, dataVars, otherVars>>

\* Mutant of CreateResetRetry: the flag is not reset.
CreateResetRetryForgotten ==
    /\ Goto("c_reset", "c_reason")
    /\ UNCHANGED <<ctlVars, connVars, dataVars, otherVars>>

CreateResetRetry ==
    /\ Goto("c_reset", "c_reason")
    /\ close_retry' = FALSE
    /\ UNCHANGED <<ctlVars, connVars, cloud_disconnect, heartBeatTimer,
                   reasonVars, wst, otherVars>>

CreateResetReason ==
    /\ Goto("c_reason", "c_handlers")
    /\ heartBeatTimer' = 0
    /\ reconnect_reason' = "webpa_process_starts" /\ reconnect_status' = FALSE
    /\ UNCHANGED <<ctlVars, connVars, close_retry, cloud_disconnect, wst,
                   otherVars>>

\* setMessageHandlers, and the return: the first call starts the threads and
\* enters the loop, a later one returns to the loop's condition.
CreateReturn ==
    /\ pc = "c_handlers"
    /\ pc' = IF started THEN "loop_test" ELSE "loop_wait"
    /\ started' = TRUE /\ serverSet' = FALSE
    /\ connState' = [c \in Conns |-> IF c = g_conn /\ connState[c] = "ready"
                                     THEN "open" ELSE connState[c]]
    /\ UNCHANGED <<ret, ifret, tries, g_conn, cloud_status, dataVars,
                   otherVars>>
-----------------------------------------------------------------------------
(* The main loop of createSocketConnection.                                 *)

\* Mutant of ListenerOnClose: a close with another status than 1006 leaves the reason.
ListenerOnCloseNoUnknown(is1006) ==
    /\ reconnect_reason' = IF ~reconnect_status /\ is1006 THEN "SSL_Socket_Close"
                           ELSE reconnect_reason
    /\ reconnect_status' = (reconnect_status \/ is1006)
    /\ close_retry' = (close_retry \/ ~interface_down_event)

\* listenerOnCloseMessage, the handler nopoll calls when it shuts a connection.
ListenerOnClose(is1006) ==
    /\ reconnect_reason' = IF reconnect_status THEN reconnect_reason
                           ELSE IF is1006 THEN "SSL_Socket_Close" ELSE "Unknown"
    /\ reconnect_status' = (reconnect_status \/ is1006)
    /\ close_retry' = (close_retry \/ ~interface_down_event)

\* nopoll_loop_wait returns when its 5 seconds are over;
LoopTimeout ==
    /\ Goto("loop_wait", "hb")
    /\ UNCHANGED <<ctlVars, connVars, dataVars, otherVars>>

\* until then it serves pings (listenerOnPingMessage),
LoopPing ==
    /\ Goto("loop_wait", "loop_wait")
    /\ g_conn # NULL /\ connState[g_conn] = "open"
    /\ heartBeatTimer' = 0
    /\ UNCHANGED <<ctlVars, connVars, close_retry, cloud_disconnect,
                   reasonVars, wst, otherVars>>

\* and notices that the peer closed or that the socket broke.
LoopPeerClose ==
    /\ Goto("loop_wait", "loop_wait")
    /\ g_conn # NULL /\ connState[g_conn] = "open"
    /\ connState' = [connState EXCEPT ![g_conn] = "dead"]
    /\ \E is1006 \in BOOLEAN : ListenerOnClose(is1006)
    /\ UNCHANGED <<ctlVars, g_conn, cloud_status, cloud_disconnect,
                   heartBeatTimer, wst, otherVars>>

\* Mutant of HeartBeat: a missed ping counts only while there is a connection.
HeartBeatIfConnected ==
    /\ Goto("hb", "if_check")
    /\ \/ /\ heartBeatTimer >= PingTimeout
          /\ heartBeatTimer' = 0
          /\ IF close_retry \/ g_conn = NULL
             THEN UNCHANGED <<close_retry, reasonVars>>
             ELSE /\ reconnect_reason' = "Ping_Miss" /\ reconnect_status' = TRUE
                  /\ close_retry' = TRUE
       \/ /\ heartBeatTimer < PingTimeout
          /\ heartBeatTimer' = IF paused THEN heartBeatTimer ELSE heartBeatTimer + 1
          /\ UNCHANGED <<close_retry, reasonVars>>
    /\ UNCHANGED <<ctlVars, connVars, cloud_disconnect, wst, otherVars>>

\* The heartbeat check.
HeartBeat ==
    /\ Goto("hb", "if_check")
    /\ \/ /\ heartBeatTimer >= PingTimeout
          /\ heartBeatTimer' = 0
          /\ IF close_retry
             THEN UNCHANGED <<close_retry, reasonVars>>
             ELSE /\ reconnect_reason' = "Ping_Miss" /\ reconnect_status' = TRUE
                  /\ close_retry' = TRUE
       \/ /\ heartBeatTimer < PingTimeout
          /\ heartBeatTimer' = IF paused THEN heartBeatTimer ELSE heartBeatTimer + 1
          /\ UNCHANGED <<close_retry, reasonVars>>
    /\ UNCHANGED <<ctlVars, connVars, cloud_disconnect, wst, otherVars>>

InterfaceCheck ==
    /\ \/ /\ interface_down_event
          /\ Goto("if_check", "close_ext")
          /\ ret' = "ifd_test" /\ ifret' = "cr_check"
       \/ /\ ~interface_down_event
          /\ Goto("if_check", "cr_check")
          /\ UNCHANGED <<ret, ifret>>
    /\ UNCHANGED <<tries, serverSet, started, connVars, dataVars, otherVars>>

CloseRetryCheck ==
    /\ \/ close_retry /\ Goto("cr_check", "close_ext") /\ ret' = "cd_check"
       \/ ~close_retry /\ Goto("cr_check", "loop_test") /\ UNCHANGED ret
    /\ UNCHANGED <<ifret, tries, serverSet, started, connVars, dataVars,
                   otherVars>>

\* close_and_unref_connection: nopoll_conn_close_ext releases the object (and,
\* when the socket was still up, calls the close handler), then cloud_status
\* becomes offline, then the caller clears the global pointer.
CloseExt ==
    /\ pc = "close_ext"
    /\ \/ /\ g_conn = NULL
          /\ pc' = "close_null"
          /\ UNCHANGED <<connState, close_retry, reasonVars>>
       \/ /\ g_conn # NULL
          /\ pc' = "close_off"
          /\ connState' = [connState EXCEPT ![g_conn] = "free"]
          /\ IF connState[g_conn] = "open"
             THEN \E is1006 \in BOOLEAN : ListenerOnClose(is1006)
             ELSE UNCHANGED <<close_retry, reasonVars>>
    /\ UNCHANGED <<ctlVars, g_conn, cloud_status, cloud_disconnect,
                   heartBeatTimer, wst, otherVars>>

\* Mutant of CloseOffline: the status is not updated.
CloseStaysOnline ==
    /\ Goto("close_off", "close_null")
    /\ UNCHANGED <<ctlVars, connVars, dataVars, otherVars>>

CloseOffline ==
    /\ Goto("close_off", "close_null")
    /\ cloud_status' = "offline"
    /\ UNCHANGED <<ctlVars, g_conn, connState, dataVars, otherVars>>

\* Mutant of CloseNull: the pointer is not cleared.
CloseKeepsPointer ==
    /\ Goto("close_null", ret)
    /\ ret' = "done"
    /\ UNCHANGED <<ifret, tries, serverSet, started, connVars, dataVars,
                   otherVars>>

\* set_global_conn(NULL); the last close of the process leaves the pointer.
CloseNull ==
    /\ Goto("close_null", ret)
    /\ g_conn' = IF ret = "done" THEN g_conn ELSE NULL
    /\ ret' = "done"
    /\ UNCHANGED <<ifret, tries, serverSet, started, connState, cloud_status,
                   dataVars, otherVars>>

\* wait_while_interface_down, after the close: the flag is read under the mutex,
\* the mutex is released, taken again, and the wait begins.
InterfaceTest ==
    /\ \/ interface_down_event /\ Goto("ifd_test", "ifd_lock")
       \/ ~interface_down_event /\ Goto("ifd_test", ifret)
    /\ UNCHANGED <<ctlVars, connVars, dataVars, otherVars>>

InterfaceLock ==
    /\ Goto("ifd_lock", "ifd_wait")
    /\ UNCHANGED <<ctlVars, connVars, dataVars, otherVars>>

\* Woken up: shutdown leaves the main loop, or returns to createNopollConnection.
InterfaceWoken ==
    /\ \/ ~g_shutdown /\ Goto("ifd_woken", "ifd_test")
       \/ g_shutdown /\ Goto("ifd_woken", IF ifret = "cr_check" THEN "exit" ELSE "c_while")
    /\ UNCHANGED <<ctlVars, connVars, dataVars, otherVars>>

\* The five minute pause after a cloud-disconnect request; then the reason is
\* freed and, in a second step, the pointer cleared.
CloudDisconnectCheck ==
    /\ \/ cloud_disconnect # "null" /\ Goto("cd_check", "cd_sleep")
       \/ cloud_disconnect = "null" /\ Goto("cd_check", "create")
    /\ UNCHANGED <<ctlVars, connVars, dataVars, otherVars>>

CloudDisconnectFree ==
    /\ Goto("cd_sleep", "cd_reset")
    /\ cloud_disconnect' = "freed"
    /\ UNCHANGED <<ctlVars, connVars, close_retry, heartBeatTimer, reasonVars,
                   wst, otherVars>>

CloudDisconnectReset ==
    /\ Goto("cd_reset", "create")
    /\ cloud_disconnect' = "null"
    /\ UNCHANGED <<ctlVars, connVars, close_retry, heartBeatTimer, reasonVars,
                   wst, otherVars>>

\* while (!get_close_retry() && !g_shutdown)
LoopTest ==
    /\ \/ ~close_retry /\ ~g_shutdown /\ Goto("loop_test", "loop_wait")
       \/ (close_retry \/ g_shutdown) /\ Goto("loop_test", "exit")
    /\ UNCHANGED <<ctlVars, connVars, dataVars, otherVars>>

\* Mutant of SignalWorkers: nobody is signalled.
SignalNobody ==
    /\ Goto("exit", "join")
    /\ UNCHANGED <<ctlVars, connVars, dataVars, otherVars>>

\* One signal on each worker's condition variable, then the joins, then the
\* last close.
SignalWorkers ==
    /\ Goto("exit", "join")
    /\ wst' = [w \in Workers |-> IF wst[w] = "wait" THEN "run" ELSE wst[w]]
    /\ UNCHANGED <<ctlVars, connVars, close_retry, cloud_disconnect,
                   heartBeatTimer, reasonVars, otherVars>>

JoinWorkers ==
    /\ Goto("join", "close_ext")
    /\ \A w \in Workers : wst[w] = "exited"
    /\ ret' = "done"
    /\ UNCHANGED <<ifret, tries, serverSet, started, connVars, dataVars,
                   otherVars>>
-----------------------------------------------------------------------------
(* The signal handler: shutdownSocketConnection.                            *)

SignalArrives ==
    /\ Alive /\ hpc = "idle" /\ hpc' = "h_flag"
    /\ UNCHANGED <<pc, ctlVars, connVars, dataVars, g_shutdown,
                   interface_down_event, paused, spc, sconn, kpc>>

HandlerSetShutdown ==
    /\ Alive /\ hpc = "h_flag" /\ hpc' = "h_ifdown"
    /\ g_shutdown' = TRUE
    /\ UNCHANGED <<pc, ctlVars, connVars, dataVars, interface_down_event,
                   paused, spc, sconn, kpc>>

\* reset_interface_down_event clears the flag and signals, under the mutex.
ResetInterfaceDown ==
    /\ interface_down_event' = FALSE
    /\ pc' = IF pc = "ifd_wait" THEN "ifd_woken" ELSE pc

HandlerResetInterface ==
    /\ Alive /\ hpc = "h_ifdown" /\ hpc' = "h_backoff"
    /\ ResetInterfaceDown
    /\ UNCHANGED <<ctlVars, connVars, dataVars, g_shutdown, paused, spc,
                   sconn, kpc>>

\* terminate_backoff_delay
HandlerEndBackoff ==
    /\ Alive /\ hpc = "h_backoff" /\ hpc' = "idle"
    /\ pc' = IF pc = "backoff_wait" THEN "c_while" ELSE pc
    /\ UNCHANGED <<ctlVars, connVars, dataVars, g_shutdown,
                   interface_down_event, paused, spc, sconn, kpc>>
-----------------------------------------------------------------------------
(* The interface event handler, which is not part of the repository.        *)

InterfaceDown ==
    /\ WithInterface /\ Alive /\ ~interface_down_event
    /\ heartBeatTimer' = 0 /\ paused' = TRUE
    /\ interface_down_event' = TRUE
    /\ UNCHANGED <<pc, ctlVars, connVars, close_retry, cloud_disconnect,
                   reasonVars, wst, g_shutdown, hpc, spc, sconn, kpc>>

InterfaceUp ==
    /\ WithInterface /\ Alive /\ paused
    /\ paused' = FALSE
    /\ ResetInterfaceDown
    /\ UNCHANGED <<ctlVars, connVars, dataVars, g_shutdown, hpc, spc, sconn,
                   kpc>>

\* POSIX allows a wait to end without a signal.
SpuriousWakeup ==
    /\ Goto("ifd_wait", "ifd_woken")
    /\ UNCHANGED <<ctlVars, connVars, dataVars, otherVars>>
-----------------------------------------------------------------------------
(* sendUpstreamMsgToServer and sendMessage, on a worker thread.             *)

\* close_retry is read;
SendBegin ==
    /\ Running /\ Sender # NULL /\ wst[Sender] = "run" /\ spc = "idle"
    /\ spc' = IF close_retry THEN "s_cd" ELSE "s_conn"
    /\ UNCHANGED <<pc, ctlVars, connVars, dataVars, g_shutdown,
                   interface_down_event, paused, hpc, sconn, kpc>>

\* if it was set, only a pending cloud-disconnect lets the message through;
SendCheckDisconnect ==
    /\ Running /\ spc = "s_cd"
    /\ spc' = IF cloud_disconnect # "null" THEN "s_conn" ELSE "idle"
    /\ UNCHANGED <<pc, ctlVars, connVars, dataVars, g_shutdown,
                   interface_down_event, paused, hpc, sconn, kpc>>

\* the connection pointer is read and handed to sendMessage,
SendGetConn ==
    /\ Running /\ spc = "s_conn" /\ spc' = "s_online"
    /\ sconn' = g_conn
    /\ UNCHANGED <<pc, ctlVars, connVars, dataVars, g_shutdown,
                   interface_down_event, paused, hpc, kpc>>

\* which looks at cloud_status
SendCheckOnline ==
    /\ Running /\ spc = "s_online"
    /\ IF cloud_status = "online" THEN spc' = "s_send" /\ UNCHANGED sconn
                                  ELSE spc' = "idle" /\ sconn' = NULL
    /\ UNCHANGED <<pc, ctlVars, connVars, dataVars, g_shutdown,
                   interface_down_event, paused, hpc, kpc>>

\* and calls sendResponse: nopoll refuses a null pointer or a dead connection;
Send ==
    /\ Running /\ spc = "s_send" /\ spc' = "idle"
    /\ sconn' = NULL
    /\ UNCHANGED <<pc, ctlVars, connVars, dataVars, g_shutdown,
                   interface_down_event, paused, hpc, kpc>>

\* when the write fails it shuts the connection, which calls the close handler;
SendFails ==
    /\ WithSendFailure
    /\ Running /\ spc = "s_send" /\ spc' = "idle"
    /\ sconn # NULL /\ connState[sconn] \in {"ready", "open"}
    /\ connState' = [connState EXCEPT ![sconn] = "dead"]
    /\ sconn' = NULL
    /\ IF connState[sconn] = "open"
       THEN \E is1006 \in BOOLEAN : ListenerOnClose(is1006)
       ELSE UNCHANGED <<close_retry, reasonVars>>
    /\ UNCHANGED <<pc, ctlVars, g_conn, cloud_status, cloud_disconnect,
                   heartBeatTimer, wst, g_shutdown, interface_down_event,
                   paused, hpc, kpc>>

\* a released object is memory that may be gone.
SendUseAfterFree ==
    /\ Running /\ spc = "s_send" /\ spc' = "idle"
    /\ sconn # NULL /\ connState[sconn] = "free"
    /\ sconn' = NULL
    /\ pc' = "crashed"
    /\ UNCHANGED <<ctlVars, connVars, dataVars, g_shutdown,
                   interface_down_event, paused, hpc, kpc>>
-----------------------------------------------------------------------------
(* updateObject with destination parodus/cloud-disconnect, on the CRUD      *)
(* thread.                                                                  *)

\* set_cloud_disconnect_reason
CloudDisconnectRequest ==
    /\ WithCloudDisconnect /\ Running /\ kpc = "idle" /\ kpc' = "k_dup"
    /\ ~g_shutdown
    /\ cloud_disconnect' = "set"
    /\ UNCHANGED <<pc, ctlVars, connVars, close_retry, heartBeatTimer,
                   reasonVars, wst, g_shutdown, interface_down_event, paused,
                   hpc, spc, sconn>>

\* strdup(get_parodus_cfg()->cloud_disconnect) crashes on NULL, and may on a
\* dangling pointer.
CloudDisconnectDup ==
    /\ Running /\ kpc = "k_dup"
    /\ \/ cloud_disconnect # "null" /\ kpc' = "k_check" /\ UNCHANGED pc
       \/ cloud_disconnect # "set" /\ kpc' = "idle" /\ pc' = "crashed"
    /\ UNCHANGED <<ctlVars, connVars, dataVars, g_shutdown,
                   interface_down_event, paused, hpc, spc, sconn>>

\* ConnDisconnectFromCloud: 500 when a retry is already in progress,
ConnDisconnectCheck ==
    /\ Running /\ kpc = "k_check"
    /\ kpc' = IF close_retry THEN "idle" ELSE "k_reason"
    /\ UNCHANGED <<pc, ctlVars, connVars, dataVars, g_shutdown,
                   interface_down_event, paused, hpc, spc, sconn>>

\* else the reconnect reason, then close_retry, are set.
ConnDisconnectReason ==
    /\ Running /\ kpc = "k_reason" /\ kpc' = "k_set"
    /\ reconnect_reason' = "cloud_disconnect" /\ reconnect_status' = TRUE
    /\ UNCHANGED <<pc, ctlVars, connVars, close_retry, cloud_disconnect,
                   heartBeatTimer, wst, g_shutdown, interface_down_event,
                   paused, hpc, spc, sconn>>

ConnDisconnectSet ==
    /\ Running /\ kpc = "k_set" /\ kpc' = "idle"
    /\ close_retry' = TRUE
    /\ UNCHANGED <<pc, ctlVars, connVars, cloud_disconnect, heartBeatTimer,
                   reasonVars, wst, g_shutdown, interface_down_event, paused,
                   hpc, spc, sconn>>
-----------------------------------------------------------------------------
(* The worker threads.  Each loops: work; exit if g_shutdown; wait on its   *)
(* condition variable.  The test and the wait are under the mutex that the  *)
(* signal takes.                                                            *)

Idle(w) == w = Sender => spc = "idle"

WorkerWait(w) ==
    /\ Running /\ wst[w] = "run" /\ Idle(w) /\ ~g_shutdown
    /\ wst' = [wst EXCEPT ![w] = "wait"]
    /\ UNCHANGED <<pc, ctlVars, connVars, close_retry, cloud_disconnect,
                   heartBeatTimer, reasonVars, otherVars>>

\* A message arrived, or the time of a timed wait is over.
WorkerWake(w) ==
    /\ Running /\ wst[w] = "wait"
    /\ wst' = [wst EXCEPT ![w] = "run"]
    /\ UNCHANGED <<pc, ctlVars, connVars, close_retry, cloud_disconnect,
                   heartBeatTimer, reasonVars, otherVars>>

WorkerExit(w) ==
    /\ Running /\ wst[w] = "run" /\ Idle(w) /\ g_shutdown
    /\ wst' = [wst EXCEPT ![w] = "exited"]
    /\ UNCHANGED <<pc, ctlVars, connVars, close_retry, cloud_disconnect,
                   heartBeatTimer, reasonVars, otherVars>>
-----------------------------------------------------------------------------
CreateNext ==
    \/ CreateEnter \/ CreateInvalidDefault \/ CreateWhile \/ KeepTrying
    \/ \E c \in Conns : NopollConnect(c)
    \/ NopollConnectNone \/ NopollConnectDnsStuck
    \/ WaitReady \/ WaitNotReady \/ ConnectFailed
    \/ BackoffLock \/ BackoffTimeout
    \/ CreateOnline \/ CreateResetRetry \/ CreateResetReason \/ CreateReturn

LoopNext ==
    \/ LoopTimeout \/ HeartBeat \/ InterfaceCheck \/ CloseRetryCheck
    \/ CloseExt \/ CloseOffline \/ CloseNull
    \/ InterfaceTest \/ InterfaceLock \/ InterfaceWoken
    \/ CloudDisconnectCheck \/ CloudDisconnectFree \/ CloudDisconnectReset
    \/ LoopTest \/ SignalWorkers \/ JoinWorkers

MainNext    == CreateNext \/ LoopNext
HandlerNext == HandlerSetShutdown \/ HandlerResetInterface \/ HandlerEndBackoff
SendNext    == \/ SendCheckDisconnect \/ SendGetConn \/ SendCheckOnline
               \/ Send \/ SendFails \/ SendUseAfterFree
CrudNext    == \/ CloudDisconnectDup \/ ConnDisconnectCheck
               \/ ConnDisconnectReason \/ ConnDisconnectSet
WorkerNext  == \E w \in Workers : WorkerWait(w) \/ WorkerWake(w) \/ WorkerExit(w)
EnvNext     == \/ LoopPing \/ LoopPeerClose \/ SignalArrives
               \/ InterfaceDown \/ InterfaceUp \/ SpuriousWakeup
               \/ SendBegin \/ CloudDisconnectRequest

Next == \/ MainNext \/ HandlerNext \/ SendNext \/ CrudNext
        \/ WorkerNext \/ EnvNext

Spec == Init /\ [][Next]_vars

\* Threads that can run do run; timed waits end; a worker's queue is empty in
\* the end once the process is shutting down; and a server that is tried again
\* and again answers in the end.  Signals, interface events and messages need
\* never come.
Fairness ==
    /\ WF_vars(MainNext) /\ WF_vars(HandlerNext)
    /\ WF_vars(SendNext) /\ WF_vars(CrudNext)
    /\ \A w \in Workers : SF_vars(WorkerExit(w))
    /\ \A w \in TimedWorkers : WF_vars(WorkerWake(w))
    /\ SF_vars(\E c \in Conns : NopollConnect(c)) /\ SF_vars(WaitReady)

FairSpec == Spec /\ Fairness
-----------------------------------------------------------------------------
\* Type invariant of the flags, pointers and thread states.
TypeOK ==
    /\ pc \in PCs /\ ret \in Rets /\ ifret \in {"cr_check", "c_while"}
    /\ tries \in 0..MaxTries
    /\ serverSet \in BOOLEAN /\ started \in BOOLEAN
    /\ g_conn \in Conns \cup {NULL} /\ connState \in [Conns -> ConnStates]
    /\ cloud_status \in {"unset", "online", "offline"}
    /\ close_retry \in BOOLEAN /\ g_shutdown \in BOOLEAN
    /\ interface_down_event \in BOOLEAN
    /\ cloud_disconnect \in {"null", "set", "freed"}
    /\ heartBeatTimer \in 0..PingTimeout /\ paused \in BOOLEAN
    /\ reconnect_reason \in Reasons /\ reconnect_status \in BOOLEAN
    /\ hpc \in {"idle", "h_flag", "h_ifdown", "h_backoff"}
    /\ spc \in {"idle", "s_cd", "s_conn", "s_online", "s_send"}
    /\ sconn \in Conns \cup {NULL}
    /\ kpc \in {"idle", "k_dup", "k_check", "k_reason", "k_set"}
    /\ wst \in [Workers -> {"run", "wait", "exited"}]

\* No connection object is lost: whatever nopoll has allocated is what the
\* global pointer names, so every path of createNopollConnection,
\* wait_while_interface_down and the main loop closes the old connection before
\* it makes or forgets one.
NoConnectionLeak ==
    \A c \in Conns : connState[c] # "free" => c = g_conn

\* No connection is closed twice: when close_and_unref_connection is called with
\* a connection, nopoll has not released it yet, and the name of a released
\* connection stays in the global pointer only until the close that released it
\* has cleared it.
CloseOnce ==
    (g_conn # NULL /\ connState[g_conn] = "free")
        => pc \in {"close_off", "close_null", "done", "crashed"}

\* cloud_status says online only while there is a connection object, while that
\* object is just being closed, or after a shutdown has cut
\* createNopollConnection short (which sets online with no connection).
OnlineMeansConnected ==
    cloud_status = "online" =>
        \/ g_conn # NULL /\ connState[g_conn] # "free"
        \/ pc \in {"close_off", "crashed"}
        \/ g_shutdown

\* The places of the main thread at which no connection object is allocated.
NoConnPCs == {"create", "c_while", "k_while", "k_connect", "k_failed", "backoff",
              "backoff_wait", "close_off", "close_null", "ifd_test", "ifd_lock",
              "ifd_wait", "ifd_woken", "cd_check", "cd_sleep", "cd_reset", "done"}
ClosePCs == {"close_ext", "close_off", "close_null"}

\* What the control state of the main thread says about the connection: it is
\* released wherever a new one may be made, and it exists while the handshake is
\* awaited and, unless a shutdown cut the attempt short, after it succeeded.
ControlInv ==
    /\ pc \in NoConnPCs => \A c \in Conns : connState[c] = "free"
    /\ pc = "k_wait" => g_conn # NULL
    /\ pc = "c_deref" => g_shutdown \/ g_conn # NULL
    /\ pc = "k_connect" => tries < MaxTries
    /\ pc \in ClosePCs /\ ret = "k_connect" => tries < MaxTries

\* The inductive invariant behind the safety properties.
IInv == TypeOK /\ ControlInv /\ NoConnectionLeak /\ CloseOnce /\ OnlineMeansConnected

\* A reconnect always carries the reason of the loss in its convey header: when
\* createNopollConnection is entered again, some event has replaced the initial
\* reason.
ReconnectHasReason ==
    (pc = "create" /\ started) => reconnect_reason # "webpa_process_starts"

\* createSocketConnection leaves its loop only because of a shutdown; leaving it
\* for any other cause waits for threads nobody told to stop.
LoopExitsOnShutdown == pc \in {"exit", "join"} => g_shutdown

Connected == g_conn # NULL /\ connState[g_conn] = "open"

\* parodus can be killed: a shutdown request ends the process, whatever the
\* connection is doing.  The one exception is the wait for the interface, which
\* the shutdown's signal may precede (InterfaceTest, then the signal, then
\* InterfaceLock); the main thread then waits for good.
ShutdownTerminates == g_shutdown ~> (~Alive \/ [](pc = "ifd_wait"))

\* The interface is up for good and the main thread got the news; in the code's
\* terms, the last event was an up and found nobody between test and wait.
InterfaceStaysUp == <>[](~interface_down_event /\ ~paused /\ pc # "ifd_wait")

\* A lost connection comes back: once the main loop has lost its connection, it
\* has a working one again, unless a shutdown intervenes or the interface goes up
\* and down for ever.  For a connection closed by wait_while_interface_down
\* nothing but the heartbeat remembers that it is missing.
LostConnectionRecovers ==
    InterfaceStaysUp =>
        ((started /\ ~Connected) ~> (Connected \/ g_shutdown \/ ~Alive))
=============================================================================
