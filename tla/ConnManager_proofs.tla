------------------------- MODULE ConnManager_proofs -------------------------
(***************************************************************************)
(* Proofs about the connection manager, for any number of connection       *)
(* objects and worker threads and with every kind of event.                *)
(***************************************************************************)
EXTENDS ConnManager, TLAPS

\* The steps of createNopollConnection keep the invariant.
LEMMA CreatePreserves ==
    ASSUME IInv, CreateNext
    PROVE  IInv'
<1> USE ConnManagerAssumption DEF IInv, TypeOK, ControlInv, NoConnectionLeak, CloseOnce,
        OnlineMeansConnected, Goto, NoConnPCs, ClosePCs, PCs, Rets, ConnStates, Reasons,
        ctlVars, connVars, reasonVars, dataVars, otherVars, Alive, Running, Ended
<1>1. CASE CreateEnter
  <2>1. serverSet' \in BOOLEAN
    BY <1>1, Zenon DEF CreateEnter
  <2>2. TypeOK'
    BY <1>1, <2>1 DEF CreateEnter
  <2>3. ControlInv' /\ NoConnectionLeak' /\ CloseOnce' /\ OnlineMeansConnected'
    BY <1>1 DEF CreateEnter
  <2> QED
    BY <2>2, <2>3 DEF IInv
<1>2. CASE CreateInvalidDefault
  BY <1>2 DEF CreateInvalidDefault
<1>3. CASE CreateWhile
  <2>1. serverSet' \in BOOLEAN
    BY <1>3, Zenon DEF CreateWhile
  <2>2. TypeOK'
    BY <1>3, <2>1 DEF CreateWhile
  <2>3. ControlInv' /\ NoConnectionLeak' /\ CloseOnce' /\ OnlineMeansConnected'
    BY <1>3 DEF CreateWhile
  <2> QED
    BY <2>2, <2>3 DEF IInv
<1>4. CASE KeepTrying
  BY <1>4 DEF KeepTrying
<1>5. ASSUME NEW c \in Conns, NopollConnect(c)
      PROVE  IInv'
  BY <1>5 DEF NopollConnect
<1>6. CASE NopollConnectNone
  BY <1>6 DEF NopollConnectNone, AfterFailure
<1>7. CASE NopollConnectDnsStuck
  BY <1>7 DEF NopollConnectDnsStuck
<1>8. CASE WaitReady
  BY <1>8 DEF WaitReady
<1>9. CASE WaitNotReady
  BY <1>9 DEF WaitNotReady, AfterFailure
<1>10. CASE ConnectFailed
  BY <1>10 DEF ConnectFailed
<1>11. CASE BackoffLock
  BY <1>11 DEF BackoffLock
<1>12. CASE BackoffTimeout
  BY <1>12 DEF BackoffTimeout
<1>13. CASE CreateOnline
  BY <1>13 DEF CreateOnline
<1>14. CASE CreateResetRetry
  <2>1. close_retry' \in BOOLEAN
    BY <1>14, Zenon DEF CreateResetRetry
  <2>2. TypeOK'
    BY <1>14, <2>1 DEF CreateResetRetry
  <2>3. ControlInv' /\ NoConnectionLeak' /\ CloseOnce' /\ OnlineMeansConnected'
    BY <1>14 DEF CreateResetRetry
  <2> QED
    BY <2>2, <2>3 DEF IInv
<1>15. CASE CreateResetReason
  <2>1. reconnect_status' \in BOOLEAN
    BY <1>15, Zenon DEF CreateResetReason
  <2>2. TypeOK'
    BY <1>15, <2>1 DEF CreateResetReason
  <2>3. ControlInv' /\ NoConnectionLeak' /\ CloseOnce' /\ OnlineMeansConnected'
    BY <1>15 DEF CreateResetReason
  <2> QED
    BY <2>2, <2>3 DEF IInv
<1>16. CASE CreateReturn
  <2>1. started' \in BOOLEAN /\ serverSet' \in BOOLEAN
    BY <1>16, Zenon DEF CreateReturn
  <2>2. TypeOK'
    BY <1>16, <2>1 DEF CreateReturn
  <2>3. ControlInv' /\ NoConnectionLeak' /\ CloseOnce' /\ OnlineMeansConnected'
    BY <1>16 DEF CreateReturn
  <2> QED
    BY <2>2, <2>3 DEF IInv
<1> QED
  BY <1>1, <1>2, <1>3, <1>4, <1>5, <1>6, <1>7, <1>8, <1>9, <1>10, <1>11, <1>12, <1>13, <1>14, <1>15, <1>16 DEF CreateNext

\* So do those of the main loop.
LEMMA LoopPreserves ==
    ASSUME IInv, LoopNext
    PROVE  IInv'
<1> USE ConnManagerAssumption DEF IInv, TypeOK, ControlInv, NoConnectionLeak, CloseOnce,
        OnlineMeansConnected, Goto, NoConnPCs, ClosePCs, PCs, Rets, ConnStates, Reasons,
        ctlVars, connVars, reasonVars, dataVars, otherVars, Alive, Running, Ended
<1>1. CASE LoopTimeout
  BY <1>1 DEF LoopTimeout
<1>2. CASE HeartBeat
  <2>1. close_retry' \in BOOLEAN /\ reconnect_status' \in BOOLEAN
    BY <1>2, Zenon DEF HeartBeat
  <2>2. TypeOK'
    BY <1>2, <2>1 DEF HeartBeat
  <2>3. ControlInv' /\ NoConnectionLeak' /\ CloseOnce' /\ OnlineMeansConnected'
    BY <1>2 DEF HeartBeat
  <2> QED
    BY <2>2, <2>3 DEF IInv
<1>3. CASE InterfaceCheck
  BY <1>3 DEF InterfaceCheck
<1>4. CASE CloseRetryCheck
  BY <1>4 DEF CloseRetryCheck
<1>5. CASE CloseExt
  <2>1. close_retry' \in BOOLEAN /\ reconnect_status' \in BOOLEAN
    BY <1>5, Zenon DEF CloseExt, ListenerOnClose
  <2>2. TypeOK'
    BY <1>5, <2>1 DEF CloseExt, ListenerOnClose
  <2>3. ControlInv' /\ NoConnectionLeak' /\ CloseOnce' /\ OnlineMeansConnected'
    BY <1>5 DEF CloseExt, ListenerOnClose
  <2> QED
    BY <2>2, <2>3 DEF IInv
<1>6. CASE CloseOffline
  BY <1>6 DEF CloseOffline
<1>7. CASE CloseNull
  BY <1>7 DEF CloseNull
<1>8. CASE InterfaceTest
  BY <1>8 DEF InterfaceTest
<1>9. CASE InterfaceLock
  BY <1>9 DEF InterfaceLock
<1>10. CASE InterfaceWoken
  BY <1>10 DEF InterfaceWoken
<1>11. CASE CloudDisconnectCheck
  BY <1>11 DEF CloudDisconnectCheck
<1>12. CASE CloudDisconnectFree
  BY <1>12 DEF CloudDisconnectFree
<1>13. CASE CloudDisconnectReset
  BY <1>13 DEF CloudDisconnectReset
<1>14. CASE LoopTest
  BY <1>14 DEF LoopTest
<1>15. CASE SignalWorkers
  BY <1>15 DEF SignalWorkers
<1>16. CASE JoinWorkers
  BY <1>16 DEF JoinWorkers
<1> QED
  BY <1>1, <1>2, <1>3, <1>4, <1>5, <1>6, <1>7, <1>8, <1>9, <1>10, <1>11, <1>12, <1>13, <1>14, <1>15, <1>16 DEF LoopNext

\* So do those of the signal handler.
LEMMA HandlerPreserves ==
    ASSUME IInv, HandlerNext
    PROVE  IInv'
<1> USE ConnManagerAssumption DEF IInv, TypeOK, ControlInv, NoConnectionLeak, CloseOnce,
        OnlineMeansConnected, Goto, NoConnPCs, ClosePCs, PCs, Rets, ConnStates, Reasons,
        ctlVars, connVars, reasonVars, dataVars, otherVars, Alive, Running, Ended
<1>1. CASE HandlerSetShutdown
  BY <1>1 DEF HandlerSetShutdown
<1>2. CASE HandlerResetInterface
  <2>1. interface_down_event' \in BOOLEAN
    BY <1>2, Zenon DEF HandlerResetInterface, ResetInterfaceDown
  <2>2. TypeOK'
    BY <1>2, <2>1 DEF HandlerResetInterface, ResetInterfaceDown
  <2>3. ControlInv' /\ NoConnectionLeak' /\ CloseOnce' /\ OnlineMeansConnected'
    BY <1>2 DEF HandlerResetInterface, ResetInterfaceDown
  <2> QED
    BY <2>2, <2>3 DEF IInv
<1>3. CASE HandlerEndBackoff
  BY <1>3 DEF HandlerEndBackoff
<1> QED
  BY <1>1, <1>2, <1>3 DEF HandlerNext

\* So do those of the thread that sends upstream.
LEMMA SendPreserves ==
    ASSUME IInv, SendNext
    PROVE  IInv'
<1> USE ConnManagerAssumption DEF IInv, TypeOK, ControlInv, NoConnectionLeak, CloseOnce,
        OnlineMeansConnected, Goto, NoConnPCs, ClosePCs, PCs, Rets, ConnStates, Reasons,
        ctlVars, connVars, reasonVars, dataVars, otherVars, Alive, Running, Ended
<1>1. CASE SendCheckDisconnect
  BY <1>1 DEF SendCheckDisconnect
<1>2. CASE SendGetConn
  BY <1>2 DEF SendGetConn
<1>3. CASE SendCheckOnline
  BY <1>3 DEF SendCheckOnline
<1>4. CASE Send
  BY <1>4 DEF Send
<1>5. CASE SendFails
  <2>1. close_retry' \in BOOLEAN /\ reconnect_status' \in BOOLEAN
    BY <1>5, Zenon DEF SendFails, ListenerOnClose, Running, Alive
  <2>2. TypeOK'
    BY <1>5, <2>1 DEF SendFails, ListenerOnClose, Running, Alive
  <2>3. ControlInv' /\ NoConnectionLeak' /\ CloseOnce' /\ OnlineMeansConnected'
    BY <1>5 DEF SendFails, ListenerOnClose, Running, Alive
  <2> QED
    BY <2>2, <2>3 DEF IInv
<1>6. CASE SendUseAfterFree
  BY <1>6 DEF SendUseAfterFree
<1> QED
  BY <1>1, <1>2, <1>3, <1>4, <1>5, <1>6 DEF SendNext

\* So do those of a cloud-disconnect request.
LEMMA CrudPreserves ==
    ASSUME IInv, CrudNext
    PROVE  IInv'
<1> USE ConnManagerAssumption DEF IInv, TypeOK, ControlInv, NoConnectionLeak, CloseOnce,
        OnlineMeansConnected, Goto, NoConnPCs, ClosePCs, PCs, Rets, ConnStates, Reasons,
        ctlVars, connVars, reasonVars, dataVars, otherVars, Alive, Running, Ended
<1>1. CASE CloudDisconnectDup
  BY <1>1 DEF CloudDisconnectDup
<1>2. CASE ConnDisconnectCheck
  BY <1>2 DEF ConnDisconnectCheck
<1>3. CASE ConnDisconnectReason
  BY <1>3 DEF ConnDisconnectReason
<1>4. CASE ConnDisconnectSet
  BY <1>4 DEF ConnDisconnectSet
<1> QED
  BY <1>1, <1>2, <1>3, <1>4 DEF CrudNext

\* So do the events that come from outside.
LEMMA EnvPreserves ==
    ASSUME IInv, EnvNext
    PROVE  IInv'
<1> USE ConnManagerAssumption DEF IInv, TypeOK, ControlInv, NoConnectionLeak, CloseOnce,
        OnlineMeansConnected, Goto, NoConnPCs, ClosePCs, PCs, Rets, ConnStates, Reasons,
        ctlVars, connVars, reasonVars, dataVars, otherVars, Alive, Running, Ended
<1>1. CASE LoopPing
  BY <1>1 DEF LoopPing
<1>2. CASE LoopPeerClose
  BY <1>2 DEF LoopPeerClose, ListenerOnClose
<1>3. CASE SignalArrives
  BY <1>3 DEF SignalArrives
<1>4. CASE InterfaceDown
  BY <1>4 DEF InterfaceDown
<1>5. CASE InterfaceUp
  <2>1. interface_down_event' \in BOOLEAN /\ paused' \in BOOLEAN
    BY <1>5, Zenon DEF InterfaceUp, ResetInterfaceDown
  <2>2. TypeOK'
    BY <1>5, <2>1 DEF InterfaceUp, ResetInterfaceDown
  <2>3. ControlInv' /\ NoConnectionLeak' /\ CloseOnce' /\ OnlineMeansConnected'
    BY <1>5 DEF InterfaceUp, ResetInterfaceDown
  <2> QED
    BY <2>2, <2>3 DEF IInv
<1>6. CASE SpuriousWakeup
  BY <1>6 DEF SpuriousWakeup
<1>7. CASE SendBegin
  BY <1>7 DEF SendBegin
<1>8. CASE CloudDisconnectRequest
  BY <1>8 DEF CloudDisconnectRequest
<1> QED
  BY <1>1, <1>2, <1>3, <1>4, <1>5, <1>6, <1>7, <1>8 DEF EnvNext

\* The worker threads only change their own states.
LEMMA WorkerPreserves ==
    ASSUME IInv, NEW w \in Workers, WorkerWait(w) \/ WorkerWake(w) \/ WorkerExit(w)
    PROVE  IInv'
<1>1. wst' \in [Workers -> {"run", "wait", "exited"}]
  BY DEF IInv, TypeOK, WorkerWait, WorkerWake, WorkerExit
<1>2. UNCHANGED <<pc, ctlVars, connVars, close_retry, cloud_disconnect,
                  heartBeatTimer, reasonVars, otherVars>>
  BY DEF WorkerWait, WorkerWake, WorkerExit
<1> QED
  BY <1>1, <1>2 DEF IInv, TypeOK, ControlInv, NoConnectionLeak, CloseOnce,
     OnlineMeansConnected, ctlVars, connVars, reasonVars, otherVars

\* The invariant holds when the process starts.
LEMMA InitIInv == Init => IInv
<1> SUFFICES ASSUME Init PROVE IInv
  OBVIOUS
<1>1. /\ serverSet \in BOOLEAN /\ started \in BOOLEAN /\ close_retry \in BOOLEAN
      /\ g_shutdown \in BOOLEAN /\ interface_down_event \in BOOLEAN
      /\ paused \in BOOLEAN /\ reconnect_status \in BOOLEAN
  BY Zenon DEF Init
<1>2. TypeOK
  BY <1>1, ConnManagerAssumption DEF Init, TypeOK, PCs, Rets, ConnStates, Reasons
<1>3. ControlInv /\ NoConnectionLeak /\ CloseOnce /\ OnlineMeansConnected
  BY ConnManagerAssumption DEF Init, ControlInv, NoConnectionLeak, CloseOnce,
     OnlineMeansConnected, NoConnPCs, ClosePCs
<1> QED
  BY <1>2, <1>3 DEF IInv

\* Every step of every thread keeps the inductive invariant.
LEMMA NextPreserves ==
    ASSUME IInv, [Next]_vars
    PROVE  IInv'
<1>1. CASE MainNext
  BY <1>1, CreatePreserves, LoopPreserves DEF MainNext
<1>2. CASE HandlerNext
  BY <1>2, HandlerPreserves
<1>3. CASE SendNext
  BY <1>3, SendPreserves
<1>4. CASE CrudNext
  BY <1>4, CrudPreserves
<1>5. CASE WorkerNext
  BY <1>5, WorkerPreserves DEF WorkerNext
<1>6. CASE EnvNext
  BY <1>6, EnvPreserves
<1>7. CASE UNCHANGED vars
  BY <1>7 DEF vars, IInv, TypeOK, ControlInv, NoConnectionLeak, CloseOnce,
     OnlineMeansConnected, ctlVars, connVars, reasonVars, dataVars, otherVars
<1> QED
  BY <1>1, <1>2, <1>3, <1>4, <1>5, <1>6, <1>7 DEF Next

\* The inductive invariant holds of every behaviour.
THEOREM IInvAlways == Spec => []IInv
<1>1. IInv /\ [Next]_vars => IInv'
  BY NextPreserves
<1> QED
  BY <1>1, InitIInv, PTL DEF Spec

\* The flags, pointers and thread states are always of their types; in particular
\* the heartbeat timer never passes the ping timeout, and connect_and_wait never
\* makes more attempts than it has address families.
THEOREM TypeCorrect == Spec => []TypeOK
<1>1. IInv => TypeOK
  BY DEF IInv
<1> QED
  BY <1>1, IInvAlways, PTL

\* No connection object is ever lost: what nopoll has allocated is what the global
\* pointer names.
THEOREM NoLeak == Spec => []NoConnectionLeak
<1>1. IInv => NoConnectionLeak
  BY DEF IInv
<1> QED
  BY <1>1, IInvAlways, PTL

\* No connection is closed twice.
THEOREM NoDoubleClose == Spec => []CloseOnce
<1>1. IInv => CloseOnce
  BY DEF IInv
<1> QED
  BY <1>1, IInvAlways, PTL

\* cloud_status says online only with a connection, unless a shutdown cut
\* createNopollConnection short.
THEOREM OnlineIsConnected == Spec => []OnlineMeansConnected
<1>1. IInv => OnlineMeansConnected
  BY DEF IInv
<1> QED
  BY <1>1, IInvAlways, PTL
-----------------------------------------------------------------------------
(* The main loop ends only for a shutdown, when no other thread sets        *)
(* close_retry.                                                             *)

\* Where the main thread has found or made close_retry false, it stays false until
\* the thread itself is in nopoll_loop_wait, the heartbeat check or a close again.
RetryInv ==
    /\ kpc = "idle"
    /\ pc \in {"c_reason", "c_handlers", "loop_test"} => ~close_retry
    /\ LoopExitsOnShutdown

\* Nothing but the main thread sets close_retry.
MainThreadOnly == ~WithCloudDisconnect /\ ~WithSendFailure

\* The main thread keeps RetryInv: every way to the loop's condition goes through
\* a test that found close_retry false or through reset_close_retry.
LEMMA MainKeepsRetryInv ==
    ASSUME TypeOK, RetryInv, MainNext
    PROVE  RetryInv'
<1> USE DEF TypeOK, RetryInv, LoopExitsOnShutdown, Goto, Rets, otherVars, dataVars,
            connVars, ctlVars, reasonVars
<1>1. CASE CreateNext
  BY <1>1 DEF CreateNext, CreateEnter, CreateInvalidDefault, CreateWhile, KeepTrying,
     NopollConnect, NopollConnectNone, NopollConnectDnsStuck, AfterFailure, WaitReady,
     WaitNotReady, ConnectFailed, BackoffLock, BackoffTimeout, CreateOnline,
     CreateResetRetry, CreateResetReason, CreateReturn
<1>2. CASE LoopNext
  BY <1>2 DEF LoopNext, LoopTimeout, HeartBeat, InterfaceCheck, CloseRetryCheck, CloseExt,
     CloseOffline, CloseNull, InterfaceTest, InterfaceLock, InterfaceWoken,
     CloudDisconnectCheck, CloudDisconnectFree, CloudDisconnectReset, LoopTest,
     SignalWorkers, JoinWorkers, ListenerOnClose
<1> QED
  BY <1>1, <1>2 DEF MainNext

\* The other threads never set close_retry then.
LEMMA OthersKeepRetryInv ==
    ASSUME TypeOK, RetryInv, MainThreadOnly,
           HandlerNext \/ SendNext \/ CrudNext \/ WorkerNext \/ EnvNext
    PROVE  RetryInv'
<1> USE DEF TypeOK, RetryInv, LoopExitsOnShutdown, Goto, otherVars, dataVars,
            connVars, ctlVars, reasonVars, MainThreadOnly
<1>1. CASE HandlerNext
  BY <1>1 DEF HandlerNext, HandlerSetShutdown, HandlerResetInterface, HandlerEndBackoff,
     ResetInterfaceDown
<1>2. CASE SendNext
  BY <1>2 DEF SendNext, SendCheckDisconnect, SendGetConn, SendCheckOnline, Send, SendFails,
     SendUseAfterFree
<1>3. CASE CrudNext
  BY <1>3 DEF CrudNext, CloudDisconnectDup, ConnDisconnectCheck, ConnDisconnectReason,
     ConnDisconnectSet
<1>4. CASE WorkerNext
  BY <1>4 DEF WorkerNext, WorkerWait, WorkerWake, WorkerExit
<1>5. CASE EnvNext
  BY <1>5 DEF EnvNext, LoopPing, LoopPeerClose, SignalArrives, InterfaceDown, InterfaceUp,
     ResetInterfaceDown, SpuriousWakeup, SendBegin, CloudDisconnectRequest
<1> QED
  BY <1>1, <1>2, <1>3, <1>4, <1>5

\* Without cloud-disconnect requests and failing sends, createSocketConnection
\* leaves its loop only for a shutdown: whatever closes the connection, the
\* reconnect clears close_retry before the loop's condition is evaluated.
THEOREM LoopEndsOnlyForShutdown ==
    ASSUME MainThreadOnly
    PROVE  Spec => []LoopExitsOnShutdown
<1>1. Init => RetryInv
  BY DEF Init, RetryInv, LoopExitsOnShutdown
<1>2. TypeOK /\ RetryInv /\ [Next]_vars => RetryInv'
  <2> SUFFICES ASSUME TypeOK, RetryInv, [Next]_vars PROVE RetryInv'
    OBVIOUS
  <2>1. CASE UNCHANGED vars
    BY <2>1 DEF vars, RetryInv, LoopExitsOnShutdown, otherVars, dataVars
  <2> QED
    BY <2>1, MainKeepsRetryInv, OthersKeepRetryInv DEF Next
<1>3. RetryInv => LoopExitsOnShutdown
  BY DEF RetryInv
<1> QED
  BY <1>1, <1>2, <1>3, TypeCorrect, PTL DEF Spec
-----------------------------------------------------------------------------
(* A reconnect has a reason when no cloud-disconnect races with the reset   *)
(* of the reason; failing sends, on another thread, are allowed.            *)

\* Whoever sets close_retry has set a reason before, and only CreateResetReason
\* takes it back, when close_retry has just been reset.  Meanwhile the close handler,
\* which a failing send calls, is not installed: no connection is open.
ReasonInv ==
    /\ kpc = "idle"
    /\ reconnect_status \/ close_retry => reconnect_reason # "webpa_process_starts"
    /\ pc = "c_reason" => ~close_retry
    /\ pc \in {"k_wait", "c_deref", "c_reset", "c_reason", "c_handlers"}
          => \A c \in Conns : connState[c] # "open"
    /\ \/ pc \in {"cd_check", "cd_sleep", "cd_reset"}
       \/ pc \in ClosePCs /\ ret = "cd_check"
       => reconnect_reason # "webpa_process_starts"
    /\ ReconnectHasReason

\* createNopollConnection resets the reason only with close_retry reset.
LEMMA CreateKeepsReason ==
    ASSUME IInv, ReasonInv, CreateNext
    PROVE  ReasonInv'
<1> USE DEF ReasonInv, ReconnectHasReason, Goto, otherVars, dataVars, connVars, ctlVars,
            reasonVars, ClosePCs
<1>1. /\ connState \in [Conns -> ConnStates]
      /\ pc \in {"c_while", "k_connect"} => \A c \in Conns : connState[c] = "free"
  BY DEF IInv, TypeOK, ControlInv, NoConnPCs
<1>2. CASE CreateEnter \/ CreateInvalidDefault \/ CreateWhile \/ KeepTrying
  BY <1>1, <1>2 DEF CreateEnter, CreateInvalidDefault, CreateWhile, KeepTrying
<1>3. ASSUME NEW c \in Conns, NopollConnect(c) PROVE ReasonInv'
  BY <1>1, <1>3 DEF NopollConnect
<1>4. CASE NopollConnectNone \/ NopollConnectDnsStuck
  BY <1>4 DEF NopollConnectNone, NopollConnectDnsStuck, AfterFailure
<1>5. CASE WaitReady
  BY <1>1, <1>5 DEF WaitReady
<1>6. CASE WaitNotReady \/ ConnectFailed
  BY <1>6 DEF WaitNotReady, ConnectFailed, AfterFailure
<1>7. CASE BackoffLock \/ BackoffTimeout \/ CreateOnline
  BY <1>7 DEF BackoffLock, BackoffTimeout, CreateOnline
<1>8. CASE CreateResetRetry \/ CreateResetReason
  BY <1>8 DEF CreateResetRetry, CreateResetReason
<1>9. CASE CreateReturn
  BY <1>9 DEF CreateReturn
<1> QED BY <1>2, <1>3, <1>4, <1>5, <1>6, <1>7, <1>8, <1>9 DEF CreateNext

\* The close handler leaves a reason.
LEMMA CloseLeavesReason ==
    ASSUME reconnect_status \/ close_retry => reconnect_reason # "webpa_process_starts",
           NEW is1006 \in BOOLEAN, ListenerOnClose(is1006)
    PROVE  reconnect_reason' # "webpa_process_starts"
BY DEF ListenerOnClose

\* The main loop reconnects only with close_retry set.
LEMMA LoopKeepsReason ==
    ASSUME IInv, ReasonInv, LoopNext
    PROVE  ReasonInv'
<1> USE DEF ReasonInv, ReconnectHasReason, Goto, otherVars, dataVars, connVars, ctlVars,
            reasonVars, ClosePCs
<1>1. CASE LoopTimeout \/ InterfaceCheck \/ CloseRetryCheck
  BY <1>1 DEF LoopTimeout, InterfaceCheck, CloseRetryCheck
<1>2. CASE HeartBeat
  BY <1>2 DEF HeartBeat
<1>3. CASE CloseExt
  <2>1. \/ reconnect_reason' # "webpa_process_starts"
        \/ UNCHANGED <<close_retry, reasonVars>>
    BY <1>3, CloseLeavesReason DEF CloseExt
  <2>2. pc = "close_ext" /\ pc' \in {"close_off", "close_null"} /\ ret' = ret /\ kpc' = kpc
    BY <1>3 DEF CloseExt
  <2> QED BY <2>1, <2>2
<1>4. CASE CloseOffline
  BY <1>4 DEF CloseOffline
<1>5. CASE CloseNull
  <2>1. ret \in Rets
    BY DEF IInv, TypeOK
  <2> QED BY <1>5, <2>1 DEF CloseNull, Rets
<1>6. CASE InterfaceTest \/ InterfaceLock \/ InterfaceWoken
  <2>1. ifret \in {"cr_check", "c_while"}
    BY DEF IInv, TypeOK
  <2> QED BY <1>6, <2>1 DEF InterfaceTest, InterfaceLock, InterfaceWoken
<1>7. CASE CloudDisconnectCheck \/ CloudDisconnectFree \/ CloudDisconnectReset
  BY <1>7 DEF CloudDisconnectCheck, CloudDisconnectFree, CloudDisconnectReset
<1>8. CASE LoopTest \/ SignalWorkers \/ JoinWorkers
  BY <1>8 DEF LoopTest, SignalWorkers, JoinWorkers
<1> QED BY <1>1, <1>2, <1>3, <1>4, <1>5, <1>6, <1>7, <1>8 DEF LoopNext

\* The other threads change the reason only through the close handler.
LEMMA OthersKeepReason ==
    ASSUME IInv, ReasonInv, ~WithCloudDisconnect,
           HandlerNext \/ SendNext \/ CrudNext \/ WorkerNext \/ EnvNext
    PROVE  ReasonInv'
<1> USE DEF ReasonInv, ReconnectHasReason, Goto, otherVars, dataVars, connVars, ctlVars,
            reasonVars, ClosePCs
<1>1. CASE HandlerNext
  BY <1>1 DEF HandlerNext, HandlerSetShutdown, HandlerResetInterface, HandlerEndBackoff,
     ResetInterfaceDown
<1>2. CASE SendCheckDisconnect \/ SendGetConn \/ SendCheckOnline \/ Send \/ SendUseAfterFree
  BY <1>2 DEF SendCheckDisconnect, SendGetConn, SendCheckOnline, Send, SendUseAfterFree
<1>3. CASE SendFails
  <2>1. connState \in [Conns -> ConnStates] /\ sconn \in Conns
    BY <1>3 DEF SendFails, IInv, TypeOK
  <2>2. CASE connState[sconn] = "open"
    <3>1. reconnect_reason' # "webpa_process_starts"
      BY <1>3, <2>2, CloseLeavesReason DEF SendFails
    <3>2. pc' = pc /\ ret' = ret /\ kpc' = kpc
      BY <1>3 DEF SendFails
    <3>3. pc \notin {"k_wait", "c_deref", "c_reset", "c_reason", "c_handlers"}
      BY <2>1, <2>2
    <3> QED BY <3>1, <3>2, <3>3
  <2>3. CASE connState[sconn] # "open"
    BY <1>3, <2>1, <2>3 DEF SendFails
  <2> QED BY <2>2, <2>3
<1>4. CASE CrudNext
  BY <1>4 DEF CrudNext, CloudDisconnectDup, ConnDisconnectCheck, ConnDisconnectReason,
     ConnDisconnectSet
<1>5. CASE WorkerNext
  BY <1>5 DEF WorkerNext, WorkerWait, WorkerWake, WorkerExit
<1>6. CASE LoopPeerClose
  <2>1. reconnect_reason' # "webpa_process_starts"
    BY <1>6, CloseLeavesReason DEF LoopPeerClose
  <2> QED BY <1>6, <2>1 DEF LoopPeerClose
<1>7. CASE LoopPing \/ SignalArrives \/ InterfaceDown \/ InterfaceUp
  BY <1>7 DEF LoopPing, SignalArrives, InterfaceDown, InterfaceUp, ResetInterfaceDown
<1>8. CASE SpuriousWakeup \/ SendBegin \/ CloudDisconnectRequest
  BY <1>8 DEF SpuriousWakeup, SendBegin, CloudDisconnectRequest
<1> QED BY <1>1, <1>2, <1>3, <1>4, <1>5, <1>6, <1>7, <1>8 DEF SendNext, EnvNext

\* Without cloud-disconnect requests, whatever threads send and fail meanwhile, the
\* header of a reconnect carries the reason of the loss.  With them it may not: the
\* reset after a connect may come between ConnDisconnectReason and ConnDisconnectSet.
THEOREM ReconnectsHaveReasons ==
    ASSUME ~WithCloudDisconnect
    PROVE  Spec => []ReconnectHasReason
<1>1. Init => ReasonInv
  BY DEF Init, ReasonInv, ReconnectHasReason, ClosePCs
<1>2. IInv /\ ReasonInv /\ [Next]_vars => ReasonInv'
  <2> SUFFICES ASSUME IInv, ReasonInv, [Next]_vars PROVE ReasonInv'
    OBVIOUS
  <2>1. CASE UNCHANGED vars
    BY <2>1 DEF vars, ReasonInv, ReconnectHasReason, otherVars, dataVars, connVars, ctlVars,
       reasonVars, ClosePCs
  <2> QED
    BY <2>1, CreateKeepsReason, LoopKeepsReason, OthersKeepReason DEF Next, MainNext
<1>3. ReasonInv => ReconnectHasReason
  BY DEF ReasonInv
<1> QED
  BY <1>1, <1>2, <1>3, IInvAlways, PTL DEF Spec
=============================================================================
