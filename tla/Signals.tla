------------------------------- MODULE Signals -------------------------------
(***************************************************************************)
(* The waits of the main thread, backoff_delay and                         *)
(* wait_while_interface_down, with their mutexes and condition variables,  *)
(* the thread that reports interface events, and the signal handler, which *)
(* ends the waits.  The kernel runs the handler on any of the threads; the *)
(* thread it runs on does nothing else meanwhile, and keeps the mutex it   *)
(* has.                                                                    *)
(*                                                                         *)
(* ConnManager has the handler as a thread of its own and one step for     *)
(* what a mutex protects; here each lock is a step.                        *)
(***************************************************************************)
EXTENDS Naturals

CONSTANTS
    MaxEvents,        \* interface events
    NULL

Threads == {"main", "events", "other"}   \* where the handler may run
Mutexes == {"interface_down_mut", "backoff_delay_mut"}

ASSUME SignalsAssumption == MaxEvents \in Nat /\ NULL \notin Threads

VARIABLES
    mpc,         \* the main thread
    epc,         \* the event thread
    hpc,         \* the signal handler
    hthread,     \* the thread the handler runs on
    owner,       \* mutex -> thread, or NULL
    woken,       \* the main thread's wait was signalled
    ifdown,      \* interface_down_event
    g_shutdown,
    events       \* interface events so far

vars == <<mpc, epc, hpc, hthread, owner, woken, ifdown, g_shutdown, events>>

Init ==
    /\ mpc = "run" /\ epc = "idle" /\ hpc = "idle" /\ hthread = NULL
    /\ owner = [m \in Mutexes |-> NULL]
    /\ woken = FALSE /\ ifdown = FALSE /\ g_shutdown = FALSE /\ events = 0

InHandler(t) == hthread = t /\ hpc \notin {"idle", "done"}
Lock(t, m) == owner[m] = NULL /\ owner' = [owner EXCEPT ![m] = t]
Unlock(t, m) == owner[m] = t /\ owner' = [owner EXCEPT ![m] = NULL]

\* pthread_cond_signal on the condition variable the main thread waits on at w.
CondSignal(w) == woken' = (woken \/ mpc = w)
-----------------------------------------------------------------------------
(* The main thread                                                          *)

Main(from, to) == mpc = from /\ mpc' = to /\ ~InHandler("main")
mainOnly == <<epc, hpc, hthread, ifdown, g_shutdown, events>>

\* An attempt has failed: get_interface_down_event takes the mutex and gives it back.
\* The loops of the connection end at a shutdown.
AttemptFailed ==
    /\ Main("run", IF g_shutdown THEN "ended" ELSE "f_lock")
    /\ UNCHANGED <<owner, woken, mainOnly>>
GetFlagLock ==
    /\ Main("f_lock", "f_read") /\ Lock("main", "interface_down_mut")
    /\ UNCHANGED <<woken, mainOnly>>

GetFlagUnlock ==
    /\ Main("f_read", IF ifdown THEN "w_lock" ELSE "b_lock")
    /\ Unlock("main", "interface_down_mut")
    /\ UNCHANGED <<woken, mainOnly>>

\* wait_while_interface_down, whose loop looks at the flag in the same way.
TestFlagLock ==
    /\ Main("w_lock", "w_read") /\ Lock("main", "interface_down_mut")
    /\ UNCHANGED <<woken, mainOnly>>
TestFlagUnlock ==
    /\ Main("w_read", IF ifdown THEN "i_lock" ELSE "run")
    /\ Unlock("main", "interface_down_mut")
    /\ UNCHANGED <<woken, mainOnly>>
InterfaceLock ==
    /\ Main("i_lock", "i_locked") /\ Lock("main", "interface_down_mut")
    /\ UNCHANGED <<woken, mainOnly>>
InterfaceWait ==
    /\ Main("i_locked", "i_wait") /\ Unlock("main", "interface_down_mut")
    /\ woken' = FALSE /\ UNCHANGED mainOnly
InterfaceWake ==
    /\ Main("i_wait", "i_unlock") /\ woken /\ Lock("main", "interface_down_mut")
    /\ UNCHANGED <<woken, mainOnly>>
InterfaceUnlock ==
    /\ Main("i_unlock", IF g_shutdown THEN "ended" ELSE "w_lock")
    /\ Unlock("main", "interface_down_mut")
    /\ UNCHANGED <<woken, mainOnly>>

\* backoff_delay; the delay ends with the signal or the timeout.
BackoffLock ==
    /\ Main("b_lock", "b_locked") /\ Lock("main", "backoff_delay_mut")
    /\ UNCHANGED <<woken, mainOnly>>
BackoffWait ==
    /\ Main("b_locked", "b_wait") /\ Unlock("main", "backoff_delay_mut")
    /\ woken' = FALSE /\ UNCHANGED mainOnly
BackoffWake ==
    /\ Main("b_wait", "b_unlock") /\ woken /\ Lock("main", "backoff_delay_mut")
    /\ UNCHANGED <<woken, mainOnly>>
BackoffTimeout ==
    /\ Main("b_wait", "b_unlock") /\ Lock("main", "backoff_delay_mut")
    /\ UNCHANGED <<woken, mainOnly>>

\* Mutant of BackoffUnlock: the mutex is kept when the delay was taken.
BackoffUnlockNot ==
    /\ Main("b_unlock", IF g_shutdown THEN "ended" ELSE "run")
    /\ UNCHANGED <<owner, woken, mainOnly>>

BackoffUnlock ==
    /\ Main("b_unlock", IF g_shutdown THEN "ended" ELSE "run")
    /\ Unlock("main", "backoff_delay_mut")
    /\ UNCHANGED <<woken, mainOnly>>
-----------------------------------------------------------------------------
(* set_interface_down_event and reset_interface_down_event                  *)

EventLock ==
    /\ epc = "idle" /\ ~InHandler("events") /\ events < MaxEvents
    /\ epc' = "locked" /\ Lock("events", "interface_down_mut") /\ events' = events + 1
    /\ UNCHANGED <<mpc, hpc, hthread, woken, ifdown, g_shutdown>>
EventUnlock ==
    /\ epc = "locked" /\ ~InHandler("events")
    /\ epc' = "idle" /\ Unlock("events", "interface_down_mut")
    /\ ifdown' = ~ifdown
    /\ IF ifdown THEN CondSignal("i_wait") ELSE UNCHANGED woken
    /\ UNCHANGED <<mpc, hpc, hthread, g_shutdown, events>>
-----------------------------------------------------------------------------
(* sig_handler and shutdownSocketConnection                                 *)

Handler(from, to) == hpc = from /\ hpc' = to
handlerOnly == <<mpc, epc, events>>

SignalArrives(t) ==
    /\ Handler("idle", "i_lock") /\ mpc # "ended"
    /\ hthread' = t /\ g_shutdown' = TRUE
    /\ UNCHANGED <<handlerOnly, owner, woken, ifdown>>
HandlerInterfaceLock ==
    /\ Handler("i_lock", "i_unlock") /\ Lock(hthread, "interface_down_mut")
    /\ UNCHANGED <<handlerOnly, hthread, woken, ifdown, g_shutdown>>
HandlerInterfaceUnlock ==
    /\ Handler("i_unlock", "b_lock") /\ Unlock(hthread, "interface_down_mut")
    /\ ifdown' = FALSE /\ CondSignal("i_wait")
    /\ UNCHANGED <<handlerOnly, hthread, g_shutdown>>
terminate_backoff_delay_lock ==
    /\ Handler("b_lock", "b_unlock") /\ Lock(hthread, "backoff_delay_mut")
    /\ UNCHANGED <<handlerOnly, hthread, woken, ifdown, g_shutdown>>

\* Mutant of terminate_backoff_delay: no signal.
terminate_backoff_delay_silent ==
    /\ Handler("b_unlock", "done") /\ Unlock(hthread, "backoff_delay_mut")
    /\ UNCHANGED <<handlerOnly, hthread, woken, ifdown, g_shutdown>>

terminate_backoff_delay ==
    /\ Handler("b_unlock", "done") /\ Unlock(hthread, "backoff_delay_mut")
    /\ CondSignal("b_wait")
    /\ UNCHANGED <<handlerOnly, hthread, ifdown, g_shutdown>>
-----------------------------------------------------------------------------
MainNext ==
    \/ AttemptFailed \/ GetFlagLock \/ GetFlagUnlock
    \/ TestFlagLock \/ TestFlagUnlock
    \/ InterfaceLock \/ InterfaceWait \/ InterfaceWake \/ InterfaceUnlock
    \/ BackoffLock \/ BackoffWait \/ BackoffWake \/ BackoffUnlock

HandlerNext ==
    \/ HandlerInterfaceLock \/ HandlerInterfaceUnlock
    \/ terminate_backoff_delay_lock \/ terminate_backoff_delay

Next ==
    \/ MainNext \/ BackoffTimeout \/ EventLock \/ EventUnlock
    \/ \E t \in Threads : SignalArrives(t)
    \/ HandlerNext

Spec == Init /\ [][Next]_vars

\* Every thread runs, and a mutex that is free again and again is obtained.  The end
\* of a delay is not among this: it takes up to 2^c - 1 seconds.
FairSpec == Spec /\ SF_vars(MainNext) /\ WF_vars(EventUnlock) /\ SF_vars(HandlerNext)
-----------------------------------------------------------------------------
\* The handler is behind a mutex that the thread it interrupted holds.
SelfBlocked ==
    \/ hpc = "i_lock" /\ owner["interface_down_mut"] = hthread
    \/ hpc = "b_lock" /\ owner["backoff_delay_mut"] = hthread

\* The handler comes to its end on whatever thread it runs: the mutexes it needs are
\* given back by the others.  Only where it interrupted the very thread that holds one
\* of them does it wait for ever, for no mutex here can be taken twice.
HandlerReturns == hpc = "i_lock" ~> (hpc = "done" \/ SelfBlocked)

\* A delay that is under way when the handler gets to terminate_backoff_delay ends
\* without its timeout, also when the handler interrupted the wait itself.
DelayBroken == (mpc = "b_wait" /\ hpc \in {"b_lock", "b_unlock"}) ~> mpc # "b_wait"
=============================================================================
