------------------------------ MODULE Heartbeat ------------------------------
(***************************************************************************)
(* How parodus notices that pings are missing: the heartbeat timer, to     *)
(* which the main loop adds the time each nopoll_loop_wait took, read from *)
(* the real-time clock, and which pings, interface events and reconnects   *)
(* set to zero.                                                            *)
(*                                                                         *)
(* ConnManager counts passes of the loop instead; here time is in ticks,   *)
(* the clock may be set while the loop waits, and the arithmetic has the   *)
(* width of the code's.  A tick of a paused timer is not counted.          *)
(***************************************************************************)
EXTENDS Integers

CONSTANTS
    webpa_ping_timeout,  \* of the configuration
    PerSec,              \* ticks in a second (1000 ms)
    LoopMax,             \* ticks nopoll_loop_wait takes at most (5000 ms)
    UINT_MAX,            \* the largest unsigned int
    MaxQuiet,            \* up to where the history counts ticks
    Steps                \* by how much the clock may be set, in ticks

ASSUME HeartbeatAssumption ==
    /\ webpa_ping_timeout \in Nat /\ PerSec \in Nat \ {0} /\ LoopMax \in Nat \ {0}
    /\ UINT_MAX \in Nat /\ Steps \subseteq Int
    /\ MaxQuiet \in Nat /\ MaxQuiet > PerSec * webpa_ping_timeout + 2 * LoopMax

Unsigned(n) == n % (UINT_MAX + 1)
webpa_ping_timeout_ms == Unsigned(PerSec * webpa_ping_timeout)

VARIABLES
    pc,
    heartBeatTimer, paused,
    close_retry,
    read,      \* the main thread's copy of heartBeatTimer
    waited,    \* ticks since the loop began to wait
    step,      \* by how much the clock was set meanwhile
    disturbed, \* history: the clock was set since the timer was last set to zero
    quiet,     \* history: ticks since the last ping with a payload, connection or pause
    ignored,   \* history: pings without a payload came meanwhile
    seen,      \* history: quiet when the timer was read
    missed     \* history: Ping_Miss is the reason of the reconnect under way

vars == <<pc, heartBeatTimer, paused, close_retry, read, waited, step, disturbed,
          quiet, ignored, seen, missed>>

Init ==
    /\ pc = "wait" /\ heartBeatTimer = 0 /\ paused = FALSE /\ close_retry = FALSE
    /\ read = 0 /\ waited = 0 /\ step = 0 /\ quiet = 0
    /\ seen = 0 /\ missed = FALSE /\ disturbed = FALSE /\ ignored = FALSE
-----------------------------------------------------------------------------
(* nopoll_loop_wait and its callbacks                                       *)

Tick ==
    /\ pc = "wait" /\ waited < LoopMax
    /\ waited' = waited + 1
    /\ quiet' = IF paused \/ quiet = MaxQuiet THEN quiet ELSE quiet + 1
    /\ UNCHANGED <<pc, heartBeatTimer, paused, close_retry, read, step, disturbed, ignored,
                   seen, missed>>

ClockSet ==
    /\ pc = "wait" /\ step = 0 /\ step' \in Steps /\ disturbed' = TRUE
    /\ UNCHANGED <<pc, heartBeatTimer, paused, close_retry, read, waited, quiet, ignored, seen,
                   missed>>

\* A ping (nopoll calls the handler for no other frame) without a payload does not
\* reset the timer.
listenerOnPingMessage(payload) ==
    /\ pc = "wait"
    /\ IF payload
       THEN heartBeatTimer' = 0 /\ quiet' = 0 /\ disturbed' = (step # 0) /\ ignored' = FALSE
       ELSE ignored' = TRUE /\ UNCHANGED <<heartBeatTimer, quiet, disturbed>>
    /\ UNCHANGED <<pc, paused, close_retry, read, waited, step, seen, missed>>

listenerOnCloseMessage ==
    /\ pc = "wait" /\ close_retry' = TRUE
    /\ UNCHANGED <<pc, heartBeatTimer, paused, read, waited, step, disturbed, quiet, ignored,
                   seen, missed>>
-----------------------------------------------------------------------------
(* The main loop                                                            *)

GetTimer ==
    /\ pc = "wait" /\ pc' = "check" /\ read' = heartBeatTimer /\ seen' = quiet
    /\ UNCHANGED <<heartBeatTimer, paused, close_retry, waited, step, disturbed, quiet,
                   ignored, missed>>

\* Mutant of time_taken_ms: a wait counts a tick less than it took.
time_taken_ms_cut == IF waited + step > 0 THEN waited + step - 1 ELSE 0

\* timespec_diff of the clock before and after the wait.
time_taken_ms == waited + step

\* Mutant of increment_heartBeatTimer: a paused timer goes on.
increment_heartBeatTimer_paused(n) == heartBeatTimer' = Unsigned(heartBeatTimer + n)

increment_heartBeatTimer(n) ==
    heartBeatTimer' = IF paused THEN heartBeatTimer ELSE Unsigned(heartBeatTimer + n)

\* A missing ping, unless the connection is being closed already, asks for a
\* reconnect; else the time of the wait is added.
HeartBeatCheck ==
    /\ pc = "check" /\ pc' = "retry" /\ waited' = 0 /\ step' = 0
    /\ IF read >= webpa_ping_timeout_ms
       THEN /\ heartBeatTimer' = 0
            /\ close_retry' = TRUE
            /\ missed' = ~close_retry
       ELSE increment_heartBeatTimer(time_taken_ms) /\ UNCHANGED <<close_retry, missed>>
    /\ UNCHANGED <<paused, read, disturbed, quiet, ignored, seen>>

\* Mutant of CloseRetry: the new connection goes on with the timer of the old one.
CloseRetryKeepsTimer ==
    /\ pc = "retry" /\ pc' = "wait"
    /\ quiet' = IF close_retry THEN 0 ELSE quiet
    /\ disturbed' = (disturbed /\ ~close_retry) /\ ignored' = (ignored /\ ~close_retry)
    /\ close_retry' = FALSE /\ missed' = FALSE
    /\ UNCHANGED <<heartBeatTimer, paused, read, waited, step, seen>>

\* A connection that is closed is made anew, with the timer at zero.
CloseRetry ==
    /\ pc = "retry" /\ pc' = "wait"
    /\ IF close_retry
       THEN heartBeatTimer' = 0 /\ quiet' = 0 /\ disturbed' = FALSE /\ ignored' = FALSE
       ELSE UNCHANGED <<heartBeatTimer, quiet, disturbed, ignored>>
    /\ close_retry' = FALSE /\ missed' = FALSE
    /\ UNCHANGED <<paused, read, waited, step, seen>>
-----------------------------------------------------------------------------
(* The thread that reports interface events                                 *)

pause_heartBeatTimer ==
    /\ heartBeatTimer' = 0 /\ paused' = TRUE /\ quiet' = 0 /\ ignored' = FALSE
    /\ UNCHANGED <<pc, close_retry, read, waited, step, disturbed, seen, missed>>

resume_heartBeatTimer ==
    /\ paused' = FALSE
    /\ UNCHANGED <<pc, heartBeatTimer, close_retry, read, waited, step, disturbed, quiet, ignored,
                   seen, missed>>

Next ==
    \/ Tick \/ ClockSet \/ (\E payload \in BOOLEAN : listenerOnPingMessage(payload))
    \/ listenerOnCloseMessage
    \/ GetTimer \/ HeartBeatCheck \/ CloseRetry
    \/ pause_heartBeatTimer \/ resume_heartBeatTimer

Spec == Init /\ [][Next]_vars
-----------------------------------------------------------------------------
Timeout == PerSec * webpa_ping_timeout

\* Type invariant; the timer stays within the width of an unsigned int.
TypeOK ==
    /\ pc \in {"wait", "check", "retry"}
    /\ heartBeatTimer \in 0..UINT_MAX /\ read \in 0..UINT_MAX
    /\ paused \in BOOLEAN /\ close_retry \in BOOLEAN /\ missed \in BOOLEAN
    /\ disturbed \in BOOLEAN /\ ignored \in BOOLEAN
    /\ waited \in 0..LoopMax /\ step \in Steps \cup {0}
    /\ quiet \in 0..MaxQuiet /\ seen \in 0..MaxQuiet

\* While the interface is down the timer stays at zero, although the main thread may
\* be between reading and raising it when it goes down, and the clock may be set.
PausedIsZero == paused => heartBeatTimer = 0

\* No ping is missed too soon: when Ping_Miss closes a connection, no ping with a
\* payload has come for the timeout, less the one wait of the loop in which the last
\* one came; pings without a payload keep no connection, and if the clock was set
\* since then, the connection may be closed while pings with a payload arrive.
NoFalseMiss == missed /\ ~disturbed => seen + LoopMax >= Timeout

\* No ping is missed too late: a connection that gets no ping with a payload is closed
\* after the timeout and two waits of the loop, unless the clock was set since the last
\* one; the next such ping or connection makes up for the wrong time.
SilenceNoticed == ~disturbed => quiet <= Timeout + 2 * LoopMax
=============================================================================
