---------------------------- MODULE Nopoll_proofs ----------------------------
(***************************************************************************)
(* The handlers and helpers around nopoll.                                 *)
(*                                                                         *)
(* The heartbeat timer for any timeout, any length of a wait and any way   *)
(* the clock is set; and, if no number overflows, how soon and how late a  *)
(* missing ping is noticed as long as the clock is not set.                *)
(*                                                                         *)
(* The frames that arrive (Fragments) for any number of messages, frames   *)
(* and faults, and the frames that are sent (SendFrames) for any           *)
(* set of senders, any lengths and any limit of a frame.                   *)
(***************************************************************************)
EXTENDS Heartbeat, Framing, FiniteSetTheorems, TLAPS

\* The constants, without the product.
LEMMA Constants ==
    /\ LoopMax \in Nat /\ UINT_MAX \in Nat /\ MaxQuiet \in Nat /\ Timeout \in Nat
    /\ MaxQuiet > Timeout + 2 * LoopMax
    /\ Steps \subseteq Int
  BY HeartbeatAssumption DEF Timeout

\* A remainder is an unsigned int.
LEMMA UnsignedType == \A n \in Int : Unsigned(n) \in 0..UINT_MAX
  <1> SUFFICES ASSUME NEW n \in Int PROVE n % (UINT_MAX + 1) \in 0..UINT_MAX
    BY DEF Unsigned
  <1>1. UINT_MAX \in Nat BY Constants
  <1> DEFINE m == UINT_MAX + 1
  <1>2. m \in Nat /\ m > 0 BY <1>1
  <1>3. n % m \in 0..(m - 1) BY <1>2
  <1> QED BY <1>1, <1>3

PInv == TypeOK /\ PausedIsZero

\* The flags at the start.
LEMMA InitFlags ==
    Init => /\ ~paused /\ ~close_retry /\ ~missed /\ ~disturbed /\ ignored \in BOOLEAN
            /\ paused \in BOOLEAN /\ close_retry \in BOOLEAN /\ missed \in BOOLEAN
            /\ disturbed \in BOOLEAN
  BY Zenon DEF Init

LEMMA PInvAlways == Spec => []PInv
  <1> USE Constants
  <1>1. Init => PInv BY InitFlags DEF Init, PInv, TypeOK, PausedIsZero
  <1>2. PInv /\ [Next]_vars => PInv'
    <2> SUFFICES ASSUME PInv, [Next]_vars PROVE PInv' OBVIOUS
    <2> USE DEF PInv, TypeOK, PausedIsZero
    <2>1. CASE Tick BY <2>1 DEF Tick
    <2>2. CASE ClockSet BY <2>2 DEF ClockSet
    <2>3. ASSUME NEW payload \in BOOLEAN, listenerOnPingMessage(payload) PROVE PInv'
      <3>1. disturbed' \in BOOLEAN /\ ignored' \in BOOLEAN
        BY <2>3, Zenon DEF listenerOnPingMessage
      <3>2. heartBeatTimer' \in {0, heartBeatTimer} /\ quiet' \in {0, quiet}
        BY <2>3 DEF listenerOnPingMessage
      <3> QED BY <2>3, <3>1, <3>2 DEF listenerOnPingMessage
    <2>4. CASE listenerOnCloseMessage BY <2>4 DEF listenerOnCloseMessage
    <2>5. CASE GetTimer BY <2>5 DEF GetTimer
    <2>6. CASE HeartBeatCheck
      <3>1. heartBeatTimer + time_taken_ms \in Int BY DEF time_taken_ms
      <3>2. Unsigned(heartBeatTimer + time_taken_ms) \in 0..UINT_MAX BY <3>1, UnsignedType
      <3>3. heartBeatTimer' \in 0..UINT_MAX /\ (paused => heartBeatTimer' = 0)
        BY <2>6, <3>2 DEF HeartBeatCheck, increment_heartBeatTimer
      <3>4. close_retry' \in BOOLEAN BY <2>6, Zenon DEF HeartBeatCheck
      <3>5. missed' \in BOOLEAN BY <2>6, Zenon DEF HeartBeatCheck
      <3> QED BY <2>6, <3>3, <3>4, <3>5 DEF HeartBeatCheck
    <2>7. CASE CloseRetry
      <3>1. /\ close_retry' \in BOOLEAN /\ missed' \in BOOLEAN /\ disturbed' \in BOOLEAN
            /\ ignored' \in BOOLEAN
        BY <2>7, Zenon DEF CloseRetry
      <3>2. heartBeatTimer' \in {0, heartBeatTimer} /\ quiet' \in {0, quiet}
        BY <2>7 DEF CloseRetry
      <3> QED BY <2>7, <3>1, <3>2 DEF CloseRetry
    <2>8. CASE pause_heartBeatTimer
      <3>1. ignored' \in BOOLEAN BY <2>8, Zenon DEF pause_heartBeatTimer
      <3> QED BY <2>8, <3>1 DEF pause_heartBeatTimer
    <2>9. CASE resume_heartBeatTimer BY <2>9 DEF resume_heartBeatTimer
    <2>10. CASE UNCHANGED vars BY <2>10 DEF vars
    <2> QED BY <2>1, <2>2, <2>3, <2>4, <2>5, <2>6, <2>7, <2>8, <2>9, <2>10 DEF Next
  <1> QED BY <1>1, <1>2, PTL DEF Spec

\* Whatever the clock does, the timer stays an unsigned int (heartBeat.c,
\* increment_heartBeatTimer).
THEOREM HeartbeatTypeOK == Spec => []TypeOK
  <1>1. PInv => TypeOK BY DEF PInv
  <1> QED BY <1>1, PInvAlways, PTL

\* Whatever the clock does, the timer is zero while the interface is down (heartBeat.c,
\* pause_heartBeatTimer racing increment_heartBeatTimer).
THEOREM PausedTimerIsZero == Spec => []PausedIsZero
  <1>1. PInv => PausedIsZero BY DEF PInv
  <1> QED BY <1>1, PInvAlways, PTL

-----------------------------------------------------------------------------
(* As long as the clock is not set, if the sums fit an unsigned int.        *)

Fits == Timeout + 2 * LoopMax <= UINT_MAX

\* The timer and the wait under way together are never ahead of the silence by more
\* than one wait (in which the last ping, or the end of the pause, came), and never
\* behind it while the connection is kept.
TimerTells ==
    /\ heartBeatTimer + waited <= quiet + LoopMax
    /\ quiet <= heartBeatTimer + waited \/ (pc = "retry" /\ close_retry)
    /\ heartBeatTimer <= Timeout + LoopMax
    /\ step = 0
    /\ pc = "check" => heartBeatTimer <= read /\ read <= seen + LoopMax

\* What holds however the clock is set; it lets the timer tell again once it is zero.
Control ==
    /\ paused => quiet = 0
    /\ pc = "retry" => waited = 0 /\ step = 0
    /\ missed => pc = "retry"

IInv == PInv /\ Control /\ (~disturbed => TimerTells) /\ NoFalseMiss /\ SilenceNoticed

\* A sum below the limit is its own remainder.
LEMMA UnsignedSmall == \A n \in 0..UINT_MAX : Unsigned(n) = n
  BY Constants DEF Unsigned

\* Control does not depend on the clock.
LEMMA ControlStep == PInv /\ Control /\ [Next]_vars => Control'
  <1> SUFFICES ASSUME PInv, Control, [Next]_vars PROVE Control' OBVIOUS
  <1> USE Constants DEF PInv, TypeOK, Control
  <1>1. CASE Tick BY <1>1 DEF Tick
  <1>2. CASE ClockSet BY <1>2 DEF ClockSet
  <1>3. ASSUME NEW payload \in BOOLEAN, listenerOnPingMessage(payload) PROVE Control'
    BY <1>3 DEF listenerOnPingMessage
  <1>4. CASE listenerOnCloseMessage BY <1>4 DEF listenerOnCloseMessage
  <1>5. CASE GetTimer BY <1>5 DEF GetTimer
  <1>6. CASE HeartBeatCheck BY <1>6 DEF HeartBeatCheck
  <1>7. CASE CloseRetry
    <2>1. ~missed' BY <1>7, Zenon DEF CloseRetry
    <2> QED BY <1>7, <2>1 DEF CloseRetry
  <1>8. CASE pause_heartBeatTimer BY <1>8 DEF pause_heartBeatTimer
  <1>9. CASE resume_heartBeatTimer
    <2>1. ~paused' BY <1>9, Zenon DEF resume_heartBeatTimer
    <2> QED BY <1>9, <2>1 DEF resume_heartBeatTimer
  <1>10. CASE UNCHANGED vars BY <1>10 DEF vars
  <1> QED BY <1>1, <1>2, <1>3, <1>4, <1>5, <1>6, <1>7, <1>8, <1>9, <1>10 DEF Next

Undisturbed == TimerTells /\ NoFalseMiss /\ SilenceNoticed

\* The heartbeat check, with a clock that was not set.
LEMMA CheckKeepsIt ==
  ASSUME Fits, PInv, PInv', Control, Control', Undisturbed, ~disturbed, HeartBeatCheck
  PROVE  Undisturbed'
  <1> USE Constants
  <1>1. Timeout \in 0..UINT_MAX BY DEF Fits
  <1>2. webpa_ping_timeout_ms = Timeout
    BY <1>1, UnsignedSmall DEF webpa_ping_timeout_ms, Timeout
  <1> USE DEF Undisturbed, PInv, TypeOK, TimerTells, Control, NoFalseMiss, SilenceNoticed,
              PausedIsZero
  <1>3. CASE read >= Timeout
    BY <1>2, <1>3 DEF HeartBeatCheck
  <1>4. CASE read < Timeout
    <2>1. heartBeatTimer + waited \in 0..UINT_MAX BY <1>4 DEF Fits, HeartBeatCheck
    <2>2. Unsigned(heartBeatTimer + time_taken_ms) = heartBeatTimer + waited
      BY <2>1, UnsignedSmall DEF time_taken_ms
    <2>3. heartBeatTimer' = IF paused THEN heartBeatTimer ELSE heartBeatTimer + waited
      BY <1>2, <1>4, <2>2 DEF HeartBeatCheck, increment_heartBeatTimer
    <2>4. /\ pc = "check" /\ pc' = "retry" /\ waited' = 0 /\ step' = 0
          /\ UNCHANGED <<paused, read, disturbed, quiet, seen, close_retry, missed>>
      BY <1>2, <1>4 DEF HeartBeatCheck
    <2>5. TimerTells'
      <3>1. CASE paused BY <1>4, <2>3, <2>4, <3>1
      <3>2. CASE ~paused BY <1>4, <2>3, <2>4, <3>2
      <3> QED BY <3>1, <3>2
    <2> QED BY <2>4, <2>5
  <1>5. read >= Timeout \/ read < Timeout OBVIOUS
  <1> QED BY <1>3, <1>4, <1>5, Zenon

\* A step after which the clock counts as not set.
LEMMA UndisturbedStep ==
  ASSUME Fits, PInv, PInv', Control, Control', ~disturbed => Undisturbed, [Next]_vars,
         ~disturbed'
  PROVE  Undisturbed'
  <1> USE Constants
  <1> USE DEF Undisturbed, PInv, TypeOK, TimerTells, Control, NoFalseMiss, SilenceNoticed,
              PausedIsZero
  <1>1. CASE Tick
    <2>1. ~disturbed BY <1>1 DEF Tick
    <2>2. quiet < MaxQuiet BY <2>1
    <2> QED BY <1>1, <2>1, <2>2 DEF Tick
  <1>2. CASE ClockSet
    <2>1. disturbed' BY <1>2, Zenon DEF ClockSet
    <2> QED BY <2>1, Zenon
  <1>3. ASSUME NEW payload \in BOOLEAN, listenerOnPingMessage(payload) PROVE Undisturbed'
    <2>1. CASE payload
      <3>1. step = 0 BY <1>3, <2>1 DEF listenerOnPingMessage
      <3> QED BY <1>3, <2>1, <3>1 DEF listenerOnPingMessage
    <2>2. CASE ~payload BY <1>3, <2>2 DEF listenerOnPingMessage
    <2> QED BY <2>1, <2>2
  <1>4. CASE listenerOnCloseMessage BY <1>4 DEF listenerOnCloseMessage
  <1>5. CASE GetTimer BY <1>5 DEF GetTimer
  <1>6. CASE HeartBeatCheck
    <2>1. ~disturbed BY <1>6 DEF HeartBeatCheck
    <2> QED BY <1>6, <2>1, CheckKeepsIt, Zenon
  <1>7. CASE CloseRetry
    <2>1. ~close_retry' /\ ~missed' BY <1>7, Zenon DEF CloseRetry
    <2>2. CASE close_retry BY <1>7, <2>1, <2>2 DEF CloseRetry
    <2>3. CASE ~close_retry
      <3>1. ~disturbed BY <1>7, <2>3 DEF CloseRetry
      <3> QED BY <1>7, <2>1, <2>3, <3>1 DEF CloseRetry
    <2> QED BY <2>2, <2>3, Zenon
  <1>8. CASE pause_heartBeatTimer BY <1>8 DEF pause_heartBeatTimer
  <1>9. CASE resume_heartBeatTimer BY <1>9 DEF resume_heartBeatTimer
  <1>10. CASE UNCHANGED vars BY <1>10 DEF vars
  <1> QED BY <1>1, <1>2, <1>3, <1>4, <1>5, <1>6, <1>7, <1>8, <1>9, <1>10 DEF Next

LEMMA IInvAlways == ASSUME Fits PROVE Spec => []IInv
  <1>1. Init => IInv
    BY Constants, InitFlags
    DEF Init, IInv, PInv, TypeOK, TimerTells, Control, NoFalseMiss, SilenceNoticed, PausedIsZero
  <1>2. IInv /\ PInv' /\ [Next]_vars => IInv'
    <2> SUFFICES ASSUME IInv, PInv', [Next]_vars PROVE IInv' OBVIOUS
    <2>1. Control' BY ControlStep DEF IInv
    <2>2. ~disturbed => Undisturbed BY DEF IInv, Undisturbed
    <2>3. ~disturbed' => Undisturbed' BY <2>1, <2>2, UndisturbedStep DEF IInv
    <2>4. NoFalseMiss' /\ SilenceNoticed'
      <3>1. CASE disturbed' BY <3>1 DEF NoFalseMiss, SilenceNoticed
      <3>2. CASE ~disturbed' BY <2>3, <3>2 DEF Undisturbed
      <3> QED BY <3>1, <3>2
    <2>5. ~disturbed' => TimerTells' BY <2>3 DEF Undisturbed
    <2> QED BY <2>1, <2>4, <2>5 DEF IInv
  <1> QED BY <1>1, <1>2, PInvAlways, PTL DEF Spec

\* Ping_Miss closes no connection before no ping with a payload has come for the
\* timeout, less one wait of the loop, unless the clock was set meanwhile
\* (conn_interface.c, the heartbeat check; nopoll_handlers.c, listenerOnPingMessage).
THEOREM MissIsReal == ASSUME Fits PROVE Spec => []NoFalseMiss
  <1>1. IInv => NoFalseMiss BY DEF IInv
  <1> QED BY <1>1, IInvAlways, PTL

\* A connection that gets no ping with a payload is closed after the timeout and two waits of the
\* loop, unless the clock was set meanwhile (conn_interface.c, the heartbeat check).
THEOREM SilenceIsNoticed == ASSUME Fits PROVE Spec => []SilenceNoticed
  <1>1. IInv => SilenceNoticed BY DEF IInv
  <1> QED BY <1>1, IInvAlways, PTL
-----------------------------------------------------------------------------
(* Frames that arrive: listenerOnMessage_queue                              *)

Spoiled(q) == {k \in 1..Len(q) : ~In!Whole(q[k])}

\* previous_msg is what has come of the message under way.
Held == /\ Len(previous_msg) = part
        /\ \A k \in 1..part : previous_msg[k].msg = msg /\ previous_msg[k].part = k

\* Connections lost and joins that failed.
faults == losses + fails

FaultsTyped == losses \in 0..MaxLosses /\ fails \in 0..MaxFails

\* A previous_msg that is not what it should be counts as a message spoiled already.
InInv ==
    /\ In!TypeOK
    /\ part < MaxFrames /\ (part # 0 => msg # 0)
    /\ Cardinality(Spoiled(queue)) + (IF Held THEN 0 ELSE 1) <= faults

\* The spoiled messages are finitely many, and a whole message is not one more.
LEMMA SpoiledAppend ==
  ASSUME NEW S, NEW q \in Seq(S), NEW m \in S
  PROVE  /\ Cardinality(Spoiled(q)) \in Nat /\ Cardinality(Spoiled(Append(q, m))) \in Nat
         /\ Cardinality(Spoiled(Append(q, m))) <= Cardinality(Spoiled(q)) + 1
         /\ In!Whole(m) => Spoiled(Append(q, m)) = Spoiled(q)
  <1>1. PICK n \in Nat : n = Len(q) OBVIOUS
  <1>2. IsFiniteSet(1..n) BY <1>1, FS_Interval
  <1>3. Spoiled(q) \subseteq 1..n BY <1>1 DEF Spoiled
  <1>4. IsFiniteSet(Spoiled(q)) /\ Cardinality(Spoiled(q)) \in Nat
    BY <1>2, <1>3, FS_Subset, FS_CardinalityType
  <1>5. /\ Len(Append(q, m)) = n + 1 /\ Append(q, m)[n + 1] = m
        /\ \A k \in 1..n : Append(q, m)[k] = q[k]
    BY <1>1
  <1>6. /\ Spoiled(Append(q, m)) \subseteq Spoiled(q) \cup {n + 1}
        /\ In!Whole(m) => Spoiled(Append(q, m)) = Spoiled(q)
    <2>1. \A k : k \in 1..(n + 1) <=> (k \in 1..n \/ k = n + 1) BY <1>1
    <2>2. n + 1 \notin 1..n BY <1>1
    <2> HIDE DEF Spoiled
    <2>3. Spoiled(q) = {k \in 1..n : ~In!Whole(q[k])} BY <1>1 DEF Spoiled
    <2>4. Spoiled(Append(q, m)) = {k \in 1..(n + 1) : ~In!Whole(Append(q, m)[k])}
      BY <1>5 DEF Spoiled
    <2> QED BY <1>5, <2>1, <2>2, <2>3, <2>4, Zenon
  <1>7. /\ IsFiniteSet(Spoiled(q) \cup {n + 1})
        /\ Cardinality(Spoiled(q) \cup {n + 1}) <= Cardinality(Spoiled(q)) + 1
    <2>1. n + 1 \notin Spoiled(q) BY <1>1, <1>3
    <2>2. PICK x : x = n + 1 OBVIOUS
    <2>3. /\ IsFiniteSet(Spoiled(q) \cup {x})
          /\ Cardinality(Spoiled(q) \cup {x}) = Cardinality(Spoiled(q)) + 1
      BY <1>4, <2>1, <2>2, FS_AddElement, Zenon
    <2> QED BY <1>4, <2>2, <2>3
  <1>8. Cardinality(Spoiled(Append(q, m))) <= Cardinality(Spoiled(q) \cup {n + 1})
    BY <1>6, <1>7, FS_Subset
  <1>9. /\ Cardinality(Spoiled(q) \cup {n + 1}) \in Nat
        /\ Cardinality(Spoiled(Append(q, m))) \in Nat
    BY <1>6, <1>7, FS_Subset, FS_CardinalityType
  <1> QED BY <1>4, <1>6, <1>7, <1>8, <1>9

\* The same, counted with what is left to be spoiled.
LEMMA SpoiledCount ==
  ASSUME NEW S, NEW q \in Seq(S), NEW m \in S, NEW n \in Nat, NEW held \in BOOLEAN,
         Cardinality(Spoiled(q)) + (IF held THEN 0 ELSE 1) <= n,
         held => In!Whole(m)
  PROVE  Cardinality(Spoiled(Append(q, m))) <= n
  <1>1. PICK c \in Nat : c = Cardinality(Spoiled(q)) BY SpoiledAppend
  <1>2. PICK d \in Nat : d = Cardinality(Spoiled(Append(q, m))) BY SpoiledAppend
  <1>3. d <= c + 1 BY <1>1, <1>2, SpoiledAppend
  <1>4. CASE held
    <2>1. Spoiled(Append(q, m)) = Spoiled(q) BY <1>4, SpoiledAppend, Zenon
    <2>2. d = c BY <1>1, <1>2, <2>1
    <2> QED BY <1>1, <1>2, <1>4, <2>2
  <1>5. CASE ~held
    <2>1. c + 1 <= n BY <1>1, <1>5
    <2> QED BY <1>2, <1>3, <2>1
  <1> QED BY <1>4, <1>5

\* The frame that arrives is the next one of the message under way or the first of a
\* new one.
LEMMA FrameIs ==
  ASSUME InConstants, InInv, NEW final \in BOOLEAN, NEW ok \in BOOLEAN,
         In!FrameArrives(final, ok)
  PROVE  \E f \in In!Frames :
            /\ In!listenerOnMessage_queue(f, ok)
            /\ f.msg = msg' /\ f.part = part + 1 /\ f.final = final
            /\ msg' \in 1..MaxMsgs /\ (part # 0 => msg' = msg)
            /\ part' = IF final THEN 0 ELSE part + 1
            /\ part + 1 = MaxFrames => final
  <1>1. /\ msg' \in 1..MaxMsgs /\ (part # 0 => msg' = msg)
        /\ part' = (IF final THEN 0 ELSE part + 1) /\ (part + 1 = MaxFrames => final)
    BY DEF InConstants, InInv, In!TypeOK, In!FrameArrives
  <1>2. PICK f : f = [msg |-> msg', part |-> part + 1, final |-> final] OBVIOUS
  <1>3. f.msg = msg' /\ f.part = part + 1 /\ f.final = final BY <1>2
  <1>4. part + 1 \in 1..MaxFrames BY DEF InConstants, InInv, In!TypeOK
  <1>5. f \in In!Frames BY <1>1, <1>2, <1>4 DEF In!Frames
  <1>6. In!listenerOnMessage_queue(f, ok) BY <1>2 DEF In!FrameArrives
  <1> QED BY <1>1, <1>3, <1>5, <1>6

\* A join that fails is one more fault.
LEMMA FaultsAdd ==
  ASSUME InConstants, InInv, NEW final \in BOOLEAN, NEW ok \in BOOLEAN,
         In!FrameArrives(final, ok)
  PROVE  faults \in Nat /\ faults' = (IF ok THEN faults ELSE faults + 1) /\ FaultsTyped'
  BY DEF InConstants, InInv, In!TypeOK, In!FrameArrives, faults, FaultsTyped

\* What is joined to a message that is held makes the whole message with its last frame.
LEMMA WholeWithLast ==
  ASSUME InConstants, InInv, Held, NEW f \in In!Frames, f.part = part + 1, f.final,
         part # 0 => f.msg = msg
  PROVE  /\ In!Whole(Append(previous_msg, f))
         /\ part = 0 => In!Whole(<<f>>)
  <1>1. PICK n \in Nat : n = part BY DEF InInv, In!TypeOK
  <1>2. /\ previous_msg \in Seq(In!Frames) /\ Len(previous_msg) = n
        /\ \A k \in 1..n : /\ previous_msg[k].msg = msg /\ previous_msg[k].part = k
                           /\ ~previous_msg[k].final
    BY <1>1 DEF InInv, In!TypeOK, Held
  <1>3. PICK m : m = Append(previous_msg, f) OBVIOUS
  <1>4. Len(m) = n + 1 /\ m[n + 1] = f /\ \A k \in 1..n : m[k] = previous_msg[k]
    BY <1>2, <1>3
  <1>5. ASSUME NEW k \in 1..Len(m)
        PROVE  m[k].msg = m[1].msg /\ m[k].part = k /\ (m[k].final <=> k = Len(m))
    <2>1. CASE k = n + 1
      <3>1. m[1].msg = f.msg
        <4>1. CASE n = 0 BY <1>4, <4>1
        <4>2. CASE n # 0
          <5>1. 1 \in 1..n BY <1>1, <4>2
          <5> QED BY <1>1, <1>2, <1>4, <4>2, <5>1
        <4> QED BY <4>1, <4>2
      <3> QED BY <1>1, <1>4, <2>1, <3>1
    <2>2. CASE k # n + 1
      <3>1. k \in 1..n /\ 1 \in 1..n BY <1>1, <1>4, <2>2
      <3> QED BY <1>1, <1>2, <1>4, <2>2, <3>1
    <2> QED BY <2>1, <2>2
  <1>6. In!Whole(m) BY <1>5 DEF In!Whole
  <1>7. part = 0 => In!Whole(<<f>>) BY DEF In!Whole
  <1> QED BY <1>3, <1>6, <1>7

LEMMA FragmentStep ==
  ASSUME InConstants, InInv, NEW ok \in BOOLEAN, In!FrameArrives(FALSE, ok)
  PROVE  InInv'
  <1>1. PICK f \in In!Frames :
           /\ In!listenerOnMessage_queue(f, ok)
           /\ f.msg = msg' /\ f.part = part + 1 /\ f.final = FALSE
           /\ msg' \in 1..MaxMsgs /\ (part # 0 => msg' = msg)
           /\ part' = IF FALSE THEN 0 ELSE part + 1
           /\ part + 1 = MaxFrames => FALSE
    BY FrameIs, Zenon
  <1>0. faults \in Nat /\ faults' = (IF ok THEN faults ELSE faults + 1) /\ FaultsTyped'
    BY FaultsAdd
  <1>2. PICK n \in Nat : n = part BY DEF InInv, In!TypeOK
  <1>3. previous_msg \in Seq(In!Frames) /\ queue \in Seq(Seq(In!Frames))
    BY DEF InInv, In!TypeOK
  <1>4. queue' = queue /\ previous_msg' = IF ok THEN Append(previous_msg, f) ELSE <<>>
    BY <1>1, Zenon DEF In!listenerOnMessage_queue, In!joined, In!nopoll_msg_is_fragment
  <1>8. part' = n + 1 /\ n + 1 < MaxFrames BY <1>1, <1>2 DEF InConstants, InInv
  <1>11. PICK c \in Nat : c = Cardinality(Spoiled(queue)) BY <1>3, SpoiledAppend
  <1>12. c + (IF Held THEN 0 ELSE 1) <= faults BY <1>11 DEF InInv
  <1>14. Cardinality(Spoiled(queue')) = c BY <1>4, <1>11
  <1>15. CASE ok
    <2>1. PICK L \in Nat : L = Len(previous_msg) BY <1>3
    <2>2. /\ previous_msg' \in Seq(In!Frames) /\ Len(previous_msg') = L + 1
          /\ previous_msg'[L + 1] = f
          /\ \A k \in 1..L : previous_msg'[k] = previous_msg[k]
      BY <1>3, <1>4, <1>15, <2>1
    <2>3. \A k \in 1..Len(previous_msg') : ~previous_msg'[k].final
      <3>1. \A k \in 1..L : ~previous_msg[k].final BY <2>1 DEF InInv, In!TypeOK
      <3>2. \A k \in 1..(L + 1) : k \in 1..L \/ k = L + 1 BY <2>1
      <3> QED BY <1>1, <2>2, <3>1, <3>2, Zenon
    <2>4. In!TypeOK'
      BY <1>0, <1>1, <1>3, <1>4, <1>8, <2>2, <2>3 DEF InConstants, In!TypeOK, FaultsTyped
    <2>5. Held => Held'
      <3> SUFFICES ASSUME Held PROVE Held' OBVIOUS
      <3>1. L = n /\ \A k \in 1..n : previous_msg[k].msg = msg /\ previous_msg[k].part = k
        BY <1>2, <2>1 DEF Held
      <3>2. ASSUME NEW k \in 1..(n + 1)
            PROVE  previous_msg'[k].msg = msg' /\ previous_msg'[k].part = k
        <4>1. CASE k = n + 1 BY <1>1, <1>2, <2>2, <3>1, <4>1
        <4>2. CASE k # n + 1
          <5>1. k \in 1..n /\ n # 0 BY <4>2
          <5> QED BY <1>1, <1>2, <2>2, <3>1, <5>1
        <4> QED BY <4>1, <4>2
      <3> QED BY <1>8, <2>2, <3>1, <3>2 DEF Held
    <2>6. c + (IF Held' THEN 0 ELSE 1) <= faults' BY <1>0, <1>11, <1>12, <1>15, <2>5
    <2> QED BY <1>1, <1>8, <1>14, <2>4, <2>6 DEF InInv, InConstants, Spoiled
  <1>16. CASE ~ok
    <2>1. previous_msg' = <<>> BY <1>4, <1>16
    <2>2. In!TypeOK'
      BY <1>0, <1>1, <1>3, <1>4, <1>8, <2>1 DEF InConstants, In!TypeOK, FaultsTyped
    <2>3. c <= faults BY <1>0, <1>11, <1>12
    <2>4. c + (IF Held' THEN 0 ELSE 1) <= faults' BY <1>0, <1>11, <1>16, <2>3
    <2> QED BY <1>1, <1>8, <1>14, <2>2, <2>4 DEF InInv, InConstants, Spoiled
  <1> QED BY <1>15, <1>16

LEMMA FinalStep ==
  ASSUME InConstants, InInv, NEW ok \in BOOLEAN, In!FrameArrives(TRUE, ok)
  PROVE  InInv'
  <1>1. PICK f \in In!Frames :
           /\ In!listenerOnMessage_queue(f, ok)
           /\ f.msg = msg' /\ f.part = part + 1 /\ f.final = TRUE
           /\ msg' \in 1..MaxMsgs /\ (part # 0 => msg' = msg)
           /\ part' = IF TRUE THEN 0 ELSE part + 1
           /\ part + 1 = MaxFrames => TRUE
    BY FrameIs, Zenon
  <1>0. faults \in Nat /\ faults' = (IF ok THEN faults ELSE faults + 1) /\ FaultsTyped'
    BY FaultsAdd
  <1>2. part \in Nat BY DEF InInv, In!TypeOK
  <1>3. previous_msg \in Seq(In!Frames) /\ queue \in Seq(Seq(In!Frames))
    BY DEF InInv, In!TypeOK
  <1>4. PICK m \in Seq(In!Frames) :
           /\ queue' = queue \/ queue' = Append(queue, m)
           /\ Held /\ ok => In!Whole(m)
    <2>1. PICK m : m = IF In!joined(f, ok) # <<>> THEN In!joined(f, ok) ELSE <<f>> OBVIOUS
    <2>2. queue' = queue \/ queue' = Append(queue, m)
      BY <1>1, <2>1, Zenon DEF In!listenerOnMessage_queue
    <2>3. Append(previous_msg, f) \in Seq(In!Frames) /\ <<f>> \in Seq(In!Frames)
      BY <1>3
    <2>4. In!joined(f, ok) \in {previous_msg, Append(previous_msg, f), <<>>} BY DEF In!joined
    <2>5. m \in Seq(In!Frames) BY <1>3, <2>1, <2>3, <2>4
    <2>6. Held /\ ok => In!Whole(m)
      <3> SUFFICES ASSUME Held, ok PROVE In!Whole(m) OBVIOUS
      <3>1. In!Whole(Append(previous_msg, f)) /\ (part = 0 => In!Whole(<<f>>))
        BY <1>1, WholeWithLast
      <3>2. CASE part = 0
        <4>1. f.part = 1 /\ f.final BY <1>1, <3>2
        <4>2. In!joined(f, ok) = previous_msg
          BY <4>1, Zenon DEF In!joined, In!nopoll_msg_is_fragment
        <4>3. previous_msg = <<>> BY <1>3, <3>2 DEF Held
        <4> QED BY <2>1, <3>1, <3>2, <4>2, <4>3, Zenon
      <3>3. CASE part # 0
        <4>1. f.part # 1 BY <1>1, <1>2, <3>3
        <4>2. In!joined(f, ok) = Append(previous_msg, f)
          BY <4>1, Zenon DEF In!joined, In!nopoll_msg_is_fragment
        <4>3. Append(previous_msg, f) # <<>>
          <5>1. Len(previous_msg) \in Nat /\ Len(Append(previous_msg, f)) = Len(previous_msg) + 1
            BY <1>3
          <5>2. Len(Append(previous_msg, f)) # 0 BY ONLY <5>1, SMT
          <5>3. Len(<<>>) = 0 OBVIOUS
          <5> QED BY ONLY <5>2, <5>3, Zenon
        <4> QED BY <2>1, <3>1, <4>2, <4>3, Zenon
      <3> QED BY <3>2, <3>3
    <2> QED BY <2>2, <2>5, <2>6
  <1>5. previous_msg' = <<>>
    BY <1>1, Zenon DEF In!listenerOnMessage_queue
  <1>6. Held' BY <1>1, <1>5 DEF Held
  <1>7. queue' \in Seq(Seq(In!Frames))
    <2>1. PICK S : S = Seq(In!Frames) OBVIOUS
    <2>2. queue \in Seq(S) /\ m \in S BY <1>3, <2>1
    <2>3. Append(queue, m) \in Seq(S) BY <2>2
    <2> QED BY <1>4, <2>1, <2>2, <2>3
  <1>8. In!TypeOK'
    BY <1>0, <1>1, <1>5, <1>7 DEF InConstants, In!TypeOK, FaultsTyped
  <1>9. Cardinality(Spoiled(queue')) <= faults'
    <2>1. PICK c : c = Cardinality(Spoiled(queue)) OBVIOUS
    <2>0. c \in Nat BY <1>3, <2>1, SpoiledAppend
    <2>2. c + (IF Held THEN 0 ELSE 1) <= faults BY <2>1 DEF InInv
    <2>3. PICK held \in BOOLEAN : held <=> Held /\ ok OBVIOUS
    <2>4. PICK n \in Nat : n = faults' BY <1>0
    <2>5. c + (IF held THEN 0 ELSE 1) <= n BY <1>0, <2>0, <2>2, <2>3, <2>4
    <2>6. CASE queue' = queue BY <2>0, <2>1, <2>4, <2>5, <2>6
    <2>7. CASE queue' = Append(queue, m)
      BY <1>3, <1>4, <2>1, <2>3, <2>4, <2>5, <2>7, SpoiledCount
    <2> QED BY <1>4, <2>6, <2>7
  <1>10. PICK d : d = Cardinality(Spoiled(queue')) OBVIOUS
  <1>11. d \in Nat BY <1>7, <1>10, SpoiledAppend
  <1> QED BY <1>1, <1>2, <1>6, <1>8, <1>9, <1>10, <1>11 DEF InInv, InConstants, Spoiled

LEMMA InInvAlways == ASSUME InConstants PROVE In!Spec => []InInv
  <1>1. In!Init => InInv
    <2> SUFFICES ASSUME In!Init PROVE InInv OBVIOUS
    <2>1. In!TypeOK BY DEF In!Init, In!TypeOK, InConstants
    <2>2. Held BY DEF In!Init, Held
    <2>3. Spoiled(queue) = {} BY DEF In!Init, Spoiled
    <2>4. Cardinality(Spoiled(queue)) = 0 BY <2>3, FS_EmptySet
    <2>5. faults = 0 BY DEF In!Init, faults
    <2> QED BY <2>1, <2>2, <2>4, <2>5 DEF In!Init, InInv, InConstants
  <1>2. InInv /\ [In!Next]_(In!vars) => InInv'
    <2> SUFFICES ASSUME InInv, [In!Next]_(In!vars) PROVE InInv' OBVIOUS
    <2>1. ASSUME NEW ok \in BOOLEAN, In!FrameArrives(FALSE, ok) PROVE InInv'
      BY <2>1, FragmentStep
    <2>2. ASSUME NEW ok \in BOOLEAN, In!FrameArrives(TRUE, ok) PROVE InInv'
      BY <2>2, FinalStep
    <2>3. CASE In!ConnectionLost
      <3>1. PICK c : c = Cardinality(Spoiled(queue)) OBVIOUS
      <3>2. queue \in Seq(Seq(In!Frames)) BY DEF InInv, In!TypeOK
      <3>3. c \in Nat BY <3>1, <3>2, SpoiledAppend
      <3>4. c + (IF Held THEN 0 ELSE 1) <= faults BY <3>1 DEF InInv
      <3>5. faults \in Nat /\ faults' = faults + 1
        BY <2>3 DEF In!ConnectionLost, faults, InInv, In!TypeOK, InConstants
      <3>6. c + (IF Held' THEN 0 ELSE 1) <= faults' BY <3>3, <3>4, <3>5
      <3>7. Cardinality(Spoiled(queue')) = c BY <2>3, <3>1 DEF In!ConnectionLost
      <3>8. In!TypeOK' /\ part' < MaxFrames /\ part' = 0
        BY <2>3 DEF In!ConnectionLost, InInv, In!TypeOK, InConstants
      <3> QED BY <3>6, <3>7, <3>8 DEF InInv, Spoiled
    <2>4. CASE UNCHANGED In!vars
      BY <2>4 DEF In!vars, InInv, In!TypeOK, Held, Spoiled, faults
    <2>5. ASSUME NEW final \in BOOLEAN, NEW ok \in BOOLEAN, In!FrameArrives(final, ok)
          PROVE  InInv'
      <3>1. CASE final
        <4>1. In!FrameArrives(TRUE, ok) BY <2>5, <3>1
        <4> QED BY <2>2, <4>1
      <3>2. CASE ~final
        <4>1. In!FrameArrives(FALSE, ok) BY <2>5, <3>2
        <4> QED BY <2>1, <4>1
      <3> QED BY <3>1, <3>2
    <2> QED BY <2>3, <2>4, <2>5, Zenon DEF In!Next
  <1> QED BY <1>1, <1>2, PTL DEF In!Spec

\* A connection lost in the middle of a message and a join that fails for want of memory
\* spoil at most one message each, for any number of messages, frames and faults
\* (nopoll_handlers.c, listenerOnMessage_queue).
THEOREM FaultSpoilsOne == FramingSpec => []OneSpoiledPerFault
  <1>1. InInv => In!TypeOK /\ In!OneSpoiledPerFault
    <2> SUFFICES ASSUME InInv PROVE In!TypeOK /\ In!OneSpoiledPerFault OBVIOUS
    <2>1. PICK c : c = Cardinality(Spoiled(queue)) OBVIOUS
    <2>2. queue \in Seq(Seq(In!Frames)) BY DEF InInv, In!TypeOK
    <2>3. c \in Nat BY <2>1, <2>2, SpoiledAppend
    <2>4. c <= losses + fails BY <2>1, <2>3 DEF InInv, In!TypeOK, faults
    <2>5. Spoiled(queue) = {k \in 1..Len(queue) : ~In!Whole(queue[k])} BY DEF Spoiled
    <2>6. \A S : In!Cardinality(S) = Cardinality(S)
      BY Zenon DEF In!Cardinality, Cardinality
    <2>7. In!OneSpoiledPerFault BY <2>1, <2>4, <2>5, <2>6, Zenon DEF In!OneSpoiledPerFault
    <2> QED BY <2>7 DEF InInv
  <1>2. FramingInit => In!Init BY DEF FramingInit
  <1>3. [FramingNext]_framingVars => [In!Next]_In!vars
    BY DEF FramingNext, Receive, Transmit, framingVars, inVars, In!vars
  <1>4. InConstants BY FramingAssumption
  <1>5. In!Spec => []InInv BY <1>4, InInvAlways
  <1>6. InInv => OneSpoiledPerFault BY <1>1 DEF OneSpoiledPerFault
  <1> QED BY <1>2, <1>3, <1>5, <1>6, PTL DEF FramingSpec, In!Spec

-----------------------------------------------------------------------------
(* Frames that are sent: sendMessage and sendResponse                       *)

Messages == [id : Nat, len : Nat]
WireFrames == [msg : Messages, at : Nat, len : 1..MAX_SEND_SIZE,
               type : {"BINARY", "CONTINUATION"}, final : BOOLEAN, cut : BOOLEAN]

OutType ==
    /\ online \in BOOLEAN /\ sent \in 0..MaxSent
    /\ spc \in [Senders -> {"idle", "sending", "returned"}]
    /\ DOMAIN cp = Senders
    /\ length \in [Senders -> Nat] /\ final_len_sent \in [Senders -> Nat]
    /\ frame_type \in [Senders -> {"BINARY", "CONTINUATION"}]
    /\ of \in [Senders -> Messages]
    /\ wire \in Seq(WireFrames)

\* No two messages have the same number, and no frame one that is not given yet.
OwnNumbers ==
    /\ \A s \in Senders : of[s].id <= sent
    /\ \A s, t \in Senders : s # t /\ spc[s] # "idle" /\ spc[t] # "idle" => of[s].id # of[t].id
    /\ \A k \in 1..Len(wire) : wire[k].msg.id <= sent

\* What is to be sent follows what has been.
Counts(s) ==
    /\ cp[s] = final_len_sent[s] /\ length[s] + final_len_sent[s] = of[s].len
    /\ frame_type[s] = IF final_len_sent[s] = 0 THEN "BINARY" ELSE "CONTINUATION"

\* Where a frame of a message of len bytes, of which n are counted, may be.
InPlace(f, n, len) == IF f.cut THEN f.at = n /\ n < len ELSE f.at + f.len <= n

\* The whole frames of id hold the first n bytes of a message of len bytes.
Holds(w, id, n, len) ==
    /\ \A b \in 0..(n - 1) :
          \E k \in 1..Len(w) : /\ w[k].msg.id = id /\ ~w[k].cut
                               /\ w[k].at <= b /\ b < w[k].at + w[k].len
    /\ \A k \in 1..Len(w) : w[k].msg.id = id =>
          /\ InPlace(w[k], n, len)
          /\ w[k].type = IF w[k].at = 0 THEN "BINARY" ELSE "CONTINUATION"
          /\ w[k].final <=> (w[k].at + w[k].len = len)
    /\ \A j, k \in 1..Len(w) : w[j].msg.id = id /\ w[k].msg.id = id /\ j < k =>
          w[j].at + w[j].len <= w[k].at

NoneCut(w, id) == \A k \in 1..Len(w) : w[k].msg.id = id => ~w[k].cut

\* As long as a message is being sent, none of its frames is cut.
OutInv ==
    /\ OutType /\ OwnNumbers
    /\ \A s \in Senders : spc[s] = "sending" => Counts(s) /\ NoneCut(wire, of[s].id)
    /\ \A s \in Senders : spc[s] # "idle" => Holds(wire, of[s].id, final_len_sent[s], of[s].len)

\* What Append does, in the form the steps use.
LEMMA WireAppend ==
  ASSUME NEW w \in Seq(WireFrames), NEW f \in WireFrames
  PROVE  \E L \in Nat : \E v \in Seq(WireFrames) :
            /\ L = Len(w) /\ v = Append(w, f) /\ Len(v) = L + 1 /\ v[L + 1] = f
            /\ \A k \in 1..L : v[k] = w[k]
            /\ \A k : k \in 1..(L + 1) <=> (k \in 1..L \/ k = L + 1)
  <1>1. Len(w) \in Nat OBVIOUS
  <1>2. Append(w, f) \in Seq(WireFrames) OBVIOUS
  <1>3. /\ Len(Append(w, f)) = Len(w) + 1 /\ Append(w, f)[Len(w) + 1] = f
        /\ \A k \in 1..Len(w) : Append(w, f)[k] = w[k]
    OBVIOUS
  <1>4. \A k : k \in 1..(Len(w) + 1) <=> (k \in 1..Len(w) \/ k = Len(w) + 1) BY <1>1
  <1> QED BY <1>1, <1>2, <1>3, <1>4

\* The fields of a frame.
LEMMA FrameFields ==
  ASSUME NEW w \in Seq(WireFrames), NEW k \in 1..Len(w)
  PROVE  w[k] \in WireFrames /\ w[k].at \in Nat /\ w[k].len \in 1..MAX_SEND_SIZE
  <1>1. w[k] \in WireFrames OBVIOUS
  <1> QED BY <1>1 DEF WireFrames

\* A frame of another message changes nothing for this one.
LEMMA HoldsOther ==
  ASSUME NEW w \in Seq(WireFrames), NEW f \in WireFrames, NEW id \in Nat, NEW n \in Nat,
         NEW len \in Nat, Holds(w, id, n, len), f.msg.id # id
  PROVE  Holds(Append(w, f), id, n, len) /\ (NoneCut(w, id) => NoneCut(Append(w, f), id))
  <1>1. PICK L \in Nat, v \in Seq(WireFrames) :
            /\ L = Len(w) /\ v = Append(w, f) /\ Len(v) = L + 1 /\ v[L + 1] = f
            /\ \A k \in 1..L : v[k] = w[k]
            /\ \A k : k \in 1..(L + 1) <=> (k \in 1..L \/ k = L + 1)
    BY WireAppend, Zenon
  <1>2. \A k \in 1..Len(v) : v[k].msg.id = id => k \in 1..L /\ v[k] = w[k] BY <1>1, Zenon
  <1>3. \A k \in 1..L : k \in 1..Len(v) /\ v[k] = w[k] BY <1>1, Zenon
  <1>4. Holds(v, id, n, len)
    <2>1. ASSUME NEW b \in 0..(n - 1)
          PROVE  \E k \in 1..Len(v) : /\ v[k].msg.id = id /\ ~v[k].cut
                                      /\ v[k].at <= b /\ b < v[k].at + v[k].len
      <3>1. PICK k \in 1..L : /\ w[k].msg.id = id /\ ~w[k].cut
                              /\ w[k].at <= b /\ b < w[k].at + w[k].len
        BY <1>1 DEF Holds
      <3>2. k \in 1..Len(v) /\ v[k] = w[k] BY <1>3
      <3> QED BY <3>1, <3>2
    <2>2. ASSUME NEW k \in 1..Len(v), v[k].msg.id = id
          PROVE  /\ InPlace(v[k], n, len)
                 /\ v[k].type = IF v[k].at = 0 THEN "BINARY" ELSE "CONTINUATION"
                 /\ v[k].final <=> (v[k].at + v[k].len = len)
      <3>1. k \in 1..L /\ v[k] = w[k] BY <1>2, <2>2
      <3> QED BY <1>1, <2>2, <3>1 DEF Holds
    <2>3. ASSUME NEW j \in 1..Len(v), NEW k \in 1..Len(v), v[j].msg.id = id,
                 v[k].msg.id = id, j < k
          PROVE  v[j].at + v[j].len <= v[k].at
      <3>1. j \in 1..L /\ v[j] = w[j] /\ k \in 1..L /\ v[k] = w[k] BY <1>2, <2>3
      <3> QED BY <1>1, <2>3, <3>1 DEF Holds
    <2> QED BY <2>1, <2>2, <2>3 DEF Holds
  <1>5. NoneCut(w, id) => NoneCut(v, id) BY <1>1, <1>2, Zenon DEF NoneCut
  <1> QED BY <1>1, <1>4, <1>5

\* The next frame of the message adds its bytes.
LEMMA HoldsNext ==
  ASSUME NEW w \in Seq(WireFrames), NEW f \in WireFrames, NEW id \in Nat, NEW n \in Nat,
         NEW len \in Nat, Holds(w, id, n, len), f.msg.id = id, f.at = n,
         f.type = IF n = 0 THEN "BINARY" ELSE "CONTINUATION",
         f.final <=> (n + f.len = len), NoneCut(w, id), ~f.cut
  PROVE  Holds(Append(w, f), id, n + f.len, len) /\ NoneCut(Append(w, f), id)
  <1>1. PICK L \in Nat, v \in Seq(WireFrames) :
            /\ L = Len(w) /\ v = Append(w, f) /\ Len(v) = L + 1 /\ v[L + 1] = f
            /\ \A k \in 1..L : v[k] = w[k]
            /\ \A k : k \in 1..(L + 1) <=> (k \in 1..L \/ k = L + 1)
    BY ONLY WireAppend, w \in Seq(WireFrames), f \in WireFrames, Zenon
  <1>2. PICK d \in Nat : d = f.len BY DEF WireFrames
  <1>3. \A k \in 1..L : k \in 1..Len(v) /\ v[k] = w[k] BY <1>1, Zenon
  <1>4. L + 1 \in 1..Len(v) BY <1>1
  <1>5. PICK t \in Nat : t = n + d BY <1>2
  <1>6. Holds(v, id, t, len)
    <2>1. ASSUME NEW b \in 0..(t - 1)
          PROVE  \E k \in 1..Len(v) : /\ v[k].msg.id = id /\ ~v[k].cut
                                      /\ v[k].at <= b /\ b < v[k].at + v[k].len
      <3>1. CASE b < n
        <4>1. b \in 0..(n - 1) BY <3>1
        <4>2. PICK k \in 1..L : /\ w[k].msg.id = id /\ ~w[k].cut
                                /\ w[k].at <= b /\ b < w[k].at + w[k].len
          BY <1>1, <4>1 DEF Holds
        <4>3. k \in 1..Len(v) /\ v[k] = w[k] BY <1>3
        <4> QED BY <4>2, <4>3
      <3>2. CASE ~(b < n)
        <4>1. /\ v[L + 1].msg.id = id /\ ~v[L + 1].cut /\ v[L + 1].at <= b
              /\ b < v[L + 1].at + v[L + 1].len
          BY <1>1, <1>2, <1>5, <3>2
        <4> QED BY <1>4, <4>1
      <3> QED BY <3>1, <3>2
    <2>2. ASSUME NEW k \in 1..Len(v), v[k].msg.id = id
          PROVE  /\ InPlace(v[k], t, len)
                 /\ v[k].type = IF v[k].at = 0 THEN "BINARY" ELSE "CONTINUATION"
                 /\ v[k].final <=> (v[k].at + v[k].len = len)
      <3>1. CASE k \in 1..L
        <4>1. v[k] = w[k] BY <1>1, <3>1
        <4>2. /\ InPlace(w[k], n, len) /\ ~w[k].cut
              /\ w[k].type = IF w[k].at = 0 THEN "BINARY" ELSE "CONTINUATION"
              /\ w[k].final <=> (w[k].at + w[k].len = len)
          BY <1>1, <2>2, <3>1, <4>1 DEF Holds, NoneCut
        <4>3. w[k].at \in Nat /\ w[k].len \in Nat BY <1>1, <3>1, FrameFields
        <4>5. w[k].at + w[k].len <= n BY <4>2 DEF InPlace
        <4>7. PICK e \in Nat : e = w[k].at + w[k].len BY <4>3
        <4>8. e <= n BY <4>5, <4>7
        <4>9. n <= t BY ONLY <1>2, <1>5, n \in Nat, SMT
        <4>6. w[k].at + w[k].len <= t BY ONLY <4>7, <4>8, <4>9, n \in Nat, t \in Nat, SMT
        <4>4. InPlace(w[k], t, len) BY <4>2, <4>6, Zenon DEF InPlace
        <4> QED BY <4>1, <4>2, <4>4
      <3>2. CASE k = L + 1 BY <1>1, <1>2, <1>5, <3>2 DEF InPlace
      <3> QED BY <1>1, <3>1, <3>2
    <2>3. ASSUME NEW j \in 1..Len(v), NEW k \in 1..Len(v), v[j].msg.id = id,
                 v[k].msg.id = id, j < k
          PROVE  v[j].at + v[j].len <= v[k].at
      <3>1. j \in 1..L BY <1>1, <2>3
      <3>2. v[j] = w[j] BY <1>1, <3>1
      <3>3. CASE k \in 1..L
        <4>1. v[k] = w[k] BY <1>1, <3>3
        <4> QED BY <1>1, <2>3, <3>1, <3>2, <3>3, <4>1 DEF Holds
      <3>4. CASE k = L + 1
        <4>1. w[j].at + w[j].len <= n
          BY <1>1, <2>3, <3>1, <3>2 DEF Holds, NoneCut, InPlace
        <4> QED BY <1>1, <3>2, <3>4, <4>1
      <3> QED BY <1>1, <3>3, <3>4
    <2> QED BY <2>1, <2>2, <2>3 DEF Holds
  <1>7. NoneCut(v, id) BY <1>1, Zenon DEF NoneCut
  <1> QED BY <1>1, <1>2, <1>5, <1>6, <1>7

\* A frame that is cut adds none.
LEMMA HoldsCut ==
  ASSUME NEW w \in Seq(WireFrames), NEW f \in WireFrames, NEW id \in Nat, NEW n \in Nat,
         NEW len \in Nat, Holds(w, id, n, len), f.msg.id = id, f.at = n,
         f.type = IF n = 0 THEN "BINARY" ELSE "CONTINUATION",
         f.final <=> (n + f.len = len), NoneCut(w, id), f.cut, n < len
  PROVE  Holds(Append(w, f), id, n, len)
  <1>1. PICK L \in Nat, v \in Seq(WireFrames) :
            /\ L = Len(w) /\ v = Append(w, f) /\ Len(v) = L + 1 /\ v[L + 1] = f
            /\ \A k \in 1..L : v[k] = w[k]
            /\ \A k : k \in 1..(L + 1) <=> (k \in 1..L \/ k = L + 1)
    BY ONLY WireAppend, w \in Seq(WireFrames), f \in WireFrames, Zenon
  <1>2. \A k \in 1..L : k \in 1..Len(v) /\ v[k] = w[k] BY <1>1, Zenon
  <1>3. ASSUME NEW b \in 0..(n - 1)
        PROVE  \E k \in 1..Len(v) : /\ v[k].msg.id = id /\ ~v[k].cut
                                    /\ v[k].at <= b /\ b < v[k].at + v[k].len
    <2>1. PICK k \in 1..L : /\ w[k].msg.id = id /\ ~w[k].cut
                            /\ w[k].at <= b /\ b < w[k].at + w[k].len
      BY <1>1 DEF Holds
    <2>2. k \in 1..Len(v) /\ v[k] = w[k] BY <1>2
    <2> QED BY <2>1, <2>2
  <1>4. ASSUME NEW k \in 1..Len(v), v[k].msg.id = id
        PROVE  /\ InPlace(v[k], n, len)
               /\ v[k].type = IF v[k].at = 0 THEN "BINARY" ELSE "CONTINUATION"
               /\ v[k].final <=> (v[k].at + v[k].len = len)
    <2>1. CASE k \in 1..L
      <3>1. v[k] = w[k] BY <1>1, <2>1
      <3> QED BY <1>1, <1>4, <2>1, <3>1 DEF Holds
    <2>2. CASE k = L + 1 BY <1>1, <2>2 DEF InPlace
    <2> QED BY <1>1, <2>1, <2>2
  <1>5. ASSUME NEW j \in 1..Len(v), NEW k \in 1..Len(v), v[j].msg.id = id,
               v[k].msg.id = id, j < k
        PROVE  v[j].at + v[j].len <= v[k].at
    <2>1. j \in 1..L BY <1>1, <1>5
    <2>2. v[j] = w[j] BY <1>1, <2>1
    <2>3. CASE k \in 1..L
      <3>1. v[k] = w[k] BY <1>1, <2>3
      <3> QED BY <1>1, <1>5, <2>1, <2>2, <2>3, <3>1 DEF Holds
    <2>4. CASE k = L + 1
      <3>1. w[j].at + w[j].len <= n
        BY <1>1, <1>5, <2>1, <2>2 DEF Holds, NoneCut, InPlace
      <3> QED BY <1>1, <2>2, <2>4, <3>1
    <2> QED BY <1>1, <2>3, <2>4
  <1>6. Holds(v, id, n, len) BY <1>3, <1>4, <1>5 DEF Holds
  <1> QED BY <1>1, <1>6

\* Of a new message nothing is on the connection yet.
LEMMA HoldsNone ==
  ASSUME NEW w \in Seq(WireFrames), NEW id \in Nat, NEW len \in Nat,
         \A k \in 1..Len(w) : w[k].msg.id # id
  PROVE  Holds(w, id, 0, len) /\ NoneCut(w, id)
  BY DEF Holds, NoneCut

LEMMA SendBegins ==
  ASSUME OutConstants, OutInv, NEW s \in Senders, NEW n \in Lengths, Out!sendMessage(s, n)
  PROVE  OutInv'
  <1>1. n \in Nat /\ sent \in Nat /\ sent' = sent + 1 /\ sent' \in 0..MaxSent
    BY DEF OutConstants, OutInv, OutType, Out!sendMessage
  <1>2. wire' = wire /\ online' = online /\ spc[s] = "idle" BY DEF Out!sendMessage
  <1>3. \A k \in 1..Len(wire) : wire[k].msg.id \in Nat
    <2>1. wire \in Seq(WireFrames) BY DEF OutInv, OutType
    <2>2. \A k \in 1..Len(wire) : wire[k] \in WireFrames BY <2>1
    <2> QED BY <2>2 DEF WireFrames, Messages
  <1>4. \A k \in 1..Len(wire) : wire[k].msg.id <= sent /\ wire[k].msg.id # sent + 1
    BY <1>1, <1>3 DEF OutInv, OwnNumbers
  <1>5. \A t \in Senders : of[t].id \in Nat /\ of[t].len \in Nat /\ of[t].id <= sent
    BY DEF OutInv, OutType, Messages, OwnNumbers
  <1>6. CASE ~online
    <2>1. UNCHANGED <<spc, of, cp, length, final_len_sent, frame_type>>
      BY <1>6 DEF Out!sendMessage
    <2>2. OutType' BY <1>1, <1>2, <2>1 DEF OutInv, OutType
    <2>3. OwnNumbers' BY <1>1, <1>2, <1>3, <1>4, <1>5, <2>1 DEF OutInv, OwnNumbers
    <2> QED BY <1>2, <2>1, <2>2, <2>3 DEF OutInv, Counts
  <1>7. CASE online
    <2>1. PICK m : m = [id |-> sent + 1, len |-> n] OBVIOUS
    <2>2. m \in Messages /\ m.id = sent + 1 /\ m.len = n BY <1>1, <2>1 DEF Messages
    <2>3. /\ spc' = [spc EXCEPT ![s] = "sending"] /\ of' = [of EXCEPT ![s] = m]
          /\ cp' = [cp EXCEPT ![s] = 0] /\ length' = [length EXCEPT ![s] = n]
          /\ final_len_sent' = [final_len_sent EXCEPT ![s] = 0]
          /\ frame_type' = [frame_type EXCEPT ![s] = "BINARY"]
      BY <1>7, <2>1 DEF Out!sendMessage
    <2>4. OutType' BY <1>1, <1>2, <2>2, <2>3 DEF OutInv, OutType
    <2>5. /\ spc'[s] = "sending" /\ of'[s] = m /\ cp'[s] = 0 /\ length'[s] = n
          /\ final_len_sent'[s] = 0 /\ frame_type'[s] = "BINARY"
      BY <2>3 DEF OutInv, OutType
    <2>6. \A t \in Senders : t # s =>
            /\ spc'[t] = spc[t] /\ of'[t] = of[t] /\ cp'[t] = cp[t] /\ length'[t] = length[t]
            /\ final_len_sent'[t] = final_len_sent[t] /\ frame_type'[t] = frame_type[t]
      BY <2>3 DEF OutInv, OutType
    <2>7. OwnNumbers'
      <3>1. \A t \in Senders : of'[t].id <= sent' BY <1>1, <1>5, <2>2, <2>5, <2>6
      <3>2. ASSUME NEW t \in Senders, NEW u \in Senders, t # u, spc'[t] # "idle", spc'[u] # "idle"
            PROVE  of'[t].id # of'[u].id
        <4>1. CASE t = s
          <5>1. of'[u].id <= sent /\ of'[u].id \in Nat BY <1>5, <2>6, <3>2, <4>1
          <5> QED BY <1>1, <2>2, <2>5, <4>1, <5>1
        <4>2. CASE u = s
          <5>1. of'[t].id <= sent /\ of'[t].id \in Nat BY <1>5, <2>6, <3>2, <4>2
          <5> QED BY <1>1, <2>2, <2>5, <4>2, <5>1
        <4>3. CASE t # s /\ u # s BY <2>6, <3>2, <4>3 DEF OutInv, OwnNumbers
        <4> QED BY <4>1, <4>2, <4>3
      <3>3. \A k \in 1..Len(wire') : wire'[k].msg.id <= sent' BY <1>1, <1>2, <1>3, <1>4
      <3> QED BY <3>1, <3>2, <3>3 DEF OwnNumbers
    <2>10. ASSUME NEW t \in Senders, spc'[t] = "sending" PROVE NoneCut(wire', of'[t].id)
      <3>1. CASE t = s
        <4>1. \A k \in 1..Len(wire) : wire[k].msg.id # m.id BY <1>4, <2>2
        <4> QED BY <1>2, <2>5, <3>1, <4>1 DEF NoneCut
      <3>2. CASE t # s BY <1>2, <2>6, <2>10, <3>2 DEF OutInv
      <3> QED BY <3>1, <3>2
    <2>8. ASSUME NEW t \in Senders, spc'[t] = "sending" PROVE Counts(t)'
      <3>1. CASE t = s BY <1>1, <2>2, <2>5, <3>1 DEF Counts
      <3>2. CASE t # s BY <2>6, <2>8, <3>2 DEF OutInv, Counts
      <3> QED BY <3>1, <3>2
    <2>9. ASSUME NEW t \in Senders, spc'[t] # "idle"
          PROVE  Holds(wire', of'[t].id, final_len_sent'[t], of'[t].len)
      <3>1. CASE t = s
        <4>1. wire \in Seq(WireFrames) /\ m.id \in Nat
          BY <1>1, <2>2 DEF OutInv, OutType
        <4>2. \A k \in 1..Len(wire) : wire[k].msg.id # m.id BY <1>4, <2>2
        <4>3. m.len \in Nat BY <1>1, <2>2
        <4>4. Holds(wire, m.id, 0, m.len) BY <4>1, <4>2, <4>3, HoldsNone
        <4> QED BY <1>2, <2>5, <3>1, <4>4
      <3>2. CASE t # s BY <1>2, <2>6, <2>9, <3>2 DEF OutInv
      <3> QED BY <3>1, <3>2
    <2> QED BY <2>4, <2>7, <2>8, <2>9, <2>10 DEF OutInv
  <1> QED BY <1>6, <1>7

\* The frame and what is left of the message.
LEMMA FrameFollows ==
  ASSUME OutConstants, OutInv, NEW s \in Senders, spc[s] = "sending", length[s] > 0,
         NEW cut \in BOOLEAN
  PROVE  \E f \in WireFrames :
            /\ f = Out!Frame(s, cut) /\ f.cut = cut /\ f.msg = of[s] /\ f.at = final_len_sent[s]
            /\ f.len = Out!len_to_send(s) /\ f.len <= length[s]
            /\ f.type = IF final_len_sent[s] = 0 THEN "BINARY" ELSE "CONTINUATION"
            /\ f.final <=> (final_len_sent[s] + f.len = of[s].len)
  <1>1. Counts(s) BY DEF OutInv
  <1>2. /\ length[s] \in Nat /\ final_len_sent[s] \in Nat /\ of[s] \in Messages
        /\ frame_type[s] \in {"BINARY", "CONTINUATION"} /\ MAX_SEND_SIZE \in Nat \ {0}
    BY DEF OutInv, OutType, OutConstants
  <1>3. of[s].len \in Nat BY <1>2 DEF Messages
  <1>4. PICK d \in 1..MAX_SEND_SIZE : d = Out!len_to_send(s) /\ d <= length[s]
    BY <1>2 DEF Out!len_to_send
  <1>5. PICK b \in BOOLEAN : b = Out!is_final(s) BY Zenon DEF Out!is_final
  <1>6. b <=> (final_len_sent[s] + d = of[s].len)
    <2>1. b <=> (length[s] - d = 0) BY <1>4, <1>5, Zenon DEF Out!is_final
    <2>2. length[s] + final_len_sent[s] = of[s].len BY <1>1 DEF Counts
    <2>3. (length[s] - d = 0) <=> (final_len_sent[s] + d = of[s].len) BY <1>2, <1>3, <2>2
    <2> QED BY <2>1, <2>3, Zenon
  <1>7. cp[s] = final_len_sent[s] BY <1>1 DEF Counts
  <1>8. PICK f : f = [msg |-> of[s], at |-> final_len_sent[s], len |-> d,
                      type |-> frame_type[s], final |-> b, cut |-> cut]
    OBVIOUS
  <1>9. f = Out!Frame(s, cut) BY <1>4, <1>5, <1>7, <1>8 DEF Out!Frame
  <1>10. f \in WireFrames BY <1>2, <1>8 DEF WireFrames
  <1>11. /\ f.msg = of[s] /\ f.at = final_len_sent[s] /\ f.len = d /\ f.type = frame_type[s]
         /\ f.final = b /\ f.cut = cut
    BY <1>8
  <1>12. f.type = IF final_len_sent[s] = 0 THEN "BINARY" ELSE "CONTINUATION"
    BY <1>1, <1>11 DEF Counts
  <1>13. f.final <=> (final_len_sent[s] + f.len = of[s].len) BY <1>6, <1>11, Zenon
  <1>14. f.len = Out!len_to_send(s) /\ f.len <= length[s] BY <1>4, <1>11
  <1> QED BY <1>9, <1>10, <1>11, <1>12, <1>13, <1>14

\* A frame has the number of its message.
LEMMA NumbersKept ==
  ASSUME OutInv, NEW s \in Senders, NEW f \in WireFrames, f.msg = of[s],
         wire' = Append(wire, f), UNCHANGED <<of, sent>>,
         \A t \in Senders : spc'[t] # "idle" => spc[t] # "idle"
  PROVE  OwnNumbers'
  <1>1. wire \in Seq(WireFrames) BY DEF OutInv, OutType
  <1>2. PICK L \in Nat, v \in Seq(WireFrames) :
          /\ L = Len(wire) /\ v = Append(wire, f) /\ Len(v) = L + 1 /\ v[L + 1] = f
          /\ \A k \in 1..L : v[k] = wire[k]
          /\ \A k : k \in 1..(L + 1) <=> (k \in 1..L \/ k = L + 1)
    BY ONLY WireAppend, <1>1, f \in WireFrames, Zenon
  <1>3. of[s].id <= sent BY DEF OutInv, OwnNumbers
  <1>4. \A k \in 1..(L + 1) : v[k].msg.id <= sent
    BY <1>2, <1>3 DEF OutInv, OwnNumbers
  <1> QED BY <1>2, <1>4 DEF OutInv, OwnNumbers

LEMMA FrameGoesOut ==
  ASSUME OutConstants, OutInv, NEW s \in Senders, Out!FrameSent(s)
  PROVE  OutInv'
  <1>1. spc[s] = "sending" /\ length[s] > 0 BY DEF Out!FrameSent
  <1>2. PICK f \in WireFrames :
            /\ f = Out!Frame(s, FALSE) /\ f.cut = FALSE /\ f.msg = of[s] /\ f.at = final_len_sent[s]
            /\ f.len = Out!len_to_send(s) /\ f.len <= length[s]
            /\ f.type = IF final_len_sent[s] = 0 THEN "BINARY" ELSE "CONTINUATION"
            /\ f.final <=> (final_len_sent[s] + f.len = of[s].len)
    BY <1>1, FrameFollows, Zenon
  <1>3. PICK d \in Nat : d = f.len /\ d > 0 BY DEF WireFrames
  <1>4. /\ wire' = Append(wire, f) /\ UNCHANGED <<online, spc, of, sent>>
        /\ cp' = [cp EXCEPT ![s] = @ + d]
        /\ length' = [length EXCEPT ![s] = @ - d]
        /\ final_len_sent' = [final_len_sent EXCEPT ![s] = @ + d]
        /\ frame_type' = [frame_type EXCEPT ![s] = "CONTINUATION"]
    BY <1>2, <1>3 DEF Out!FrameSent
  <1>5. /\ length[s] \in Nat /\ final_len_sent[s] \in Nat /\ wire \in Seq(WireFrames)
        /\ Counts(s) /\ of[s].len \in Nat /\ sent \in Nat
    BY <1>1 DEF OutInv, OutType, Messages
  <1>6. \A t \in Senders : of[t].id \in Nat /\ of[t].len \in Nat /\ final_len_sent[t] \in Nat
    BY DEF OutInv, OutType, Messages
  <1>7. /\ cp'[s] = cp[s] + d /\ length'[s] = length[s] - d
        /\ final_len_sent'[s] = final_len_sent[s] + d /\ frame_type'[s] = "CONTINUATION"
    BY <1>4 DEF OutInv, OutType
  <1>8. \A t \in Senders : t # s =>
          /\ cp'[t] = cp[t] /\ length'[t] = length[t] /\ frame_type'[t] = frame_type[t]
          /\ final_len_sent'[t] = final_len_sent[t]
    BY <1>4 DEF OutInv, OutType
  <1>9. OutType'
    <2>1. wire' \in Seq(WireFrames) BY <1>4, <1>5
    <2>0. d <= length[s] BY <1>2, <1>3, Zenon
    <2>2. length[s] - d \in Nat /\ final_len_sent[s] + d \in Nat BY <1>3, <1>5, <2>0
    <2>3. length' \in [Senders -> Nat] /\ final_len_sent' \in [Senders -> Nat]
      BY <1>4, <2>2 DEF OutInv, OutType
    <2> QED BY <1>4, <2>1, <2>3 DEF OutInv, OutType
  <1>10. OwnNumbers' BY <1>2, <1>4, NumbersKept
  <1>11. ASSUME NEW t \in Senders, spc'[t] = "sending" PROVE Counts(t)'
    <2>1. CASE t = s BY <1>2, <1>3, <1>4, <1>5, <1>7, <2>1 DEF Counts
    <2>2. CASE t # s BY <1>4, <1>8, <1>11, <2>2 DEF OutInv, Counts
    <2> QED BY <2>1, <2>2
  <1>12. ASSUME NEW t \in Senders, spc'[t] # "idle"
         PROVE  /\ Holds(wire', of'[t].id, final_len_sent'[t], of'[t].len)
                /\ spc'[t] = "sending" => NoneCut(wire', of'[t].id)
    <2>1. /\ Holds(wire, of[t].id, final_len_sent[t], of[t].len)
          /\ spc'[t] = "sending" => NoneCut(wire, of[t].id)
      BY <1>4, <1>12 DEF OutInv
    <2>2. CASE t = s
      <3>1. NoneCut(wire, of[s].id) BY <1>1 DEF OutInv
      <3>2. /\ Holds(Append(wire, f), of[s].id, final_len_sent[s] + f.len, of[s].len)
            /\ NoneCut(Append(wire, f), of[s].id)
        BY <1>2, <1>5, <1>6, <2>1, <2>2, <3>1, HoldsNext
      <3> QED BY <1>3, <1>4, <1>7, <2>2, <3>2
    <2>3. CASE t # s
      <3>1. of[s].id # of[t].id BY <1>1, <1>4, <1>12, <2>3 DEF OutInv, OwnNumbers
      <3>2. /\ Holds(Append(wire, f), of[t].id, final_len_sent[t], of[t].len)
            /\ NoneCut(wire, of[t].id) => NoneCut(Append(wire, f), of[t].id)
        BY <1>2, <1>5, <1>6, <2>1, <3>1, HoldsOther
      <3> QED BY <1>4, <1>8, <2>1, <2>3, <3>2
    <2> QED BY <2>2, <2>3
  <1> QED BY <1>9, <1>10, <1>11, <1>12 DEF OutInv

\* A frame of which only a part goes out ends its call.
LEMMA FrameIsCut ==
  ASSUME OutConstants, OutInv, OutType', NEW s \in Senders, spc[s] = "sending", length[s] > 0,
         wire' = Append(wire, Out!Frame(s, TRUE)), UNCHANGED <<final_len_sent, of, sent>>,
         spc'[s] = "returned",
         \A t \in Senders : t # s =>
            /\ spc'[t] = spc[t] /\ cp'[t] = cp[t] /\ length'[t] = length[t]
            /\ frame_type'[t] = frame_type[t]
  PROVE  OutInv'
  <1>1. PICK f \in WireFrames :
            /\ f = Out!Frame(s, TRUE) /\ f.cut = TRUE /\ f.msg = of[s] /\ f.at = final_len_sent[s]
            /\ f.len = Out!len_to_send(s) /\ f.len <= length[s]
            /\ f.type = IF final_len_sent[s] = 0 THEN "BINARY" ELSE "CONTINUATION"
            /\ f.final <=> (final_len_sent[s] + f.len = of[s].len)
    BY FrameFollows, Zenon
  <1>2. /\ wire \in Seq(WireFrames) /\ wire' = Append(wire, f)
        /\ \A t \in Senders : of[t].id \in Nat /\ of[t].len \in Nat /\ final_len_sent[t] \in Nat
    BY <1>1 DEF OutInv, OutType, Messages
  <1>3. OwnNumbers' BY <1>1, <1>2, NumbersKept
  <1>4. ASSUME NEW t \in Senders, spc'[t] = "sending" PROVE Counts(t)'
    BY <1>4 DEF OutInv, Counts
  <1>5. ASSUME NEW t \in Senders, spc'[t] # "idle"
        PROVE  /\ Holds(wire', of'[t].id, final_len_sent'[t], of'[t].len)
               /\ spc'[t] = "sending" => NoneCut(wire', of'[t].id)
    <2>1. /\ Holds(wire, of[t].id, final_len_sent[t], of[t].len)
          /\ spc'[t] = "sending" => NoneCut(wire, of[t].id)
      BY <1>5 DEF OutInv
    <2>2. CASE t = s
      <3>1. NoneCut(wire, of[s].id) BY DEF OutInv
      <3>2. final_len_sent[s] < of[s].len
        <4>1. length[s] + final_len_sent[s] = of[s].len BY DEF OutInv, Counts
        <4>2. length[s] \in Nat BY DEF OutInv, OutType
        <4> QED BY <1>2, <4>1, <4>2
      <3>3. Holds(Append(wire, f), of[s].id, final_len_sent[s], of[s].len)
        BY <1>1, <1>2, <2>1, <2>2, <3>1, <3>2, HoldsCut
      <3> QED BY <1>2, <2>2, <3>3
    <2>3. CASE t # s
      <3>1. of[s].id # of[t].id BY <1>5, <2>3 DEF OutInv, OwnNumbers
      <3>2. /\ Holds(Append(wire, f), of[t].id, final_len_sent[t], of[t].len)
            /\ NoneCut(wire, of[t].id) => NoneCut(Append(wire, f), of[t].id)
        BY <1>1, <1>2, <2>1, <3>1, HoldsOther
      <3> QED BY <1>2, <2>1, <2>3, <3>2
    <2> QED BY <2>2, <2>3
  <1> QED BY <1>3, <1>4, <1>5 DEF OutInv

\* A step that ends or leaves a call, or changes the connection's state only, keeps what
\* the calls under way have sent.
LEMMA NothingSent ==
  ASSUME OutInv, OutType', UNCHANGED <<final_len_sent, of, sent>>,
         wire' = wire \/ (wire' = <<>> /\ \A s \in Senders : spc'[s] = "idle"),
         \A s \in Senders : spc'[s] # "idle" => spc[s] # "idle",
         \A s \in Senders : spc'[s] = "sending" =>
            /\ spc[s] = "sending" /\ cp'[s] = cp[s] /\ length'[s] = length[s]
            /\ frame_type'[s] = frame_type[s]
  PROVE  OutInv'
  <1>1. OwnNumbers'
    <2>1. \A k \in 1..Len(wire') : wire'[k].msg.id <= sent' BY DEF OutInv, OwnNumbers
    <2> QED BY <2>1 DEF OutInv, OwnNumbers
  <1>2. \A s \in Senders : spc'[s] = "sending" => Counts(s)' /\ NoneCut(wire', of'[s].id)
    BY DEF OutInv, Counts
  <1>3. \A s \in Senders : spc'[s] # "idle" =>
            Holds(wire', of'[s].id, final_len_sent'[s], of'[s].len)
    BY DEF OutInv
  <1> QED BY <1>1, <1>2, <1>3 DEF OutInv

LEMMA OutInvAlways == ASSUME OutConstants PROVE Out!Spec => []OutInv
  <1>1. Out!Init => OutInv
    <2> SUFFICES ASSUME Out!Init PROVE OutInv OBVIOUS
    <2>1. Out!NoMsg \in Messages /\ Out!NoMsg.id = 0 BY DEF Out!NoMsg, Messages
    <2>2. online \in BOOLEAN BY Zenon DEF Out!Init
    <2>3. OutType BY <2>1, <2>2 DEF Out!Init, OutType, OutConstants
    <2>4. OwnNumbers BY <2>1 DEF Out!Init, OwnNumbers
    <2>5. \A s \in Senders : spc[s] = "idle" BY DEF Out!Init
    <2> QED BY <2>3, <2>4, <2>5 DEF OutInv
  <1>2. OutInv /\ [Out!Next]_(Out!vars) => OutInv'
    <2> SUFFICES ASSUME OutInv, [Out!Next]_(Out!vars) PROVE OutInv' OBVIOUS
    <2>1. ASSUME NEW s \in Senders, NEW n \in Lengths, Out!sendMessage(s, n) PROVE OutInv'
      BY <2>1, SendBegins
    <2>2. ASSUME NEW s \in Senders, Out!FrameSent(s) PROVE OutInv' BY <2>2, FrameGoesOut
    <2>3. ASSUME NEW s \in Senders, Out!SendDone(s) PROVE OutInv'
      <3>1. OutType' BY <2>3 DEF Out!SendDone, Out!Return, OutInv, OutType
      <3>2. \A t \in Senders : spc'[t] = IF t = s THEN "returned" ELSE spc[t]
        BY <2>3 DEF Out!SendDone, Out!Return, OutInv, OutType
      <3>3. /\ UNCHANGED <<online, cp, length, frame_type, final_len_sent, wire, of, sent>>
            /\ spc[s] = "sending"
        BY <2>3 DEF Out!SendDone
      <3> QED BY <3>1, <3>2, <3>3, NothingSent
    <2>4. ASSUME NEW s \in Senders, Out!SendFails(s) PROVE OutInv'
      <3>1. /\ UNCHANGED <<online, frame_type, final_len_sent, of, sent>>
            /\ wire' = wire \/ wire' = Append(wire, Out!Frame(s, TRUE))
            /\ spc[s] = "sending" /\ length[s] > 0
            /\ spc' = [spc EXCEPT ![s] = "returned"] /\ cp' = [cp EXCEPT ![s] = Out!NULL]
        BY <2>4 DEF Out!SendFails, Out!Return
      <3>2. Out!len_to_send(s) \in Nat /\ Out!len_to_send(s) <= length[s]
        BY DEF Out!len_to_send, OutInv, OutType, OutConstants
      <3>3. length[s] - Out!len_to_send(s) \in Nat BY <3>2 DEF OutInv, OutType
      <3>4. /\ length' \in [Senders -> Nat]
            /\ \A t \in Senders : t # s => length'[t] = length[t]
        BY <2>4, <3>3 DEF Out!SendFails, OutInv, OutType
      <3>5. wire' \in Seq(WireFrames)
        <4>1. wire \in Seq(WireFrames) BY DEF OutInv, OutType
        <4>2. PICK f \in WireFrames : f = Out!Frame(s, TRUE) BY <3>1, FrameFollows, Zenon
        <4>3. Append(wire, f) \in Seq(WireFrames) BY ONLY <4>1, f \in WireFrames
        <4> QED BY <3>1, <4>1, <4>2, <4>3, Zenon
      <3>7. OutType' BY <3>1, <3>4, <3>5 DEF OutInv, OutType
      <3>6. \A t \in Senders : /\ spc'[t] = IF t = s THEN "returned" ELSE spc[t]
                               /\ t # s => cp'[t] = cp[t]
        BY <3>1 DEF OutInv, OutType
      <3>8. CASE wire' = wire BY <3>1, <3>4, <3>6, <3>7, <3>8, NothingSent
      <3>9. CASE wire' = Append(wire, Out!Frame(s, TRUE))
        BY <3>1, <3>4, <3>6, <3>7, <3>9, FrameIsCut
      <3> QED BY <3>1, <3>8, <3>9
    <2>5. ASSUME NEW s \in Senders, Out!SendReturned(s) PROVE OutInv'
      <3>1. OutType' BY <2>5 DEF Out!SendReturned, OutInv, OutType
      <3>2. \A t \in Senders : spc'[t] = IF t = s THEN "idle" ELSE spc[t]
        BY <2>5 DEF Out!SendReturned, OutInv, OutType
      <3>3. UNCHANGED <<online, cp, length, frame_type, final_len_sent, wire, of, sent>>
        BY <2>5 DEF Out!SendReturned
      <3> QED BY <3>1, <3>2, <3>3, NothingSent
    <2>6. CASE Out!GoesOffline
      <3>1. online' \in BOOLEAN BY <2>6, Zenon DEF Out!GoesOffline
      <3>2. UNCHANGED <<spc, cp, length, frame_type, final_len_sent, wire, of, sent>>
        BY <2>6 DEF Out!GoesOffline
      <3>3. OutType' BY <3>1, <3>2 DEF OutInv, OutType
      <3> QED BY <3>2, <3>3, NothingSent
    <2>7. CASE Out!GoesOnline
      <3>1. online' \in BOOLEAN BY <2>7, Zenon DEF Out!GoesOnline
      <3>2. /\ UNCHANGED <<spc, cp, length, frame_type, final_len_sent, of, sent>>
            /\ wire' = <<>> /\ \A t \in Senders : spc[t] = "idle"
        BY <2>7 DEF Out!GoesOnline
      <3>3. OutType' BY <3>1, <3>2 DEF OutInv, OutType
      <3> QED BY <3>2, <3>3, NothingSent
    <2>8. CASE UNCHANGED Out!vars
      <3>1. UNCHANGED <<online, spc, cp, length, frame_type, final_len_sent, wire, of, sent>>
        BY <2>8 DEF Out!vars
      <3>2. OutType' BY <3>1 DEF OutInv, OutType
      <3> QED BY <3>1, <3>2, NothingSent
    <2> QED BY <2>1, <2>2, <2>3, <2>4, <2>5, <2>6, <2>7, <2>8, Zenon DEF Out!Next
  <1> QED BY <1>1, <1>2, PTL DEF Out!Spec

\* When sendResponse returns, its result says which bytes of the message are on the
\* connection in whole frames, these are as the protocol wants them, and at most one more,
\* the last, is there in part, for any senders, lengths and limit (nopoll_helpers.c,
\* sendResponse).
THEOREM ResultIsTrue == FramingSpec => []ResultTells
  <1>1. OutInv => Out!TypeOK /\ Out!ResultTells
    <2> SUFFICES ASSUME OutInv PROVE Out!TypeOK /\ Out!ResultTells OBVIOUS
    <2>1. Out!TypeOK
      <3>1. \A s \in Senders : spc[s] = "sending" => cp[s] \in Nat
        BY DEF OutInv, OutType, Counts
      <3>2. wire \in Seq(WireFrames) BY DEF OutInv, OutType
      <3>3. \A k \in 1..Len(wire) : wire[k].len \in 1..MAX_SEND_SIZE BY <3>2, FrameFields
      <3>4. online \in BOOLEAN BY DEF OutInv, OutType
      <3> QED BY <3>1, <3>3, <3>4 DEF OutInv, OutType, Out!TypeOK
    <2>2. ASSUME NEW s \in Senders, spc[s] = "returned"
          PROVE  LET mine == Out!FramesOf(of[s].id) IN
                 /\ \A b \in 0..(final_len_sent[s] - 1) :
                       \E k \in mine : /\ ~wire[k].cut /\ wire[k].at <= b
                                       /\ b < Out!End(wire[k])
                 /\ \A k \in mine :
                       /\ IF wire[k].cut
                          THEN wire[k].at = final_len_sent[s] /\ final_len_sent[s] < of[s].len
                          ELSE Out!End(wire[k]) <= final_len_sent[s]
                       /\ wire[k].type = IF wire[k].at = 0 THEN "BINARY" ELSE "CONTINUATION"
                       /\ wire[k].final <=> (Out!End(wire[k]) = of[s].len)
                 /\ \A j, k \in mine : j < k => Out!End(wire[j]) <= wire[k].at
      <3>1. Holds(wire, of[s].id, final_len_sent[s], of[s].len) BY <2>2 DEF OutInv
      <3> QED BY <3>1 DEF Holds, InPlace, Out!FramesOf, Out!End
    <2> QED BY <2>1, <2>2, Zenon DEF Out!ResultTells
  <1>2. FramingInit => Out!Init BY DEF FramingInit
  <1>3. [FramingNext]_framingVars => [Out!Next]_Out!vars
    BY DEF FramingNext, Receive, Transmit, framingVars, outVars, Out!vars
  <1>4. OutConstants BY FramingAssumption
  <1>5. Out!Spec => []OutInv BY <1>4, OutInvAlways
  <1>6. OutInv => ResultTells BY <1>1 DEF ResultTells
  <1> QED BY <1>2, <1>3, <1>5, <1>6, PTL DEF FramingSpec, Out!Spec
=============================================================================
