------------------------------ MODULE Fragments ------------------------------
(***************************************************************************)
(* listenerOnMessage_queue: the frames of a message of the cloud are       *)
(* joined in previous_msg until the final one, and the message is put on   *)
(* the queue (whose locking and consumer MsgQueues models).  The           *)
(* connection may be lost between two frames, and memory may be short for  *)
(* the message on the queue and for the join of nopoll.                    *)
(*                                                                         *)
(* The cloud keeps to the WebSocket protocol: on one connection, the       *)
(* frames of a message come in order and without others between them.      *)
(***************************************************************************)
EXTENDS Naturals, Sequences, FiniteSets

CONSTANTS MaxMsgs,     \* messages the cloud begins to send
          MaxFrames,   \* frames of a message, at most
          MaxLosses,   \* connections lost
          MaxFails     \* joins that fail

VARIABLES
    msg,            \* messages the cloud has begun
    part,           \* frames it has sent of the last; 0 if that is complete
    previous_msg,   \* the frames joined so far; <<>> is NULL
    queue,          \* messages put on the queue
    losses,
    fails           \* joins that failed

vars == <<msg, part, previous_msg, queue, losses, fails>>

Frames == [msg : 1..MaxMsgs, part : 1..MaxFrames, final : BOOLEAN]

Init == msg = 0 /\ part = 0 /\ previous_msg = <<>> /\ queue = <<>> /\ losses = 0
        /\ fails = 0

\* A message is a fragment unless it is both the first and the final frame.
nopoll_msg_is_fragment(f) == ~(f.part = 1 /\ f.final)

\* previous_msg after nopoll_msg_join, whose result is not checked: NULL when memory is
\* short, and what was joined before is released with it.
joined(f, ok) ==
    IF ~nopoll_msg_is_fragment(f) THEN previous_msg
    ELSE IF ok THEN Append(previous_msg, f) ELSE <<>>

\* Mutant of listenerOnMessage_queue: previous_msg is cleared only when it was not used.
listenerOnMessage_queue_keeps(f, ok) ==
    IF nopoll_msg_is_fragment(f) /\ ~f.final
    THEN previous_msg' = joined(f, ok) /\ UNCHANGED queue
    ELSE /\ UNCHANGED previous_msg
         /\ queue' = Append(queue, IF joined(f, ok) # <<>> THEN joined(f, ok) ELSE <<f>>)

\* What is queued is previous_msg if there is one, else the message; if malloc
\* fails, it is dropped.
listenerOnMessage_queue(f, ok) ==
    IF nopoll_msg_is_fragment(f) /\ ~f.final
    THEN previous_msg' = joined(f, ok) /\ UNCHANGED queue
    ELSE /\ previous_msg' = <<>>
         /\ \/ queue' = Append(queue, IF joined(f, ok) # <<>> THEN joined(f, ok) ELSE <<f>>)
            \/ UNCHANGED queue

\* The next frame of the message that is being sent, or the first of a new one; ok:
\* there is memory to join it.
FrameArrives(final, ok) ==
    /\ ok \/ (fails < MaxFails /\ ~(part = 0 /\ final))
    /\ part = 0 => msg < MaxMsgs
    /\ part + 1 = MaxFrames => final
    /\ msg' = IF part = 0 THEN msg + 1 ELSE msg
    /\ part' = IF final THEN 0 ELSE part + 1
    /\ listenerOnMessage_queue([msg |-> msg', part |-> part + 1, final |-> final], ok)
    /\ fails' = IF ok THEN fails ELSE fails + 1
    /\ UNCHANGED losses

\* Another connection follows; the cloud does not resume the message.
ConnectionLost ==
    /\ losses < MaxLosses /\ losses' = losses + 1
    /\ part' = 0
    /\ UNCHANGED <<msg, previous_msg, queue, fails>>

Next == (\E final, ok \in BOOLEAN : FrameArrives(final, ok)) \/ ConnectionLost

Spec == Init /\ [][Next]_vars
-----------------------------------------------------------------------------
Whole(m) == \A k \in 1..Len(m) : /\ m[k].msg = m[1].msg /\ m[k].part = k
                                 /\ m[k].final <=> (k = Len(m))

\* Type invariant; the frames held in previous_msg are of messages not complete yet.
TypeOK ==
    /\ msg \in 0..MaxMsgs /\ part \in 0..MaxFrames /\ losses \in 0..MaxLosses
    /\ fails \in 0..MaxFails
    /\ previous_msg \in Seq(Frames) /\ queue \in Seq(Seq(Frames))
    /\ \A k \in 1..Len(previous_msg) : ~previous_msg[k].final

\* A lost connection spoils at most one message: what the old connection left in
\* previous_msg goes out with, or instead of, the next message, and is gone then.  So
\* does a join that fails: the message goes out without the frames before it, or
\* without all but the last.
OneSpoiledPerFault == Cardinality({k \in 1..Len(queue) : ~Whole(queue[k])}) <= losses + fails
=============================================================================
