----------------------------- MODULE SendFrames -----------------------------
(***************************************************************************)
(* sendMessage and sendResponse: a message of more than MAX_SEND_SIZE      *)
(* bytes is sent in several frames.  Any of the Senders may be in the call *)
(* at a time: the upstream thread, and the downstream thread that answers  *)
(* a request it cannot deliver.  nopoll locks the connection for one       *)
(* frame.                                                                  *)
(***************************************************************************)
EXTENDS Naturals, Sequences

CONSTANTS
    Senders,         \* threads
    Lengths,         \* lengths of messages
    MAX_SEND_SIZE,
    MaxMsgs          \* messages sent, at most

VARIABLES
    online,          \* cloud_status
    pc,              \* sender -> "idle", "sending", "returned"
    cp,              \* sender -> where in the buffer the next frame begins
    length,          \* sender -> bytes still to be sent
    frame_type,      \* sender -> "BINARY" or "CONTINUATION"
    final_len_sent,  \* sender -> the result of sendResponse
    wire,            \* the frames on the connection
    of,              \* sender -> the message it sends: its number and its length
    sent             \* messages so far

vars == <<online, pc, cp, length, frame_type, final_len_sent, wire, of, sent>>

NoMsg == [id |-> 0, len |-> 0]
NULL == "NULL"

Init ==
    /\ online = TRUE /\ wire = <<>> /\ sent = 0
    /\ pc = [s \in Senders |-> "idle"]
    /\ cp = [s \in Senders |-> NULL]
    /\ length = [s \in Senders |-> 0] /\ final_len_sent = [s \in Senders |-> 0]
    /\ frame_type = [s \in Senders |-> "BINARY"]
    /\ of = [s \in Senders |-> NoMsg]

sendMessage(s, n) ==
    /\ pc[s] = "idle" /\ sent < MaxMsgs
    /\ sent' = sent + 1
    /\ IF online
       THEN /\ pc' = [pc EXCEPT ![s] = "sending"]
            /\ of' = [of EXCEPT ![s] = [id |-> sent + 1, len |-> n]]
            /\ cp' = [cp EXCEPT ![s] = 0]
            /\ length' = [length EXCEPT ![s] = n]
            /\ final_len_sent' = [final_len_sent EXCEPT ![s] = 0]
            /\ frame_type' = [frame_type EXCEPT ![s] = "BINARY"]
       ELSE UNCHANGED <<pc, of, cp, length, final_len_sent, frame_type>>
    /\ UNCHANGED <<online, wire>>

len_to_send(s) == IF length[s] > MAX_SEND_SIZE THEN MAX_SEND_SIZE ELSE length[s]

\* Mutant of is_final: a frame is final if it is shorter than the limit.
is_final_short(s) == len_to_send(s) < MAX_SEND_SIZE

\* The frame holds all that is left.
is_final(s) == length[s] - len_to_send(s) = 0

\* cut: only a part of it was written before the flush failed (how much is left open,
\* and whether nopoll writes the rest before its next frame).
Frame(s, cut) == [msg |-> of[s], at |-> cp[s], len |-> len_to_send(s), type |-> frame_type[s],
                  final |-> is_final(s), cut |-> cut]

\* The frame goes out whole, at once or after nopoll_conn_flush_writes.
FrameSent(s) ==
    /\ pc[s] = "sending" /\ length[s] > 0
    /\ wire' = Append(wire, Frame(s, FALSE))
    /\ cp' = [cp EXCEPT ![s] = @ + len_to_send(s)]
    /\ length' = [length EXCEPT ![s] = @ - len_to_send(s)]
    /\ final_len_sent' = [final_len_sent EXCEPT ![s] = @ + len_to_send(s)]
    /\ frame_type' = [frame_type EXCEPT ![s] = "CONTINUATION"]
    /\ UNCHANGED <<online, pc, of, sent>>

Return(s) == pc' = [pc EXCEPT ![s] = "returned"]

SendDone(s) ==
    /\ pc[s] = "sending" /\ length[s] = 0 /\ Return(s)
    /\ UNCHANGED <<online, cp, length, frame_type, final_len_sent, wire, of, sent>>

\* The frame cannot be sent, or not all of it in FLUSH_WAIT_TIME: the rest of the
\* message is given up, and what was written of the frame is not counted.
SendFails(s) ==
    /\ pc[s] = "sending" /\ length[s] > 0 /\ Return(s)
    /\ cp' = [cp EXCEPT ![s] = NULL]
    /\ length' = [length EXCEPT ![s] = @ - len_to_send(s)]
    /\ UNCHANGED wire \/ wire' = Append(wire, Frame(s, TRUE))
    /\ UNCHANGED <<online, frame_type, final_len_sent, of, sent>>

\* sendMessage logs a failure; the caller goes on either way.
SendReturned(s) ==
    /\ pc[s] = "returned" /\ pc' = [pc EXCEPT ![s] = "idle"]
    /\ UNCHANGED <<online, cp, length, frame_type, final_len_sent, wire, of, sent>>

\* close_and_unref_connection, and a new connection: what was being sent on the old
\* one has failed by then.
GoesOffline ==
    /\ online /\ online' = FALSE
    /\ UNCHANGED <<pc, cp, length, frame_type, final_len_sent, wire, of, sent>>

GoesOnline ==
    /\ ~online /\ \A s \in Senders : pc[s] = "idle"
    /\ online' = TRUE /\ wire' = <<>>
    /\ UNCHANGED <<pc, cp, length, frame_type, final_len_sent, of, sent>>

Next ==
    \/ \E s \in Senders : \/ \E n \in Lengths : sendMessage(s, n)
                          \/ FrameSent(s) \/ SendDone(s) \/ SendFails(s) \/ SendReturned(s)
    \/ GoesOffline \/ GoesOnline

Spec == Init /\ [][Next]_vars
-----------------------------------------------------------------------------
\* Where on the connection the frames of a message are.
FramesOf(id) == {k \in 1..Len(wire) : wire[k].msg.id = id}

\* Where in the message a frame ends.
End(f) == f.at + f.len

\* Type invariant; no frame is empty or above the limit.
TypeOK ==
    /\ online \in BOOLEAN /\ sent \in 0..MaxMsgs
    /\ \A s \in Senders : /\ pc[s] \in {"idle", "sending", "returned"}
                          /\ pc[s] = "sending" => cp[s] \in Nat
                          /\ length[s] \in Nat /\ final_len_sent[s] \in Nat
                          /\ frame_type[s] \in {"BINARY", "CONTINUATION"}
    /\ \A k \in 1..Len(wire) : wire[k].len \in 1..MAX_SEND_SIZE

\* The result of sendResponse counts the bytes of the message that are on the
\* connection in whole frames: all those before it and no others, each once and in
\* order, in a binary frame first and continuations after it, of which the one that
\* ends the message, and only that one, is final.  A frame that is cut begins where the
\* count ends, is the last of the message, and the count is less than its length then.
ResultTells ==
    \A s \in Senders : pc[s] = "returned" =>
        LET mine == FramesOf(of[s].id) IN
        /\ \A b \in 0..(final_len_sent[s] - 1) :
              \E k \in mine : ~wire[k].cut /\ wire[k].at <= b /\ b < End(wire[k])
        /\ \A k \in mine :
              /\ IF wire[k].cut
                 THEN wire[k].at = final_len_sent[s] /\ final_len_sent[s] < of[s].len
                 ELSE End(wire[k]) <= final_len_sent[s]
              /\ wire[k].type = IF wire[k].at = 0 THEN "BINARY" ELSE "CONTINUATION"
              /\ wire[k].final <=> (End(wire[k]) = of[s].len)
        /\ \A j, k \in mine : j < k => End(wire[j]) <= wire[k].at
=============================================================================
