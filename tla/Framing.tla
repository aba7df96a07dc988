------------------------------- MODULE Framing -------------------------------
(***************************************************************************)
(* Both directions of a connection: frames that arrive (Fragments) and     *)
(* frames that are sent (SendFrames).  They share no state, so that a      *)
(* behaviour is of one direction; nothing is lost by not interleaving      *)
(* them.                                                                   *)
(***************************************************************************)
EXTENDS Naturals, Sequences, FiniteSets

CONSTANTS
    MaxMsgs, MaxFrames, MaxLosses, MaxFails,  \* Fragments
    Senders, Lengths, MAX_SEND_SIZE, MaxSent  \* SendFrames

InConstants == /\ MaxMsgs \in Nat /\ MaxFrames \in Nat \ {0} /\ MaxLosses \in Nat
               /\ MaxFails \in Nat
OutConstants == Lengths \subseteq Nat /\ MAX_SEND_SIZE \in Nat \ {0} /\ MaxSent \in Nat

ASSUME FramingAssumption == InConstants /\ OutConstants

VARIABLES
    receiving,                                      \* the direction
    msg, part, previous_msg, queue, losses, fails,  \* Fragments
    online, spc, cp, length, frame_type, final_len_sent, wire, of, sent  \* SendFrames

In == INSTANCE Fragments
Out == INSTANCE SendFrames WITH pc <- spc, MaxMsgs <- MaxSent

inVars == <<msg, part, previous_msg, queue, losses, fails>>
outVars == <<online, spc, cp, length, frame_type, final_len_sent, wire, of, sent>>
framingVars == <<receiving, inVars, outVars>>

FramingInit == receiving \in BOOLEAN /\ In!Init /\ Out!Init

Receive == receiving /\ In!Next /\ UNCHANGED <<receiving, outVars>>
Transmit == ~receiving /\ Out!Next /\ UNCHANGED <<receiving, inVars>>

FramingNext == Receive \/ Transmit

FramingSpec == FramingInit /\ [][FramingNext]_framingVars
-----------------------------------------------------------------------------
\* listenerOnMessage_queue: a lost connection, and a join that fails for want of memory,
\* spoil at most one message each; what is kept for a message has no final frame.
OneSpoiledPerFault == In!TypeOK /\ In!OneSpoiledPerFault

\* sendResponse: its result tells which bytes of the message are on the connection in whole
\* frames, and so whether it is complete; a frame that is cut is the last of its message
\* and not counted; no frame is empty or above the limit.
ResultTells == Out!TypeOK /\ Out!ResultTells
=============================================================================
