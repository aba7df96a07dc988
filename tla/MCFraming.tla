------------------------------ MODULE MCFraming ------------------------------
(* Enough messages and losses that a message follows what two connections     *)
(* left; lengths around one and two times the limit, and the empty message.   *)
EXTENDS Framing

MCSenders == {"upstream", "downstream"}
-----------------------------------------------------------------------------
(* What the code does not keep: no run checks these, TLC refutes them with     *)
(* the constants of Framing.                                                  *)

\* Every message on the queue is one the cloud has sent, with all its frames and no
\* others.
QueuedWhole == \A k \in 1..Len(queue) : In!Whole(queue[k])

\* What sendResponse returns counts every byte of the message that was written.
AllCounted ==
    \A s \in Senders : spc[s] = "returned" =>
        \A k \in Out!FramesOf(of[s].id) : ~wire[k].cut

\* The frames of a message come one after the other, with no frame of another message
\* between them.
FramesTogether ==
    \A k, l, n \in 1..Len(wire) :
        k < l /\ l < n /\ wire[k].msg = wire[n].msg => wire[l].msg = wire[k].msg
=============================================================================
