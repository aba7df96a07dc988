------------------------------ MODULE MsgFifo ------------------------------
(***************************************************************************)
(* What parodus' chain of message queues promises: messages of one path    *)
(* come out in the order in which they went in, each at most once.         *)
(***************************************************************************)
EXTENDS Naturals, Sequences

CONSTANTS Msgs, Path

VARIABLES fifo,   \* for every path, the messages on their way
          out     \* for every path, the messages that came out, oldest first

Paths == {Path[m] : m \in Msgs}

InFifo(m) == \E i \in 1..Len(fifo[Path[m]]) : fifo[Path[m]][i] = m
IsOut(m)  == \E i \in 1..Len(out[Path[m]]) : out[Path[m]][i] = m

Init == fifo = [p \in Paths |-> <<>>] /\ out = [p \in Paths |-> <<>>]

Accept(m) ==
    /\ ~InFifo(m) /\ ~IsOut(m)
    /\ fifo' = [fifo EXCEPT ![Path[m]] = Append(@, m)]
    /\ UNCHANGED out

Deliver(p) ==
    /\ fifo[p] # <<>>
    /\ fifo' = [fifo EXCEPT ![p] = Tail(@)]
    /\ out' = [out EXCEPT ![p] = Append(@, Head(fifo[p]))]

Next == (\E m \in Msgs : Accept(m)) \/ (\E p \in Paths : Deliver(p))

Spec == Init /\ [][Next]_<<fifo, out>>
=============================================================================
